--------------------------- MODULE SchedulerProofs ---------------------------
(***************************************************************************)
(* Proofs about Scheduler.tla for every value of its constants.  However   *)
(* schedule(), cancel(), reschedule(), delayed retries and callbacks       *)
(* interleave: the registry keeps its types and its key indexes; timers,   *)
(* interest sources and tickets agree with the job tables; and what        *)
(* callers see is the ledger of JobLedger.tla.                             *)
(*                                                                         *)
(* What each operator of the registry keeps is proved in QueueProofs.tla   *)
(* and QueueLedgerProofs.tla; here each step of the scheduler is shown to  *)
(* be a use of those operators.                                            *)
(***************************************************************************)
EXTENDS Scheduler, QueueLedgerProofs

\* The registry is sound, and the callback on the stack is one of its jobs.
Inv == Sound(q) /\ RunningTyped(q, running)

LEMMA InitInv == Init => Inv
<1>. SUFFICES ASSUME Init PROVE Inv
  OBVIOUS
<1>1. PICK on \in BOOLEAN : q = [EmptyQueue EXCEPT !.on = on]
  BY DEF Init
<1>2. /\ IsRegistry(q)
      /\ q.active = <<>> /\ q.keyJob = <<>> /\ q.delayed = <<>> /\ q.delayedKey = <<>>
      /\ q.armed = <<>> /\ q.fate = <<>> /\ q.sources = {} /\ q.on = on /\ q.next = 1
  BY <1>1 DEF EmptyQueue, IsRegistry
<1>3. DOMAIN <<>> = {}
  OBVIOUS
<1>4. QueueTyped(q)
  BY <1>2, <1>3 DEF QueueTyped, IdsBelow, RecordsTyped, TasksTyped, SourcesTyped
<1>5. KeysIndexed(q)
  BY <1>2, <1>3 DEF KeysIndexed
<1>. QED  BY <1>4, <1>5 DEF Inv, Sound, RunningTyped, Init

LEMMA NextInv == Inv /\ [Next]_vars => Inv'
<1>. SUFFICES ASSUME Inv, [Next]_vars PROVE Inv'
  OBVIOUS
<1>0. Sound(q) /\ RunningTyped(q, running)
  BY DEF Inv
<1>1. ASSUME NEW r \in Requests, Submit(r) PROVE Inv'
  <2>. DEFINE s == [r EXCEPT !.ticket = q.next]
  <2>1. Fits(q, s)
    BY <1>0, RequestsAssumption DEF Fits, Request, Sound, QueueTyped
  <2>2. q' = Schedule(q, s) /\ running' = running
    BY <1>1 DEF Submit
  <2>. HIDE DEF s
  <2>3. Later(q', q)
    BY <1>0, <2>1, <2>2, ScheduleLater
  <2>. QED  BY <1>0, <2>2, <2>3, RunningLater DEF Inv, Later
<1>2. ASSUME NEW k \in Keys, CancelKey(k) PROVE Inv'
  <2>1. Later(q', q) /\ running' = running
    BY <1>0, <1>2, CancelSmaller, SmallerIsLater DEF CancelKey, Fates, Withdrawn
  <2>. QED  BY <1>0, <2>1, RunningLater DEF Inv, Later
<1>3. ASSUME NEW k \in Keys, RescheduleKey(k) PROVE Inv'
  <2>1. Later(q', q) /\ running' = running
    BY <1>0, <1>3, RescheduleLater DEF RescheduleKey
  <2>. QED  BY <1>0, <2>1, RunningLater DEF Inv, Later
<1>4. ASSUME NEW j \in DOMAIN q.armed, Begin(j) PROVE Inv'
  <2>. DEFINE c == CancelTask(q, j)
              t == q.armed[j].ticket
  <2>1. q' = [c EXCEPT !.fate[t] = "running"] /\ running' = [job |-> j, ticket |-> t]
    BY <1>4 DEF Begin
  <2>2. Smaller(c, q)
    BY <1>0, CancelTaskSmaller
  <2>3. t \in DOMAIN q.fate /\ j \in Nat \ {0} /\ j < q.next /\ q.next \in Nat
    BY <1>0 DEF Sound, QueueTyped, TasksTyped, IdsBelow
  <2>. HIDE DEF c, t
  <2>4. Smaller(q', c)
    BY <2>1, <2>2, <2>3, SetFateSmaller DEF Smaller, Fates
  <2>5. Smaller(q', q)
    BY <2>2, <2>4, SmallerTrans
  <2>6. RunningTyped(q', running')
    BY <2>1, <2>3, <2>5 DEF RunningTyped, Smaller
  <2>. QED  BY <2>5, <2>6 DEF Inv, Smaller
<1>5. ASSUME NEW j \in DOMAIN q.armed, Retry(j) PROVE Inv'
  <2>. DEFINE c == CancelTask(q, j)
  <2>1. q' = RetryDelayed(c, j) /\ running' = running
    BY <1>5 DEF Retry
  <2>2. Smaller(c, q)
    BY <1>0, CancelTaskSmaller
  <2>. HIDE DEF c
  <2>3. Later(q', c) /\ Later(c, q)
    BY <1>0, <2>1, <2>2, RetryDelayedLater, SmallerIsLater DEF Smaller
  <2>4. Later(q', q)
    BY <1>0, <2>3, LaterTrans
  <2>. QED  BY <1>0, <2>1, <2>4, RunningLater DEF Inv, Later
<1>6. ASSUME Finish PROVE Inv'
  <2>. DEFINE c == PopJob(q, running.job)
  <2>1. q' = [c EXCEPT !.fate[running.ticket] = "ran"] /\ running' = None /\ running # None
    BY <1>6 DEF Finish
  <2>2. Smaller(c, q)
    BY <1>0, PopJobSmaller
  <2>3. running.ticket \in DOMAIN q.fate
    BY <1>0, <2>1 DEF RunningTyped
  <2>. HIDE DEF c
  <2>4. Smaller(q', c)
    BY <2>1, <2>2, <2>3, SetFateSmaller DEF Smaller, Fates
  <2>. QED  BY <2>1, <2>4 DEF Inv, Smaller, RunningTyped
<1>7. CASE UNCHANGED vars
  BY <1>0, <1>7 DEF Inv, vars
<1>. QED  BY <1>1, <1>2, <1>3, <1>4, <1>5, <1>6, <1>7 DEF Next

\* Every reachable registry and running callback is well typed: job ids and
\* tickets are never reused, and records keep what schedule() was given.
THEOREM TypeCorrect == Spec => []TypeOK
<1>1. Inv => TypeOK
  BY DEF Inv, Sound, TypeOK, RunningTyped
<1>. QED  BY <1>1, InitInv, NextInv, PTL DEF Spec

\* However schedule(), cancel(), reschedule(), delayed retries and callbacks
\* interleave, a key names at most one job and the indexes agree with the tables.
THEOREM KeyIndexCorrect == Spec => []KeyIndexSound
<1>1. Inv => KeyIndexSound
  BY DEF Inv, Sound, KeyIndexSound
<1>. QED  BY <1>1, InitInv, NextInv, PTL DEF Spec

-----------------------------------------------------------------------------
(* Timers, sources and tickets *)

Stack == IF running = None THEN {} ELSE {running}
RunningTicket == {s.ticket : s \in Stack}

\* The inductive invariant: between two steps no ticket is in hand.
TInv == Good(q, Stack, {}, {})

LEMMA InitTInv == Init => TInv
<1>. SUFFICES ASSUME Init PROVE TInv
  OBVIOUS
<1>1. PICK on \in BOOLEAN : q = [EmptyQueue EXCEPT !.on = on]
  BY DEF Init
<1>2. /\ q.active = <<>> /\ q.delayed = <<>> /\ q.armed = <<>> /\ q.fate = <<>>
      /\ q.sources = {} /\ running = None
  BY <1>1 DEF EmptyQueue, Init
<1>3. DOMAIN <<>> = {}
  OBVIOUS
<1>4. Sound(q)
  BY InitInv DEF Inv
<1>5. Timed(q, JobsOf({})) /\ Sourced(q, {}) /\ Ticketed(q, {}, {})
  BY <1>2, <1>3 DEF Timed, Sourced, Ticketed, JobsOf
<1>. QED  BY <1>2, <1>4, <1>5 DEF TInv, Good, Stack

LEMMA NextTInv == Inv /\ TInv /\ [Next]_vars => TInv'
<1>. SUFFICES ASSUME Inv, TInv, [Next]_vars PROVE TInv'
  OBVIOUS
<1>0. Good(q, Stack, {}, {}) /\ Sound(q)
  BY DEF TInv, Good
<1>a. Sound(q')
  BY NextInv DEF Inv
<1>b. ASSUME running' = running, Good(q', Stack, {}, {}) PROVE TInv'
  BY <1>b DEF TInv, Stack
<1>1. ASSUME NEW r \in Requests, Submit(r) PROVE TInv'
  <2>. DEFINE s == [r EXCEPT !.ticket = q.next]
  <2>1. Fits(q, s) /\ s.ticket = q.next
    BY <1>0, RequestsAssumption DEF Fits, Request, Sound, QueueTyped
  <2>2. q' = Schedule(q, s) /\ running' = running
    BY <1>1 DEF Submit
  <2>3. q.next \notin DOMAIN q.fate
    BY <1>0 DEF Sound, QueueTyped, IdsBelow
  <2>4. Ticketed(q, Stack, {q.next})
    BY <1>0, <2>3 DEF Good, Ticketed, Maps
  <2>. HIDE DEF s
  <2>5. Good(q, Stack, {s.ticket}, {})
    BY <1>0, <2>1, <2>4 DEF Good
  <2>6. Good(q', Stack, {}, {})
    BY <2>1, <2>2, <2>5, ScheduleGood
  <2>. QED  BY <1>b, <2>2, <2>6
<1>2. ASSUME NEW k \in Keys, CancelKey(k) PROVE TInv'
  <2>1. Good(q', Stack, {}, {}) /\ running' = running
    BY <1>0, <1>2, CancelGood DEF CancelKey, Fates, Withdrawn
  <2>. QED  BY <1>b, <2>1
<1>3. ASSUME NEW k \in Keys, RescheduleKey(k) PROVE TInv'
  <2>1. Good(q', Stack, {}, {}) /\ running' = running
    BY <1>0, <1>3, RescheduleGood DEF RescheduleKey
  <2>. QED  BY <1>b, <2>1
<1>4. ASSUME NEW j \in DOMAIN q.armed, Begin(j) PROVE TInv'
  <2>. DEFINE t == q.armed[j].ticket
  <2>1. /\ running = None /\ q.armed[j].kind = "run"
        /\ q' = [CancelTask(q, j) EXCEPT !.fate[t] = "running"]
        /\ running' = [job |-> j, ticket |-> t]
    BY <1>4 DEF Begin
  <2>2. Good(q, {}, {}, {})
    BY <1>0, <2>1 DEF Stack
  <2>3. j \in DOMAIN q.active
    BY <1>0, <2>1 DEF Good, Timed
  <2>4. Good(q', {} \cup {[job |-> j, ticket |-> t]}, {}, {})
    BY <1>a, <2>1, <2>2, <2>3, BeginGood
  <2>5. Stack' = {} \cup {[job |-> j, ticket |-> t]}
    <3>1. j \in Nat /\ t \in Nat
      BY <1>0 DEF Sound, QueueTyped, IdsBelow, TasksTyped
    <3>2. running' # None
      BY <2>1, <3>1, IdAssumption
    <3>. QED  BY <2>1, <3>2 DEF Stack
  <2>. QED  BY <2>4, <2>5 DEF TInv
<1>5. ASSUME NEW j \in DOMAIN q.armed, Retry(j) PROVE TInv'
  <2>1. q.armed[j].kind = "retry" /\ q' = RetryDelayed(CancelTask(q, j), j) /\ running' = running
    BY <1>5 DEF Retry
  <2>2. j \in DOMAIN q.delayed
    BY <1>0, <2>1 DEF Good, Timed
  <2>3. Good(q', Stack, {}, {})
    BY <1>0, <2>1, <2>2, RetryGood
  <2>. QED  BY <1>b, <2>1, <2>3
<1>6. ASSUME Finish PROVE TInv'
  <2>1. /\ running # None /\ running' = None
        /\ q' = [PopJob(q, running.job) EXCEPT !.fate[running.ticket] = "ran"]
    BY <1>6 DEF Finish
  <2>2. Good(q, {running}, {}, {}) /\ running \in {running}
    BY <1>0, <2>1 DEF Stack
  <2>3. Good(q', {running} \ {running}, {}, {})
    BY <1>a, <2>1, <2>2, FinishGood
  <2>4. {running} \ {running} = {} /\ Stack' = {}
    BY <2>1 DEF Stack
  <2>. QED  BY <2>3, <2>4 DEF TInv
<1>7. CASE UNCHANGED vars
  BY <1>0, <1>7, <1>b DEF vars
<1>. QED  BY <1>1, <1>2, <1>3, <1>4, <1>5, <1>6, <1>7 DEF Next

\* Exactly the registered jobs have a timer: what was cancelled, replaced or evicted
\* cannot fire later, and nothing stays registered with nothing to end it.
THEOREM TimersCorrect == Spec => []TimersMatchJobs
<1>0. JobsOf(Stack) = RunningJob
  BY DEF JobsOf, Stack, RunningJob
<1>1. TInv => TimersMatchJobs
  BY <1>0 DEF TInv, Good, Timed, TimersMatchJobs
<1>. QED  BY <1>1, InitInv, NextInv, InitTInv, NextTInv, PTL DEF Spec

\* While the flag is on, the objects kept active are those of the queued jobs.
THEOREM SourcesCorrect == Spec => []SourcesMatchJobs
<1>1. ASSUME TInv PROVE SourcesMatchJobs
  <2>1. \A e : e \in q.sources <=> q.on /\ \E j \in DOMAIN q.active : e \in SourcesOf(j, q.active[j])
    BY <1>1 DEF TInv, Good, Sourced
  <2>2. \A e : e \in UNION {SourcesOf(j, q.active[j]) : j \in DOMAIN q.active}
               <=> \E j \in DOMAIN q.active : e \in SourcesOf(j, q.active[j])
    OBVIOUS
  <2>. QED  BY <2>1, <2>2 DEF SourcesMatchJobs
<1>2. TInv => SourcesMatchJobs
  BY <1>1
<1>. QED  BY <1>2, InitInv, NextInv, InitTInv, NextTInv, PTL DEF Spec

\* Delayed retries and reschedules, from inside callbacks too, neither lose an
\* accepted call nor fork it.
THEOREM TicketsCorrect == Spec => []WaitsOnce
<1>1. ASSUME TInv PROVE WaitsOnce
  <2>1. \A j \in DOMAIN q.armed :
          LET rec == IF j \in DOMAIN q.active THEN q.active[j] ELSE q.delayed[j]
          IN  rec.ticket = JobTicket(q, j)
    BY DEF JobTicket
  <2>2. Ticketed(q, Stack, {})
    BY <1>1 DEF TInv, Good
  <2>. QED  BY <2>1, <2>2 DEF WaitsOnce, Ticketed
<1>2. TInv => WaitsOnce
  BY <1>1
<1>. QED  BY <1>2, InitInv, NextInv, InitTInv, NextTInv, PTL DEF Spec

-----------------------------------------------------------------------------
(* The steps of the ledger *)

\* What else is kept: the running tickets are that of the callback on the stack,
\* and callers stop at MaxId.
LInv == Running(q) = RunningTicket /\ DOMAIN q.fate \subseteq 1..MaxId

\* Of the calls that no longer wait only a running one still has its key.
OpenKeys(p) == \A k \in Keys : Holder(p, k) \in Done(p) => Holder(p, k) \in Running(p)

LEMMA KeysOpen ==
  ASSUME TInv, LInv
  PROVE  OpenKeys(q)
<1>. SUFFICES ASSUME NEW k \in Keys, Holder(q, k) \in Done(q) PROVE Holder(q, k) \in Running(q)
  BY DEF OpenKeys
<1>1. PICK j \in DOMAIN q.active : [job |-> j, ticket |-> Holder(q, k)] \in Stack
  BY DoneHolder DEF TInv
<1>2. [job |-> j, ticket |-> Holder(q, k)].ticket \in RunningTicket
  BY <1>1 DEF RunningTicket
<1>. QED  BY <1>2 DEF LInv

LEMMA WithdrawStep ==
  ASSUME OpenKeys(q), NEW gone, Released(q', q, gone), Sound(q'), DOMAIN q'.fate \subseteq 1..MaxId
  PROVE  Ledger!Withdraw
<1>1. gone \in SUBSET Ledger!Waiting
  BY DEF Ledger!Waiting, Released, Pending
<1>2. DOMAIN q'.fate = DOMAIN q.fate
  BY DEF Released
<1>3. Ledger!Withdraws(gone) /\ Ledger!Keeps(gone)
  BY <1>1 DEF Ledger!Withdraws, Ledger!Keeps, Released
<1>4. [k \in Keys |-> Holder(q', k)] \in [Keys -> 1..MaxId \cup {None}]
  BY HolderTyped
<1>5. Ledger!Holders(Keys, gone)
  BY DEF Ledger!Holders, Ledger!Started, Released, Running, OpenKeys
<1>. QED  BY <1>1, <1>2, <1>3, <1>4, <1>5 DEF Ledger!Withdraw

\* schedule() of a new call: it is accepted, or some others are withdrawn at most.
LEMMA AcceptStep ==
  ASSUME OpenKeys(q), NEW t \in 1..MaxId, t \notin DOMAIN q.fate, NEW key \in Keys \cup {None},
         Outcome(q', q, t, key), Sound(q'), DOMAIN q'.fate \subseteq 1..MaxId
  PROVE  Ledger!Accept(t, key) \/ Ledger!Withdraw
<1>1. PICK c, gone : /\ Released(c, q, gone) /\ t \notin gone
                     /\ Placed(q', c, t, key) \/ Ended(q', c, t)
  BY DEF Outcome
<1>2. DOMAIN c.fate = DOMAIN q.fate
  BY <1>1 DEF Released
<1>3. CASE Placed(q', c, t, key)
  <2>1. gone \in SUBSET Ledger!Waiting
    BY <1>1 DEF Ledger!Waiting, Released, Pending
  <2>2. DOMAIN q'.fate = DOMAIN q.fate \cup {t} /\ q'.fate[t] = "pending"
    BY <1>2, <1>3 DEF Placed
  <2>3. Ledger!Withdraws(gone) /\ Ledger!Keeps(gone)
    BY <1>1, <1>2, <1>3, <2>1 DEF Ledger!Withdraws, Ledger!Keeps, Released, Placed, Ledger!Waiting
  <2>4. [k \in Keys |-> Holder(q', k)] \in [Keys -> 1..MaxId \cup {None}]
    BY HolderTyped
  <2>5. \A k \in Keys :
          \/ Holder(c, k) = Holder(q, k) /\ Holder(q, k) \notin gone
          \/ Holder(c, k) = None /\ Holder(q, k) \in gone \cup Running(q)
    BY <1>1 DEF Released, OpenKeys
  <2>6. Ledger!Holders(Keys \ {key}, gone)
    BY <1>3, <2>5 DEF Ledger!Holders, Ledger!Started, Placed, Running
  <2>7. key \in Keys => /\ Holder(q', key) = t
                        /\ Holder(q, key) \in gone \cup Running(q) \cup {None}
    BY <1>3, <2>5 DEF Placed
  <2>8. key \in Keys => /\ [k \in Keys |-> Holder(q', k)][key] = t
                        /\ [k \in Keys |-> Holder(q, k)][key] \in gone \cup Ledger!Started \cup {None}
    BY <2>7 DEF Ledger!Started, Running
  <2>. QED  BY <2>1, <2>2, <2>3, <2>4, <2>6, <2>8 DEF Ledger!Accept
<1>4. CASE Ended(q', c, t)
  <2>1. Released(q', q, gone)
    BY <1>1, <1>4, EndedNew
  <2>. QED  BY <2>1, WithdrawStep
<1>. QED  BY <1>1, <1>3, <1>4

LEMMA BeginStep ==
  ASSUME Good(q, {}, {}, {}), Running(q) = {}, DOMAIN q.fate \subseteq 1..MaxId, Sound(q'),
         NEW j \in DOMAIN q.armed, Begun(q', q, j, q.armed[j].ticket)
  PROVE  /\ q.armed[j].ticket \in 1..MaxId /\ Ledger!Start(q.armed[j].ticket)
         /\ Running(q') = {q.armed[j].ticket} /\ DOMAIN q'.fate \subseteq 1..MaxId
<1>. DEFINE t == q.armed[j].ticket
<1>1. IsRegistry(q) /\ Begun(q', q, j, t)
  BY DEF Good, Sound, QueueTyped
<1>4. t \in DOMAIN q.fate /\ q.fate[t] = "pending"
  BY DEF Good, Ticketed, Maps
<1>. HIDE DEF t
<1>2. /\ q'.active = q.active /\ q'.delayed = q.delayed /\ q'.armed = Drop(q.armed, j)
      /\ q'.sources = q.sources /\ q'.on = q.on /\ q'.next = q.next
      /\ q'.fate = [q.fate EXCEPT ![t] = "running"]
  BY <1>1, BegunFields
<1>3. q'.active = q.active /\ q'.delayed = q.delayed /\ q'.fate = [q.fate EXCEPT ![t] = "running"]
  BY <1>2
<1>5. \A k \in Keys : Holder(q', k) = Holder(q, k)
  <2>1. Sound(q)
    BY DEF Good
  <2>. QED  BY <1>3, <2>1, SameJobsHolder
<1>6. Ledger!Start(t)
  <2>1. Ledger!Started = {} /\ t \in Ledger!Waiting
    BY <1>4 DEF Ledger!Started, Ledger!Waiting, Running
  <2>2. [k \in Keys |-> Holder(q', k)] = [k \in Keys |-> Holder(q, k)]
    BY <1>5
  <2>. QED  BY <1>3, <2>1, <2>2 DEF Ledger!Start
<1>7. Running(q') = {t} /\ DOMAIN q'.fate = DOMAIN q.fate
  BY <1>3, <1>4 DEF Running
<1>. QED  BY <1>4, <1>6, <1>7 DEF t

LEMMA FinishStep ==
  ASSUME NEW r, Good(q, {r}, {}, {}), Running(q) = {r.ticket}, DOMAIN q.fate \subseteq 1..MaxId,
         Sound(q'), Returned(q', q, r.job, r.ticket)
  PROVE  /\ r.ticket \in 1..MaxId /\ Ledger!Finish(r.ticket)
         /\ Running(q') = {} /\ DOMAIN q'.fate \subseteq 1..MaxId
<1>. DEFINE t == r.ticket
<1>1. t \in DOMAIN q.fate /\ q.fate[t] = "running"
  BY DEF Running
<1>2. q'.fate = [q.fate EXCEPT ![t] = "ran"]
  <2>1. Sound(q)
    BY DEF Good
  <2>2. q'.fate = [q.fate EXCEPT ![r.ticket] = "ran"]
    BY <2>1, ReturnedFate
  <2>. QED  BY <2>2
<1>3. ASSUME NEW k \in Keys
      PROVE  /\ Holder(q, k) = t => Holder(q', k) = None
             /\ Holder(q, k) # t => Holder(q', k) = Holder(q, k)
  <2>1. r \in {r} /\ \A s \in {r} : s.job = r.job \/ s.ticket = r.ticket => s = r
    OBVIOUS
  <2>. QED  BY <2>1, ReturnedHolder
<1>4. Ledger!Finish(t)
  <2>1. t \in Ledger!Started
    BY <1>1 DEF Ledger!Started
  <2>2. [k \in Keys |-> Holder(q', k)]
          = [k \in Keys |-> IF [h \in Keys |-> Holder(q, h)][k] = t THEN None
                            ELSE [h \in Keys |-> Holder(q, h)][k]]
    BY <1>3
  <2>. QED  BY <1>2, <2>1, <2>2 DEF Ledger!Finish
<1>5. Running(q') = {} /\ DOMAIN q'.fate = DOMAIN q.fate
  BY <1>1, <1>2 DEF Running
<1>. QED  BY <1>1, <1>4, <1>5

-----------------------------------------------------------------------------
(* The scheduler is a ledger *)

\* What one step of the scheduler is for its callers.
LedgerStep == [Ledger!Next]_(Ledger!vars)

LEMMA ReleasedStep ==
  ASSUME TInv, LInv, Sound(q'), running' = running, NEW gone, Released(q', q, gone)
  PROVE  LInv' /\ LedgerStep
<1>1. Running(q') = RunningTicket /\ DOMAIN q'.fate \subseteq 1..MaxId
  BY ReleasedRunning DEF LInv, Released
<1>2. Ledger!Withdraw
  BY <1>1, KeysOpen, WithdrawStep
<1>. QED  BY <1>1, <1>2 DEF LInv, LedgerStep, RunningTicket, Stack, Ledger!Next

LEMMA OutcomeStep ==
  ASSUME TInv, LInv, Sound(q), Sound(q'), running' = running, q.next <= MaxId,
         NEW key \in Keys \cup {None}, Outcome(q', q, q.next, key)
  PROVE  LInv' /\ LedgerStep
<1>1. q.next \in 1..MaxId /\ q.next \notin DOMAIN q.fate
  BY NextIsNew, RequestsAssumption DEF Sound, QueueTyped
<1>2. Running(q') = RunningTicket /\ DOMAIN q'.fate \subseteq 1..MaxId
  BY <1>1, OutcomeRunning DEF LInv
<1>3. Ledger!Accept(q.next, key) \/ Ledger!Withdraw
  BY <1>1, <1>2, KeysOpen, AcceptStep
<1>. QED  BY <1>1, <1>2, <1>3 DEF LInv, LedgerStep, RunningTicket, Stack, Ledger!Next

LEMMA NextLedger == Inv /\ TInv /\ LInv /\ [Next]_vars => LInv' /\ LedgerStep
<1>. SUFFICES ASSUME Inv, TInv, LInv, [Next]_vars PROVE LInv' /\ LedgerStep
  OBVIOUS
<1>0. /\ Good(q, Stack, {}, {}) /\ Sound(q) /\ Sound(q')
      /\ Running(q) = RunningTicket /\ DOMAIN q.fate \subseteq 1..MaxId
  BY NextInv DEF TInv, Inv, LInv, Good
<1>1. ASSUME NEW r \in Requests, Submit(r) PROVE LInv' /\ LedgerStep
  <2>. DEFINE s == [r EXCEPT !.ticket = q.next]
  <2>1. Fits(q, s) /\ s.ticket = q.next /\ s.key \in Keys \cup {None}
    BY <1>0, RequestsAssumption DEF Fits, Request, Sound, QueueTyped
  <2>2. q' = Schedule(q, s) /\ running' = running /\ q.next <= MaxId
    BY <1>1 DEF Submit
  <2>3. q.next \notin DOMAIN q.fate
    BY <1>0, NextIsNew
  <2>4. Ticketed(q, Stack, {q.next})
    BY <1>0, <2>3 DEF Good, Ticketed, Maps
  <2>. HIDE DEF s
  <2>5. Good(q, Stack, {s.ticket}, {})
    BY <1>0, <2>1, <2>4 DEF Good
  <2>6. Outcome(Schedule(q, s), q, s.ticket, s.key)
    BY <1>0, <2>1, <2>5, ScheduleOutcome
  <2>. QED  BY <1>0, <2>1, <2>2, <2>6, OutcomeStep
<1>2. ASSUME NEW k \in Keys, CancelKey(k) PROVE LInv' /\ LedgerStep
  <2>1. q' = Cancel(q, k, "cancelled") /\ running' = running
    BY <1>2 DEF CancelKey
  <2>2. \E gone : Released(Cancel(q, k, "cancelled"), q, gone)
    BY <1>0, CancelReleased DEF Withdrawn
  <2>. QED  BY <1>0, <2>1, <2>2, ReleasedStep
<1>3. ASSUME NEW k \in Keys, RescheduleKey(k) PROVE LInv' /\ LedgerStep
  <2>1. q' = Reschedule(q, k) /\ running' = running /\ q.next <= MaxId
    BY <1>3 DEF RescheduleKey
  <2>2. \/ \E gone : Released(Reschedule(q, k), q, gone)
        \/ Outcome(Reschedule(q, k), q, q.next, k)
    BY <1>0, RescheduleOutcome
  <2>. QED  BY <1>0, <2>1, <2>2, ReleasedStep, OutcomeStep
<1>4. ASSUME NEW j \in DOMAIN q.armed, Begin(j) PROVE LInv' /\ LedgerStep
  <2>. DEFINE t == q.armed[j].ticket
  <2>1. /\ running = None
        /\ q' = [CancelTask(q, j) EXCEPT !.fate[t] = "running"]
        /\ running' = [job |-> j, ticket |-> t]
    BY <1>4 DEF Begin
  <2>2. Good(q, {}, {}, {}) /\ Running(q) = {}
    BY <1>0, <2>1 DEF Stack, RunningTicket
  <2>3. t \in 1..MaxId /\ Ledger!Start(t) /\ Running(q') = {t} /\ DOMAIN q'.fate \subseteq 1..MaxId
    <3>1. Begun(q', q, j, t)
      BY <2>1 DEF Begun
    <3>. QED  BY <1>0, <2>2, <3>1, BeginStep
  <2>4. running' # None
    <3>1. j \in Nat /\ t \in Nat
      BY <1>0 DEF Sound, QueueTyped, IdsBelow, TasksTyped
    <3>. QED  BY <2>1, <3>1, IdAssumption
  <2>5. RunningTicket' = {t}
    BY <2>1, <2>4 DEF RunningTicket, Stack
  <2>. QED  BY <2>3, <2>5 DEF LInv, LedgerStep, Ledger!Next
<1>5. ASSUME NEW j \in DOMAIN q.armed, Retry(j) PROVE LInv' /\ LedgerStep
  <2>1. q.armed[j].kind = "retry" /\ q' = RetryDelayed(CancelTask(q, j), j) /\ running' = running
    BY <1>5 DEF Retry
  <2>2. j \in DOMAIN q.delayed
    BY <1>0, <2>1 DEF Good, Timed
  <2>3. \E gone : Released(RetryDelayed(CancelTask(q, j), j), q, gone)
    BY <1>0, <2>2, RetryReleased
  <2>. QED  BY <1>0, <2>1, <2>3, ReleasedStep
<1>6. ASSUME Finish PROVE LInv' /\ LedgerStep
  <2>. DEFINE t == running.ticket
  <2>1. running # None /\ running' = None /\ Returned(q', q, running.job, t)
    BY <1>6 DEF Finish, Returned
  <2>2. Good(q, {running}, {}, {}) /\ Running(q) = {t}
    BY <1>0, <2>1 DEF RunningTicket, Stack
  <2>3. t \in 1..MaxId /\ Ledger!Finish(t) /\ Running(q') = {} /\ DOMAIN q'.fate \subseteq 1..MaxId
    BY <1>0, <2>1, <2>2, FinishStep
  <2>4. RunningTicket' = {}
    BY <2>1 DEF RunningTicket, Stack
  <2>. QED  BY <2>3, <2>4 DEF LInv, LedgerStep, Ledger!Next
<1>7. CASE UNCHANGED vars
  BY <1>0, <1>7 DEF vars, LInv, LedgerStep, RunningTicket, Stack, Ledger!vars
<1>. QED  BY <1>1, <1>2, <1>3, <1>4, <1>5, <1>6, <1>7 DEF Next

LEMMA InitLedger == Init => LInv /\ Ledger!Init
<1>. SUFFICES ASSUME Init PROVE LInv /\ Ledger!Init
  OBVIOUS
<1>1. PICK on \in BOOLEAN : q = [EmptyQueue EXCEPT !.on = on]
  BY DEF Init
<1>2. /\ q.keyJob = <<>> /\ q.delayedKey = <<>> /\ q.fate = <<>> /\ running = None
  BY <1>1 DEF EmptyQueue, Init
<1>3. DOMAIN <<>> = {}
  OBVIOUS
<1>4. LInv
  BY <1>2, <1>3 DEF LInv, Running, RunningTicket, Stack
<1>5. \A k \in Keys : Holder(q, k) = None
  BY <1>2, <1>3 DEF Holder, HasActive, HasDelayed
<1>. QED  BY <1>2, <1>4, <1>5 DEF Ledger!Init

\* For callers the registry with its timers, quotas, evictions and retries is a
\* ledger: an accepted call has its key to itself, is started at most once, keeps
\* its end, and loses the key only when it is withdrawn, over or, while its callback
\* runs, superseded.
THEOREM LedgerCorrect == Spec => LedgerSpec
<1>1. Init => Ledger!Init
  BY InitLedger
<1>2. Init => LInv
  BY InitLedger
<1>3. Inv /\ TInv /\ LInv /\ [Next]_vars => LInv' /\ [Ledger!Next]_(Ledger!vars)
  BY NextLedger DEF LedgerStep
<1>. QED  BY <1>1, <1>2, <1>3, InitInv, NextInv, InitTInv, NextTInv, PTL DEF Spec, LedgerSpec, Ledger!Spec

-----------------------------------------------------------------------------
(* Quotas *)

LEMMA BeginJobs ==
  ASSUME Sound(q), NEW j \in DOMAIN q.armed, Begin(j)
  PROVE  q'.active = q.active /\ q'.delayed = q.delayed
         /\ q'.fate = [q.fate EXCEPT ![q.armed[j].ticket] = "running"]
<1>. DEFINE t == q.armed[j].ticket
<1>1. IsRegistry(q)
  BY DEF Sound, QueueTyped
<1>2. Begun(q', q, j, t)
  BY DEF Begin, Begun
<1>. HIDE DEF t
<1>3. /\ q'.active = q.active /\ q'.delayed = q.delayed /\ q'.armed = Drop(q.armed, j)
      /\ q'.sources = q.sources /\ q'.on = q.on /\ q'.next = q.next
      /\ q'.fate = [q.fate EXCEPT ![t] = "running"]
  BY <1>1, <1>2, BegunFields
<1>. QED  BY <1>3 DEF t

LEMMA FinishFewer ==
  ASSUME Sound(q), Finish
  PROVE  Fewer(q', q) /\ q'.delayed = q.delayed
         /\ q'.fate = [q.fate EXCEPT ![running.ticket] = "ran"]
<1>. DEFINE j == running.job
            a == PopJob(q, j)
<1>1. Returned(q', q, j, running.ticket)
  BY DEF Finish, Returned
<1>2. q'.active = a.active /\ q'.delayed = a.delayed
  BY <1>1, ReturnedJobs
<1>3. q'.fate = [q.fate EXCEPT ![running.ticket] = "ran"]
  BY <1>1, ReturnedFate
<1>4. Fewer(a, q) /\ a.delayed = q.delayed
  <2>1. CASE j \in DOMAIN q.active
    <3>0. IsRegistry(q)
      BY DEF Sound, QueueTyped
    <3>1. /\ IsRegistry(a)
          /\ a.active = Drop(q.active, j) /\ a.delayed = q.delayed
          /\ a.armed = q.armed /\ a.on = q.on /\ a.fate = q.fate /\ a.next = q.next
          /\ a.sources = Left(q, j)
      BY <2>1, <3>0, PopJobLeft
    <3>. QED  BY <3>1, DropFewer
  <2>2. CASE j \notin DOMAIN q.active
    BY <2>2 DEF PopJob, Fewer
  <2>. QED  BY <2>1, <2>2
<1>. HIDE DEF a
<1>. QED  BY <1>2, <1>3, <1>4 DEF Fewer

LEMMA NextQuotas == Inv /\ [Next]_vars => QuotasKept(q', q)
<1>. SUFFICES ASSUME Inv, [Next]_vars PROVE QuotasKept(q', q)
  OBVIOUS
<1>0. Sound(q) /\ RunningTyped(q, running) /\ IsRegistry(q)
  BY DEF Inv, Sound, QueueTyped
<1>1. ASSUME NEW r \in Requests, Submit(r) PROVE QuotasKept(q', q)
  <2>. DEFINE s == [r EXCEPT !.ticket = q.next]
  <2>1. s \in Request
    BY <1>0, RequestsAssumption DEF Request, Sound, QueueTyped
  <2>2. q' = Schedule(q, s)
    BY <1>1 DEF Submit
  <2>. HIDE DEF s
  <2>. QED  BY <1>0, <2>1, <2>2, ScheduleKept
<1>2. ASSUME NEW k \in Keys, CancelKey(k) PROVE QuotasKept(q', q)
  <2>1. Fewer(q', q)
    BY <1>0, <1>2, CancelFewer DEF CancelKey
  <2>. QED  BY <1>0, <2>1, FewerKept
<1>3. ASSUME NEW k \in Keys, RescheduleKey(k) PROVE QuotasKept(q', q)
  BY <1>0, <1>3, RescheduleKept DEF RescheduleKey
<1>4. ASSUME NEW j \in DOMAIN q.armed, Begin(j) PROVE QuotasKept(q', q)
  <2>1. q'.active = q.active
    BY <1>0, <1>4, BeginJobs
  <2>. QED  BY <1>0, <2>1, SameJobsKept
<1>5. ASSUME NEW j \in DOMAIN q.armed, Retry(j) PROVE QuotasKept(q', q)
  <2>. DEFINE c == CancelTask(q, j)
  <2>1. q' = RetryDelayed(c, j)
    BY <1>5 DEF Retry
  <2>2. Sound(c) /\ c.active = q.active
    BY <1>0, CancelTaskFields, CancelTaskSmaller DEF Smaller
  <2>. HIDE DEF c
  <2>3. QuotasKept(q', c) /\ QuotasKept(c, q)
    BY <1>0, <2>1, <2>2, RetryKept, SameJobsKept
  <2>. QED  BY <2>3, KeptTrans
<1>6. ASSUME Finish PROVE QuotasKept(q', q)
  <2>1. Fewer(q', q)
    BY <1>0, <1>6, FinishFewer
  <2>. QED  BY <1>0, <2>1, FewerKept
<1>7. CASE UNCHANGED vars
  BY <1>0, <1>7, SameJobsKept DEF vars
<1>. QED  BY <1>1, <1>2, <1>3, <1>4, <1>5, <1>6, <1>7 DEF Next

LEMMA InitQuotas == Init => QuotasMet(q)
<1>. SUFFICES ASSUME Init PROVE QuotasMet(q)
  OBVIOUS
<1>1. q.active = <<>> /\ DOMAIN <<>> = {}
  BY DEF Init, EmptyQueue
<1>2. DOMAIN q.active = {}
  BY <1>1
<1>3. \A o : OwnedBy(q, o) = {} /\ InSystem(q, o) = {}
  BY <1>2 DEF OwnedBy, InSystem
<1>4. Cardinality({}) = 0
  BY FS_EmptySet
<1>. QED  BY <1>2, <1>3, <1>4, QueueAssumption DEF QuotasMet, OwnersMet, SystemsMet, TotalMet

\* Growth is bounded per owner and in total for all quotas and behaviours:
\* callbacks, retries and evictions never pass over these two.
THEOREM OwnersAndTotalCorrect == Spec => [](OwnerQuotaHolds /\ TotalQuotaHolds)
<1>. DEFINE Met == OwnersMet(q) /\ TotalMet(q)
<1>1. Init => Met
  BY InitQuotas DEF QuotasMet
<1>2. Inv /\ Met /\ [Next]_vars => Met'
  BY NextQuotas DEF QuotasKept
<1>3. Met => OwnerQuotaHolds /\ TotalQuotaHolds
  BY DEF OwnersMet, TotalMet, OwnerQuotaHolds, TotalQuotaHolds
<1>. HIDE DEF Met
<1>. QED  BY <1>1, <1>2, <1>3, InitInv, NextInv, PTL DEF Spec

\* All three quotas hold, unless an owner's violation evicts: the job that takes
\* the evicted one's place may then be one too many for its system.
THEOREM QuotasCorrect ==
  ASSUME OwnerBehavior # "replace_oldest"
  PROVE  Spec => []QuotasHold
<1>1. Inv /\ QuotasMet(q) /\ [Next]_vars => QuotasMet(q)'
  BY NextQuotas DEF QuotasKept, QuotasMet
<1>2. QuotasMet(q) => QuotasHold
  BY DEF QuotasMet, OwnersMet, SystemsMet, TotalMet, QuotasHold, OwnerQuotaHolds, SystemQuotaHolds,
         TotalQuotaHolds
<1>. QED  BY <1>1, <1>2, InitQuotas, InitInv, NextInv, PTL DEF Spec

-----------------------------------------------------------------------------
(* Calls that are never parked: the default configuration, and more *)

NoParking == OwnerBehavior = "reject" /\ "delay" \notin {SystemBehavior, GlobalBehavior}

\* Nothing is parked, nothing accepted was turned down, and the registered jobs
\* are of the kinds that callers ask for.
PInv ==
  /\ QuotasMet(q) /\ DOMAIN q.delayed = {}
  /\ Ends(q, "rejected") = {}
  /\ Kinds(q) \subseteq {Kind(r) : r \in Requests}

\* The steps of the scheduler itself turn nothing off.
LEMMA QuietStep ==
  ASSUME Inv, TInv, QuotasMet(q), DOMAIN q.delayed = {}, [Next]_vars, ~\E r \in Requests : Submit(r)
  PROVE  Plain(q', q, {}, TurnedOff)
<1>0. Sound(q) /\ RunningTyped(q, running) /\ IsRegistry(q)
  BY DEF Inv, Sound, QueueTyped
<1>1. ASSUME NEW k \in Keys, CancelKey(k) PROVE Plain(q', q, {}, TurnedOff)
  BY <1>0, <1>1, CancelPlain DEF CancelKey, TurnedOff
<1>2. ASSUME NEW k \in Keys, RescheduleKey(k) PROVE Plain(q', q, {}, TurnedOff)
  BY <1>0, <1>2, ReschedulePlain DEF RescheduleKey
<1>3. ASSUME NEW j \in DOMAIN q.armed, Begin(j) PROVE Plain(q', q, {}, TurnedOff)
  <2>1. q'.active = q.active /\ q'.delayed = q.delayed
        /\ q'.fate = [q.fate EXCEPT ![q.armed[j].ticket] = "running"]
    BY <1>0, <1>3, BeginJobs
  <2>2. \A f \in TurnedOff : Ends(q', f) \subseteq Ends(q, f)
    BY <2>1 DEF Ends, TurnedOff
  <2>. QED  BY <2>1, <2>2, SamePlain
<1>4. ASSUME NEW j \in DOMAIN q.armed, Retry(j) PROVE FALSE
  BY <1>4 DEF Retry, TInv, Good, Timed
<1>5. ASSUME Finish PROVE Plain(q', q, {}, TurnedOff)
  <2>1. Fewer(q', q) /\ q'.delayed = q.delayed /\ q'.fate = [q.fate EXCEPT ![running.ticket] = "ran"]
    BY <1>0, <1>5, FinishFewer
  <2>2. \A f \in TurnedOff : Ends(q', f) \subseteq Ends(q, f)
    BY <2>1 DEF Ends, TurnedOff
  <2>. QED  BY <2>1, <2>2 DEF Plain, Fewer, Kinds
<1>6. ASSUME UNCHANGED vars PROVE Plain(q', q, {}, TurnedOff)
  BY <1>6, SamePlain DEF vars
<1>. QED  BY <1>1, <1>2, <1>3, <1>4, <1>5, <1>6 DEF Next

LEMMA NextPInv ==
  ASSUME NoParking
  PROVE  Inv /\ TInv /\ PInv /\ [Next]_vars => PInv'
<1>. SUFFICES ASSUME Inv, TInv, PInv, [Next]_vars PROVE PInv'
  OBVIOUS
<1>1. QuotasMet(q')
  BY NextQuotas DEF NoParking, QuotasKept, QuotasMet, PInv
<1>2. ASSUME NEW K \in SUBSET {Kind(r) : r \in Requests}, Plain(q', q, K, {"rejected"}) PROVE PInv'
  BY <1>1, <1>2 DEF PInv, Plain
<1>3. ASSUME NEW r \in Requests, Submit(r) PROVE PInv'
  <2>. DEFINE s == [r EXCEPT !.ticket = q.next]
  <2>1. /\ s \in Request /\ s.ticket = q.next /\ Kind(s) = Kind(r)
        /\ q.next \notin DOMAIN q.fate
    BY RequestsAssumption DEF Request, Inv, Sound, QueueTyped, Kind, IdsBelow
  <2>2. q' = Schedule(q, s)
    BY <1>3 DEF Submit
  <2>3. "delay" \notin {OwnerBehavior, SystemBehavior, GlobalBehavior}
    BY DEF NoParking
  <2>. HIDE DEF s
  <2>4. Plain(q', q, {Kind(s)}, {"rejected"})
    BY <2>1, <2>2, <2>3, SchedulePlain DEF Inv, PInv
  <2>. QED  BY <1>2, <2>1, <2>4
<1>4. ASSUME ~\E r \in Requests : Submit(r) PROVE PInv'
  <2>1. Plain(q', q, {}, TurnedOff)
    BY <1>4, QuietStep DEF PInv
  <2>2. Plain(q', q, {}, {"rejected"})
    BY <2>1 DEF Plain, TurnedOff
  <2>. QED  BY <1>2, <2>2
<1>. QED  BY <1>3, <1>4

LEMMA InitPInv == Init => PInv
<1>. SUFFICES ASSUME Init PROVE PInv
  OBVIOUS
<1>1. q.active = <<>> /\ q.delayed = <<>> /\ q.fate = <<>> /\ DOMAIN <<>> = {}
  BY DEF Init, EmptyQueue
<1>. QED  BY <1>1, InitQuotas DEF PInv, Ends, Kinds

\* Where violations are rejected, as they are by default, a call that was accepted
\* is never rejected later: reschedule() finds the room its own cancel() made.
THEOREM AcceptedCorrect ==
  ASSUME NoParking
  PROVE  Spec => []AcceptedStaysAccepted
<1>1. PInv => AcceptedStaysAccepted
  BY DEF PInv, AcceptedStaysAccepted, Ends
<1>2. Inv /\ TInv /\ PInv /\ [Next]_vars => PInv'
  BY NextPInv
<1>. QED  BY <1>1, <1>2, InitPInv, InitInv, NextInv, InitTInv, NextTInv, PTL DEF Spec

\* As all callers in the repository do: a key is used for one owner and system.
OneOwnerPerKey ==
  \A r, s \in Requests : r.key = s.key /\ r.key # None => Kind(r) = Kind(s)

LEMMA SuccessorStep ==
  ASSUME NoParking, OneOwnerPerKey, Inv, TInv, PInv, [Next]_vars,
         NEW k \in Keys, Maps(q.fate, Holder(q, k), "pending"), Maps(q'.fate, Holder(q, k), "replaced")
  PROVE  Held(q', k)
<1>. DEFINE t == Holder(q, k)
<1>0. t \in Ends(q', "replaced") /\ t \notin Ends(q, "replaced")
  BY DEF Ends, Maps
<1>1. PICK r \in Requests : Submit(r)
  <2>. SUFFICES ASSUME ~\E r \in Requests : Submit(r) PROVE FALSE
    OBVIOUS
  <2>1. Plain(q', q, {}, TurnedOff)
    BY QuietStep DEF PInv
  <2>. QED  BY <1>0, <2>1 DEF Plain, TurnedOff
<1>. DEFINE s == [r EXCEPT !.ticket = q.next]
            j == q.keyJob[r.key]
            c == Cancel(q, r.key, "replaced")
<1>2. /\ s \in Request /\ s.ticket = q.next /\ Kind(s) = Kind(r) /\ s.key = r.key
      /\ s.conflict = r.conflict /\ q.next \notin DOMAIN q.fate
  BY RequestsAssumption DEF Request, Inv, Sound, QueueTyped, Kind, IdsBelow
<1>3. q' = Schedule(q, s)
  BY <1>1 DEF Submit
<1>. HIDE DEF s
<1>4. Held(q, r.key) /\ r.conflict # "reject"
  <2>. SUFFICES ASSUME ~Held(q, r.key) \/ r.conflict = "reject" PROVE FALSE
    OBVIOUS
  <2>1. "delay" \notin {OwnerBehavior, SystemBehavior, GlobalBehavior}
    BY DEF NoParking
  <2>2. q' = Admit(q, s) \/ q' = Settle(q, s.ticket, "rejected")
    BY <1>2, <1>3 DEF Schedule, Reject
  <2>3. TurnedOff \in SUBSET TurnedOff /\ "replaced" \in TurnedOff
    BY DEF TurnedOff
  <2>4. Plain(Admit(q, s), q, {Kind(s)}, TurnedOff)
    BY <1>2, <2>1, <2>3, AdmitPlain DEF PInv, Inv
  <2>5. Plain(Settle(q, s.ticket, "rejected"), q, {}, TurnedOff)
    BY <1>2, SettlePlain DEF PInv, Inv
  <2>. QED  BY <1>0, <2>2, <2>3, <2>4, <2>5 DEF Plain
<1>5. j \in DOMAIN q.active /\ q.active[j].key = r.key /\ r.key \in Keys /\ HasActive(q, r.key)
  <2>1. DOMAIN q.delayedKey = {}
    BY DEF Inv, Sound, KeysIndexed, PInv
  <2>. QED  BY <1>4, <2>1 DEF Held, Inv, Sound, KeysIndexed, QueueTyped, HasActive
<1>6. c = Gone(q, j, "replaced")
  BY <1>5 DEF Cancel, Gone
<1>7. Kind(q.active[j]) = Kind(s)
  <2>1. PICK a \in Requests : Kind(q.active[j]) = Kind(a)
    BY <1>5 DEF PInv, Kinds
  <2>2. a.key = r.key /\ r.key # None
    BY <1>5, <2>1, QueueAssumption DEF Kind
  <2>. QED  BY <1>2, <2>1, <2>2 DEF OneOwnerPerKey
<1>8. /\ c.active = Drop(q.active, j)
      /\ c.fate = Settle(q, q.active[j].ticket, "replaced").fate
  BY <1>5, <1>6, GoneFields DEF Inv, Sound, QueueTyped
<1>9. Sound(c) /\ ~Held(c, r.key)
  BY CancelSmaller DEF Smaller, Fates, Withdrawn, Inv
<1>. HIDE DEF c, j
<1>10. q' = Insert(c, s)
  <2>1. /\ OwnersMet(q) /\ q.active[j].owner = s.owner => ~OverOwner(c, s)
        /\ SystemsMet(q) /\ q.active[j].system = s.system => ~OverSystem(c, s)
        /\ TotalMet(q) => ~OverTotal(c)
    BY <1>2, <1>5, <1>8, GoneLeaves DEF Inv
  <2>2. ~OverOwner(c, s) /\ ~OverSystem(c, s) /\ ~OverTotal(c)
    BY <1>7, <2>1 DEF PInv, QuotasMet, Kind
  <2>3. q' = Admit(c, s)
    BY <1>2, <1>3, <1>4 DEF Schedule, c
  <2>. QED  BY <2>2, <2>3 DEF Admit
<1>11. q.active[j].ticket = t
  <2>. SUFFICES ASSUME q.active[j].ticket # t PROVE FALSE
    OBVIOUS
  <2>1. IsRegistry(q) /\ IsRegistry(c)
    BY <1>9 DEF Inv, Sound, QueueTyped
  <2>2. Settled(c, q, q.active[j].ticket, "replaced")
    BY <1>8, <2>1, SettleSettled
  <2>3. t \in DOMAIN c.fate /\ c.fate[t] = "pending"
    BY <2>2 DEF Settled, Maps
  <2>4. Plain(q', c, {Kind(s)}, TurnedOff)
    <3>1. DOMAIN c.delayed = {}
      <4>1. Plain(c, q, {}, {"rejected"})
        BY CancelPlain DEF Inv, PInv, c
      <4>. QED  BY <4>1 DEF Plain
    <3>2. TurnedOff \in SUBSET TurnedOff
      OBVIOUS
    <3>. QED  BY <1>2, <1>9, <1>10, <3>1, <3>2, InsertPlain
  <2>. QED  BY <1>0, <2>3, <2>4 DEF Plain, TurnedOff, Ends
<1>12. r.key = k
  <2>1. JobTicket(q, j) = t /\ j \in DOMAIN q.active \cup DOMAIN q.delayed
    BY <1>5, <1>11 DEF JobTicket, j
  <2>2. Good(q, Stack, {}, {})
    BY DEF TInv
  <2>3. (IF j \in DOMAIN q.active THEN q.active[j].key ELSE q.delayed[j].key) = k
    BY <2>1, <2>2, OwnTicket
  <2>. QED  BY <1>5, <2>3 DEF j
<1>13. Held(Insert(c, s), s.key)
  <2>1. c.next = q.next /\ s.key # None
    BY <1>2, <1>5, CancelSmaller, QueueAssumption DEF Smaller, Fates, Withdrawn, Inv, c
  <2>2. Fits(c, s) /\ Free(c, s)
    BY <1>2, <1>9, <2>1 DEF Fits, Free
  <2>. QED  BY <1>9, <2>1, <2>2, InsertHolds
<1>. QED  BY <1>2, <1>10, <1>12, <1>13

\* A waiting job gives way only to a call that is accepted, where violations are
\* rejected and every key is used for one owner and one system.
THEOREM SuccessorCorrect ==
  ASSUME NoParking, OneOwnerPerKey
  PROVE  Spec => ReplacedHasSuccessor
<1>1. Inv /\ TInv /\ PInv /\ [Next]_vars =>
        [\A k \in Keys : Maps(q.fate, Holder(q, k), "pending") /\ Maps(q'.fate, Holder(q, k), "replaced")
           => Held(q', k)]_vars
  BY SuccessorStep
<1>2. Inv /\ TInv /\ PInv /\ [Next]_vars => PInv'
  BY NextPInv
<1>. QED  BY <1>1, <1>2, InitPInv, InitInv, NextInv, InitTInv, NextTInv, PTL DEF Spec, ReplacedHasSuccessor
=============================================================================
