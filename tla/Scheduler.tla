------------------------------ MODULE Scheduler ------------------------------
(***************************************************************************)
(* world/systems/scheduler.py under live timers: every job and every       *)
(* delayed retry is one evennia_delay() call, and Twisted's reactor runs   *)
(* one callback at a time.  A callback may call schedule(), cancel() and   *)
(* reschedule() before it returns, its own job still registered; commands  *)
(* and other hooks make the same calls between callbacks.                  *)
(***************************************************************************)
EXTENDS SchedulerCalls

VARIABLES
  q,           \* the registry (SchedulerQueue)
  running      \* [job, ticket] of the callback on the stack, or None

vars == <<q, running>>

\* The interest flag keeps its value; HarnessScheduler.tla lets it change.
Init ==
  /\ q \in {[EmptyQueue EXCEPT !.on = on] : on \in BOOLEAN}
  /\ running = None

\* schedule() from a command, a hook or a running callback.
Submit(r) ==
  /\ q.next <= MaxId
  /\ q' = Schedule(q, [r EXCEPT !.ticket = q.next])
  /\ UNCHANGED running

CancelKey(k) ==
  /\ q' = Cancel(q, k, "cancelled")
  /\ UNCHANGED running

RescheduleKey(k) ==
  /\ q.next <= MaxId
  /\ q' = Reschedule(q, k)
  /\ UNCHANGED running

\* The reactor calls _wrapped_callback: nothing is checked, the callback runs.
Begin(j) ==
  /\ running = None
  /\ j \in DOMAIN q.armed /\ q.armed[j].kind = "run"
  /\ q' = [CancelTask(q, j) EXCEPT !.fate[q.armed[j].ticket] = "running"]
  /\ running' = [job |-> j, ticket |-> q.armed[j].ticket]

\* The callback returns or raises: the finally clause pops its job, if the
\* callback has not replaced or cancelled it.
Finish ==
  /\ running # None
  /\ q' = [PopJob(q, running.job) EXCEPT !.fate[running.ticket] = "ran"]
  /\ running' = None

\* The reactor calls the retry callback of a delayed job.
Retry(j) ==
  /\ running = None
  /\ j \in DOMAIN q.armed /\ q.armed[j].kind = "retry"
  /\ q' = RetryDelayed(CancelTask(q, j), j)
  /\ UNCHANGED running

Next ==
  \/ \E r \in Requests : Submit(r)
  \/ \E k \in Keys : CancelKey(k) \/ RescheduleKey(k)
  \/ \E j \in DOMAIN q.armed : Begin(j) \/ Retry(j)
  \/ Finish

Spec == Init /\ [][Next]_vars

\* Callbacks return, and the reactor does not starve a timer that is due.  A
\* retry may consume ids above MaxId, at most MaxDelayAttempts per ticket.
JobIds == 1..(MaxId * (MaxDelayAttempts + 2))
Fairness ==
  /\ WF_vars(Finish)
  /\ \A j \in JobIds : WF_vars(j \in DOMAIN q.armed /\ (Begin(j) \/ Retry(j)))
FairSpec == Spec /\ Fairness

-----------------------------------------------------------------------------
(* Properties *)

RunningJob == IF running = None THEN {} ELSE {running.job}

\* The registry and the callback on the stack have the shape the code gives them.
TypeOK ==
  /\ QueueTyped(q)
  /\ running # None => /\ running = [job |-> running.job, ticket |-> running.ticket]
                       /\ running.job \in 1..(q.next - 1)
                       /\ running.ticket \in DOMAIN q.fate

\* A key names at most one job, active or delayed, and the two key indexes and
\* the two job tables never disagree about which: no orphaned key keeps a call
\* out, no indexed job is unreachable for cancel().
KeyIndexSound == KeysIndexed(q)

\* Exactly the registered jobs have a timer, except the one whose callback is
\* running: a job that was cancelled, replaced or evicted cannot fire later, and
\* no job sits in the registry, counting against its owner, with nothing to end it.
TimersMatchJobs ==
  /\ {j \in DOMAIN q.armed : q.armed[j].kind = "run"} = DOMAIN q.active \ RunningJob
  /\ {j \in DOMAIN q.armed : q.armed[j].kind = "retry"} = DOMAIN q.delayed

\* While the flag is on, an object is kept active by exactly the jobs queued
\* for it: no source outlives its job or goes missing when a job is replaced,
\* evicted, retried or re-armed by its own callback.
SourcesMatchJobs ==
  q.sources = IF q.on
              THEN UNION {SourcesOf(j, q.active[j]) : j \in DOMAIN q.active}
              ELSE {}

\* An accepted call waits in exactly one job until it is started or withdrawn:
\* delayed retries and reschedules neither lose it nor fork it.
WaitsOnce ==
  /\ \A j \in DOMAIN q.armed :
       LET rec == IF j \in DOMAIN q.active THEN q.active[j] ELSE q.delayed[j]
       IN  rec.ticket = q.armed[j].ticket /\ Maps(q.fate, rec.ticket, "pending")
  /\ \A t \in DOMAIN q.fate :
       q.fate[t] = "pending" => \E j \in DOMAIN q.armed : q.armed[j].ticket = t
  /\ \A i, j \in DOMAIN q.armed : q.armed[i].ticket = q.armed[j].ticket => i = j

\* docs/architecture/scheduler-quotas.md: bounded growth per owner, per system
\* and in total, whatever callbacks do while their own job still counts.
OwnerQuotaHolds == \A o \in Owners : Cardinality(OwnedBy(q, o)) <= MaxPerOwner
SystemQuotaHolds == \A s \in Systems : Cardinality(InSystem(q, s)) <= MaxPerSystem
TotalQuotaHolds == Cardinality(DOMAIN q.active) <= MaxTotal
QuotasHold == OwnerQuotaHolds /\ SystemQuotaHolds /\ TotalQuotaHolds

\* With the default behaviour a call that was accepted is never rejected later:
\* reschedule() always finds the room its own cancel() made.
AcceptedStaysAccepted == \A t \in DOMAIN q.fate : q.fate[t] # "rejected"

\* An accepted call ends by its callback or by a decision the scheduler records;
\* it is not lost to an exception halfway.
NothingLost == \A t \in DOMAIN q.fate : q.fate[t] # "lost"

\* A waiting job gives way to another call for its key only when that call is
\* accepted: the key is served throughout.
ReplacedHasSuccessor ==
  [][\A k \in Keys :
       Maps(q.fate, Holder(q, k), "pending") /\ Maps(q'.fate, Holder(q, k), "replaced")
         => Held(q', k)]_vars

\* Every accepted call is started or withdrawn in the end.
EveryTicketSettles ==
  \A t \in 1..MaxId : Maps(q.fate, t, "pending") ~> ~Maps(q.fate, t, "pending")

\* The callers' view: the scheduler implements the ledger of tickets.
Ledger == INSTANCE JobLedger WITH
  Tickets <- 1..MaxId,
  fate    <- q.fate,
  holder  <- [k \in Keys |-> Holder(q, k)]
LedgerSpec == Ledger!Spec
=============================================================================
