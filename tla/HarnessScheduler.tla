-------------------------- MODULE HarnessScheduler --------------------------
(***************************************************************************)
(* world/systems/scheduler.py in DireTest mode: jobs hold a _DeferredTask  *)
(* instead of a timer, and flush_due() runs the due ones in order.  Here   *)
(* is_active() of world/systems/interest.py decides whether a job runs, is *)
(* skipped or is deferred; and the flag interest_activation may be toggled *)
(* at any time, also from inside a callback.                               *)
(*                                                                         *)
(* A flush is several steps, because callbacks run in the middle of it and *)
(* call schedule(), cancel() and reschedule() themselves.  None of them    *)
(* calls flush_due(): only the DireTest scenarios do.                      *)
(***************************************************************************)
EXTENDS SchedulerCalls, FiniteSetsExt

CONSTANTS
  MaxDefers,      \* max_inactive_defers
  DirectCancel,   \* do callers also cancel the task itself (fishing.py does)?
  MaxToggles      \* bound on changes of the flag

ASSUME HarnessAssumption ==
  /\ MaxDefers \in Nat \ {0} /\ MaxToggles \in Nat
  /\ DirectCancel \in BOOLEAN
  \* with positional args a deferral or retry would raise here (Scheduler.tla)
  /\ \A r \in Requests : ~r.args

VARIABLES
  q,            \* the registry; q.armed holds the tasks that are not cancelled
  running,      \* [job, ticket] of the callback on the stack, or None
  due,          \* registered jobs whose due_at the next flush will find passed
  flush,        \* [on, retries, jobs, progressed]: the flush on the stack
  watched,      \* objects with a source of another type (room, zone, ...)
  toggles       \* how often the flag changed

vars == <<q, running, due, flush, watched, toggles>>

NoFlush == [on |-> FALSE, retries |-> {}, jobs |-> {}, progressed |-> FALSE]

Init ==
  /\ q \in {[EmptyQueue EXCEPT !.on = on] : on \in BOOLEAN}
  /\ running = None
  /\ due = {}
  /\ flush = NoFlush
  /\ watched \in SUBSET Objects
  /\ toggles = 0

Registered(p) == DOMAIN p.active \cup DOMAIN p.delayed

\* Between flushes anyone may call the scheduler, during one only callbacks.
MayCall == flush.on => running # None

-----------------------------------------------------------------------------
(* Callers *)

\* A job scheduled with no delay is due in the flush that is running when the
\* clock has not ticked since.
DueAfterCall ==
  {due \cap Registered(q'), (due \cap Registered(q')) \cup (DOMAIN q'.active \ DOMAIN q.active)}

Submit(r) ==
  /\ MayCall /\ q.next <= MaxId
  /\ q' = Schedule(q, [r EXCEPT !.ticket = q.next])
  /\ due' \in DueAfterCall
  /\ UNCHANGED <<running, flush, watched, toggles>>

CancelKey(k) ==
  /\ MayCall
  /\ q' = Cancel(q, k, "cancelled")
  /\ due' = due \cap Registered(q')
  /\ UNCHANGED <<running, flush, watched, toggles>>

RescheduleKey(k) ==
  /\ MayCall /\ q.next <= MaxId
  /\ q' = Reschedule(q, k)
  /\ due' \in DueAfterCall
  /\ UNCHANGED <<running, flush, watched, toggles>>

\* The task schedule() returned is cancelled behind the scheduler's back.
CancelTaskOf(j) ==
  /\ DirectCancel /\ MayCall
  /\ j \in DOMAIN q.active \cap DOMAIN q.armed
  /\ q' = Settle(CancelTask(q, j), q.armed[j].ticket, "cancelled")
  /\ UNCHANGED <<running, due, flush, watched, toggles>>

-----------------------------------------------------------------------------
(* The world *)

Elapse(j) ==
  /\ ~flush.on
  /\ j \in Registered(q) \ due
  /\ due' = due \cup {j}
  /\ UNCHANGED <<q, running, flush, watched, toggles>>

\* set_flag("interest_activation"): the registry of sources is left as it is.
Toggle ==
  /\ MayCall /\ toggles < MaxToggles
  /\ q' = [q EXCEPT !.on = ~@]
  /\ toggles' = toggles + 1
  /\ UNCHANGED <<running, due, flush, watched>>

\* Another source of x comes or goes; nothing changes while the flag is off.
Watch(x) ==
  /\ MayCall /\ q.on
  /\ watched' = IF x \in watched THEN watched \ {x} ELSE watched \cup {x}
  /\ UNCHANGED <<q, running, due, flush, toggles>>

-----------------------------------------------------------------------------
(* flush_due() *)

Flushable == due \cap DOMAIN q.armed
Scan(progressed) ==
  [on |-> TRUE, retries |-> Flushable \cap DOMAIN q.delayed,
   jobs |-> Flushable \cap DOMAIN q.active, progressed |-> progressed]

FlushBegin ==
  /\ ~flush.on /\ Flushable # {}
  /\ flush' = Scan(FALSE)
  /\ UNCHANGED <<q, running, due, watched, toggles>>

\* _retry_delayed_schedule(): the dictionaries are in insertion order.
DrainRetry ==
  /\ flush.on /\ running = None /\ flush.retries # {}
  /\ LET j == Min(flush.retries) IN
       /\ flush' = [flush EXCEPT !.retries = @ \ {j},
                                 !.progressed = @ \/ j \in DOMAIN q.delayed]
       /\ q' = RetryDelayed(CancelTask(q, j), j)
       /\ due' = due \cap Registered(q')
  /\ UNCHANGED <<running, watched, toggles>>

\* is_active() of the object a job keeps active.
IsActive(rec) ==
  \/ rec.obj = None \/ ~q.on
  \/ rec.obj \in watched \/ \E s \in q.sources : s.obj = rec.obj

\* _defer_job(): back into the queue, or dropped after MaxDefers rounds.
Defer(p, j) ==
  LET rec == p.active[j]
      popped == CancelTask(PopJob(p, j), j)
  IN  IF rec.defers >= MaxDefers THEN Settle(popped, rec.ticket, "dropped")
      ELSE Rearm(popped, [rec EXCEPT !.defers = @ + 1])

\* _skip_job()
Skip(p, j) == CancelTask(PopJob(Settle(p, p.active[j].ticket, "skipped"), j), j)

NextJob(j) ==
  /\ flush.on /\ running = None /\ flush.retries = {}
  /\ flush.jobs # {} /\ j = Min(flush.jobs)

\* _execute_job() of a job an earlier callback of this flush removed, or whose
\* task it cancelled.
DrainGone(j) ==
  /\ NextJob(j)
  /\ j \notin DOMAIN q.active \/ j \notin DOMAIN q.armed
  /\ q' = PopJob(q, j)
  /\ due' = due \cap Registered(q')
  /\ flush' = [flush EXCEPT !.jobs = @ \ {j}]
  /\ UNCHANGED <<running, watched, toggles>>

\* _execute_job() of a job whose object is inactive.
DrainInactive(j) ==
  /\ NextJob(j)
  /\ j \in DOMAIN q.active \cap DOMAIN q.armed
  /\ ~IsActive(q.active[j])
  /\ q' = IF q.active[j].policy = "defer" THEN Defer(q, j) ELSE Skip(q, j)
  /\ due' = due \cap Registered(q')
  /\ flush' = [flush EXCEPT !.jobs = @ \ {j}]
  /\ UNCHANGED <<running, watched, toggles>>

\* _execute_job() calls the callback.
DrainRun(j) ==
  /\ NextJob(j)
  /\ j \in DOMAIN q.active \cap DOMAIN q.armed
  /\ IsActive(q.active[j])
  /\ q' = [CancelTask(q, j) EXCEPT !.fate[q.active[j].ticket] = "running"]
  /\ running' = [job |-> j, ticket |-> q.active[j].ticket]
  /\ flush' = [flush EXCEPT !.jobs = @ \ {j}, !.progressed = TRUE]
  /\ UNCHANGED <<due, watched, toggles>>

\* Variant: the finally clause does not pop the job.
PopRunningForgets == [q EXCEPT !.fate[running.ticket] = "ran"]

PopRunning == [PopJob(q, running.job) EXCEPT !.fate[running.ticket] = "ran"]

Finish ==
  /\ running # None
  /\ q' = PopRunning /\ due' = due \cap Registered(q')
  /\ running' = None
  /\ UNCHANGED <<flush, watched, toggles>>

\* The callback raises: its job is popped and the exception leaves flush_due().
Raise ==
  /\ running # None
  /\ q' = PopRunning /\ due' = due \cap Registered(q')
  /\ running' = None
  /\ flush' = NoFlush
  /\ UNCHANGED <<watched, toggles>>

\* Variant: flush_due() looks once.
DrainEndOnce ==
  /\ flush.on /\ running = None
  /\ flush.retries = {} /\ flush.jobs = {}
  /\ flush' = NoFlush
  /\ UNCHANGED <<q, running, due, watched, toggles>>

\* The pass is over: look again if anything ran, else return.
DrainEnd ==
  /\ flush.on /\ running = None
  /\ flush.retries = {} /\ flush.jobs = {}
  /\ flush' = IF flush.progressed /\ Flushable # {} THEN Scan(FALSE) ELSE NoFlush
  /\ UNCHANGED <<q, running, due, watched, toggles>>

Next ==
  \/ \E r \in Requests : Submit(r)
  \/ \E k \in Keys : CancelKey(k) \/ RescheduleKey(k)
  \/ \E j \in DOMAIN q.armed : CancelTaskOf(j)
  \/ \E j \in Registered(q) : Elapse(j)
  \/ Toggle
  \/ \E x \in Objects : Watch(x)
  \/ FlushBegin \/ DrainRetry \/ DrainEnd
  \/ \E j \in flush.jobs : DrainGone(j) \/ DrainInactive(j) \/ DrainRun(j)
  \/ Finish \/ Raise

Spec == Init /\ [][Next]_vars

-----------------------------------------------------------------------------
(* Properties *)

\* The flush, the due jobs and the flag have the shape the code gives them.
TypeOK ==
  /\ QueueTyped(q)
  /\ flush = [on |-> flush.on, retries |-> flush.retries, jobs |-> flush.jobs,
              progressed |-> flush.progressed]
  /\ flush.on \in BOOLEAN /\ flush.progressed \in BOOLEAN
  /\ flush.retries \cup flush.jobs \subseteq 1..(q.next - 1)
  /\ due \subseteq Registered(q)
  /\ watched \subseteq Objects /\ toggles \in 0..MaxToggles
  /\ running # None => flush.on

\* A job's own source keeps its object active, so as long as nobody touches the
\* flag no job is skipped or deferred, whatever room or zone interest does.
InactivePolicyNeverFires ==
  toggles = 0 =>
  /\ \A t \in DOMAIN q.fate : q.fate[t] \notin {"skipped", "dropped"}
  /\ \A j \in DOMAIN q.active : q.active[j].defers = 0

\* With toggles a job may lack its source and be deferred, but deferring it
\* registers the source: never twice, so _defer_job() never gives a job up.
DeferredAtMostOnce ==
  /\ \A j \in DOMAIN q.active : q.active[j].defers <= 1
  /\ \A t \in DOMAIN q.fate : q.fate[t] # "dropped"

\* Exactly the registered jobs whose call still waits can fire: a job cancelled,
\* evicted, skipped or popped by an exception never runs, also when the flush that
\* is running had already listed it, and none that waits is without its task.
TasksMatchJobs ==
  DOMAIN q.armed =
    {j \in Registered(q) :
       q.fate[(IF j \in DOMAIN q.active THEN q.active[j] ELSE q.delayed[j]).ticket] = "pending"}

\* A flush that returns leaves no due job behind that could run: it looks again
\* after a callback made another job due.
FlushServesDue ==
  [][flush.on /\ ~flush'.on /\ running = None => Flushable' = {}]_vars

\* Flushed instead of timed, the scheduler implements the same ledger: a call is
\* started at most once, deferred or retried in between, and ends stay final.  A
\* job whose task was cancelled directly still holds its key in the registry, but
\* for the ledger the call is over.
Ledger == INSTANCE JobLedger WITH
  Tickets <- 1..MaxId,
  fate    <- q.fate,
  holder  <- [k \in Keys |-> IF Maps(q.fate, Holder(q, k), "cancelled") THEN None ELSE Holder(q, k)]
LedgerSpec == Ledger!Spec
=============================================================================
