--------------------------- MODULE SchedulerQueue ---------------------------
(***************************************************************************)
(* The job registry of world/systems/scheduler.py and the functions that   *)
(* change it.  The registry is the four dictionaries _ACTIVE_JOBS,         *)
(* _KEY_TO_JOB_ID, _DELAYED_RETRY_JOBS and _DELAYED_KEY_TO_JOB_ID, the     *)
(* timers they armed and the scheduled-interest sources they keep in       *)
(* world/systems/interest.py; it is one value q here, and every function   *)
(* of the code is an operator from a registry to a registry, so that       *)
(* reschedule() = cancel() then schedule() reads as it does in the code.   *)
(* Scheduler.tla drives it with live timers, HarnessScheduler.tla with     *)
(* flush_due().                                                            *)
(*                                                                         *)
(* Abstracted: uuid job ids are increasing naturals, which also stand for  *)
(* created_at (ids are handed out in creation order); delays, metrics and  *)
(* log lines are left out.  Auxiliary: a ticket names the accepted call a  *)
(* job serves, across delayed retries, inactive deferrals and reschedules, *)
(* and q.fate records what became of each accepted ticket.                 *)
(***************************************************************************)
EXTENDS Integers, FiniteSets, Functions

CONSTANTS
  Keys,               \* normalised scheduler keys
  Owners, Systems,    \* owner references and system names
  Objects,            \* objects a job keeps active (interest_obj)
  None,               \* Python's None: no key, owner, system or object
  MaxPerOwner, MaxPerSystem, MaxTotal,             \* MAX_JOBS_PER_OWNER, ...
  OwnerBehavior, SystemBehavior, GlobalBehavior,   \* OWNER_QUOTA_BEHAVIOR, ...
  MaxDelayAttempts    \* DEFAULT_MAX_QUOTA_DELAY_ATTEMPTS

Behaviors == {"reject", "replace_oldest", "delay"}

ASSUME QueueAssumption ==
  /\ None \notin Keys \cup Owners \cup Systems \cup Objects
  /\ MaxPerOwner \in Nat /\ MaxPerSystem \in Nat /\ MaxTotal \in Nat
  /\ {OwnerBehavior, SystemBehavior, GlobalBehavior} \subseteq Behaviors
  /\ MaxDelayAttempts \in Nat \ {0}

\* What the record of a queued job keeps of the schedule() call.
Request ==
  [key : Keys \cup {None}, owner : Owners \cup {None}, system : Systems \cup {None},
   conflict : {"replace", "reject"},     \* key_conflict
   args     : BOOLEAN,                   \* were positional callback args given?
   obj      : Objects \cup {None},       \* interest_obj
   policy   : {"skip", "defer"},         \* inactive_policy
   defers   : Nat,                       \* inactive_defer_count
   attempt  : Nat,                       \* quota_delay_attempt
   ticket   : Nat \ {0}]

Withdrawn == {"cancelled", "replaced", "evicted", "rejected", "skipped", "dropped", "lost"}
Fates == {"pending", "running", "ran"} \cup Withdrawn

EmptyQueue ==
  [active |-> <<>>, keyJob |-> <<>>, delayed |-> <<>>, delayedKey |-> <<>>,
   armed |-> <<>>, sources |-> {}, on |-> FALSE, fate |-> <<>>, next |-> 1]

-----------------------------------------------------------------------------
(* Dictionaries *)
Put(f, x, v) == [y \in DOMAIN f \cup {x} |-> IF y = x THEN v ELSE f[y]]
Drop(f, x) == Restrict(f, DOMAIN f \ {x})
Maps(f, x, v) == x \in DOMAIN f /\ f[x] = v

\* Auxiliary: a ticket that is still waiting gets its fate.
Settle(q, t, f) ==
  [q EXCEPT !.fate = IF Maps(@, t, "pending") THEN [@ EXCEPT ![t] = f] ELSE @]

Accept(q, t) == [q EXCEPT !.fate = IF t \in DOMAIN @ THEN @ ELSE Put(@, t, "pending")]

-----------------------------------------------------------------------------
(* Scheduled interest: q.on is the interest_activation flag *)

\* The source a job registers on its object: named by the key, else by the job.
SourcesOf(j, rec) ==
  IF rec.obj = None THEN {}
  ELSE {[obj |-> rec.obj, id |-> IF rec.key = None THEN j ELSE rec.key]}

\* Variant: interest is never registered.
AddNoInterest(q, j, rec) == q

\* Variant: the source is removed under the job id, but was added under the key.
RemoveInterestById(q, j, rec) ==
  IF q.on THEN [q EXCEPT !.sources = @ \ {[obj |-> rec.obj, id |-> j]}] ELSE q

\* add_scheduled_interest() and remove_scheduled_interest() return at once
\* while the flag is off.
AddInterest(q, j, rec) ==
  IF q.on THEN [q EXCEPT !.sources = @ \cup SourcesOf(j, rec)] ELSE q
RemoveInterest(q, j, rec) ==
  IF q.on THEN [q EXCEPT !.sources = @ \ SourcesOf(j, rec)] ELSE q

-----------------------------------------------------------------------------
(* Removing jobs *)

\* Variant of _pop_job(): the key index is forgotten.
PopJobKeepsKey(q, j) ==
  IF j \in DOMAIN q.active
  THEN [RemoveInterest(q, j, q.active[j]) EXCEPT !.active = Drop(@, j)] ELSE q

\* _pop_job(), and the _sync_scheduled_interest_remove() every caller adds.
PopJob(q, j) ==
  IF j \in DOMAIN q.active
  THEN LET k == q.active[j].key IN
       [RemoveInterest(q, j, q.active[j]) EXCEPT
          !.active = Drop(@, j),
          !.keyJob = IF Maps(@, k, j) THEN Drop(@, k) ELSE @]
  ELSE q

PopDelayed(q, j) ==
  IF j \in DOMAIN q.delayed
  THEN LET k == q.delayed[j].key IN
       [q EXCEPT !.delayed = Drop(@, j),
                 !.delayedKey = IF Maps(@, k, j) THEN Drop(@, k) ELSE @]
  ELSE q

CancelTask(q, j) == [q EXCEPT !.armed = Drop(@, j)]

HasActive(q, k) == k \in DOMAIN q.keyJob /\ q.keyJob[k] \in DOMAIN q.active
HasDelayed(q, k) == k \in DOMAIN q.delayedKey /\ q.delayedKey[k] \in DOMAIN q.delayed

\* Variant of cancel(): the job is popped, its timer keeps running.
CancelKeepsTimer(q, k, why) ==
  IF HasActive(q, k)
  THEN PopJob(Settle(q, q.active[q.keyJob[k]].ticket, why), q.keyJob[k])
  ELSE IF HasDelayed(q, k)
  THEN PopDelayed(Settle(q, q.delayed[q.delayedKey[k]].ticket, why), q.delayedKey[k])
  ELSE q

\* cancel(): the active job of the key if there is one, else the delayed one.
\* why is the fate of its ticket, "pending" when the caller re-arms the job.
Cancel(q, k, why) ==
  IF HasActive(q, k)
  THEN LET j == q.keyJob[k]
       IN  CancelTask(PopJob(Settle(q, q.active[j].ticket, why), j), j)
  ELSE IF HasDelayed(q, k)
  THEN LET j == q.delayedKey[k]
       IN  CancelTask(PopDelayed(Settle(q, q.delayed[j].ticket, why), j), j)
  ELSE q

-----------------------------------------------------------------------------
(* Quotas *)
OwnedBy(q, o) == {j \in DOMAIN q.active : q.active[j].owner = o}
InSystem(q, s) == {j \in DOMAIN q.active : q.active[j].system = s}

\* Variant: > for >=.
OverOwnerLate(q, r) ==
  r.owner # None /\ Cardinality(OwnedBy(q, r.owner)) > MaxPerOwner

OverOwner(q, r) ==
  r.owner # None /\ Cardinality(OwnedBy(q, r.owner)) >= MaxPerOwner
OverSystem(q, r) ==
  r.system # None /\ Cardinality(InSystem(q, r.system)) >= MaxPerSystem
OverTotal(q) == Cardinality(DOMAIN q.active) >= MaxTotal

Reject(q, r) == Settle(q, r.ticket, "rejected")

\* Variant: the id is handed out again.
InsertReusesId(q, r) ==
  LET j == q.next IN
  [AddInterest(Accept(q, r.ticket), j, r) EXCEPT
     !.active = Put(@, j, [r EXCEPT !.attempt = 0]),
     !.keyJob = IF r.key = None THEN @ ELSE Put(@, r.key, j),
     !.armed  = Put(@, j, [kind |-> "run", ticket |-> r.ticket])]

\* The job enters _ACTIVE_JOBS under a fresh id and its timer is armed.
\* quota_delay_attempt is not kept by an active record.
Insert(q, r) ==
  LET j == q.next IN
  [AddInterest(Accept(q, r.ticket), j, r) EXCEPT
     !.active = Put(@, j, [r EXCEPT !.attempt = 0]),
     !.keyJob = IF r.key = None THEN @ ELSE Put(@, r.key, j),
     !.armed  = Put(@, j, [kind |-> "run", ticket |-> r.ticket]),
     !.next   = j + 1]

\* Variant: the evicted job's timer is not cancelled.
ReplaceOldestKeepsTimer(q, r, scope) ==
  IF scope = {} THEN Reject(q, r)
  ELSE LET j == CHOOSE i \in scope : \A h \in scope : i <= h
       IN  Insert(PopJob(Settle(q, q.active[j].ticket, "evicted"), j), r)

\* _replace_oldest_for_quota(): the oldest job of the violated scope goes, and
\* the new one is inserted without asking the remaining quotas again.
ReplaceOldest(q, r, scope) ==
  IF scope = {}
  THEN Reject(q, r)
  ELSE LET j == CHOOSE i \in scope : \A h \in scope : i <= h
       IN  Insert(CancelTask(PopJob(Settle(q, q.active[j].ticket, "evicted"), j), j), r)

\* Variant: the parked job gets no retry timer.
DelayWithoutTimer(q, r) ==
  IF r.attempt >= MaxDelayAttempts
  THEN Reject(q, r)
  ELSE [Accept(q, r.ticket) EXCEPT
          !.delayed    = Put(@, q.next, [r EXCEPT !.attempt = @ + 1]),
          !.delayedKey = IF r.key = None THEN @ ELSE Put(@, r.key, q.next),
          !.next       = @ + 1]

\* _queue_delayed_retry(): parked under a fresh id, or rejected for good.
Delay(q, r) ==
  LET j == q.next IN
  IF r.attempt >= MaxDelayAttempts
  THEN Reject(q, r)
  ELSE [Accept(q, r.ticket) EXCEPT
          !.delayed    = Put(@, j, [r EXCEPT !.attempt = @ + 1]),
          !.delayedKey = IF r.key = None THEN @ ELSE Put(@, r.key, j),
          !.armed      = Put(@, j, [kind |-> "retry", ticket |-> r.ticket]),
          !.next       = j + 1]

\* _apply_quota_violation() for a quota with this behaviour and scope.
Apply(q, r, behavior, scope) ==
  CASE behavior = "reject"         -> Reject(q, r)
    [] behavior = "replace_oldest" -> ReplaceOldest(q, r, scope)
    [] behavior = "delay"          -> Delay(q, r)

\* The quotas are asked in this order and only the first violated one acts.
Admit(q, r) ==
  IF OverOwner(q, r) THEN Apply(q, r, OwnerBehavior, OwnedBy(q, r.owner))
  ELSE IF OverSystem(q, r) THEN Apply(q, r, SystemBehavior, InSystem(q, r.system))
  ELSE IF OverTotal(q) THEN Apply(q, r, GlobalBehavior, DOMAIN q.active)
  ELSE Insert(q, r)

Held(q, k) == k \in DOMAIN q.keyJob \cup DOMAIN q.delayedKey

\* Variant: the old job is cancelled before the conflict policy is looked at.
ScheduleCancelsFirst(q, r) ==
  IF Held(q, r.key)
  THEN IF r.conflict = "reject" THEN Reject(Cancel(q, r.key, "replaced"), r)
       ELSE Admit(Cancel(q, r.key, "replaced"), r)
  ELSE Admit(q, r)

\* schedule(): the key conflict is settled before the quotas are asked.
Schedule(q, r) ==
  IF Held(q, r.key)
  THEN IF r.conflict = "reject" THEN Reject(q, r)
       ELSE Admit(Cancel(q, r.key, "replaced"), r)
  ELSE Admit(q, r)

\* The scheduler calling schedule(delay, cb, key=k, *args, ...) itself: with
\* positional args the first one also binds to key, Python raises TypeError and
\* the job, already popped, is gone.
Rearm(q, r) == IF r.args THEN Settle(q, r.ticket, "lost") ELSE Schedule(q, r)

\* Variant: the parked record is not popped before the retry.
RetryKeepsParked(q, j) ==
  IF j \in DOMAIN q.delayed THEN Rearm(q, q.delayed[j]) ELSE q

\* _retry_delayed_schedule(): the retry timer of a parked job fired.
RetryDelayed(q, j) ==
  IF j \in DOMAIN q.delayed THEN Rearm(PopDelayed(q, j), q.delayed[j]) ELSE q

\* A job re-armed from inside its own callback serves a new call.
NewTicketIfStarted(q, r) ==
  IF Maps(q.fate, r.ticket, "pending") THEN r ELSE [r EXCEPT !.ticket = q.next]

\* Variant: schedule() alone, without cancel() before it.
RescheduleWithoutCancel(q, k) ==
  IF HasActive(q, k) THEN Rearm(q, NewTicketIfStarted(q, q.active[q.keyJob[k]]))
  ELSE IF HasDelayed(q, k) THEN Rearm(q, NewTicketIfStarted(q, q.delayed[q.delayedKey[k]]))
  ELSE q

\* reschedule(key, delay)
Reschedule(q, k) ==
  IF HasActive(q, k)
  THEN Rearm(Cancel(q, k, "pending"), NewTicketIfStarted(q, q.active[q.keyJob[k]]))
  ELSE IF HasDelayed(q, k)
  THEN Rearm(Cancel(q, k, "pending"), NewTicketIfStarted(q, q.delayed[q.delayedKey[k]]))
  ELSE q

-----------------------------------------------------------------------------
(* What a registry looks like *)

IsRegistry(p) ==
  p = [active |-> p.active, keyJob |-> p.keyJob, delayed |-> p.delayed,
       delayedKey |-> p.delayedKey, armed |-> p.armed, sources |-> p.sources,
       on |-> p.on, fate |-> p.fate, next |-> p.next]

\* Job ids and tickets are handed out below next.
IdsBelow(ids, next) == \A j \in ids : j \in Nat \ {0} /\ j < next

RecordsTyped(jobs, fate) ==
  \A j \in DOMAIN jobs : jobs[j] \in Request /\ jobs[j].ticket \in DOMAIN fate
TasksTyped(armed, fate) ==
  \A j \in DOMAIN armed : armed[j] \in [kind : {"run", "retry"}, ticket : DOMAIN fate]
SourcesTyped(sources) == sources \subseteq [obj : Objects, id : Keys \cup Nat]

QueueTyped(p) ==
  /\ IsRegistry(p)
  /\ p.next \in Nat \ {0}
  /\ IdsBelow(DOMAIN p.active, p.next) /\ IdsBelow(DOMAIN p.delayed, p.next)
  /\ IdsBelow(DOMAIN p.armed, p.next) /\ IdsBelow(DOMAIN p.fate, p.next)
  /\ DOMAIN p.keyJob \subseteq Keys /\ DOMAIN p.delayedKey \subseteq Keys
  /\ RecordsTyped(p.active, p.fate) /\ RecordsTyped(p.delayed, p.fate)
  /\ TasksTyped(p.armed, p.fate)
  /\ \A t \in DOMAIN p.fate : p.fate[t] \in Fates
  /\ p.on \in BOOLEAN
  /\ SourcesTyped(p.sources)

\* A key names at most one job, active or delayed, and the two key indexes and
\* the two job tables never disagree about which.
KeysIndexed(p) ==
  /\ \A k \in DOMAIN p.keyJob :
       p.keyJob[k] \in DOMAIN p.active /\ p.active[p.keyJob[k]].key = k
  /\ \A k \in DOMAIN p.delayedKey :
       p.delayedKey[k] \in DOMAIN p.delayed /\ p.delayed[p.delayedKey[k]].key = k
  /\ \A j \in DOMAIN p.active :
       p.active[j].key # None => Maps(p.keyJob, p.active[j].key, j)
  /\ \A j \in DOMAIN p.delayed :
       p.delayed[j].key # None => Maps(p.delayedKey, p.delayed[j].key, j)
  /\ DOMAIN p.keyJob \cap DOMAIN p.delayedKey = {}

\* The ticket a key belongs to.
Holder(p, k) ==
  IF HasActive(p, k) THEN p.active[p.keyJob[k]].ticket
  ELSE IF HasDelayed(p, k) THEN p.delayed[p.delayedKey[k]].ticket
  ELSE None
=============================================================================
