--------------------------- MODULE SchedulerCalls ---------------------------
(***************************************************************************)
(* The calls the rest of the program makes on the job registry, shared by  *)
(* the two modules that drive it.                                          *)
(***************************************************************************)
EXTENDS SchedulerQueue

CONSTANTS
  Requests,    \* the schedule() calls callers make (the ticket is filled in)
  MaxId        \* bound: callers stop adding jobs when this many ids are used

ASSUME RequestsAssumption ==
  /\ MaxId \in Nat
  /\ \A r \in Requests :
       /\ r \in Request
       \* _build_metadata() raises ValueError before any change otherwise
       /\ r.owner # None \/ r.system # None
       \* only the scheduler itself passes inactive_defer_count and
       \* quota_delay_attempt, when it queues a job again
       /\ r.defers = 0 /\ r.attempt = 0

\* A job id, a uuid, is nobody's key; None is no callback and no ticket.
ASSUME IdAssumption ==
  Keys \cap Nat = {} /\ None \notin Nat /\ None \notin [job : Nat, ticket : Nat]
=============================================================================
