------------------------------ MODULE MCHarness ------------------------------
(* Small instances of HarnessScheduler for TLC. *)
EXTENDS HarnessScheduler

CONSTANTS k1, k2, o1, s1, s2, x1

Call(k, s, x, policy) ==
  [key |-> k, owner |-> o1, system |-> s, conflict |-> "replace",
   args |-> FALSE, obj |-> x, policy |-> policy, defers |-> 0,
   attempt |-> 0, ticket |-> 1]

\* Two keyed jobs keeping one object active, one of them to be skipped and one
\* to be deferred when it is not, and a job without key or object.
InterestRequests ==
  {Call(k1, s1, x1, "defer"), Call(k2, s2, x1, "skip"), Call(None, s2, None, "defer")}
=============================================================================
