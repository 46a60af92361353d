----------------------------- MODULE MCScheduler -----------------------------
(* Small instances of Scheduler for TLC. *)
EXTENDS Scheduler

CONSTANTS k1, k2, k3, o1, o2, s1, s2, x1

Call(k, o, s) ==
  [key |-> k, owner |-> o, system |-> s, conflict |-> "replace",
   args |-> FALSE, obj |-> None, policy |-> "defer", defers |-> 0,
   attempt |-> 0, ticket |-> 1]
For(x, r) == [r EXCEPT !.obj = x]
Refusing(r) == [r EXCEPT !.conflict = "reject"]
WithArgs(r) == [r EXCEPT !.args = TRUE]

\* Every key is used by one owner and one system, as all callers in the
\* repository do; one keyless job and one job without an owner.
KeyedRequests ==
  {For(x1, Call(k1, o1, s1)), Call(k2, o1, s1), Call(k3, o2, s1),
   For(x1, Call(None, o1, s2)), Call(None, None, s2), Refusing(Call(k1, o1, s1))}

\* The same key used by different owners and systems.
SharedKeyRequests ==
  {Call(k1, o1, s1), Call(k1, o2, s2), Call(k2, o2, s2), Refusing(Call(k2, o1, s1))}

\* Two owners and two systems crossing.
CrossedRequests ==
  {For(x1, Call(k1, o1, s1)), Call(k2, o1, s2), For(x1, Call(k3, o2, s2)), Call(None, o2, s1)}

ArgsRequests == KeyedRequests \cup {WithArgs(Call(k2, o1, s1))}
=============================================================================
