------------------------------ MODULE JobLedger ------------------------------
(***************************************************************************)
(* What the scheduler promises its callers, with no registry, timers or    *)
(* quotas in sight: every accepted call is a ticket; a key belongs to at   *)
(* most one ticket; a ticket waits until it is started or withdrawn, is    *)
(* started at most once, and an end is final.                              *)
(***************************************************************************)
CONSTANTS Keys, None, Tickets, Withdrawn

VARIABLES
  fate,      \* what became of each accepted ticket
  holder     \* the ticket a key belongs to, or None

vars == <<fate, holder>>

Waiting == {t \in DOMAIN fate : fate[t] = "pending"}
Started == {t \in DOMAIN fate : fate[t] = "running"}

Init == fate = <<>> /\ holder = [k \in Keys |-> None]

\* No other ticket's fate changes, except that those in gone are withdrawn.
Keeps(gone) ==
  \A t \in DOMAIN fate \ gone : fate'[t] = fate[t]
Withdraws(gone) ==
  /\ gone \subseteq Waiting
  /\ \A t \in gone : fate'[t] \in Withdrawn

\* A withdrawn ticket gives its key up; a waiting one keeps it; a started one
\* may lose it to a later call.
Holders(keys, gone) ==
  \A k \in keys :
    \/ holder'[k] = holder[k] /\ holder[k] \notin gone
    \/ holder'[k] = None /\ holder[k] \in gone \cup Started

\* Some waiting tickets are withdrawn (cancelled, evicted, rejected on retry, ...).
Withdraw ==
  \E gone \in SUBSET Waiting :
    /\ DOMAIN fate' = DOMAIN fate
    /\ Withdraws(gone) /\ Keeps(gone)
    /\ holder' \in [Keys -> Tickets \cup {None}]
    /\ Holders(Keys, gone)

\* A new ticket is accepted, under key k or under none; the ticket that waited
\* under k is withdrawn in the same step.
Accept(t, k) ==
  /\ t \notin DOMAIN fate
  /\ DOMAIN fate' = DOMAIN fate \cup {t}
  /\ fate'[t] = "pending"
  /\ holder' \in [Keys -> Tickets \cup {None}]
  /\ \E gone \in SUBSET Waiting :
       /\ Withdraws(gone) /\ Keeps(gone)
       /\ Holders(Keys \ {k}, gone)
       /\ k \in Keys => /\ holder'[k] = t
                        /\ holder[k] \in gone \cup Started \cup {None}

Start(t) ==
  /\ Started = {}
  /\ t \in Waiting
  /\ fate' = [fate EXCEPT ![t] = "running"]
  /\ UNCHANGED holder

Finish(t) ==
  /\ t \in Started
  /\ fate' = [fate EXCEPT ![t] = "ran"]
  /\ holder' = [k \in Keys |-> IF holder[k] = t THEN None ELSE holder[k]]

Next ==
  \/ Withdraw
  \/ \E t \in Tickets, k \in Keys \cup {None} : Accept(t, k)
  \/ \E t \in Tickets : Start(t) \/ Finish(t)

Spec == Init /\ [][Next]_vars
=============================================================================
