-------------------------- MODULE QueueLedgerProofs --------------------------
(***************************************************************************)
(* What each operator of SchedulerQueue.tla is for callers, who see only   *)
(* tickets and keys (JobLedger.tla), for every value of the constants.     *)
(*                                                                         *)
(* Most calls are several operators of the registry, each of which         *)
(* withdraws some tickets (Released), serves one (Placed) or ends one      *)
(* (Ended).  The lemmas say which an operator does and that they compose.  *)
(***************************************************************************)
EXTENDS QueueProofs

Pending(p) == {t \in DOMAIN p.fate : p.fate[t] = "pending"}
Running(p) == {t \in DOMAIN p.fate : p.fate[t] = "running"}
Done(p) == {t \in DOMAIN p.fate : p.fate[t] # "pending"}

\* The keys that change hands give up a ticket of gone, or one that no
\* longer waits.
Released(n, p, gone) ==
  /\ gone \subseteq Pending(p)
  /\ DOMAIN n.fate = DOMAIN p.fate
  /\ \A t \in gone : n.fate[t] \in Withdrawn
  /\ \A t \in DOMAIN p.fate \ gone : n.fate[t] = p.fate[t]
  /\ \A k \in Keys :
       \/ Holder(n, k) = Holder(p, k) /\ Holder(p, k) \notin gone
       \/ Holder(n, k) = None /\ Holder(p, k) \in gone \cup Done(p)

\* Ticket t is served under a key that was free.
Placed(n, p, t, key) ==
  /\ DOMAIN n.fate = DOMAIN p.fate \cup {t}
  /\ \A u \in DOMAIN n.fate : n.fate[u] = IF u \in DOMAIN p.fate THEN p.fate[u] ELSE "pending"
  /\ key \in Keys => Holder(p, key) = None /\ Holder(n, key) = t
  /\ \A k \in Keys \ {key} : Holder(n, k) = Holder(p, k)

\* The call of ticket t is turned down for good.
Ended(n, p, t) ==
  /\ \E why \in Withdrawn : Settled(n, p, t, why)
  /\ \A k \in Keys : Holder(n, k) = Holder(p, k)

\* What schedule() makes of ticket t.
Outcome(n, p, t, key) ==
  \E c, gone :
    /\ Released(c, p, gone) /\ t \notin gone
    /\ Placed(n, c, t, key) \/ Ended(n, c, t)

\* Ticket t is in hand: its job is gone, and its fate is open.
Taken(n, p, t, key) ==
  /\ t \in Pending(p)
  /\ DOMAIN n.fate = DOMAIN p.fate /\ \A u \in DOMAIN p.fate : n.fate[u] = p.fate[u]
  /\ key \in Keys => Holder(p, key) = t /\ Holder(n, key) = None
  /\ \A k \in Keys \ {key} : Holder(n, k) = Holder(p, k) /\ Holder(p, k) # t

-----------------------------------------------------------------------------
(* Composition *)

LEMMA WithdrawnNotOpen == "pending" \notin Withdrawn /\ "running" \notin Withdrawn
  BY DEF Withdrawn

LEMMA ReleasedSelf ==
  ASSUME NEW p
  PROVE  Released(p, p, {})
  BY DEF Released

LEMMA ReleasedTrans ==
  ASSUME NEW n, NEW m, NEW p, NEW g, NEW h, Released(m, p, g), Released(n, m, h)
  PROVE  Released(n, p, g \cup h)
<1>1. /\ DOMAIN m.fate = DOMAIN p.fate /\ DOMAIN n.fate = DOMAIN p.fate
      /\ Pending(m) \subseteq Pending(p) /\ Done(m) = Done(p) \cup g /\ g \cap h = {}
  BY WithdrawnNotOpen DEF Released, Pending, Done
<1>2. g \cup h \subseteq Pending(p)
  BY <1>1 DEF Released
<1>3. \A t \in g \cup h : n.fate[t] \in Withdrawn
  BY <1>1 DEF Released, Pending
<1>4. \A t \in DOMAIN p.fate \ (g \cup h) : n.fate[t] = p.fate[t]
  BY <1>1 DEF Released
<1>5. ASSUME NEW k \in Keys
      PROVE  \/ Holder(n, k) = Holder(p, k) /\ Holder(p, k) \notin g \cup h
             \/ Holder(n, k) = None /\ Holder(p, k) \in (g \cup h) \cup Done(p)
  <2>1. \/ Holder(m, k) = Holder(p, k) /\ Holder(p, k) \notin g
        \/ Holder(m, k) = None /\ Holder(p, k) \in g \cup Done(p)
    BY DEF Released
  <2>2. \/ Holder(n, k) = Holder(m, k) /\ Holder(m, k) \notin h
        \/ Holder(n, k) = None /\ Holder(m, k) \in h \cup Done(m)
    BY DEF Released
  <2>. QED  BY <1>1, <2>1, <2>2
<1>. QED  BY <1>1, <1>2, <1>3, <1>4, <1>5 DEF Released

LEMMA OutcomeAfter ==
  ASSUME NEW n, NEW m, NEW p, NEW g, NEW t, NEW key,
         Released(m, p, g), t \notin g, Outcome(n, m, t, key)
  PROVE  Outcome(n, p, t, key)
<1>1. PICK c, gone : /\ Released(c, m, gone) /\ t \notin gone
                     /\ Placed(n, c, t, key) \/ Ended(n, c, t)
  BY DEF Outcome
<1>2. Released(c, p, g \cup gone) /\ t \notin g \cup gone
  BY <1>1, ReleasedTrans
<1>. QED  BY <1>1, <1>2 DEF Outcome

\* A ticket that was in hand is served again, or withdrawn.
LEMMA Retaken ==
  ASSUME NEW n, NEW m, NEW p, NEW t, NEW key, Taken(m, p, t, key), Outcome(n, m, t, key)
  PROVE  \E gone : Released(n, p, gone)
<1>1. PICK c, gone : /\ Released(c, m, gone) /\ t \notin gone
                     /\ Placed(n, c, t, key) \/ Ended(n, c, t)
  BY DEF Outcome
<1>2. /\ Pending(m) = Pending(p) /\ Done(m) = Done(p) /\ t \in DOMAIN p.fate
      /\ DOMAIN m.fate = DOMAIN p.fate /\ \A u \in DOMAIN p.fate : m.fate[u] = p.fate[u]
  BY DEF Taken, Pending, Done
<1>3. DOMAIN c.fate = DOMAIN p.fate /\ c.fate[t] = "pending"
  BY <1>1, <1>2 DEF Released, Taken, Pending
<1>4. key \in Keys => Holder(c, key) = None
  BY <1>1 DEF Released, Taken
<1>5. ASSUME NEW k \in Keys, k # key
      PROVE  \/ Holder(c, k) = Holder(p, k) /\ Holder(p, k) \notin gone \cup {t}
             \/ Holder(c, k) = None /\ Holder(p, k) \in gone \cup Done(p)
  <2>1. Holder(m, k) = Holder(p, k) /\ Holder(p, k) # t
    BY <1>5 DEF Taken
  <2>. QED  BY <1>1, <1>2, <2>1 DEF Released
<1>6. CASE Placed(n, c, t, key)
  <2>1. DOMAIN n.fate = DOMAIN p.fate /\ \A u \in DOMAIN p.fate : n.fate[u] = c.fate[u]
    BY <1>2, <1>3, <1>6 DEF Placed
  <2>2. key \in Keys => Holder(n, key) = Holder(p, key) /\ Holder(p, key) \notin gone
    BY <1>1, <1>6 DEF Placed, Taken
  <2>3. \A k \in Keys \ {key} : Holder(n, k) = Holder(c, k)
    BY <1>6 DEF Placed
  <2>4. /\ gone \subseteq Pending(p) /\ gone \subseteq DOMAIN p.fate
        /\ \A u \in gone : n.fate[u] \in Withdrawn
        /\ \A u \in DOMAIN p.fate \ gone : n.fate[u] = p.fate[u]
    BY <1>1, <1>2, <2>1 DEF Released, Pending
  <2>5. ASSUME NEW k \in Keys
        PROVE  \/ Holder(n, k) = Holder(p, k) /\ Holder(p, k) \notin gone
               \/ Holder(n, k) = None /\ Holder(p, k) \in gone \cup Done(p)
    BY <1>5, <2>2, <2>3
  <2>6. Released(n, p, gone)
    BY <2>1, <2>4, <2>5 DEF Released
  <2>. QED  BY <2>6
<1>7. CASE Ended(n, c, t)
  <2>1. PICK why \in Withdrawn : Settled(n, c, t, why)
    BY <1>7 DEF Ended
  <2>2. /\ DOMAIN n.fate = DOMAIN p.fate /\ n.fate[t] \in Withdrawn
        /\ \A u \in DOMAIN p.fate \ {t} : n.fate[u] = c.fate[u]
    BY <1>2, <1>3, <2>1 DEF Settled
  <2>3. \A k \in Keys : Holder(n, k) = Holder(c, k)
    BY <1>7 DEF Ended
  <2>4. key \in Keys => Holder(n, key) = None /\ Holder(p, key) \in gone \cup {t}
    BY <1>4, <2>3 DEF Taken
  <2>5. /\ gone \cup {t} \subseteq Pending(p)
        /\ \A u \in gone \cup {t} : n.fate[u] \in Withdrawn
        /\ \A u \in DOMAIN p.fate \ (gone \cup {t}) : n.fate[u] = p.fate[u]
    BY <1>1, <1>2, <2>2 DEF Released, Taken, Pending
  <2>6. ASSUME NEW k \in Keys
        PROVE  \/ Holder(n, k) = Holder(p, k) /\ Holder(p, k) \notin gone \cup {t}
               \/ Holder(n, k) = None /\ Holder(p, k) \in (gone \cup {t}) \cup Done(p)
    BY <1>5, <2>3, <2>4
  <2>7. Released(n, p, gone \cup {t})
    BY <2>2, <2>5, <2>6 DEF Released
  <2>. QED  BY <2>7
<1>. QED  BY <1>1, <1>6, <1>7

-----------------------------------------------------------------------------
(* The tickets of the keys *)

\* A key's ticket is the one of its job, active or parked.
LEMMA HolderOf ==
  ASSUME NEW p, Sound(p), NEW k \in Keys
  PROVE  /\ \A j \in DOMAIN p.active : p.active[j].key = k => Holder(p, k) = p.active[j].ticket
         /\ \A j \in DOMAIN p.delayed : p.delayed[j].key = k => Holder(p, k) = p.delayed[j].ticket
         /\ \/ Holder(p, k) = None
            \/ \E j \in DOMAIN p.active : p.active[j].key = k
            \/ \E j \in DOMAIN p.delayed : p.delayed[j].key = k
<1>0. k # None /\ KeysIndexed(p)
  BY QueueAssumption DEF Sound
<1>1. ASSUME NEW j \in DOMAIN p.active, p.active[j].key = k
      PROVE  Holder(p, k) = p.active[j].ticket
  <2>1. Maps(p.keyJob, k, j)
    BY <1>0, <1>1 DEF KeysIndexed
  <2>. QED  BY <2>1 DEF Holder, HasActive, Maps
<1>2. ASSUME NEW j \in DOMAIN p.delayed, p.delayed[j].key = k
      PROVE  Holder(p, k) = p.delayed[j].ticket
  <2>1. Maps(p.delayedKey, k, j) /\ k \notin DOMAIN p.keyJob
    BY <1>0, <1>2 DEF KeysIndexed, Maps
  <2>. QED  BY <2>1 DEF Holder, HasActive, HasDelayed, Maps
<1>3. Holder(p, k) # None => HasActive(p, k) \/ HasDelayed(p, k)
  BY DEF Holder
<1>4. /\ HasActive(p, k) => \E j \in DOMAIN p.active : p.active[j].key = k
      /\ HasDelayed(p, k) => \E j \in DOMAIN p.delayed : p.delayed[j].key = k
  BY <1>0 DEF HasActive, HasDelayed, KeysIndexed
<1>. QED  BY <1>1, <1>2, <1>3, <1>4

\* Two registries with the same jobs under a key have the same ticket for it.
LEMMA SameHolder ==
  ASSUME NEW p, Sound(p), NEW n, Sound(n), NEW k \in Keys,
         \A j \in DOMAIN p.active : p.active[j].key = k => j \in DOMAIN n.active /\ n.active[j] = p.active[j],
         \A j \in DOMAIN p.delayed : p.delayed[j].key = k => j \in DOMAIN n.delayed /\ n.delayed[j] = p.delayed[j],
         \A j \in DOMAIN n.active : n.active[j].key = k => j \in DOMAIN p.active /\ n.active[j] = p.active[j],
         \A j \in DOMAIN n.delayed : n.delayed[j].key = k => j \in DOMAIN p.delayed /\ n.delayed[j] = p.delayed[j]
  PROVE  Holder(n, k) = Holder(p, k)
<1>1. CASE \E j \in DOMAIN p.active : p.active[j].key = k
  BY <1>1, HolderOf
<1>2. CASE \E j \in DOMAIN p.delayed : p.delayed[j].key = k
  BY <1>2, HolderOf
<1>3. CASE /\ \A j \in DOMAIN p.active : p.active[j].key # k
           /\ \A j \in DOMAIN p.delayed : p.delayed[j].key # k
  <2>1. /\ \A j \in DOMAIN n.active : n.active[j].key # k
        /\ \A j \in DOMAIN n.delayed : n.delayed[j].key # k
    BY <1>3
  <2>. QED  BY <1>3, <2>1, HolderOf
<1>. QED  BY <1>1, <1>2, <1>3

\* No other job has this job's key.
LEMMA OwnKey ==
  ASSUME NEW p, Sound(p), NEW k \in Keys
  PROVE  /\ \A i, j \in DOMAIN p.active : p.active[i].key = k /\ p.active[j].key = k => i = j
         /\ \A i, j \in DOMAIN p.delayed : p.delayed[i].key = k /\ p.delayed[j].key = k => i = j
         /\ \A i \in DOMAIN p.active, j \in DOMAIN p.delayed : ~(p.active[i].key = k /\ p.delayed[j].key = k)
<1>0. k # None
  BY QueueAssumption
<1>1. /\ \A i \in DOMAIN p.active : p.active[i].key = k => Maps(p.keyJob, k, i)
      /\ \A i \in DOMAIN p.delayed : p.delayed[i].key = k => Maps(p.delayedKey, k, i)
      /\ DOMAIN p.keyJob \cap DOMAIN p.delayedKey = {}
  BY <1>0 DEF Sound, KeysIndexed
<1>. QED  BY <1>1 DEF Maps

\* What taking a job away does to the tickets of the keys.
LEMMA DropActiveHolder ==
  ASSUME NEW p, Sound(p), NEW n, Sound(n), NEW j \in DOMAIN p.active,
         n.active = Drop(p.active, j), n.delayed = p.delayed, NEW k \in Keys
  PROVE  /\ p.active[j].key = k => Holder(p, k) = p.active[j].ticket /\ Holder(n, k) = None
         /\ p.active[j].key # k => Holder(n, k) = Holder(p, k)
<1>0. n.active = Drop(p.active, j)
  OBVIOUS
<1>1. DOMAIN n.active = DOMAIN p.active \ {j} /\ \A i \in DOMAIN n.active : n.active[i] = p.active[i]
  BY <1>0 DEF Drop, Restrict
<1>2. ASSUME p.active[j].key = k
      PROVE  Holder(p, k) = p.active[j].ticket /\ Holder(n, k) = None
  <2>1. Holder(p, k) = p.active[j].ticket
    BY <1>2, HolderOf
  <2>2. /\ \A i \in DOMAIN n.active : n.active[i].key # k
        /\ \A i \in DOMAIN n.delayed : n.delayed[i].key # k
    BY <1>1, <1>2, OwnKey
  <2>. QED  BY <2>1, <2>2, HolderOf
<1>3. ASSUME p.active[j].key # k PROVE Holder(n, k) = Holder(p, k)
  BY <1>1, <1>3, SameHolder
<1>. QED  BY <1>2, <1>3

LEMMA DropDelayedHolder ==
  ASSUME NEW p, Sound(p), NEW n, Sound(n), NEW j \in DOMAIN p.delayed,
         n.delayed = Drop(p.delayed, j), n.active = p.active, NEW k \in Keys
  PROVE  /\ p.delayed[j].key = k => Holder(p, k) = p.delayed[j].ticket /\ Holder(n, k) = None
         /\ p.delayed[j].key # k => Holder(n, k) = Holder(p, k)
<1>0. n.delayed = Drop(p.delayed, j)
  OBVIOUS
<1>1. DOMAIN n.delayed = DOMAIN p.delayed \ {j} /\ \A i \in DOMAIN n.delayed : n.delayed[i] = p.delayed[i]
  BY <1>0 DEF Drop, Restrict
<1>2. ASSUME p.delayed[j].key = k
      PROVE  Holder(p, k) = p.delayed[j].ticket /\ Holder(n, k) = None
  <2>1. Holder(p, k) = p.delayed[j].ticket
    BY <1>2, HolderOf
  <2>2. /\ \A i \in DOMAIN n.active : n.active[i].key # k
        /\ \A i \in DOMAIN n.delayed : n.delayed[i].key # k
    BY <1>1, <1>2, OwnKey
  <2>. QED  BY <2>1, <2>2, HolderOf
<1>3. ASSUME p.delayed[j].key # k PROVE Holder(n, k) = Holder(p, k)
  BY <1>1, <1>3, SameHolder
<1>. QED  BY <1>2, <1>3

\* A waiting job's ticket is no other job's.
LEMMA OwnTicket ==
  ASSUME NEW p, NEW S, NEW H, NEW X, Good(p, S, H, X), NEW k \in Keys,
         NEW t, Maps(p.fate, t, "pending"), Holder(p, k) = t,
         NEW j \in DOMAIN p.active \cup DOMAIN p.delayed, JobTicket(p, j) = t
  PROVE  (IF j \in DOMAIN p.active THEN p.active[j].key ELSE p.delayed[j].key) = k
<1>0. Sound(p) /\ DOMAIN p.active \cap DOMAIN p.delayed = {}
  BY Disjoint DEF Good
<1>1. t # None
  BY IdAssumption DEF Maps, Good, Sound, QueueTyped, IdsBelow
<1>2. PICK i \in DOMAIN p.active \cup DOMAIN p.delayed :
        JobTicket(p, i) = t /\ (IF i \in DOMAIN p.active THEN p.active[i].key ELSE p.delayed[i].key) = k
  <2>1. CASE \E i \in DOMAIN p.active : p.active[i].key = k
    BY <1>0, <2>1, HolderOf DEF JobTicket
  <2>2. CASE \E i \in DOMAIN p.delayed : p.delayed[i].key = k
    BY <1>0, <2>2, HolderOf DEF JobTicket
  <2>. QED  BY <1>0, <1>1, <2>1, <2>2, HolderOf
<1>3. ASSUME NEW h \in DOMAIN p.active \cup DOMAIN p.delayed, JobTicket(p, h) = t
      PROVE  h \in DOMAIN p.armed
  <2>1. CASE h \in DOMAIN p.delayed
    BY <2>1 DEF Good, Timed
  <2>2. CASE h \in DOMAIN p.active
    <3>1. p.active[h].ticket = t
      BY <1>3, <2>2 DEF JobTicket
    <3>2. [job |-> h, ticket |-> t] \notin S
      BY DEF Good, Ticketed, Maps
    <3>. QED  BY <2>2, <3>1, <3>2 DEF Good, Ticketed
  <2>. QED  BY <2>1, <2>2
<1>4. i = j
  BY <1>2, <1>3 DEF Good, Ticketed
<1>. QED  BY <1>2, <1>4

-----------------------------------------------------------------------------
(* What each operator does to the ledger *)

LEMMA GoneReleased ==
  ASSUME NEW p, NEW S, NEW H, NEW X, Good(p, S, H, X), NEW j \in DOMAIN p.active,
         NEW why \in Withdrawn
  PROVE  \E gone : Released(Gone(p, j, why), p, gone) /\ gone \cap H = {}
<1>. DEFINE n == Gone(p, j, why)
            t == p.active[j].ticket
            gone == {t} \cap Pending(p)
<1>0. Sound(p) /\ IsRegistry(p) /\ why \in Fates \ {"pending"}
  BY WithdrawnNotOpen DEF Good, Sound, QueueTyped, Fates
<1>1. /\ n.active = Drop(p.active, j) /\ n.delayed = p.delayed
      /\ n.fate = Settle(p, t, why).fate
  BY <1>0, GoneFields
<1>2. Sound(n)
  BY <1>0, GoneSmaller DEF Smaller
<1>. HIDE DEF n
<1>3. Settled(n, p, t, why)
  BY <1>0, <1>1, SettleSettled
<1>4. JobTicket(p, j) = t /\ t \in DOMAIN p.fate
  BY <1>0 DEF JobTicket, Sound, QueueTyped, RecordsTyped
<1>5. t \in Pending(p) \/ t \in Done(p)
  BY <1>4 DEF Pending, Done
<1>6. ASSUME NEW k \in Keys
      PROVE  \/ Holder(n, k) = Holder(p, k) /\ Holder(p, k) \notin gone
             \/ Holder(n, k) = None /\ Holder(p, k) \in gone \cup Done(p)
  <2>1. CASE p.active[j].key = k
    BY <1>0, <1>1, <1>2, <1>5, <2>1, DropActiveHolder
  <2>2. CASE p.active[j].key # k
    <3>1. Holder(n, k) = Holder(p, k)
      BY <1>0, <1>1, <1>2, <2>2, DropActiveHolder
    <3>2. t \in Pending(p) => Holder(p, k) # t
      BY <1>4, <2>2, OwnTicket DEF Pending, Maps
    <3>. QED  BY <3>1, <3>2
  <2>. QED  BY <2>1, <2>2
<1>7. /\ gone \subseteq Pending(p) /\ DOMAIN n.fate = DOMAIN p.fate
      /\ \A u \in gone : n.fate[u] \in Withdrawn
      /\ \A u \in DOMAIN p.fate \ gone : n.fate[u] = p.fate[u]
  BY <1>3 DEF Settled, Pending
<1>8. gone \cap H = {}
  <2>1. CASE j \in DOMAIN p.armed
    BY <1>4, <2>1 DEF Good, Ticketed
  <2>2. CASE j \notin DOMAIN p.armed
    <3>1. [job |-> j, ticket |-> t] \in S
      BY <2>2 DEF Good, Ticketed
    <3>2. t \notin Pending(p)
      BY <3>1 DEF Good, Ticketed, Pending
    <3>. QED  BY <3>2
  <2>. QED  BY <2>1, <2>2
<1>9. Released(n, p, gone)
  BY <1>6, <1>7 DEF Released
<1>. QED  BY <1>8, <1>9 DEF n

LEMMA UnparkedReleased ==
  ASSUME NEW p, NEW S, NEW H, NEW X, Good(p, S, H, X), NEW j \in DOMAIN p.delayed,
         NEW why \in Withdrawn
  PROVE  \E gone : Released(Unparked(p, j, why), p, gone) /\ gone \cap H = {}
<1>. DEFINE n == Unparked(p, j, why)
            t == p.delayed[j].ticket
            gone == {t} \cap Pending(p)
<1>0. Sound(p) /\ IsRegistry(p) /\ why \in Fates \ {"pending"}
  BY WithdrawnNotOpen DEF Good, Sound, QueueTyped, Fates
<1>1. /\ n.delayed = Drop(p.delayed, j) /\ n.active = p.active
      /\ n.fate = Settle(p, t, why).fate
  BY <1>0, UnparkedFields
<1>2. Sound(n)
  BY <1>0, UnparkedSmaller DEF Smaller
<1>. HIDE DEF n
<1>3. Settled(n, p, t, why)
  BY <1>0, <1>1, SettleSettled
<1>4. JobTicket(p, j) = t /\ t \in DOMAIN p.fate /\ j \notin DOMAIN p.active /\ j \in DOMAIN p.armed
  BY <1>0, Disjoint DEF JobTicket, Good, Timed, Sound, QueueTyped, RecordsTyped
<1>5. t \in Pending(p)
  BY <1>4 DEF Good, Ticketed, Pending, Maps
<1>6. ASSUME NEW k \in Keys
      PROVE  \/ Holder(n, k) = Holder(p, k) /\ Holder(p, k) \notin gone
             \/ Holder(n, k) = None /\ Holder(p, k) \in gone \cup Done(p)
  <2>1. CASE p.delayed[j].key = k
    BY <1>0, <1>1, <1>2, <1>5, <2>1, DropDelayedHolder
  <2>2. CASE p.delayed[j].key # k
    <3>1. Holder(n, k) = Holder(p, k)
      BY <1>0, <1>1, <1>2, <2>2, DropDelayedHolder
    <3>2. Holder(p, k) # t
      BY <1>4, <1>5, <2>2, OwnTicket DEF Pending, Maps
    <3>. QED  BY <3>1, <3>2
  <2>. QED  BY <2>1, <2>2
<1>7. /\ gone \subseteq Pending(p) /\ DOMAIN n.fate = DOMAIN p.fate
      /\ \A u \in gone : n.fate[u] \in Withdrawn
      /\ \A u \in DOMAIN p.fate \ gone : n.fate[u] = p.fate[u]
  BY <1>3 DEF Settled, Pending
<1>8. gone \cap H = {}
  BY <1>4 DEF Good, Ticketed
<1>9. Released(n, p, gone)
  BY <1>6, <1>7 DEF Released
<1>. QED  BY <1>8, <1>9 DEF n

\* Nobody starts or ends a running call but the scheduler itself.
LEMMA ReleasedRunning ==
  ASSUME NEW n, NEW p, NEW gone, Released(n, p, gone)
  PROVE  Running(n) = Running(p)
  BY WithdrawnNotOpen DEF Released, Running, Pending

LEMMA CancelReleased ==
  ASSUME NEW p, NEW S, NEW H, NEW X, Good(p, S, H, X), NEW k, NEW why \in Withdrawn
  PROVE  \E gone : Released(Cancel(p, k, why), p, gone) /\ gone \cap H = {}
<1>1. CASE HasActive(p, k)
  <2>1. Cancel(p, k, why) = Gone(p, p.keyJob[k], why)
    BY <1>1 DEF Cancel, Gone
  <2>. QED  BY <1>1, <2>1, GoneReleased DEF HasActive
<1>2. CASE ~HasActive(p, k) /\ HasDelayed(p, k)
  <2>1. Cancel(p, k, why) = Unparked(p, p.delayedKey[k], why)
    BY <1>2 DEF Cancel, Unparked
  <2>. QED  BY <1>2, <2>1, UnparkedReleased DEF HasDelayed
<1>3. CASE ~HasActive(p, k) /\ ~HasDelayed(p, k)
  BY <1>3, ReleasedSelf DEF Cancel
<1>. QED  BY <1>1, <1>2, <1>3

LEMMA FreeHolder ==
  ASSUME NEW p, NEW r, Free(p, r)
  PROVE  Holder(p, r.key) = None
  BY DEF Free, Held, Holder, HasActive, HasDelayed

\* Adding one job under a free key.
LEMMA AddedHolder ==
  ASSUME NEW p, Sound(p), NEW n, Sound(n), NEW j, NEW rec, NEW k \in Keys,
         j \notin DOMAIN p.active, j \notin DOMAIN p.delayed,
         \/ n.active = Put(p.active, j, rec) /\ n.delayed = p.delayed
         \/ n.delayed = Put(p.delayed, j, rec) /\ n.active = p.active
  PROVE  Holder(n, k) = IF rec.key = k THEN rec.ticket ELSE Holder(p, k)
<1>1. CASE n.active = Put(p.active, j, rec) /\ n.delayed = p.delayed
  <2>0. n.active = Put(p.active, j, rec)
    BY <1>1
  <2>1. /\ DOMAIN n.active = DOMAIN p.active \cup {j} /\ n.active[j] = rec
        /\ \A i \in DOMAIN p.active : n.active[i] = p.active[i]
    BY <2>0 DEF Put
  <2>2. CASE rec.key = k
    BY <2>1, <2>2, HolderOf
  <2>3. CASE rec.key # k
    BY <1>1, <2>1, <2>3, SameHolder
  <2>. QED  BY <2>2, <2>3
<1>2. CASE n.delayed = Put(p.delayed, j, rec) /\ n.active = p.active
  <2>0. n.delayed = Put(p.delayed, j, rec)
    BY <1>2
  <2>1. /\ DOMAIN n.delayed = DOMAIN p.delayed \cup {j} /\ n.delayed[j] = rec
        /\ \A i \in DOMAIN p.delayed : n.delayed[i] = p.delayed[i]
    BY <2>0 DEF Put
  <2>2. CASE rec.key = k
    BY <2>1, <2>2, HolderOf
  <2>3. CASE rec.key # k
    BY <1>2, <2>1, <2>3, SameHolder
  <2>. QED  BY <2>2, <2>3
<1>. QED  BY <1>1, <1>2

LEMMA NextIsNew ==
  ASSUME NEW p, Sound(p)
  PROVE  p.next \notin DOMAIN p.active /\ p.next \notin DOMAIN p.delayed /\ p.next \notin DOMAIN p.fate
  BY DEF Sound, QueueTyped, IdsBelow

LEMMA InsertPlaced ==
  ASSUME NEW p, Sound(p), NEW r, Fits(p, r), Free(p, r)
  PROVE  Placed(Insert(p, r), p, r.ticket, r.key)
<1>. DEFINE n == Insert(p, r)
            j == p.next
            rec == [r EXCEPT !.attempt = 0]
<1>0. rec.key = r.key /\ rec.ticket = r.ticket
  BY DEF Fits, Request
<1>1. /\ n.active = Put(p.active, j, rec) /\ n.delayed = p.delayed
      /\ n.armed = Put(p.armed, j, [kind |-> "run", ticket |-> r.ticket])
      /\ n.sources = IF p.on THEN p.sources \cup SourcesOf(j, r) ELSE p.sources
      /\ n.on = p.on /\ n.next = j + 1
      /\ n.fate = Accept(p, r.ticket).fate
  <2>1. IsRegistry(p)
    BY DEF Sound, QueueTyped
  <2>. QED  BY <2>1, InsertFields
<1>2. Sound(n)
  BY InsertLater DEF Later
<1>. HIDE DEF n, rec
<1>3. ASSUME NEW k \in Keys
      PROVE  Holder(n, k) = IF r.key = k THEN r.ticket ELSE Holder(p, k)
  <2>1. j \notin DOMAIN p.active /\ j \notin DOMAIN p.delayed
    BY NextIsNew
  <2>2. Holder(n, k) = IF rec.key = k THEN rec.ticket ELSE Holder(p, k)
    BY <1>1, <1>2, <2>1, AddedHolder
  <2>. QED  BY <1>0, <2>2
<1>4. /\ DOMAIN n.fate = DOMAIN p.fate \cup {r.ticket}
      /\ \A u \in DOMAIN n.fate : n.fate[u] = IF u \in DOMAIN p.fate THEN p.fate[u] ELSE "pending"
  BY <1>1, AcceptFate DEF Sound, QueueTyped
<1>5. Placed(n, p, r.ticket, r.key)
  BY <1>3, <1>4, FreeHolder DEF Placed
<1>. QED  BY <1>5 DEF n

LEMMA SettleEnded ==
  ASSUME NEW p, Sound(p), NEW t, NEW why \in Withdrawn
  PROVE  Ended(Settle(p, t, why), p, t)
<1>. DEFINE n == Settle(p, t, why)
<1>1. n.active = p.active /\ n.delayed = p.delayed
  BY DEF Settle, Sound, QueueTyped, IsRegistry
<1>2. Sound(n)
  BY SettleSmaller DEF Smaller, Fates
<1>3. Settled(n, p, t, why)
  BY SettleSettled DEF Sound, QueueTyped
<1>. HIDE DEF n
<1>4. \A k \in Keys : Holder(n, k) = Holder(p, k)
  BY <1>1, <1>2, SameHolder
<1>5. Ended(n, p, t)
  BY <1>3, <1>4 DEF Ended
<1>. QED  BY <1>5 DEF n

LEMMA DelayOutcome ==
  ASSUME NEW p, Sound(p), NEW r, Fits(p, r), Free(p, r)
  PROVE  Placed(Delay(p, r), p, r.ticket, r.key) \/ Ended(Delay(p, r), p, r.ticket)
<1>a. CASE r.attempt >= MaxDelayAttempts
  <2>1. Delay(p, r) = Settle(p, r.ticket, "rejected")
    BY <1>a DEF Delay, Reject
  <2>. QED  BY <2>1, SettleEnded DEF Withdrawn
<1>b. CASE ~(r.attempt >= MaxDelayAttempts)
  <2>. DEFINE n == Delay(p, r)
              j == p.next
              rec == [r EXCEPT !.attempt = @ + 1]
  <2>0. /\ rec.key = r.key /\ rec.ticket = r.ticket
        /\ r.attempt \in Nat /\ r.attempt < MaxDelayAttempts
    BY <1>b, QueueAssumption DEF Fits, Request
  <2>1. /\ n.delayed = Put(p.delayed, j, rec) /\ n.active = p.active
        /\ n.armed = Put(p.armed, j, [kind |-> "retry", ticket |-> r.ticket])
        /\ n.sources = p.sources /\ n.on = p.on /\ n.next = j + 1
        /\ n.fate = Accept(p, r.ticket).fate
    BY <2>0, DelayFields DEF Sound, QueueTyped
  <2>2. Sound(n)
    BY DelayLater DEF Later
  <2>. HIDE DEF n, rec
  <2>3. ASSUME NEW k \in Keys
        PROVE  Holder(n, k) = IF r.key = k THEN r.ticket ELSE Holder(p, k)
    <3>1. j \notin DOMAIN p.active /\ j \notin DOMAIN p.delayed
      BY NextIsNew
    <3>2. n.delayed = Put(p.delayed, j, rec) /\ n.active = p.active
      BY <2>1
    <3>3. Holder(n, k) = IF rec.key = k THEN rec.ticket ELSE Holder(p, k)
      BY <2>2, <3>1, <3>2, AddedHolder
    <3>. QED  BY <2>0, <3>3
  <2>4. /\ DOMAIN n.fate = DOMAIN p.fate \cup {r.ticket}
        /\ \A u \in DOMAIN n.fate : n.fate[u] = IF u \in DOMAIN p.fate THEN p.fate[u] ELSE "pending"
    BY <2>1, AcceptFate DEF Sound, QueueTyped
  <2>5. Placed(n, p, r.ticket, r.key)
    BY <2>3, <2>4, FreeHolder DEF Placed
  <2>. QED  BY <2>5 DEF n
<1>. QED  BY <1>a, <1>b

LEMMA PlacedOutcome ==
  ASSUME NEW n, NEW p, NEW t, NEW key, Placed(n, p, t, key) \/ Ended(n, p, t)
  PROVE  Outcome(n, p, t, key)
<1>1. Released(p, p, {}) /\ t \notin {}
  BY ReleasedSelf
<1>. QED  BY <1>1 DEF Outcome

LEMMA ReplaceOldestOutcome ==
  ASSUME NEW p, NEW S, NEW X, NEW r, Good(p, S, {r.ticket}, X), Fits(p, r), Free(p, r),
         NEW scope, scope \subseteq DOMAIN p.active
  PROVE  Outcome(ReplaceOldest(p, r, scope), p, r.ticket, r.key)
<1>1. CASE scope = {}
  <2>1. ReplaceOldest(p, r, scope) = Settle(p, r.ticket, "rejected")
    BY <1>1 DEF ReplaceOldest, Reject
  <2>2. Ended(Settle(p, r.ticket, "rejected"), p, r.ticket)
    BY SettleEnded DEF Withdrawn, Good
  <2>. QED  BY <2>1, <2>2, PlacedOutcome
<1>2. CASE scope # {}
  <2>. DEFINE j == CHOOSE i \in scope : \A h \in scope : i <= h
              c == Gone(p, j, "evicted")
  <2>1. scope \subseteq Nat
    BY DEF Good, Sound, QueueTyped, IdsBelow
  <2>2. j \in scope
    BY <1>2, <2>1, Oldest
  <2>3. ReplaceOldest(p, r, scope) = Insert(c, r)
    BY <1>2 DEF ReplaceOldest, Gone
  <2>. HIDE DEF j
  <2>4. PICK gone : Released(c, p, gone) /\ gone \cap {r.ticket} = {}
    BY <2>2, GoneReleased DEF Withdrawn
  <2>5. Smaller(c, p)
    BY <2>2, GoneSmaller DEF Good, Fates, Withdrawn
  <2>. HIDE DEF c
  <2>6. Fits(c, r) /\ Free(c, r) /\ Sound(c)
    BY <2>5, FitsSmaller DEF Smaller
  <2>7. Placed(Insert(c, r), c, r.ticket, r.key)
    BY <2>6, InsertPlaced
  <2>. QED  BY <2>3, <2>4, <2>7 DEF Outcome
<1>. QED  BY <1>1, <1>2

LEMMA ApplyOutcome ==
  ASSUME NEW p, NEW S, NEW X, NEW r, Good(p, S, {r.ticket}, X), Fits(p, r), Free(p, r),
         NEW behavior \in Behaviors, NEW scope, scope \subseteq DOMAIN p.active
  PROVE  Outcome(Apply(p, r, behavior, scope), p, r.ticket, r.key)
<1>1. CASE behavior = "reject"
  <2>1. Apply(p, r, behavior, scope) = Settle(p, r.ticket, "rejected")
    BY <1>1 DEF Apply, Reject
  <2>2. Ended(Settle(p, r.ticket, "rejected"), p, r.ticket)
    BY SettleEnded DEF Withdrawn, Good
  <2>. QED  BY <2>1, <2>2, PlacedOutcome
<1>2. CASE behavior = "replace_oldest"
  <2>1. Apply(p, r, behavior, scope) = ReplaceOldest(p, r, scope)
    BY <1>2 DEF Apply
  <2>. QED  BY <2>1, ReplaceOldestOutcome
<1>3. CASE behavior = "delay"
  <2>1. Apply(p, r, behavior, scope) = Delay(p, r)
    BY <1>3 DEF Apply
  <2>2. Placed(Delay(p, r), p, r.ticket, r.key) \/ Ended(Delay(p, r), p, r.ticket)
    BY DelayOutcome DEF Good
  <2>. QED  BY <2>1, <2>2, PlacedOutcome
<1>. QED  BY <1>1, <1>2, <1>3 DEF Behaviors

LEMMA AdmitOutcome ==
  ASSUME NEW p, NEW S, NEW X, NEW r, Good(p, S, {r.ticket}, X), Fits(p, r), Free(p, r)
  PROVE  Outcome(Admit(p, r), p, r.ticket, r.key)
<1>0. /\ {OwnerBehavior, SystemBehavior, GlobalBehavior} \subseteq Behaviors
      /\ OwnedBy(p, r.owner) \subseteq DOMAIN p.active
      /\ InSystem(p, r.system) \subseteq DOMAIN p.active
  BY QueueAssumption DEF OwnedBy, InSystem
<1>1. CASE OverOwner(p, r)
  BY <1>0, <1>1, ApplyOutcome DEF Admit
<1>2. CASE ~OverOwner(p, r) /\ OverSystem(p, r)
  BY <1>0, <1>2, ApplyOutcome DEF Admit
<1>3. CASE ~OverOwner(p, r) /\ ~OverSystem(p, r) /\ OverTotal(p)
  BY <1>0, <1>3, ApplyOutcome DEF Admit
<1>4. CASE ~OverOwner(p, r) /\ ~OverSystem(p, r) /\ ~OverTotal(p)
  <2>1. Admit(p, r) = Insert(p, r)
    BY <1>4 DEF Admit
  <2>2. Placed(Insert(p, r), p, r.ticket, r.key)
    BY InsertPlaced DEF Good
  <2>. QED  BY <2>1, <2>2, PlacedOutcome
<1>. QED  BY <1>1, <1>2, <1>3, <1>4

LEMMA ScheduleOutcome ==
  ASSUME NEW p, NEW S, NEW X, NEW r, Good(p, S, {r.ticket}, X), Fits(p, r)
  PROVE  Outcome(Schedule(p, r), p, r.ticket, r.key)
<1>1. CASE Held(p, r.key) /\ r.conflict = "reject"
  <2>1. Schedule(p, r) = Settle(p, r.ticket, "rejected")
    BY <1>1 DEF Schedule, Reject
  <2>2. Ended(Settle(p, r.ticket, "rejected"), p, r.ticket)
    BY SettleEnded DEF Withdrawn, Good
  <2>. QED  BY <2>1, <2>2, PlacedOutcome
<1>2. CASE Held(p, r.key) /\ r.conflict # "reject"
  <2>. DEFINE c == Cancel(p, r.key, "replaced")
  <2>1. Schedule(p, r) = Admit(c, r)
    BY <1>2 DEF Schedule
  <2>2. Smaller(c, p) /\ Free(c, r)
    BY CancelSmaller DEF Good, Fates, Withdrawn, Free
  <2>3. Good(c, S, {r.ticket}, X)
    BY CancelGood DEF Fates, Withdrawn
  <2>4. PICK gone : Released(c, p, gone) /\ gone \cap {r.ticket} = {}
    BY CancelReleased DEF Withdrawn
  <2>. HIDE DEF c
  <2>5. Fits(c, r)
    BY <2>2, FitsSmaller
  <2>7. Outcome(Admit(c, r), c, r.ticket, r.key)
    BY <2>2, <2>3, <2>5, AdmitOutcome
  <2>8. Outcome(Admit(c, r), p, r.ticket, r.key)
    BY <2>4, <2>7, OutcomeAfter
  <2>. QED  BY <2>1, <2>8
<1>3. CASE ~Held(p, r.key)
  BY <1>3, AdmitOutcome DEF Schedule, Free
<1>. QED  BY <1>1, <1>2, <1>3

LEMMA RearmOutcome ==
  ASSUME NEW p, NEW S, NEW X, NEW r, Good(p, S, {r.ticket}, X), Fits(p, r)
  PROVE  Outcome(Rearm(p, r), p, r.ticket, r.key)
<1>1. CASE r.args
  <2>1. Rearm(p, r) = Settle(p, r.ticket, "lost")
    BY <1>1 DEF Rearm
  <2>2. Ended(Settle(p, r.ticket, "lost"), p, r.ticket)
    BY SettleEnded DEF Withdrawn, Good
  <2>. QED  BY <2>1, <2>2, PlacedOutcome
<1>2. CASE ~r.args
  <2>1. Rearm(p, r) = Schedule(p, r)
    BY <1>2 DEF Rearm
  <2>. QED  BY <2>1, ScheduleOutcome
<1>. QED  BY <1>1, <1>2

LEMMA OutcomeRunning ==
  ASSUME NEW n, NEW p, NEW t, NEW key, Outcome(n, p, t, key)
  PROVE  Running(n) = Running(p) /\ DOMAIN n.fate \subseteq DOMAIN p.fate \cup {t}
<1>1. PICK c, gone : /\ Released(c, p, gone) /\ t \notin gone
                     /\ Placed(n, c, t, key) \/ Ended(n, c, t)
  BY DEF Outcome
<1>2. Running(c) = Running(p) /\ DOMAIN c.fate = DOMAIN p.fate
  BY <1>1, ReleasedRunning DEF Released
<1>3. CASE Placed(n, c, t, key)
  BY <1>2, <1>3 DEF Placed, Running
<1>4. CASE Ended(n, c, t)
  <2>1. PICK why \in Withdrawn : Settled(n, c, t, why)
    BY <1>4 DEF Ended
  <2>. QED  BY <1>2, <2>1, WithdrawnNotOpen DEF Settled, Running
<1>. QED  BY <1>1, <1>3, <1>4

\* A call that no longer waits keeps its fate, and its key until it is released.
LEMMA OutcomeDone ==
  ASSUME NEW n, NEW p, NEW t, NEW key, Outcome(n, p, t, key), t \notin Done(p)
  PROVE  \A u \in Done(p) : u \in DOMAIN n.fate /\ n.fate[u] = p.fate[u]
<1>1. PICK c, gone : /\ Released(c, p, gone) /\ t \notin gone
                     /\ Placed(n, c, t, key) \/ Ended(n, c, t)
  BY DEF Outcome
<1>2. \A u \in Done(p) : u \in DOMAIN c.fate /\ c.fate[u] = p.fate[u] /\ u # t
  BY <1>1 DEF Released, Pending, Done
<1>3. CASE Placed(n, c, t, key)
  BY <1>2, <1>3 DEF Placed
<1>4. CASE Ended(n, c, t)
  BY <1>2, <1>4 DEF Ended, Settled
<1>. QED  BY <1>1, <1>3, <1>4

LEMMA ReleasedDone ==
  ASSUME NEW n, NEW p, NEW gone, Released(n, p, gone)
  PROVE  \A u \in Done(p) : u \in DOMAIN n.fate /\ n.fate[u] = p.fate[u]
  BY DEF Released, Pending, Done

-----------------------------------------------------------------------------
(* Jobs that are rescheduled or retried *)

\* Taking the job of a waiting ticket away puts the ticket in hand.
LEMMA ActiveTaken ==
  ASSUME NEW p, NEW S, NEW H, NEW X, Good(p, S, H, X), NEW j \in DOMAIN p.active,
         Maps(p.fate, p.active[j].ticket, "pending"), NEW n, Sound(n),
         n.active = Drop(p.active, j), n.delayed = p.delayed,
         Settled(n, p, p.active[j].ticket, "pending")
  PROVE  Taken(n, p, p.active[j].ticket, p.active[j].key)
<1>. DEFINE t == p.active[j].ticket
<1>0. Sound(p) /\ JobTicket(p, j) = t
  BY DEF Good, JobTicket
<1>1. ASSUME NEW k \in Keys \ {p.active[j].key} PROVE Holder(n, k) = Holder(p, k) /\ Holder(p, k) # t
  <2>1. Holder(n, k) = Holder(p, k)
    BY <1>0, DropActiveHolder
  <2>2. Holder(p, k) # t
    BY <1>0, OwnTicket
  <2>. QED  BY <2>1, <2>2
<1>2. p.active[j].key \in Keys =>
        Holder(p, p.active[j].key) = t /\ Holder(n, p.active[j].key) = None
  BY <1>0, DropActiveHolder
<1>3. t \in Pending(p)
  BY DEF Pending, Maps
<1>4. DOMAIN n.fate = DOMAIN p.fate /\ \A u \in DOMAIN p.fate : n.fate[u] = p.fate[u]
  BY DEF Settled
<1>. QED  BY <1>1, <1>2, <1>3, <1>4 DEF Taken

LEMMA ParkedTaken ==
  ASSUME NEW p, NEW S, NEW H, NEW X, Good(p, S, H, X), NEW j \in DOMAIN p.delayed, NEW n, Sound(n),
         n.delayed = Drop(p.delayed, j), n.active = p.active,
         Settled(n, p, p.delayed[j].ticket, "pending")
  PROVE  Taken(n, p, p.delayed[j].ticket, p.delayed[j].key)
<1>. DEFINE t == p.delayed[j].ticket
<1>0. Sound(p) /\ j \notin DOMAIN p.active /\ JobTicket(p, j) = t /\ j \in DOMAIN p.armed
  BY Disjoint DEF Good, Timed, JobTicket
<1>a. Maps(p.fate, t, "pending")
  BY <1>0 DEF Good, Ticketed
<1>1. ASSUME NEW k \in Keys \ {p.delayed[j].key} PROVE Holder(n, k) = Holder(p, k) /\ Holder(p, k) # t
  <2>1. Holder(n, k) = Holder(p, k)
    BY <1>0, DropDelayedHolder
  <2>2. Holder(p, k) # t
    BY <1>0, <1>a, OwnTicket
  <2>. QED  BY <2>1, <2>2
<1>2. p.delayed[j].key \in Keys =>
        Holder(p, p.delayed[j].key) = t /\ Holder(n, p.delayed[j].key) = None
  BY <1>0, DropDelayedHolder
<1>3. t \in Pending(p)
  BY <1>a DEF Pending, Maps
<1>4. DOMAIN n.fate = DOMAIN p.fate /\ \A u \in DOMAIN p.fate : n.fate[u] = p.fate[u]
  BY DEF Settled
<1>. QED  BY <1>1, <1>2, <1>3, <1>4 DEF Taken

\* The call of the retry timer: the parked call is served again or given up.
LEMMA RetryReleased ==
  ASSUME NEW p, NEW S, NEW X, Good(p, S, {}, X), NEW j \in DOMAIN p.delayed
  PROVE  \E gone : Released(RetryDelayed(CancelTask(p, j), j), p, gone)
<1>. DEFINE a == CancelTask(p, j)
            n == PopDelayed(a, j)
            r == p.delayed[j]
<1>0. Sound(p) /\ IsRegistry(p)
  BY DEF Good, Sound, QueueTyped
<1>1. /\ IsRegistry(a) /\ a.active = p.active /\ a.delayed = p.delayed
      /\ a.armed = Drop(p.armed, j) /\ a.sources = p.sources
      /\ a.on = p.on /\ a.fate = p.fate /\ a.next = p.next
  BY <1>0, CancelTaskFields
<1>2. Smaller(a, p)
  BY <1>0, CancelTaskSmaller
<1>. HIDE DEF a
<1>3. RetryDelayed(a, j) = Rearm(n, r)
  BY <1>1 DEF RetryDelayed
<1>4. /\ n.delayed = Drop(p.delayed, j) /\ n.active = p.active
      /\ n.armed = Drop(p.armed, j) /\ n.sources = p.sources
      /\ n.on = p.on /\ n.fate = p.fate /\ n.next = p.next
  <2>1. j \in DOMAIN a.delayed
    BY <1>1
  <2>2. /\ n.delayed = Drop(a.delayed, j) /\ n.active = a.active
        /\ n.armed = a.armed /\ n.sources = a.sources
        /\ n.on = a.on /\ n.fate = a.fate /\ n.next = a.next
    BY <1>1, <2>1, PopDelayedFields
  <2>. QED  BY <1>1, <2>2
<1>5. Smaller(n, p)
  <2>1. Smaller(n, a)
    BY <1>2, PopDelayedSmaller DEF Smaller
  <2>. QED  BY <1>2, <2>1, SmallerTrans
<1>. HIDE DEF n
<1>6. Settled(n, p, r.ticket, "pending") /\ Sound(n)
  BY <1>4, <1>5 DEF Settled, Smaller
<1>7. Good(n, S, {NewTicket(p, r.ticket)}, X)
  BY <1>4, <1>6, TakeUnparked
<1>8. j \in DOMAIN p.armed /\ JobTicket(p, j) = r.ticket
  BY Disjoint DEF Good, Timed, JobTicket
<1>9. NewTicket(p, r.ticket) = r.ticket /\ Fits(p, r)
  BY <1>8 DEF Good, Ticketed, NewTicket, Fits, Sound, QueueTyped, RecordsTyped
<1>10. Fits(n, r)
  BY <1>5, <1>9, FitsSmaller
<1>11. Taken(n, p, r.ticket, r.key)
  BY <1>4, <1>6, ParkedTaken
<1>12. Outcome(Rearm(n, r), n, r.ticket, r.key)
  BY <1>7, <1>9, <1>10, <1>11, RearmOutcome
<1>13. \E gone : Released(Rearm(n, r), p, gone)
  BY <1>11, <1>12, Retaken
<1>. QED  BY <1>3, <1>13 DEF a

\* reschedule(key): the waiting call is served again or given up; a call that no
\* longer waits makes way for a new one.
LEMMA RescheduleOutcome ==
  ASSUME NEW p, NEW S, NEW X, Good(p, S, {}, X), NEW k \in Keys
  PROVE  \/ \E gone : Released(Reschedule(p, k), p, gone)
         \/ Outcome(Reschedule(p, k), p, p.next, k)
<1>. DEFINE c == Cancel(p, k, "pending")
<1>0. Sound(p) /\ IsRegistry(p) /\ Smaller(c, p)
  BY CancelSmaller DEF Good, Fates, Sound, QueueTyped
<1>1. CASE HasActive(p, k)
  <2>. DEFINE j == p.keyJob[k]
              t == p.active[j].ticket
              r == NewTicketIfStarted(p, p.active[j])
  <2>1. /\ j \in DOMAIN p.active /\ p.active[j] \in Request /\ t \in DOMAIN p.fate
        /\ p.active[j].key = k /\ JobTicket(p, j) = t
    BY <1>1 DEF HasActive, Good, Sound, QueueTyped, RecordsTyped, KeysIndexed, JobTicket
  <2>2. c = Gone(p, j, "pending")
    BY <1>1 DEF Cancel, Gone
  <2>3. c.active = Drop(p.active, j) /\ c.delayed = p.delayed /\ Settled(c, p, t, "pending")
    <3>. DEFINE u == Gone(p, j, "pending")
    <3>1. /\ u.active = Drop(p.active, j) /\ u.delayed = p.delayed
          /\ u.fate = Settle(p, t, "pending").fate
      BY <1>0, <2>1, GoneFields
    <3>. HIDE DEF u
    <3>2. Settled(u, p, t, "pending")
      BY <1>0, <3>1, SettleSettled
    <3>. QED  BY <2>2, <3>1, <3>2 DEF u
  <2>4. Good(c, S, {NewTicket(p, t)}, X)
    BY <2>1, <2>2, TakeGone
  <2>5. r.ticket = NewTicket(p, t) /\ Fits(p, r) /\ r.key = k
    <3>1. r.ticket = NewTicket(p, t) /\ Fits(p, r)
      BY <1>0, <2>1, NewTicketFields
    <3>2. r.key = k
      BY <2>1 DEF NewTicketIfStarted, Request
    <3>. QED  BY <3>1, <3>2
  <2>6. Reschedule(p, k) = Rearm(c, r)
    BY <1>1 DEF Reschedule
  <2>. HIDE DEF c, r, j
  <2>7. Fits(c, r) /\ Sound(c)
    BY <1>0, <2>5, FitsSmaller DEF Smaller
  <2>8. CASE Maps(p.fate, t, "pending")
    <3>1. Taken(c, p, t, k)
      BY <2>1, <2>3, <2>7, <2>8, ActiveTaken
    <3>2. r.ticket = t
      BY <2>5, <2>8 DEF NewTicket
    <3>3. Outcome(Rearm(c, r), c, t, k)
      BY <2>4, <2>5, <2>7, <3>2, RearmOutcome
    <3>. QED  BY <2>6, <3>1, <3>3, Retaken
  <2>9. CASE ~Maps(p.fate, t, "pending")
    <3>1. t \in Done(p)
      BY <2>1, <2>9 DEF Done, Maps
    <3>2. ASSUME NEW h \in Keys
          PROVE  \/ Holder(c, h) = Holder(p, h) /\ Holder(p, h) \notin {}
                 \/ Holder(c, h) = None /\ Holder(p, h) \in {} \cup Done(p)
      BY <1>0, <2>1, <2>3, <2>7, <3>1, DropActiveHolder
    <3>3. Released(c, p, {})
      BY <2>3, <3>2 DEF Released, Settled
    <3>4. r.ticket = p.next
      BY <2>5, <2>9 DEF NewTicket
    <3>5. Outcome(Rearm(c, r), c, p.next, k)
      BY <2>4, <2>5, <2>7, <3>4, RearmOutcome
    <3>6. p.next \notin {}
      OBVIOUS
    <3>7. Outcome(Rearm(c, r), p, p.next, k)
      BY <3>3, <3>5, <3>6, OutcomeAfter
    <3>. QED  BY <2>6, <3>7
  <2>. QED  BY <2>8, <2>9
<1>2. CASE ~HasActive(p, k) /\ HasDelayed(p, k)
  <2>. DEFINE j == p.delayedKey[k]
              t == p.delayed[j].ticket
              r == NewTicketIfStarted(p, p.delayed[j])
  <2>1. /\ j \in DOMAIN p.delayed /\ p.delayed[j] \in Request /\ t \in DOMAIN p.fate
        /\ p.delayed[j].key = k
    BY <1>2 DEF HasDelayed, Good, Sound, QueueTyped, RecordsTyped, KeysIndexed
  <2>2. c = Unparked(p, j, "pending")
    BY <1>2 DEF Cancel, Unparked
  <2>3. /\ c.delayed = Drop(p.delayed, j) /\ c.active = p.active
        /\ c.armed = Drop(p.armed, j) /\ c.on = p.on /\ c.next = p.next
        /\ c.sources = p.sources /\ Settled(c, p, t, "pending")
    <3>. DEFINE u == Unparked(p, j, "pending")
    <3>1. /\ u.delayed = Drop(p.delayed, j) /\ u.active = p.active
          /\ u.armed = Drop(p.armed, j) /\ u.on = p.on /\ u.next = p.next
          /\ u.sources = p.sources
          /\ u.fate = Settle(p, t, "pending").fate
      BY <1>0, <2>1, UnparkedFields
    <3>. HIDE DEF u
    <3>2. Settled(u, p, t, "pending")
      BY <1>0, <3>1, SettleSettled
    <3>. QED  BY <2>2, <3>1, <3>2 DEF u
  <2>4. JobTicket(p, j) = t /\ j \in DOMAIN p.armed
    BY <1>0, <2>1, Disjoint DEF JobTicket, Good, Timed
  <2>5. Maps(p.fate, t, "pending")
    BY <2>4 DEF Good, Ticketed
  <2>6. r = p.delayed[j] /\ Fits(p, r)
    BY <2>1, <2>5 DEF NewTicketIfStarted, Fits
  <2>7. Reschedule(p, k) = Rearm(c, r)
    BY <1>2 DEF Reschedule
  <2>. HIDE DEF c, r, j
  <2>8. Fits(c, r) /\ Sound(c)
    BY <1>0, <2>6, FitsSmaller DEF Smaller
  <2>9. Good(c, S, {NewTicket(p, t)}, X)
    BY <2>1, <2>3, <2>8, TakeUnparked
  <2>10. Good(c, S, {r.ticket}, X) /\ r.ticket = t /\ r.key = k
    BY <2>1, <2>5, <2>6, <2>9 DEF NewTicket
  <2>11. Taken(c, p, t, k)
    BY <2>1, <2>3, <2>8, ParkedTaken
  <2>13. Outcome(Rearm(c, r), c, t, k)
    BY <2>8, <2>10, RearmOutcome
  <2>. QED  BY <2>7, <2>11, <2>13, Retaken
<1>3. CASE ~HasActive(p, k) /\ ~HasDelayed(p, k)
  BY <1>3, ReleasedSelf DEF Reschedule
<1>. QED  BY <1>1, <1>2, <1>3

-----------------------------------------------------------------------------
(* Keys of calls that no longer wait *)

LEMMA HolderTyped ==
  ASSUME NEW p, Sound(p), DOMAIN p.fate \subseteq 1..MaxId, NEW k \in Keys
  PROVE  Holder(p, k) \in 1..MaxId \cup {None}
<1>1. CASE \E j \in DOMAIN p.active : p.active[j].key = k
  BY <1>1, HolderOf DEF Sound, QueueTyped, RecordsTyped
<1>2. CASE \E j \in DOMAIN p.delayed : p.delayed[j].key = k
  BY <1>2, HolderOf DEF Sound, QueueTyped, RecordsTyped
<1>. QED  BY <1>1, <1>2, HolderOf

\* A new call that is turned down leaves no trace.
LEMMA EndedNew ==
  ASSUME NEW n, NEW c, NEW p, NEW gone, NEW t,
         Released(c, p, gone), Ended(n, c, t), t \notin DOMAIN p.fate
  PROVE  Released(n, p, gone)
<1>1. PICK why \in Withdrawn : Settled(n, c, t, why)
  BY DEF Ended
<1>2. DOMAIN c.fate = DOMAIN p.fate
  BY DEF Released
<1>3. DOMAIN n.fate = DOMAIN c.fate /\ \A u \in DOMAIN c.fate : n.fate[u] = c.fate[u]
  BY <1>1, <1>2 DEF Settled
<1>4. \A k \in Keys : Holder(n, k) = Holder(c, k)
  BY DEF Ended
<1>. QED  BY <1>2, <1>3, <1>4 DEF Released, Pending

\* The key of a call that no longer waits belongs to a job whose timer is gone.
LEMMA DoneHolder ==
  ASSUME NEW p, NEW S, NEW X, Good(p, S, {}, X), NEW k \in Keys, Holder(p, k) \in Done(p)
  PROVE  \E j \in DOMAIN p.active :
           /\ p.active[j].key = k /\ p.active[j].ticket = Holder(p, k)
           /\ [job |-> j, ticket |-> Holder(p, k)] \in S
<1>. DEFINE t == Holder(p, k)
<1>0. Sound(p) /\ DOMAIN p.active \cap DOMAIN p.delayed = {} /\ t \in DOMAIN p.fate /\ p.fate[t] # "pending"
  BY Disjoint DEF Good, Done
<1>1. t # None
  BY <1>0, IdAssumption DEF Sound, QueueTyped, IdsBelow
<1>2. \A i \in DOMAIN p.armed : JobTicket(p, i) # t
  BY <1>0 DEF Good, Ticketed, Maps
<1>3. ASSUME NEW i \in DOMAIN p.delayed, p.delayed[i].key = k PROVE FALSE
  <2>1. i \in DOMAIN p.armed /\ JobTicket(p, i) = p.delayed[i].ticket
    BY <1>0 DEF Good, Timed, JobTicket
  <2>2. p.delayed[i].ticket = t
    BY <1>0, <1>3, HolderOf
  <2>. QED  BY <1>2, <2>1, <2>2
<1>4. PICK i \in DOMAIN p.active : p.active[i].key = k
  BY <1>0, <1>1, <1>3, HolderOf
<1>5. p.active[i].ticket = t
  BY <1>0, <1>4, HolderOf
<1>6. i \notin DOMAIN p.armed
  BY <1>2, <1>5 DEF JobTicket
<1>7. [job |-> i, ticket |-> t] \in S
  BY <1>5, <1>6 DEF Good, Ticketed
<1>. QED  BY <1>4, <1>5, <1>7

\* Popping job j gives up its key, and no other one.
LEMMA PoppedHolder ==
  ASSUME NEW p, Sound(p), NEW j, NEW k \in Keys
  PROVE  /\ j \in DOMAIN p.active /\ p.active[j].key = k =>
              Holder(p, k) = p.active[j].ticket /\ Holder(PopJob(p, j), k) = None
         /\ ~(j \in DOMAIN p.active /\ p.active[j].key = k) => Holder(PopJob(p, j), k) = Holder(p, k)
<1>. DEFINE n == PopJob(p, j)
<1>1. Sound(n)
  BY PopJobSmaller DEF Smaller
<1>2. CASE j \in DOMAIN p.active
  <2>1. IsRegistry(p)
    BY DEF Sound, QueueTyped
  <2>2. /\ n.active = Drop(p.active, j) /\ n.delayed = p.delayed
        /\ n.armed = p.armed /\ n.on = p.on /\ n.fate = p.fate /\ n.next = p.next
        /\ n.sources = Left(p, j)
    BY <1>2, <2>1, PopJobLeft
  <2>. HIDE DEF n
  <2>3. /\ p.active[j].key = k => Holder(p, k) = p.active[j].ticket /\ Holder(n, k) = None
        /\ p.active[j].key # k => Holder(n, k) = Holder(p, k)
    BY <1>1, <1>2, <2>2, DropActiveHolder
  <2>. QED  BY <1>2, <2>3 DEF n
<1>3. CASE j \notin DOMAIN p.active
  BY <1>3 DEF PopJob
<1>. QED  BY <1>2, <1>3

\* Two registries with the same jobs have the same keys.
LEMMA SameJobsHolder ==
  ASSUME NEW p, Sound(p), NEW n, Sound(n), n.active = p.active, n.delayed = p.delayed, NEW k \in Keys
  PROVE  Holder(n, k) = Holder(p, k)
  BY SameHolder

\* The registry when the callback of job j, for ticket t, is called.
Begun(n, p, j, t) == n = [CancelTask(p, j) EXCEPT !.fate[t] = "running"]

LEMMA BegunFields ==
  ASSUME NEW p, IsRegistry(p), NEW j, NEW t, NEW n, Begun(n, p, j, t)
  PROVE  /\ n.active = p.active /\ n.delayed = p.delayed /\ n.armed = Drop(p.armed, j)
         /\ n.sources = p.sources /\ n.on = p.on /\ n.next = p.next
         /\ n.fate = [p.fate EXCEPT ![t] = "running"]
<1>. DEFINE a == CancelTask(p, j)
<1>1. /\ IsRegistry(a) /\ a.active = p.active /\ a.delayed = p.delayed
      /\ a.armed = Drop(p.armed, j) /\ a.sources = p.sources
      /\ a.on = p.on /\ a.fate = p.fate /\ a.next = p.next
  BY CancelTaskFields
<1>2. n = [a EXCEPT !.fate[t] = "running"]
  BY DEF Begun
<1>. HIDE DEF a
<1>3. /\ n.active = a.active /\ n.delayed = a.delayed /\ n.armed = a.armed
      /\ n.sources = a.sources /\ n.on = a.on /\ n.next = a.next
      /\ n.fate = [a.fate EXCEPT ![t] = "running"]
  BY <1>1, <1>2, SetFateFields
<1>. QED  BY <1>1, <1>3

\* The registry when the callback of job j, for ticket t, has returned.
Returned(n, p, j, t) == n = [PopJob(p, j) EXCEPT !.fate[t] = "ran"]

LEMMA PopJobFate ==
  ASSUME NEW p, IsRegistry(p), NEW j
  PROVE  PopJob(p, j).fate = p.fate
<1>1. CASE j \in DOMAIN p.active
  <2>. DEFINE a == PopJob(p, j)
  <2>1. /\ IsRegistry(a)
        /\ a.active = Drop(p.active, j) /\ a.delayed = p.delayed
        /\ a.armed = p.armed /\ a.on = p.on /\ a.fate = p.fate /\ a.next = p.next
        /\ a.sources = Left(p, j)
    BY <1>1, PopJobLeft
  <2>. QED  BY <2>1
<1>2. CASE j \notin DOMAIN p.active
  BY <1>2 DEF PopJob
<1>. QED  BY <1>1, <1>2

LEMMA ReturnedFate ==
  ASSUME NEW p, Sound(p), NEW j, NEW t, NEW n, Returned(n, p, j, t)
  PROVE  n.fate = [p.fate EXCEPT ![t] = "ran"]
<1>. DEFINE a == PopJob(p, j)
<1>1. IsRegistry(a)
  BY PopJobSmaller DEF Smaller, Sound, QueueTyped
<1>2. a.fate = p.fate
  BY PopJobFate DEF Sound, QueueTyped
<1>. HIDE DEF a
<1>3. /\ n.active = a.active /\ n.delayed = a.delayed /\ n.armed = a.armed
      /\ n.sources = a.sources /\ n.on = a.on /\ n.next = a.next
      /\ n.fate = [a.fate EXCEPT ![t] = "ran"]
  BY <1>1, SetFateFields DEF a, Returned
<1>. QED  BY <1>2, <1>3

LEMMA ReturnedJobs ==
  ASSUME NEW p, Sound(p), NEW j, NEW t, NEW n, Returned(n, p, j, t)
  PROVE  n.active = PopJob(p, j).active /\ n.delayed = PopJob(p, j).delayed
<1>. DEFINE a == PopJob(p, j)
<1>1. IsRegistry(a)
  BY PopJobSmaller DEF Smaller, Sound, QueueTyped
<1>2. a.fate = p.fate
  BY PopJobFate DEF Sound, QueueTyped
<1>. HIDE DEF a
<1>3. /\ n.active = a.active /\ n.delayed = a.delayed /\ n.armed = a.armed
      /\ n.sources = a.sources /\ n.on = a.on /\ n.next = a.next
      /\ n.fate = [a.fate EXCEPT ![t] = "ran"]
  BY <1>1, SetFateFields DEF a, Returned
<1>. QED  BY <1>2, <1>3 DEF a

\* A callback that returns gives up the key of its own call, and no other one.
LEMMA ReturnedHolder ==
  ASSUME NEW p, NEW S, NEW X, Good(p, S, {}, X), NEW r \in S,
         \A s \in S : s.job = r.job \/ s.ticket = r.ticket => s = r,
         NEW n, Sound(n), Returned(n, p, r.job, r.ticket), NEW k \in Keys
  PROVE  /\ Holder(p, k) = r.ticket => Holder(n, k) = None
         /\ Holder(p, k) # r.ticket => Holder(n, k) = Holder(p, k)
<1>. DEFINE j == r.job
            a == PopJob(p, j)
<1>0. Sound(p) /\ r.ticket \in Done(p) /\ j \notin DOMAIN p.armed
  BY DEF Good, Ticketed, Timed, Done, JobsOf
<1>1. Sound(a)
  BY <1>0, PopJobSmaller DEF Smaller
<1>2. n.active = a.active /\ n.delayed = a.delayed
  <2>1. n.active = PopJob(p, r.job).active /\ n.delayed = PopJob(p, r.job).delayed
    BY <1>0, ReturnedJobs
  <2>. QED  BY <2>1
<1>3. Holder(n, k) = Holder(a, k)
  BY <1>1, <1>2, SameJobsHolder
<1>4. CASE j \in DOMAIN p.active /\ p.active[j].key = k
  <2>1. Holder(p, k) = p.active[j].ticket /\ Holder(a, k) = None
    BY <1>0, <1>4, PoppedHolder
  <2>2. [job |-> j, ticket |-> p.active[j].ticket] \in S
    BY <1>0, <1>4 DEF Good, Ticketed
  <2>3. [job |-> j, ticket |-> p.active[j].ticket] = r
    BY <2>2
  <2>4. p.active[j].ticket = r.ticket
    BY <2>3
  <2>. QED  BY <1>3, <2>1, <2>4
<1>5. CASE ~(j \in DOMAIN p.active /\ p.active[j].key = k)
  <2>1. Holder(a, k) = Holder(p, k)
    BY <1>0, <1>5, PoppedHolder
  <2>2. Holder(p, k) # r.ticket
    <3>. SUFFICES ASSUME Holder(p, k) = r.ticket PROVE FALSE
      OBVIOUS
    <3>1. PICK i \in DOMAIN p.active : /\ p.active[i].key = k
                                       /\ [job |-> i, ticket |-> Holder(p, k)] \in S
      BY <1>0, DoneHolder
    <3>2. [job |-> i, ticket |-> Holder(p, k)] = r
      BY <3>1
    <3>3. i = j
      BY <3>2
    <3>. QED  BY <1>5, <3>1, <3>3
  <2>. QED  BY <1>3, <2>1, <2>2
<1>. QED  BY <1>4, <1>5
=============================================================================
