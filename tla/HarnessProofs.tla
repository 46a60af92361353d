---------------------------- MODULE HarnessProofs ----------------------------
(***************************************************************************)
(* What TLAPS proves of HarnessScheduler, for every value of its           *)
(* constants: the due jobs, the flush and the flag keep their shape, the   *)
(* jobs that can fire are the ones registered and waiting, the inactive    *)
(* policy never fires while the flag is left alone and never defers a job  *)
(* twice after, a flush that returns leaves no due job behind, and calls   *)
(* come and go as JobLedger says.                                          *)
(*                                                                         *)
(* The lemmas of QueueLedgerProofs say what each operator of the registry  *)
(* does to a Good one.  The first part here adds what none of them does    *)
(* (Onward), the second follows a registry whose tasks callers may cancel  *)
(* and whose sources the flag may leave behind (Stand, Move), the third    *)
(* says what the drain does with one job, and the next one puts every step *)
(* together: HInv for the registry, FInv for the flush on the stack.  Each *)
(* theorem after that adds the invariant it needs: NInv, GInv, BInv, DInv. *)
(***************************************************************************)
EXTENDS HarnessScheduler, QueueLedgerProofs

-----------------------------------------------------------------------------
(* What no operator does *)

Trait(r) == <<r.defers, r.args>>
Traits(p) == {Trait(p.active[j]) : j \in DOMAIN p.active} \cup {Trait(p.delayed[j]) : j \in DOMAIN p.delayed}

\* Only flush_due() itself gives a ticket one of these ends.
OutOfInterest == {"skipped", "dropped"}

\* From p to n ids are not used again, jobs keep how often they were deferred, or
\* are of T, and no ticket is skipped or dropped.
Onward(n, p, T) ==
  /\ p.next <= n.next
  /\ \A j \in DOMAIN n.active : j \in DOMAIN p.active \/ p.next <= j
  /\ \A j \in DOMAIN n.delayed : j \in DOMAIN p.delayed \/ p.next <= j
  /\ \A j \in DOMAIN n.armed : j \in DOMAIN p.armed \/ p.next <= j
  /\ \A f \in OutOfInterest : Ends(n, f) \subseteq Ends(p, f)
  /\ Traits(n) \subseteq Traits(p) \cup T

LEMMA OnwardTrans ==
  ASSUME NEW p, NEW c, NEW n, NEW T, NEW U, Sound(p), Sound(c), Sound(n),
         Onward(c, p, T), Onward(n, c, U)
  PROVE  Onward(n, p, T \cup U)
<1>1. p.next \in Nat /\ c.next \in Nat /\ n.next \in Nat
  BY DEF Sound, QueueTyped
<1>2. \A j \in DOMAIN n.active \cup DOMAIN n.delayed \cup DOMAIN n.armed : j \in Nat
  BY DEF Sound, QueueTyped, IdsBelow
<1>3. p.next <= n.next
  BY <1>1 DEF Onward
<1>4. \A j \in Nat : c.next <= j => p.next <= j
  BY <1>1 DEF Onward
<1>5. /\ \A j \in DOMAIN n.active : j \in DOMAIN p.active \/ p.next <= j
      /\ \A j \in DOMAIN n.delayed : j \in DOMAIN p.delayed \/ p.next <= j
      /\ \A j \in DOMAIN n.armed : j \in DOMAIN p.armed \/ p.next <= j
  BY <1>2, <1>4 DEF Onward
<1>6. /\ \A f \in OutOfInterest : Ends(n, f) \subseteq Ends(p, f)
      /\ Traits(n) \subseteq Traits(p) \cup (T \cup U)
  BY DEF Onward
<1>. QED  BY <1>3, <1>5, <1>6 DEF Onward

LEMMA FewerOnward ==
  ASSUME NEW p, Sound(p), NEW n, n.next = p.next, DOMAIN n.armed \subseteq DOMAIN p.armed, Fewer(n, p),
         \A j \in DOMAIN n.delayed : j \in DOMAIN p.delayed /\ n.delayed[j] = p.delayed[j],
         NEW t, NEW why, Settled(n, p, t, why), why \notin OutOfInterest
  PROVE  Onward(n, p, {})
<1>1. \A f \in OutOfInterest : Ends(n, f) \subseteq Ends(p, f)
  BY SettledEnds
<1>2. Traits(n) \subseteq Traits(p)
  BY DEF Traits, Fewer
<1>3. p.next <= n.next
  BY DEF Sound, QueueTyped
<1>. QED  BY <1>1, <1>2, <1>3 DEF Onward, Fewer

LEMMA SettleOnward ==
  ASSUME NEW p, Sound(p), NEW t, NEW why, why \notin OutOfInterest
  PROVE  Onward(Settle(p, t, why), p, {})
<1>. DEFINE n == Settle(p, t, why)
<1>1. IsRegistry(p)
  BY DEF Sound, QueueTyped
<1>2. /\ IsRegistry(n)
      /\ n.active = p.active /\ n.keyJob = p.keyJob
      /\ n.delayed = p.delayed /\ n.delayedKey = p.delayedKey
      /\ n.armed = p.armed /\ n.sources = p.sources
      /\ n.on = p.on /\ n.next = p.next
      /\ n.fate = IF Maps(p.fate, t, "pending") THEN [p.fate EXCEPT ![t] = why] ELSE p.fate
  BY <1>1, SettleFields
<1>3. Settled(n, p, t, why)
  BY <1>1, SettleSettled
<1>. HIDE DEF n
<1>4. Onward(n, p, {})
  BY <1>2, <1>3, FewerOnward DEF Fewer
<1>. QED  BY <1>4 DEF n

LEMMA GoneOnward ==
  ASSUME NEW p, Sound(p), NEW j \in DOMAIN p.active, NEW why, why \notin OutOfInterest
  PROVE  Onward(Gone(p, j, why), p, {})
<1>. DEFINE n == Gone(p, j, why)
<1>0. IsRegistry(p)
  BY DEF Sound, QueueTyped
<1>1. /\ n.active = Drop(p.active, j) /\ n.delayed = p.delayed
      /\ n.armed = Drop(p.armed, j) /\ n.on = p.on /\ n.next = p.next
      /\ n.sources = Left(p, j)
      /\ n.fate = Settle(p, p.active[j].ticket, why).fate
  BY <1>0, GoneFields
<1>. HIDE DEF n
<1>2. Settled(n, p, p.active[j].ticket, why)
  BY <1>0, <1>1, SettleSettled
<1>3. Fewer(n, p)
  BY <1>1, DropFewer
<1>4. DOMAIN n.armed \subseteq DOMAIN p.armed
  BY <1>1 DEF Drop, Restrict
<1>5. Onward(n, p, {})
  BY <1>1, <1>2, <1>3, <1>4, FewerOnward
<1>. QED  BY <1>5 DEF n

\* n is p without the parked job j.
LEMMA UnparkedOnward ==
  ASSUME NEW p, Sound(p), NEW j, NEW n, n.active = p.active, n.delayed = Drop(p.delayed, j),
         DOMAIN n.armed \subseteq DOMAIN p.armed, n.next = p.next,
         NEW t, NEW why, Settled(n, p, t, why), why \notin OutOfInterest
  PROVE  Onward(n, p, {})
<1>1. \A i \in DOMAIN n.delayed : i \in DOMAIN p.delayed /\ n.delayed[i] = p.delayed[i]
  BY DEF Drop, Restrict
<1>2. Fewer(n, p)
  BY DEF Fewer
<1>. QED  BY <1>1, <1>2, FewerOnward

LEMMA CancelOnward ==
  ASSUME NEW p, Sound(p), NEW k, NEW why, why \notin OutOfInterest
  PROVE  Onward(Cancel(p, k, why), p, {})
<1>. DEFINE n == Cancel(p, k, why)
<1>0. IsRegistry(p)
  BY DEF Sound, QueueTyped
<1>1. ASSUME HasActive(p, k) PROVE Onward(n, p, {})
  <2>1. n = Gone(p, p.keyJob[k], why) /\ p.keyJob[k] \in DOMAIN p.active
    BY <1>1 DEF Cancel, Gone, HasActive
  <2>. HIDE DEF n
  <2>. QED  BY <2>1, GoneOnward
<1>2. ASSUME ~HasActive(p, k), HasDelayed(p, k) PROVE Onward(n, p, {})
  <2>. DEFINE j == p.delayedKey[k]
              u == Unparked(p, j, why)
  <2>1. n = u /\ j \in DOMAIN p.delayed
    BY <1>2 DEF Cancel, Unparked, HasDelayed
  <2>. HIDE DEF n, j
  <2>2. /\ u.delayed = Drop(p.delayed, j) /\ u.active = p.active
        /\ u.armed = Drop(p.armed, j) /\ u.on = p.on /\ u.next = p.next
        /\ u.sources = p.sources
        /\ u.fate = Settle(p, p.delayed[j].ticket, why).fate
    BY <1>0, <2>1, UnparkedFields
  <2>. HIDE DEF u
  <2>3. Settled(u, p, p.delayed[j].ticket, why)
    BY <1>0, <2>2, SettleSettled
  <2>4. DOMAIN u.armed \subseteq DOMAIN p.armed
    BY <2>2 DEF Drop, Restrict
  <2>5. Onward(u, p, {})
    BY <2>2, <2>3, <2>4, UnparkedOnward
  <2>. QED  BY <2>1, <2>5
<1>3. ASSUME ~HasActive(p, k), ~HasDelayed(p, k) PROVE Onward(n, p, {})
  <2>1. n = p
    BY <1>3 DEF Cancel
  <2>2. Onward(p, p, {})
    BY DEF Onward, Sound, QueueTyped
  <2>. QED  BY <2>1, <2>2
<1>. QED  BY <1>1, <1>2, <1>3

\* Ticket t is accepted and a job of its own added: to the active or the parked ones.
LEMMA AddOnward ==
  ASSUME NEW p, Sound(p), NEW r, NEW rec, Trait(rec) = Trait(r), NEW t, NEW v, NEW n,
         n.next = p.next + 1, n.armed = Put(p.armed, p.next, v), n.fate = Accept(p, t).fate,
         \/ n.active = Put(p.active, p.next, rec) /\ n.delayed = p.delayed
         \/ n.delayed = Put(p.delayed, p.next, rec) /\ n.active = p.active
  PROVE  Onward(n, p, {Trait(r)})
<1>1. p.next \in Nat
  BY DEF Sound, QueueTyped
<1>2. /\ DOMAIN Accept(p, t).fate = DOMAIN p.fate \cup {t}
      /\ \A u \in DOMAIN Accept(p, t).fate :
           Accept(p, t).fate[u] = IF u \in DOMAIN p.fate THEN p.fate[u] ELSE "pending"
  BY AcceptFate DEF Sound, QueueTyped
<1>3. \A f \in OutOfInterest : Ends(n, f) \subseteq Ends(p, f)
  BY <1>2 DEF Ends, OutOfInterest
<1>4. DOMAIN n.armed = DOMAIN p.armed \cup {p.next}
  BY DEF Put
<1>5. CASE n.active = Put(p.active, p.next, rec) /\ n.delayed = p.delayed
  <2>1. /\ DOMAIN n.active = DOMAIN p.active \cup {p.next}
        /\ \A j \in DOMAIN n.active : n.active[j] = IF j = p.next THEN rec ELSE p.active[j]
    BY <1>5 DEF Put
  <2>2. Traits(n) \subseteq Traits(p) \cup {Trait(r)}
    BY <1>5, <2>1 DEF Traits
  <2>. QED  BY <1>1, <1>3, <1>4, <1>5, <2>1, <2>2 DEF Onward
<1>6. CASE n.delayed = Put(p.delayed, p.next, rec) /\ n.active = p.active
  <2>1. /\ DOMAIN n.delayed = DOMAIN p.delayed \cup {p.next}
        /\ \A j \in DOMAIN n.delayed : n.delayed[j] = IF j = p.next THEN rec ELSE p.delayed[j]
    BY <1>6 DEF Put
  <2>2. Traits(n) \subseteq Traits(p) \cup {Trait(r)}
    BY <1>6, <2>1 DEF Traits
  <2>. QED  BY <1>1, <1>3, <1>4, <1>6, <2>1, <2>2 DEF Onward
<1>. QED  BY <1>5, <1>6

LEMMA OnwardMore ==
  ASSUME NEW p, NEW n, NEW T, NEW U, Onward(n, p, T), T \subseteq U
  PROVE  Onward(n, p, U)
  BY DEF Onward

LEMMA InsertOnward ==
  ASSUME NEW p, Sound(p), NEW r \in Request
  PROVE  Onward(Insert(p, r), p, {Trait(r)})
<1>. DEFINE n == Insert(p, r)
            rec == [r EXCEPT !.attempt = 0]
            v == [kind |-> "run", ticket |-> r.ticket]
<1>0. IsRegistry(p)
  BY DEF Sound, QueueTyped
<1>1. /\ n.active = Put(p.active, p.next, [r EXCEPT !.attempt = 0]) /\ n.delayed = p.delayed
      /\ n.armed = Put(p.armed, p.next, [kind |-> "run", ticket |-> r.ticket])
      /\ n.sources = IF p.on THEN p.sources \cup SourcesOf(p.next, r) ELSE p.sources
      /\ n.on = p.on /\ n.next = p.next + 1
      /\ n.fate = Accept(p, r.ticket).fate
  BY <1>0, InsertEffect
<1>2. Trait(rec) = Trait(r)
  BY DEF Trait, Request
<1>3. /\ n.active = Put(p.active, p.next, rec) /\ n.delayed = p.delayed
      /\ n.armed = Put(p.armed, p.next, v)
      /\ n.next = p.next + 1 /\ n.fate = Accept(p, r.ticket).fate
  BY <1>1
<1>. HIDE DEF n, rec, v
<1>4. Onward(n, p, {Trait(r)})
  BY <1>2, <1>3, AddOnward
<1>. QED  BY <1>4 DEF n

LEMMA DelayOnward ==
  ASSUME NEW p, Sound(p), NEW r \in Request
  PROVE  Onward(Delay(p, r), p, {Trait(r)})
<1>. DEFINE n == Delay(p, r)
            rec == [r EXCEPT !.attempt = @ + 1]
            v == [kind |-> "retry", ticket |-> r.ticket]
<1>1. ASSUME r.attempt >= MaxDelayAttempts PROVE Onward(n, p, {Trait(r)})
  <2>1. n = Settle(p, r.ticket, "rejected")
    BY <1>1 DEF Delay, Reject
  <2>. HIDE DEF n
  <2>2. Onward(n, p, {})
    BY <2>1, SettleOnward DEF OutOfInterest
  <2>. QED  BY <2>2, OnwardMore
<1>2. ASSUME ~(r.attempt >= MaxDelayAttempts) PROVE Onward(n, p, {Trait(r)})
  <2>1. r.attempt < MaxDelayAttempts /\ r.attempt \in Nat
    BY <1>2, QueueAssumption DEF Request
  <2>2. IsRegistry(p)
    BY DEF Sound, QueueTyped
  <2>3. /\ IsRegistry(n)
        /\ n.delayed = Put(p.delayed, p.next, [r EXCEPT !.attempt = @ + 1])
        /\ n.delayedKey = IF r.key = None THEN p.delayedKey ELSE Put(p.delayedKey, r.key, p.next)
        /\ n.active = p.active /\ n.keyJob = p.keyJob
        /\ n.armed = Put(p.armed, p.next, [kind |-> "retry", ticket |-> r.ticket])
        /\ n.sources = p.sources /\ n.on = p.on /\ n.next = p.next + 1
        /\ n.fate = Accept(p, r.ticket).fate
    BY <2>1, <2>2, DelayFields
  <2>4. Trait(rec) = Trait(r)
    BY DEF Trait, Request
  <2>5. /\ n.delayed = Put(p.delayed, p.next, rec) /\ n.active = p.active
        /\ n.armed = Put(p.armed, p.next, v)
        /\ n.next = p.next + 1 /\ n.fate = Accept(p, r.ticket).fate
    BY <2>3
  <2>. HIDE DEF n, rec, v
  <2>. QED  BY <2>4, <2>5, AddOnward
<1>. QED  BY <1>1, <1>2

LEMMA ReplaceOldestOnward ==
  ASSUME NEW p, Sound(p), NEW r, Fits(p, r), Free(p, r), NEW scope, scope \subseteq DOMAIN p.active
  PROVE  Onward(ReplaceOldest(p, r, scope), p, {Trait(r)})
<1>. DEFINE n == ReplaceOldest(p, r, scope)
<1>0. r \in Request
  BY DEF Fits
<1>1. ASSUME scope = {} PROVE Onward(n, p, {Trait(r)})
  <2>1. n = Settle(p, r.ticket, "rejected")
    BY <1>1 DEF ReplaceOldest, Reject
  <2>. HIDE DEF n
  <2>2. Onward(n, p, {})
    BY <2>1, SettleOnward DEF OutOfInterest
  <2>. QED  BY <2>2, OnwardMore
<1>2. ASSUME scope # {} PROVE Onward(n, p, {Trait(r)})
  <2>. DEFINE j == CHOOSE i \in scope : \A h \in scope : i <= h
              a == Gone(p, j, "evicted")
  <2>1. scope \in SUBSET Nat
    BY DEF Sound, QueueTyped, IdsBelow
  <2>2. j \in DOMAIN p.active
    BY <1>2, <2>1, Oldest
  <2>3. n = Insert(a, r)
    BY <1>2 DEF ReplaceOldest, Gone
  <2>. HIDE DEF j, n
  <2>4. Smaller(a, p)
    BY <2>2, GoneSmaller DEF Fates, Withdrawn
  <2>5. Onward(a, p, {})
    BY <2>2, GoneOnward DEF OutOfInterest
  <2>. HIDE DEF a
  <2>6. Sound(a) /\ Fits(a, r) /\ Free(a, r)
    BY <2>4, FitsSmaller DEF Smaller
  <2>7. Sound(n)
    BY <2>3, <2>6, InsertLater DEF Later
  <2>8. Onward(n, a, {Trait(r)})
    BY <1>0, <2>3, <2>6, InsertOnward
  <2>9. Onward(n, p, {} \cup {Trait(r)})
    BY <2>5, <2>6, <2>7, <2>8, OnwardTrans
  <2>. QED  BY <2>9
<1>. QED  BY <1>1, <1>2

LEMMA AdmitOnward ==
  ASSUME NEW p, Sound(p), NEW r, Fits(p, r), Free(p, r)
  PROVE  Onward(Admit(p, r), p, {Trait(r)})
<1>. DEFINE n == Admit(p, r)
<1>0. r \in Request
  BY DEF Fits
<1>1. ASSUME NEW behavior \in Behaviors, NEW scope, scope \subseteq DOMAIN p.active,
             n = Apply(p, r, behavior, scope)
      PROVE  Onward(n, p, {Trait(r)})
  <2>1. CASE n = Settle(p, r.ticket, "rejected")
    <3>. HIDE DEF n
    <3>1. Onward(n, p, {})
      BY <2>1, SettleOnward DEF OutOfInterest
    <3>. QED  BY <3>1, OnwardMore
  <2>2. CASE n = ReplaceOldest(p, r, scope)
    <3>. HIDE DEF n
    <3>. QED  BY <1>1, <2>2, ReplaceOldestOnward
  <2>3. CASE n = Delay(p, r)
    <3>. HIDE DEF n
    <3>. QED  BY <1>0, <2>3, DelayOnward
  <2>. QED  BY <1>1, <2>1, <2>2, <2>3 DEF Apply, Behaviors, Reject
<1>2. {OwnerBehavior, SystemBehavior, GlobalBehavior} \subseteq Behaviors
  BY QueueAssumption
<1>3. /\ OwnedBy(p, r.owner) \subseteq DOMAIN p.active
      /\ InSystem(p, r.system) \subseteq DOMAIN p.active
  BY DEF OwnedBy, InSystem
<1>4. \/ n = Apply(p, r, OwnerBehavior, OwnedBy(p, r.owner))
      \/ n = Apply(p, r, SystemBehavior, InSystem(p, r.system))
      \/ n = Apply(p, r, GlobalBehavior, DOMAIN p.active)
      \/ n = Insert(p, r)
  BY DEF Admit
<1>5. ASSUME n = Insert(p, r) PROVE Onward(n, p, {Trait(r)})
  <2>. HIDE DEF n
  <2>. QED  BY <1>0, <1>5, InsertOnward
<1>. HIDE DEF n
<1>6. Onward(n, p, {Trait(r)})
  BY <1>1, <1>2, <1>3, <1>4, <1>5
<1>. QED  BY <1>6 DEF n

LEMMA ScheduleOnward ==
  ASSUME NEW p, Sound(p), NEW r, Fits(p, r)
  PROVE  Onward(Schedule(p, r), p, {Trait(r)})
<1>. DEFINE n == Schedule(p, r)
            c == Cancel(p, r.key, "replaced")
<1>0. Sound(n)
  BY ScheduleLater DEF Later
<1>1. ASSUME Held(p, r.key), r.conflict = "reject" PROVE Onward(n, p, {Trait(r)})
  <2>1. n = Settle(p, r.ticket, "rejected")
    BY <1>1 DEF Schedule, Reject
  <2>. HIDE DEF n
  <2>2. Onward(n, p, {})
    BY <2>1, SettleOnward DEF OutOfInterest
  <2>. QED  BY <2>2, OnwardMore
<1>2. ASSUME Held(p, r.key), r.conflict # "reject" PROVE Onward(n, p, {Trait(r)})
  <2>1. n = Admit(c, r)
    BY <1>2 DEF Schedule
  <2>2. Smaller(c, p) /\ Free(c, r)
    BY CancelSmaller DEF Fates, Withdrawn, Free
  <2>3. Onward(c, p, {})
    BY CancelOnward DEF OutOfInterest
  <2>. HIDE DEF n, c
  <2>4. Sound(c) /\ Fits(c, r)
    BY <2>2, FitsSmaller DEF Smaller
  <2>5. Onward(n, c, {Trait(r)})
    BY <2>1, <2>2, <2>4, AdmitOnward
  <2>6. Onward(n, p, {} \cup {Trait(r)})
    BY <1>0, <2>3, <2>4, <2>5, OnwardTrans
  <2>. QED  BY <2>6
<1>3. ASSUME ~Held(p, r.key) PROVE Onward(n, p, {Trait(r)})
  BY <1>3, AdmitOnward DEF Schedule, Free
<1>. QED  BY <1>1, <1>2, <1>3

LEMMA RearmOnward ==
  ASSUME NEW p, Sound(p), NEW r, Fits(p, r)
  PROVE  Onward(Rearm(p, r), p, {Trait(r)})
<1>1. CASE r.args
  <2>1. Rearm(p, r) = Settle(p, r.ticket, "lost")
    BY <1>1 DEF Rearm
  <2>2. Onward(Settle(p, r.ticket, "lost"), p, {})
    BY SettleOnward DEF OutOfInterest
  <2>. QED  BY <2>1, <2>2, OnwardMore
<1>2. CASE ~r.args
  <2>1. Rearm(p, r) = Schedule(p, r)
    BY <1>2 DEF Rearm
  <2>. QED  BY <2>1, ScheduleOnward
<1>. QED  BY <1>1, <1>2

\* The same for a job that was taken out to be queued again.
LEMMA AgainOnward ==
  ASSUME NEW p, Sound(p), NEW c, Sound(c), Onward(c, p, {}), NEW r, Fits(c, r), Trait(r) \in Traits(p),
         NEW n, n = Rearm(c, r), Sound(n)
  PROVE  Onward(n, p, {})
<1>1. Onward(n, c, {Trait(r)})
  BY RearmOnward
<1>2. Onward(n, p, {} \cup {Trait(r)})
  BY <1>1, OnwardTrans
<1>. QED  BY <1>2 DEF Onward

LEMMA RetryOnward ==
  ASSUME NEW p, Sound(p), NEW j
  PROVE  Onward(RetryDelayed(p, j), p, {})
<1>. DEFINE n == RetryDelayed(p, j)
            c == PopDelayed(p, j)
<1>0. IsRegistry(p)
  BY DEF Sound, QueueTyped
<1>1. Sound(n)
  BY RetryDelayedLater DEF Later
<1>2. ASSUME j \in DOMAIN p.delayed PROVE Onward(n, p, {})
  <2>. DEFINE r == p.delayed[j]
  <2>1. n = Rearm(c, r)
    BY <1>2 DEF RetryDelayed
  <2>2. Fits(p, r) /\ Trait(r) \in Traits(p)
    BY <1>2 DEF Fits, Sound, QueueTyped, RecordsTyped, Traits
  <2>3. Smaller(c, p)
    BY PopDelayedSmaller
  <2>4. /\ c.delayed = Drop(p.delayed, j) /\ c.active = p.active
        /\ c.armed = p.armed /\ c.sources = p.sources
        /\ c.on = p.on /\ c.fate = p.fate /\ c.next = p.next
    BY <1>0, <1>2, PopDelayedFields
  <2>. HIDE DEF n, c, r
  <2>5. Settled(c, p, 0, "pending") /\ "pending" \notin OutOfInterest
    BY <2>4 DEF Settled, OutOfInterest
  <2>6. Onward(c, p, {})
    BY <2>4, <2>5, UnparkedOnward
  <2>7. Sound(c) /\ Fits(c, r)
    BY <2>2, <2>3, FitsSmaller DEF Smaller
  <2>. QED  BY <1>1, <2>1, <2>2, <2>6, <2>7, AgainOnward
<1>3. ASSUME j \notin DOMAIN p.delayed PROVE Onward(n, p, {})
  <2>1. n = p
    BY <1>3 DEF RetryDelayed
  <2>2. Onward(p, p, {})
    BY DEF Onward, Sound, QueueTyped
  <2>. QED  BY <2>1, <2>2
<1>. QED  BY <1>2, <1>3

LEMMA RescheduleOnward ==
  ASSUME NEW p, Sound(p), NEW k
  PROVE  Onward(Reschedule(p, k), p, {})
<1>. DEFINE n == Reschedule(p, k)
            c == Cancel(p, k, "pending")
<1>1. Sound(n)
  BY RescheduleLater DEF Later
<1>2. Smaller(c, p) /\ Onward(c, p, {})
  BY CancelSmaller, CancelOnward DEF Fates, OutOfInterest
<1>3. ASSUME NEW rec \in Request, rec.ticket \in DOMAIN p.fate, Trait(rec) \in Traits(p),
             n = Rearm(c, NewTicketIfStarted(p, rec))
      PROVE  Onward(n, p, {})
  <2>. DEFINE r == NewTicketIfStarted(p, rec)
  <2>1. Fits(p, r)
    BY <1>3, NewTicketFields
  <2>2. Trait(r) = Trait(rec)
    BY DEF NewTicketIfStarted, Trait, Request
  <2>. HIDE DEF n, c, r
  <2>3. Sound(c) /\ Fits(c, r)
    BY <1>2, <2>1, FitsSmaller DEF Smaller
  <2>4. n = Rearm(c, r)
    BY <1>3 DEF r
  <2>. QED  BY <1>1, <1>2, <1>3, <2>2, <2>3, <2>4, AgainOnward
<1>4. ASSUME HasActive(p, k) PROVE Onward(n, p, {})
  <2>. DEFINE rec == p.active[p.keyJob[k]]
  <2>1. rec \in Request /\ rec.ticket \in DOMAIN p.fate /\ Trait(rec) \in Traits(p)
    BY <1>4 DEF HasActive, Sound, QueueTyped, RecordsTyped, Traits
  <2>2. n = Rearm(c, NewTicketIfStarted(p, rec))
    BY <1>4 DEF Reschedule
  <2>. HIDE DEF n, c, rec
  <2>. QED  BY <1>3, <2>1, <2>2
<1>5. ASSUME ~HasActive(p, k), HasDelayed(p, k) PROVE Onward(n, p, {})
  <2>. DEFINE rec == p.delayed[p.delayedKey[k]]
  <2>1. rec \in Request /\ rec.ticket \in DOMAIN p.fate /\ Trait(rec) \in Traits(p)
    BY <1>5 DEF HasDelayed, Sound, QueueTyped, RecordsTyped, Traits
  <2>2. n = Rearm(c, NewTicketIfStarted(p, rec))
    BY <1>5 DEF Reschedule
  <2>. HIDE DEF n, c, rec
  <2>. QED  BY <1>3, <2>1, <2>2
<1>6. ASSUME ~HasActive(p, k), ~HasDelayed(p, k) PROVE Onward(n, p, {})
  <2>1. n = p
    BY <1>6 DEF Reschedule
  <2>2. Onward(p, p, {})
    BY DEF Onward, Sound, QueueTyped
  <2>. QED  BY <2>1, <2>2
<1>. QED  BY <1>4, <1>5, <1>6

-----------------------------------------------------------------------------
(* The flag *)

AllSources == [obj : Objects, id : Keys \cup Nat]

LEMMA AllSourced ==
  ASSUME NEW p, Sound(p)
  PROVE  Sourced(p, AllSources)
<1>. SUFFICES ASSUME NEW e, e \notin AllSources
              PROVE  e \notin p.sources /\ \A j \in DOMAIN p.active : e \notin SourcesOf(j, p.active[j])
  BY DEF Sourced
<1>1. e \notin p.sources
  BY DEF Sound, QueueTyped, SourcesTyped, AllSources
<1>2. ASSUME NEW j \in DOMAIN p.active PROVE SourcesOf(j, p.active[j]) \subseteq AllSources
  <2>1. /\ p.active[j].obj \in Objects \cup {None} /\ p.active[j].key \in Keys \cup {None}
        /\ j \in Nat
    BY DEF Sound, QueueTyped, RecordsTyped, Request, IdsBelow
  <2>. QED  BY <2>1 DEF SourcesOf, AllSources
<1>. QED  BY <1>1, <1>2

\* With the flag toggled nothing is known of the sources, but all else stays.
LEMMA ToggleGood ==
  ASSUME NEW p, NEW S, NEW X, Good(p, S, {}, X), NEW n, n = [p EXCEPT !.on = ~@]
  PROVE  Good(n, S, {}, AllSources)
<1>0. IsRegistry(p) /\ p.on \in BOOLEAN
  BY DEF Good, Sound, QueueTyped
<1>1. /\ IsRegistry(n)
      /\ n.active = p.active /\ n.keyJob = p.keyJob
      /\ n.delayed = p.delayed /\ n.delayedKey = p.delayedKey
      /\ n.armed = p.armed /\ n.sources = p.sources
      /\ n.fate = p.fate /\ n.next = p.next
  BY <1>0 DEF IsRegistry
<1>2. n.on \in BOOLEAN
  BY <1>0 DEF IsRegistry
<1>3. Sound(n)
  <2>1. QueueTyped(p) /\ KeysIndexed(p)
    BY DEF Good, Sound
  <2>2. QueueTyped(n)
    BY <1>1, <1>2, <2>1 DEF QueueTyped
  <2>3. KeysIndexed(n)
    BY <1>1, <2>1 DEF KeysIndexed
  <2>. QED  BY <2>2, <2>3 DEF Sound
<1>4. Timed(n, JobsOf(S))
  BY <1>1 DEF Good, Timed
<1>5. \A i : JobTicket(n, i) = JobTicket(p, i)
  BY <1>1 DEF JobTicket
<1>6. Ticketed(n, S, {})
  BY <1>1, <1>5 DEF Good, Ticketed
<1>. QED  BY <1>3, <1>4, <1>6, AllSourced DEF Good

-----------------------------------------------------------------------------
(* Calls whose job has lost its task *)

\* S are the jobs whose task is gone, with the calls they served; r is the one on
\* the stack, or None, and the others were cancelled directly.
Stand(p, S, r) ==
  /\ S \subseteq [job : Nat, ticket : Nat]
  /\ \A s, u \in S : s.job = u.job => s = u
  /\ \A s \in S : Maps(p.fate, s.ticket, IF s = r THEN "running" ELSE "cancelled")
  /\ r # None => r \in S
  /\ \A t \in Running(p) : r # None /\ t = r.ticket

\* One call of the scheduler, as callers see it.
Move(n, p) ==
  \/ \E gone : Released(n, p, gone)
  \/ p.next <= MaxId /\ \E k \in Keys \cup {None} : Outcome(n, p, p.next, k)

LEMMA MoveStand ==
  ASSUME NEW p, Sound(p), NEW S, NEW r, Stand(p, S, r), NEW n, Move(n, p)
  PROVE  Stand(n, S, r)
<1>1. Running(n) = Running(p) /\ \A u \in Done(p) : u \in DOMAIN n.fate /\ n.fate[u] = p.fate[u]
  <2>1. ASSUME NEW gone, Released(n, p, gone)
        PROVE  Running(n) = Running(p) /\ \A u \in Done(p) : u \in DOMAIN n.fate /\ n.fate[u] = p.fate[u]
    BY <2>1, ReleasedDone, ReleasedRunning
  <2>2. ASSUME NEW k, Outcome(n, p, p.next, k)
        PROVE  Running(n) = Running(p) /\ \A u \in Done(p) : u \in DOMAIN n.fate /\ n.fate[u] = p.fate[u]
    <3>1. p.next \notin Done(p)
      BY NextIsNew DEF Done
    <3>. QED  BY <2>2, <3>1, OutcomeDone, OutcomeRunning
  <2>. QED  BY <2>1, <2>2 DEF Move
<1>2. ASSUME NEW s \in S PROVE Maps(n.fate, s.ticket, IF s = r THEN "running" ELSE "cancelled")
  <2>1. Maps(p.fate, s.ticket, IF s = r THEN "running" ELSE "cancelled")
    BY DEF Stand
  <2>2. s.ticket \in Done(p)
    BY <2>1 DEF Done, Maps
  <2>. QED  BY <1>1, <2>1, <2>2 DEF Maps
<1>. QED  BY <1>1, <1>2 DEF Stand

\* A task that is gone for one more job.
LEMMA LostStand ==
  ASSUME NEW p, NEW S, NEW X, Good(p, S, {}, X), NEW r, Stand(p, S, r),
         NEW j \in DOMAIN p.armed, NEW t, t = p.armed[j].ticket,
         NEW why, NEW n, n.fate = [p.fate EXCEPT ![t] = why],
         NEW v, \/ why = "cancelled" /\ v = r
                \/ why = "running" /\ r = None /\ v = [job |-> j, ticket |-> t]
  PROVE  Stand(n, S \cup {[job |-> j, ticket |-> t]}, v)
<1>. DEFINE a == [job |-> j, ticket |-> t]
            T == S \cup {a}
<1>1. /\ j \in Nat /\ t \in Nat /\ t \in DOMAIN p.fate /\ p.fate[t] = "pending"
      /\ j \notin JobsOf(S)
  <2>1. j \in Nat /\ t \in DOMAIN p.fate /\ t \in Nat
    BY DEF Good, Sound, QueueTyped, IdsBelow, TasksTyped
  <2>2. p.fate[t] = "pending"
    BY DEF Good, Ticketed, Maps
  <2>3. j \notin JobsOf(S)
    BY DEF Good, Timed
  <2>. QED  BY <2>1, <2>2, <2>3
<1>2. \A s \in S : s.job # j
  BY <1>1 DEF JobsOf
<1>3. \A s \in S : s # a /\ s.ticket # t
  <2>1. \A s \in S : s.ticket # t
    BY <1>1 DEF Stand, Maps
  <2>. QED  BY <1>2, <2>1
<1>4. a \in [job : Nat, ticket : Nat] /\ a # None
  BY <1>1, IdAssumption
<1>5. T \subseteq [job : Nat, ticket : Nat]
  BY <1>4 DEF Stand
<1>6. \A s, u \in T : s.job = u.job => s = u
  BY <1>2 DEF Stand
<1>7. DOMAIN n.fate = DOMAIN p.fate /\ n.fate[t] = why /\ \A u \in DOMAIN p.fate \ {t} : n.fate[u] = p.fate[u]
  BY <1>1
<1>8. \A s \in S : Maps(n.fate, s.ticket, IF s = v THEN "running" ELSE "cancelled")
  <2>. SUFFICES ASSUME NEW s \in S PROVE Maps(n.fate, s.ticket, IF s = v THEN "running" ELSE "cancelled")
    OBVIOUS
  <2>1. Maps(p.fate, s.ticket, IF s = r THEN "running" ELSE "cancelled")
    BY DEF Stand
  <2>2. Maps(n.fate, s.ticket, IF s = r THEN "running" ELSE "cancelled")
    BY <1>3, <1>7, <2>1 DEF Maps
  <2>3. (s = r) <=> (s = v)
    BY <1>3, IdAssumption DEF Stand
  <2>. QED  BY <2>2, <2>3
<1>9. v # None => v \in T
  BY DEF Stand
<1>. HIDE DEF a, T
<1>10. a = v <=> why = "running"
  BY <1>3, <1>4 DEF Stand, a
<1>11. Maps(n.fate, a.ticket, IF a = v THEN "running" ELSE "cancelled")
  BY <1>1, <1>7, <1>10 DEF Maps, a
<1>12. \A u \in Running(n) : v # None /\ u = v.ticket
  BY <1>1, <1>4, <1>7 DEF Running, Stand, a
<1>13. Stand(n, T, v)
  BY <1>5, <1>6, <1>8, <1>9, <1>11, <1>12 DEF Stand, T
<1>. QED  BY <1>13 DEF T, a

\* The callback on the stack has returned or raised.
LEMMA ReturnStand ==
  ASSUME NEW p, NEW S, NEW r, r # None, Stand(p, S, r), NEW n, n.fate = [p.fate EXCEPT ![r.ticket] = "ran"]
  PROVE  Stand(n, S \ {r}, None)
<1>1. r.ticket \in DOMAIN p.fate /\ p.fate[r.ticket] = "running"
  BY DEF Stand, Maps
<1>2. \A s \in S \ {r} : s.ticket # r.ticket /\ Maps(p.fate, s.ticket, "cancelled") /\ s # None
  BY <1>1, IdAssumption DEF Stand, Maps
<1>3. \A s \in S \ {r} : Maps(n.fate, s.ticket, IF s = None THEN "running" ELSE "cancelled")
  BY <1>1, <1>2 DEF Maps
<1>4. Running(n) = {}
  BY <1>1 DEF Running, Stand
<1>. QED  BY <1>3, <1>4 DEF Stand

-----------------------------------------------------------------------------
(* What flush_due() does to one job *)

\* From p to n ids are not used again.
Fresh(n, p) ==
  /\ p.next <= n.next
  /\ \A j \in DOMAIN n.active : j \in DOMAIN p.active \/ p.next <= j
  /\ \A j \in DOMAIN n.delayed : j \in DOMAIN p.delayed \/ p.next <= j
  /\ \A j \in DOMAIN n.armed : j \in DOMAIN p.armed \/ p.next <= j

LEMMA OnwardFresh ==
  ASSUME NEW n, NEW p, NEW T, Onward(n, p, T)
  PROVE  Fresh(n, p)
  BY DEF Onward, Fresh

LEMMA FreshAfter ==
  ASSUME NEW n, NEW c, NEW p, Sound(p), Fresh(n, c), c.next = p.next,
         DOMAIN c.active \subseteq DOMAIN p.active, DOMAIN c.delayed \subseteq DOMAIN p.delayed,
         DOMAIN c.armed \subseteq DOMAIN p.armed
  PROVE  Fresh(n, p)
  BY DEF Fresh

\* A job whose task is still there: its call waits.
LEMMA ActiveWaits ==
  ASSUME NEW p, NEW S, NEW X, Good(p, S, {}, X), NEW j \in DOMAIN p.active, j \in DOMAIN p.armed
  PROVE  /\ Sound(p) /\ IsRegistry(p)
         /\ p.active[j] \in Request /\ p.active[j].ticket \in DOMAIN p.fate
         /\ Maps(p.fate, p.active[j].ticket, "pending")
         /\ p.armed[j].ticket = p.active[j].ticket
         /\ j \notin DOMAIN p.delayed
<1>1. Sound(p) /\ QueueTyped(p) /\ Ticketed(p, S, {})
  BY DEF Good, Sound
<1>2. p.active[j] \in Request /\ p.active[j].ticket \in DOMAIN p.fate /\ IsRegistry(p)
  BY <1>1 DEF QueueTyped, RecordsTyped
<1>3. JobTicket(p, j) = p.active[j].ticket
  BY DEF JobTicket
<1>4. Maps(p.fate, p.active[j].ticket, "pending") /\ p.armed[j].ticket = p.active[j].ticket
  BY <1>1, <1>3 DEF Ticketed
<1>5. j \notin DOMAIN p.delayed
  BY <1>1, Disjoint DEF Good
<1>. QED  BY <1>1, <1>2, <1>4, <1>5

Popped(p, j) == CancelTask(PopJob(p, j), j)

LEMMA PoppedFields ==
  ASSUME NEW p, Sound(p), NEW j \in DOMAIN p.active, NEW n, n = Popped(p, j)
  PROVE  /\ Sound(n) /\ IsRegistry(n)
         /\ n.active = Drop(p.active, j) /\ n.delayed = p.delayed
         /\ n.armed = Drop(p.armed, j) /\ n.on = p.on /\ n.next = p.next
         /\ n.sources = Left(p, j) /\ n.fate = p.fate
<1>. DEFINE a == PopJob(p, j)
<1>0. IsRegistry(p)
  BY DEF Sound, QueueTyped
<1>1. /\ IsRegistry(a)
      /\ a.active = Drop(p.active, j) /\ a.delayed = p.delayed
      /\ a.armed = p.armed /\ a.on = p.on /\ a.fate = p.fate /\ a.next = p.next
      /\ a.sources = Left(p, j)
  BY <1>0, PopJobLeft
<1>2. Sound(a)
  BY PopJobSmaller DEF Smaller
<1>3. n = CancelTask(a, j)
  BY DEF Popped
<1>. HIDE DEF a
<1>4. /\ IsRegistry(n)
      /\ n.active = a.active /\ n.keyJob = a.keyJob
      /\ n.delayed = a.delayed /\ n.delayedKey = a.delayedKey
      /\ n.armed = Drop(a.armed, j) /\ n.sources = a.sources
      /\ n.on = a.on /\ n.fate = a.fate /\ n.next = a.next
  BY <1>1, <1>3, CancelTaskFields
<1>5. Sound(n)
  BY <1>2, <1>3, CancelTaskSmaller DEF Smaller
<1>. QED  BY <1>1, <1>4, <1>5

\* The job in hand: popped, its call still open.
LEMMA PoppedTaken ==
  ASSUME NEW p, NEW S, NEW X, Good(p, S, {}, X), NEW j \in DOMAIN p.active, j \in DOMAIN p.armed,
         NEW c, c = Popped(p, j)
  PROVE  /\ Good(c, S, {p.active[j].ticket}, X)
         /\ Taken(c, p, p.active[j].ticket, p.active[j].key)
<1>. DEFINE t == p.active[j].ticket
<1>1. /\ Sound(p) /\ p.active[j] \in Request /\ Maps(p.fate, t, "pending")
  BY ActiveWaits
<1>2. /\ Sound(c) /\ IsRegistry(c)
      /\ c.active = Drop(p.active, j) /\ c.delayed = p.delayed
      /\ c.armed = Drop(p.armed, j) /\ c.on = p.on /\ c.next = p.next
      /\ c.sources = Left(p, j) /\ c.fate = p.fate
  BY <1>1, PoppedFields
<1>3. Settled(c, p, t, "pending")
  BY <1>2 DEF Settled
<1>4. NewTicket(p, t) = t
  BY <1>1 DEF NewTicket
<1>5. Good(c, S, {NewTicket(p, t)}, X)
  BY <1>2, <1>3, TakeActive
<1>6. Taken(c, p, t, p.active[j].key)
  BY <1>1, <1>2, <1>3, ActiveTaken
<1>. QED  BY <1>4, <1>5, <1>6

Deferred(rec) == [rec EXCEPT !.defers = @ + 1]

LEMMA DeferredFields ==
  ASSUME NEW rec \in Request
  PROVE  /\ Deferred(rec) \in Request
         /\ Deferred(rec).ticket = rec.ticket /\ Deferred(rec).key = rec.key
         /\ Deferred(rec).obj = rec.obj /\ Deferred(rec).args = rec.args
         /\ Deferred(rec).owner = rec.owner /\ Deferred(rec).system = rec.system
         /\ Deferred(rec).defers = rec.defers + 1
  BY DEF Deferred, Request

LEMMA DeferIs ==
  ASSUME NEW p, NEW j
  PROVE  Defer(p, j) = IF p.active[j].defers >= MaxDefers
                       THEN Settle(Popped(p, j), p.active[j].ticket, "dropped")
                       ELSE Rearm(Popped(p, j), Deferred(p.active[j]))
  BY DEF Defer, Popped, Deferred

\* A deferred job is queued again for the call it served, or given up.
LEMMA DeferEffect ==
  ASSUME NEW p, NEW S, NEW X, Good(p, S, {}, X), NEW j \in DOMAIN p.active, j \in DOMAIN p.armed
  PROVE  /\ Good(Defer(p, j), S, {}, X) /\ Move(Defer(p, j), p) /\ Fresh(Defer(p, j), p)
         /\ j \notin DOMAIN Defer(p, j).armed
<1>. DEFINE rec == p.active[j]
            t == rec.ticket
            key == rec.key
            c == Popped(p, j)
            r == Deferred(rec)
            n == Defer(p, j)
<1>1. /\ Sound(p) /\ rec \in Request /\ t \in DOMAIN p.fate
  BY ActiveWaits
<1>2. /\ Sound(c) /\ IsRegistry(c)
      /\ c.active = Drop(p.active, j) /\ c.delayed = p.delayed
      /\ c.armed = Drop(p.armed, j) /\ c.on = p.on /\ c.next = p.next
      /\ c.sources = Left(p, j) /\ c.fate = p.fate
  BY <1>1, PoppedFields
<1>3. Good(c, S, {t}, X) /\ Taken(c, p, t, key)
  BY PoppedTaken
<1>4. r \in Request /\ r.ticket = t /\ r.key = key
  BY <1>1, DeferredFields
<1>5. Fits(c, r)
  BY <1>1, <1>2, <1>4 DEF Fits
<1>6. n = IF rec.defers >= MaxDefers THEN Settle(c, t, "dropped") ELSE Rearm(c, r)
  BY DeferIs
<1>7. /\ DOMAIN c.active \subseteq DOMAIN p.active /\ DOMAIN c.delayed \subseteq DOMAIN p.delayed
      /\ DOMAIN c.armed \subseteq DOMAIN p.armed /\ j \notin DOMAIN c.armed
      /\ j \in Nat /\ p.next \in Nat /\ j < p.next
  <2>1. j \in Nat /\ p.next \in Nat /\ j < p.next
    BY <1>1 DEF Sound, QueueTyped, IdsBelow
  <2>. QED  BY <1>2, <2>1 DEF Drop, Restrict
<1>. HIDE DEF c, r, n
<1>8. ASSUME n = Settle(c, t, "dropped") PROVE Good(n, S, {}, X) /\ Move(n, p) /\ Fresh(n, p) /\ j \notin DOMAIN n.armed
  <2>1. Good(n, S, {}, X)
    BY <1>3, <1>8, RejectGood DEF Fates, Withdrawn
  <2>2. Ended(n, c, t)
    BY <1>2, <1>8, SettleEnded DEF Withdrawn
  <2>3. Outcome(n, c, t, key)
    BY <2>2, PlacedOutcome
  <2>4. Move(n, p)
    BY <1>3, <2>3, Retaken DEF Move
  <2>5. /\ IsRegistry(n)
         /\ n.active = c.active /\ n.keyJob = c.keyJob
         /\ n.delayed = c.delayed /\ n.delayedKey = c.delayedKey
         /\ n.armed = c.armed /\ n.sources = c.sources
         /\ n.on = c.on /\ n.next = c.next
         /\ n.fate = IF Maps(c.fate, t, "pending") THEN [c.fate EXCEPT ![t] = "dropped"] ELSE c.fate
    BY <1>2, <1>8, SettleFields
  <2>6. Fresh(n, c)
    BY <1>2, <2>5 DEF Fresh, Sound, QueueTyped
  <2>7. Fresh(n, p)
    BY <1>1, <1>2, <1>7, <2>6, FreshAfter
  <2>. QED  BY <1>7, <2>1, <2>4, <2>5, <2>7
<1>9. ASSUME n = Rearm(c, r) PROVE Good(n, S, {}, X) /\ Move(n, p) /\ Fresh(n, p) /\ j \notin DOMAIN n.armed
  <2>0. Good(c, S, {r.ticket}, X)
    BY <1>3, <1>4
  <2>1. Good(n, S, {}, X)
    BY <1>5, <1>9, <2>0, RearmGood
  <2>2. Outcome(n, c, r.ticket, r.key)
    BY <1>5, <1>9, <2>0, RearmOutcome
  <2>3. Outcome(n, c, t, key)
    BY <1>4, <2>2
  <2>4. Move(n, p)
    BY <1>3, <2>3, Retaken DEF Move
  <2>5. Fresh(n, c)
    BY <1>2, <1>5, <1>9, RearmOnward, OnwardFresh
  <2>7. Fresh(n, p)
    BY <1>1, <1>2, <1>7, <2>5, FreshAfter
  <2>8. j \notin DOMAIN n.armed
    BY <1>2, <1>7, <2>5 DEF Fresh
  <2>. QED  BY <2>1, <2>4, <2>7, <2>8
<1>. QED  BY <1>6, <1>8, <1>9 DEF n

LEMMA SkipEffect ==
  ASSUME NEW p, NEW S, NEW X, Good(p, S, {}, X), NEW j \in DOMAIN p.active
  PROVE  /\ Good(Skip(p, j), S, {}, X) /\ Move(Skip(p, j), p) /\ Fresh(Skip(p, j), p)
         /\ j \notin DOMAIN Skip(p, j).armed
<1>. DEFINE n == Gone(p, j, "skipped")
<1>1. Skip(p, j) = n
  BY DEF Skip, Gone
<1>2. "skipped" \in Withdrawn /\ "skipped" \in Fates \ {"pending"}
  BY DEF Fates, Withdrawn
<1>3. Good(n, S, {}, X) /\ Move(n, p)
  BY <1>2, GoneGood, GoneReleased DEF Move
<1>4. IsRegistry(p) /\ p.next \in Nat
  BY DEF Good, Sound, QueueTyped
<1>5. /\ n.active = Drop(p.active, j) /\ n.delayed = p.delayed
      /\ n.armed = Drop(p.armed, j) /\ n.on = p.on /\ n.next = p.next
      /\ n.sources = Left(p, j)
      /\ n.fate = Settle(p, p.active[j].ticket, "skipped").fate
  BY <1>4, GoneFields
<1>. HIDE DEF n
<1>6. DOMAIN n.active = DOMAIN p.active \ {j} /\ DOMAIN n.armed = DOMAIN p.armed \ {j}
  BY <1>5, DropDomain
<1>7. Fresh(n, p)
  BY <1>4, <1>5, <1>6 DEF Fresh
<1>. QED  BY <1>1, <1>3, <1>6, <1>7 DEF n

\* What a step that only goes through the scheduler keeps.
Routine(n, p, S, X) == Good(n, S, {}, X) /\ Move(n, p) /\ Onward(n, p, {})

\* n is p with no job or call touched.
LEMMA SameMove ==
  ASSUME NEW p, Sound(p), NEW n, Sound(n), n.active = p.active, n.delayed = p.delayed, n.fate = p.fate
  PROVE  Move(n, p)
<1>1. \A k \in Keys : Holder(n, k) = Holder(p, k)
  BY SameJobsHolder
<1>2. Released(n, p, {})
  BY <1>1 DEF Released
<1>. QED  BY <1>2 DEF Move

LEMMA CancelTaskOnward ==
  ASSUME NEW p, Sound(p), NEW j
  PROVE  Onward(CancelTask(p, j), p, {})
<1>. DEFINE n == CancelTask(p, j)
<1>0. IsRegistry(p)
  BY DEF Sound, QueueTyped
<1>1. /\ IsRegistry(n)
      /\ n.active = p.active /\ n.keyJob = p.keyJob
      /\ n.delayed = p.delayed /\ n.delayedKey = p.delayedKey
      /\ n.armed = Drop(p.armed, j) /\ n.sources = p.sources
      /\ n.on = p.on /\ n.fate = p.fate /\ n.next = p.next
  BY <1>0, CancelTaskFields
<1>. HIDE DEF n
<1>2. Settled(n, p, 0, "pending") /\ "pending" \notin OutOfInterest
  BY <1>1 DEF Settled, OutOfInterest
<1>3. DOMAIN n.armed \subseteq DOMAIN p.armed
  BY <1>1 DEF Drop, Restrict
<1>4. Fewer(n, p) /\ \A i \in DOMAIN n.delayed : i \in DOMAIN p.delayed /\ n.delayed[i] = p.delayed[i]
  BY <1>1 DEF Fewer
<1>5. Onward(n, p, {})
  BY <1>1, <1>2, <1>3, <1>4, FewerOnward
<1>. QED  BY <1>5 DEF n

LEMMA IdleCancelTask ==
  ASSUME NEW p, NEW S, NEW X, Good(p, S, {}, X), NEW j, j \notin DOMAIN p.armed
  PROVE  Routine(CancelTask(p, j), p, S, X)
<1>. DEFINE n == CancelTask(p, j)
<1>0. Sound(p) /\ IsRegistry(p) /\ Timed(p, JobsOf(S)) /\ Sourced(p, X) /\ Ticketed(p, S, {})
  BY DEF Good, Sound, QueueTyped
<1>1. /\ IsRegistry(n)
      /\ n.active = p.active /\ n.keyJob = p.keyJob
      /\ n.delayed = p.delayed /\ n.delayedKey = p.delayedKey
      /\ n.armed = Drop(p.armed, j) /\ n.sources = p.sources
      /\ n.on = p.on /\ n.fate = p.fate /\ n.next = p.next
  BY <1>0, CancelTaskFields
<1>2. Sound(n)
  BY <1>0, CancelTaskSmaller DEF Smaller
<1>3. Onward(n, p, {})
  BY <1>0, CancelTaskOnward
<1>. HIDE DEF n
<1>4. DOMAIN n.armed = DOMAIN p.armed /\ \A i \in DOMAIN n.armed : n.armed[i] = p.armed[i]
  BY <1>1 DEF Drop, Restrict
<1>5. Timed(n, JobsOf(S))
  BY <1>0, <1>1, <1>4 DEF Timed
<1>6. Sourced(n, X)
  BY <1>0, <1>1 DEF Sourced
<1>7. \A i : JobTicket(n, i) = JobTicket(p, i)
  BY <1>1 DEF JobTicket
<1>8. Ticketed(n, S, {})
  BY <1>0, <1>1, <1>4, <1>7 DEF Ticketed
<1>9. Move(n, p)
  BY <1>0, <1>1, <1>2, SameMove
<1>. QED  BY <1>2, <1>3, <1>5, <1>6, <1>8, <1>9 DEF Good, Routine, n

\* flush_due() retries a parked job, or finds that it is gone.
LEMMA RetryRoutine ==
  ASSUME NEW p, NEW S, NEW X, Good(p, S, {}, X), NEW j, j \notin DOMAIN p.active
  PROVE  Routine(RetryDelayed(CancelTask(p, j), j), p, S, X)
<1>. DEFINE c == CancelTask(p, j)
            n == RetryDelayed(c, j)
<1>0. Sound(p) /\ IsRegistry(p)
  BY DEF Good, Sound, QueueTyped
<1>1. Onward(c, p, {})
  BY <1>0, CancelTaskOnward
<1>2. Sound(c)
  BY <1>0, CancelTaskSmaller DEF Smaller
<1>3. /\ IsRegistry(c)
      /\ c.active = p.active /\ c.keyJob = p.keyJob
      /\ c.delayed = p.delayed /\ c.delayedKey = p.delayedKey
      /\ c.armed = Drop(p.armed, j) /\ c.sources = p.sources
      /\ c.on = p.on /\ c.fate = p.fate /\ c.next = p.next
  BY <1>0, CancelTaskFields
<1>4. ASSUME j \in DOMAIN p.delayed PROVE Routine(n, p, S, X)
  <2>1. Good(n, S, {}, X) /\ Move(n, p)
    BY <1>4, RetryGood, RetryReleased DEF Move
  <2>2. Sound(n)
    BY <2>1 DEF Good
  <2>. HIDE DEF c
  <2>3. Onward(n, c, {})
    BY <1>2, RetryOnward
  <2>. HIDE DEF n
  <2>4. Onward(n, p, {} \cup {})
    BY <1>0, <1>1, <1>2, <2>2, <2>3, OnwardTrans
  <2>5. Onward(n, p, {})
    BY <2>4
  <2>. QED  BY <2>1, <2>5 DEF Routine
<1>5. ASSUME j \notin DOMAIN p.delayed PROVE Routine(n, p, S, X)
  <2>1. n = c
    BY <1>3, <1>5 DEF RetryDelayed
  <2>2. j \notin DOMAIN p.armed
    BY <1>5 DEF Good, Timed
  <2>3. Routine(c, p, S, X)
    BY <2>2, IdleCancelTask
  <2>. QED  BY <2>1, <2>3
<1>. QED  BY <1>4, <1>5

\* flush_due() finds a job whose task or record is gone.
LEMMA PopGoneRoutine ==
  ASSUME NEW p, NEW S, NEW X, Good(p, S, {}, X), NEW j, j \notin DOMAIN p.active \/ j \notin DOMAIN p.armed
  PROVE  Routine(PopJob(p, j), p, S, X)
<1>. DEFINE n == PopJob(p, j)
<1>0. Sound(p) /\ IsRegistry(p)
  BY DEF Good, Sound, QueueTyped
<1>1. CASE j \notin DOMAIN p.active
  <2>1. n = p
    BY <1>1 DEF PopJob
  <2>2. Move(p, p)
    BY <1>0, SameMove
  <2>3. Onward(p, p, {})
    BY <1>0 DEF Onward, Sound, QueueTyped
  <2>. QED  BY <2>1, <2>2, <2>3 DEF Routine
<1>2. CASE j \in DOMAIN p.active /\ j \notin DOMAIN p.armed
  <2>1. Good(n, S, {}, X)
    BY <1>2, PopUnarmedGood
  <2>2. /\ IsRegistry(n)
        /\ n.active = Drop(p.active, j) /\ n.delayed = p.delayed
        /\ n.armed = p.armed /\ n.on = p.on /\ n.fate = p.fate /\ n.next = p.next
        /\ n.sources = Left(p, j)
    BY <1>0, <1>2, PopJobLeft
  <2>3. p.active[j].ticket \in Done(p)
    BY <1>2 DEF Good, Ticketed, Done
  <2>4. \A k \in Keys : \/ Holder(n, k) = Holder(p, k)
                        \/ Holder(n, k) = None /\ Holder(p, k) \in Done(p)
    BY <1>0, <1>2, <2>3, PoppedHolder
  <2>. HIDE DEF n
  <2>5. Released(n, p, {})
    BY <2>2, <2>4 DEF Released
  <2>6. Fewer(n, p)
    BY <2>2, DropFewer
  <2>7. Settled(n, p, 0, "pending") /\ "pending" \notin OutOfInterest
    BY <2>2 DEF Settled, OutOfInterest
  <2>8. DOMAIN n.armed \subseteq DOMAIN p.armed
        /\ \A i \in DOMAIN n.delayed : i \in DOMAIN p.delayed /\ n.delayed[i] = p.delayed[i]
    BY <2>2
  <2>9. Onward(n, p, {})
    BY <1>0, <2>2, <2>6, <2>7, <2>8, FewerOnward
  <2>. QED  BY <2>1, <2>5, <2>9 DEF Routine, Move, n
<1>. QED  BY <1>1, <1>2

-----------------------------------------------------------------------------
(* A call begins, ends, or loses its task *)

\* n is p with fate why for ticket t, and with none but jobs and tasks of p.
LEMMA FateOnward ==
  ASSUME NEW p, Sound(p), NEW n, n.next = p.next, DOMAIN n.armed \subseteq DOMAIN p.armed, Fewer(n, p),
         n.delayed = p.delayed,
         NEW t, NEW why, n.fate = [p.fate EXCEPT ![t] = why], why \notin OutOfInterest
  PROVE  Onward(n, p, {})
<1>1. \A f \in OutOfInterest : Ends(n, f) \subseteq Ends(p, f)
  BY DEF Ends
<1>2. Traits(n) \subseteq Traits(p)
  BY DEF Traits, Fewer
<1>3. p.next <= n.next
  BY DEF Sound, QueueTyped
<1>. QED  BY <1>1, <1>2, <1>3 DEF Onward, Fewer

LEMMA StartEffect ==
  ASSUME NEW p, NEW S, NEW X, Good(p, S, {}, X), NEW j \in DOMAIN p.active, j \in DOMAIN p.armed,
         NEW n, Begun(n, p, j, p.active[j].ticket)
  PROVE  /\ Good(n, S \cup {[job |-> j, ticket |-> p.active[j].ticket]}, {}, X)
         /\ n.active = p.active /\ n.delayed = p.delayed /\ n.on = p.on
         /\ n.sources = p.sources /\ n.next = p.next
         /\ n.fate = [p.fate EXCEPT ![p.active[j].ticket] = "running"]
         /\ DOMAIN n.armed = DOMAIN p.armed \ {j}
         /\ Onward(n, p, {})
<1>. DEFINE t == p.active[j].ticket
            c == CancelTask(p, j)
<1>0. /\ Sound(p) /\ IsRegistry(p) /\ t \in DOMAIN p.fate /\ p.armed[j].ticket = t
      /\ Begun(n, p, j, t)
  BY ActiveWaits
<1>1. n = [c EXCEPT !.fate[t] = "running"]
  BY DEF Begun
<1>2. Smaller(c, p)
  BY <1>0, CancelTaskSmaller
<1>. HIDE DEF c, t
<1>3. Sound(n)
  BY <1>0, <1>1, <1>2, SetFateSmaller DEF Smaller, Fates
<1>4. /\ n.active = p.active /\ n.delayed = p.delayed /\ n.armed = Drop(p.armed, j)
      /\ n.sources = p.sources /\ n.on = p.on /\ n.next = p.next
      /\ n.fate = [p.fate EXCEPT ![t] = "running"]
  BY <1>0, BegunFields
<1>5. "running" \in Fates \ {"pending"} /\ "running" \notin OutOfInterest
  BY DEF Fates, OutOfInterest
<1>6. n.fate = [p.fate EXCEPT ![p.armed[j].ticket] = "running"]
  BY <1>0, <1>4
<1>7. Good(n, S \cup {[job |-> j, ticket |-> p.armed[j].ticket]}, {}, X)
  BY <1>3, <1>4, <1>5, <1>6, LostTimerGood
<1>8. DOMAIN n.armed = DOMAIN p.armed \ {j}
  BY <1>4, DropDomain
<1>9. Fewer(n, p) /\ DOMAIN n.armed \subseteq DOMAIN p.armed
  BY <1>4, <1>8 DEF Fewer
<1>10. Onward(n, p, {})
  BY <1>0, <1>4, <1>5, <1>9, FateOnward
<1>. QED  BY <1>0, <1>4, <1>7, <1>8, <1>10 DEF t

\* The registry when the task of job j was cancelled behind the scheduler's back.
Lost(n, p, j) == n = Settle(CancelTask(p, j), p.armed[j].ticket, "cancelled")

LEMMA LostEffect ==
  ASSUME NEW p, NEW S, NEW X, Good(p, S, {}, X), NEW j \in DOMAIN p.active, j \in DOMAIN p.armed,
         NEW n, Lost(n, p, j)
  PROVE  /\ Good(n, S \cup {[job |-> j, ticket |-> p.armed[j].ticket]}, {}, X)
         /\ n.active = p.active /\ n.delayed = p.delayed /\ n.on = p.on
         /\ n.sources = p.sources /\ n.next = p.next
         /\ n.fate = [p.fate EXCEPT ![p.armed[j].ticket] = "cancelled"]
         /\ Onward(n, p, {})
<1>. DEFINE t == p.armed[j].ticket
            c == CancelTask(p, j)
<1>0. /\ Sound(p) /\ IsRegistry(p) /\ t \in DOMAIN p.fate /\ Maps(p.fate, t, "pending")
  BY ActiveWaits
<1>1. n = Settle(c, t, "cancelled")
  BY DEF Lost
<1>2. Smaller(c, p)
  BY <1>0, CancelTaskSmaller
<1>3. /\ IsRegistry(c)
      /\ c.active = p.active /\ c.keyJob = p.keyJob
      /\ c.delayed = p.delayed /\ c.delayedKey = p.delayedKey
      /\ c.armed = Drop(p.armed, j) /\ c.sources = p.sources
      /\ c.on = p.on /\ c.fate = p.fate /\ c.next = p.next
  BY <1>0, CancelTaskFields
<1>. HIDE DEF c
<1>4. /\ IsRegistry(n)
      /\ n.active = c.active /\ n.keyJob = c.keyJob
      /\ n.delayed = c.delayed /\ n.delayedKey = c.delayedKey
      /\ n.armed = c.armed /\ n.sources = c.sources
      /\ n.on = c.on /\ n.next = c.next
      /\ n.fate = IF Maps(c.fate, t, "pending") THEN [c.fate EXCEPT ![t] = "cancelled"] ELSE c.fate
  <2>. HIDE DEF t
  <2>. QED  BY <1>1, <1>3, SettleFields
<1>5. Sound(n)
  BY <1>1, <1>2, SettleSmaller DEF Smaller, Fates, Withdrawn
<1>6. /\ n.active = p.active /\ n.delayed = p.delayed /\ n.sources = p.sources /\ n.on = p.on
      /\ n.next = p.next /\ n.armed = Drop(p.armed, j)
      /\ n.fate = [p.fate EXCEPT ![p.armed[j].ticket] = "cancelled"]
  BY <1>0, <1>3, <1>4
<1>7. "cancelled" \in Fates \ {"pending"} /\ "cancelled" \notin OutOfInterest
  BY DEF Fates, Withdrawn, OutOfInterest
<1>8. Good(n, S \cup {[job |-> j, ticket |-> p.armed[j].ticket]}, {}, X)
  BY <1>5, <1>6, <1>7, LostTimerGood
<1>9. Fewer(n, p) /\ DOMAIN n.armed \subseteq DOMAIN p.armed
  BY <1>6 DEF Fewer, Drop, Restrict
<1>10. Onward(n, p, {})
  BY <1>0, <1>6, <1>7, <1>9, FateOnward
<1>. QED  BY <1>6, <1>8, <1>10

LEMMA ReturnEffect ==
  ASSUME NEW p, NEW S, NEW X, Good(p, S, {}, X), NEW r \in S, NEW n, Returned(n, p, r.job, r.ticket)
  PROVE  /\ Good(n, S \ {r}, {}, X) /\ n.fate = [p.fate EXCEPT ![r.ticket] = "ran"]
         /\ Onward(n, p, {})
<1>. DEFINE j == r.job
            t == r.ticket
            c == PopJob(p, j)
<1>0. /\ Sound(p) /\ IsRegistry(p) /\ t \in DOMAIN p.fate
  BY DEF Good, Sound, QueueTyped, Ticketed
<1>1. n = [c EXCEPT !.fate[t] = "ran"]
  BY DEF Returned
<1>2. Smaller(c, p)
  BY <1>0, PopJobSmaller
<1>3. c.fate = p.fate
  BY <1>0, PopJobFate
<1>4. Fewer(c, p) /\ c.delayed = p.delayed /\ c.armed = p.armed /\ c.next = p.next
  <2>1. CASE j \in DOMAIN p.active
    <3>1. /\ IsRegistry(c)
          /\ c.active = Drop(p.active, j) /\ c.delayed = p.delayed
          /\ c.armed = p.armed /\ c.on = p.on /\ c.fate = p.fate /\ c.next = p.next
          /\ c.sources = Left(p, j)
      BY <1>0, <2>1, PopJobLeft
    <3>. HIDE DEF c
    <3>2. Fewer(c, p)
      BY <3>1, DropFewer
    <3>. QED  BY <3>1, <3>2
  <2>2. CASE j \notin DOMAIN p.active
    BY <2>2 DEF PopJob, Fewer
  <2>. QED  BY <2>1, <2>2
<1>5. IsRegistry(c)
  BY <1>2 DEF Smaller, Sound, QueueTyped
<1>6. n = [PopJob(p, r.job) EXCEPT !.fate[r.ticket] = "ran"]
  BY DEF Returned
<1>. HIDE DEF c
<1>7. Sound(n)
  <2>. HIDE DEF t
  <2>. QED  BY <1>0, <1>1, <1>2, SetFateSmaller DEF Smaller, Fates
<1>8. /\ n.active = c.active /\ n.delayed = c.delayed /\ n.armed = c.armed
      /\ n.sources = c.sources /\ n.on = c.on /\ n.next = c.next
      /\ n.fate = [c.fate EXCEPT ![t] = "ran"]
  <2>. HIDE DEF t
  <2>. QED  BY <1>1, <1>5, SetFateFields
<1>9. Good(n, S \ {r}, {}, X)
  BY <1>6, <1>7, FinishGood
<1>10. Fewer(n, p) /\ n.next = p.next /\ DOMAIN n.armed \subseteq DOMAIN p.armed /\ n.delayed = p.delayed
       /\ n.fate = [p.fate EXCEPT ![t] = "ran"]
  BY <1>3, <1>4, <1>8 DEF Fewer
<1>11. "ran" \notin OutOfInterest
  BY DEF OutOfInterest
<1>12. Onward(n, p, {})
  <2>. HIDE DEF t
  <2>. QED  BY <1>0, <1>10, <1>11, FateOnward
<1>. QED  BY <1>9, <1>10, <1>12

-----------------------------------------------------------------------------
(* The invariants *)

\* Sources nothing is known of: none, until the flag is toggled.
Unknown == IF toggles = 0 THEN {} ELSE AllSources

\* S are the jobs that lost their task, back to the first step.
HInv == \E S : Good(q, S, {}, Unknown) /\ Stand(q, S, running)

IsFlush(f) ==
  /\ f = [on |-> f.on, retries |-> f.retries, jobs |-> f.jobs, progressed |-> f.progressed]
  /\ f.on \in BOOLEAN /\ f.progressed \in BOOLEAN

\* What the flush has listed: parked jobs to retry and jobs to run stay that.
Listed(f, p) ==
  /\ f.retries \cup f.jobs \subseteq 1..(p.next - 1)
  /\ f.retries \cap DOMAIN p.active = {} /\ f.jobs \cap DOMAIN p.delayed = {}

FInv ==
  /\ IsFlush(flush) /\ Listed(flush, q)
  /\ due \subseteq Registered(q)
  /\ watched \subseteq Objects /\ toggles \in 0..MaxToggles
  /\ running # None => flush.on

\* The flush g is f with job j off its list.
Passed(g, f, j) == g = [f EXCEPT !.jobs = @ \ {j}]
Ran(g, f, j) == g = [f EXCEPT !.jobs = @ \ {j}, !.progressed = TRUE]
Retried(g, f, j, parked) == g = [f EXCEPT !.retries = @ \ {j}, !.progressed = @ \/ j \in parked]

LEMMA FlushPassed ==
  ASSUME NEW f, IsFlush(f), NEW j, NEW g, Passed(g, f, j)
  PROVE  /\ IsFlush(g) /\ g.on = f.on /\ g.retries = f.retries /\ g.jobs = f.jobs \ {j}
         /\ g.progressed = f.progressed
  BY DEF IsFlush, Passed

LEMMA FlushRan ==
  ASSUME NEW f, IsFlush(f), NEW j, NEW g, Ran(g, f, j)
  PROVE  /\ IsFlush(g) /\ g.on = f.on /\ g.retries = f.retries /\ g.jobs = f.jobs \ {j}
         /\ g.progressed
  BY DEF IsFlush, Ran

LEMMA FlushRetried ==
  ASSUME NEW f, IsFlush(f), NEW j, NEW D, NEW g, Retried(g, f, j, D)
  PROVE  /\ IsFlush(g) /\ g.on = f.on /\ g.retries = f.retries \ {j} /\ g.jobs = f.jobs
         /\ ~g.progressed => ~f.progressed /\ j \notin D
  BY DEF IsFlush, Retried

LEMMA ListedLater ==
  ASSUME NEW p, Sound(p), NEW n, Sound(n), Fresh(n, p), NEW f, Listed(f, p),
         NEW g, g.retries \subseteq f.retries, g.jobs \subseteq f.jobs
  PROVE  Listed(g, n)
<1>1. p.next \in Nat /\ n.next \in Nat /\ p.next <= n.next
  BY DEF Sound, QueueTyped, Fresh
<1>2. g.retries \cup g.jobs \subseteq 1..(n.next - 1)
  BY <1>1 DEF Listed
<1>3. ASSUME NEW j \in g.retries PROVE j \notin DOMAIN n.active
  BY <1>1 DEF Listed, Fresh
<1>4. ASSUME NEW j \in g.jobs PROVE j \notin DOMAIN n.delayed
  BY <1>1 DEF Listed, Fresh
<1>. QED  BY <1>2, <1>3, <1>4 DEF Listed

\* What a scan of the due jobs lists.
LEMMA ScanListed ==
  ASSUME NEW S, NEW X, Good(q, S, {}, X), due \subseteq Registered(q), NEW b \in BOOLEAN
  PROVE  /\ IsFlush(Scan(b)) /\ Listed(Scan(b), q) /\ Scan(b).on /\ Scan(b).progressed = b
         /\ Scan(b).retries \cup Scan(b).jobs = Flushable
<1>1. IsFlush(Scan(b)) /\ Scan(b).on /\ Scan(b).progressed = b
  BY DEF IsFlush, Scan
<1>2. Scan(b).retries = Flushable \cap DOMAIN q.delayed /\ Scan(b).jobs = Flushable \cap DOMAIN q.active
  BY DEF Scan
<1>3. DOMAIN q.active \cap DOMAIN q.delayed = {}
  BY Disjoint DEF Good
<1>4. Scan(b).retries \cup Scan(b).jobs = Flushable
  BY <1>2 DEF Flushable, Registered
<1>5. Flushable \subseteq 1..(q.next - 1)
  BY DEF Flushable, Good, Sound, QueueTyped, IdsBelow
<1>. HIDE DEF Scan
<1>6. Listed(Scan(b), q)
  BY <1>2, <1>3, <1>4, <1>5 DEF Listed
<1>. QED  BY <1>1, <1>4, <1>6

LEMMA FirstRetry ==
  ASSUME FInv, Sound(q), flush.retries # {}
  PROVE  Min(flush.retries) \in flush.retries
<1>1. flush.retries \subseteq Nat
  BY DEF FInv, Listed, Sound, QueueTyped
<1>2. \E x \in flush.retries : \A y \in flush.retries : x <= y
  BY <1>1, Oldest
<1>. QED  BY <1>2 DEF Min

-----------------------------------------------------------------------------
(* One step *)

\* A step that goes through the scheduler.
LEMMA MoveStep ==
  ASSUME NEW S, Good(q, S, {}, Unknown), Stand(q, S, running), Good(q', S, {}, Unknown),
         Move(q', q), running' = running, toggles' = toggles
  PROVE  HInv'
<1>1. Sound(q) /\ Stand(q, S, running)
  BY DEF Good
<1>2. Stand(q', S, running)
  BY <1>1, MoveStand
<1>3. Unknown' = Unknown
  BY DEF Unknown
<1>. QED  BY <1>2, <1>3 DEF HInv

\* A step that leaves the registry alone.
LEMMA QuietHarness ==
  ASSUME HInv, q' = q, running' = running, toggles' = toggles
  PROVE  HInv'
  BY DEF HInv, Unknown

\* A step after which the flush has less left to do.
LEMMA FlushStep ==
  ASSUME FInv, Sound(q), Sound(q'), Fresh(q', q), due' \subseteq Registered(q'),
         watched' \subseteq Objects, toggles' \in 0..MaxToggles,
         IsFlush(flush'), flush'.retries \subseteq flush.retries, flush'.jobs \subseteq flush.jobs,
         running' # None => flush'.on
  PROVE  FInv'
<1>1. Listed(flush', q')
  BY ListedLater DEF FInv
<1>. QED  BY <1>1 DEF FInv, Registered

LEMMA SubmitRoutine ==
  ASSUME NEW p, NEW S, NEW X, Good(p, S, {}, X), NEW r \in Requests, p.next <= MaxId
  PROVE  LET n == Schedule(p, [r EXCEPT !.ticket = p.next])
         IN  Good(n, S, {}, X) /\ Move(n, p) /\ Onward(n, p, {<<0, FALSE>>})
<1>. DEFINE s == [r EXCEPT !.ticket = p.next]
            n == Schedule(p, s)
<1>1. Sound(p) /\ Ticketed(p, S, {}) /\ p.next \in Nat \ {0}
  BY DEF Good, Sound, QueueTyped
<1>2. Fits(p, s) /\ s.ticket = p.next /\ s.key \in Keys \cup {None} /\ Trait(s) = <<0, FALSE>>
  BY <1>1, RequestsAssumption, HarnessAssumption DEF Fits, Request, Trait
<1>3. p.next \notin DOMAIN p.fate
  BY <1>1, NextIsNew
<1>4. Ticketed(p, S, {p.next})
  BY <1>1, <1>3 DEF Ticketed, Maps
<1>. HIDE DEF s
<1>5. Good(p, S, {s.ticket}, X)
  BY <1>2, <1>4 DEF Good
<1>6. Good(n, S, {}, X)
  BY <1>2, <1>5, ScheduleGood
<1>7. Outcome(n, p, s.ticket, s.key)
  BY <1>2, <1>5, ScheduleOutcome
<1>8. Onward(n, p, {Trait(s)})
  BY <1>1, <1>2, ScheduleOnward
<1>. QED  BY <1>2, <1>6, <1>7, <1>8 DEF Move, s

LEMMA CancelRoutine ==
  ASSUME NEW p, NEW S, NEW X, Good(p, S, {}, X), NEW k
  PROVE  Routine(Cancel(p, k, "cancelled"), p, S, X)
<1>1. "cancelled" \in Withdrawn /\ "cancelled" \in Fates \ {"pending"} /\ "cancelled" \notin OutOfInterest
  BY DEF Withdrawn, Fates, OutOfInterest
<1>2. Sound(p)
  BY DEF Good
<1>. QED  BY <1>1, <1>2, CancelGood, CancelReleased, CancelOnward DEF Routine, Move

LEMMA RescheduleRoutine ==
  ASSUME NEW p, NEW S, NEW X, Good(p, S, {}, X), NEW k \in Keys, p.next <= MaxId
  PROVE  Routine(Reschedule(p, k), p, S, X)
<1>2. Sound(p)
  BY DEF Good
<1>. QED  BY <1>2, RescheduleGood, RescheduleOutcome, RescheduleOnward DEF Routine, Move

\* No request defers or has positional arguments.
Plainly == {<<0, FALSE>>}

LEMMA RoutineStep ==
  ASSUME HInv, FInv, NEW S, Good(q, S, {}, Unknown), Stand(q, S, running),
         Good(q', S, {}, Unknown), Move(q', q), Onward(q', q, Plainly), running' = running, toggles' = toggles,
         watched' = watched, due' \subseteq Registered(q'),
         IsFlush(flush'), flush'.retries \subseteq flush.retries, flush'.jobs \subseteq flush.jobs,
         running' # None => flush'.on
  PROVE  HInv' /\ FInv' /\ Onward(q', q, Plainly)
<1>1. HInv'
  BY MoveStep
<1>2. Sound(q) /\ Sound(q') /\ Fresh(q', q)
  BY OnwardFresh DEF Good
<1>3. watched' \subseteq Objects /\ toggles' \in 0..MaxToggles
  BY DEF FInv
<1>4. FInv'
  BY <1>2, <1>3, FlushStep
<1>. QED  BY <1>1, <1>4

LEMMA CallerSteps ==
  ASSUME HInv, FInv,
         \/ \E r \in Requests : Submit(r)
         \/ \E k \in Keys : CancelKey(k) \/ RescheduleKey(k)
  PROVE  HInv' /\ FInv' /\ Onward(q', q, Plainly)
<1>1. PICK S : Good(q, S, {}, Unknown) /\ Stand(q, S, running)
  BY DEF HInv
<1>2. /\ running' = running /\ toggles' = toggles /\ watched' = watched /\ flush' = flush
      /\ due' \subseteq Registered(q')
  BY DEF Submit, CancelKey, RescheduleKey, DueAfterCall, Registered
<1>3. /\ IsFlush(flush') /\ flush'.retries \subseteq flush.retries /\ flush'.jobs \subseteq flush.jobs
      /\ running' # None => flush'.on
  BY <1>2 DEF FInv
<1>4. Good(q', S, {}, Unknown) /\ Move(q', q) /\ Onward(q', q, Plainly)
  <2>1. ASSUME NEW r \in Requests, Submit(r) PROVE Good(q', S, {}, Unknown) /\ Move(q', q) /\ Onward(q', q, Plainly)
    <3>1. q' = Schedule(q, [r EXCEPT !.ticket = q.next]) /\ q.next <= MaxId
      BY <2>1 DEF Submit
    <3>. QED  BY <1>1, <3>1, SubmitRoutine DEF Plainly
  <2>2. ASSUME NEW k \in Keys, CancelKey(k) PROVE Routine(q', q, S, Unknown)
    BY <1>1, <2>2, CancelRoutine DEF CancelKey
  <2>3. ASSUME NEW k \in Keys, RescheduleKey(k) PROVE Routine(q', q, S, Unknown)
    BY <1>1, <2>3, RescheduleRoutine DEF RescheduleKey
  <2>4. Routine(q', q, S, Unknown) => Good(q', S, {}, Unknown) /\ Move(q', q) /\ Onward(q', q, Plainly)
    BY OnwardMore DEF Routine
  <2>. QED  BY <2>1, <2>2, <2>3, <2>4
<1>. QED  BY <1>1, <1>2, <1>3, <1>4, RoutineStep

LEMMA LoseStep ==
  ASSUME HInv, FInv, NEW j \in DOMAIN q.armed, CancelTaskOf(j)
  PROVE  HInv' /\ FInv' /\ Onward(q', q, Plainly)
<1>1. PICK S : Good(q, S, {}, Unknown) /\ Stand(q, S, running)
  BY DEF HInv
<1>. DEFINE t == q.armed[j].ticket
            T == S \cup {[job |-> j, ticket |-> t]}
<1>2. /\ j \in DOMAIN q.active /\ Lost(q', q, j)
      /\ running' = running /\ toggles' = toggles /\ watched' = watched /\ flush' = flush /\ due' = due
  BY DEF CancelTaskOf, Lost
<1>3. /\ Good(q', T, {}, Unknown)
      /\ q'.active = q.active /\ q'.delayed = q.delayed /\ q'.on = q.on
      /\ q'.sources = q.sources /\ q'.next = q.next
      /\ q'.fate = [q.fate EXCEPT ![q.armed[j].ticket] = "cancelled"]
      /\ Onward(q', q, {})
  BY <1>1, <1>2, LostEffect
<1>4. q'.fate = [q.fate EXCEPT ![t] = "cancelled"]
  BY <1>3
<1>5. Stand(q', T, running)
  BY <1>1, <1>4, LostStand
<1>6. HInv'
  <2>1. Unknown' = Unknown
    BY <1>2 DEF Unknown
  <2>. HIDE DEF T
  <2>. QED  BY <1>2, <1>3, <1>5, <2>1 DEF HInv
<1>7. Onward(q', q, Plainly)
  BY <1>3, OnwardMore
<1>8. Sound(q) /\ Sound(q') /\ Fresh(q', q)
  BY <1>1, <1>3, OnwardFresh DEF Good
<1>9. due' \subseteq Registered(q')
  BY <1>2, <1>3 DEF FInv, Registered
<1>10. FInv'
  BY <1>2, <1>8, <1>9, FlushStep DEF FInv
<1>. QED  BY <1>6, <1>7, <1>10

LEMMA ToggleStep ==
  ASSUME HInv, FInv, Toggle
  PROVE  HInv' /\ FInv' /\ Onward(q', q, Plainly)
<1>1. PICK S : Good(q, S, {}, Unknown) /\ Stand(q, S, running)
  BY DEF HInv
<1>2. /\ q' = [q EXCEPT !.on = ~@] /\ toggles' = toggles + 1 /\ toggles' \in 0..MaxToggles
      /\ running' = running /\ due' = due /\ flush' = flush /\ watched' = watched
  BY HarnessAssumption DEF Toggle, FInv
<1>3. Good(q', S, {}, AllSources)
  BY <1>1, <1>2, ToggleGood
<1>4. Unknown' = AllSources
  BY <1>2 DEF Unknown, FInv
<1>5. IsRegistry(q)
  BY <1>1 DEF Good, Sound, QueueTyped
<1>6. /\ q'.active = q.active /\ q'.delayed = q.delayed /\ q'.armed = q.armed
      /\ q'.fate = q.fate /\ q'.next = q.next
  BY <1>2, <1>5 DEF IsRegistry
<1>7. Stand(q', S, running)
  BY <1>1, <1>6 DEF Stand, Running
<1>8. Sound(q) /\ Sound(q') /\ q.next \in Nat
  BY <1>1, <1>3 DEF Good, Sound, QueueTyped
<1>9. Onward(q', q, Plainly)
  BY <1>6, <1>8 DEF Onward, Ends, Traits
<1>10. HInv'
  BY <1>2, <1>3, <1>4, <1>7 DEF HInv
<1>11. Fresh(q', q) /\ due' \subseteq Registered(q')
  BY <1>2, <1>6, <1>9, OnwardFresh DEF Registered, FInv
<1>12. FInv'
  BY <1>2, <1>8, <1>11, FlushStep DEF FInv
<1>. QED  BY <1>9, <1>10, <1>12

\* Steps of the world and of flush_due() between jobs.
LEMMA IdleSteps ==
  ASSUME HInv, FInv,
         \/ \E j \in Registered(q) : Elapse(j)
         \/ \E x \in Objects : Watch(x)
         \/ FlushBegin \/ DrainEnd
         \/ UNCHANGED vars
  PROVE  HInv' /\ FInv' /\ q' = q /\ running' = running /\ Onward(q', q, Plainly)
<1>1. PICK S : Good(q, S, {}, Unknown) /\ Stand(q, S, running)
  BY DEF HInv
<1>2. q' = q /\ running' = running /\ toggles' = toggles
  BY DEF Elapse, Watch, FlushBegin, DrainEnd, vars
<1>3. HInv'
  BY <1>2, QuietHarness
<1>4. Sound(q) /\ q.next \in Nat
  BY <1>1 DEF Good, Sound, QueueTyped
<1>5. Onward(q', q, Plainly)
  BY <1>2, <1>4 DEF Onward
<1>6. due' \subseteq Registered(q) /\ watched' \subseteq Objects
  BY DEF Elapse, Watch, FlushBegin, DrainEnd, vars, FInv
<1>7. IsFlush(flush') /\ Listed(flush', q) /\ (running # None => flush'.on)
  <2>1. CASE flush' = flush
    BY <2>1 DEF FInv
  <2>2. CASE \E b \in BOOLEAN : flush' = Scan(b)
    BY <1>1, <2>2, ScanListed DEF FInv
  <2>3. CASE flush' = NoFlush /\ running = None
    <3>1. IsFlush(NoFlush) /\ NoFlush.retries = {} /\ NoFlush.jobs = {}
      BY DEF IsFlush, NoFlush
    <3>. QED  BY <2>3, <3>1 DEF Listed
  <2>4. flush' = flush \/ (\E b \in BOOLEAN : flush' = Scan(b)) \/ (flush' = NoFlush /\ running = None)
    BY DEF Elapse, Watch, FlushBegin, DrainEnd, vars
  <2>. QED  BY <2>1, <2>2, <2>3, <2>4
<1>8. FInv'
  <2>1. Registered(q) = Registered(q')
    BY <1>2
  <2>. QED  BY <1>2, <1>6, <1>7, <2>1 DEF FInv
<1>. QED  BY <1>2, <1>3, <1>5, <1>8

LEMMA RetryStep ==
  ASSUME HInv, FInv, DrainRetry
  PROVE  HInv' /\ FInv' /\ Onward(q', q, Plainly)
<1>1. PICK S : Good(q, S, {}, Unknown) /\ Stand(q, S, running)
  BY DEF HInv
<1>. DEFINE j == Min(flush.retries)
            D == DOMAIN q.delayed
<1>2. /\ flush.retries # {} /\ q' = RetryDelayed(CancelTask(q, j), j) /\ due' \subseteq Registered(q')
      /\ running' = running /\ toggles' = toggles /\ watched' = watched
      /\ Retried(flush', flush, j, D)
  BY DEF DrainRetry, Retried
<1>3. j \in flush.retries
  BY <1>1, <1>2, FirstRetry DEF Good
<1>4. j \notin DOMAIN q.active
  BY <1>3 DEF FInv, Listed
<1>. HIDE DEF j, D
<1>5. Routine(q', q, S, Unknown)
  BY <1>1, <1>2, <1>4, RetryRoutine
<1>6. /\ IsFlush(flush') /\ flush'.on = flush.on /\ flush'.retries = flush.retries \ {j}
      /\ flush'.jobs = flush.jobs
  <2>1. IsFlush(flush) /\ Retried(flush', flush, j, D)
    BY <1>2, <1>4 DEF FInv
  <2>2. /\ IsFlush(flush') /\ flush'.on = flush.on /\ flush'.retries = flush.retries \ {j}
        /\ flush'.jobs = flush.jobs /\ (~flush'.progressed => ~flush.progressed /\ j \notin D)
    BY <2>1, FlushRetried
  <2>. QED  BY <2>2
<1>7. Onward(q', q, Plainly) /\ Good(q', S, {}, Unknown) /\ Move(q', q)
  BY <1>5, OnwardMore DEF Routine
<1>8. flush'.retries \subseteq flush.retries /\ flush'.jobs \subseteq flush.jobs /\ (running' # None => flush'.on)
  BY <1>2, <1>6 DEF FInv
<1>. QED  BY <1>1, <1>2, <1>6, <1>7, <1>8, RoutineStep

LEMMA GoneStep ==
  ASSUME HInv, FInv, NEW j \in flush.jobs, DrainGone(j)
  PROVE  HInv' /\ FInv' /\ Onward(q', q, Plainly)
<1>1. PICK S : Good(q, S, {}, Unknown) /\ Stand(q, S, running)
  BY DEF HInv
<1>2. /\ j \notin DOMAIN q.active \/ j \notin DOMAIN q.armed
      /\ q' = PopJob(q, j) /\ due' \subseteq Registered(q')
      /\ running' = running /\ toggles' = toggles /\ watched' = watched
      /\ Passed(flush', flush, j)
  BY DEF DrainGone, Passed
<1>5. Routine(q', q, S, Unknown)
  BY <1>1, <1>2, PopGoneRoutine
<1>6. /\ IsFlush(flush') /\ flush'.retries = flush.retries /\ flush'.jobs = flush.jobs \ {j}
      /\ flush'.on = flush.on
  BY <1>2, FlushPassed DEF FInv
<1>7. Onward(q', q, Plainly) /\ Good(q', S, {}, Unknown) /\ Move(q', q)
  BY <1>5, OnwardMore DEF Routine
<1>8. flush'.retries \subseteq flush.retries /\ flush'.jobs \subseteq flush.jobs /\ (running' # None => flush'.on)
  BY <1>2, <1>6 DEF FInv
<1>. QED  BY <1>1, <1>2, <1>6, <1>7, <1>8, RoutineStep

LEMMA InactiveStep ==
  ASSUME HInv, FInv, NEW j \in flush.jobs, DrainInactive(j)
  PROVE  HInv' /\ FInv' /\ Fresh(q', q) /\ j \notin DOMAIN q'.armed
<1>1. PICK S : Good(q, S, {}, Unknown) /\ Stand(q, S, running)
  BY DEF HInv
<1>2. /\ j \in DOMAIN q.active /\ j \in DOMAIN q.armed
      /\ q' = Defer(q, j) \/ q' = Skip(q, j)
      /\ due' \subseteq Registered(q')
      /\ running' = running /\ toggles' = toggles /\ watched' = watched
      /\ Passed(flush', flush, j)
  BY DEF DrainInactive, Passed
<1>3. Good(q', S, {}, Unknown) /\ Move(q', q) /\ Fresh(q', q) /\ j \notin DOMAIN q'.armed
  BY <1>1, <1>2, DeferEffect, SkipEffect
<1>4. HInv'
  BY <1>1, <1>2, <1>3, MoveStep
<1>5. /\ IsFlush(flush') /\ flush'.retries = flush.retries /\ flush'.jobs = flush.jobs \ {j}
      /\ flush'.on = flush.on
  BY <1>2, FlushPassed DEF FInv
<1>6. FInv'
  <2>1. Sound(q) /\ Sound(q')
    BY <1>1, <1>3 DEF Good
  <2>2. /\ flush'.retries \subseteq flush.retries /\ flush'.jobs \subseteq flush.jobs
        /\ running' # None => flush'.on
        /\ watched' \subseteq Objects /\ toggles' \in 0..MaxToggles
    BY <1>2, <1>5 DEF FInv
  <2>. QED  BY <1>2, <1>3, <1>5, <2>1, <2>2, FlushStep
<1>. QED  BY <1>3, <1>4, <1>6

LEMMA RunStep ==
  ASSUME HInv, FInv, NEW j \in flush.jobs, DrainRun(j)
  PROVE  HInv' /\ FInv' /\ Onward(q', q, Plainly)
<1>1. PICK S : Good(q, S, {}, Unknown) /\ Stand(q, S, running)
  BY DEF HInv
<1>. DEFINE t == q.active[j].ticket
            r == [job |-> j, ticket |-> t]
<1>2. /\ j \in DOMAIN q.active /\ j \in DOMAIN q.armed
      /\ Begun(q', q, j, t) /\ flush.on /\ running = None
      /\ running' = r /\ due' = due /\ toggles' = toggles /\ watched' = watched
      /\ Ran(flush', flush, j)
  BY DEF DrainRun, Begun, NextJob, Ran
<1>3. /\ Good(q', S \cup {[job |-> j, ticket |-> q.active[j].ticket]}, {}, Unknown)
      /\ q'.active = q.active /\ q'.delayed = q.delayed /\ q'.on = q.on
      /\ q'.sources = q.sources /\ q'.next = q.next
      /\ q'.fate = [q.fate EXCEPT ![q.active[j].ticket] = "running"]
      /\ DOMAIN q'.armed = DOMAIN q.armed \ {j}
      /\ Onward(q', q, {})
  BY <1>1, <1>2, StartEffect
<1>4. t = q.armed[j].ticket /\ Sound(q)
  BY <1>1, <1>2, ActiveWaits
<1>5. q'.fate = [q.fate EXCEPT ![t] = "running"]
  BY <1>3
<1>. HIDE DEF t
<1>6. Stand(q', S \cup {[job |-> j, ticket |-> t]}, r)
  BY <1>1, <1>2, <1>4, <1>5, LostStand
<1>7. HInv'
  <2>1. Unknown' = Unknown
    BY <1>2 DEF Unknown
  <2>2. Good(q', S \cup {r}, {}, Unknown) /\ Stand(q', S \cup {r}, r)
    BY <1>3, <1>6 DEF t
  <2>. HIDE DEF r
  <2>. QED  BY <1>2, <2>1, <2>2 DEF HInv
<1>8. Onward(q', q, Plainly)
  BY <1>3, OnwardMore
<1>9. Sound(q') /\ Fresh(q', q)
  BY <1>3, OnwardFresh DEF Good
<1>10. /\ IsFlush(flush') /\ flush'.on = flush.on
       /\ flush'.retries \subseteq flush.retries /\ flush'.jobs \subseteq flush.jobs
  <2>1. IsFlush(flush) /\ Ran(flush', flush, j)
    BY <1>2 DEF FInv
  <2>2. /\ IsFlush(flush') /\ flush'.on = flush.on /\ flush'.retries = flush.retries
        /\ flush'.jobs = flush.jobs \ {j}
    BY <2>1, FlushRan
  <2>. QED  BY <2>2
<1>11. due' \subseteq Registered(q') /\ watched' \subseteq Objects /\ toggles' \in 0..MaxToggles
  BY <1>2, <1>3 DEF FInv, Registered
<1>12. FInv'
  BY <1>2, <1>4, <1>9, <1>10, <1>11, FlushStep
<1>. QED  BY <1>7, <1>8, <1>12

LEMMA ReturnStep ==
  ASSUME HInv, FInv, Finish \/ Raise
  PROVE  HInv' /\ FInv' /\ Onward(q', q, Plainly)
<1>1. PICK S : Good(q, S, {}, Unknown) /\ Stand(q, S, running)
  BY DEF HInv
<1>2. /\ Returned(q', q, running.job, running.ticket) /\ running # None /\ running' = None
      /\ due' \subseteq Registered(q') /\ toggles' = toggles /\ watched' = watched
      /\ flush' = flush \/ flush' = NoFlush
  BY DEF Finish, Raise, PopRunning, Returned
<1>3. running \in S
  BY <1>1, <1>2 DEF Stand
<1>4. /\ Good(q', S \ {running}, {}, Unknown) /\ q'.fate = [q.fate EXCEPT ![running.ticket] = "ran"]
      /\ Onward(q', q, {})
  BY <1>1, <1>2, <1>3, ReturnEffect
<1>5. Stand(q', S \ {running}, None)
  BY <1>1, <1>2, <1>4, ReturnStand
<1>6. HInv'
  <2>1. Unknown' = Unknown
    BY <1>2 DEF Unknown
  <2>. QED  BY <1>2, <1>4, <1>5, <2>1 DEF HInv
<1>7. Onward(q', q, Plainly)
  BY <1>4, OnwardMore
<1>8. Sound(q) /\ Sound(q') /\ Fresh(q', q)
  BY <1>1, <1>4, OnwardFresh DEF Good
<1>9. IsFlush(flush') /\ flush'.retries \subseteq flush.retries /\ flush'.jobs \subseteq flush.jobs
  <2>1. IsFlush(NoFlush) /\ NoFlush.retries = {} /\ NoFlush.jobs = {}
    BY DEF IsFlush, NoFlush
  <2>. QED  BY <1>2, <2>1 DEF FInv
<1>10. FInv'
  BY <1>2, <1>8, <1>9, FlushStep DEF FInv
<1>. QED  BY <1>6, <1>7, <1>10

\* No step but that of an inactive job's turn skips, drops or defers anything.
LEMMA HarnessStep ==
  ASSUME HInv, FInv, [Next]_vars
  PROVE  /\ HInv' /\ FInv'
         /\ Onward(q', q, Plainly) \/ \E j \in flush.jobs : DrainInactive(j)
<1>1. CASE \/ \E r \in Requests : Submit(r)
           \/ \E k \in Keys : CancelKey(k) \/ RescheduleKey(k)
  BY <1>1, CallerSteps
<1>2. CASE \E j \in DOMAIN q.armed : CancelTaskOf(j)
  BY <1>2, LoseStep
<1>3. CASE Toggle
  BY <1>3, ToggleStep
<1>4. CASE \/ \E j \in Registered(q) : Elapse(j)
           \/ \E x \in Objects : Watch(x)
           \/ FlushBegin \/ DrainEnd
           \/ UNCHANGED vars
  BY <1>4, IdleSteps
<1>5. CASE DrainRetry
  BY <1>5, RetryStep
<1>6. ASSUME NEW j \in flush.jobs, DrainGone(j) \/ DrainRun(j)
      PROVE  HInv' /\ FInv' /\ Onward(q', q, Plainly)
  BY <1>6, GoneStep, RunStep
<1>7. ASSUME NEW j \in flush.jobs, DrainInactive(j) PROVE HInv' /\ FInv'
  BY <1>7, InactiveStep
<1>8. CASE Finish \/ Raise
  BY <1>8, ReturnStep
<1>. QED  BY <1>1, <1>2, <1>3, <1>4, <1>5, <1>6, <1>7, <1>8 DEF Next

LEMMA HarnessInit == Init => HInv /\ FInv
<1>. SUFFICES ASSUME Init PROVE HInv /\ FInv
  OBVIOUS
<1>1. PICK on \in BOOLEAN : q = [EmptyQueue EXCEPT !.on = on]
  BY DEF Init
<1>2. /\ q.active = <<>> /\ q.delayed = <<>> /\ q.armed = <<>> /\ q.fate = <<>>
      /\ q.keyJob = <<>> /\ q.delayedKey = <<>> /\ q.next = 1 /\ q.on = on
      /\ q.sources = {} /\ running = None /\ IsRegistry(q)
  BY <1>1 DEF EmptyQueue, Init, IsRegistry
<1>3. DOMAIN <<>> = {}
  OBVIOUS
<1>4. QueueTyped(q)
  BY <1>2, <1>3 DEF QueueTyped, IdsBelow, RecordsTyped, TasksTyped, SourcesTyped
<1>5. KeysIndexed(q)
  BY <1>2, <1>3 DEF KeysIndexed
<1>6. Timed(q, JobsOf({})) /\ Sourced(q, Unknown) /\ Ticketed(q, {}, {}) /\ Stand(q, {}, running)
  BY <1>2, <1>3 DEF Timed, Sourced, Ticketed, JobsOf, Stand, Running
<1>7. HInv
  BY <1>4, <1>5, <1>6 DEF HInv, Good, Sound
<1>8. IsFlush(NoFlush) /\ NoFlush.retries = {} /\ NoFlush.jobs = {}
  BY DEF IsFlush, NoFlush
<1>9. FInv
  BY <1>2, <1>3, <1>8, HarnessAssumption DEF FInv, Init, Listed
<1>. QED  BY <1>7, <1>9

LEMMA HarnessNext == HInv /\ FInv /\ [Next]_vars => HInv' /\ FInv'
  BY HarnessStep

\* Whatever runs in the middle of a flush, what the flush has listed stays what it
\* was, its ids are not used again, and no job that is gone stays due.
THEOREM HarnessTypeCorrect == Spec => []TypeOK
<1>1. ASSUME HInv, FInv PROVE TypeOK
  <2>1. QueueTyped(q)
    BY <1>1 DEF HInv, Good, Sound
  <2>. QED  BY <1>1, <2>1 DEF FInv, IsFlush, Listed, TypeOK
<1>2. HInv /\ FInv => TypeOK
  BY <1>1
<1>. QED  BY <1>2, HarnessInit, HarnessNext, PTL DEF Spec

\* With flushes instead of timers, exceptions, deferrals and tasks cancelled behind
\* the scheduler's back, exactly the registered jobs whose call waits have a task.
THEOREM HarnessTasksCorrect == Spec => []TasksMatchJobs
<1>1. ASSUME HInv PROVE TasksMatchJobs
  <2>1. PICK S : Good(q, S, {}, Unknown) /\ Stand(q, S, running)
    BY <1>1 DEF HInv
  <2>2. Timed(q, JobsOf(S)) /\ Ticketed(q, S, {}) /\ Sound(q)
    BY <2>1 DEF Good
  <2>3. DOMAIN q.armed \subseteq Registered(q)
    BY <2>2 DEF Timed, Registered
  <2>4. \A j \in DOMAIN q.armed : q.fate[JobTicket(q, j)] = "pending"
    BY <2>2 DEF Ticketed, Maps
  <2>5. ASSUME NEW j \in Registered(q), j \notin DOMAIN q.armed PROVE q.fate[JobTicket(q, j)] # "pending"
    <3>1. j \in DOMAIN q.active \ DOMAIN q.armed
      BY <2>2, <2>5 DEF Timed, Registered
    <3>2. [job |-> j, ticket |-> q.active[j].ticket] \in S
      BY <2>2, <3>1 DEF Ticketed
    <3>3. q.fate[q.active[j].ticket] # "pending"
      BY <2>2, <3>2 DEF Ticketed
    <3>. QED  BY <3>1, <3>3 DEF JobTicket
  <2>6. DOMAIN q.armed = {j \in Registered(q) : q.fate[JobTicket(q, j)] = "pending"}
    BY <2>3, <2>4, <2>5
  <2>7. \A j \in Registered(q) :
          (IF j \in DOMAIN q.active THEN q.active[j] ELSE q.delayed[j]).ticket = JobTicket(q, j)
    BY DEF JobTicket
  <2>. QED  BY <2>6, <2>7 DEF TasksMatchJobs
<1>2. HInv => TasksMatchJobs
  BY <1>1
<1>. QED  BY <1>2, HarnessInit, HarnessNext, PTL DEF Spec

-----------------------------------------------------------------------------
(* The inactive policy *)

\* Until the flag is toggled no job was ever deferred.
NInv ==
  toggles = 0 => Traits(q) \subseteq Plainly /\ \A f \in OutOfInterest : Ends(q, f) = {}

\* As long as the sources are those of the queued jobs, no queued job's object is
\* inactive: the job's own source keeps it active.
LEMMA OwnSource ==
  ASSUME HInv, toggles = 0, NEW j \in DOMAIN q.active
  PROVE  IsActive(q.active[j])
<1>. DEFINE rec == q.active[j]
<1>1. PICK S : Good(q, S, {}, {})
  BY DEF HInv, Unknown
<1>2. ASSUME q.on, rec.obj # None PROVE \E s \in q.sources : s.obj = rec.obj
  <2>1. PICK i : SourcesOf(j, rec) = {[obj |-> rec.obj, id |-> i]}
    BY <1>2 DEF SourcesOf
  <2>2. [obj |-> rec.obj, id |-> i] \in SourcesOf(j, rec)
    BY <2>1
  <2>3. [obj |-> rec.obj, id |-> i] \in q.sources
    BY <1>1, <1>2, <2>2 DEF Good, Sourced
  <2>. QED  BY <2>3
<1>. QED  BY <1>2 DEF IsActive

LEMMA NextN == HInv /\ FInv /\ NInv /\ [Next]_vars => NInv'
<1>. SUFFICES ASSUME HInv, FInv, NInv, [Next]_vars, toggles' = 0
              PROVE  (Traits(q) \subseteq Plainly /\ \A f \in OutOfInterest : Ends(q, f) = {})'
  BY DEF NInv
<1>1. toggles = 0
  <2>1. toggles' = toggles \/ toggles' = toggles + 1
    BY DEF Next, vars, Submit, CancelKey, RescheduleKey, CancelTaskOf, Elapse, Toggle, Watch, FlushBegin,
           DrainRetry, DrainEnd, DrainGone, DrainInactive, DrainRun, Finish, Raise
  <2>. QED  BY <2>1 DEF FInv
<1>2. \A j \in flush.jobs : ~DrainInactive(j)
  BY <1>1, OwnSource DEF DrainInactive
<1>3. Onward(q', q, Plainly)
  BY <1>2, HarnessStep
<1>. QED  BY <1>1, <1>3 DEF NInv, Onward

\* As long as nobody toggles the flag, no job is ever skipped or deferred, whatever
\* other interest comes and goes.
THEOREM InactivePolicyCorrect == Spec => []InactivePolicyNeverFires
<1>1. NInv => InactivePolicyNeverFires
  <2>. SUFFICES ASSUME NInv, toggles = 0
                PROVE  /\ \A t \in DOMAIN q.fate : q.fate[t] \notin OutOfInterest
                       /\ \A j \in DOMAIN q.active : q.active[j].defers = 0
    BY DEF InactivePolicyNeverFires, OutOfInterest
  <2>1. ASSUME NEW t \in DOMAIN q.fate, q.fate[t] \in OutOfInterest PROVE FALSE
    BY <2>1 DEF NInv, Ends
  <2>2. ASSUME NEW j \in DOMAIN q.active PROVE q.active[j].defers = 0
    <3>1. Trait(q.active[j]) \in Traits(q)
      BY DEF Traits
    <3>2. Trait(q.active[j]) = <<0, FALSE>>
      BY <3>1 DEF NInv, Plainly
    <3>. QED  BY <3>2 DEF Trait
  <2>. QED  BY <2>1, <2>2
<1>2. Init => NInv
  <2>1. DOMAIN <<>> = {}
    OBVIOUS
  <2>. SUFFICES ASSUME Init PROVE NInv
    OBVIOUS
  <2>2. q.active = <<>> /\ q.delayed = <<>> /\ q.fate = <<>>
    BY DEF Init, EmptyQueue
  <2>. QED  BY <2>1, <2>2 DEF NInv, Traits, Ends
<1>. QED  BY <1>1, <1>2, HarnessInit, HarnessNext, NextN, PTL DEF Spec

-----------------------------------------------------------------------------
(* Nothing is left behind *)

\* While nothing of this pass has run, all that is due is on its list.
GInv ==
  flush.on /\ ~flush.progressed =>
    running = None /\ Flushable \subseteq flush.retries \cup flush.jobs

\* A new pass lists all that is due.
LEMMA ScanAll ==
  ASSUME HInv, FInv, flush'.on /\ ~flush'.progressed => flush' = Scan(FALSE),
         q' = q, due' = due, running' = None
  PROVE  GInv'
<1>1. PICK S : Good(q, S, {}, Unknown)
  BY DEF HInv
<1>2. Scan(FALSE).retries \cup Scan(FALSE).jobs = Flushable
  BY <1>1, ScanListed DEF FInv
<1>3. Flushable' = Flushable
  BY DEF Flushable
<1>. QED  BY <1>2, <1>3 DEF GInv

\* A job that is off the list is due no more.
LEMMA OffList ==
  ASSUME GInv, HInv, FInv, HInv', running = None, running' = None, NEW j, j \notin Flushable', Fresh(q', q),
         due' \subseteq due, flush'.on = flush.on, ~flush'.progressed => ~flush.progressed,
         flush.retries \cup flush.jobs \subseteq flush'.retries \cup flush'.jobs \cup {j}
  PROVE  GInv'
<1>. SUFFICES ASSUME flush'.on, ~flush'.progressed
              PROVE  running' = None /\ Flushable' \subseteq flush'.retries \cup flush'.jobs
  BY DEF GInv
<1>1. Flushable \subseteq flush.retries \cup flush.jobs
  BY DEF GInv
<1>2. ASSUME NEW i \in Flushable' PROVE i \in flush'.retries \cup flush'.jobs
  <2>1. i \in due' /\ i \in DOMAIN q'.armed /\ i # j
    BY DEF Flushable
  <2>2. i \in Registered(q) /\ i \in due
    BY <2>1 DEF FInv
  <2>3. i \in Nat /\ i < q.next /\ q.next \in Nat
    BY <2>2 DEF HInv, Good, Sound, QueueTyped, IdsBelow, Registered
  <2>4. i \in DOMAIN q.armed
    BY <2>1, <2>3 DEF Fresh
  <2>5. i \in flush.retries \cup flush.jobs
    BY <1>1, <2>2, <2>4 DEF Flushable
  <2>. QED  BY <2>1, <2>5
<1>. QED  BY <1>2

LEMMA NextG == HInv /\ FInv /\ GInv /\ [Next]_vars => GInv'
<1>. SUFFICES ASSUME HInv, FInv, GInv, [Next]_vars PROVE GInv'
  OBVIOUS
<1>0. HInv' /\ FInv'
  BY HarnessStep
<1>a. PICK S : Good(q, S, {}, Unknown) /\ Stand(q, S, running)
  BY DEF HInv
<1>1. ASSUME MayCall, flush' = flush, running' = running PROVE GInv'
  BY <1>1 DEF MayCall, GInv
<1>2. ASSUME NEW r \in Requests, Submit(r) PROVE GInv'
  BY <1>1, <1>2 DEF Submit
<1>3. ASSUME NEW k \in Keys, CancelKey(k) \/ RescheduleKey(k) PROVE GInv'
  BY <1>1, <1>3 DEF CancelKey, RescheduleKey
<1>4. ASSUME NEW j \in DOMAIN q.armed, CancelTaskOf(j) PROVE GInv'
  BY <1>1, <1>4 DEF CancelTaskOf
<1>5. CASE Toggle \/ \E x \in Objects : Watch(x)
  BY <1>1, <1>5 DEF Toggle, Watch
<1>6. ASSUME NEW j \in Registered(q), Elapse(j) PROVE GInv'
  BY <1>6 DEF Elapse, GInv
<1>7. CASE FlushBegin
  BY <1>7, ScanAll DEF FlushBegin, FInv
<1>8. CASE DrainEnd
  <2>1. NoFlush.on = FALSE
    BY DEF NoFlush
  <2>. QED  BY <1>8, <2>1, ScanAll DEF DrainEnd
<1>9. CASE DrainRetry
  <2>. DEFINE j == Min(flush.retries)
              D == DOMAIN q.delayed
  <2>1. /\ running = None /\ running' = None /\ flush.retries # {}
        /\ q' = RetryDelayed(CancelTask(q, j), j) /\ due' \subseteq due
        /\ Retried(flush', flush, j, D)
    BY <1>9 DEF DrainRetry, Retried
  <2>2. j \in flush.retries /\ j \notin DOMAIN q.active
    BY <1>a, <2>1, FirstRetry DEF Good, FInv, Listed
  <2>. HIDE DEF j, D
  <2>3. IsFlush(flush)
    BY DEF FInv
  <2>4. /\ IsFlush(flush') /\ flush'.on = flush.on /\ flush'.retries = flush.retries \ {j}
        /\ flush'.jobs = flush.jobs /\ (~flush'.progressed => ~flush.progressed /\ j \notin D)
    BY <2>1, <2>3, FlushRetried
  <2>5. CASE flush'.progressed
    BY <2>5 DEF GInv
  <2>6. CASE ~flush'.progressed
    <3>1. q' = CancelTask(q, j)
      <4>1. IsRegistry(q)
        BY <1>a DEF Good, Sound, QueueTyped
      <4>2. CancelTask(q, j).delayed = q.delayed
        BY <4>1 DEF CancelTask, IsRegistry
      <4>. QED  BY <2>1, <2>4, <2>6, <4>2 DEF RetryDelayed, D
    <3>2. j \notin DOMAIN q.armed
      BY <1>a, <2>2, <2>4, <2>6 DEF Good, Timed, D
    <3>3. Fresh(q', q) /\ j \notin DOMAIN q'.armed
      <4>1. Onward(q', q, {})
        BY <1>a, <3>1, CancelTaskOnward DEF Good
      <4>2. Fresh(q', q)
        BY <4>1, OnwardFresh
      <4>3. j \in Nat /\ q.next \in Nat /\ j < q.next
        BY <1>a, <2>2 DEF FInv, Listed, Good, Sound, QueueTyped
      <4>. QED  BY <3>2, <4>2, <4>3 DEF Fresh
    <3>4. j \notin Flushable'
      BY <3>3 DEF Flushable
    <3>5. flush.retries \cup flush.jobs \subseteq flush'.retries \cup flush'.jobs \cup {j}
      BY <2>4
    <3>. QED  BY <1>0, <2>1, <2>4, <3>3, <3>4, <3>5, OffList
  <2>. QED  BY <2>5, <2>6
<1>10. ASSUME NEW j \in flush.jobs, DrainGone(j) \/ DrainInactive(j) PROVE GInv'
  <2>1. /\ running = None /\ running' = None /\ due' \subseteq due
        /\ Passed(flush', flush, j)
    BY <1>10 DEF DrainGone, DrainInactive, NextJob, Passed
  <2>2. IsFlush(flush)
    BY DEF FInv
  <2>3. /\ IsFlush(flush') /\ flush'.on = flush.on /\ flush'.retries = flush.retries
        /\ flush'.jobs = flush.jobs \ {j} /\ flush'.progressed = flush.progressed
    BY <2>1, <2>2, FlushPassed
  <2>4. Fresh(q', q)
    BY <1>10, GoneStep, InactiveStep, OnwardFresh
  <2>5. j \notin Flushable'
    <3>1. CASE DrainInactive(j)
      BY <3>1, InactiveStep DEF Flushable
    <3>2. CASE DrainGone(j)
      <4>1. j \in Nat /\ q.next \in Nat /\ j < q.next /\ j \notin DOMAIN q.delayed
        BY <1>a DEF FInv, Listed, Good, Sound, QueueTyped
      <4>2. j \notin DOMAIN q.armed
        BY <1>a, <3>2, <4>1 DEF DrainGone, Good, Timed
      <4>3. j \notin DOMAIN q'.armed
        BY <2>4, <4>1, <4>2 DEF Fresh
      <4>. QED  BY <4>3 DEF Flushable
    <3>. QED  BY <1>10, <3>1, <3>2
  <2>6. flush.retries \cup flush.jobs \subseteq flush'.retries \cup flush'.jobs \cup {j}
    BY <2>3
  <2>. QED  BY <1>0, <2>1, <2>3, <2>4, <2>5, <2>6, OffList
<1>11. ASSUME NEW j \in flush.jobs, DrainRun(j) PROVE GInv'
  <2>1. IsFlush(flush) /\ Ran(flush', flush, j)
    BY <1>11 DEF FInv, DrainRun, Ran
  <2>2. /\ IsFlush(flush') /\ flush'.on = flush.on /\ flush'.retries = flush.retries
        /\ flush'.jobs = flush.jobs \ {j} /\ flush'.progressed
    BY <2>1, FlushRan
  <2>. QED  BY <2>2 DEF GInv
<1>12. CASE Finish
  BY <1>12 DEF Finish, GInv
<1>13. CASE Raise
  BY <1>13 DEF Raise, GInv, NoFlush
<1>14. CASE UNCHANGED vars
  BY <1>14 DEF vars, GInv, Flushable
<1>. QED
  BY <1>2, <1>3, <1>4, <1>5, <1>6, <1>7, <1>8, <1>9, <1>10, <1>11, <1>12, <1>13, <1>14 DEF Next

\* A flush that returns leaves no due job behind that could run.
THEOREM FlushCorrect == Spec => FlushServesDue
<1>1. ASSUME HInv, FInv, GInv, [Next]_vars, flush.on, ~flush'.on, running = None PROVE Flushable' = {}
  <2>1. DrainEnd
    <3>1. ASSUME NEW j \in flush.jobs, DrainGone(j) \/ DrainInactive(j) \/ DrainRun(j) PROVE flush'.on = flush.on
      <4>0. IsFlush(flush)
        BY <1>1 DEF FInv
      <4>1. Passed(flush', flush, j) \/ Ran(flush', flush, j)
        BY <3>1 DEF DrainGone, DrainInactive, DrainRun, Passed, Ran
      <4>2. ASSUME Passed(flush', flush, j) PROVE flush'.on = flush.on
        <5>1. /\ IsFlush(flush') /\ flush'.on = flush.on /\ flush'.retries = flush.retries
              /\ flush'.jobs = flush.jobs \ {j} /\ flush'.progressed = flush.progressed
          BY <4>0, <4>2, FlushPassed
        <5>. QED  BY <5>1
      <4>3. ASSUME Ran(flush', flush, j) PROVE flush'.on = flush.on
        <5>1. /\ IsFlush(flush') /\ flush'.on = flush.on /\ flush'.retries = flush.retries
              /\ flush'.jobs = flush.jobs \ {j} /\ flush'.progressed
          BY <4>0, <4>3, FlushRan
        <5>. QED  BY <5>1
      <4>. QED  BY <4>1, <4>2, <4>3
    <3>2. ASSUME DrainRetry PROVE flush'.on = flush.on
      <4>. DEFINE j == Min(flush.retries)
                  D == DOMAIN q.delayed
      <4>0. IsFlush(flush)
        BY <1>1 DEF FInv
      <4>1. Retried(flush', flush, j, D)
        BY <3>2 DEF DrainRetry, Retried
      <4>. HIDE DEF j, D
      <4>2. /\ IsFlush(flush') /\ flush'.on = flush.on /\ flush'.retries = flush.retries \ {j}
            /\ flush'.jobs = flush.jobs /\ (~flush'.progressed => ~flush.progressed /\ j \notin D)
        BY <4>0, <4>1, FlushRetried
      <4>. QED  BY <4>2
    <3>3. \/ flush' = flush \/ FlushBegin \/ DrainRetry \/ DrainEnd \/ Raise
          \/ \E j \in flush.jobs : DrainGone(j) \/ DrainInactive(j) \/ DrainRun(j)
      BY <1>1 DEF Next, vars, Submit, CancelKey, RescheduleKey, CancelTaskOf, Elapse, Toggle, Watch, Finish
    <3>. QED  BY <1>1, <3>1, <3>2, <3>3 DEF FlushBegin, Raise
  <2>2. flush' = NoFlush
    BY <1>1, <2>1 DEF DrainEnd, Scan
  <2>3. flush.retries = {} /\ flush.jobs = {} /\ Flushable' = Flushable
    BY <2>1 DEF DrainEnd, Flushable
  <2>4. ~(flush.progressed /\ Flushable # {})
    BY <1>1, <2>1 DEF DrainEnd, Scan
  <2>. QED  BY <1>1, <2>3, <2>4 DEF GInv
<1>2. HInv /\ FInv /\ GInv /\ [Next]_vars => [flush.on /\ ~flush'.on /\ running = None => Flushable' = {}]_vars
  BY <1>1
<1>3. Init => GInv
  BY DEF Init, GInv, NoFlush
<1>. QED  BY <1>2, <1>3, HarnessInit, HarnessNext, NextG, PTL DEF Spec, FlushServesDue

-----------------------------------------------------------------------------
(* The ledger *)

\* The call a key belongs to: none if its task was cancelled directly.
CallOf(p, k) == IF Maps(p.fate, Holder(p, k), "cancelled") THEN None ELSE Holder(p, k)

\* Of the calls that are over only a running one, or one that lost its task,
\* still has a job under its key.
Standing(p) == \A k \in Keys : Holder(p, k) \in Done(p) => p.fate[Holder(p, k)] \in {"running", "cancelled"}

LEMMA KeysStand ==
  ASSUME NEW p, NEW S, NEW X, Good(p, S, {}, X), NEW r, Stand(p, S, r)
  PROVE  Standing(p)
<1>. SUFFICES ASSUME NEW k \in Keys, Holder(p, k) \in Done(p)
              PROVE  p.fate[Holder(p, k)] \in {"running", "cancelled"}
  BY DEF Standing
<1>1. PICK j \in DOMAIN p.active :
        /\ p.active[j].key = k /\ p.active[j].ticket = Holder(p, k)
        /\ [job |-> j, ticket |-> Holder(p, k)] \in S
  BY DoneHolder
<1>2. PICK s \in S : s.ticket = Holder(p, k)
  BY <1>1
<1>. QED  BY <1>2 DEF Stand, Maps

LEMMA CallOfTyped ==
  ASSUME NEW p, Sound(p), DOMAIN p.fate \subseteq 1..MaxId
  PROVE  [k \in Keys |-> CallOf(p, k)] \in [Keys -> 1..MaxId \cup {None}]
  BY HolderTyped DEF CallOf

\* What callers see of calls withdrawn.
LEMMA ReleasedCalls ==
  ASSUME NEW p, Standing(p), DOMAIN p.fate \subseteq 1..MaxId, NEW n, NEW gone, Released(n, p, gone), NEW k \in Keys
  PROVE  \/ CallOf(n, k) = CallOf(p, k) /\ CallOf(p, k) \notin gone
         \/ CallOf(n, k) = None /\ CallOf(p, k) \in gone \cup Running(p)
<1>0. None \notin gone
  BY RequestsAssumption, IdAssumption DEF Released, Pending
<1>1. ASSUME Holder(n, k) = Holder(p, k), Holder(p, k) \notin gone
      PROVE  CallOf(n, k) = CallOf(p, k) /\ CallOf(p, k) \notin gone
  BY <1>0, <1>1 DEF Released, CallOf, Maps
<1>2. ASSUME Holder(n, k) = None, Holder(p, k) \in gone
      PROVE  CallOf(n, k) = None /\ CallOf(p, k) \in gone
  BY <1>2 DEF Released, Pending, CallOf, Maps
<1>3. ASSUME Holder(n, k) = None, Holder(p, k) \in Done(p)
      PROVE  \/ CallOf(n, k) = CallOf(p, k) /\ CallOf(p, k) \notin gone
             \/ CallOf(n, k) = None /\ CallOf(p, k) \in Running(p)
  <2>1. CallOf(n, k) = None
    BY <1>3 DEF CallOf
  <2>2. CASE p.fate[Holder(p, k)] = "running"
    BY <1>3, <2>1, <2>2 DEF CallOf, Maps, Running, Done
  <2>3. CASE p.fate[Holder(p, k)] = "cancelled"
    BY <1>0, <1>3, <2>1, <2>3 DEF CallOf, Maps, Done
  <2>. QED  BY <1>3, <2>2, <2>3 DEF Standing
<1>. QED  BY <1>1, <1>2, <1>3 DEF Released

LEMMA WithdrawCalls ==
  ASSUME Standing(q), DOMAIN q.fate \subseteq 1..MaxId, NEW gone, Released(q', q, gone), Sound(q')
  PROVE  Ledger!Withdraw /\ DOMAIN q'.fate \subseteq 1..MaxId
<1>1. gone \in SUBSET Ledger!Waiting
  BY DEF Ledger!Waiting, Released, Pending
<1>2. DOMAIN q'.fate = DOMAIN q.fate
  BY DEF Released
<1>3. Ledger!Withdraws(gone) /\ Ledger!Keeps(gone)
  BY <1>1 DEF Ledger!Withdraws, Ledger!Keeps, Released
<1>4. [k \in Keys |-> CallOf(q', k)] \in [Keys -> 1..MaxId \cup {None}]
  BY <1>2, CallOfTyped
<1>5. \A k \in Keys :
        \/ CallOf(q', k) = CallOf(q, k) /\ CallOf(q, k) \notin gone
        \/ CallOf(q', k) = None /\ CallOf(q, k) \in gone \cup Running(q)
  BY ReleasedCalls
<1>6. Ledger!Holders(Keys, gone)
  BY <1>5 DEF Ledger!Holders, Ledger!Started, Running, CallOf
<1>. QED  BY <1>1, <1>2, <1>3, <1>4, <1>6 DEF Ledger!Withdraw, CallOf

LEMMA AcceptCalls ==
  ASSUME Standing(q), DOMAIN q.fate \subseteq 1..MaxId,
         NEW t \in 1..MaxId, t \notin DOMAIN q.fate, NEW key \in Keys \cup {None},
         Outcome(q', q, t, key), Sound(q')
  PROVE  /\ Ledger!Accept(t, key) \/ Ledger!Withdraw
         /\ DOMAIN q'.fate \subseteq 1..MaxId
<1>1. PICK c, gone : /\ Released(c, q, gone) /\ t \notin gone
                     /\ Placed(q', c, t, key) \/ Ended(q', c, t)
  BY DEF Outcome
<1>2. DOMAIN c.fate = DOMAIN q.fate
  BY <1>1 DEF Released
<1>3. CASE Placed(q', c, t, key)
  <2>1. gone \in SUBSET Ledger!Waiting
    BY <1>1 DEF Ledger!Waiting, Released, Pending
  <2>2. DOMAIN q'.fate = DOMAIN q.fate \cup {t} /\ q'.fate[t] = "pending"
    BY <1>2, <1>3 DEF Placed
  <2>3. Ledger!Withdraws(gone) /\ Ledger!Keeps(gone)
    BY <1>1, <1>2, <1>3, <2>1 DEF Ledger!Withdraws, Ledger!Keeps, Released, Placed, Ledger!Waiting
  <2>4. [k \in Keys |-> CallOf(q', k)] \in [Keys -> 1..MaxId \cup {None}]
    BY <2>2, CallOfTyped
  <2>5. \A k \in Keys :
          \/ CallOf(c, k) = CallOf(q, k) /\ CallOf(q, k) \notin gone
          \/ CallOf(c, k) = None /\ CallOf(q, k) \in gone \cup Running(q)
    BY <1>1, ReleasedCalls
  <2>6. \A k \in Keys \ {key} : CallOf(q', k) = CallOf(c, k)
    BY <1>2, <1>3, <2>2 DEF Placed, CallOf, Maps
  <2>7. Ledger!Holders(Keys \ {key}, gone)
    BY <2>5, <2>6 DEF Ledger!Holders, Ledger!Started, Running, CallOf
  <2>8. ASSUME key \in Keys PROVE CallOf(q', key) = t /\ CallOf(q, key) \in gone \cup Running(q) \cup {None}
    <3>1. CallOf(c, key) = None /\ CallOf(q', key) = t
      BY <1>3, <2>2, <2>8 DEF Placed, CallOf, Maps
    <3>. QED  BY <2>5, <2>8, <3>1
  <2>9. key \in Keys => /\ [k \in Keys |-> CallOf(q', k)][key] = t
                        /\ [k \in Keys |-> CallOf(q, k)][key] \in gone \cup Ledger!Started \cup {None}
    BY <2>8 DEF Ledger!Started, Running
  <2>10. Ledger!Accept(t, key)
    BY <2>1, <2>2, <2>3, <2>4, <2>7, <2>9 DEF Ledger!Accept, CallOf
  <2>. QED  BY <2>2, <2>10
<1>4. CASE Ended(q', c, t)
  <2>1. Released(q', q, gone)
    BY <1>1, <1>4, EndedNew
  <2>. QED  BY <2>1, WithdrawCalls
<1>. QED  BY <1>1, <1>3, <1>4

\* A call whose task is cancelled directly is withdrawn, though its job stays.
LEMMA LoseCalls ==
  ASSUME NEW S, NEW X, Good(q, S, {}, X), DOMAIN q.fate \subseteq 1..MaxId,
         NEW j \in DOMAIN q.active, j \in DOMAIN q.armed, Lost(q', q, j)
  PROVE  Ledger!Withdraw /\ DOMAIN q'.fate \subseteq 1..MaxId
<1>. DEFINE t == q.armed[j].ticket
<1>1. /\ Good(q', S \cup {[job |-> j, ticket |-> q.armed[j].ticket]}, {}, X)
      /\ q'.active = q.active /\ q'.delayed = q.delayed /\ q'.on = q.on
      /\ q'.sources = q.sources /\ q'.next = q.next
      /\ q'.fate = [q.fate EXCEPT ![q.armed[j].ticket] = "cancelled"]
      /\ Onward(q', q, {})
  BY LostEffect
<1>2. Sound(q) /\ Sound(q') /\ t \in DOMAIN q.fate /\ q.fate[t] = "pending" /\ q'.fate = [q.fate EXCEPT ![t] = "cancelled"]
  BY <1>1, ActiveWaits DEF Good, Maps
<1>3. \A k \in Keys : Holder(q', k) = Holder(q, k)
  BY <1>1, <1>2, SameJobsHolder
<1>. HIDE DEF t
<1>4. {t} \in SUBSET Ledger!Waiting /\ DOMAIN q'.fate = DOMAIN q.fate /\ q'.fate[t] = "cancelled"
  BY <1>2 DEF Ledger!Waiting
<1>5. Ledger!Withdraws({t}) /\ Ledger!Keeps({t})
  BY <1>2, <1>4 DEF Ledger!Withdraws, Ledger!Keeps, Withdrawn
<1>6. [k \in Keys |-> CallOf(q', k)] \in [Keys -> 1..MaxId \cup {None}]
  BY <1>2, <1>4, CallOfTyped
<1>7. t # None
  BY <1>2, RequestsAssumption, IdAssumption
<1>8. ASSUME NEW k \in Keys
      PROVE  \/ CallOf(q', k) = CallOf(q, k) /\ CallOf(q, k) \notin {t}
             \/ CallOf(q', k) = None /\ CallOf(q, k) \in {t}
  <2>1. CASE Holder(q, k) = t
    BY <1>2, <1>3, <1>4, <2>1 DEF CallOf, Maps
  <2>2. CASE Holder(q, k) # t
    BY <1>2, <1>3, <1>4, <1>7, <2>2 DEF CallOf, Maps
  <2>. QED  BY <2>1, <2>2
<1>9. Ledger!Holders(Keys, {t})
  BY <1>8 DEF Ledger!Holders, Ledger!Started, CallOf
<1>. QED  BY <1>4, <1>5, <1>6, <1>9 DEF Ledger!Withdraw, CallOf

LEMMA StartCalls ==
  ASSUME NEW S, NEW X, Good(q, S, {}, X), Stand(q, S, None), DOMAIN q.fate \subseteq 1..MaxId,
         NEW j \in DOMAIN q.active, j \in DOMAIN q.armed, Begun(q', q, j, q.active[j].ticket)
  PROVE  (\E t \in 1..MaxId : Ledger!Start(t)) /\ DOMAIN q'.fate \subseteq 1..MaxId
<1>. DEFINE t == q.active[j].ticket
<1>1. /\ Good(q', S \cup {[job |-> j, ticket |-> q.active[j].ticket]}, {}, X)
      /\ q'.active = q.active /\ q'.delayed = q.delayed /\ q'.on = q.on
      /\ q'.sources = q.sources /\ q'.next = q.next
      /\ q'.fate = [q.fate EXCEPT ![q.active[j].ticket] = "running"]
      /\ DOMAIN q'.armed = DOMAIN q.armed \ {j}
      /\ Onward(q', q, {})
  BY StartEffect
<1>2. Sound(q) /\ Sound(q') /\ t \in DOMAIN q.fate /\ q.fate[t] = "pending" /\ q'.fate = [q.fate EXCEPT ![t] = "running"]
  BY <1>1, ActiveWaits DEF Good, Maps
<1>3. \A k \in Keys : Holder(q', k) = Holder(q, k)
  BY <1>1, <1>2, SameJobsHolder
<1>. HIDE DEF t
<1>4. \A k \in Keys : CallOf(q', k) = CallOf(q, k)
  BY <1>2, <1>3 DEF CallOf, Maps
<1>5. [k \in Keys |-> CallOf(q', k)] = [k \in Keys |-> CallOf(q, k)]
  BY <1>4
<1>6. Ledger!Started = {} /\ t \in Ledger!Waiting
  BY <1>2 DEF Ledger!Started, Ledger!Waiting, Stand, Running
<1>7. Ledger!Start(t)
  BY <1>2, <1>5, <1>6 DEF Ledger!Start, CallOf
<1>. QED  BY <1>2, <1>7

LEMMA ReturnCalls ==
  ASSUME NEW S, NEW X, Good(q, S, {}, X), NEW r, r # None, Stand(q, S, r), DOMAIN q.fate \subseteq 1..MaxId,
         Returned(q', q, r.job, r.ticket), Sound(q')
  PROVE  (\E t \in 1..MaxId : Ledger!Finish(t)) /\ DOMAIN q'.fate \subseteq 1..MaxId
<1>. DEFINE t == r.ticket
<1>1. r \in S /\ t \in DOMAIN q.fate /\ q.fate[t] = "running"
  BY DEF Stand, Maps
<1>2. \A s \in S : s.job = r.job \/ s.ticket = r.ticket => s = r
  BY <1>1 DEF Stand, Maps
<1>3. q'.fate = [q.fate EXCEPT ![r.ticket] = "ran"]
  BY ReturnedFate DEF Good
<1>4. ASSUME NEW k \in Keys
      PROVE  /\ Holder(q, k) = r.ticket => Holder(q', k) = None
             /\ Holder(q, k) # r.ticket => Holder(q', k) = Holder(q, k)
  BY <1>1, <1>2, ReturnedHolder
<1>5. q'.fate = [q.fate EXCEPT ![t] = "ran"] /\ t # None
  BY <1>1, <1>3, RequestsAssumption, IdAssumption
<1>6. \A k \in Keys : /\ Holder(q, k) = t => Holder(q', k) = None
                      /\ Holder(q, k) # t => Holder(q', k) = Holder(q, k)
  BY <1>4
<1>. HIDE DEF t
<1>7. ASSUME NEW k \in Keys PROVE CallOf(q', k) = IF CallOf(q, k) = t THEN None ELSE CallOf(q, k)
  <2>1. CASE Holder(q, k) = t
    BY <1>1, <1>6, <2>1 DEF CallOf, Maps
  <2>2. CASE Holder(q, k) # t
    BY <1>1, <1>5, <1>6, <2>2 DEF CallOf, Maps
  <2>. QED  BY <2>1, <2>2
<1>8. [k \in Keys |-> CallOf(q', k)]
        = [k \in Keys |-> IF [h \in Keys |-> CallOf(q, h)][k] = t THEN None ELSE [h \in Keys |-> CallOf(q, h)][k]]
  BY <1>7
<1>9. t \in Ledger!Started
  BY <1>1 DEF Ledger!Started
<1>10. Ledger!Finish(t)
  BY <1>5, <1>8, <1>9 DEF Ledger!Finish, CallOf
<1>. QED  BY <1>1, <1>5, <1>10

\* What a step of the program is for the registry.
LEMMA HarnessMoves ==
  ASSUME HInv, FInv, HInv', [Next]_vars, NEW S, Good(q, S, {}, Unknown)
  PROVE  \/ Move(q', q)
         \/ \E j \in DOMAIN q.active \cap DOMAIN q.armed : Lost(q', q, j)
         \/ running = None /\ \E j \in DOMAIN q.active \cap DOMAIN q.armed : Begun(q', q, j, q.active[j].ticket)
         \/ running # None /\ Returned(q', q, running.job, running.ticket)
<1>0. Sound(q) /\ Sound(q')
  BY DEF HInv, Good
<1>1. ASSUME NEW r \in Requests, Submit(r) PROVE Move(q', q)
  <2>1. q' = Schedule(q, [r EXCEPT !.ticket = q.next]) /\ q.next <= MaxId
    BY <1>1 DEF Submit
  <2>. QED  BY <2>1, SubmitRoutine
<1>2. ASSUME NEW k \in Keys, CancelKey(k) \/ RescheduleKey(k) PROVE Move(q', q)
  BY <1>2, CancelRoutine, RescheduleRoutine DEF CancelKey, RescheduleKey, Routine
<1>3. ASSUME NEW j \in DOMAIN q.armed, CancelTaskOf(j) PROVE j \in DOMAIN q.active \cap DOMAIN q.armed /\ Lost(q', q, j)
  BY <1>3 DEF CancelTaskOf, Lost
<1>4. ASSUME q' = q PROVE Move(q', q)
  BY <1>0, <1>4, SameMove
<1>5. CASE Toggle
  <2>1. IsRegistry(q) /\ q' = [q EXCEPT !.on = ~@]
    BY <1>0, <1>5 DEF Toggle, Sound, QueueTyped
  <2>2. q'.active = q.active /\ q'.delayed = q.delayed /\ q'.fate = q.fate
    BY <2>1 DEF IsRegistry
  <2>. QED  BY <1>0, <2>2, SameMove
<1>6. CASE DrainRetry
  <2>. DEFINE j == Min(flush.retries)
  <2>1. flush.retries # {} /\ q' = RetryDelayed(CancelTask(q, j), j)
    BY <1>6 DEF DrainRetry
  <2>2. j \notin DOMAIN q.active
    BY <1>0, <2>1, FirstRetry DEF FInv, Listed
  <2>. HIDE DEF j
  <2>. QED  BY <2>1, <2>2, RetryRoutine DEF Routine
<1>7. ASSUME NEW j \in flush.jobs, DrainGone(j) PROVE Move(q', q)
  BY <1>7, PopGoneRoutine DEF DrainGone, Routine
<1>8. ASSUME NEW j \in flush.jobs, DrainInactive(j) PROVE Move(q', q)
  <2>1. j \in DOMAIN q.active /\ j \in DOMAIN q.armed /\ (q' = Defer(q, j) \/ q' = Skip(q, j))
    BY <1>8 DEF DrainInactive
  <2>. QED  BY <2>1, DeferEffect, SkipEffect
<1>9. ASSUME NEW j \in flush.jobs, DrainRun(j)
      PROVE  running = None /\ j \in DOMAIN q.active \cap DOMAIN q.armed /\ Begun(q', q, j, q.active[j].ticket)
  BY <1>9 DEF DrainRun, NextJob, Begun
<1>10. CASE Finish \/ Raise
  BY <1>10 DEF Finish, Raise, PopRunning, Returned
<1>11. CASE \/ \E j \in Registered(q) : Elapse(j)
            \/ \E x \in Objects : Watch(x)
            \/ FlushBegin \/ DrainEnd
            \/ UNCHANGED vars
  BY <1>4, <1>11 DEF Elapse, Watch, FlushBegin, DrainEnd, vars
<1>. QED  BY <1>1, <1>2, <1>3, <1>5, <1>6, <1>7, <1>8, <1>9, <1>10, <1>11 DEF Next

\* Callers stop at MaxId.
BInv == DOMAIN q.fate \subseteq 1..MaxId

LEMMA NextCalls == HInv /\ FInv /\ BInv /\ [Next]_vars => BInv' /\ [Ledger!Next]_(Ledger!vars)
<1>. SUFFICES ASSUME HInv, FInv, BInv, [Next]_vars PROVE BInv' /\ Ledger!Next
  OBVIOUS
<1>1. HInv'
  BY HarnessStep
<1>2. PICK S : Good(q, S, {}, Unknown) /\ Stand(q, S, running)
  BY DEF HInv
<1>3. Standing(q) /\ Sound(q) /\ Sound(q')
  BY <1>1, <1>2, KeysStand DEF HInv, Good
<1>4. CASE Move(q', q)
  <2>1. ASSUME NEW gone, Released(q', q, gone) PROVE Ledger!Withdraw /\ DOMAIN q'.fate \subseteq 1..MaxId
    BY <1>3, <2>1, WithdrawCalls DEF BInv
  <2>2. ASSUME NEW k \in Keys \cup {None}, q.next <= MaxId, Outcome(q', q, q.next, k)
        PROVE  (Ledger!Accept(q.next, k) \/ Ledger!Withdraw) /\ DOMAIN q'.fate \subseteq 1..MaxId /\ q.next \in 1..MaxId
    <3>1. q.next \in 1..MaxId /\ q.next \notin DOMAIN q.fate
      BY <1>3, <2>2, NextIsNew, RequestsAssumption DEF Sound, QueueTyped
    <3>. QED  BY <1>3, <2>2, <3>1, AcceptCalls DEF BInv
  <2>. QED  BY <1>4, <2>1, <2>2 DEF Move, BInv, Ledger!Next
<1>5. ASSUME NEW j \in DOMAIN q.active \cap DOMAIN q.armed, Lost(q', q, j) PROVE BInv' /\ Ledger!Next
  BY <1>2, <1>5, LoseCalls DEF BInv, Ledger!Next
<1>6. ASSUME running = None, NEW j \in DOMAIN q.active \cap DOMAIN q.armed, Begun(q', q, j, q.active[j].ticket)
      PROVE  BInv' /\ Ledger!Next
  <2>1. Stand(q, S, None)
    BY <1>2, <1>6
  <2>. QED  BY <1>2, <1>6, <2>1, StartCalls DEF BInv, Ledger!Next
<1>7. ASSUME running # None, Returned(q', q, running.job, running.ticket) PROVE BInv' /\ Ledger!Next
  BY <1>2, <1>3, <1>7, ReturnCalls DEF BInv, Ledger!Next
<1>. QED  BY <1>1, <1>2, <1>4, <1>5, <1>6, <1>7, HarnessMoves

LEMMA InitCalls == Init => BInv /\ Ledger!Init
<1>. SUFFICES ASSUME Init PROVE BInv /\ Ledger!Init
  OBVIOUS
<1>1. PICK on \in BOOLEAN : q = [EmptyQueue EXCEPT !.on = on]
  BY DEF Init
<1>2. /\ q.keyJob = <<>> /\ q.delayedKey = <<>> /\ q.fate = <<>>
  BY <1>1 DEF EmptyQueue, Init
<1>3. DOMAIN <<>> = {}
  OBVIOUS
<1>4. \A k \in Keys : Holder(q, k) = None
  BY <1>2, <1>3 DEF Holder, HasActive, HasDelayed
<1>5. ~Maps(q.fate, None, "cancelled")
  BY <1>2, <1>3 DEF Maps
<1>. QED  BY <1>2, <1>3, <1>4, <1>5 DEF Ledger!Init, BInv

\* Flushed instead of timed, with deferrals, skips, exceptions and tasks cancelled
\* behind its back, the scheduler implements the same ledger.
THEOREM HarnessLedgerCorrect == Spec => LedgerSpec
<1>1. Init => Ledger!Init /\ BInv
  BY InitCalls
<1>2. HInv /\ FInv /\ BInv /\ [Next]_vars => BInv' /\ [Ledger!Next]_(Ledger!vars)
  BY NextCalls
<1>. QED  BY <1>1, <1>2, HarnessInit, HarnessNext, PTL DEF Spec, LedgerSpec, Ledger!Spec

-----------------------------------------------------------------------------
(* Deferred jobs *)

\* Job j was never deferred, or once, and has its source in s.
BackedBy(s, j, rec) ==
  \/ rec.defers = 0
  \/ rec.defers = 1 /\ rec.obj # None /\ SourcesOf(j, rec) \subseteq s

\* A job that was deferred is active and has its source, though the flag may have
\* been toggled since.
Backed(p) ==
  /\ \A j \in DOMAIN p.delayed : p.delayed[j].defers = 0
  /\ \A j \in DOMAIN p.active : BackedBy(p.sources, j, p.active[j])

LEMMA SameBacked ==
  ASSUME NEW p, Backed(p), NEW n, n.active = p.active, n.delayed = p.delayed, p.sources \subseteq n.sources
  PROVE  Backed(n)
  BY DEF Backed, BackedBy

LEMMA SettleBacked ==
  ASSUME NEW p, Sound(p), Backed(p), NEW t, NEW why
  PROVE  Backed(Settle(p, t, why))
<1>. DEFINE n == Settle(p, t, why)
<1>1. IsRegistry(p)
  BY DEF Sound, QueueTyped
<1>2. /\ IsRegistry(n)
      /\ n.active = p.active /\ n.keyJob = p.keyJob
      /\ n.delayed = p.delayed /\ n.delayedKey = p.delayedKey
      /\ n.armed = p.armed /\ n.sources = p.sources
      /\ n.on = p.on /\ n.next = p.next
      /\ n.fate = IF Maps(p.fate, t, "pending") THEN [p.fate EXCEPT ![t] = why] ELSE p.fate
  BY <1>1, SettleFields
<1>. HIDE DEF n
<1>3. Backed(n)
  BY <1>2, SameBacked
<1>. QED  BY <1>3 DEF n

\* The source of a job that leaves is no other's: not of another key, nor of
\* another job without key.
LEMMA DropBacked ==
  ASSUME NEW p, Sound(p), Backed(p), NEW j \in DOMAIN p.active, NEW n,
         n.active = Drop(p.active, j), n.delayed = p.delayed, n.sources = Left(p, j)
  PROVE  Backed(n)
<1>1. DOMAIN n.active = DOMAIN p.active \ {j} /\ \A i \in DOMAIN n.active : n.active[i] = p.active[i]
  <2>1. DOMAIN n.active = DOMAIN p.active \ {j}
    BY DropDomain
  <2>2. \A i \in DOMAIN p.active \ {j} : Drop(p.active, j)[i] = p.active[i]
    BY DropApply
  <2>. QED  BY <2>1, <2>2
<1>2. ASSUME NEW i \in DOMAIN p.active, i # j,
             NEW e \in SourcesOf(i, p.active[i]), e \in SourcesOf(j, p.active[j])
      PROVE  FALSE
  <2>1. /\ e.id = IF p.active[i].key = None THEN i ELSE p.active[i].key
        /\ e.id = IF p.active[j].key = None THEN j ELSE p.active[j].key
    BY <1>2 DEF SourcesOf
  <2>2. i \in Nat /\ j \in Nat
    BY DEF Sound, QueueTyped, IdsBelow
  <2>3. p.active[i].key \in Keys \cup {None} /\ p.active[j].key \in Keys \cup {None}
    BY DEF Sound, QueueTyped, RecordsTyped, Request
  <2>4. p.active[i].key = p.active[j].key /\ p.active[i].key # None
    BY <1>2, <2>1, <2>2, <2>3, IdAssumption
  <2>. QED  BY <1>2, <2>4 DEF Sound, KeysIndexed, Maps
<1>3. ASSUME NEW i \in DOMAIN n.active PROVE BackedBy(n.sources, i, n.active[i])
  <2>1. i \in DOMAIN p.active /\ i # j /\ n.active[i] = p.active[i]
    BY <1>1
  <2>2. BackedBy(p.sources, i, p.active[i])
    BY <2>1 DEF Backed
  <2>3. SourcesOf(i, p.active[i]) \subseteq p.sources => SourcesOf(i, p.active[i]) \subseteq Left(p, j)
    BY <1>2, <2>1 DEF Left
  <2>4. n.sources = Left(p, j)
    OBVIOUS
  <2>. QED  BY <2>1, <2>2, <2>3, <2>4 DEF BackedBy
<1>. QED  BY <1>3 DEF Backed

LEMMA UnparkBacked ==
  ASSUME NEW p, Backed(p), NEW j, NEW n,
         n.active = p.active, n.delayed = Drop(p.delayed, j), n.sources = p.sources
  PROVE  Backed(n)
<1>1. \A i \in DOMAIN n.delayed : i \in DOMAIN p.delayed /\ n.delayed[i] = p.delayed[i]
  BY DEF Drop, Restrict
<1>. QED  BY <1>1 DEF Backed

LEMMA GoneBacked ==
  ASSUME NEW p, Sound(p), Backed(p), NEW j \in DOMAIN p.active, NEW why
  PROVE  Backed(Gone(p, j, why))
<1>. DEFINE n == Gone(p, j, why)
<1>0. IsRegistry(p)
  BY DEF Sound, QueueTyped
<1>1. /\ n.active = Drop(p.active, j) /\ n.delayed = p.delayed
      /\ n.armed = Drop(p.armed, j) /\ n.on = p.on /\ n.next = p.next
      /\ n.sources = Left(p, j)
      /\ n.fate = Settle(p, p.active[j].ticket, why).fate
  BY <1>0, GoneFields
<1>. HIDE DEF n
<1>2. Backed(n)
  BY <1>1, DropBacked
<1>. QED  BY <1>2 DEF n

LEMMA CancelBacked ==
  ASSUME NEW p, Sound(p), Backed(p), NEW k, NEW why
  PROVE  Backed(Cancel(p, k, why))
<1>. DEFINE n == Cancel(p, k, why)
<1>0. IsRegistry(p)
  BY DEF Sound, QueueTyped
<1>1. ASSUME HasActive(p, k) PROVE Backed(n)
  <2>1. n = Gone(p, p.keyJob[k], why) /\ p.keyJob[k] \in DOMAIN p.active
    BY <1>1 DEF Cancel, Gone, HasActive
  <2>. HIDE DEF n
  <2>. QED  BY <2>1, GoneBacked
<1>2. ASSUME ~HasActive(p, k), HasDelayed(p, k) PROVE Backed(n)
  <2>. DEFINE j == p.delayedKey[k]
              u == Unparked(p, j, why)
  <2>1. n = u /\ j \in DOMAIN p.delayed
    BY <1>2 DEF Cancel, Unparked, HasDelayed
  <2>. HIDE DEF n, j
  <2>2. /\ u.delayed = Drop(p.delayed, j) /\ u.active = p.active
        /\ u.armed = Drop(p.armed, j) /\ u.on = p.on /\ u.next = p.next
        /\ u.sources = p.sources
        /\ u.fate = Settle(p, p.delayed[j].ticket, why).fate
    BY <1>0, <2>1, UnparkedFields
  <2>. HIDE DEF u
  <2>3. Backed(u)
    BY <2>2, UnparkBacked
  <2>. QED  BY <2>1, <2>3
<1>3. ASSUME ~HasActive(p, k), ~HasDelayed(p, k) PROVE Backed(n)
  <2>1. n = p
    BY <1>3 DEF Cancel
  <2>. QED  BY <2>1
<1>. QED  BY <1>1, <1>2, <1>3

\* A request that may be inserted: new, or deferred and sure of its source.
Backable(p, r) ==
  \/ r.defers = 0
  \/ r.defers = 1 /\ r.obj # None /\ (p.on \/ SourcesOf(p.next, r) \subseteq p.sources)

LEMMA InsertBacked ==
  ASSUME NEW p, Sound(p), Backed(p), NEW r \in Request, Backable(p, r)
  PROVE  Backed(Insert(p, r))
<1>. DEFINE n == Insert(p, r)
            i == p.next
            rec == [r EXCEPT !.attempt = 0]
<1>0. IsRegistry(p)
  BY DEF Sound, QueueTyped
<1>1. /\ n.active = Put(p.active, p.next, [r EXCEPT !.attempt = 0]) /\ n.delayed = p.delayed
      /\ n.armed = Put(p.armed, p.next, [kind |-> "run", ticket |-> r.ticket])
      /\ n.sources = IF p.on THEN p.sources \cup SourcesOf(p.next, r) ELSE p.sources
      /\ n.on = p.on /\ n.next = p.next + 1
      /\ n.fate = Accept(p, r.ticket).fate
  BY <1>0, InsertEffect
<1>2. n.active = Put(p.active, i, rec)
  BY <1>1
<1>3. rec.defers = r.defers /\ rec.obj = r.obj /\ rec.key = r.key
  BY DEF Request
<1>4. SourcesOf(i, rec) = SourcesOf(i, r)
  BY <1>3 DEF SourcesOf
<1>. HIDE DEF n, rec
<1>5. DOMAIN n.active = DOMAIN p.active \cup {i}
      /\ \A j \in DOMAIN n.active : n.active[j] = IF j = i THEN rec ELSE p.active[j]
  <2>1. DOMAIN n.active = DOMAIN p.active \cup {i}
    BY <1>2 DEF Put
  <2>2. \A j \in DOMAIN p.active \cup {i} : Put(p.active, i, rec)[j] = IF j = i THEN rec ELSE p.active[j]
    BY PutApply
  <2>. QED  BY <1>2, <2>1, <2>2
<1>6. BackedBy(n.sources, i, rec)
  BY <1>1, <1>3, <1>4 DEF BackedBy, Backable
<1>7. p.sources \subseteq n.sources
  BY <1>1
<1>. HIDE DEF i
<1>8. ASSUME NEW j \in DOMAIN n.active PROVE BackedBy(n.sources, j, n.active[j])
  <2>1. CASE j = i
    BY <1>5, <1>6, <2>1
  <2>2. CASE j # i
    <3>1. BackedBy(p.sources, j, p.active[j]) /\ n.active[j] = p.active[j]
      BY <1>5, <2>2 DEF Backed
    <3>. QED  BY <1>7, <3>1 DEF BackedBy
  <2>. QED  BY <2>1, <2>2
<1>9. n.delayed = p.delayed
  BY <1>1
<1>10. Backed(n)
  BY <1>8, <1>9 DEF Backed
<1>. QED  BY <1>10 DEF n

LEMMA DelayBacked ==
  ASSUME NEW p, Sound(p), Backed(p), NEW r \in Request, r.defers = 0
  PROVE  Backed(Delay(p, r))
<1>. DEFINE n == Delay(p, r)
            rec == [r EXCEPT !.attempt = @ + 1]
<1>1. ASSUME r.attempt >= MaxDelayAttempts PROVE Backed(n)
  <2>1. n = Settle(p, r.ticket, "rejected")
    BY <1>1 DEF Delay, Reject
  <2>. HIDE DEF n
  <2>. QED  BY <2>1, SettleBacked
<1>2. ASSUME ~(r.attempt >= MaxDelayAttempts) PROVE Backed(n)
  <2>1. r.attempt < MaxDelayAttempts /\ r.attempt \in Nat
    BY <1>2, QueueAssumption DEF Request
  <2>2. IsRegistry(p)
    BY DEF Sound, QueueTyped
  <2>3. /\ IsRegistry(n)
        /\ n.delayed = Put(p.delayed, p.next, [r EXCEPT !.attempt = @ + 1])
        /\ n.delayedKey = IF r.key = None THEN p.delayedKey ELSE Put(p.delayedKey, r.key, p.next)
        /\ n.active = p.active /\ n.keyJob = p.keyJob
        /\ n.armed = Put(p.armed, p.next, [kind |-> "retry", ticket |-> r.ticket])
        /\ n.sources = p.sources /\ n.on = p.on /\ n.next = p.next + 1
        /\ n.fate = Accept(p, r.ticket).fate
    BY <2>1, <2>2, DelayFields
  <2>4. rec.defers = 0 /\ n.delayed = Put(p.delayed, p.next, rec)
    BY <2>3 DEF Request
  <2>. HIDE DEF n, rec
  <2>5. \A j \in DOMAIN n.delayed : n.delayed[j] = rec \/ (j \in DOMAIN p.delayed /\ n.delayed[j] = p.delayed[j])
    BY <2>4 DEF Put
  <2>6. n.active = p.active /\ n.sources = p.sources
    BY <2>3
  <2>. QED  BY <2>4, <2>5, <2>6 DEF Backed
<1>. QED  BY <1>1, <1>2

LEMMA ReplaceOldestBacked ==
  ASSUME NEW p, Sound(p), Backed(p), NEW r \in Request, r.defers = 0,
         NEW scope, scope \subseteq DOMAIN p.active
  PROVE  Backed(ReplaceOldest(p, r, scope))
<1>. DEFINE n == ReplaceOldest(p, r, scope)
<1>1. ASSUME scope = {} PROVE Backed(n)
  <2>1. n = Settle(p, r.ticket, "rejected")
    BY <1>1 DEF ReplaceOldest, Reject
  <2>. HIDE DEF n
  <2>. QED  BY <2>1, SettleBacked
<1>2. ASSUME scope # {} PROVE Backed(n)
  <2>. DEFINE j == CHOOSE i \in scope : \A h \in scope : i <= h
              a == Gone(p, j, "evicted")
  <2>1. scope \in SUBSET Nat
    BY DEF Sound, QueueTyped, IdsBelow
  <2>2. j \in DOMAIN p.active
    BY <1>2, <2>1, Oldest
  <2>3. n = Insert(a, r)
    BY <1>2 DEF ReplaceOldest, Gone
  <2>. HIDE DEF j, n
  <2>4. Sound(a) /\ Backed(a)
    BY <2>2, GoneSmaller, GoneBacked DEF Fates, Withdrawn, Smaller
  <2>. HIDE DEF a
  <2>. QED  BY <2>3, <2>4, InsertBacked DEF Backable
<1>. QED  BY <1>1, <1>2

LEMMA AdmitBacked ==
  ASSUME NEW p, Sound(p), Backed(p), NEW r \in Request, r.defers = 0
  PROVE  Backed(Admit(p, r))
<1>. DEFINE n == Admit(p, r)
<1>1. ASSUME NEW behavior \in Behaviors, NEW scope, scope \subseteq DOMAIN p.active,
             n = Apply(p, r, behavior, scope)
      PROVE  Backed(n)
  <2>1. n \in {Settle(p, r.ticket, "rejected"), ReplaceOldest(p, r, scope), Delay(p, r)}
    BY <1>1 DEF Apply, Behaviors, Reject
  <2>2. Backed(Settle(p, r.ticket, "rejected"))
    BY SettleBacked
  <2>3. Backed(ReplaceOldest(p, r, scope))
    BY <1>1, ReplaceOldestBacked
  <2>4. Backed(Delay(p, r))
    BY DelayBacked
  <2>. HIDE DEF n
  <2>. QED  BY <2>1, <2>2, <2>3, <2>4
<1>2. {OwnerBehavior, SystemBehavior, GlobalBehavior} \subseteq Behaviors
  BY QueueAssumption
<1>3. /\ OwnedBy(p, r.owner) \subseteq DOMAIN p.active
      /\ InSystem(p, r.system) \subseteq DOMAIN p.active
  BY DEF OwnedBy, InSystem
<1>4. \/ n = Apply(p, r, OwnerBehavior, OwnedBy(p, r.owner))
      \/ n = Apply(p, r, SystemBehavior, InSystem(p, r.system))
      \/ n = Apply(p, r, GlobalBehavior, DOMAIN p.active)
      \/ n = Insert(p, r)
  BY DEF Admit
<1>5. Backed(Insert(p, r))
  BY InsertBacked DEF Backable
<1>. HIDE DEF n
<1>6. Backed(n)
  BY <1>1, <1>2, <1>3, <1>4, <1>5
<1>. QED  BY <1>6 DEF n

LEMMA ScheduleBacked ==
  ASSUME NEW p, Sound(p), Backed(p), NEW r \in Request, r.defers = 0
  PROVE  Backed(Schedule(p, r))
<1>. DEFINE n == Schedule(p, r)
            c == Cancel(p, r.key, "replaced")
<1>1. Backed(Settle(p, r.ticket, "rejected"))
  BY SettleBacked
<1>2. Sound(c) /\ Backed(c)
  BY CancelSmaller, CancelBacked DEF Fates, Withdrawn, Smaller
<1>3. n \in {Settle(p, r.ticket, "rejected"), Admit(c, r), Admit(p, r)}
  BY DEF Schedule, Reject
<1>. HIDE DEF n, c
<1>4. Backed(Admit(c, r)) /\ Backed(Admit(p, r))
  BY <1>2, AdmitBacked
<1>5. Backed(n)
  BY <1>1, <1>3, <1>4
<1>. QED  BY <1>5 DEF n

LEMMA RearmBacked ==
  ASSUME NEW p, Sound(p), Backed(p), NEW r \in Request, r.defers = 0
  PROVE  Backed(Rearm(p, r))
  BY SettleBacked, ScheduleBacked DEF Rearm

LEMMA RetryBacked ==
  ASSUME NEW p, Sound(p), Backed(p), NEW j
  PROVE  Backed(RetryDelayed(p, j))
<1>. DEFINE n == RetryDelayed(p, j)
            c == PopDelayed(p, j)
<1>0. IsRegistry(p)
  BY DEF Sound, QueueTyped
<1>1. ASSUME j \in DOMAIN p.delayed PROVE Backed(n)
  <2>. DEFINE r == p.delayed[j]
  <2>1. n = Rearm(c, r)
    BY <1>1 DEF RetryDelayed
  <2>2. r \in Request /\ r.defers = 0
    BY <1>1 DEF Sound, QueueTyped, RecordsTyped, Backed
  <2>3. Sound(c)
    BY PopDelayedSmaller DEF Smaller
  <2>4. c.delayed = Drop(p.delayed, j) /\ c.active = p.active /\ c.sources = p.sources
    BY <1>0, <1>1, PopDelayedFields
  <2>. HIDE DEF n, c, r
  <2>5. Backed(c)
    BY <2>4, UnparkBacked
  <2>. QED  BY <2>1, <2>2, <2>3, <2>5, RearmBacked
<1>2. ASSUME j \notin DOMAIN p.delayed PROVE Backed(n)
  BY <1>2 DEF RetryDelayed
<1>. QED  BY <1>1, <1>2

\* A deferred job that is rescheduled finds the room it leaves, and the source
\* of its key.
LEMMA RescheduleBacked ==
  ASSUME NEW p, Sound(p), Backed(p), QuotasMet(p), NEW k
  PROVE  Backed(Reschedule(p, k))
<1>. DEFINE n == Reschedule(p, k)
            c == Cancel(p, k, "pending")
<1>0. IsRegistry(p)
  BY DEF Sound, QueueTyped
<1>1. Sound(c) /\ Backed(c)
  BY CancelSmaller, CancelBacked DEF Fates, Smaller
<1>2. ASSUME HasActive(p, k) PROVE Backed(n)
  <2>. DEFINE j == p.keyJob[k]
              rec == p.active[j]
              r == NewTicketIfStarted(p, rec)
              a == Gone(p, j, "pending")
  <2>1. /\ j \in DOMAIN p.active /\ rec \in Request /\ rec.ticket \in DOMAIN p.fate
        /\ rec.key = k /\ k # None
    BY <1>2, QueueAssumption DEF HasActive, Sound, QueueTyped, RecordsTyped, KeysIndexed
  <2>2. /\ r \in Request /\ r.key = rec.key /\ r.obj = rec.obj /\ r.defers = rec.defers /\ r.args = rec.args
    <3>1. Fits(p, r)
      BY <2>1, NewTicketFields
    <3>. QED  BY <2>1, <3>1 DEF NewTicketIfStarted, Request, Fits
  <2>3. n = Rearm(c, r)
    BY <1>2 DEF Reschedule
  <2>4. CASE rec.args
    <3>1. n = Settle(c, r.ticket, "lost")
      BY <2>2, <2>3, <2>4 DEF Rearm
    <3>. HIDE DEF n, c
    <3>. QED  BY <1>1, <3>1, SettleBacked
  <2>5. CASE ~rec.args
    <3>1. n = Insert(a, r)
      BY <1>2, <2>5, RescheduleInserts
    <3>2. Sound(a) /\ Backed(a)
      BY <2>1, GoneSmaller, GoneBacked DEF Fates, Smaller
    <3>3. /\ a.active = Drop(p.active, j) /\ a.delayed = p.delayed
          /\ a.armed = Drop(p.armed, j) /\ a.on = p.on /\ a.next = p.next
          /\ a.sources = Left(p, j)
          /\ a.fate = Settle(p, p.active[j].ticket, "pending").fate
      BY <1>0, <2>1, GoneFields
    <3>4. BackedBy(p.sources, j, rec)
      BY <2>1 DEF Backed
    <3>. HIDE DEF n, a, r, rec, j
    <3>5. SourcesOf(a.next, r) = SourcesOf(j, rec)
      BY <2>1, <2>2 DEF SourcesOf
    <3>6. Backable(a, r)
      BY <2>2, <3>3, <3>4, <3>5 DEF Backable, BackedBy, Left
    <3>. QED  BY <2>2, <3>1, <3>2, <3>6, InsertBacked
  <2>. QED  BY <2>4, <2>5
<1>3. ASSUME ~HasActive(p, k), HasDelayed(p, k) PROVE Backed(n)
  <2>. DEFINE rec == p.delayed[p.delayedKey[k]]
              r == NewTicketIfStarted(p, rec)
  <2>1. rec \in Request /\ rec.ticket \in DOMAIN p.fate /\ rec.defers = 0
    BY <1>3 DEF HasDelayed, Sound, QueueTyped, RecordsTyped, Backed
  <2>2. r \in Request /\ r.defers = 0
    <3>1. Fits(p, r)
      BY <2>1, NewTicketFields
    <3>. QED  BY <2>1, <3>1 DEF NewTicketIfStarted, Request, Fits
  <2>3. n = Rearm(c, r)
    BY <1>3 DEF Reschedule
  <2>. HIDE DEF n, c, r
  <2>. QED  BY <1>1, <2>2, <2>3, RearmBacked
<1>4. ASSUME ~HasActive(p, k), ~HasDelayed(p, k) PROVE Backed(n)
  BY <1>4 DEF Reschedule
<1>. QED  BY <1>2, <1>3, <1>4

\* A job that lacks its source finds the room it leaves, and gets its source.
LEMMA DeferBacked ==
  ASSUME NEW p, NEW S, NEW X, Good(p, S, {}, X), Backed(p), QuotasMet(p),
         NEW j \in DOMAIN p.active, j \in DOMAIN p.armed,
         p.on, p.active[j].obj # None, p.active[j].defers = 0
  PROVE  Backed(Defer(p, j))
<1>. DEFINE rec == p.active[j]
            c == Popped(p, j)
            r == Deferred(rec)
            n == Defer(p, j)
<1>1. /\ Sound(p) /\ rec \in Request /\ rec.ticket \in DOMAIN p.fate
  BY ActiveWaits
<1>2. /\ Sound(c) /\ IsRegistry(c)
      /\ c.active = Drop(p.active, j) /\ c.delayed = p.delayed
      /\ c.armed = Drop(p.armed, j) /\ c.on = p.on /\ c.next = p.next
      /\ c.sources = Left(p, j) /\ c.fate = p.fate
  BY <1>1, PoppedFields
<1>3. /\ r \in Request /\ r.ticket = rec.ticket /\ r.key = rec.key
      /\ r.obj = rec.obj /\ r.args = rec.args
      /\ r.owner = rec.owner /\ r.system = rec.system
      /\ r.defers = 1
  BY <1>1, DeferredFields
<1>4. n = Rearm(c, r)
  BY DeferIs, HarnessAssumption
<1>5. Backed(c)
  BY <1>1, <1>2, DropBacked
<1>6. ~Held(c, r.key)
  <2>. DEFINE a == PopJob(p, j)
  <2>1. IsRegistry(p)
    BY <1>1 DEF Sound, QueueTyped
  <2>2. rec.key \notin DOMAIN a.keyJob
    BY <1>1, PopJobSmaller
  <2>3. a.delayedKey = p.delayedKey
    BY <2>1, PopJobFields
  <2>4. Sound(a)
    BY <1>1, PopJobSmaller DEF Smaller
  <2>5. c = CancelTask(a, j) /\ IsRegistry(a)
    BY <2>4 DEF Popped, Sound, QueueTyped
  <2>. HIDE DEF a
  <2>6. c.keyJob = a.keyJob /\ c.delayedKey = a.delayedKey
    <3>. HIDE DEF c
    <3>. QED  BY <2>5, CancelTaskFields
  <2>7. rec.key \notin DOMAIN p.delayedKey
    BY <1>1, QueueAssumption DEF Sound, QueueTyped, KeysIndexed, Maps
  <2>. QED  BY <1>3, <2>2, <2>3, <2>6, <2>7 DEF Held
<1>. HIDE DEF c, r, n, rec
<1>7. /\ OwnersMet(p) /\ p.active[j].owner = r.owner => ~OverOwner(c, r)
      /\ SystemsMet(p) /\ p.active[j].system = r.system => ~OverSystem(c, r)
      /\ TotalMet(p) => ~OverTotal(c)
  BY <1>1, <1>2, <1>3, GoneLeaves
<1>8. ~OverOwner(c, r) /\ ~OverSystem(c, r) /\ ~OverTotal(c)
  BY <1>3, <1>7 DEF QuotasMet, rec
<1>9. ASSUME r.args PROVE Backed(n)
  <2>1. n = Settle(c, r.ticket, "lost")
    BY <1>4, <1>9 DEF Rearm
  <2>. QED  BY <1>2, <1>5, <2>1, SettleBacked
<1>10. ASSUME ~r.args PROVE Backed(n)
  <2>1. n = Insert(c, r)
    BY <1>4, <1>6, <1>8, <1>10 DEF Rearm, Schedule, Admit
  <2>2. Backable(c, r)
    BY <1>2, <1>3 DEF Backable, rec
  <2>. QED  BY <1>2, <1>3, <1>5, <2>1, <2>2, InsertBacked
<1>. QED  BY <1>9, <1>10 DEF n

\* What one step keeps, of the deferred jobs and of the quotas.
Holds(n, p) == Backed(n) /\ QuotasKept(n, p)

LEMMA SameHolds ==
  ASSUME NEW p, Sound(p), Backed(p), NEW n, n.active = p.active, n.delayed = p.delayed, p.sources \subseteq n.sources
  PROVE  Holds(n, p)
  BY SameBacked, SameJobsKept DEF Holds

LEMMA PopJobHolds ==
  ASSUME NEW p, Sound(p), Backed(p), NEW j
  PROVE  Holds(PopJob(p, j), p)
<1>. DEFINE n == PopJob(p, j)
<1>0. IsRegistry(p)
  BY DEF Sound, QueueTyped
<1>1. ASSUME j \in DOMAIN p.active PROVE Holds(n, p)
  <2>1. /\ IsRegistry(n)
        /\ n.active = Drop(p.active, j) /\ n.delayed = p.delayed
        /\ n.armed = p.armed /\ n.on = p.on /\ n.fate = p.fate /\ n.next = p.next
        /\ n.sources = Left(p, j)
    BY <1>0, <1>1, PopJobLeft
  <2>. HIDE DEF n
  <2>2. Backed(n)
    BY <1>1, <2>1, DropBacked
  <2>3. Fewer(n, p)
    BY <2>1, DropFewer
  <2>. QED  BY <2>2, <2>3, FewerKept DEF Holds
<1>2. ASSUME j \notin DOMAIN p.active PROVE Holds(n, p)
  <2>1. n = p
    BY <1>2 DEF PopJob
  <2>. HIDE DEF n
  <2>. QED  BY <2>1, SameHolds
<1>. QED  BY <1>1, <1>2

LEMMA ReturnedHolds ==
  ASSUME NEW p, Sound(p), Backed(p), NEW j, NEW t, NEW n, Returned(n, p, j, t)
  PROVE  Holds(n, p)
<1>. DEFINE c == PopJob(p, j)
<1>1. n = [c EXCEPT !.fate[t] = "ran"]
  BY DEF Returned
<1>2. Sound(c)
  BY PopJobSmaller DEF Smaller
<1>3. Holds(c, p)
  BY PopJobHolds
<1>. HIDE DEF c
<1>4. IsRegistry(c)
  BY <1>2 DEF Sound, QueueTyped
<1>5. /\ n.active = c.active /\ n.delayed = c.delayed /\ n.armed = c.armed
      /\ n.sources = c.sources /\ n.on = c.on /\ n.next = c.next
      /\ n.fate = [c.fate EXCEPT ![t] = "ran"]
  BY <1>1, <1>4, SetFateFields
<1>6. Holds(n, c)
  BY <1>2, <1>3, <1>5, SameHolds DEF Holds
<1>. QED  BY <1>3, <1>6, KeptTrans DEF Holds

LEMMA RetryHolds ==
  ASSUME NEW p, Sound(p), Backed(p), NEW j
  PROVE  Holds(RetryDelayed(CancelTask(p, j), j), p)
<1>. DEFINE c == CancelTask(p, j)
<1>1. IsRegistry(p) /\ Sound(c)
  BY CancelTaskSmaller DEF Sound, QueueTyped, Smaller
<1>2. /\ IsRegistry(c)
      /\ c.active = p.active /\ c.keyJob = p.keyJob
      /\ c.delayed = p.delayed /\ c.delayedKey = p.delayedKey
      /\ c.armed = Drop(p.armed, j) /\ c.sources = p.sources
      /\ c.on = p.on /\ c.fate = p.fate /\ c.next = p.next
  BY <1>1, CancelTaskFields
<1>. HIDE DEF c
<1>3. Holds(c, p)
  BY <1>2, SameHolds
<1>4. Backed(RetryDelayed(c, j)) /\ QuotasKept(RetryDelayed(c, j), c)
  BY <1>1, <1>3, RetryBacked, RetryKept DEF Holds
<1>. QED  BY <1>3, <1>4, KeptTrans DEF Holds, c

LEMMA SkipHolds ==
  ASSUME NEW p, Sound(p), Backed(p), NEW j \in DOMAIN p.active
  PROVE  Holds(Skip(p, j), p)
<1>. DEFINE n == Gone(p, j, "skipped")
<1>1. Skip(p, j) = n
  BY DEF Skip, Gone
<1>2. IsRegistry(p) /\ Backed(n)
  BY GoneBacked DEF Sound, QueueTyped
<1>3. /\ n.active = Drop(p.active, j) /\ n.delayed = p.delayed
      /\ n.armed = Drop(p.armed, j) /\ n.on = p.on /\ n.next = p.next
      /\ n.sources = Left(p, j)
      /\ n.fate = Settle(p, p.active[j].ticket, "skipped").fate
  BY <1>2, GoneFields
<1>. HIDE DEF n
<1>4. Fewer(n, p)
  BY <1>3, DropFewer
<1>. QED  BY <1>1, <1>2, <1>4, FewerKept DEF Holds

\* A job is deferred at most once: it lacked its source, and then has it.
LEMMA DeferHolds ==
  ASSUME NEW p, NEW S, NEW X, Good(p, S, {}, X), Backed(p), QuotasMet(p),
         NEW j \in DOMAIN p.active, j \in DOMAIN p.armed,
         p.on, p.active[j].obj # None, p.active[j].defers = 0
  PROVE  Holds(Defer(p, j), p) /\ Ends(Defer(p, j), "dropped") \subseteq Ends(p, "dropped")
<1>. DEFINE rec == p.active[j]
            c == Popped(p, j)
            r == Deferred(rec)
            n == Defer(p, j)
<1>1. /\ Sound(p) /\ rec \in Request /\ rec.ticket \in DOMAIN p.fate
  BY ActiveWaits
<1>2. /\ Sound(c) /\ IsRegistry(c)
      /\ c.active = Drop(p.active, j) /\ c.delayed = p.delayed
      /\ c.armed = Drop(p.armed, j) /\ c.on = p.on /\ c.next = p.next
      /\ c.sources = Left(p, j) /\ c.fate = p.fate
  BY <1>1, PoppedFields
<1>3. r \in Request /\ r.ticket = rec.ticket
  BY <1>1, DeferredFields
<1>4. n = Rearm(c, r)
  BY DeferIs, HarnessAssumption
<1>5. Backed(n)
  BY DeferBacked
<1>6. Fits(c, r)
  BY <1>1, <1>2, <1>3 DEF Fits
<1>. HIDE DEF c, r, n
<1>7. Fewer(c, p)
  BY <1>2, DropFewer
<1>8. QuotasKept(n, c) /\ QuotasKept(c, p)
  BY <1>1, <1>2, <1>3, <1>4, <1>7, RearmKept, FewerKept
<1>9. Onward(n, c, {Trait(r)})
  BY <1>2, <1>4, <1>6, RearmOnward
<1>10. Ends(n, "dropped") \subseteq Ends(p, "dropped")
  <2>1. Ends(n, "dropped") \subseteq Ends(c, "dropped")
    BY <1>9 DEF Onward, OutOfInterest
  <2>. QED  BY <1>2, <2>1 DEF Ends
<1>. QED  BY <1>5, <1>8, <1>10, KeptTrans DEF Holds, n

-----------------------------------------------------------------------------
(* The steps *)

DInv == Backed(q) /\ QuotasMet(q) /\ Ends(q, "dropped") = {}

LEMMA SubmitHolds ==
  ASSUME Sound(q), Backed(q), NEW r \in Requests, Submit(r)
  PROVE  Holds(q', q)
<1>. DEFINE s == [r EXCEPT !.ticket = q.next]
<1>1. r \in Request /\ r.defers = 0 /\ q.next \in Nat \ {0}
  BY RequestsAssumption DEF Sound, QueueTyped
<1>2. s \in Request /\ s.defers = 0
  BY <1>1 DEF Request
<1>3. q' = Schedule(q, s)
  BY DEF Submit
<1>. HIDE DEF s
<1>4. Backed(Schedule(q, s)) /\ QuotasKept(Schedule(q, s), q)
  BY <1>2, ScheduleBacked, ScheduleKept
<1>. QED  BY <1>3, <1>4 DEF Holds

LEMMA KeyHolds ==
  ASSUME Sound(q), Backed(q), QuotasMet(q), NEW k \in Keys, CancelKey(k) \/ RescheduleKey(k)
  PROVE  Holds(q', q)
<1>1. Backed(Cancel(q, k, "cancelled")) /\ QuotasKept(Cancel(q, k, "cancelled"), q)
  BY CancelBacked, CancelFewer, FewerKept
<1>2. Backed(Reschedule(q, k)) /\ QuotasKept(Reschedule(q, k), q)
  BY RescheduleBacked, RescheduleKept
<1>. QED  BY <1>1, <1>2 DEF CancelKey, RescheduleKey, Holds

LEMMA QuietHolds ==
  ASSUME HInv, Backed(q),
         \/ \E j \in DOMAIN q.armed : CancelTaskOf(j)
         \/ \E j \in Registered(q) : Elapse(j)
         \/ Toggle
         \/ \E x \in Objects : Watch(x)
         \/ FlushBegin \/ DrainEnd
         \/ \E j \in flush.jobs : DrainRun(j)
         \/ UNCHANGED vars
  PROVE  Holds(q', q)
<1>1. PICK S : Good(q, S, {}, Unknown)
  BY DEF HInv
<1>2. Sound(q) /\ IsRegistry(q)
  BY <1>1 DEF Good, Sound, QueueTyped
<1>3. q'.active = q.active /\ q'.delayed = q.delayed /\ q'.sources = q.sources
  <2>1. ASSUME NEW j \in DOMAIN q.armed, CancelTaskOf(j)
        PROVE  q'.active = q.active /\ q'.delayed = q.delayed /\ q'.sources = q.sources
    <3>1. j \in DOMAIN q.active /\ Lost(q', q, j)
      BY <2>1 DEF CancelTaskOf, Lost
    <3>2. /\ Good(q', S \cup {[job |-> j, ticket |-> q.armed[j].ticket]}, {}, Unknown)
          /\ q'.active = q.active /\ q'.delayed = q.delayed /\ q'.on = q.on
          /\ q'.sources = q.sources /\ q'.next = q.next
          /\ q'.fate = [q.fate EXCEPT ![q.armed[j].ticket] = "cancelled"]
          /\ Onward(q', q, {})
      BY <1>1, <2>1, <3>1, LostEffect
    <3>. QED  BY <3>2
  <2>2. ASSUME NEW j \in flush.jobs, DrainRun(j)
        PROVE  q'.active = q.active /\ q'.delayed = q.delayed /\ q'.sources = q.sources
    <3>1. j \in DOMAIN q.active /\ j \in DOMAIN q.armed /\ Begun(q', q, j, q.active[j].ticket)
      BY <2>2 DEF DrainRun, Begun
    <3>2. /\ Good(q', S \cup {[job |-> j, ticket |-> q.active[j].ticket]}, {}, Unknown)
          /\ q'.active = q.active /\ q'.delayed = q.delayed /\ q'.on = q.on
          /\ q'.sources = q.sources /\ q'.next = q.next
          /\ q'.fate = [q.fate EXCEPT ![q.active[j].ticket] = "running"]
          /\ DOMAIN q'.armed = DOMAIN q.armed \ {j}
          /\ Onward(q', q, {})
      BY <1>1, <3>1, StartEffect
    <3>. QED  BY <3>2
  <2>3. CASE Toggle
    BY <1>2, <2>3 DEF Toggle, IsRegistry
  <2>4. CASE \/ \E j \in Registered(q) : Elapse(j)
             \/ \E x \in Objects : Watch(x)
             \/ FlushBegin \/ DrainEnd
             \/ UNCHANGED vars
    BY <2>4 DEF Elapse, Watch, FlushBegin, DrainEnd, vars
  <2>. QED  BY <2>1, <2>2, <2>3, <2>4
<1>. QED  BY <1>2, <1>3, SameHolds

LEMMA InactiveHolds ==
  ASSUME HInv, DInv, NEW j \in flush.jobs, DrainInactive(j)
  PROVE  Holds(q', q) /\ Ends(q', "dropped") \subseteq Ends(q, "dropped")
<1>. DEFINE rec == q.active[j]
<1>1. PICK S : Good(q, S, {}, Unknown)
  BY DEF HInv
<1>2. j \in DOMAIN q.active /\ j \in DOMAIN q.armed /\ ~IsActive(rec) /\ q' \in {Defer(q, j), Skip(q, j)}
  BY DEF DrainInactive
<1>3. Sound(q) /\ Backed(q) /\ QuotasMet(q)
  BY <1>1 DEF Good, DInv
<1>4. q.on /\ rec.obj # None /\ \A s \in q.sources : s.obj # rec.obj
  BY <1>2 DEF IsActive
<1>5. rec.defers = 0
  <2>1. PICK i : SourcesOf(j, rec) = {[obj |-> rec.obj, id |-> i]}
    BY <1>4 DEF SourcesOf
  <2>2. [obj |-> rec.obj, id |-> i] \in SourcesOf(j, rec)
    BY <2>1
  <2>3. ~(SourcesOf(j, rec) \subseteq q.sources)
    BY <1>4, <2>2
  <2>4. BackedBy(q.sources, j, rec)
    BY <1>2, <1>3 DEF Backed
  <2>. QED  BY <2>3, <2>4 DEF BackedBy
<1>6. Holds(Defer(q, j), q) /\ Ends(Defer(q, j), "dropped") \subseteq Ends(q, "dropped")
  BY <1>1, <1>2, <1>3, <1>4, <1>5, DeferHolds
<1>7. Holds(Skip(q, j), q)
  BY <1>2, <1>3, SkipHolds
<1>8. Ends(Skip(q, j), "dropped") \subseteq Ends(q, "dropped")
  <2>1. Skip(q, j) = Gone(q, j, "skipped")
    BY DEF Skip, Gone
  <2>2. IsRegistry(q)
    BY <1>3 DEF Sound, QueueTyped
  <2>. DEFINE n == Gone(q, j, "skipped")
              t == q.active[j].ticket
  <2>3. /\ n.active = Drop(q.active, j) /\ n.delayed = q.delayed
        /\ n.armed = Drop(q.armed, j) /\ n.on = q.on /\ n.next = q.next
        /\ n.sources = Left(q, j)
        /\ n.fate = Settle(q, q.active[j].ticket, "skipped").fate
    BY <1>2, <2>2, GoneFields
  <2>. HIDE DEF n
  <2>4. Settled(n, q, t, "skipped")
    BY <2>2, <2>3, SettleSettled
  <2>5. Ends(n, "dropped") \subseteq Ends(q, "dropped")
    BY <2>4 DEF Settled, Ends
  <2>. QED  BY <2>1, <2>5 DEF n
<1>. QED  BY <1>2, <1>6, <1>7, <1>8

LEMMA NextD ==
  ASSUME OwnerBehavior # "replace_oldest"
  PROVE  HInv /\ FInv /\ DInv /\ [Next]_vars => DInv'
<1>. SUFFICES ASSUME HInv, FInv, DInv, [Next]_vars PROVE DInv'
  OBVIOUS
<1>1. PICK S : Good(q, S, {}, Unknown) /\ Stand(q, S, running)
  BY DEF HInv
<1>2. Sound(q) /\ Backed(q) /\ QuotasMet(q)
  BY <1>1 DEF Good, DInv
<1>3. Holds(q', q)
  <2>1. ASSUME NEW r \in Requests, Submit(r) PROVE Holds(q', q)
    BY <1>2, <2>1, SubmitHolds
  <2>2. ASSUME NEW k \in Keys, CancelKey(k) \/ RescheduleKey(k) PROVE Holds(q', q)
    BY <1>2, <2>2, KeyHolds
  <2>3. CASE \/ \E j \in DOMAIN q.armed : CancelTaskOf(j)
             \/ \E j \in Registered(q) : Elapse(j)
             \/ Toggle
             \/ \E x \in Objects : Watch(x)
             \/ FlushBegin \/ DrainEnd
             \/ \E j \in flush.jobs : DrainRun(j)
             \/ UNCHANGED vars
    BY <1>2, <2>3, QuietHolds
  <2>4. CASE DrainRetry
    <3>1. q' = RetryDelayed(CancelTask(q, Min(flush.retries)), Min(flush.retries))
      BY <2>4 DEF DrainRetry
    <3>. QED  BY <1>2, <3>1, RetryHolds
  <2>5. ASSUME NEW j \in flush.jobs, DrainGone(j) PROVE Holds(q', q)
    <3>1. q' = PopJob(q, j)
      BY <2>5 DEF DrainGone
    <3>. QED  BY <1>2, <3>1, PopJobHolds
  <2>6. ASSUME NEW j \in flush.jobs, DrainInactive(j) PROVE Holds(q', q)
    BY <2>6, InactiveHolds
  <2>7. CASE Finish \/ Raise
    <3>1. Returned(q', q, running.job, running.ticket)
      BY <2>7 DEF Finish, Raise, PopRunning, Returned
    <3>. QED  BY <1>2, <3>1, ReturnedHolds
  <2>. QED  BY <2>1, <2>2, <2>3, <2>4, <2>5, <2>6, <2>7 DEF Next
<1>4. Ends(q', "dropped") \subseteq Ends(q, "dropped")
  <2>1. Onward(q', q, Plainly) \/ \E j \in flush.jobs : DrainInactive(j)
    BY HarnessStep
  <2>2. ASSUME NEW j \in flush.jobs, DrainInactive(j) PROVE Ends(q', "dropped") \subseteq Ends(q, "dropped")
    BY <2>2, InactiveHolds
  <2>3. CASE Onward(q', q, Plainly)
    BY <2>3 DEF Onward, OutOfInterest
  <2>. QED  BY <2>1, <2>2, <2>3
<1>5. QuotasMet(q')
  BY <1>2, <1>3 DEF Holds, QuotasKept, QuotasMet
<1>6. Backed(q') /\ Ends(q', "dropped") = {}
  BY <1>3, <1>4 DEF Holds, DInv
<1>. QED  BY <1>5, <1>6 DEF DInv

LEMMA InitD == Init => DInv
<1>. SUFFICES ASSUME Init PROVE DInv
  OBVIOUS
<1>1. q.active = <<>> /\ q.delayed = <<>> /\ q.fate = <<>> /\ DOMAIN <<>> = {}
  BY DEF Init, EmptyQueue
<1>2. DOMAIN q.active = {} /\ DOMAIN q.delayed = {} /\ DOMAIN q.fate = {}
  BY <1>1
<1>3. Backed(q) /\ Ends(q, "dropped") = {}
  BY <1>2 DEF Backed, Ends
<1>4. \A o : OwnedBy(q, o) = {} /\ InSystem(q, o) = {}
  BY <1>2 DEF OwnedBy, InSystem
<1>5. Cardinality({}) = 0
  BY FS_EmptySet
<1>6. QuotasMet(q)
  <2>1. /\ \A o : Cardinality(OwnedBy(q, o)) = 0 /\ Cardinality(InSystem(q, o)) = 0
        /\ Cardinality(DOMAIN q.active) = 0
    BY <1>2, <1>4, <1>5
  <2>2. 0 <= MaxPerOwner /\ 0 <= MaxPerSystem /\ 0 <= MaxTotal
    BY QueueAssumption
  <2>. QED  BY <2>1, <2>2 DEF QuotasMet, OwnersMet, SystemsMet, TotalMet
<1>. QED  BY <1>3, <1>6 DEF DInv

\* Whatever happens to the flag, no job is deferred twice and none is given up:
\* deferring it registers the source it lacked, for there is room for it.
THEOREM DeferralsCorrect ==
  ASSUME OwnerBehavior # "replace_oldest"
  PROVE  Spec => []DeferredAtMostOnce
<1>1. DInv => DeferredAtMostOnce
  <2>. SUFFICES ASSUME DInv PROVE DeferredAtMostOnce
    OBVIOUS
  <2>1. ASSUME NEW j \in DOMAIN q.active PROVE q.active[j].defers <= 1
    BY DEF DInv, Backed, BackedBy
  <2>2. ASSUME NEW t \in DOMAIN q.fate, q.fate[t] = "dropped" PROVE FALSE
    BY <2>2 DEF DInv, Ends
  <2>. QED  BY <2>1, <2>2 DEF DeferredAtMostOnce
<1>2. HInv /\ FInv /\ DInv /\ [Next]_vars => DInv'
  BY NextD
<1>. QED  BY <1>1, <1>2, InitD, HarnessInit, HarnessNext, PTL DEF Spec
=============================================================================
