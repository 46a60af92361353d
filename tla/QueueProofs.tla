----------------------------- MODULE QueueProofs -----------------------------
(***************************************************************************)
(* Every operator of SchedulerQueue.tla keeps the registry consistent, for *)
(* every value of the constants.  The proofs about the two modules that    *)
(* drive the registry rest on these lemmas.                                *)
(*                                                                         *)
(* Sound(p) is inductive for each operator: types, and key indexes that    *)
(* agree with the job tables.  There is one lemma per operator: first what *)
(* it does to the fields of the registry, then that it keeps Sound.        *)
(* Smaller(n, p) and Later(n, p) carry along what the next operator of a   *)
(* composition needs.                                                      *)
(*                                                                         *)
(* Good(p, S, H, X) adds the timers, the interest sources and the tickets. *)
(* S holds the job and the ticket of each job whose timer is gone (its     *)
(* callback is on the stack, or its task was cancelled); H is the ticket   *)
(* in hand, which a composed operator has taken from one job and will give *)
(* to the next: it is the reason why WaitsOnce can fail in the middle of   *)
(* reschedule() and hold at its end; X are the sources that the flag has   *)
(* put out of step.                                                        *)
(***************************************************************************)
EXTENDS SchedulerCalls, TLAPS, FiniteSetTheorems, WellFoundedInduction

Sound(p) == QueueTyped(p) /\ KeysIndexed(p)

\* n is p with jobs removed: no new ids, tickets or keys.
Smaller(n, p) ==
  /\ Sound(n)
  /\ n.next = p.next /\ DOMAIN n.fate = DOMAIN p.fate
  /\ DOMAIN n.keyJob \subseteq DOMAIN p.keyJob
  /\ DOMAIN n.delayedKey \subseteq DOMAIN p.delayedKey

\* n comes after p: ids and tickets are never taken back.
Later(n, p) ==
  /\ Sound(n)
  /\ p.next <= n.next /\ DOMAIN p.fate \subseteq DOMAIN n.fate

-----------------------------------------------------------------------------
(* Dictionaries *)

LEMMA DropDomain ==
  ASSUME NEW f, NEW x
  PROVE  DOMAIN Drop(f, x) = DOMAIN f \ {x}
  BY DEF Drop, Restrict

LEMMA DropApply ==
  ASSUME NEW f, NEW x, NEW y \in DOMAIN f \ {x}
  PROVE  Drop(f, x)[y] = f[y]
  BY DEF Drop, Restrict

LEMMA PutDomain ==
  ASSUME NEW f, NEW x, NEW v
  PROVE  DOMAIN Put(f, x, v) = DOMAIN f \cup {x}
  BY DEF Put

LEMMA PutApply ==
  ASSUME NEW f, NEW x, NEW v, NEW y \in DOMAIN f \cup {x}
  PROVE  Put(f, x, v)[y] = IF y = x THEN v ELSE f[y]
  BY DEF Put

LEMMA DropTyped ==
  ASSUME NEW f, NEW x, NEW fate, NEW next
  PROVE  /\ IdsBelow(DOMAIN f, next) => IdsBelow(DOMAIN Drop(f, x), next)
         /\ RecordsTyped(f, fate) => RecordsTyped(Drop(f, x), fate)
         /\ TasksTyped(f, fate) => TasksTyped(Drop(f, x), fate)
<1>1. IdsBelow(DOMAIN f, next) => IdsBelow(DOMAIN Drop(f, x), next)
  BY DropDomain DEF IdsBelow
<1>2. RecordsTyped(f, fate) => RecordsTyped(Drop(f, x), fate)
  BY DEF RecordsTyped, Drop, Restrict
<1>3. TasksTyped(f, fate) => TasksTyped(Drop(f, x), fate)
  BY DEF TasksTyped, Drop, Restrict
<1>. QED  BY <1>1, <1>2, <1>3

LEMMA PutRecordTyped ==
  ASSUME NEW f, NEW x, NEW fate, RecordsTyped(f, fate),
         NEW v \in Request, v.ticket \in DOMAIN fate
  PROVE  RecordsTyped(Put(f, x, v), fate)
  BY DEF RecordsTyped, Put

LEMMA PutTaskTyped ==
  ASSUME NEW f, NEW x, NEW fate, TasksTyped(f, fate),
         NEW v \in [kind : {"run", "retry"}, ticket : DOMAIN fate]
  PROVE  TasksTyped(Put(f, x, v), fate)
  BY DEF TasksTyped, Put

LEMMA MoreTickets ==
  ASSUME NEW f, NEW fate, NEW more, DOMAIN fate \subseteq DOMAIN more
  PROVE  /\ RecordsTyped(f, fate) => RecordsTyped(f, more)
         /\ TasksTyped(f, fate) => TasksTyped(f, more)
<1>1. RecordsTyped(f, fate) => RecordsTyped(f, more)
  BY DEF RecordsTyped
<1>2. ASSUME TasksTyped(f, fate) PROVE TasksTyped(f, more)
  <2>. SUFFICES ASSUME NEW j \in DOMAIN f
                PROVE  f[j] \in [kind : {"run", "retry"}, ticket : DOMAIN more]
    BY DEF TasksTyped
  <2>1. f[j] \in [kind : {"run", "retry"}, ticket : DOMAIN fate]
    BY <1>2 DEF TasksTyped
  <2>. QED  BY <2>1
<1>. QED  BY <1>1, <1>2

-----------------------------------------------------------------------------
(* Fewer jobs, later states *)

LEMMA SmallerIsLater ==
  ASSUME NEW n, NEW p, Smaller(n, p), Sound(p)
  PROVE  Later(n, p)
  BY DEF Smaller, Later, Sound, QueueTyped

LEMMA SmallerTrans ==
  ASSUME NEW n, NEW m, NEW p, Smaller(n, m), Smaller(m, p)
  PROVE  Smaller(n, p)
  BY DEF Smaller

LEMMA LaterTrans ==
  ASSUME NEW n, NEW m, NEW p, Later(n, m), Later(m, p), Sound(p)
  PROVE  Later(n, p)
  BY DEF Later, Sound, QueueTyped

LEMMA CancelTaskFields ==
  ASSUME NEW p, IsRegistry(p), NEW j, NEW n, n = CancelTask(p, j)
  PROVE  /\ IsRegistry(n)
         /\ n.active = p.active /\ n.keyJob = p.keyJob
         /\ n.delayed = p.delayed /\ n.delayedKey = p.delayedKey
         /\ n.armed = Drop(p.armed, j) /\ n.sources = p.sources
         /\ n.on = p.on /\ n.fate = p.fate /\ n.next = p.next
  BY DEF IsRegistry, CancelTask

LEMMA CancelTaskSmaller ==
  ASSUME NEW p, Sound(p), NEW j
  PROVE  Smaller(CancelTask(p, j), p)
<1>. DEFINE n == CancelTask(p, j)
<1>1. /\ IsRegistry(n)
      /\ n.active = p.active /\ n.keyJob = p.keyJob
      /\ n.delayed = p.delayed /\ n.delayedKey = p.delayedKey
      /\ n.armed = Drop(p.armed, j) /\ n.sources = p.sources
      /\ n.on = p.on /\ n.fate = p.fate /\ n.next = p.next
  BY CancelTaskFields DEF Sound, QueueTyped
<1>. HIDE DEF n
<1>2. QueueTyped(n)
  BY <1>1, DropTyped DEF Sound, QueueTyped
<1>3. KeysIndexed(n)
  BY <1>1 DEF Sound, KeysIndexed, Maps
<1>4. Smaller(n, p)
  BY <1>1, <1>2, <1>3 DEF Sound, Smaller
<1>. QED  BY <1>4 DEF n

LEMMA SettleFields ==
  ASSUME NEW p, IsRegistry(p), NEW t, NEW f, NEW n, n = Settle(p, t, f)
  PROVE  /\ IsRegistry(n)
         /\ n.active = p.active /\ n.keyJob = p.keyJob
         /\ n.delayed = p.delayed /\ n.delayedKey = p.delayedKey
         /\ n.armed = p.armed /\ n.sources = p.sources
         /\ n.on = p.on /\ n.next = p.next
         /\ n.fate = IF Maps(p.fate, t, "pending") THEN [p.fate EXCEPT ![t] = f] ELSE p.fate
  BY DEF IsRegistry, Settle

LEMMA SettleSmaller ==
  ASSUME NEW p, Sound(p), NEW t, NEW f \in Fates
  PROVE  Smaller(Settle(p, t, f), p)
<1>. DEFINE n == Settle(p, t, f)
            g == IF Maps(p.fate, t, "pending") THEN [p.fate EXCEPT ![t] = f] ELSE p.fate
<1>1. /\ IsRegistry(n)
      /\ n.active = p.active /\ n.keyJob = p.keyJob
      /\ n.delayed = p.delayed /\ n.delayedKey = p.delayedKey
      /\ n.armed = p.armed /\ n.sources = p.sources
      /\ n.on = p.on /\ n.next = p.next /\ n.fate = g
  BY SettleFields DEF Sound, QueueTyped
<1>2. DOMAIN g = DOMAIN p.fate
  OBVIOUS
<1>3. \A u \in DOMAIN g : g[u] \in Fates
  BY DEF Sound, QueueTyped
<1>. HIDE DEF n, g
<1>4. QueueTyped(n)
  BY <1>1, <1>2, <1>3, MoreTickets DEF Sound, QueueTyped
<1>5. KeysIndexed(n)
  BY <1>1 DEF Sound, KeysIndexed, Maps
<1>6. Smaller(n, p)
  BY <1>1, <1>2, <1>4, <1>5 DEF Sound, Smaller
<1>. QED  BY <1>6 DEF n

-----------------------------------------------------------------------------
(* Removing jobs *)

LEMMA PopJobFields ==
  ASSUME NEW p, IsRegistry(p), NEW j \in DOMAIN p.active, NEW n, n = PopJob(p, j)
  PROVE  /\ IsRegistry(n)
         /\ n.active = Drop(p.active, j)
         /\ n.keyJob = IF Maps(p.keyJob, p.active[j].key, j)
                       THEN Drop(p.keyJob, p.active[j].key) ELSE p.keyJob
         /\ n.delayed = p.delayed /\ n.delayedKey = p.delayedKey
         /\ n.armed = p.armed /\ n.on = p.on /\ n.fate = p.fate /\ n.next = p.next
         /\ n.sources = IF p.on THEN p.sources \ SourcesOf(j, p.active[j]) ELSE p.sources
<1>. DEFINE k == p.active[j].key
            keyJob == IF Maps(p.keyJob, k, j) THEN Drop(p.keyJob, k) ELSE p.keyJob
            sources == IF p.on THEN p.sources \ SourcesOf(j, p.active[j]) ELSE p.sources
<1>1. RemoveInterest(p, j, p.active[j]) = [p EXCEPT !.sources = sources]
  BY DEF RemoveInterest, IsRegistry
<1>2. n = [[p EXCEPT !.sources = sources]
             EXCEPT !.active = Drop(p.active, j), !.keyJob = keyJob]
  BY <1>1 DEF PopJob, IsRegistry
<1>. HIDE DEF sources, keyJob
<1>3. /\ IsRegistry(n)
      /\ n.active = Drop(p.active, j) /\ n.keyJob = keyJob
      /\ n.delayed = p.delayed /\ n.delayedKey = p.delayedKey
      /\ n.armed = p.armed /\ n.on = p.on /\ n.fate = p.fate /\ n.next = p.next
      /\ n.sources = sources
  BY <1>2 DEF IsRegistry
<1>. QED  BY <1>3 DEF sources, keyJob

\* Removing an unrelated key's entry never leaves an index behind.
LEMMA PopJobSmaller ==
  ASSUME NEW p, Sound(p), NEW j
  PROVE  /\ Smaller(PopJob(p, j), p)
         /\ j \in DOMAIN p.active => p.active[j].key \notin DOMAIN PopJob(p, j).keyJob
<1>1. CASE j \notin DOMAIN p.active
  BY <1>1 DEF PopJob, Smaller
<1>2. CASE j \in DOMAIN p.active
  <2>. DEFINE n == PopJob(p, j)
              k == p.active[j].key
  <2>1. /\ IsRegistry(n)
        /\ n.active = Drop(p.active, j)
        /\ n.keyJob = IF Maps(p.keyJob, k, j) THEN Drop(p.keyJob, k) ELSE p.keyJob
        /\ n.delayed = p.delayed /\ n.delayedKey = p.delayedKey
        /\ n.armed = p.armed /\ n.on = p.on /\ n.fate = p.fate /\ n.next = p.next
        /\ n.sources = IF p.on THEN p.sources \ SourcesOf(j, p.active[j]) ELSE p.sources
    BY <1>2, PopJobFields DEF Sound, QueueTyped
  <2>. HIDE DEF n
  <2>1a. SourcesTyped(n.sources)
    BY <2>1 DEF Sound, QueueTyped, SourcesTyped
  <2>2. DOMAIN n.active = DOMAIN p.active \ {j}
    BY <2>1, DropDomain
  <2>3. \A i \in DOMAIN n.active : n.active[i] = p.active[i]
    BY <2>1, <2>2, DropApply
  <2>4. k = None => k \notin DOMAIN p.keyJob
    BY QueueAssumption DEF Sound, QueueTyped
  <2>5. k # None => Maps(p.keyJob, k, j)
    BY <1>2 DEF Sound, KeysIndexed
  <2>6. DOMAIN n.keyJob = DOMAIN p.keyJob \ {k}
    <3>1. CASE k = None
      <4>1. k \notin DOMAIN p.keyJob
        BY <2>4, <3>1
      <4>2. n.keyJob = p.keyJob
        BY <2>1, <4>1 DEF Maps
      <4>. QED  BY <4>1, <4>2
    <3>2. CASE k # None
      <4>1. n.keyJob = Drop(p.keyJob, k)
        BY <2>1, <2>5, <3>2
      <4>. QED  BY <4>1, DropDomain
    <3>. QED  BY <3>1, <3>2
  <2>7. \A l \in DOMAIN n.keyJob : n.keyJob[l] = p.keyJob[l]
    BY <2>1, <2>6, DropApply
  <2>8. QueueTyped(n)
    BY <2>1, <2>6, <2>1a, DropTyped DEF Sound, QueueTyped
  <2>9. KeysIndexed(n)
    <3>1. ASSUME NEW l \in DOMAIN n.keyJob
          PROVE  n.keyJob[l] \in DOMAIN n.active /\ n.active[n.keyJob[l]].key = l
      BY <2>2, <2>3, <2>6, <2>7 DEF Sound, KeysIndexed
    <3>2. ASSUME NEW i \in DOMAIN n.active, n.active[i].key # None
          PROVE  Maps(n.keyJob, n.active[i].key, i)
      <4>1. /\ i \in DOMAIN p.active /\ i # j
            /\ p.active[i].key = n.active[i].key
        BY <2>2, <2>3
      <4>2. Maps(p.keyJob, p.active[i].key, i)
        BY <3>2, <4>1 DEF Sound, KeysIndexed
      <4>3. p.active[i].key # k
        BY <2>5, <3>2, <4>1, <4>2 DEF Maps
      <4>. QED  BY <2>6, <2>7, <4>1, <4>2, <4>3 DEF Maps
    <3>3. DOMAIN n.keyJob \cap DOMAIN n.delayedKey = {}
      BY <2>1, <2>6 DEF Sound, KeysIndexed
    <3>. QED  BY <2>1, <3>1, <3>2, <3>3 DEF Sound, KeysIndexed
  <2>10. Smaller(n, p) /\ k \notin DOMAIN n.keyJob
    BY <2>1, <2>6, <2>8, <2>9 DEF Sound, Smaller
  <2>. QED  BY <2>10 DEF n
<1>. QED  BY <1>1, <1>2

LEMMA PopDelayedFields ==
  ASSUME NEW p, IsRegistry(p), NEW j \in DOMAIN p.delayed, NEW n, n = PopDelayed(p, j)
  PROVE  /\ IsRegistry(n)
         /\ n.delayed = Drop(p.delayed, j)
         /\ n.delayedKey = IF Maps(p.delayedKey, p.delayed[j].key, j)
                           THEN Drop(p.delayedKey, p.delayed[j].key) ELSE p.delayedKey
         /\ n.active = p.active /\ n.keyJob = p.keyJob
         /\ n.armed = p.armed /\ n.on = p.on /\ n.fate = p.fate /\ n.next = p.next
         /\ n.sources = p.sources
  BY DEF IsRegistry, PopDelayed

LEMMA PopDelayedSmaller ==
  ASSUME NEW p, Sound(p), NEW j
  PROVE  /\ Smaller(PopDelayed(p, j), p)
         /\ j \in DOMAIN p.delayed => p.delayed[j].key \notin DOMAIN PopDelayed(p, j).delayedKey
<1>1. CASE j \notin DOMAIN p.delayed
  BY <1>1 DEF PopDelayed, Smaller
<1>2. CASE j \in DOMAIN p.delayed
  <2>. DEFINE n == PopDelayed(p, j)
              k == p.delayed[j].key
  <2>1. /\ IsRegistry(n)
        /\ n.delayed = Drop(p.delayed, j)
        /\ n.delayedKey = IF Maps(p.delayedKey, k, j) THEN Drop(p.delayedKey, k) ELSE p.delayedKey
        /\ n.active = p.active /\ n.keyJob = p.keyJob
        /\ n.armed = p.armed /\ n.on = p.on /\ n.fate = p.fate /\ n.next = p.next
        /\ n.sources = p.sources
    BY <1>2, PopDelayedFields DEF Sound, QueueTyped
  <2>. HIDE DEF n
  <2>2. DOMAIN n.delayed = DOMAIN p.delayed \ {j}
    BY <2>1, DropDomain
  <2>3. \A i \in DOMAIN n.delayed : n.delayed[i] = p.delayed[i]
    BY <2>1, <2>2, DropApply
  <2>4. k = None => k \notin DOMAIN p.delayedKey
    BY QueueAssumption DEF Sound, QueueTyped
  <2>5. k # None => Maps(p.delayedKey, k, j)
    BY <1>2 DEF Sound, KeysIndexed
  <2>6. DOMAIN n.delayedKey = DOMAIN p.delayedKey \ {k}
    <3>1. CASE k = None
      <4>1. k \notin DOMAIN p.delayedKey
        BY <2>4, <3>1
      <4>2. n.delayedKey = p.delayedKey
        BY <2>1, <4>1 DEF Maps
      <4>. QED  BY <4>1, <4>2
    <3>2. CASE k # None
      <4>1. n.delayedKey = Drop(p.delayedKey, k)
        BY <2>1, <2>5, <3>2
      <4>. QED  BY <4>1, DropDomain
    <3>. QED  BY <3>1, <3>2
  <2>7. \A l \in DOMAIN n.delayedKey : n.delayedKey[l] = p.delayedKey[l]
    BY <2>1, <2>6, DropApply
  <2>8. QueueTyped(n)
    BY <2>1, <2>6, DropTyped DEF Sound, QueueTyped
  <2>9. KeysIndexed(n)
    <3>1. ASSUME NEW l \in DOMAIN n.delayedKey
          PROVE  n.delayedKey[l] \in DOMAIN n.delayed /\ n.delayed[n.delayedKey[l]].key = l
      BY <2>2, <2>3, <2>6, <2>7 DEF Sound, KeysIndexed
    <3>2. ASSUME NEW i \in DOMAIN n.delayed, n.delayed[i].key # None
          PROVE  Maps(n.delayedKey, n.delayed[i].key, i)
      <4>1. /\ i \in DOMAIN p.delayed /\ i # j
            /\ p.delayed[i].key = n.delayed[i].key
        BY <2>2, <2>3
      <4>2. Maps(p.delayedKey, p.delayed[i].key, i)
        BY <3>2, <4>1 DEF Sound, KeysIndexed
      <4>3. p.delayed[i].key # k
        BY <2>5, <3>2, <4>1, <4>2 DEF Maps
      <4>. QED  BY <2>6, <2>7, <4>1, <4>2, <4>3 DEF Maps
    <3>3. DOMAIN n.keyJob \cap DOMAIN n.delayedKey = {}
      BY <2>1, <2>6 DEF Sound, KeysIndexed
    <3>. QED  BY <2>1, <3>1, <3>2, <3>3 DEF Sound, KeysIndexed
  <2>10. Smaller(n, p) /\ k \notin DOMAIN n.delayedKey
    BY <2>1, <2>6, <2>8, <2>9 DEF Sound, Smaller
  <2>. QED  BY <2>10 DEF n
<1>. QED  BY <1>1, <1>2

\* cancel() leaves the key free, whichever table held it.
LEMMA CancelSmaller ==
  ASSUME NEW p, Sound(p), NEW k, NEW why \in Fates
  PROVE  Smaller(Cancel(p, k, why), p) /\ ~Held(Cancel(p, k, why), k)
<1>1. CASE HasActive(p, k)
  <2>. DEFINE j == p.keyJob[k]
              a == Settle(p, p.active[j].ticket, why)
              b == PopJob(a, j)
  <2>1. Cancel(p, k, why) = CancelTask(b, j)
    BY <1>1 DEF Cancel
  <2>2. j \in DOMAIN p.active /\ p.active[j].key = k /\ k \notin DOMAIN p.delayedKey
    BY <1>1 DEF HasActive, Sound, KeysIndexed
  <2>3. Smaller(a, p) /\ a.active = p.active
    <3>1. Smaller(a, p)
      BY SettleSmaller
    <3>2. a.active = p.active
      BY DEF Settle, Sound, QueueTyped, IsRegistry
    <3>. QED  BY <3>1, <3>2
  <2>. HIDE DEF a
  <2>4. Smaller(b, a) /\ k \notin DOMAIN b.keyJob
    BY <2>2, <2>3, PopJobSmaller DEF Smaller
  <2>. HIDE DEF b
  <2>5. Smaller(CancelTask(b, j), b)
    BY <2>4, CancelTaskSmaller DEF Smaller
  <2>. QED  BY <2>1, <2>2, <2>3, <2>4, <2>5, SmallerTrans DEF Smaller, Held
<1>2. CASE ~HasActive(p, k) /\ HasDelayed(p, k)
  <2>. DEFINE j == p.delayedKey[k]
              a == Settle(p, p.delayed[j].ticket, why)
              b == PopDelayed(a, j)
  <2>1. Cancel(p, k, why) = CancelTask(b, j)
    BY <1>2 DEF Cancel
  <2>2. j \in DOMAIN p.delayed /\ p.delayed[j].key = k /\ k \notin DOMAIN p.keyJob
    BY <1>2 DEF HasDelayed, Sound, KeysIndexed
  <2>3. Smaller(a, p) /\ a.delayed = p.delayed
    <3>1. Smaller(a, p)
      BY SettleSmaller
    <3>2. a.delayed = p.delayed
      BY DEF Settle, Sound, QueueTyped, IsRegistry
    <3>. QED  BY <3>1, <3>2
  <2>. HIDE DEF a
  <2>4. Smaller(b, a) /\ k \notin DOMAIN b.delayedKey
    BY <2>2, <2>3, PopDelayedSmaller DEF Smaller
  <2>. HIDE DEF b
  <2>5. Smaller(CancelTask(b, j), b)
    BY <2>4, CancelTaskSmaller DEF Smaller
  <2>. QED  BY <2>1, <2>2, <2>3, <2>4, <2>5, SmallerTrans DEF Smaller, Held
<1>3. CASE ~HasActive(p, k) /\ ~HasDelayed(p, k)
  <2>1. Cancel(p, k, why) = p
    BY <1>3 DEF Cancel
  <2>2. ~Held(p, k)
    BY <1>3 DEF Held, HasActive, HasDelayed, Sound, KeysIndexed
  <2>. QED  BY <2>1, <2>2 DEF Smaller
<1>. QED  BY <1>1, <1>2, <1>3

-----------------------------------------------------------------------------
(* Adding jobs *)

\* A request the registry can take: of the right type, for a ticket that is
\* known or the next one, under a key nobody holds.
Fits(p, r) == r \in Request /\ r.ticket \in DOMAIN p.fate \cup {p.next}
Free(p, r) == ~Held(p, r.key)

LEMMA FitsSmaller ==
  ASSUME NEW n, NEW p, Smaller(n, p), NEW r, Fits(p, r)
  PROVE  Fits(n, r) /\ (Free(p, r) => Free(n, r))
  BY DEF Smaller, Fits, Free, Held

LEMMA AcceptFields ==
  ASSUME NEW p, IsRegistry(p), NEW t
  PROVE  /\ Accept(p, t) = [p EXCEPT !.fate = Accept(p, t).fate]
         /\ DOMAIN Accept(p, t).fate = DOMAIN p.fate \cup {t}
         /\ (\A u \in DOMAIN p.fate : p.fate[u] \in Fates)
              => \A u \in DOMAIN Accept(p, t).fate : Accept(p, t).fate[u] \in Fates
<1>. DEFINE g == IF t \in DOMAIN p.fate THEN p.fate ELSE Put(p.fate, t, "pending")
<1>1. Accept(p, t) = [p EXCEPT !.fate = g] /\ Accept(p, t).fate = g
  BY DEF Accept, IsRegistry
<1>2. DOMAIN g = DOMAIN p.fate \cup {t}
  BY PutDomain
<1>3. (\A u \in DOMAIN p.fate : p.fate[u] \in Fates) => \A u \in DOMAIN g : g[u] \in Fates
  BY DEF Put, Fates
<1>. HIDE DEF g
<1>. QED  BY <1>1, <1>2, <1>3

LEMMA InsertFields ==
  ASSUME NEW p, IsRegistry(p), NEW r, NEW n, n = Insert(p, r)
  PROVE  /\ IsRegistry(n)
         /\ n.active = Put(p.active, p.next, [r EXCEPT !.attempt = 0])
         /\ n.keyJob = IF r.key = None THEN p.keyJob ELSE Put(p.keyJob, r.key, p.next)
         /\ n.delayed = p.delayed /\ n.delayedKey = p.delayedKey
         /\ n.armed = Put(p.armed, p.next, [kind |-> "run", ticket |-> r.ticket])
         /\ n.sources = IF p.on THEN p.sources \cup SourcesOf(p.next, r) ELSE p.sources
         /\ n.on = p.on /\ n.next = p.next + 1
         /\ n.fate = Accept(p, r.ticket).fate
<1>. DEFINE fate == Accept(p, r.ticket).fate
            sources == IF p.on THEN p.sources \cup SourcesOf(p.next, r) ELSE p.sources
            keyJob == IF r.key = None THEN p.keyJob ELSE Put(p.keyJob, r.key, p.next)
            active == Put(p.active, p.next, [r EXCEPT !.attempt = 0])
            armed == Put(p.armed, p.next, [kind |-> "run", ticket |-> r.ticket])
            a == [p EXCEPT !.fate = fate]
            b == [a EXCEPT !.sources = sources]
<1>1. Accept(p, r.ticket) = a
  BY AcceptFields
<1>. HIDE DEF fate, sources, active, armed, keyJob
<1>2. a.on = p.on /\ a.sources = p.sources /\ a = [a EXCEPT !.sources = p.sources]
  BY DEF IsRegistry
<1>3. AddInterest(Accept(p, r.ticket), p.next, r) = b
  BY <1>1, <1>2 DEF AddInterest, sources
<1>4. b.active = p.active /\ b.keyJob = p.keyJob /\ b.armed = p.armed
  BY DEF IsRegistry
<1>5. n = [b EXCEPT !.active = active, !.keyJob = keyJob, !.armed = armed, !.next = p.next + 1]
  BY <1>3, <1>4 DEF Insert, active, keyJob, armed
<1>6. /\ IsRegistry(n) /\ n.active = active /\ n.keyJob = keyJob /\ n.armed = armed
      /\ n.delayed = p.delayed /\ n.delayedKey = p.delayedKey
      /\ n.sources = sources /\ n.on = p.on /\ n.next = p.next + 1 /\ n.fate = fate
  BY <1>5 DEF IsRegistry
<1>. QED  BY <1>6 DEF fate, sources, active, armed, keyJob

LEMMA InsertLater ==
  ASSUME NEW p, Sound(p), NEW r, Fits(p, r), Free(p, r)
  PROVE  Later(Insert(p, r), p)
<1>. DEFINE n == Insert(p, r)
            j == p.next
            rec == [r EXCEPT !.attempt = 0]
<1>0. rec \in Request /\ rec.key = r.key /\ rec.ticket = r.ticket
  BY DEF Fits, Request
<1>1. /\ IsRegistry(n)
      /\ n.active = Put(p.active, j, rec)
      /\ n.keyJob = IF r.key = None THEN p.keyJob ELSE Put(p.keyJob, r.key, j)
      /\ n.delayed = p.delayed /\ n.delayedKey = p.delayedKey
      /\ n.armed = Put(p.armed, j, [kind |-> "run", ticket |-> r.ticket])
      /\ n.sources = IF p.on THEN p.sources \cup SourcesOf(j, r) ELSE p.sources
      /\ n.on = p.on /\ n.next = j + 1
      /\ n.fate = Accept(p, r.ticket).fate
  BY InsertFields DEF Sound, QueueTyped
<1>. HIDE DEF n, rec
<1>2. DOMAIN n.fate = DOMAIN p.fate \cup {r.ticket}
  BY <1>1, AcceptFields DEF Sound, QueueTyped
<1>3. \A t \in DOMAIN n.fate : n.fate[t] \in Fates
  BY <1>1, AcceptFields DEF Sound, QueueTyped
<1>4. j \in Nat \ {0} /\ j \notin DOMAIN p.active
  BY DEF Sound, QueueTyped, IdsBelow
<1>5. DOMAIN n.active = DOMAIN p.active \cup {j} /\ DOMAIN n.armed = DOMAIN p.armed \cup {j}
  <2>1. n.active = Put(p.active, j, rec)
    BY <1>1
  <2>2. n.armed = Put(p.armed, j, [kind |-> "run", ticket |-> r.ticket])
    BY <1>1
  <2>3. DOMAIN n.active = DOMAIN p.active \cup {j}
    BY <2>1 DEF Put
  <2>4. DOMAIN n.armed = DOMAIN p.armed \cup {j}
    BY <2>2 DEF Put
  <2>. QED  BY <2>3, <2>4
<1>5a. /\ DOMAIN n.keyJob = IF r.key = None THEN DOMAIN p.keyJob ELSE DOMAIN p.keyJob \cup {r.key}
       /\ \A k \in DOMAIN n.keyJob : n.keyJob[k] = IF k = r.key THEN j ELSE p.keyJob[k]
  <2>1. CASE r.key = None
    BY <1>1, <2>1 DEF Free, Held
  <2>2. CASE r.key # None
    <3>1. n.keyJob = Put(p.keyJob, r.key, j)
      BY <1>1, <2>2
    <3>. QED  BY <2>2, <3>1 DEF Put
  <2>. QED  BY <2>1, <2>2
<1>6. QueueTyped(n)
  <2>1. /\ IdsBelow(DOMAIN n.active, n.next) /\ IdsBelow(DOMAIN n.delayed, n.next)
        /\ IdsBelow(DOMAIN n.armed, n.next) /\ IdsBelow(DOMAIN n.fate, n.next)
    BY <1>1, <1>2, <1>4, <1>5 DEF Sound, QueueTyped, IdsBelow, Fits
  <2>2. RecordsTyped(n.active, n.fate)
    BY <1>0, <1>1, <1>2, MoreTickets, PutRecordTyped DEF Sound, QueueTyped
  <2>3. RecordsTyped(n.delayed, n.fate)
    BY <1>1, <1>2, MoreTickets DEF Sound, QueueTyped
  <2>4. TasksTyped(n.armed, n.fate)
    <3>1. TasksTyped(p.armed, n.fate)
      BY <1>2, MoreTickets DEF Sound, QueueTyped
    <3>2. [kind |-> "run", ticket |-> r.ticket] \in [kind : {"run", "retry"}, ticket : DOMAIN n.fate]
      BY <1>2
    <3>. QED  BY <1>1, <3>1, <3>2, PutTaskTyped
  <2>5. SourcesTyped(n.sources)
    <3>1. SourcesTyped(SourcesOf(j, r))
      BY <1>4 DEF SourcesTyped, SourcesOf, Fits, Request
    <3>. QED  BY <1>1, <3>1 DEF SourcesTyped, Sound, QueueTyped
  <2>6. DOMAIN n.keyJob \subseteq Keys
    BY <1>5a DEF Fits, Request, Sound, QueueTyped
  <2>. QED  BY <1>1, <1>3, <1>4, <2>1, <2>2, <2>3, <2>4, <2>5, <2>6 DEF Sound, QueueTyped
<1>7. KeysIndexed(n)
  <2>1. \A i \in DOMAIN p.active : i # j /\ n.active[i] = p.active[i]
    BY <1>1, <1>4, PutApply
  <2>2. n.active[j] = rec
    BY <1>1, PutApply
  <2>3. \A k \in DOMAIN n.keyJob : n.keyJob[k] = IF k = r.key THEN j ELSE p.keyJob[k]
    BY <1>5a
  <2>4. DOMAIN n.keyJob = IF r.key = None THEN DOMAIN p.keyJob ELSE DOMAIN p.keyJob \cup {r.key}
    BY <1>5a
  <2>5. ASSUME NEW k \in DOMAIN n.keyJob
        PROVE  n.keyJob[k] \in DOMAIN n.active /\ n.active[n.keyJob[k]].key = k
    <3>1. CASE k = r.key
      BY <1>0, <1>5, <2>2, <2>3, <3>1
    <3>2. CASE k # r.key
      <4>1. k \in DOMAIN p.keyJob /\ n.keyJob[k] = p.keyJob[k]
        BY <2>3, <2>4, <3>2
      <4>2. p.keyJob[k] \in DOMAIN p.active /\ p.active[p.keyJob[k]].key = k
        BY <4>1 DEF Sound, KeysIndexed
      <4>. QED  BY <1>5, <2>1, <4>1, <4>2
    <3>. QED  BY <3>1, <3>2
  <2>6. ASSUME NEW i \in DOMAIN n.active, n.active[i].key # None
        PROVE  Maps(n.keyJob, n.active[i].key, i)
    <3>1. CASE i = j
      BY <1>0, <2>2, <2>3, <2>4, <2>6, <3>1 DEF Maps
    <3>2. CASE i # j
      <4>1. i \in DOMAIN p.active /\ n.active[i] = p.active[i]
        BY <1>5, <2>1, <3>2
      <4>2. Maps(p.keyJob, p.active[i].key, i)
        BY <2>6, <4>1 DEF Sound, KeysIndexed
      <4>3. p.active[i].key # r.key
        BY <4>2 DEF Free, Held, Maps
      <4>. QED  BY <2>3, <2>4, <4>1, <4>2, <4>3 DEF Maps
    <3>. QED  BY <3>1, <3>2
  <2>7. DOMAIN n.keyJob \cap DOMAIN n.delayedKey = {}
    BY <1>1, <2>4 DEF Free, Held, Sound, KeysIndexed
  <2>. QED  BY <1>1, <2>5, <2>6, <2>7 DEF Sound, KeysIndexed
<1>8. Later(n, p)
  BY <1>1, <1>2, <1>4, <1>6, <1>7 DEF Later, Sound
<1>. QED  BY <1>8 DEF n

LEMMA DelayFields ==
  ASSUME NEW p, IsRegistry(p), NEW r, r.attempt < MaxDelayAttempts, r.attempt \in Nat,
         NEW n, n = Delay(p, r)
  PROVE  /\ IsRegistry(n)
         /\ n.delayed = Put(p.delayed, p.next, [r EXCEPT !.attempt = @ + 1])
         /\ n.delayedKey = IF r.key = None THEN p.delayedKey ELSE Put(p.delayedKey, r.key, p.next)
         /\ n.active = p.active /\ n.keyJob = p.keyJob
         /\ n.armed = Put(p.armed, p.next, [kind |-> "retry", ticket |-> r.ticket])
         /\ n.sources = p.sources /\ n.on = p.on /\ n.next = p.next + 1
         /\ n.fate = Accept(p, r.ticket).fate
<1>. DEFINE fate == Accept(p, r.ticket).fate
            delayedKey == IF r.key = None THEN p.delayedKey ELSE Put(p.delayedKey, r.key, p.next)
            delayed == Put(p.delayed, p.next, [r EXCEPT !.attempt = @ + 1])
            armed == Put(p.armed, p.next, [kind |-> "retry", ticket |-> r.ticket])
            a == [p EXCEPT !.fate = fate]
<1>0. ~(r.attempt >= MaxDelayAttempts)
  BY QueueAssumption
<1>1. Accept(p, r.ticket) = a
  BY AcceptFields
<1>. HIDE DEF fate, delayed, armed, delayedKey
<1>2. a.delayed = p.delayed /\ a.delayedKey = p.delayedKey /\ a.armed = p.armed
  BY DEF IsRegistry
<1>3. n = [a EXCEPT !.delayed = delayed, !.delayedKey = delayedKey, !.armed = armed, !.next = p.next + 1]
  BY <1>0, <1>1, <1>2 DEF Delay, delayed, delayedKey, armed
<1>4. /\ IsRegistry(n) /\ n.delayed = delayed /\ n.delayedKey = delayedKey /\ n.armed = armed
      /\ n.active = p.active /\ n.keyJob = p.keyJob
      /\ n.sources = p.sources /\ n.on = p.on /\ n.next = p.next + 1 /\ n.fate = fate
  BY <1>3 DEF IsRegistry
<1>. QED  BY <1>4 DEF fate, delayed, armed, delayedKey

LEMMA DelayLater ==
  ASSUME NEW p, Sound(p), NEW r, Fits(p, r), Free(p, r)
  PROVE  Later(Delay(p, r), p)
<1>1. CASE r.attempt >= MaxDelayAttempts
  <2>1. Delay(p, r) = Settle(p, r.ticket, "rejected")
    BY <1>1 DEF Delay, Reject
  <2>. QED  BY <2>1, SettleSmaller, SmallerIsLater DEF Fates, Withdrawn
<1>2. CASE ~(r.attempt >= MaxDelayAttempts)
  <2>. DEFINE n == Delay(p, r)
              j == p.next
              rec == [r EXCEPT !.attempt = @ + 1]
  <2>0. rec \in Request /\ rec.key = r.key /\ rec.ticket = r.ticket
    BY DEF Fits, Request
  <2>1. r.attempt \in Nat /\ r.attempt < MaxDelayAttempts
    BY <1>2, QueueAssumption DEF Fits, Request
  <2>2. /\ IsRegistry(n)
        /\ n.delayed = Put(p.delayed, j, rec)
        /\ n.delayedKey = IF r.key = None THEN p.delayedKey ELSE Put(p.delayedKey, r.key, j)
        /\ n.active = p.active /\ n.keyJob = p.keyJob
        /\ n.armed = Put(p.armed, j, [kind |-> "retry", ticket |-> r.ticket])
        /\ n.sources = p.sources /\ n.on = p.on /\ n.next = j + 1
        /\ n.fate = Accept(p, r.ticket).fate
    BY <2>1, DelayFields DEF Sound, QueueTyped
  <2>. HIDE DEF n, rec
  <2>3. DOMAIN n.fate = DOMAIN p.fate \cup {r.ticket}
    BY <2>2, AcceptFields DEF Sound, QueueTyped
  <2>4. \A t \in DOMAIN n.fate : n.fate[t] \in Fates
    BY <2>2, AcceptFields DEF Sound, QueueTyped
  <2>5. j \in Nat \ {0} /\ j \notin DOMAIN p.delayed
    BY DEF Sound, QueueTyped, IdsBelow
  <2>6. DOMAIN n.delayed = DOMAIN p.delayed \cup {j} /\ DOMAIN n.armed = DOMAIN p.armed \cup {j}
    <3>1. n.delayed = Put(p.delayed, j, rec)
      BY <2>2
    <3>2. n.armed = Put(p.armed, j, [kind |-> "retry", ticket |-> r.ticket])
      BY <2>2
    <3>3. DOMAIN n.delayed = DOMAIN p.delayed \cup {j}
      BY <3>1 DEF Put
    <3>4. DOMAIN n.armed = DOMAIN p.armed \cup {j}
      BY <3>2 DEF Put
    <3>. QED  BY <3>3, <3>4
  <2>7. /\ DOMAIN n.delayedKey = IF r.key = None THEN DOMAIN p.delayedKey
                                 ELSE DOMAIN p.delayedKey \cup {r.key}
        /\ \A k \in DOMAIN n.delayedKey :
             n.delayedKey[k] = IF k = r.key THEN j ELSE p.delayedKey[k]
    <3>1. CASE r.key = None
      BY <2>2, <3>1 DEF Free, Held
    <3>2. CASE r.key # None
      <4>1. n.delayedKey = Put(p.delayedKey, r.key, j)
        BY <2>2, <3>2
      <4>. QED  BY <3>2, <4>1 DEF Put
    <3>. QED  BY <3>1, <3>2
  <2>8. QueueTyped(n)
    <3>1. /\ IdsBelow(DOMAIN n.active, n.next) /\ IdsBelow(DOMAIN n.delayed, n.next)
          /\ IdsBelow(DOMAIN n.armed, n.next) /\ IdsBelow(DOMAIN n.fate, n.next)
      BY <2>2, <2>3, <2>5, <2>6 DEF Sound, QueueTyped, IdsBelow, Fits
    <3>2. RecordsTyped(n.delayed, n.fate)
      BY <2>0, <2>2, <2>3, MoreTickets, PutRecordTyped DEF Sound, QueueTyped
    <3>3. RecordsTyped(n.active, n.fate)
      BY <2>2, <2>3, MoreTickets DEF Sound, QueueTyped
    <3>4. TasksTyped(n.armed, n.fate)
      <4>1. TasksTyped(p.armed, n.fate)
        BY <2>3, MoreTickets DEF Sound, QueueTyped
      <4>2. [kind |-> "retry", ticket |-> r.ticket] \in [kind : {"run", "retry"}, ticket : DOMAIN n.fate]
        BY <2>3
      <4>. QED  BY <2>2, <4>1, <4>2, PutTaskTyped
    <3>5. DOMAIN n.delayedKey \subseteq Keys
      BY <2>7 DEF Fits, Request, Sound, QueueTyped
    <3>. QED  BY <2>2, <2>4, <2>5, <3>1, <3>2, <3>3, <3>4, <3>5 DEF Sound, QueueTyped
  <2>9. KeysIndexed(n)
    <3>1. \A i \in DOMAIN p.delayed : i # j /\ n.delayed[i] = p.delayed[i]
      BY <2>2, <2>5, PutApply
    <3>2. n.delayed[j] = rec
      BY <2>2, PutApply
    <3>3. ASSUME NEW k \in DOMAIN n.delayedKey
          PROVE  n.delayedKey[k] \in DOMAIN n.delayed /\ n.delayed[n.delayedKey[k]].key = k
      <4>1. CASE k = r.key
        BY <2>0, <2>6, <2>7, <3>2, <4>1
      <4>2. CASE k # r.key
        <5>1. k \in DOMAIN p.delayedKey /\ n.delayedKey[k] = p.delayedKey[k]
          BY <2>7, <4>2
        <5>2. p.delayedKey[k] \in DOMAIN p.delayed /\ p.delayed[p.delayedKey[k]].key = k
          BY <5>1 DEF Sound, KeysIndexed
        <5>. QED  BY <2>6, <3>1, <5>1, <5>2
      <4>. QED  BY <4>1, <4>2
    <3>4. ASSUME NEW i \in DOMAIN n.delayed, n.delayed[i].key # None
          PROVE  Maps(n.delayedKey, n.delayed[i].key, i)
      <4>1. CASE i = j
        BY <2>0, <2>7, <3>2, <3>4, <4>1 DEF Maps
      <4>2. CASE i # j
        <5>1. i \in DOMAIN p.delayed /\ n.delayed[i] = p.delayed[i]
          BY <2>6, <3>1, <4>2
        <5>2. Maps(p.delayedKey, p.delayed[i].key, i)
          BY <3>4, <5>1 DEF Sound, KeysIndexed
        <5>3. p.delayed[i].key # r.key
          BY <5>2 DEF Free, Held, Maps
        <5>. QED  BY <2>7, <5>1, <5>2, <5>3 DEF Maps
      <4>. QED  BY <4>1, <4>2
    <3>5. DOMAIN n.keyJob \cap DOMAIN n.delayedKey = {}
      BY <2>2, <2>7 DEF Free, Held, Sound, KeysIndexed
    <3>. QED  BY <2>2, <3>3, <3>4, <3>5 DEF Sound, KeysIndexed
  <2>10. Later(n, p)
    BY <2>2, <2>3, <2>5, <2>8, <2>9 DEF Later, Sound
  <2>. QED  BY <2>10 DEF n
<1>. QED  BY <1>1, <1>2

\* Evicting the oldest job only makes room, for the key of the new one too.
LEMMA ReplaceOldestLater ==
  ASSUME NEW p, Sound(p), NEW r, Fits(p, r), Free(p, r), NEW scope
  PROVE  Later(ReplaceOldest(p, r, scope), p)
<1>1. CASE scope = {}
  <2>1. ReplaceOldest(p, r, scope) = Settle(p, r.ticket, "rejected")
    BY <1>1 DEF ReplaceOldest, Reject
  <2>. QED  BY <2>1, SettleSmaller, SmallerIsLater DEF Fates, Withdrawn
<1>2. CASE scope # {}
  <2>. DEFINE j == CHOOSE i \in scope : \A h \in scope : i <= h
              a == Settle(p, p.active[j].ticket, "evicted")
              b == PopJob(a, j)
              c == CancelTask(b, j)
  <2>1. ReplaceOldest(p, r, scope) = Insert(c, r)
    BY <1>2 DEF ReplaceOldest
  <2>2. Smaller(a, p)
    BY SettleSmaller DEF Fates, Withdrawn
  <2>. HIDE DEF a, j
  <2>3. Smaller(b, a)
    BY <2>2, PopJobSmaller DEF Smaller
  <2>. HIDE DEF b
  <2>4. Smaller(c, b)
    BY <2>3, CancelTaskSmaller DEF Smaller
  <2>. HIDE DEF c
  <2>5. Smaller(c, p)
    BY <2>2, <2>3, <2>4, SmallerTrans
  <2>6. Sound(c) /\ Fits(c, r) /\ Free(c, r)
    BY <2>5, FitsSmaller DEF Smaller
  <2>7. Later(Insert(c, r), c)
    BY <2>6, InsertLater
  <2>8. Later(c, p)
    BY <2>5, SmallerIsLater
  <2>. QED  BY <2>1, <2>7, <2>8, LaterTrans
<1>. QED  BY <1>1, <1>2

-----------------------------------------------------------------------------
(* The calls *)

LEMMA ApplyLater ==
  ASSUME NEW p, Sound(p), NEW r, Fits(p, r), Free(p, r), NEW behavior \in Behaviors, NEW scope
  PROVE  Later(Apply(p, r, behavior, scope), p)
<1>1. CASE behavior = "reject"
  <2>1. Apply(p, r, behavior, scope) = Settle(p, r.ticket, "rejected")
    BY <1>1 DEF Apply, Reject
  <2>. QED  BY <2>1, SettleSmaller, SmallerIsLater DEF Fates, Withdrawn
<1>2. CASE behavior = "replace_oldest"
  <2>1. Apply(p, r, behavior, scope) = ReplaceOldest(p, r, scope)
    BY <1>2 DEF Apply
  <2>. QED  BY <2>1, ReplaceOldestLater
<1>3. CASE behavior = "delay"
  <2>1. Apply(p, r, behavior, scope) = Delay(p, r)
    BY <1>3 DEF Apply
  <2>. QED  BY <2>1, DelayLater
<1>. QED  BY <1>1, <1>2, <1>3 DEF Behaviors

LEMMA AdmitLater ==
  ASSUME NEW p, Sound(p), NEW r, Fits(p, r), Free(p, r)
  PROVE  Later(Admit(p, r), p)
<1>0. {OwnerBehavior, SystemBehavior, GlobalBehavior} \subseteq Behaviors
  BY QueueAssumption
<1>1. CASE OverOwner(p, r)
  BY <1>0, <1>1, ApplyLater DEF Admit
<1>2. CASE ~OverOwner(p, r) /\ OverSystem(p, r)
  BY <1>0, <1>2, ApplyLater DEF Admit
<1>3. CASE ~OverOwner(p, r) /\ ~OverSystem(p, r) /\ OverTotal(p)
  BY <1>0, <1>3, ApplyLater DEF Admit
<1>4. CASE ~OverOwner(p, r) /\ ~OverSystem(p, r) /\ ~OverTotal(p)
  BY <1>4, InsertLater DEF Admit
<1>. QED  BY <1>1, <1>2, <1>3, <1>4

\* schedule(): the key is free when the quotas are asked, so that a job is
\* inserted or parked under a key nobody holds.
LEMMA ScheduleLater ==
  ASSUME NEW p, Sound(p), NEW r, Fits(p, r)
  PROVE  Later(Schedule(p, r), p)
<1>1. CASE Held(p, r.key) /\ r.conflict = "reject"
  <2>1. Schedule(p, r) = Settle(p, r.ticket, "rejected")
    BY <1>1 DEF Schedule, Reject
  <2>. QED  BY <2>1, SettleSmaller, SmallerIsLater DEF Fates, Withdrawn
<1>2. CASE Held(p, r.key) /\ r.conflict # "reject"
  <2>. DEFINE c == Cancel(p, r.key, "replaced")
  <2>1. Schedule(p, r) = Admit(c, r)
    BY <1>2 DEF Schedule
  <2>2. Smaller(c, p) /\ Free(c, r)
    BY CancelSmaller DEF Fates, Withdrawn, Free
  <2>. HIDE DEF c
  <2>3. Sound(c) /\ Fits(c, r)
    BY <2>2, FitsSmaller DEF Smaller
  <2>4. Later(Admit(c, r), c)
    BY <2>2, <2>3, AdmitLater
  <2>5. Later(c, p)
    BY <2>2, SmallerIsLater
  <2>. QED  BY <2>1, <2>4, <2>5, LaterTrans
<1>3. CASE ~Held(p, r.key)
  BY <1>3, AdmitLater DEF Schedule, Free
<1>. QED  BY <1>1, <1>2, <1>3

LEMMA RearmLater ==
  ASSUME NEW p, Sound(p), NEW r, Fits(p, r)
  PROVE  Later(Rearm(p, r), p)
<1>1. CASE r.args
  <2>1. Rearm(p, r) = Settle(p, r.ticket, "lost")
    BY <1>1 DEF Rearm
  <2>. QED  BY <2>1, SettleSmaller, SmallerIsLater DEF Fates, Withdrawn
<1>2. CASE ~r.args
  <2>1. Rearm(p, r) = Schedule(p, r)
    BY <1>2 DEF Rearm
  <2>. QED  BY <2>1, ScheduleLater
<1>. QED  BY <1>1, <1>2

LEMMA RetryDelayedLater ==
  ASSUME NEW p, Sound(p), NEW j
  PROVE  Later(RetryDelayed(p, j), p)
<1>1. CASE j \notin DOMAIN p.delayed
  BY <1>1 DEF RetryDelayed, Later, Sound, QueueTyped
<1>2. CASE j \in DOMAIN p.delayed
  <2>. DEFINE c == PopDelayed(p, j)
              r == p.delayed[j]
  <2>1. RetryDelayed(p, j) = Rearm(c, r)
    BY <1>2 DEF RetryDelayed
  <2>2. Fits(p, r)
    BY <1>2 DEF Fits, Sound, QueueTyped, RecordsTyped
  <2>3. Smaller(c, p)
    BY PopDelayedSmaller
  <2>. HIDE DEF c, r
  <2>4. Sound(c) /\ Fits(c, r)
    BY <2>2, <2>3, FitsSmaller DEF Smaller
  <2>5. Later(Rearm(c, r), c)
    BY <2>4, RearmLater
  <2>6. Later(c, p)
    BY <2>3, SmallerIsLater
  <2>. QED  BY <2>1, <2>5, <2>6, LaterTrans
<1>. QED  BY <1>1, <1>2

LEMMA RearmCancelledLater ==
  ASSUME NEW p, Sound(p), NEW k, NEW rec \in Request, rec.ticket \in DOMAIN p.fate
  PROVE  Later(Rearm(Cancel(p, k, "pending"), NewTicketIfStarted(p, rec)), p)
<1>. DEFINE c == Cancel(p, k, "pending")
            r == NewTicketIfStarted(p, rec)
<1>1. Fits(p, r)
  BY DEF NewTicketIfStarted, Fits, Request, Sound, QueueTyped
<1>2. Smaller(c, p)
  BY CancelSmaller DEF Fates
<1>. HIDE DEF c, r
<1>3. Sound(c) /\ Fits(c, r)
  BY <1>1, <1>2, FitsSmaller DEF Smaller
<1>4. Later(Rearm(c, r), c)
  BY <1>3, RearmLater
<1>5. Later(c, p)
  BY <1>2, SmallerIsLater
<1>6. Later(Rearm(c, r), p)
  BY <1>4, <1>5, LaterTrans
<1>. QED  BY <1>6 DEF c, r

LEMMA RescheduleLater ==
  ASSUME NEW p, Sound(p), NEW k
  PROVE  Later(Reschedule(p, k), p)
<1>1. CASE HasActive(p, k)
  <2>1. p.active[p.keyJob[k]] \in Request /\ p.active[p.keyJob[k]].ticket \in DOMAIN p.fate
    BY <1>1 DEF HasActive, Sound, QueueTyped, RecordsTyped
  <2>. QED  BY <1>1, <2>1, RearmCancelledLater DEF Reschedule
<1>2. CASE ~HasActive(p, k) /\ HasDelayed(p, k)
  <2>1. p.delayed[p.delayedKey[k]] \in Request /\ p.delayed[p.delayedKey[k]].ticket \in DOMAIN p.fate
    BY <1>2 DEF HasDelayed, Sound, QueueTyped, RecordsTyped
  <2>. QED  BY <1>2, <2>1, RearmCancelledLater DEF Reschedule
<1>3. CASE ~HasActive(p, k) /\ ~HasDelayed(p, k)
  BY <1>3 DEF Reschedule, Later, Sound, QueueTyped
<1>. QED  BY <1>1, <1>2, <1>3

-----------------------------------------------------------------------------
(* The callback on the stack *)

\* The callback on the stack is a job's, past or present.
RunningTyped(p, run) ==
  run # None => /\ run = [job |-> run.job, ticket |-> run.ticket]
                /\ run.job \in 1..(p.next - 1)
                /\ run.ticket \in DOMAIN p.fate

LEMMA RunningLater ==
  ASSUME NEW n, NEW p, Sound(p), Later(n, p), NEW run, RunningTyped(p, run)
  PROVE  RunningTyped(n, run)
  BY DEF RunningTyped, Later, Sound, QueueTyped

\* Overwriting the fate of a known ticket.
LEMMA SetFateSmaller ==
  ASSUME NEW p, Sound(p), NEW t \in DOMAIN p.fate, NEW f \in Fates
  PROVE  Smaller([p EXCEPT !.fate[t] = f], p)
<1>. DEFINE g == [p.fate EXCEPT ![t] = f]
            n == [p EXCEPT !.fate = g]
<1>1. /\ IsRegistry(n)
      /\ n.active = p.active /\ n.keyJob = p.keyJob
      /\ n.delayed = p.delayed /\ n.delayedKey = p.delayedKey
      /\ n.armed = p.armed /\ n.sources = p.sources
      /\ n.on = p.on /\ n.next = p.next /\ n.fate = g
  BY DEF Sound, QueueTyped, IsRegistry
<1>2. DOMAIN g = DOMAIN p.fate
  OBVIOUS
<1>3. \A u \in DOMAIN g : g[u] \in Fates
  BY DEF Sound, QueueTyped
<1>4. [p EXCEPT !.fate[t] = f] = n
  OBVIOUS
<1>. HIDE DEF n, g
<1>5. QueueTyped(n)
  BY <1>1, <1>2, <1>3, MoreTickets DEF Sound, QueueTyped
<1>6. KeysIndexed(n)
  BY <1>1 DEF Sound, KeysIndexed, Maps
<1>. QED  BY <1>1, <1>2, <1>4, <1>5, <1>6 DEF Sound, Smaller

-----------------------------------------------------------------------------
(* Timers, sources and tickets *)

Timed(p, B) ==
  /\ DOMAIN p.armed = (DOMAIN p.active \ B) \cup DOMAIN p.delayed
  /\ \A j \in DOMAIN p.active \ B : p.armed[j].kind = "run"
  /\ \A j \in DOMAIN p.delayed : p.armed[j].kind = "retry"
  /\ \A j \in B : j \notin DOMAIN p.delayed /\ j \in Nat /\ j < p.next

JobsOf(S) == {s.job : s \in S}

Sourced(p, X) ==
  \A e : e \notin X =>
    (e \in p.sources <=> p.on /\ \E j \in DOMAIN p.active : e \in SourcesOf(j, p.active[j]))

JobTicket(p, j) == IF j \in DOMAIN p.active THEN p.active[j].ticket ELSE p.delayed[j].ticket

Ticketed(p, S, H) ==
  /\ \A j \in DOMAIN p.armed :
       /\ p.armed[j].ticket = JobTicket(p, j)
       /\ Maps(p.fate, JobTicket(p, j), "pending") /\ JobTicket(p, j) \notin H
  /\ \A t \in DOMAIN p.fate :
       p.fate[t] = "pending" => t \in H \/ \E j \in DOMAIN p.armed : JobTicket(p, j) = t
  /\ \A i, j \in DOMAIN p.armed : JobTicket(p, i) = JobTicket(p, j) => i = j
  /\ \A s \in S : s.ticket \in DOMAIN p.fate /\ p.fate[s.ticket] # "pending"
  /\ \A j \in DOMAIN p.active \ DOMAIN p.armed : [job |-> j, ticket |-> p.active[j].ticket] \in S
  /\ \A t \in H \cap DOMAIN p.fate : p.fate[t] = "pending"

Good(p, S, H, X) == Sound(p) /\ Timed(p, JobsOf(S)) /\ Sourced(p, X) /\ Ticketed(p, S, H)

-----------------------------------------------------------------------------
(* Naturals *)

\* Every set of jobs has an oldest one.  (By the well-founded order of finite
\* sets: of the sets of those that are older than some job, one is minimal.)
LEMMA Oldest ==
  ASSUME NEW T \in SUBSET Nat, T # {}
  PROVE  \E x \in T : \A y \in T : x <= y
<1>1. PICK n \in T : TRUE
  OBVIOUS
<1>. DEFINE B == 0..n
            Below(x) == T \cap 0..(x-1)
            G == {Below(x) : x \in T \cap B}
<1>2. IsFiniteSet(B)
  BY <1>1, FS_Interval
<1>3. IsWellFoundedOn(StrictSubsetOrdering(B), FiniteSubsetsOf(B))
  BY <1>2, FS_StrictSubsetOrderingWellFounded
<1>4. ASSUME NEW x \in T \cap B PROVE Below(x) \in FiniteSubsetsOf(B)
  <2>1. Below(x) \subseteq B
    OBVIOUS
  <2>. QED  BY <1>2, <2>1, FS_Subset DEF FiniteSubsetsOf
<1>5. G \subseteq FiniteSubsetsOf(B) /\ G # {}
  <2>1. G \subseteq FiniteSubsetsOf(B)
    BY <1>4
  <2>2. Below(n) \in G
    BY <1>1
  <2>. QED  BY <2>1, <2>2
<1>. HIDE DEF G
<1>6. PICK s \in G : \A t \in G : ~(<<t, s>> \in StrictSubsetOrdering(B))
  BY <1>3, <1>5, WFMin
<1>7. PICK x \in T \cap B : s = Below(x)
  BY DEF G
<1>8. ASSUME NEW y \in T, y < x PROVE FALSE
  <2>1. y \in T \cap B /\ Below(y) \in G
    BY <1>1, <1>8 DEF G
  <2>2. Below(y) \subseteq Below(x) /\ y \in Below(x) /\ y \notin Below(y)
    BY <1>8
  <2>3. <<Below(y), s>> \in StrictSubsetOrdering(B)
    BY <1>4, <1>7, <2>1, <2>2 DEF StrictSubsetOrdering
  <2>. QED  BY <1>6, <2>1, <2>3
<1>. QED  BY <1>8

-----------------------------------------------------------------------------
(* What removing and adding a job does to each part *)

\* What n's fates are when ticket t was settled as why.
Settled(n, p, t, why) ==
  /\ DOMAIN n.fate = DOMAIN p.fate
  /\ \A u \in DOMAIN p.fate :
       n.fate[u] = IF u = t /\ p.fate[u] = "pending" THEN why ELSE p.fate[u]

\* The source of a job is its own: keys are not shared, and ids are no keys.
LEMMA DropSourced ==
  ASSUME NEW p, NEW X, Sound(p), Sourced(p, X), NEW j \in DOMAIN p.active, NEW n,
         n.active = Drop(p.active, j), n.on = p.on,
         n.sources = IF p.on THEN p.sources \ SourcesOf(j, p.active[j]) ELSE p.sources
  PROVE  Sourced(n, X)
<1>0. n.active = Drop(p.active, j)
  OBVIOUS
<1>1. DOMAIN n.active = DOMAIN p.active \ {j}
  BY <1>0 DEF Drop, Restrict
<1>2. \A i \in DOMAIN n.active : n.active[i] = p.active[i]
  BY <1>0 DEF Drop, Restrict
<1>3. ASSUME NEW i \in DOMAIN p.active, i # j,
             NEW e \in SourcesOf(i, p.active[i]), e \in SourcesOf(j, p.active[j])
      PROVE  FALSE
  <2>1. /\ e.id = IF p.active[i].key = None THEN i ELSE p.active[i].key
        /\ e.id = IF p.active[j].key = None THEN j ELSE p.active[j].key
    BY <1>3 DEF SourcesOf
  <2>2. i \in Nat /\ j \in Nat
    BY DEF Sound, QueueTyped, IdsBelow
  <2>3. p.active[i].key \in Keys \cup {None} /\ p.active[j].key \in Keys \cup {None}
    BY DEF Sound, QueueTyped, RecordsTyped, Request
  <2>4. p.active[i].key = p.active[j].key /\ p.active[i].key # None
    BY <1>3, <2>1, <2>2, <2>3, IdAssumption
  <2>. QED  BY <1>3, <2>4 DEF Sound, KeysIndexed, Maps
<1>. QED  BY <1>1, <1>2, <1>3 DEF Sourced

LEMMA AddSourced ==
  ASSUME NEW p, NEW X, Sound(p), Sourced(p, X), NEW r, NEW rec, rec.key = r.key, rec.obj = r.obj, NEW n,
         n.active = Put(p.active, p.next, rec), n.on = p.on,
         n.sources = IF p.on THEN p.sources \cup SourcesOf(p.next, r) ELSE p.sources
  PROVE  Sourced(n, X)
<1>0. n.active = Put(p.active, p.next, rec)
  OBVIOUS
<1>0a. p.next \notin DOMAIN p.active
  BY DEF Sound, QueueTyped, IdsBelow
<1>1. DOMAIN n.active = DOMAIN p.active \cup {p.next}
  BY <1>0 DEF Put
<1>2. n.active[p.next] = rec /\ \A i \in DOMAIN p.active : n.active[i] = p.active[i]
  BY <1>0, <1>0a DEF Put
<1>3. SourcesOf(p.next, rec) = SourcesOf(p.next, r)
  BY DEF SourcesOf
<1>. QED  BY <1>1, <1>2, <1>3 DEF Sourced

LEMMA DropTicketed ==
  ASSUME NEW p, NEW n, NEW S, NEW H, Ticketed(p, S, H),
         NEW j \in DOMAIN p.armed \cup DOMAIN p.active, NEW why, why # "pending",
         n.armed = Drop(p.armed, j),
         \A i \in DOMAIN p.armed \ {j} : JobTicket(n, i) = JobTicket(p, i),
         \A i \in DOMAIN n.active : i # j /\ i \in DOMAIN p.active /\ n.active[i] = p.active[i],
         Settled(n, p, JobTicket(p, j), why)
  PROVE  Ticketed(n, S, H)
<1>. DEFINE t == JobTicket(p, j)
<1>0. n.armed = Drop(p.armed, j)
  OBVIOUS
<1>1. DOMAIN n.armed = DOMAIN p.armed \ {j} /\ \A i \in DOMAIN n.armed : n.armed[i] = p.armed[i]
  BY <1>0 DEF Drop, Restrict
<1>2. j \notin DOMAIN p.armed => [job |-> j, ticket |-> t] \in S
  BY DEF Ticketed, JobTicket
<1>2a. j \notin DOMAIN p.armed => t \in DOMAIN p.fate /\ p.fate[t] # "pending"
  BY <1>2 DEF Ticketed
<1>3. \A u \in DOMAIN p.fate : p.fate[u] = "pending" /\ u # t => n.fate[u] = "pending"
  BY DEF Settled
<1>4. \A u \in DOMAIN p.fate : n.fate[u] = "pending" => p.fate[u] = "pending" /\ u # t
  BY DEF Settled
<1>4a. DOMAIN n.fate = DOMAIN p.fate
  BY DEF Settled
<1>4b. \A i \in DOMAIN n.armed : JobTicket(n, i) = JobTicket(p, i) /\ JobTicket(n, i) # t
  <2>. SUFFICES ASSUME NEW i \in DOMAIN n.armed
                PROVE  JobTicket(n, i) = JobTicket(p, i) /\ JobTicket(p, i) # t
    OBVIOUS
  <2>1. CASE j \in DOMAIN p.armed
    BY <1>1, <2>1 DEF Ticketed
  <2>2. CASE j \notin DOMAIN p.armed
    BY <1>1, <1>2a, <2>2 DEF Ticketed, Maps
  <2>. QED  BY <2>1, <2>2
<1>. HIDE DEF t
<1>5. \A i \in DOMAIN n.armed :
        /\ n.armed[i].ticket = JobTicket(n, i)
        /\ Maps(n.fate, JobTicket(n, i), "pending") /\ JobTicket(n, i) \notin H
  BY <1>1, <1>3, <1>4a, <1>4b DEF Ticketed, Maps
<1>6. ASSUME NEW u \in DOMAIN n.fate, n.fate[u] = "pending", u \notin H
      PROVE  \E i \in DOMAIN n.armed : JobTicket(n, i) = u
  <2>1. PICK i \in DOMAIN p.armed : JobTicket(p, i) = u
    BY <1>4, <1>4a, <1>6 DEF Ticketed
  <2>2. i # j
    BY <1>4, <1>4a, <1>6, <2>1 DEF t
  <2>. QED  BY <1>1, <1>4b, <2>1, <2>2
<1>7. \A i, k \in DOMAIN n.armed : JobTicket(n, i) = JobTicket(n, k) => i = k
  BY <1>1, <1>4b DEF Ticketed
<1>8. \A s \in S : s.ticket \in DOMAIN n.fate /\ n.fate[s.ticket] # "pending"
  BY <1>4, <1>4a DEF Ticketed
<1>9. \A i \in DOMAIN n.active \ DOMAIN n.armed : [job |-> i, ticket |-> n.active[i].ticket] \in S
  BY <1>1 DEF Ticketed
<1>10. \A u \in H \cap DOMAIN n.fate : n.fate[u] = "pending"
  <2>1. t \notin H
    BY <1>2a DEF Ticketed, t
  <2>. QED  BY <1>3, <1>4a, <2>1 DEF Ticketed
<1>. QED  BY <1>5, <1>6, <1>7, <1>8, <1>9, <1>10 DEF Ticketed

\* The same when the ticket is taken in hand, or a new one for a job whose
\* callback has started.
LEMMA TakeTicketed ==
  ASSUME NEW p, NEW n, NEW S, Ticketed(p, S, {}),
         NEW j \in DOMAIN p.armed \cup DOMAIN p.active, NEW new, new \notin DOMAIN p.fate,
         n.armed = Drop(p.armed, j),
         \A i \in DOMAIN p.armed \ {j} : JobTicket(n, i) = JobTicket(p, i),
         \A i \in DOMAIN n.active : i # j /\ i \in DOMAIN p.active /\ n.active[i] = p.active[i],
         Settled(n, p, JobTicket(p, j), "pending")
  PROVE  Ticketed(n, S, {IF Maps(p.fate, JobTicket(p, j), "pending") THEN JobTicket(p, j) ELSE new})
<1>. DEFINE t == JobTicket(p, j)
            u == IF Maps(p.fate, t, "pending") THEN t ELSE new
<1>0. n.armed = Drop(p.armed, j)
  OBVIOUS
<1>1. DOMAIN n.armed = DOMAIN p.armed \ {j} /\ \A i \in DOMAIN n.armed : n.armed[i] = p.armed[i]
  BY <1>0 DEF Drop, Restrict
<1>2. DOMAIN n.fate = DOMAIN p.fate /\ \A v \in DOMAIN p.fate : n.fate[v] = p.fate[v]
  BY DEF Settled
<1>2a. j \notin DOMAIN p.armed => [job |-> j, ticket |-> t] \in S
  BY DEF Ticketed, JobTicket
<1>3. j \notin DOMAIN p.armed => t \in DOMAIN p.fate /\ p.fate[t] # "pending"
  BY <1>2a DEF Ticketed
<1>4. /\ j \in DOMAIN p.armed => u = t
      /\ j \notin DOMAIN p.armed => u = new
  BY <1>3 DEF Ticketed, Maps
<1>5. \A i \in DOMAIN n.armed : JobTicket(n, i) = JobTicket(p, i) /\ JobTicket(n, i) # u
  <2>. SUFFICES ASSUME NEW i \in DOMAIN n.armed
                PROVE  JobTicket(n, i) = JobTicket(p, i) /\ JobTicket(p, i) # u
    OBVIOUS
  <2>1. CASE j \in DOMAIN p.armed
    BY <1>1, <1>4, <2>1 DEF Ticketed
  <2>2. CASE j \notin DOMAIN p.armed
    BY <1>1, <1>4, <2>2 DEF Ticketed, Maps
  <2>. QED  BY <2>1, <2>2
<1>6. u \in DOMAIN n.fate => n.fate[u] = "pending"
  BY <1>2 DEF Maps
<1>6a. ASSUME NEW i \in DOMAIN p.armed, i = j PROVE JobTicket(p, i) = u
  BY <1>4, <1>6a
<1>. HIDE DEF t, u
<1>7. \A i \in DOMAIN n.armed :
        /\ n.armed[i].ticket = JobTicket(n, i)
        /\ Maps(n.fate, JobTicket(n, i), "pending") /\ JobTicket(n, i) \notin {u}
  BY <1>1, <1>2, <1>5 DEF Ticketed, Maps
<1>8. ASSUME NEW v \in DOMAIN n.fate, n.fate[v] = "pending", v # u
      PROVE  \E i \in DOMAIN n.armed : JobTicket(n, i) = v
  <2>1. PICK i \in DOMAIN p.armed : JobTicket(p, i) = v
    BY <1>2, <1>8 DEF Ticketed
  <2>2. i # j
    BY <1>6a, <1>8, <2>1
  <2>. QED  BY <1>1, <1>5, <2>1, <2>2
<1>9. \A i, k \in DOMAIN n.armed : JobTicket(n, i) = JobTicket(n, k) => i = k
  BY <1>1, <1>5 DEF Ticketed
<1>10. \A s \in S : s.ticket \in DOMAIN n.fate /\ n.fate[s.ticket] # "pending"
  BY <1>2 DEF Ticketed
<1>11. \A i \in DOMAIN n.active \ DOMAIN n.armed : [job |-> i, ticket |-> n.active[i].ticket] \in S
  BY <1>1 DEF Ticketed
<1>12. Ticketed(n, S, {u})
  BY <1>6, <1>7, <1>8, <1>9, <1>10, <1>11 DEF Ticketed
<1>. QED  BY <1>12 DEF u, t

LEMMA AddTicketed ==
  ASSUME NEW p, NEW n, NEW S, NEW t, Ticketed(p, S, {t}),
         NEW j, j \notin DOMAIN p.armed, NEW kind,
         n.armed = Put(p.armed, j, [kind |-> kind, ticket |-> t]),
         JobTicket(n, j) = t,
         \A i \in DOMAIN p.armed : JobTicket(n, i) = JobTicket(p, i),
         \A i \in DOMAIN n.active \ {j} : i \in DOMAIN p.active /\ n.active[i] = p.active[i],
         DOMAIN n.fate = DOMAIN p.fate \cup {t},
         \A u \in DOMAIN n.fate : n.fate[u] = IF u \in DOMAIN p.fate THEN p.fate[u] ELSE "pending"
  PROVE  Ticketed(n, S, {})
<1>1. /\ DOMAIN n.armed = DOMAIN p.armed \cup {j} /\ n.armed[j].ticket = t
      /\ \A i \in DOMAIN p.armed : n.armed[i] = p.armed[i]
  <2>1. n.armed = Put(p.armed, j, [kind |-> kind, ticket |-> t])
    OBVIOUS
  <2>. QED  BY <2>1 DEF Put
<1>2. n.fate[t] = "pending"
  BY DEF Ticketed
<1>3. \A i \in DOMAIN p.armed : JobTicket(n, i) # t
  BY DEF Ticketed
<1>4. \A i \in DOMAIN n.armed :
        n.armed[i].ticket = JobTicket(n, i) /\ Maps(n.fate, JobTicket(n, i), "pending")
  BY <1>1, <1>2 DEF Ticketed, Maps
<1>5. ASSUME NEW u \in DOMAIN n.fate, n.fate[u] = "pending"
      PROVE  \E i \in DOMAIN n.armed : JobTicket(n, i) = u
  <2>1. CASE u = t
    BY <1>1, <2>1
  <2>2. CASE u # t
    <3>1. PICK i \in DOMAIN p.armed : JobTicket(p, i) = u
      BY <1>5, <2>2 DEF Ticketed
    <3>. QED  BY <1>1, <3>1
  <2>. QED  BY <2>1, <2>2
<1>6. \A i, k \in DOMAIN n.armed : JobTicket(n, i) = JobTicket(n, k) => i = k
  BY <1>1, <1>3 DEF Ticketed
<1>7. \A s \in S : s.ticket \in DOMAIN n.fate /\ n.fate[s.ticket] # "pending"
  BY DEF Ticketed
<1>8. \A i \in DOMAIN n.active \ DOMAIN n.armed : [job |-> i, ticket |-> n.active[i].ticket] \in S
  BY <1>1 DEF Ticketed
<1>. QED  BY <1>4, <1>5, <1>6, <1>7, <1>8 DEF Ticketed

LEMMA DropTimed ==
  ASSUME NEW p, NEW B, Timed(p, B), NEW n, NEW j, n.armed = Drop(p.armed, j), n.next = p.next,
         \/ n.active = Drop(p.active, j) /\ n.delayed = p.delayed /\ j \notin DOMAIN p.delayed
         \/ n.delayed = Drop(p.delayed, j) /\ n.active = p.active /\ j \notin DOMAIN p.active
  PROVE  Timed(n, B)
<1>0. n.armed = Drop(p.armed, j)
  OBVIOUS
<1>1. DOMAIN n.armed = DOMAIN p.armed \ {j} /\ \A i \in DOMAIN n.armed : n.armed[i] = p.armed[i]
  BY <1>0 DEF Drop, Restrict
<1>2. DOMAIN n.active = DOMAIN p.active \ {j} /\ DOMAIN n.delayed = DOMAIN p.delayed \ {j}
  <2>1. CASE n.active = Drop(p.active, j) /\ n.delayed = p.delayed /\ j \notin DOMAIN p.delayed
    BY <2>1 DEF Drop, Restrict
  <2>2. CASE n.delayed = Drop(p.delayed, j) /\ n.active = p.active /\ j \notin DOMAIN p.active
    BY <2>2 DEF Drop, Restrict
  <2>. QED  BY <2>1, <2>2
<1>. QED  BY <1>1, <1>2 DEF Timed

\* No id is both an active job's and a delayed one's.
LEMMA Disjoint ==
  ASSUME NEW p, NEW B, Timed(p, B)
  PROVE  DOMAIN p.active \cap DOMAIN p.delayed = {}
  BY DEF Timed

-----------------------------------------------------------------------------
(* Removing jobs *)

Gone(p, j, why) == CancelTask(PopJob(Settle(p, p.active[j].ticket, why), j), j)
Unparked(p, j, why) == CancelTask(PopDelayed(Settle(p, p.delayed[j].ticket, why), j), j)

LEMMA SettleSettled ==
  ASSUME NEW p, IsRegistry(p), NEW t, NEW why, NEW n, n.fate = Settle(p, t, why).fate
  PROVE  Settled(n, p, t, why)
<1>1. n.fate = IF Maps(p.fate, t, "pending") THEN [p.fate EXCEPT ![t] = why] ELSE p.fate
  BY SettleFields
<1>2. CASE Maps(p.fate, t, "pending")
  BY <1>1, <1>2 DEF Settled, Maps
<1>3. CASE ~Maps(p.fate, t, "pending")
  BY <1>1, <1>3 DEF Settled, Maps
<1>. QED  BY <1>2, <1>3

\* The sources once job j is popped.
Left(p, j) == IF p.on THEN p.sources \ SourcesOf(j, p.active[j]) ELSE p.sources

LEMMA PopJobLeft ==
  ASSUME NEW p, IsRegistry(p), NEW j \in DOMAIN p.active, NEW n, n = PopJob(p, j)
  PROVE  /\ IsRegistry(n)
         /\ n.active = Drop(p.active, j) /\ n.delayed = p.delayed
         /\ n.armed = p.armed /\ n.on = p.on /\ n.fate = p.fate /\ n.next = p.next
         /\ n.sources = Left(p, j)
  BY PopJobFields DEF Left

LEMMA GoneFields ==
  ASSUME NEW p, IsRegistry(p), NEW j \in DOMAIN p.active, NEW why, NEW n, n = Gone(p, j, why)
  PROVE  /\ n.active = Drop(p.active, j) /\ n.delayed = p.delayed
         /\ n.armed = Drop(p.armed, j) /\ n.on = p.on /\ n.next = p.next
         /\ n.sources = Left(p, j)
         /\ n.fate = Settle(p, p.active[j].ticket, why).fate
<1>. DEFINE a == Settle(p, p.active[j].ticket, why)
            b == PopJob(a, j)
<1>1. /\ IsRegistry(a) /\ a.active = p.active /\ a.delayed = p.delayed /\ a.armed = p.armed
      /\ a.sources = p.sources /\ a.on = p.on /\ a.next = p.next
  BY DEF Settle, IsRegistry
<1>. HIDE DEF a
<1>2. /\ IsRegistry(b) /\ b.active = Drop(p.active, j) /\ b.delayed = p.delayed
      /\ b.armed = p.armed /\ b.on = p.on /\ b.next = p.next /\ b.fate = a.fate
      /\ b.sources = Left(p, j)
  <2>1. j \in DOMAIN a.active
    BY <1>1
  <2>2. /\ IsRegistry(b) /\ b.active = Drop(a.active, j) /\ b.delayed = a.delayed
        /\ b.armed = a.armed /\ b.on = a.on /\ b.next = a.next /\ b.fate = a.fate
        /\ b.sources = Left(a, j)
    BY <1>1, <2>1, PopJobLeft
  <2>. QED  BY <1>1, <2>2 DEF Left
<1>3. n = CancelTask(b, j)
  BY DEF Gone, a
<1>. HIDE DEF b
<1>4. /\ n.active = Drop(p.active, j) /\ n.delayed = p.delayed
      /\ n.armed = Drop(p.armed, j) /\ n.on = p.on /\ n.next = p.next
      /\ n.sources = Left(p, j)
      /\ n.fate = a.fate
  BY <1>2, <1>3, CancelTaskFields
<1>. QED  BY <1>4 DEF a

LEMMA GoneSmaller ==
  ASSUME NEW p, Sound(p), NEW j \in DOMAIN p.active, NEW why \in Fates
  PROVE  Smaller(Gone(p, j, why), p)
<1>. DEFINE a == Settle(p, p.active[j].ticket, why)
            b == PopJob(a, j)
<1>1. Smaller(a, p)
  BY SettleSmaller
<1>. HIDE DEF a
<1>2. Smaller(b, a)
  BY <1>1, PopJobSmaller DEF Smaller
<1>. HIDE DEF b
<1>3. Smaller(CancelTask(b, j), b)
  BY <1>2, CancelTaskSmaller DEF Smaller
<1>. QED  BY <1>1, <1>2, <1>3, SmallerTrans DEF Gone, a, b

LEMMA UnparkedFields ==
  ASSUME NEW p, IsRegistry(p), NEW j \in DOMAIN p.delayed, NEW why, NEW n, n = Unparked(p, j, why)
  PROVE  /\ n.delayed = Drop(p.delayed, j) /\ n.active = p.active
         /\ n.armed = Drop(p.armed, j) /\ n.on = p.on /\ n.next = p.next
         /\ n.sources = p.sources
         /\ n.fate = Settle(p, p.delayed[j].ticket, why).fate
<1>. DEFINE a == Settle(p, p.delayed[j].ticket, why)
            b == PopDelayed(a, j)
<1>1. /\ IsRegistry(a) /\ a.active = p.active /\ a.delayed = p.delayed /\ a.armed = p.armed
      /\ a.sources = p.sources /\ a.on = p.on /\ a.next = p.next
  BY DEF Settle, IsRegistry
<1>. HIDE DEF a
<1>2. /\ IsRegistry(b) /\ b.delayed = Drop(p.delayed, j) /\ b.active = p.active
      /\ b.armed = p.armed /\ b.on = p.on /\ b.next = p.next /\ b.fate = a.fate
      /\ b.sources = p.sources
  BY <1>1, PopDelayedFields
<1>3. n = CancelTask(b, j)
  BY DEF Unparked, a
<1>. HIDE DEF b
<1>4. /\ n.delayed = Drop(p.delayed, j) /\ n.active = p.active
      /\ n.armed = Drop(p.armed, j) /\ n.on = p.on /\ n.next = p.next
      /\ n.sources = p.sources /\ n.fate = a.fate
  BY <1>2, <1>3, CancelTaskFields
<1>. QED  BY <1>4 DEF a

LEMMA UnparkedSmaller ==
  ASSUME NEW p, Sound(p), NEW j \in DOMAIN p.delayed, NEW why \in Fates
  PROVE  Smaller(Unparked(p, j, why), p)
<1>. DEFINE a == Settle(p, p.delayed[j].ticket, why)
            b == PopDelayed(a, j)
<1>1. Smaller(a, p)
  BY SettleSmaller
<1>. HIDE DEF a
<1>2. Smaller(b, a)
  BY <1>1, PopDelayedSmaller DEF Smaller
<1>. HIDE DEF b
<1>3. Smaller(CancelTask(b, j), b)
  BY <1>2, CancelTaskSmaller DEF Smaller
<1>. QED  BY <1>1, <1>2, <1>3, SmallerTrans DEF Unparked, a, b

\* The jobs that stay keep their tickets.
LEMMA OthersStay ==
  ASSUME NEW p, NEW B, Timed(p, B), NEW n, NEW j,
         \/ n.active = Drop(p.active, j) /\ n.delayed = p.delayed /\ j \in DOMAIN p.active
         \/ n.delayed = Drop(p.delayed, j) /\ n.active = p.active /\ j \in DOMAIN p.delayed
  PROVE  /\ \A i \in DOMAIN p.armed \ {j} : JobTicket(n, i) = JobTicket(p, i)
         /\ \A i \in DOMAIN n.active : i # j /\ i \in DOMAIN p.active /\ n.active[i] = p.active[i]
<1>1. CASE n.active = Drop(p.active, j) /\ n.delayed = p.delayed /\ j \in DOMAIN p.active
  BY <1>1 DEF JobTicket, Drop, Restrict
<1>2. CASE n.delayed = Drop(p.delayed, j) /\ n.active = p.active /\ j \in DOMAIN p.delayed
  <2>1. j \notin DOMAIN p.active
    BY <1>2, Disjoint
  <2>2. \A i \in DOMAIN p.armed \ {j} : i \notin DOMAIN p.active => i \in DOMAIN p.delayed
    BY DEF Timed
  <2>. QED  BY <1>2, <2>1, <2>2 DEF JobTicket, Drop, Restrict
<1>. QED  BY <1>1, <1>2

LEMMA GoneGood ==
  ASSUME NEW p, NEW S, NEW H, NEW X, Good(p, S, H, X), NEW j \in DOMAIN p.active,
         NEW why \in Fates \ {"pending"}
  PROVE  Good(Gone(p, j, why), S, H, X)
<1>. DEFINE n == Gone(p, j, why)
<1>1. /\ n.active = Drop(p.active, j) /\ n.delayed = p.delayed
      /\ n.armed = Drop(p.armed, j) /\ n.on = p.on /\ n.next = p.next
      /\ n.sources = Left(p, j)
      /\ n.fate = Settle(p, p.active[j].ticket, why).fate
  <2>1. IsRegistry(p)
    BY DEF Good, Sound, QueueTyped
  <2>. QED  BY <2>1, GoneFields
<1>2. Sound(n)
  BY GoneSmaller DEF Good, Smaller
<1>. HIDE DEF n
<1>3. j \notin DOMAIN p.delayed
  BY Disjoint DEF Good
<1>4. Timed(n, JobsOf(S))
  BY <1>1, <1>3, DropTimed DEF Good
<1>5. Sourced(n, X)
  BY <1>1, DropSourced DEF Good, Left
<1>6. JobTicket(p, j) = p.active[j].ticket
  BY DEF JobTicket
<1>7. Settled(n, p, JobTicket(p, j), why)
  BY <1>1, <1>6, SettleSettled DEF Good, Sound, QueueTyped
<1>8. /\ \A i \in DOMAIN p.armed \ {j} : JobTicket(n, i) = JobTicket(p, i)
      /\ \A i \in DOMAIN n.active : i # j /\ i \in DOMAIN p.active /\ n.active[i] = p.active[i]
  BY <1>1, OthersStay DEF Good
<1>9. Ticketed(n, S, H)
  BY <1>1, <1>7, <1>8, DropTicketed DEF Good
<1>. QED  BY <1>2, <1>4, <1>5, <1>9 DEF Good, n

LEMMA UnparkedGood ==
  ASSUME NEW p, NEW S, NEW H, NEW X, Good(p, S, H, X), NEW j \in DOMAIN p.delayed,
         NEW why \in Fates \ {"pending"}
  PROVE  Good(Unparked(p, j, why), S, H, X)
<1>. DEFINE n == Unparked(p, j, why)
<1>1. /\ n.delayed = Drop(p.delayed, j) /\ n.active = p.active
      /\ n.armed = Drop(p.armed, j) /\ n.on = p.on /\ n.next = p.next
      /\ n.sources = p.sources
      /\ n.fate = Settle(p, p.delayed[j].ticket, why).fate
  BY UnparkedFields DEF Good, Sound, QueueTyped
<1>2. Sound(n)
  BY UnparkedSmaller DEF Good, Smaller
<1>. HIDE DEF n
<1>3. j \notin DOMAIN p.active /\ j \in DOMAIN p.armed
  BY Disjoint DEF Good, Timed
<1>4. Timed(n, JobsOf(S))
  BY <1>1, <1>3, DropTimed DEF Good
<1>5. Sourced(n, X)
  BY <1>1 DEF Good, Sourced
<1>6. JobTicket(p, j) = p.delayed[j].ticket
  BY <1>3 DEF JobTicket
<1>7. Settled(n, p, JobTicket(p, j), why)
  BY <1>1, <1>6, SettleSettled DEF Good, Sound, QueueTyped
<1>8. /\ \A i \in DOMAIN p.armed \ {j} : JobTicket(n, i) = JobTicket(p, i)
      /\ \A i \in DOMAIN n.active : i # j /\ i \in DOMAIN p.active /\ n.active[i] = p.active[i]
  BY <1>1, OthersStay DEF Good
<1>9. Ticketed(n, S, H)
  BY <1>1, <1>3, <1>7, <1>8, DropTicketed DEF Good
<1>. QED  BY <1>2, <1>4, <1>5, <1>9 DEF Good, n

LEMMA CancelGood ==
  ASSUME NEW p, NEW S, NEW H, NEW X, Good(p, S, H, X), NEW k, NEW why \in Fates \ {"pending"}
  PROVE  Good(Cancel(p, k, why), S, H, X)
<1>1. CASE HasActive(p, k)
  <2>1. Cancel(p, k, why) = Gone(p, p.keyJob[k], why)
    BY <1>1 DEF Cancel, Gone
  <2>. QED  BY <1>1, <2>1, GoneGood DEF HasActive
<1>2. CASE ~HasActive(p, k) /\ HasDelayed(p, k)
  <2>1. Cancel(p, k, why) = Unparked(p, p.delayedKey[k], why)
    BY <1>2 DEF Cancel, Unparked
  <2>. QED  BY <1>2, <2>1, UnparkedGood DEF HasDelayed
<1>3. CASE ~HasActive(p, k) /\ ~HasDelayed(p, k)
  BY <1>3 DEF Cancel
<1>. QED  BY <1>1, <1>2, <1>3

-----------------------------------------------------------------------------
(* Adding jobs *)

LEMMA AcceptFate ==
  ASSUME NEW p, IsRegistry(p), NEW t
  PROVE  /\ DOMAIN Accept(p, t).fate = DOMAIN p.fate \cup {t}
         /\ \A u \in DOMAIN Accept(p, t).fate :
              Accept(p, t).fate[u] = IF u \in DOMAIN p.fate THEN p.fate[u] ELSE "pending"
<1>. DEFINE g == IF t \in DOMAIN p.fate THEN p.fate ELSE Put(p.fate, t, "pending")
<1>1. Accept(p, t).fate = g
  BY DEF Accept, IsRegistry
<1>2. /\ DOMAIN g = DOMAIN p.fate \cup {t}
      /\ \A u \in DOMAIN g : g[u] = IF u \in DOMAIN p.fate THEN p.fate[u] ELSE "pending"
  BY DEF Put
<1>. QED  BY <1>1, <1>2

LEMMA InsertEffect ==
  ASSUME NEW p, IsRegistry(p), NEW r, NEW n, n = Insert(p, r)
  PROVE  /\ n.active = Put(p.active, p.next, [r EXCEPT !.attempt = 0]) /\ n.delayed = p.delayed
         /\ n.armed = Put(p.armed, p.next, [kind |-> "run", ticket |-> r.ticket])
         /\ n.sources = IF p.on THEN p.sources \cup SourcesOf(p.next, r) ELSE p.sources
         /\ n.on = p.on /\ n.next = p.next + 1
         /\ n.fate = Accept(p, r.ticket).fate
  BY InsertFields

\* A call that is inserted holds its key.
LEMMA InsertHolds ==
  ASSUME NEW p, Sound(p), NEW r, Fits(p, r), Free(p, r), r.key # None
  PROVE  Held(Insert(p, r), r.key)
<1>. DEFINE n == Insert(p, r)
            rec == [r EXCEPT !.attempt = 0]
<1>0. IsRegistry(p)
  BY DEF Sound, QueueTyped
<1>1. /\ n.active = Put(p.active, p.next, [r EXCEPT !.attempt = 0]) /\ n.delayed = p.delayed
      /\ n.armed = Put(p.armed, p.next, [kind |-> "run", ticket |-> r.ticket])
      /\ n.sources = IF p.on THEN p.sources \cup SourcesOf(p.next, r) ELSE p.sources
      /\ n.on = p.on /\ n.next = p.next + 1
      /\ n.fate = Accept(p, r.ticket).fate
  BY <1>0, InsertEffect
<1>2. rec.key = r.key
  BY DEF Fits, Request
<1>3. n.active = Put(p.active, p.next, rec)
  BY <1>1
<1>4. KeysIndexed(n)
  BY InsertLater DEF Later, Sound
<1>. HIDE DEF n, rec
<1>5. p.next \in DOMAIN n.active /\ n.active[p.next] = rec
  BY <1>3 DEF Put
<1>6. r.key \in DOMAIN n.keyJob
  BY <1>2, <1>4, <1>5 DEF KeysIndexed, Maps
<1>7. Held(n, r.key)
  BY <1>6 DEF Held
<1>. QED  BY <1>7 DEF n

\* An accepted call has its ticket in hand until a job of its own waits for it.
LEMMA InsertGood ==
  ASSUME NEW p, NEW S, NEW X, NEW r, Good(p, S, {r.ticket}, X), Fits(p, r), Free(p, r)
  PROVE  Good(Insert(p, r), S, {}, X)
<1>. DEFINE n == Insert(p, r)
            j == p.next
            rec == [r EXCEPT !.attempt = 0]
<1>0. rec.key = r.key /\ rec.ticket = r.ticket /\ rec.obj = r.obj
  BY DEF Fits, Request
<1>1. /\ n.active = Put(p.active, j, rec) /\ n.delayed = p.delayed
      /\ n.armed = Put(p.armed, j, [kind |-> "run", ticket |-> r.ticket])
      /\ n.sources = IF p.on THEN p.sources \cup SourcesOf(j, r) ELSE p.sources
      /\ n.on = p.on /\ n.next = j + 1
      /\ n.fate = Accept(p, r.ticket).fate
  <2>1. IsRegistry(p)
    BY DEF Good, Sound, QueueTyped
  <2>. QED  BY <2>1, InsertEffect
<1>2. Sound(n)
  BY InsertLater DEF Good, Later
<1>. HIDE DEF n, rec
<1>3. /\ j \in Nat /\ j \notin DOMAIN p.active /\ j \notin DOMAIN p.delayed
      /\ j \notin DOMAIN p.armed /\ j \notin JobsOf(S)
  BY DEF Good, Sound, QueueTyped, IdsBelow, Timed
<1>4. /\ DOMAIN n.active = DOMAIN p.active \cup {j} /\ n.active[j] = rec
      /\ \A i \in DOMAIN p.active : n.active[i] = p.active[i]
  <2>1. n.active = Put(p.active, j, rec)
    BY <1>1
  <2>. QED  BY <1>3, <2>1 DEF Put
<1>5. n.armed = Put(p.armed, j, [kind |-> "run", ticket |-> r.ticket])
  BY <1>1
<1>6. /\ DOMAIN n.armed = DOMAIN p.armed \cup {j} /\ n.armed[j].kind = "run"
      /\ \A i \in DOMAIN p.armed : n.armed[i] = p.armed[i]
  BY <1>3, <1>5 DEF Put
<1>7. Timed(n, JobsOf(S))
  <2>1. DOMAIN n.armed = (DOMAIN n.active \ JobsOf(S)) \cup DOMAIN n.delayed
    BY <1>1, <1>3, <1>4, <1>6 DEF Good, Timed
  <2>2. \A i \in DOMAIN n.active \ JobsOf(S) : n.armed[i].kind = "run"
    BY <1>4, <1>6 DEF Good, Timed
  <2>3. \A i \in DOMAIN n.delayed : n.armed[i].kind = "retry"
    BY <1>1, <1>6 DEF Good, Timed
  <2>4. \A i \in JobsOf(S) : i \notin DOMAIN n.delayed /\ i \in Nat /\ i < n.next
    BY <1>1, <1>3 DEF Good, Timed
  <2>. QED  BY <2>1, <2>2, <2>3, <2>4 DEF Timed
<1>8. Sourced(n, X)
  BY <1>0, <1>1, AddSourced DEF Good
<1>9. /\ JobTicket(n, j) = r.ticket
      /\ \A i \in DOMAIN p.armed : JobTicket(n, i) = JobTicket(p, i)
      /\ \A i \in DOMAIN n.active \ {j} : i \in DOMAIN p.active /\ n.active[i] = p.active[i]
  BY <1>0, <1>1, <1>3, <1>4 DEF JobTicket
<1>10. /\ DOMAIN n.fate = DOMAIN p.fate \cup {r.ticket}
       /\ \A u \in DOMAIN n.fate : n.fate[u] = IF u \in DOMAIN p.fate THEN p.fate[u] ELSE "pending"
  BY <1>1, AcceptFate DEF Good, Sound, QueueTyped
<1>11. Ticketed(n, S, {})
  BY <1>3, <1>5, <1>9, <1>10, AddTicketed DEF Good
<1>. QED  BY <1>2, <1>7, <1>8, <1>11 DEF Good, n

\* A call that is turned down waits nowhere.
LEMMA RejectGood ==
  ASSUME NEW p, NEW S, NEW X, NEW t, Good(p, S, {t}, X), NEW why \in Fates \ {"pending"}
  PROVE  Good(Settle(p, t, why), S, {}, X)
<1>. DEFINE n == Settle(p, t, why)
<1>1. /\ n.active = p.active /\ n.delayed = p.delayed /\ n.armed = p.armed
      /\ n.sources = p.sources /\ n.on = p.on /\ n.next = p.next
  BY DEF Settle, Good, Sound, QueueTyped, IsRegistry
<1>2. Sound(n)
  BY SettleSmaller DEF Good, Smaller
<1>3. Settled(n, p, t, why)
  BY SettleSettled DEF Good, Sound, QueueTyped
<1>. HIDE DEF n
<1>4. Timed(n, JobsOf(S))
  BY <1>1 DEF Good, Timed
<1>5. Sourced(n, X)
  BY <1>1 DEF Good, Sourced
<1>6. \A i : JobTicket(n, i) = JobTicket(p, i)
  BY <1>1 DEF JobTicket
<1>7. Ticketed(n, S, {})
  <2>1. \A i \in DOMAIN n.armed :
          n.armed[i].ticket = JobTicket(n, i) /\ Maps(n.fate, JobTicket(n, i), "pending")
    BY <1>1, <1>3, <1>6 DEF Good, Ticketed, Settled, Maps
  <2>2. ASSUME NEW u \in DOMAIN n.fate, n.fate[u] = "pending"
        PROVE  \E i \in DOMAIN n.armed : JobTicket(n, i) = u
    <3>1. u \in DOMAIN p.fate /\ p.fate[u] = "pending" /\ u # t
      BY <1>3, <2>2 DEF Settled
    <3>2. PICK i \in DOMAIN p.armed : JobTicket(p, i) = u
      BY <3>1 DEF Good, Ticketed
    <3>. QED  BY <1>1, <1>6, <3>2
  <2>3. \A i, k \in DOMAIN n.armed : JobTicket(n, i) = JobTicket(n, k) => i = k
    BY <1>1, <1>6 DEF Good, Ticketed
  <2>4. \A s \in S : s.ticket \in DOMAIN n.fate /\ n.fate[s.ticket] # "pending"
    BY <1>3 DEF Good, Ticketed, Settled
  <2>5. \A i \in DOMAIN n.active \ DOMAIN n.armed : [job |-> i, ticket |-> n.active[i].ticket] \in S
    BY <1>1 DEF Good, Ticketed
  <2>. QED  BY <2>1, <2>2, <2>3, <2>4, <2>5 DEF Ticketed
<1>. QED  BY <1>2, <1>4, <1>5, <1>7 DEF Good, n

LEMMA DelayGood ==
  ASSUME NEW p, NEW S, NEW X, NEW r, Good(p, S, {r.ticket}, X), Fits(p, r), Free(p, r)
  PROVE  Good(Delay(p, r), S, {}, X)
<1>a. CASE r.attempt >= MaxDelayAttempts
  <2>1. Delay(p, r) = Settle(p, r.ticket, "rejected")
    BY <1>a DEF Delay, Reject
  <2>. QED  BY <2>1, RejectGood DEF Fates, Withdrawn
<1>b. CASE ~(r.attempt >= MaxDelayAttempts)
  <2>. DEFINE n == Delay(p, r)
              j == p.next
              rec == [r EXCEPT !.attempt = @ + 1]
  <2>0. rec.ticket = r.ticket /\ r.attempt \in Nat /\ r.attempt < MaxDelayAttempts
    BY <1>b, QueueAssumption DEF Fits, Request
  <2>1. /\ n.delayed = Put(p.delayed, j, rec) /\ n.active = p.active
        /\ n.armed = Put(p.armed, j, [kind |-> "retry", ticket |-> r.ticket])
        /\ n.sources = p.sources /\ n.on = p.on /\ n.next = j + 1
        /\ n.fate = Accept(p, r.ticket).fate
    BY <2>0, DelayFields DEF Good, Sound, QueueTyped
  <2>2. Sound(n)
    BY DelayLater DEF Good, Later
  <2>. HIDE DEF n, rec
  <2>3. /\ j \in Nat /\ j \notin DOMAIN p.active /\ j \notin DOMAIN p.delayed
        /\ j \notin DOMAIN p.armed /\ j \notin JobsOf(S)
    BY DEF Good, Sound, QueueTyped, IdsBelow, Timed
  <2>4. /\ DOMAIN n.delayed = DOMAIN p.delayed \cup {j} /\ n.delayed[j] = rec
        /\ \A i \in DOMAIN p.delayed : n.delayed[i] = p.delayed[i]
    <3>1. n.delayed = Put(p.delayed, j, rec)
      BY <2>1
    <3>. QED  BY <2>3, <3>1 DEF Put
  <2>5. n.armed = Put(p.armed, j, [kind |-> "retry", ticket |-> r.ticket])
    BY <2>1
  <2>6. /\ DOMAIN n.armed = DOMAIN p.armed \cup {j} /\ n.armed[j].kind = "retry"
        /\ \A i \in DOMAIN p.armed : n.armed[i] = p.armed[i]
    BY <2>3, <2>5 DEF Put
  <2>7. Timed(n, JobsOf(S))
    <3>1. DOMAIN n.armed = (DOMAIN n.active \ JobsOf(S)) \cup DOMAIN n.delayed
      BY <2>1, <2>3, <2>4, <2>6 DEF Good, Timed
    <3>2. \A i \in DOMAIN n.active \ JobsOf(S) : n.armed[i].kind = "run"
      BY <2>1, <2>6 DEF Good, Timed
    <3>3. \A i \in DOMAIN n.delayed : n.armed[i].kind = "retry"
      BY <2>4, <2>6 DEF Good, Timed
    <3>4. \A i \in JobsOf(S) : i \notin DOMAIN n.delayed /\ i \in Nat /\ i < n.next
      BY <2>1, <2>3, <2>4 DEF Good, Timed
    <3>. QED  BY <3>1, <3>2, <3>3, <3>4 DEF Timed
  <2>8. Sourced(n, X)
    BY <2>1 DEF Good, Sourced
  <2>9. /\ JobTicket(n, j) = r.ticket
        /\ \A i \in DOMAIN p.armed : JobTicket(n, i) = JobTicket(p, i)
        /\ \A i \in DOMAIN n.active \ {j} : i \in DOMAIN p.active /\ n.active[i] = p.active[i]
    <3>1. \A i \in DOMAIN p.armed : i \in DOMAIN p.active \/ i \in DOMAIN p.delayed
      BY DEF Good, Timed
    <3>. QED  BY <2>0, <2>1, <2>3, <2>4, <3>1 DEF JobTicket
  <2>10. /\ DOMAIN n.fate = DOMAIN p.fate \cup {r.ticket}
         /\ \A u \in DOMAIN n.fate : n.fate[u] = IF u \in DOMAIN p.fate THEN p.fate[u] ELSE "pending"
    BY <2>1, AcceptFate DEF Good, Sound, QueueTyped
  <2>11. Ticketed(n, S, {})
    BY <2>3, <2>5, <2>9, <2>10, AddTicketed DEF Good
  <2>. QED  BY <2>2, <2>7, <2>8, <2>11 DEF Good, n
<1>. QED  BY <1>a, <1>b

LEMMA ReplaceOldestGood ==
  ASSUME NEW p, NEW S, NEW X, NEW r, Good(p, S, {r.ticket}, X), Fits(p, r), Free(p, r),
         NEW scope, scope \subseteq DOMAIN p.active
  PROVE  Good(ReplaceOldest(p, r, scope), S, {}, X)
<1>1. CASE scope = {}
  <2>1. ReplaceOldest(p, r, scope) = Settle(p, r.ticket, "rejected")
    BY <1>1 DEF ReplaceOldest, Reject
  <2>. QED  BY <2>1, RejectGood DEF Fates, Withdrawn
<1>2. CASE scope # {}
  <2>. DEFINE j == CHOOSE i \in scope : \A h \in scope : i <= h
              c == Gone(p, j, "evicted")
  <2>1. scope \subseteq Nat
    BY DEF Good, Sound, QueueTyped, IdsBelow
  <2>2. j \in scope
    BY <1>2, <2>1, Oldest
  <2>3. ReplaceOldest(p, r, scope) = Insert(c, r)
    BY <1>2 DEF ReplaceOldest, Gone
  <2>. HIDE DEF j
  <2>4. Good(c, S, {r.ticket}, X)
    BY <2>2, GoneGood DEF Fates, Withdrawn
  <2>5. Smaller(c, p)
    BY <2>2, GoneSmaller DEF Good, Fates, Withdrawn
  <2>. HIDE DEF c
  <2>6. Fits(c, r) /\ Free(c, r)
    BY <2>5, FitsSmaller
  <2>. QED  BY <2>3, <2>4, <2>6, InsertGood
<1>. QED  BY <1>1, <1>2

-----------------------------------------------------------------------------
(* The calls *)

LEMMA ApplyGood ==
  ASSUME NEW p, NEW S, NEW X, NEW r, Good(p, S, {r.ticket}, X), Fits(p, r), Free(p, r),
         NEW behavior \in Behaviors, NEW scope, scope \subseteq DOMAIN p.active
  PROVE  Good(Apply(p, r, behavior, scope), S, {}, X)
<1>1. CASE behavior = "reject"
  <2>1. Apply(p, r, behavior, scope) = Settle(p, r.ticket, "rejected")
    BY <1>1 DEF Apply, Reject
  <2>. QED  BY <2>1, RejectGood DEF Fates, Withdrawn
<1>2. CASE behavior = "replace_oldest"
  <2>1. Apply(p, r, behavior, scope) = ReplaceOldest(p, r, scope)
    BY <1>2 DEF Apply
  <2>. QED  BY <2>1, ReplaceOldestGood
<1>3. CASE behavior = "delay"
  <2>1. Apply(p, r, behavior, scope) = Delay(p, r)
    BY <1>3 DEF Apply
  <2>. QED  BY <2>1, DelayGood
<1>. QED  BY <1>1, <1>2, <1>3 DEF Behaviors

LEMMA AdmitGood ==
  ASSUME NEW p, NEW S, NEW X, NEW r, Good(p, S, {r.ticket}, X), Fits(p, r), Free(p, r)
  PROVE  Good(Admit(p, r), S, {}, X)
<1>0. /\ {OwnerBehavior, SystemBehavior, GlobalBehavior} \subseteq Behaviors
      /\ OwnedBy(p, r.owner) \subseteq DOMAIN p.active
      /\ InSystem(p, r.system) \subseteq DOMAIN p.active
  BY QueueAssumption DEF OwnedBy, InSystem
<1>1. CASE OverOwner(p, r)
  BY <1>0, <1>1, ApplyGood DEF Admit
<1>2. CASE ~OverOwner(p, r) /\ OverSystem(p, r)
  BY <1>0, <1>2, ApplyGood DEF Admit
<1>3. CASE ~OverOwner(p, r) /\ ~OverSystem(p, r) /\ OverTotal(p)
  BY <1>0, <1>3, ApplyGood DEF Admit
<1>4. CASE ~OverOwner(p, r) /\ ~OverSystem(p, r) /\ ~OverTotal(p)
  BY <1>4, InsertGood DEF Admit
<1>. QED  BY <1>1, <1>2, <1>3, <1>4

LEMMA ScheduleGood ==
  ASSUME NEW p, NEW S, NEW X, NEW r, Good(p, S, {r.ticket}, X), Fits(p, r)
  PROVE  Good(Schedule(p, r), S, {}, X)
<1>1. CASE Held(p, r.key) /\ r.conflict = "reject"
  <2>1. Schedule(p, r) = Settle(p, r.ticket, "rejected")
    BY <1>1 DEF Schedule, Reject
  <2>. QED  BY <2>1, RejectGood DEF Fates, Withdrawn
<1>2. CASE Held(p, r.key) /\ r.conflict # "reject"
  <2>. DEFINE c == Cancel(p, r.key, "replaced")
  <2>1. Schedule(p, r) = Admit(c, r)
    BY <1>2 DEF Schedule
  <2>2. Smaller(c, p) /\ Free(c, r)
    BY CancelSmaller DEF Good, Fates, Withdrawn, Free
  <2>3. Good(c, S, {r.ticket}, X)
    BY CancelGood DEF Fates, Withdrawn
  <2>. HIDE DEF c
  <2>4. Fits(c, r)
    BY <2>2, FitsSmaller
  <2>. QED  BY <2>1, <2>2, <2>3, <2>4, AdmitGood
<1>3. CASE ~Held(p, r.key)
  BY <1>3, AdmitGood DEF Schedule, Free
<1>. QED  BY <1>1, <1>2, <1>3

LEMMA RearmGood ==
  ASSUME NEW p, NEW S, NEW X, NEW r, Good(p, S, {r.ticket}, X), Fits(p, r)
  PROVE  Good(Rearm(p, r), S, {}, X)
<1>1. CASE r.args
  <2>1. Rearm(p, r) = Settle(p, r.ticket, "lost")
    BY <1>1 DEF Rearm
  <2>. QED  BY <2>1, RejectGood DEF Fates, Withdrawn
<1>2. CASE ~r.args
  <2>1. Rearm(p, r) = Schedule(p, r)
    BY <1>2 DEF Rearm
  <2>. QED  BY <2>1, ScheduleGood
<1>. QED  BY <1>1, <1>2

NewTicket(p, t) == IF Maps(p.fate, t, "pending") THEN t ELSE p.next

LEMMA NewTicketFields ==
  ASSUME NEW p, Sound(p), NEW rec \in Request, rec.ticket \in DOMAIN p.fate
  PROVE  /\ NewTicketIfStarted(p, rec).ticket = NewTicket(p, rec.ticket)
         /\ Fits(p, NewTicketIfStarted(p, rec))
  BY DEF NewTicketIfStarted, NewTicket, Fits, Request, Sound, QueueTyped

\* Taking a job out to queue it again: the ticket is taken in hand, or a new one
\* for a job whose own callback is running.
LEMMA TakeActive ==
  ASSUME NEW p, NEW S, NEW X, Good(p, S, {}, X), NEW j \in DOMAIN p.active, NEW n, Sound(n),
         n.active = Drop(p.active, j), n.delayed = p.delayed,
         n.armed = Drop(p.armed, j), n.on = p.on, n.next = p.next, n.sources = Left(p, j),
         Settled(n, p, p.active[j].ticket, "pending")
  PROVE  Good(n, S, {NewTicket(p, p.active[j].ticket)}, X)
<1>3. j \notin DOMAIN p.delayed
  BY Disjoint DEF Good
<1>4. Timed(n, JobsOf(S))
  BY <1>3, DropTimed DEF Good
<1>5. Sourced(n, X)
  BY DropSourced DEF Good, Left
<1>6. JobTicket(p, j) = p.active[j].ticket
  BY DEF JobTicket
<1>7. Settled(n, p, JobTicket(p, j), "pending")
  BY <1>6
<1>8. /\ \A i \in DOMAIN p.armed \ {j} : JobTicket(n, i) = JobTicket(p, i)
      /\ \A i \in DOMAIN n.active : i # j /\ i \in DOMAIN p.active /\ n.active[i] = p.active[i]
  BY OthersStay DEF Good
<1>9. p.next \notin DOMAIN p.fate
  BY DEF Good, Sound, QueueTyped, IdsBelow
<1>10. n.armed = Drop(p.armed, j)
  OBVIOUS
<1>11. Ticketed(n, S, {NewTicket(p, JobTicket(p, j))})
  BY <1>7, <1>8, <1>9, <1>10, TakeTicketed DEF Good, NewTicket
<1>. QED  BY <1>4, <1>5, <1>6, <1>11 DEF Good

\* cancel() as reschedule() uses it
LEMMA TakeGone ==
  ASSUME NEW p, NEW S, NEW X, Good(p, S, {}, X), NEW j \in DOMAIN p.active
  PROVE  Good(Gone(p, j, "pending"), S, {NewTicket(p, p.active[j].ticket)}, X)
<1>. DEFINE n == Gone(p, j, "pending")
<1>0. IsRegistry(p)
  BY DEF Good, Sound, QueueTyped
<1>1. /\ n.active = Drop(p.active, j) /\ n.delayed = p.delayed
      /\ n.armed = Drop(p.armed, j) /\ n.on = p.on /\ n.next = p.next
      /\ n.sources = Left(p, j)
      /\ n.fate = Settle(p, p.active[j].ticket, "pending").fate
  BY <1>0, GoneFields
<1>2. Sound(n)
  BY GoneSmaller DEF Good, Smaller, Fates
<1>. HIDE DEF n
<1>3. Settled(n, p, p.active[j].ticket, "pending")
  BY <1>0, <1>1, SettleSettled
<1>4. Good(n, S, {NewTicket(p, p.active[j].ticket)}, X)
  BY <1>1, <1>2, <1>3, TakeActive
<1>. QED  BY <1>4 DEF n

LEMMA TakeUnparked ==
  ASSUME NEW p, NEW S, NEW X, Good(p, S, {}, X), NEW j \in DOMAIN p.delayed, NEW n, Sound(n),
         n.delayed = Drop(p.delayed, j), n.active = p.active,
         n.armed = Drop(p.armed, j), n.on = p.on, n.next = p.next, n.sources = p.sources,
         Settled(n, p, p.delayed[j].ticket, "pending")
  PROVE  Good(n, S, {NewTicket(p, p.delayed[j].ticket)}, X)
<1>1. j \notin DOMAIN p.active /\ j \in DOMAIN p.armed
  BY Disjoint DEF Good, Timed
<1>2. Timed(n, JobsOf(S))
  BY <1>1, DropTimed DEF Good
<1>3. Sourced(n, X)
  BY DEF Good, Sourced
<1>4. JobTicket(p, j) = p.delayed[j].ticket
  BY <1>1 DEF JobTicket
<1>5. /\ \A i \in DOMAIN p.armed \ {j} : JobTicket(n, i) = JobTicket(p, i)
      /\ \A i \in DOMAIN n.active : i # j /\ i \in DOMAIN p.active /\ n.active[i] = p.active[i]
  BY OthersStay DEF Good
<1>6. p.next \notin DOMAIN p.fate
  BY DEF Good, Sound, QueueTyped, IdsBelow
<1>7. n.armed = Drop(p.armed, j) /\ Settled(n, p, JobTicket(p, j), "pending")
  BY <1>4
<1>8. Ticketed(n, S, {NewTicket(p, JobTicket(p, j))})
  BY <1>1, <1>5, <1>6, <1>7, TakeTicketed DEF Good, NewTicket
<1>. QED  BY <1>2, <1>3, <1>4, <1>8 DEF Good

\* The retry timer of a parked job has fired; the ticket goes to the next job.
LEMMA RetryGood ==
  ASSUME NEW p, NEW S, NEW X, Good(p, S, {}, X), NEW j \in DOMAIN p.delayed
  PROVE  Good(RetryDelayed(CancelTask(p, j), j), S, {}, X)
<1>. DEFINE a == CancelTask(p, j)
            n == PopDelayed(a, j)
            r == p.delayed[j]
<1>1. /\ IsRegistry(a) /\ a.active = p.active /\ a.delayed = p.delayed
      /\ a.armed = Drop(p.armed, j) /\ a.sources = p.sources
      /\ a.on = p.on /\ a.fate = p.fate /\ a.next = p.next
  BY CancelTaskFields DEF Good, Sound, QueueTyped
<1>2. Smaller(a, p)
  BY CancelTaskSmaller DEF Good
<1>. HIDE DEF a
<1>3. RetryDelayed(a, j) = Rearm(n, r)
  BY <1>1 DEF RetryDelayed
<1>4. /\ n.delayed = Drop(p.delayed, j) /\ n.active = p.active
      /\ n.armed = Drop(p.armed, j) /\ n.sources = p.sources
      /\ n.on = p.on /\ n.fate = p.fate /\ n.next = p.next
  <2>1. j \in DOMAIN a.delayed
    BY <1>1
  <2>2. /\ n.delayed = Drop(a.delayed, j) /\ n.active = a.active
        /\ n.armed = a.armed /\ n.sources = a.sources
        /\ n.on = a.on /\ n.fate = a.fate /\ n.next = a.next
    BY <1>1, <2>1, PopDelayedFields
  <2>. QED  BY <1>1, <2>2
<1>5. Smaller(n, p)
  <2>1. Smaller(n, a)
    BY <1>2, PopDelayedSmaller DEF Smaller
  <2>. QED  BY <1>2, <2>1, SmallerTrans
<1>. HIDE DEF n
<1>6. Settled(n, p, r.ticket, "pending")
  BY <1>4 DEF Settled
<1>7. Good(n, S, {NewTicket(p, r.ticket)}, X)
  BY <1>4, <1>5, <1>6, TakeUnparked DEF Smaller
<1>8. j \in DOMAIN p.armed /\ JobTicket(p, j) = r.ticket
  BY Disjoint DEF Good, Timed, JobTicket
<1>9. NewTicket(p, r.ticket) = r.ticket /\ Fits(p, r)
  BY <1>8 DEF Good, Ticketed, NewTicket, Fits, Sound, QueueTyped, RecordsTyped
<1>10. Fits(n, r)
  BY <1>5, <1>9, FitsSmaller
<1>11. Good(Rearm(n, r), S, {}, X)
  BY <1>7, <1>9, <1>10, RearmGood
<1>. QED  BY <1>3, <1>11 DEF a

LEMMA RescheduleGood ==
  ASSUME NEW p, NEW S, NEW X, Good(p, S, {}, X), NEW k
  PROVE  Good(Reschedule(p, k), S, {}, X)
<1>. DEFINE c == Cancel(p, k, "pending")
<1>0. Smaller(c, p)
  BY CancelSmaller DEF Good, Fates
<1>1. CASE HasActive(p, k)
  <2>. DEFINE j == p.keyJob[k]
              r == NewTicketIfStarted(p, p.active[j])
  <2>1. j \in DOMAIN p.active /\ p.active[j] \in Request /\ p.active[j].ticket \in DOMAIN p.fate
    BY <1>1 DEF HasActive, Good, Sound, QueueTyped, RecordsTyped
  <2>2. c = Gone(p, j, "pending")
    BY <1>1 DEF Cancel, Gone
  <2>3. Good(c, S, {NewTicket(p, p.active[j].ticket)}, X)
    BY <2>1, <2>2, TakeGone
  <2>4. r.ticket = NewTicket(p, p.active[j].ticket) /\ Fits(p, r)
    BY <2>1, NewTicketFields DEF Good
  <2>5. Reschedule(p, k) = Rearm(c, r)
    BY <1>1 DEF Reschedule
  <2>. HIDE DEF c, r
  <2>6. Fits(c, r)
    BY <1>0, <2>4, FitsSmaller
  <2>. QED  BY <2>3, <2>4, <2>5, <2>6, RearmGood
<1>2. CASE ~HasActive(p, k) /\ HasDelayed(p, k)
  <2>. DEFINE j == p.delayedKey[k]
              r == NewTicketIfStarted(p, p.delayed[j])
  <2>1. j \in DOMAIN p.delayed /\ p.delayed[j] \in Request /\ p.delayed[j].ticket \in DOMAIN p.fate
    BY <1>2 DEF HasDelayed, Good, Sound, QueueTyped, RecordsTyped
  <2>2. c = Unparked(p, j, "pending")
    BY <1>2 DEF Cancel, Unparked
  <2>3. Good(c, S, {NewTicket(p, p.delayed[j].ticket)}, X)
    <3>0. IsRegistry(p)
      BY DEF Good, Sound, QueueTyped
    <3>. DEFINE u == Unparked(p, j, "pending")
    <3>1. /\ u.delayed = Drop(p.delayed, j) /\ u.active = p.active
          /\ u.armed = Drop(p.armed, j) /\ u.on = p.on /\ u.next = p.next
          /\ u.sources = p.sources
          /\ u.fate = Settle(p, p.delayed[j].ticket, "pending").fate
      BY <2>1, <3>0, UnparkedFields
    <3>2. Sound(u)
      BY <1>0, <2>2 DEF Smaller
    <3>. HIDE DEF u
    <3>3. Settled(u, p, p.delayed[j].ticket, "pending")
      BY <3>0, <3>1, SettleSettled
    <3>4. Good(u, S, {NewTicket(p, p.delayed[j].ticket)}, X)
      BY <2>1, <3>1, <3>2, <3>3, TakeUnparked
    <3>. QED  BY <2>2, <3>4 DEF u
  <2>4. r.ticket = NewTicket(p, p.delayed[j].ticket) /\ Fits(p, r)
    BY <2>1, NewTicketFields DEF Good
  <2>5. Reschedule(p, k) = Rearm(c, r)
    BY <1>2 DEF Reschedule
  <2>. HIDE DEF c, r
  <2>6. Fits(c, r)
    BY <1>0, <2>4, FitsSmaller
  <2>. QED  BY <2>3, <2>4, <2>5, <2>6, RearmGood
<1>3. CASE ~HasActive(p, k) /\ ~HasDelayed(p, k)
  BY <1>3 DEF Reschedule
<1>. QED  BY <1>1, <1>2, <1>3

-----------------------------------------------------------------------------
(* Callbacks *)

LEMMA SetFateFields ==
  ASSUME NEW p, IsRegistry(p), NEW t, NEW f, NEW n, n = [p EXCEPT !.fate[t] = f]
  PROVE  /\ n.active = p.active /\ n.delayed = p.delayed /\ n.armed = p.armed
         /\ n.sources = p.sources /\ n.on = p.on /\ n.next = p.next
         /\ n.fate = [p.fate EXCEPT ![t] = f]
  BY DEF IsRegistry

\* The timer of a registered job is gone: its callback is on the stack, or the task
\* was cancelled behind the scheduler's back.
LEMMA LostTimerGood ==
  ASSUME NEW p, NEW S, NEW X, Good(p, S, {}, X), NEW j \in DOMAIN p.armed, j \in DOMAIN p.active,
         NEW why \in Fates \ {"pending"}, NEW n, Sound(n),
         n.active = p.active, n.delayed = p.delayed, n.sources = p.sources, n.on = p.on,
         n.next = p.next, n.armed = Drop(p.armed, j),
         n.fate = [p.fate EXCEPT ![p.armed[j].ticket] = why]
  PROVE  Good(n, S \cup {[job |-> j, ticket |-> p.armed[j].ticket]}, {}, X)
<1>. DEFINE t == p.armed[j].ticket
            T == S \cup {[job |-> j, ticket |-> t]}
<1>3. n.armed = Drop(p.armed, j)
  OBVIOUS
<1>4. DOMAIN n.armed = DOMAIN p.armed \ {j} /\ \A i \in DOMAIN n.armed : n.armed[i] = p.armed[i]
  BY <1>3 DEF Drop, Restrict
<1>5. j \notin DOMAIN p.delayed /\ j \in Nat /\ j < p.next
  BY Disjoint DEF Good, Sound, QueueTyped, IdsBelow
<1>6. t = JobTicket(p, j) /\ t = p.active[j].ticket /\ t \in DOMAIN p.fate
  BY <1>5 DEF Good, Ticketed, JobTicket, Maps
<1>7. /\ DOMAIN n.fate = DOMAIN p.fate /\ n.fate[t] # "pending"
      /\ \A u \in DOMAIN p.fate \ {t} : n.fate[u] = p.fate[u]
  BY <1>6
<1>8. JobsOf(T) = JobsOf(S) \cup {j}
  <2>1. ASSUME NEW i \in JobsOf(T) PROVE i \in JobsOf(S) \cup {j}
    BY <2>1 DEF JobsOf
  <2>2. JobsOf(S) \subseteq JobsOf(T)
    BY DEF JobsOf
  <2>3. j \in JobsOf(T)
    <3>1. [job |-> j, ticket |-> t] \in T /\ j = [job |-> j, ticket |-> t].job
      OBVIOUS
    <3>. QED  BY <3>1 DEF JobsOf
  <2>. QED  BY <2>1, <2>2, <2>3
<1>. HIDE DEF t
<1>9. Timed(n, JobsOf(S) \cup {j})
  <2>1. Timed(p, JobsOf(S))
    BY DEF Good
  <2>2. DOMAIN n.armed = (DOMAIN n.active \ (JobsOf(S) \cup {j})) \cup DOMAIN n.delayed
    BY <1>4, <1>5, <2>1 DEF Timed
  <2>. QED  BY <1>4, <1>5, <2>1, <2>2 DEF Timed
<1>10. Sourced(n, X)
  BY DEF Good, Sourced
<1>11. \A i : JobTicket(n, i) = JobTicket(p, i)
  BY DEF JobTicket
<1>12. \A i \in DOMAIN n.armed : JobTicket(n, i) # t
  <2>1. \A i, k \in DOMAIN p.armed : JobTicket(p, i) = JobTicket(p, k) => i = k
    BY DEF Good, Ticketed
  <2>. QED  BY <1>4, <1>6, <1>11, <2>1
<1>13. Ticketed(n, T, {})
  <2>0. Ticketed(p, S, {})
    BY DEF Good
  <2>1. \A i \in DOMAIN n.armed :
          n.armed[i].ticket = JobTicket(n, i) /\ Maps(n.fate, JobTicket(n, i), "pending")
    BY <2>0, <1>4, <1>7, <1>11, <1>12 DEF Ticketed, Maps
  <2>2. ASSUME NEW u \in DOMAIN n.fate, n.fate[u] = "pending"
        PROVE  \E i \in DOMAIN n.armed : JobTicket(n, i) = u
    <3>1. u # t /\ u \in DOMAIN p.fate /\ p.fate[u] = "pending"
      BY <1>7, <2>2
    <3>2. PICK i \in DOMAIN p.armed : JobTicket(p, i) = u
      BY <2>0, <3>1 DEF Ticketed
    <3>. QED  BY <1>4, <1>6, <1>11, <3>1, <3>2
  <2>3. \A i, k \in DOMAIN n.armed : JobTicket(n, i) = JobTicket(n, k) => i = k
    BY <2>0, <1>4, <1>11 DEF Ticketed
  <2>4. \A i \in DOMAIN n.active \ DOMAIN n.armed : [job |-> i, ticket |-> n.active[i].ticket] \in T
    BY <2>0, <1>4, <1>6 DEF Ticketed
  <2>5. \A s \in T : s.ticket \in DOMAIN n.fate /\ n.fate[s.ticket] # "pending"
    BY <2>0, <1>6, <1>7 DEF Ticketed
  <2>. QED  BY <2>1, <2>2, <2>3, <2>4, <2>5 DEF Ticketed
<1>14. Good(n, T, {}, X)
  BY <1>8, <1>9, <1>10, <1>13 DEF Good
<1>. QED  BY <1>14 DEF t

LEMMA BeginGood ==
  ASSUME NEW p, NEW S, NEW X, Good(p, S, {}, X), NEW j \in DOMAIN p.armed, j \in DOMAIN p.active,
         NEW n, Sound(n), n = [CancelTask(p, j) EXCEPT !.fate[p.armed[j].ticket] = "running"]
  PROVE  Good(n, S \cup {[job |-> j, ticket |-> p.armed[j].ticket]}, {}, X)
<1>. DEFINE a == CancelTask(p, j)
            t == p.armed[j].ticket
<1>1. /\ IsRegistry(a) /\ a.active = p.active /\ a.delayed = p.delayed
      /\ a.armed = Drop(p.armed, j) /\ a.sources = p.sources
      /\ a.on = p.on /\ a.fate = p.fate /\ a.next = p.next
  BY CancelTaskFields DEF Good, Sound, QueueTyped
<1>. HIDE DEF a
<1>2. /\ n.active = a.active /\ n.delayed = a.delayed /\ n.armed = a.armed
      /\ n.sources = a.sources /\ n.on = a.on /\ n.next = a.next
      /\ n.fate = [a.fate EXCEPT ![t] = "running"]
  BY <1>1, SetFateFields DEF a
<1>3. /\ n.active = p.active /\ n.delayed = p.delayed /\ n.sources = p.sources /\ n.on = p.on
      /\ n.next = p.next /\ n.armed = Drop(p.armed, j) /\ n.fate = [p.fate EXCEPT ![t] = "running"]
  BY <1>1, <1>2
<1>4. "running" \in Fates \ {"pending"}
  BY DEF Fates
<1>. QED  BY <1>3, <1>4, LostTimerGood

\* Popping a job whose timer is gone, and recording how its callback ended, disturbs
\* no other job.
LEMMA PopUnarmedGood ==
  ASSUME NEW p, NEW S, NEW X, Good(p, S, {}, X), NEW j, j \notin DOMAIN p.armed
  PROVE  Good(PopJob(p, j), S, {}, X)
<1>. DEFINE a == PopJob(p, j)
<1>1. Sound(a)
  BY PopJobSmaller DEF Good, Smaller
<1>. HIDE DEF a
<1>2. /\ a.delayed = p.delayed /\ a.armed = p.armed /\ a.fate = p.fate /\ a.next = p.next
      /\ DOMAIN a.active = DOMAIN p.active \ {j}
      /\ \A i \in DOMAIN a.active : a.active[i] = p.active[i]
      /\ Sourced(a, X)
  <2>1. CASE j \in DOMAIN p.active
    <3>0. IsRegistry(p)
      BY DEF Good, Sound, QueueTyped
    <3>1. /\ a.active = Drop(p.active, j) /\ a.delayed = p.delayed
          /\ a.armed = p.armed /\ a.on = p.on /\ a.fate = p.fate /\ a.next = p.next
          /\ a.sources = Left(p, j)
      BY <2>1, <3>0, PopJobLeft DEF a
    <3>2. Sourced(a, X)
      BY <2>1, <3>1, DropSourced DEF Good, Left
    <3>. QED  BY <3>1, <3>2 DEF Drop, Restrict
  <2>2. CASE j \notin DOMAIN p.active
    BY <2>2 DEF a, PopJob, Good
  <2>. QED  BY <2>1, <2>2
<1>3. Timed(p, JobsOf(S)) /\ Ticketed(p, S, {})
  BY DEF Good
<1>4. Timed(a, JobsOf(S))
  BY <1>2, <1>3 DEF Timed
<1>5. \A i \in DOMAIN p.armed : JobTicket(a, i) = JobTicket(p, i)
  BY <1>2 DEF JobTicket
<1>6. Ticketed(a, S, {})
  BY <1>2, <1>3, <1>5 DEF Ticketed
<1>. QED  BY <1>1, <1>2, <1>4, <1>6 DEF Good, a

\* A callback that returns takes its own job along, and no other one.
LEMMA FinishGood ==
  ASSUME NEW p, NEW S, NEW X, Good(p, S, {}, X), NEW r \in S,
         NEW n, Sound(n), n = [PopJob(p, r.job) EXCEPT !.fate[r.ticket] = "ran"]
  PROVE  Good(n, S \ {r}, {}, X)
<1>. DEFINE a == PopJob(p, r.job)
<1>1. r.job \notin DOMAIN p.armed /\ r.ticket \in DOMAIN p.fate /\ p.fate[r.ticket] # "pending"
  BY DEF Good, Timed, Ticketed, JobsOf
<1>2. Good(a, S, {}, X)
  BY <1>1, PopUnarmedGood
<1>3. IsRegistry(a)
  BY <1>2 DEF Good, Sound, QueueTyped
<1>4. a.fate = p.fate /\ r.job \notin DOMAIN a.active
  <2>1. CASE r.job \in DOMAIN p.active
    <3>1. IsRegistry(p)
      BY DEF Good, Sound, QueueTyped
    <3>2. /\ a.active = Drop(p.active, r.job) /\ a.delayed = p.delayed
          /\ a.armed = p.armed /\ a.on = p.on /\ a.fate = p.fate /\ a.next = p.next
          /\ a.sources = Left(p, r.job)
      BY <2>1, <3>1, PopJobLeft
    <3>. QED  BY <3>2 DEF Drop, Restrict
  <2>2. CASE r.job \notin DOMAIN p.active
    BY <2>2 DEF PopJob
  <2>. QED  BY <2>1, <2>2
<1>. HIDE DEF a
<1>5. /\ n.active = a.active /\ n.delayed = a.delayed /\ n.armed = a.armed
      /\ n.sources = a.sources /\ n.on = a.on /\ n.next = a.next
      /\ n.fate = [a.fate EXCEPT ![r.ticket] = "ran"]
  BY <1>3, SetFateFields DEF a
<1>6. /\ DOMAIN n.fate = DOMAIN a.fate
      /\ \A u \in DOMAIN a.fate : n.fate[u] = "pending" <=> a.fate[u] = "pending"
  BY <1>1, <1>4, <1>5
<1>7. Timed(a, JobsOf(S)) /\ Sourced(a, X) /\ Ticketed(a, S, {})
  BY <1>2 DEF Good
<1>8. Timed(n, JobsOf(S \ {r}))
  <2>1. JobsOf(S) \ {r.job} \subseteq JobsOf(S \ {r}) /\ JobsOf(S \ {r}) \subseteq JobsOf(S)
    BY DEF JobsOf
  <2>2. DOMAIN a.active \ JobsOf(S \ {r}) = DOMAIN a.active \ JobsOf(S)
    BY <1>4, <2>1
  <2>. QED  BY <1>5, <1>7, <2>1, <2>2 DEF Timed
<1>9. Sourced(n, X)
  BY <1>5, <1>7 DEF Sourced
<1>10. \A i : JobTicket(n, i) = JobTicket(a, i)
  BY <1>5 DEF JobTicket
<1>11. Ticketed(n, S \ {r}, {})
  <2>1. \A i \in DOMAIN n.armed :
          n.armed[i].ticket = JobTicket(n, i) /\ Maps(n.fate, JobTicket(n, i), "pending")
    BY <1>5, <1>6, <1>7, <1>10 DEF Ticketed, Maps
  <2>2. \A u \in DOMAIN n.fate :
          n.fate[u] = "pending" => \E i \in DOMAIN n.armed : JobTicket(n, i) = u
    BY <1>5, <1>6, <1>7, <1>10 DEF Ticketed
  <2>3. \A i, k \in DOMAIN n.armed : JobTicket(n, i) = JobTicket(n, k) => i = k
    BY <1>5, <1>7, <1>10 DEF Ticketed
  <2>4. \A s \in S \ {r} : s.ticket \in DOMAIN n.fate /\ n.fate[s.ticket] # "pending"
    BY <1>6, <1>7 DEF Ticketed
  <2>5. \A i \in DOMAIN n.active \ DOMAIN n.armed :
          [job |-> i, ticket |-> n.active[i].ticket] \in S \ {r}
    BY <1>4, <1>5, <1>7 DEF Ticketed
  <2>. QED  BY <2>1, <2>2, <2>3, <2>4, <2>5 DEF Ticketed
<1>. QED  BY <1>8, <1>9, <1>11 DEF Good

-----------------------------------------------------------------------------
(* Quotas *)

OwnersMet(p) == \A o \in Owners : Cardinality(OwnedBy(p, o)) <= MaxPerOwner
SystemsMet(p) == \A s \in Systems : Cardinality(InSystem(p, s)) <= MaxPerSystem
TotalMet(p) == Cardinality(DOMAIN p.active) <= MaxTotal
QuotasMet(p) == OwnersMet(p) /\ SystemsMet(p) /\ TotalMet(p)

\* No quota is violated by one more job like r.
Room(p, r) == ~OverOwner(p, r) /\ ~OverSystem(p, r) /\ ~OverTotal(p)

\* n has no jobs that p has not.
Fewer(n, p) == \A j \in DOMAIN n.active : j \in DOMAIN p.active /\ n.active[j] = p.active[j]

\* What a call can make of the quotas: only an eviction for an owner may pass
\* over the quota of the system.
QuotasKept(n, p) ==
  /\ OwnersMet(p) => OwnersMet(n)
  /\ SystemsMet(p) /\ OwnerBehavior # "replace_oldest" => SystemsMet(n)
  /\ TotalMet(p) => TotalMet(n)

LEMMA FiniteJobs ==
  ASSUME NEW p, Sound(p), NEW T, T \subseteq DOMAIN p.active
  PROVE  IsFiniteSet(T) /\ Cardinality(T) \in Nat
<1>1. p.next \in Nat /\ T \in SUBSET (1..p.next)
  BY DEF Sound, QueueTyped, IdsBelow
<1>2. IsFiniteSet(1..p.next)
  BY <1>1, FS_Interval
<1>3. IsFiniteSet(T)
  BY <1>1, <1>2, FS_Subset
<1>. QED  BY <1>3, FS_CardinalityType

LEMMA SmallerSet ==
  ASSUME NEW p, Sound(p), NEW T, T \subseteq DOMAIN p.active, NEW U, U \subseteq T
  PROVE  Cardinality(U) \in Nat /\ Cardinality(T) \in Nat /\ Cardinality(U) <= Cardinality(T)
<1>1. IsFiniteSet(T) /\ Cardinality(T) \in Nat /\ Cardinality(U) \in Nat
  BY FiniteJobs
<1>2. U \in SUBSET T
  OBVIOUS
<1>. QED  BY <1>1, <1>2, FS_Subset

LEMMA FewerCounts ==
  ASSUME NEW p, Sound(p), NEW n, Fewer(n, p)
  PROVE  /\ \A o : /\ Cardinality(OwnedBy(n, o)) <= Cardinality(OwnedBy(p, o))
                   /\ Cardinality(OwnedBy(n, o)) \in Nat /\ Cardinality(OwnedBy(p, o)) \in Nat
         /\ \A s : /\ Cardinality(InSystem(n, s)) <= Cardinality(InSystem(p, s))
                   /\ Cardinality(InSystem(n, s)) \in Nat /\ Cardinality(InSystem(p, s)) \in Nat
         /\ Cardinality(DOMAIN n.active) <= Cardinality(DOMAIN p.active)
         /\ Cardinality(DOMAIN n.active) \in Nat /\ Cardinality(DOMAIN p.active) \in Nat
<1>1. \A o : OwnedBy(n, o) \subseteq OwnedBy(p, o) /\ OwnedBy(p, o) \subseteq DOMAIN p.active
  BY DEF Fewer, OwnedBy
<1>2. \A s : InSystem(n, s) \subseteq InSystem(p, s) /\ InSystem(p, s) \subseteq DOMAIN p.active
  BY DEF Fewer, InSystem
<1>3. DOMAIN n.active \subseteq DOMAIN p.active
  BY DEF Fewer
<1>. QED  BY <1>1, <1>2, <1>3, SmallerSet

LEMMA FewerKept ==
  ASSUME NEW p, Sound(p), NEW n, Fewer(n, p)
  PROVE  QuotasKept(n, p)
<1>1. /\ \A o : /\ Cardinality(OwnedBy(n, o)) <= Cardinality(OwnedBy(p, o))
                /\ Cardinality(OwnedBy(n, o)) \in Nat /\ Cardinality(OwnedBy(p, o)) \in Nat
      /\ \A s : /\ Cardinality(InSystem(n, s)) <= Cardinality(InSystem(p, s))
                /\ Cardinality(InSystem(n, s)) \in Nat /\ Cardinality(InSystem(p, s)) \in Nat
      /\ Cardinality(DOMAIN n.active) <= Cardinality(DOMAIN p.active)
      /\ Cardinality(DOMAIN n.active) \in Nat /\ Cardinality(DOMAIN p.active) \in Nat
  BY FewerCounts
<1>2. MaxPerOwner \in Nat /\ MaxPerSystem \in Nat /\ MaxTotal \in Nat
  BY QueueAssumption
<1>. QED  BY <1>1, <1>2 DEF QuotasKept, OwnersMet, SystemsMet, TotalMet

LEMMA FewerSystems ==
  ASSUME NEW p, Sound(p), NEW n, Fewer(n, p), SystemsMet(p)
  PROVE  SystemsMet(n)
<1>1. \A s : /\ Cardinality(InSystem(n, s)) <= Cardinality(InSystem(p, s))
             /\ Cardinality(InSystem(n, s)) \in Nat /\ Cardinality(InSystem(p, s)) \in Nat
  BY FewerCounts
<1>2. MaxPerSystem \in Nat
  BY QueueAssumption
<1>. QED  BY <1>1, <1>2 DEF SystemsMet

LEMMA KeptTrans ==
  ASSUME NEW p, NEW c, NEW n, QuotasKept(c, p), QuotasKept(n, c)
  PROVE  QuotasKept(n, p)
  BY DEF QuotasKept

\* A job that is gone leaves room for one of the same owner and system.
LEMMA GoneLeaves ==
  ASSUME NEW p, Sound(p), NEW j \in DOMAIN p.active,
         NEW n, n.active = Drop(p.active, j), NEW r \in Request
  PROVE  /\ OwnersMet(p) /\ p.active[j].owner = r.owner => ~OverOwner(n, r)
         /\ SystemsMet(p) /\ p.active[j].system = r.system => ~OverSystem(n, r)
         /\ TotalMet(p) => ~OverTotal(n)
<1>1. /\ DOMAIN n.active = DOMAIN p.active \ {j}
      /\ \A i \in DOMAIN n.active : n.active[i] = p.active[i]
  <2>1. DOMAIN n.active = DOMAIN p.active \ {j}
    BY DropDomain
  <2>2. \A i \in DOMAIN p.active \ {j} : Drop(p.active, j)[i] = p.active[i]
    BY DropApply
  <2>. QED  BY <2>1, <2>2
<1>2. MaxPerOwner \in Nat /\ MaxPerSystem \in Nat /\ MaxTotal \in Nat
  BY QueueAssumption
<1>3. ASSUME NEW T, T \subseteq DOMAIN p.active, j \in T, NEW m \in Nat, Cardinality(T) <= m
      PROVE  ~(Cardinality(T \ {j}) >= m)
  <2>1. IsFiniteSet(T) /\ Cardinality(T) \in Nat
    BY <1>3, FiniteJobs
  <2>2. Cardinality(T \ {j}) = Cardinality(T) - 1
    BY <1>3, <2>1, FS_RemoveElement
  <2>. QED  BY <1>3, <2>1, <2>2
<1>4. ASSUME TotalMet(p) PROVE ~OverTotal(n)
  <2>1. ~(Cardinality(DOMAIN p.active \ {j}) >= MaxTotal)
    BY <1>2, <1>3, <1>4 DEF TotalMet
  <2>. QED  BY <1>1, <2>1 DEF OverTotal
<1>5. ASSUME OwnersMet(p), p.active[j].owner = r.owner PROVE ~OverOwner(n, r)
  <2>. SUFFICES ASSUME r.owner # None PROVE ~(Cardinality(OwnedBy(n, r.owner)) >= MaxPerOwner)
    BY DEF OverOwner
  <2>1. OwnedBy(n, r.owner) = OwnedBy(p, r.owner) \ {j} /\ j \in OwnedBy(p, r.owner)
    BY <1>1, <1>5 DEF OwnedBy
  <2>2. OwnedBy(p, r.owner) \subseteq DOMAIN p.active /\ Cardinality(OwnedBy(p, r.owner)) <= MaxPerOwner
    BY <1>5 DEF OwnedBy, OwnersMet, Request
  <2>. QED  BY <1>2, <1>3, <2>1, <2>2
<1>6. ASSUME SystemsMet(p), p.active[j].system = r.system PROVE ~OverSystem(n, r)
  <2>. SUFFICES ASSUME r.system # None PROVE ~(Cardinality(InSystem(n, r.system)) >= MaxPerSystem)
    BY DEF OverSystem
  <2>1. InSystem(n, r.system) = InSystem(p, r.system) \ {j} /\ j \in InSystem(p, r.system)
    BY <1>1, <1>6 DEF InSystem
  <2>2. InSystem(p, r.system) \subseteq DOMAIN p.active /\ Cardinality(InSystem(p, r.system)) <= MaxPerSystem
    BY <1>6 DEF InSystem, SystemsMet, Request
  <2>. QED  BY <1>2, <1>3, <2>1, <2>2
<1>. QED  BY <1>4, <1>5, <1>6

\* One more job fills the room there is, of each quota by itself.
LEMMA InsertCounts ==
  ASSUME NEW p, Sound(p), NEW r, r \in Request
  PROVE  /\ OwnersMet(p) /\ ~OverOwner(p, r) => OwnersMet(Insert(p, r))
         /\ SystemsMet(p) /\ ~OverSystem(p, r) => SystemsMet(Insert(p, r))
         /\ ~OverTotal(p) => TotalMet(Insert(p, r))
<1>. DEFINE n == Insert(p, r)
            i == p.next
            rec == [r EXCEPT !.attempt = 0]
<1>1. n.active = Put(p.active, i, rec)
  <2>1. IsRegistry(p)
    BY DEF Sound, QueueTyped
  <2>2. /\ n.active = Put(p.active, p.next, [r EXCEPT !.attempt = 0]) /\ n.delayed = p.delayed
        /\ n.armed = Put(p.armed, p.next, [kind |-> "run", ticket |-> r.ticket])
        /\ n.sources = IF p.on THEN p.sources \cup SourcesOf(p.next, r) ELSE p.sources
        /\ n.on = p.on /\ n.next = p.next + 1
        /\ n.fate = Accept(p, r.ticket).fate
    BY <2>1, InsertEffect
  <2>. QED  BY <2>2
<1>. HIDE DEF n
<1>2. i \notin DOMAIN p.active
  BY DEF Sound, QueueTyped, IdsBelow
<1>3. rec.owner = r.owner /\ rec.system = r.system
  BY DEF Request
<1>. HIDE DEF rec, i
<1>4. /\ DOMAIN n.active = DOMAIN p.active \cup {i}
      /\ \A j \in DOMAIN p.active : n.active[j] = p.active[j]
      /\ n.active[i] = rec
  <2>1. DOMAIN n.active = DOMAIN p.active \cup {i}
    BY <1>1, PutDomain
  <2>2. \A y \in DOMAIN p.active \cup {i} : Put(p.active, i, rec)[y] = IF y = i THEN rec ELSE p.active[y]
    BY PutApply
  <2>. QED  BY <1>1, <1>2, <2>1, <2>2
<1>5. MaxPerOwner \in Nat /\ MaxPerSystem \in Nat /\ MaxTotal \in Nat
  BY QueueAssumption
<1>6. ASSUME NEW T, T \subseteq DOMAIN p.active, NEW m \in Nat, ~(Cardinality(T) >= m)
      PROVE  Cardinality(T \cup {i}) <= m
  <2>1. IsFiniteSet(T) /\ Cardinality(T) \in Nat
    BY <1>6, FiniteJobs
  <2>2. Cardinality(T \cup {i}) = Cardinality(T) + 1
    BY <1>2, <1>6, <2>1, FS_AddElement
  <2>. QED  BY <1>6, <2>1, <2>2
<1>7. ~OverTotal(p) => TotalMet(n)
  <2>. SUFFICES ASSUME ~OverTotal(p) PROVE TotalMet(n)
    OBVIOUS
  <2>1. Cardinality(DOMAIN p.active \cup {i}) <= MaxTotal
    BY <1>5, <1>6 DEF OverTotal
  <2>. QED  BY <1>4, <2>1 DEF TotalMet
<1>8. ASSUME OwnersMet(p), ~OverOwner(p, r), NEW o \in Owners PROVE Cardinality(OwnedBy(n, o)) <= MaxPerOwner
  <2>1. CASE r.owner = o
    <3>1. OwnedBy(n, o) = OwnedBy(p, o) \cup {i}
      BY <1>2, <1>3, <1>4, <2>1 DEF OwnedBy
    <3>2. OwnedBy(p, o) \subseteq DOMAIN p.active /\ ~(Cardinality(OwnedBy(p, o)) >= MaxPerOwner)
      BY <1>8, <2>1, QueueAssumption DEF OverOwner, OwnedBy
    <3>. QED  BY <1>5, <1>6, <3>1, <3>2
  <2>2. CASE r.owner # o
    <3>1. OwnedBy(n, o) = OwnedBy(p, o)
      BY <1>2, <1>3, <1>4, <2>2 DEF OwnedBy
    <3>. QED  BY <1>8, <3>1 DEF OwnersMet
  <2>. QED  BY <2>1, <2>2
<1>9. ASSUME SystemsMet(p), ~OverSystem(p, r), NEW s \in Systems PROVE Cardinality(InSystem(n, s)) <= MaxPerSystem
  <2>1. CASE r.system = s
    <3>1. InSystem(n, s) = InSystem(p, s) \cup {i}
      BY <1>2, <1>3, <1>4, <2>1 DEF InSystem
    <3>2. InSystem(p, s) \subseteq DOMAIN p.active /\ ~(Cardinality(InSystem(p, s)) >= MaxPerSystem)
      BY <1>9, <2>1, QueueAssumption DEF OverSystem, InSystem
    <3>. QED  BY <1>5, <1>6, <3>1, <3>2
  <2>2. CASE r.system # s
    <3>1. InSystem(n, s) = InSystem(p, s)
      BY <1>2, <1>3, <1>4, <2>2 DEF InSystem
    <3>. QED  BY <1>9, <3>1 DEF SystemsMet
  <2>. QED  BY <2>1, <2>2
<1>. QED  BY <1>7, <1>8, <1>9 DEF OwnersMet, SystemsMet, n

LEMMA FewerRoom ==
  ASSUME NEW p, Sound(p), NEW n, Fewer(n, p), NEW r
  PROVE  /\ ~OverOwner(p, r) => ~OverOwner(n, r)
         /\ ~OverSystem(p, r) => ~OverSystem(n, r)
<1>1. /\ \A o : /\ Cardinality(OwnedBy(n, o)) <= Cardinality(OwnedBy(p, o))
                /\ Cardinality(OwnedBy(n, o)) \in Nat /\ Cardinality(OwnedBy(p, o)) \in Nat
      /\ \A s : /\ Cardinality(InSystem(n, s)) <= Cardinality(InSystem(p, s))
                /\ Cardinality(InSystem(n, s)) \in Nat /\ Cardinality(InSystem(p, s)) \in Nat
      /\ Cardinality(DOMAIN n.active) <= Cardinality(DOMAIN p.active)
      /\ Cardinality(DOMAIN n.active) \in Nat /\ Cardinality(DOMAIN p.active) \in Nat
  BY FewerCounts
<1>2. MaxPerOwner \in Nat /\ MaxPerSystem \in Nat
  BY QueueAssumption
<1>. QED  BY <1>1, <1>2 DEF OverOwner, OverSystem

LEMMA SameJobsKept ==
  ASSUME NEW p, Sound(p), NEW n, n.active = p.active
  PROVE  QuotasKept(n, p)
  BY FewerKept DEF Fewer

LEMMA DropFewer ==
  ASSUME NEW p, NEW n, NEW j, n.active = Drop(p.active, j)
  PROVE  Fewer(n, p)
<1>1. DOMAIN n.active = DOMAIN p.active \ {j}
  BY DropDomain
<1>2. \A i \in DOMAIN p.active \ {j} : Drop(p.active, j)[i] = p.active[i]
  BY DropApply
<1>. QED  BY <1>1, <1>2 DEF Fewer

LEMMA SettleSame ==
  ASSUME NEW p, Sound(p), NEW t, NEW why
  PROVE  Settle(p, t, why).active = p.active
<1>. DEFINE n == Settle(p, t, why)
<1>1. IsRegistry(p)
  BY DEF Sound, QueueTyped
<1>2. /\ IsRegistry(n)
      /\ n.active = p.active /\ n.keyJob = p.keyJob
      /\ n.delayed = p.delayed /\ n.delayedKey = p.delayedKey
      /\ n.armed = p.armed /\ n.sources = p.sources
      /\ n.on = p.on /\ n.next = p.next
      /\ n.fate = IF Maps(p.fate, t, "pending") THEN [p.fate EXCEPT ![t] = why] ELSE p.fate
  BY <1>1, SettleFields
<1>. QED  BY <1>2

LEMMA DelaySame ==
  ASSUME NEW p, Sound(p), NEW r \in Request
  PROVE  Delay(p, r).active = p.active
<1>1. CASE r.attempt >= MaxDelayAttempts
  BY <1>1, SettleSame DEF Delay, Reject
<1>2. CASE ~(r.attempt >= MaxDelayAttempts)
  <2>1. r.attempt < MaxDelayAttempts /\ r.attempt \in Nat
    BY <1>2, QueueAssumption DEF Request
  <2>2. IsRegistry(p)
    BY DEF Sound, QueueTyped
  <2>. DEFINE n == Delay(p, r)
  <2>3. /\ IsRegistry(n)
        /\ n.delayed = Put(p.delayed, p.next, [r EXCEPT !.attempt = @ + 1])
        /\ n.delayedKey = IF r.key = None THEN p.delayedKey ELSE Put(p.delayedKey, r.key, p.next)
        /\ n.active = p.active /\ n.keyJob = p.keyJob
        /\ n.armed = Put(p.armed, p.next, [kind |-> "retry", ticket |-> r.ticket])
        /\ n.sources = p.sources /\ n.on = p.on /\ n.next = p.next + 1
        /\ n.fate = Accept(p, r.ticket).fate
    BY <2>1, <2>2, DelayFields
  <2>. QED  BY <2>3
<1>. QED  BY <1>1, <1>2

\* The evicted job leaves its room in the quota that asked for the eviction.
LEMMA ReplaceOldestCounts ==
  ASSUME NEW p, Sound(p), NEW r \in Request, NEW scope, scope \subseteq DOMAIN p.active,
         NEW n, n = ReplaceOldest(p, r, scope)
  PROVE  /\ OwnersMet(p) /\ (OverOwner(p, r) => scope = OwnedBy(p, r.owner)) => OwnersMet(n)
         /\ SystemsMet(p) /\ (OverSystem(p, r) => scope = InSystem(p, r.system)) => SystemsMet(n)
         /\ TotalMet(p) => TotalMet(n)
<1>1. CASE scope = {}
  <2>1. n.active = p.active
    BY <1>1, SettleSame DEF ReplaceOldest, Reject
  <2>. QED  BY <2>1 DEF OwnersMet, SystemsMet, TotalMet, OwnedBy, InSystem
<1>2. CASE scope # {}
  <2>. DEFINE j == CHOOSE i \in scope : \A h \in scope : i <= h
              a == Gone(p, j, "evicted")
  <2>1. scope \in SUBSET Nat
    BY DEF Sound, QueueTyped, IdsBelow
  <2>2. j \in DOMAIN p.active /\ j \in scope
    BY <1>2, <2>1, Oldest
  <2>3. n = Insert(a, r)
    BY <1>2 DEF ReplaceOldest, Gone
  <2>. HIDE DEF j
  <2>4. a.active = Drop(p.active, j)
    BY <2>2, GoneFields DEF Sound, QueueTyped
  <2>5. Sound(a)
    BY <2>2, GoneSmaller DEF Fates, Withdrawn, Smaller
  <2>. HIDE DEF a
  <2>6. Fewer(a, p)
    BY <2>4, DropFewer
  <2>7. /\ OwnersMet(p) => OwnersMet(a)
        /\ TotalMet(p) => TotalMet(a)
    BY <2>6, FewerKept DEF QuotasKept
  <2>8. SystemsMet(p) => SystemsMet(a)
    BY <2>6, FewerSystems
  <2>9. /\ OwnersMet(p) /\ p.active[j].owner = r.owner => ~OverOwner(a, r)
        /\ SystemsMet(p) /\ p.active[j].system = r.system => ~OverSystem(a, r)
        /\ TotalMet(p) => ~OverTotal(a)
    BY <2>2, <2>4, GoneLeaves
  <2>10. /\ ~OverOwner(p, r) => ~OverOwner(a, r)
         /\ ~OverSystem(p, r) => ~OverSystem(a, r)
    BY <2>6, FewerRoom
  <2>11. /\ OwnersMet(a) /\ ~OverOwner(a, r) => OwnersMet(n)
         /\ SystemsMet(a) /\ ~OverSystem(a, r) => SystemsMet(n)
         /\ ~OverTotal(a) => TotalMet(n)
    BY <2>3, <2>5, InsertCounts
  <2>12. /\ scope = OwnedBy(p, r.owner) => p.active[j].owner = r.owner
         /\ scope = InSystem(p, r.system) => p.active[j].system = r.system
    BY <2>2 DEF OwnedBy, InSystem
  <2>. QED  BY <2>7, <2>8, <2>9, <2>10, <2>11, <2>12
<1>. QED  BY <1>1, <1>2

LEMMA AdmitKept ==
  ASSUME NEW p, Sound(p), NEW r \in Request
  PROVE  QuotasKept(Admit(p, r), p)
<1>. DEFINE n == Admit(p, r)
<1>1. ASSUME NEW behavior \in Behaviors, behavior # "replace_oldest", NEW scope,
             n = Apply(p, r, behavior, scope)
      PROVE  QuotasKept(n, p)
  <2>1. Apply(p, r, behavior, scope) \in {Reject(p, r), Delay(p, r)}
    BY <1>1 DEF Apply, Behaviors
  <2>2. n.active = p.active
    BY <1>1, <2>1, DelaySame, SettleSame DEF Reject
  <2>. QED  BY <2>2, SameJobsKept
<1>2. ASSUME NEW scope, scope \subseteq DOMAIN p.active, n = Apply(p, r, "replace_oldest", scope)
      PROVE  /\ OwnersMet(p) /\ (OverOwner(p, r) => scope = OwnedBy(p, r.owner)) => OwnersMet(n)
             /\ SystemsMet(p) /\ (OverSystem(p, r) => scope = InSystem(p, r.system)) => SystemsMet(n)
             /\ TotalMet(p) => TotalMet(n)
  <2>1. n = ReplaceOldest(p, r, scope)
    BY <1>2 DEF Apply
  <2>. HIDE DEF n
  <2>. QED  BY <1>2, <2>1, ReplaceOldestCounts
<1>3. OwnerBehavior \in Behaviors /\ SystemBehavior \in Behaviors /\ GlobalBehavior \in Behaviors
  BY QueueAssumption
<1>4. ASSUME OverOwner(p, r) PROVE QuotasKept(n, p)
  <2>1. n = Apply(p, r, OwnerBehavior, OwnedBy(p, r.owner)) /\ OwnedBy(p, r.owner) \subseteq DOMAIN p.active
    BY <1>4 DEF Admit, OwnedBy
  <2>. HIDE DEF n
  <2>. QED  BY <1>1, <1>2, <1>3, <2>1 DEF QuotasKept
<1>5. ASSUME ~OverOwner(p, r) /\ OverSystem(p, r) PROVE QuotasKept(n, p)
  <2>1. n = Apply(p, r, SystemBehavior, InSystem(p, r.system)) /\ InSystem(p, r.system) \subseteq DOMAIN p.active
    BY <1>5 DEF Admit, InSystem
  <2>. HIDE DEF n
  <2>. QED  BY <1>1, <1>2, <1>3, <1>5, <2>1 DEF QuotasKept
<1>6. ASSUME ~OverOwner(p, r) /\ ~OverSystem(p, r) /\ OverTotal(p) PROVE QuotasKept(n, p)
  <2>1. n = Apply(p, r, GlobalBehavior, DOMAIN p.active)
    BY <1>6 DEF Admit
  <2>. HIDE DEF n
  <2>. QED  BY <1>1, <1>2, <1>3, <1>6, <2>1 DEF QuotasKept
<1>7. ASSUME Room(p, r) PROVE QuotasKept(n, p)
  <2>1. n = Insert(p, r)
    BY <1>7 DEF Admit, Room
  <2>. HIDE DEF n
  <2>. QED  BY <1>7, <2>1, InsertCounts DEF QuotasKept, Room
<1>. QED  BY <1>4, <1>5, <1>6, <1>7 DEF Room

LEMMA CancelFewer ==
  ASSUME NEW p, Sound(p), NEW k, NEW why
  PROVE  Fewer(Cancel(p, k, why), p)
<1>. DEFINE n == Cancel(p, k, why)
<1>1. ASSUME HasActive(p, k) PROVE Fewer(n, p)
  <2>. DEFINE j == p.keyJob[k]
  <2>1. n = Gone(p, j, why) /\ j \in DOMAIN p.active
    BY <1>1 DEF Cancel, Gone, HasActive
  <2>. HIDE DEF n, j
  <2>2. n.active = Drop(p.active, j)
    BY <2>1, GoneFields DEF Sound, QueueTyped
  <2>. QED  BY <2>2, DropFewer
<1>2. ASSUME ~HasActive(p, k), HasDelayed(p, k) PROVE Fewer(n, p)
  <2>. DEFINE j == p.delayedKey[k]
  <2>1. n = Unparked(p, j, why) /\ j \in DOMAIN p.delayed
    BY <1>2 DEF Cancel, Unparked, HasDelayed
  <2>. HIDE DEF n, j
  <2>2. n.active = p.active
    BY <2>1, UnparkedFields DEF Sound, QueueTyped
  <2>. QED  BY <2>2 DEF Fewer
<1>3. ASSUME ~HasActive(p, k), ~HasDelayed(p, k) PROVE Fewer(n, p)
  BY <1>3 DEF Cancel, Fewer
<1>. QED  BY <1>1, <1>2, <1>3

LEMMA ScheduleKept ==
  ASSUME NEW p, Sound(p), NEW r \in Request
  PROVE  QuotasKept(Schedule(p, r), p)
<1>. DEFINE n == Schedule(p, r)
            c == Cancel(p, r.key, "replaced")
<1>1. ASSUME Held(p, r.key), r.conflict = "reject" PROVE QuotasKept(n, p)
  <2>1. n.active = p.active
    BY <1>1, SettleSame DEF Schedule, Reject
  <2>. HIDE DEF n
  <2>. QED  BY <2>1, SameJobsKept
<1>2. ASSUME Held(p, r.key), r.conflict # "reject" PROVE QuotasKept(n, p)
  <2>1. n = Admit(c, r)
    BY <1>2 DEF Schedule
  <2>2. Sound(c)
    BY CancelSmaller DEF Smaller, Fates, Withdrawn
  <2>3. Fewer(c, p)
    BY CancelFewer
  <2>. HIDE DEF n, c
  <2>4. QuotasKept(n, c) /\ QuotasKept(c, p)
    BY <2>1, <2>2, <2>3, AdmitKept, FewerKept
  <2>. QED  BY <2>4, KeptTrans
<1>3. ASSUME ~Held(p, r.key) PROVE QuotasKept(n, p)
  <2>1. n = Admit(p, r)
    BY <1>3 DEF Schedule
  <2>. HIDE DEF n
  <2>. QED  BY <2>1, AdmitKept
<1>. QED  BY <1>1, <1>2, <1>3

LEMMA RearmKept ==
  ASSUME NEW p, Sound(p), NEW r \in Request
  PROVE  QuotasKept(Rearm(p, r), p)
<1>1. ASSUME r.args PROVE QuotasKept(Rearm(p, r), p)
  <2>1. Rearm(p, r).active = p.active
    BY <1>1, SettleSame DEF Rearm
  <2>. QED  BY <2>1, SameJobsKept
<1>2. ASSUME ~r.args PROVE QuotasKept(Rearm(p, r), p)
  <2>1. Rearm(p, r) = Schedule(p, r)
    BY <1>2 DEF Rearm
  <2>. QED  BY <2>1, ScheduleKept
<1>. QED  BY <1>1, <1>2

LEMMA RetryKept ==
  ASSUME NEW p, Sound(p), NEW j
  PROVE  QuotasKept(RetryDelayed(p, j), p)
<1>. DEFINE n == RetryDelayed(p, j)
            c == PopDelayed(p, j)
<1>1. ASSUME j \in DOMAIN p.delayed PROVE QuotasKept(n, p)
  <2>1. n = Rearm(c, p.delayed[j]) /\ p.delayed[j] \in Request
    BY <1>1 DEF RetryDelayed, Sound, QueueTyped, RecordsTyped
  <2>2. Sound(c)
    BY PopDelayedSmaller DEF Smaller
  <2>3. c.active = p.active
    BY <1>1, PopDelayedFields DEF Sound, QueueTyped
  <2>. HIDE DEF n, c
  <2>4. QuotasKept(n, c) /\ QuotasKept(c, p)
    BY <2>1, <2>2, <2>3, RearmKept, SameJobsKept
  <2>. QED  BY <2>4, KeptTrans
<1>2. ASSUME j \notin DOMAIN p.delayed PROVE QuotasKept(n, p)
  <2>1. n = p
    BY <1>2 DEF RetryDelayed
  <2>. QED  BY <2>1, SameJobsKept
<1>. QED  BY <1>1, <1>2

LEMMA RescheduleKept ==
  ASSUME NEW p, Sound(p), NEW k
  PROVE  QuotasKept(Reschedule(p, k), p)
<1>. DEFINE n == Reschedule(p, k)
            c == Cancel(p, k, "pending")
<1>1. ASSUME NEW rec \in Request, rec.ticket \in DOMAIN p.fate, n = Rearm(c, NewTicketIfStarted(p, rec))
      PROVE  QuotasKept(n, p)
  <2>1. NewTicketIfStarted(p, rec) \in Request
    BY <1>1, NewTicketFields DEF Fits
  <2>2. Sound(c)
    BY CancelSmaller DEF Smaller, Fates
  <2>3. Fewer(c, p)
    BY CancelFewer
  <2>. HIDE DEF n, c
  <2>4. QuotasKept(n, c) /\ QuotasKept(c, p)
    BY <1>1, <2>1, <2>2, <2>3, RearmKept, FewerKept
  <2>. QED  BY <2>4, KeptTrans
<1>2. ASSUME HasActive(p, k) PROVE QuotasKept(n, p)
  <2>. DEFINE rec == p.active[p.keyJob[k]]
  <2>1. rec \in Request /\ rec.ticket \in DOMAIN p.fate
    BY <1>2 DEF HasActive, Sound, QueueTyped, RecordsTyped
  <2>2. n = Rearm(c, NewTicketIfStarted(p, rec))
    BY <1>2 DEF Reschedule
  <2>. HIDE DEF n, c, rec
  <2>. QED  BY <1>1, <2>1, <2>2
<1>3. ASSUME ~HasActive(p, k), HasDelayed(p, k) PROVE QuotasKept(n, p)
  <2>. DEFINE rec == p.delayed[p.delayedKey[k]]
  <2>1. rec \in Request /\ rec.ticket \in DOMAIN p.fate
    BY <1>3 DEF HasDelayed, Sound, QueueTyped, RecordsTyped
  <2>2. n = Rearm(c, NewTicketIfStarted(p, rec))
    BY <1>3 DEF Reschedule
  <2>. HIDE DEF n, c, rec
  <2>. QED  BY <1>1, <2>1, <2>2
<1>4. ASSUME ~HasActive(p, k), ~HasDelayed(p, k) PROVE QuotasKept(n, p)
  <2>1. n = p
    BY <1>4 DEF Reschedule
  <2>. QED  BY <2>1, SameJobsKept
<1>. QED  BY <1>2, <1>3, <1>4

-----------------------------------------------------------------------------
(* Calls that are never parked *)

\* reschedule() finds the room its own cancel() made.
LEMMA RescheduleInserts ==
  ASSUME NEW p, Sound(p), QuotasMet(p), NEW k, HasActive(p, k), ~p.active[p.keyJob[k]].args
  PROVE  Reschedule(p, k) =
           Insert(Gone(p, p.keyJob[k], "pending"), NewTicketIfStarted(p, p.active[p.keyJob[k]]))
<1>. DEFINE j == p.keyJob[k]
            rec == p.active[j]
            r == NewTicketIfStarted(p, rec)
            c == Cancel(p, k, "pending")
<1>1. /\ j \in DOMAIN p.active /\ rec \in Request /\ rec.ticket \in DOMAIN p.fate
      /\ rec.key = k
  BY DEF HasActive, Sound, QueueTyped, RecordsTyped, KeysIndexed
<1>2. Reschedule(p, k) = Rearm(c, r)
  BY DEF Reschedule
<1>3. c = Gone(p, j, "pending")
  BY DEF Cancel, Gone
<1>4. /\ r.owner = rec.owner /\ r.system = rec.system /\ r.key = rec.key /\ r.args = rec.args
      /\ r \in Request
  <2>1. Fits(p, r)
    BY <1>1, NewTicketFields
  <2>. QED  BY <1>1, <2>1 DEF NewTicketIfStarted, Request, Fits
<1>5. Sound(c) /\ ~Held(c, k)
  BY CancelSmaller DEF Smaller, Fates
<1>6. c.active = Drop(p.active, j)
  BY <1>1, <1>3, GoneFields DEF Sound, QueueTyped
<1>. HIDE DEF c, j, rec, r
<1>7. /\ OwnersMet(p) /\ p.active[j].owner = r.owner => ~OverOwner(c, r)
      /\ SystemsMet(p) /\ p.active[j].system = r.system => ~OverSystem(c, r)
      /\ TotalMet(p) => ~OverTotal(c)
  BY <1>1, <1>4, <1>6, GoneLeaves
<1>8. ~OverOwner(c, r) /\ ~OverSystem(c, r) /\ ~OverTotal(c)
  BY <1>4, <1>7 DEF QuotasMet, rec
<1>9. Rearm(c, r) = Insert(c, r)
  BY <1>1, <1>4, <1>5, <1>8 DEF Rearm, Schedule, Admit, rec, j
<1>. QED  BY <1>2, <1>3, <1>9 DEF j, rec, r

Ends(p, f) == {t \in DOMAIN p.fate : p.fate[t] = f}
Kind(r) == <<r.key, r.owner, r.system>>
Kinds(p) == {Kind(p.active[j]) : j \in DOMAIN p.active}

\* From p to n nothing is parked, only jobs of the kinds K are added, and no
\* ticket ends in a way of F.
Plain(n, p, K, F) ==
  /\ DOMAIN n.delayed = {}
  /\ Kinds(n) \subseteq Kinds(p) \cup K
  /\ \A f \in F : Ends(n, f) \subseteq Ends(p, f)

TurnedOff == {"rejected", "replaced"}

LEMMA PlainTrans ==
  ASSUME NEW p, NEW c, NEW n, NEW K, NEW L, NEW F, Plain(c, p, K, F), Plain(n, c, L, F)
  PROVE  Plain(n, p, K \cup L, F)
  BY DEF Plain

LEMMA SamePlain ==
  ASSUME NEW p, NEW n, NEW F, DOMAIN p.delayed = {}, n.active = p.active, n.delayed = p.delayed,
         \A f \in F : Ends(n, f) \subseteq Ends(p, f)
  PROVE  Plain(n, p, {}, F)
  BY DEF Plain, Kinds

LEMMA SettledEnds ==
  ASSUME NEW p, NEW n, NEW t, NEW why, NEW F, Settled(n, p, t, why),
         why \notin F \/ t \notin DOMAIN p.fate
  PROVE  \A f \in F : Ends(n, f) \subseteq Ends(p, f)
  BY DEF Settled, Ends

LEMMA SettlePlain ==
  ASSUME NEW p, Sound(p), DOMAIN p.delayed = {}, NEW t, NEW why,
         NEW F, why \notin F \/ t \notin DOMAIN p.fate
  PROVE  Plain(Settle(p, t, why), p, {}, F)
<1>. DEFINE n == Settle(p, t, why)
<1>1. IsRegistry(p)
  BY DEF Sound, QueueTyped
<1>2. /\ IsRegistry(n)
      /\ n.active = p.active /\ n.keyJob = p.keyJob
      /\ n.delayed = p.delayed /\ n.delayedKey = p.delayedKey
      /\ n.armed = p.armed /\ n.sources = p.sources
      /\ n.on = p.on /\ n.next = p.next
      /\ n.fate = IF Maps(p.fate, t, "pending") THEN [p.fate EXCEPT ![t] = why] ELSE p.fate
  BY <1>1, SettleFields
<1>3. Settled(n, p, t, why)
  BY <1>1, SettleSettled
<1>. HIDE DEF n
<1>4. \A f \in F : Ends(n, f) \subseteq Ends(p, f)
  BY <1>3, SettledEnds
<1>5. Plain(n, p, {}, F)
  BY <1>2, <1>4, SamePlain
<1>. QED  BY <1>5 DEF n

LEMMA GonePlain ==
  ASSUME NEW p, Sound(p), DOMAIN p.delayed = {}, NEW j \in DOMAIN p.active, NEW why, NEW F, why \notin F
  PROVE  Plain(Gone(p, j, why), p, {}, F)
<1>. DEFINE n == Gone(p, j, why)
<1>0. IsRegistry(p)
  BY DEF Sound, QueueTyped
<1>1. /\ n.active = Drop(p.active, j) /\ n.delayed = p.delayed
      /\ n.armed = Drop(p.armed, j) /\ n.on = p.on /\ n.next = p.next
      /\ n.sources = Left(p, j)
      /\ n.fate = Settle(p, p.active[j].ticket, why).fate
  BY <1>0, GoneFields
<1>. HIDE DEF n
<1>2. Settled(n, p, p.active[j].ticket, why)
  BY <1>0, <1>1, SettleSettled
<1>3. \A f \in F : Ends(n, f) \subseteq Ends(p, f)
  BY <1>2, SettledEnds
<1>4. Fewer(n, p)
  BY <1>1, DropFewer
<1>5. Plain(n, p, {}, F)
  BY <1>1, <1>3, <1>4 DEF Plain, Fewer, Kinds
<1>. QED  BY <1>5 DEF n

LEMMA InsertPlain ==
  ASSUME NEW p, Sound(p), DOMAIN p.delayed = {}, NEW r \in Request, NEW F \in SUBSET TurnedOff
  PROVE  Plain(Insert(p, r), p, {Kind(r)}, F)
<1>. DEFINE n == Insert(p, r)
            rec == [r EXCEPT !.attempt = 0]
<1>0. IsRegistry(p)
  BY DEF Sound, QueueTyped
<1>1. /\ n.active = Put(p.active, p.next, [r EXCEPT !.attempt = 0]) /\ n.delayed = p.delayed
      /\ n.armed = Put(p.armed, p.next, [kind |-> "run", ticket |-> r.ticket])
      /\ n.sources = IF p.on THEN p.sources \cup SourcesOf(p.next, r) ELSE p.sources
      /\ n.on = p.on /\ n.next = p.next + 1
      /\ n.fate = Accept(p, r.ticket).fate
  BY <1>0, InsertEffect
<1>2. Kind(rec) = Kind(r)
  BY DEF Kind, Request
<1>3. /\ DOMAIN n.fate = DOMAIN p.fate \cup {r.ticket}
      /\ \A u \in DOMAIN n.fate : n.fate[u] = IF u \in DOMAIN p.fate THEN p.fate[u] ELSE "pending"
  <2>1. /\ DOMAIN Accept(p, r.ticket).fate = DOMAIN p.fate \cup {r.ticket}
        /\ \A u \in DOMAIN Accept(p, r.ticket).fate :
             Accept(p, r.ticket).fate[u] = IF u \in DOMAIN p.fate THEN p.fate[u] ELSE "pending"
    BY <1>0, AcceptFate
  <2>. QED  BY <1>1, <2>1
<1>4. n.active = Put(p.active, p.next, rec) /\ n.delayed = p.delayed
  BY <1>1
<1>. HIDE DEF n, rec
<1>5. \A f \in F : Ends(n, f) \subseteq Ends(p, f)
  BY <1>3 DEF Ends, TurnedOff
<1>6. DOMAIN n.active = DOMAIN p.active \cup {p.next}
  <2>1. DOMAIN Put(p.active, p.next, rec) = DOMAIN p.active \cup {p.next}
    BY PutDomain
  <2>. QED  BY <1>4, <2>1
<1>7. \A y \in DOMAIN p.active \cup {p.next} :
        Put(p.active, p.next, rec)[y] = IF y = p.next THEN rec ELSE p.active[y]
  BY PutApply
<1>8. Kinds(n) \subseteq Kinds(p) \cup {Kind(r)}
  <2>. SUFFICES ASSUME NEW y \in DOMAIN n.active
                PROVE  Kind(n.active[y]) \in {Kind(p.active[j]) : j \in DOMAIN p.active} \cup {Kind(r)}
    BY DEF Kinds
  <2>1. n.active[y] = IF y = p.next THEN rec ELSE p.active[y]
    BY <1>4, <1>6, <1>7
  <2>2. CASE y = p.next
    BY <1>2, <2>1, <2>2
  <2>3. CASE y # p.next
    BY <1>6, <2>1, <2>3
  <2>. QED  BY <2>2, <2>3
<1>9. Plain(n, p, {Kind(r)}, F)
  BY <1>4, <1>5, <1>8 DEF Plain
<1>. QED  BY <1>9 DEF n

LEMMA ReplaceOldestPlain ==
  ASSUME NEW p, Sound(p), DOMAIN p.delayed = {}, NEW r \in Request, r.ticket \notin DOMAIN p.fate,
         NEW scope, scope \subseteq DOMAIN p.active, NEW F \in SUBSET TurnedOff
  PROVE  Plain(ReplaceOldest(p, r, scope), p, {Kind(r)}, F)
<1>. DEFINE n == ReplaceOldest(p, r, scope)
<1>1. ASSUME scope = {} PROVE Plain(n, p, {Kind(r)}, F)
  <2>1. n = Settle(p, r.ticket, "rejected")
    BY <1>1 DEF ReplaceOldest, Reject
  <2>. HIDE DEF n
  <2>2. Plain(n, p, {}, F)
    BY <2>1, SettlePlain
  <2>. QED  BY <2>2 DEF Plain
<1>2. ASSUME scope # {} PROVE Plain(n, p, {Kind(r)}, F)
  <2>. DEFINE j == CHOOSE i \in scope : \A h \in scope : i <= h
              a == Gone(p, j, "evicted")
  <2>1. scope \in SUBSET Nat
    BY DEF Sound, QueueTyped, IdsBelow
  <2>2. j \in DOMAIN p.active
    BY <1>2, <2>1, Oldest
  <2>3. n = Insert(a, r)
    BY <1>2 DEF ReplaceOldest, Gone
  <2>. HIDE DEF j, n
  <2>4. Sound(a)
    BY <2>2, GoneSmaller DEF Fates, Withdrawn, Smaller
  <2>5. Plain(a, p, {}, F)
    BY <2>2, GonePlain DEF TurnedOff
  <2>. HIDE DEF a
  <2>6. Plain(n, a, {Kind(r)}, F)
    BY <2>3, <2>4, <2>5, InsertPlain DEF Plain
  <2>. QED  BY <2>5, <2>6, PlainTrans DEF Plain
<1>. QED  BY <1>1, <1>2

LEMMA AdmitPlain ==
  ASSUME NEW p, Sound(p), DOMAIN p.delayed = {}, NEW r \in Request, r.ticket \notin DOMAIN p.fate,
         "delay" \notin {OwnerBehavior, SystemBehavior, GlobalBehavior}, NEW F \in SUBSET TurnedOff
  PROVE  Plain(Admit(p, r), p, {Kind(r)}, F)
<1>. DEFINE n == Admit(p, r)
<1>1. ASSUME NEW behavior \in Behaviors \ {"delay"}, NEW scope, scope \subseteq DOMAIN p.active,
             n = Apply(p, r, behavior, scope)
      PROVE  Plain(n, p, {Kind(r)}, F)
  <2>1. CASE n = Settle(p, r.ticket, "rejected")
    <3>. HIDE DEF n
    <3>1. Plain(n, p, {}, F)
      BY <2>1, SettlePlain
    <3>. QED  BY <3>1 DEF Plain
  <2>2. CASE n = ReplaceOldest(p, r, scope)
    <3>. HIDE DEF n
    <3>. QED  BY <1>1, <2>2, ReplaceOldestPlain
  <2>. QED  BY <1>1, <2>1, <2>2 DEF Apply, Behaviors, Reject
<1>2. {OwnerBehavior, SystemBehavior, GlobalBehavior} \subseteq Behaviors \ {"delay"}
  BY QueueAssumption
<1>3. /\ OwnedBy(p, r.owner) \subseteq DOMAIN p.active
      /\ InSystem(p, r.system) \subseteq DOMAIN p.active
  BY DEF OwnedBy, InSystem
<1>4. \/ n = Apply(p, r, OwnerBehavior, OwnedBy(p, r.owner))
      \/ n = Apply(p, r, SystemBehavior, InSystem(p, r.system))
      \/ n = Apply(p, r, GlobalBehavior, DOMAIN p.active)
      \/ n = Insert(p, r)
  BY DEF Admit
<1>5. ASSUME n = Insert(p, r) PROVE Plain(n, p, {Kind(r)}, F)
  <2>. HIDE DEF n
  <2>. QED  BY <1>5, InsertPlain
<1>. HIDE DEF n
<1>6. Plain(n, p, {Kind(r)}, F)
  BY <1>1, <1>2, <1>3, <1>4, <1>5
<1>. QED  BY <1>6 DEF n

LEMMA CancelPlain ==
  ASSUME NEW p, Sound(p), DOMAIN p.delayed = {}, NEW k, NEW why, NEW F, why \notin F
  PROVE  Plain(Cancel(p, k, why), p, {}, F)
<1>1. CASE HasActive(p, k)
  <2>1. Cancel(p, k, why) = Gone(p, p.keyJob[k], why) /\ p.keyJob[k] \in DOMAIN p.active
    BY <1>1 DEF Cancel, Gone, HasActive
  <2>. QED  BY <2>1, GonePlain
<1>2. CASE ~HasActive(p, k)
  <2>1. Cancel(p, k, why) = p
    BY <1>2 DEF Cancel, HasDelayed
  <2>. QED  BY <2>1 DEF Plain
<1>. QED  BY <1>1, <1>2

LEMMA SchedulePlain ==
  ASSUME NEW p, Sound(p), DOMAIN p.delayed = {}, NEW r \in Request, r.ticket \notin DOMAIN p.fate,
         "delay" \notin {OwnerBehavior, SystemBehavior, GlobalBehavior}, NEW F \in SUBSET {"rejected"}
  PROVE  Plain(Schedule(p, r), p, {Kind(r)}, F)
<1>. DEFINE n == Schedule(p, r)
            c == Cancel(p, r.key, "replaced")
<1>0. F \in SUBSET TurnedOff
  BY DEF TurnedOff
<1>1. ASSUME n = Settle(p, r.ticket, "rejected") PROVE Plain(n, p, {Kind(r)}, F)
  <2>. HIDE DEF n
  <2>1. Plain(n, p, {}, F)
    BY <1>1, SettlePlain
  <2>. QED  BY <2>1 DEF Plain
<1>2. ASSUME n = Admit(c, r) PROVE Plain(n, p, {Kind(r)}, F)
  <2>1. Sound(c) /\ DOMAIN c.fate = DOMAIN p.fate
    BY CancelSmaller DEF Smaller, Fates, Withdrawn
  <2>2. Plain(c, p, {}, F)
    BY CancelPlain
  <2>. HIDE DEF n, c
  <2>3. Plain(n, c, {Kind(r)}, F)
    BY <1>0, <1>2, <2>1, <2>2, AdmitPlain DEF Plain
  <2>. QED  BY <2>2, <2>3, PlainTrans DEF Plain
<1>3. ASSUME n = Admit(p, r) PROVE Plain(n, p, {Kind(r)}, F)
  <2>. HIDE DEF n
  <2>. QED  BY <1>0, <1>3, AdmitPlain
<1>. QED  BY <1>1, <1>2, <1>3 DEF Schedule, Reject

LEMMA ReschedulePlain ==
  ASSUME NEW p, Sound(p), QuotasMet(p), DOMAIN p.delayed = {}, NEW k, NEW F \in SUBSET TurnedOff
  PROVE  Plain(Reschedule(p, k), p, {}, F)
<1>. DEFINE n == Reschedule(p, k)
            j == p.keyJob[k]
            rec == p.active[j]
            r == NewTicketIfStarted(p, rec)
            c == Gone(p, j, "pending")
<1>1. ASSUME ~HasActive(p, k) PROVE Plain(n, p, {}, F)
  <2>1. n = p
    BY <1>1 DEF Reschedule, HasDelayed
  <2>. QED  BY <2>1 DEF Plain
<1>2. ASSUME HasActive(p, k) PROVE Plain(n, p, {}, F)
  <2>1. j \in DOMAIN p.active /\ rec \in Request /\ rec.ticket \in DOMAIN p.fate
    BY <1>2 DEF HasActive, Sound, QueueTyped, RecordsTyped
  <2>2. r \in Request
    BY <2>1, NewTicketFields DEF Fits
  <2>3. Sound(c)
    BY <2>1, GoneSmaller DEF Fates, Smaller
  <2>4. Plain(c, p, {}, F)
    BY <2>1, GonePlain DEF TurnedOff
  <2>5. CASE rec.args
    <3>1. n = Settle(c, r.ticket, "lost")
      BY <1>2, <2>1, <2>5 DEF Reschedule, Rearm, Cancel, Gone, NewTicketIfStarted, Request
    <3>. HIDE DEF n, c, r
    <3>2. Plain(n, c, {}, F)
      BY <2>3, <2>4, <3>1, SettlePlain DEF Plain, TurnedOff
    <3>. QED  BY <2>4, <3>2, PlainTrans DEF Plain
  <2>6. CASE ~rec.args
    <3>1. n = Insert(c, r)
      BY <1>2, <2>6, RescheduleInserts
    <3>2. Kind(r) = Kind(rec) /\ Kind(rec) \in Kinds(p)
      BY <2>1 DEF Kind, Kinds, NewTicketIfStarted, Request
    <3>. HIDE DEF n, c, r, rec
    <3>3. Plain(n, c, {Kind(r)}, F)
      BY <2>2, <2>3, <2>4, <3>1, InsertPlain DEF Plain
    <3>. QED  BY <2>4, <3>2, <3>3 DEF Plain
  <2>. QED  BY <2>5, <2>6
<1>. QED  BY <1>1, <1>2
=============================================================================
