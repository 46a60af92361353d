--------------------------- MODULE FishingProofs ---------------------------
(***************************************************************************)
(* Proofs about FishingSession.tla for any rooms, baits, tokens and other  *)
(* jobs.  Every function of the code is an operator on a record of what it *)
(* passes along, so there is one lemma per operator that says what it does: *)
(* first to the session and the pole, for which the scheduler is of no     *)
(* account, then to the jobs and timers.                                   *)
(***************************************************************************)
EXTENDS FishingSession, QueueProofs

\* A session whose bait, token and callbacks may be anything.
Shaped(s) ==
  /\ s = [state |-> s.state, bait |-> s.bait, token |-> s.token, room |-> s.room, tasks |-> s.tasks]
  /\ s.state \in States
PoleTyped(p) == p \in [carried : BOOLEAN, rigged : BOOLEAN, tangled : BOOLEAN]
Passed(w) ==
  /\ w = [q |-> w.q, calls |-> w.calls, s |-> w.s, pole |-> w.pole]
  /\ PoleTyped(w.pole)

\* Nothing but the scheduled callbacks has changed in n.
Kept(n, w) ==
  /\ Passed(n) /\ n.pole = w.pole
  /\ Shaped(n.s) /\ n.s.state = w.s.state /\ n.s.room = w.s.room
  /\ n.s.bait = w.s.bait /\ n.s.token = w.s.token

-----------------------------------------------------------------------------
(* What the functions do to session and pole *)

LEMMA EnterFields ==
  ASSUME NEW w, Passed(w), Shaped(w.s), NEW state \in States
  PROVE  /\ Passed(Enter(w, state)) /\ Enter(w, state).pole = w.pole
         /\ Shaped(Enter(w, state).s)
         /\ Enter(w, state).s.state = state /\ Enter(w, state).s.room = w.s.room
BY DEF Passed, Shaped, Enter

LEMMA RebuiltKept ==
  ASSUME NEW w, Passed(w), Shaped(w.s), NEW p, NEW c, NEW t,
         NEW n, n = [q |-> p, calls |-> c, s |-> [w.s EXCEPT !.tasks = t], pole |-> w.pole]
  PROVE  Kept(n, w)
<1> DEFINE s == [w.s EXCEPT !.tasks = t]
<1>1. s = [state |-> w.s.state, bait |-> w.s.bait, token |-> w.s.token, room |-> w.s.room, tasks |-> t]
  BY DEF Shaped
<1> HIDE DEF s
<1>2. n.q = p /\ n.calls = c /\ n.s = s /\ n.pole = w.pole
  BY DEF s
<1>3. Passed(n)
  BY <1>2 DEF Passed, s
<1>4. /\ Shaped(s) /\ s.state = w.s.state /\ s.room = w.s.room
      /\ s.bait = w.s.bait /\ s.token = w.s.token
  BY <1>1 DEF Shaped
<1> QED BY <1>2, <1>3, <1>4 DEF Kept

LEMMA ClearKept ==
  ASSUME NEW w, Passed(w), NEW names
  PROVE  /\ w.s = None => Clear(w, names) = w
         /\ Shaped(w.s) => Kept(Clear(w, names), w)
<1>1. ASSUME w.s # None, Shaped(w.s) PROVE Kept(Clear(w, names), w)
  <2> DEFINE ids == {w.s.tasks[c] : c \in names \cap DOMAIN w.s.tasks}
             a == Restrict(w.q.armed, DOMAIN w.q.armed \ ids)
             u == Restrict(w.s.tasks, DOMAIN w.s.tasks \ names)
             p == [w.q EXCEPT !.armed = a]
  <2>1. Clear(w, names) = [w EXCEPT !.q.armed = a, !.s.tasks = u]
    BY <1>1 DEF Clear
  <2> HIDE DEF ids, a, u
  <2>2. Clear(w, names) = [q |-> p, calls |-> w.calls, s |-> [w.s EXCEPT !.tasks = u], pole |-> w.pole]
    BY <2>1 DEF Passed
  <2> HIDE DEF p
  <2> QED BY <1>1, <2>2, RebuiltKept
<1>2. w.s = None => Clear(w, names) = w
  BY DEF Clear
<1>3. Shaped(w.s) => Kept(w, w)
  BY DEF Kept
<1> QED BY <1>1, <1>2, <1>3

LEMMA ArmKept ==
  ASSUME NEW w, Passed(w), Shaped(w.s), NEW name
  PROVE  Kept(Arm(w, name), w)
<1> DEFINE p == Schedule(Clear(w, {name}).q, Job(name, Fishing))
           ok == w.q.next \in DOMAIN p.active
           c == IF ok THEN Put(w.calls, w.q.next, w.s.token) ELSE w.calls
           t == Put(w.s.tasks, name, IF ok THEN w.q.next ELSE None)
<1> HIDE DEF p
<1>1. Arm(w, name) =
        [w EXCEPT !.q = p, !.calls = IF ok THEN Put(@, w.q.next, w.s.token) ELSE @,
                  !.s.tasks = Put(@, name, IF ok THEN w.q.next ELSE None)]
  BY DEF Arm, p
<1>2. Arm(w, name) = [q |-> p, calls |-> c, s |-> [w.s EXCEPT !.tasks = t], pole |-> w.pole]
  BY <1>1 DEF Passed
<1> HIDE DEF ok, c, t
<1> QED BY <1>2, RebuiltKept

LEMMA ResetFields ==
  ASSUME NEW w, Passed(w), w.s = None \/ Shaped(w.s)
  PROVE  Passed(Reset(w)) /\ Reset(w).s = None /\ Reset(w).pole = w.pole
<1>1. Passed(Clear(w, Callbacks)) /\ Clear(w, Callbacks).pole = w.pole
  BY ClearKept DEF Kept
<1> QED BY <1>1 DEF Reset, Passed

LEMMA TangledFields ==
  ASSUME NEW w, Passed(w), Shaped(w.s)
  PROVE  Passed(MarkTangled(w)) /\ Shaped(MarkTangled(w).s) /\ MarkTangled(w).s.state = "tangled"
<1>1. Kept(Clear(w, Callbacks), w)
  BY ClearKept
<1>2. "tangled" \in States
  BY DEF States
<1> DEFINE e == Enter(Clear(w, Callbacks), "tangled")
<1>3. Passed(e) /\ Shaped(e.s) /\ e.s.state = "tangled"
  BY <1>1, <1>2, EnterFields DEF Kept
<1>4. MarkTangled(w) = [e EXCEPT !.pole.tangled = @ \/ w.pole.carried]
  BY DEF MarkTangled
<1>5. e.pole.tangled \/ w.pole.carried \in BOOLEAN
  BY <1>3 DEF Passed, PoleTyped
<1> HIDE DEF e
<1> QED BY <1>3, <1>4, <1>5 DEF Passed, PoleTyped, Shaped

LEMMA BrokenFields ==
  ASSUME NEW w, Passed(w), Shaped(w.s)
  PROVE  Passed(MarkBroken(w)) /\ Shaped(MarkBroken(w).s) /\ MarkBroken(w).s.state = "broken"
<1>1. Kept(Clear(w, Callbacks), w)
  BY ClearKept
<1>2. "broken" \in States
  BY DEF States
<1> DEFINE e == Enter(Clear(w, Callbacks), "broken")
<1>3. Passed(e) /\ Shaped(e.s) /\ e.s.state = "broken"
  BY <1>1, <1>2, EnterFields DEF Kept
<1>4. MarkBroken(w) = [e EXCEPT !.pole = IF @.carried THEN [@ EXCEPT !.rigged = FALSE, !.tangled = FALSE] ELSE @]
  BY DEF MarkBroken
<1> HIDE DEF e
<1>5. MarkBroken(w).s = e.s /\ MarkBroken(w) = [q |-> e.q, calls |-> e.calls, s |-> e.s, pole |-> MarkBroken(w).pole]
  BY <1>3, <1>4 DEF Passed
<1>6. PoleTyped(MarkBroken(w).pole)
  BY <1>3, <1>4 DEF Passed, PoleTyped
<1> QED BY <1>3, <1>5, <1>6 DEF Passed

-----------------------------------------------------------------------------
(* The inductive invariant: an attempt sits in its room, and has a ready line *)
(* unless somebody else had the pole meanwhile                              *)

LineReady(p) == untouched => p.rigged /\ ~p.tangled

Steady(s, p, l) ==
  /\ s = None \/ Shaped(s)
  /\ PoleTyped(p)
  /\ InAttempt(s) => LineReady(p) /\ l = s.room /\ l \in Fishable

SessionInv ==
  /\ Steady(session, pole, location)
  /\ is_fishing = InAttempt(session)
  /\ untouched \in BOOLEAN /\ (untouched \/ InAttempt(session))

LEMMA NowSound ==
  ASSUME SessionInv
  PROVE  /\ Passed(Now) /\ Now.s = session /\ Now.pole = pole
         /\ session = None \/ Shaped(session)
BY DEF SessionInv, Steady, Now, Passed

LEMMA CommitSound ==
  ASSUME SessionInv, NEW n, Steady(n.s, n.pole, location'), Commit(n)
  PROVE  SessionInv'
<1>1. session' = n.s /\ pole' = n.pole /\ is_fishing' = InAttempt(n.s)
  BY DEF Commit
<1>2. untouched' = (untouched \/ ~InAttempt(n.s))
  BY DEF Commit
<1>3. untouched' \in BOOLEAN /\ (untouched' \/ InAttempt(n.s)) /\ (InAttempt(n.s) => (untouched' => untouched))
  BY <1>2, Zenon DEF InAttempt
<1> QED BY <1>1, <1>3 DEF SessionInv, Steady, LineReady, InAttempt

LEMMA DoneSound ==
  ASSUME SessionInv, NEW n, Passed(n), Steady(n.s, n.pole, location), NEW j, Done(n, j), location' = location
  PROVE  SessionInv'
<1> DEFINE m == [n EXCEPT !.q = PopJob(@, j)]
<1>1. m.s = n.s /\ m.pole = n.pole
  BY DEF Passed
<1>2. Commit(m)
  BY DEF Done
<1> HIDE DEF m
<1> QED BY <1>1, <1>2, CommitSound

LEMMA ResetSound ==
  ASSUME NEW w, Passed(w), w.s = None \/ Shaped(w.s), NEW l
  PROVE  Passed(Reset(w)) /\ Steady(Reset(w).s, Reset(w).pole, l)
BY ResetFields DEF Steady, InAttempt, Passed

LEMMA CalmStateSound ==
  ASSUME NEW n, Passed(n), Shaped(n.s), n.s.state \notin Attempt, NEW l
  PROVE  Steady(n.s, n.pole, l)
BY DEF Steady, InAttempt, Passed

LEMMA TangledSound ==
  ASSUME NEW w, Passed(w), Shaped(w.s), NEW l
  PROVE  Passed(MarkTangled(w)) /\ Steady(MarkTangled(w).s, MarkTangled(w).pole, l)
BY TangledFields, CalmStateSound DEF Attempt

LEMMA BrokenSound ==
  ASSUME NEW w, Passed(w), Shaped(w.s), NEW l
  PROVE  Passed(MarkBroken(w)) /\ Steady(MarkBroken(w).s, MarkBroken(w).pole, l)
BY BrokenFields, CalmStateSound DEF Attempt

\* A fired job's task is dropped, its session is what it was.
LEMMA FiredSound ==
  ASSUME SessionInv, NEW j
  PROVE  /\ Passed(Fired(j)) /\ Fired(j).s = session /\ Fired(j).pole = pole
         /\ Steady(Fired(j).s, Fired(j).pole, location)
BY DEF SessionInv, Steady, Now, Passed, Fired

\* With the same state and room, whatever the timers, the attempt stays sound.
LEMMA KeptSound ==
  ASSUME NEW w, NEW n, Kept(n, w), NEW l,
         w.s.state \in Attempt => LineReady(w.pole) /\ l = w.s.room /\ l \in Fishable
  PROVE  Passed(n) /\ Steady(n.s, n.pole, l)
BY DEF Kept, Steady, InAttempt, Passed, LineReady

-----------------------------------------------------------------------------
(* Line and room: commands *)

\* The two assignments that change several fields at once, field by field.
LEMMA CastSession ==
  ASSUME NEW s, Shaped(s), NEW x, NEW y, NEW z
  PROVE  [s EXCEPT !.state = x, !.token = y, !.room = z] =
           [state |-> x, bait |-> s.bait, token |-> y, room |-> z, tasks |-> s.tasks]
<1> DEFINE s1 == [s EXCEPT !.state = x]
           s2 == [s1 EXCEPT !.token = y]
<1>1. s1 = [state |-> x, bait |-> s.bait, token |-> s.token, room |-> s.room, tasks |-> s.tasks]
  BY DEF Shaped
<1>2. [s EXCEPT !.state = x, !.token = y, !.room = z] = [s2 EXCEPT !.room = z]
  OBVIOUS
<1> HIDE DEF s1
<1>3. s2 = [state |-> x, bait |-> s.bait, token |-> y, room |-> s.room, tasks |-> s.tasks]
  BY <1>1
<1> HIDE DEF s2
<1> QED BY <1>2, <1>3

LEMMA BaitlessSession ==
  ASSUME NEW s, Shaped(s), NEW x, NEW y
  PROVE  [s EXCEPT !.state = x, !.bait = y] =
           [state |-> x, bait |-> y, token |-> s.token, room |-> s.room, tasks |-> s.tasks]
<1> DEFINE s1 == [s EXCEPT !.state = x]
<1>1. s1 = [state |-> x, bait |-> s.bait, token |-> s.token, room |-> s.room, tasks |-> s.tasks]
  BY DEF Shaped
<1>2. [s EXCEPT !.state = x, !.bait = y] = [s1 EXCEPT !.bait = y]
  OBVIOUS
<1> HIDE DEF s1
<1> QED BY <1>1, <1>2

LEMMA BaitSound ==
  ASSUME SessionInv, NEW b \in Baits, Bait(b)
  PROVE  SessionInv'
<1> DEFINE s == IF session = None THEN NewSession ELSE session
           t == [s EXCEPT !.bait = b]
           v == [Now EXCEPT !.s = t]
<1>1. Shaped(s)
  BY NowSound DEF NewSession, Shaped, States
<1> HIDE DEF s
<1>2. Shaped(t)
  BY <1>1 DEF Shaped
<1> HIDE DEF t
<1>3. Passed(v) /\ v.s = t
  BY NowSound DEF Passed
<1>4. Commit(Enter(Clear(v, Callbacks), "baited")) /\ location' = location
  BY DEF Bait, s, t
<1> HIDE DEF v
<1>5. Passed(Clear(v, Callbacks)) /\ Shaped(Clear(v, Callbacks).s)
  BY <1>2, <1>3, ClearKept DEF Kept
<1> DEFINE n == Enter(Clear(v, Callbacks), "baited")
<1>6. Passed(n) /\ Shaped(n.s) /\ n.s.state = "baited"
  BY <1>5, EnterFields DEF States
<1> HIDE DEF n
<1>7. Steady(n.s, n.pole, location')
  BY <1>6, CalmStateSound DEF Attempt
<1> QED BY <1>4, <1>7, CommitSound DEF n

LEMMA CastSound ==
  ASSUME SessionInv, NEW token \in Tokens, Cast(token)
  PROVE  SessionInv'
<1> DEFINE t == [session EXCEPT !.state = "cast", !.token = token, !.room = location]
           v == [Now EXCEPT !.s = t]
<1>1. Shaped(session)
  BY NowSound DEF Cast, MayCast
<1>2. t = [state |-> "cast", bait |-> session.bait, token |-> token, room |-> location, tasks |-> session.tasks]
  BY <1>1, CastSession
<1>3. v = [q |-> q, calls |-> calls, s |-> t, pole |-> pole]
  BY DEF Now
<1>4. Commit(Arm(v, "bite")) /\ location' = location
  BY DEF Cast, Now
<1> HIDE DEF v, t
<1>5. Shaped(t)
  BY <1>2 DEF Shaped, States
<1>6. Passed(v) /\ v.s = t /\ v.pole = pole
  BY <1>3, NowSound DEF Passed
<1>7. Kept(Arm(v, "bite"), v)
  BY <1>5, <1>6, ArmKept
<1>8. LineReady(pole) /\ location = t.room /\ location \in Fishable
  BY <1>2 DEF Cast, MayCast, Ready, LineReady
<1>9. Steady(Arm(v, "bite").s, Arm(v, "bite").pole, location')
  BY <1>4, <1>6, <1>7, <1>8, KeptSound
<1> QED BY <1>4, <1>9, CommitSound

LEMMA CastWithoutBaitSound ==
  ASSUME SessionInv, CastWithoutBait
  PROVE  SessionInv'
<1> DEFINE t == [session EXCEPT !.state = "idle", !.bait = None]
           v == [Now EXCEPT !.s = t]
<1>1. Shaped(session)
  BY NowSound DEF CastWithoutBait, MayCast
<1>2. t = [state |-> "idle", bait |-> None, token |-> session.token, room |-> session.room, tasks |-> session.tasks]
  BY <1>1, BaitlessSession
<1>3. Commit(v) /\ location' = location
  BY DEF CastWithoutBait, Now
<1>4. v = [q |-> q, calls |-> calls, s |-> t, pole |-> pole]
  BY DEF Now
<1> HIDE DEF v, t
<1>5. Shaped(t) /\ t.state \notin Attempt
  BY <1>2 DEF Shaped, States, Attempt
<1>6. Passed(v) /\ v.s = t
  BY <1>4, NowSound DEF Passed
<1> QED BY <1>3, <1>5, <1>6, CalmStateSound, CommitSound

\* Hooking goes from one state of the attempt to the next.
LEMMA HookSound ==
  ASSUME SessionInv, Hook
  PROVE  SessionInv'
<1> DEFINE e == Enter(Now, "hooked")
           c == Clear(e, {"nibble_timeout"})
<1>1. session # None /\ session.state = "nibble" /\ location' = location /\ Commit(Arm(c, "struggle"))
  BY DEF Hook, Pulling
<1>2. Passed(Now) /\ Now.s = session /\ Now.pole = pole /\ Shaped(session)
  BY <1>1, NowSound
<1>3. Passed(e) /\ e.pole = pole /\ Shaped(e.s) /\ e.s.room = session.room
  BY <1>2, EnterFields DEF States
<1> HIDE DEF e
<1>4. Passed(c) /\ c.pole = pole /\ Shaped(c.s) /\ c.s.room = session.room
  BY <1>3, ClearKept DEF Kept
<1> HIDE DEF c
<1>5. Kept(Arm(c, "struggle"), c)
  BY <1>4, ArmKept
<1>6. LineReady(pole) /\ location = session.room /\ location \in Fishable
  BY <1>1 DEF SessionInv, Steady, InAttempt, Attempt
<1>7. Steady(Arm(c, "struggle").s, Arm(c, "struggle").pole, location')
  BY <1>1, <1>4, <1>5, <1>6, KeptSound
<1> QED BY <1>1, <1>7, CommitSound

LEMMA PullsSound ==
  ASSUME SessionInv, PullTooEarly \/ MissHook \/ PullJunk \/ PullEvent
  PROVE  SessionInv'
<1>1. session # None /\ Passed(Now) /\ Now.s = session /\ Now.pole = pole /\ Shaped(session)
  BY NowSound DEF PullTooEarly, MissHook, PullJunk, PullEvent, Pulling
<1>2. CASE PullTooEarly
  BY <1>1, <1>2, TangledSound, CommitSound DEF PullTooEarly
<1>3. CASE MissHook \/ PullJunk
  BY <1>1, <1>3, ResetSound, CommitSound DEF MissHook, PullJunk
<1>4. CASE PullEvent
  <2> DEFINE p == MarkBroken(Now).pole
             v == [Now EXCEPT !.pole = p]
  <2>1. PoleTyped(p)
    BY <1>1, BrokenFields DEF Passed
  <2>2. Commit(Reset(v))
    BY <1>4 DEF PullEvent
  <2>3. v = [q |-> q, calls |-> calls, s |-> session, pole |-> p]
    BY DEF Now
  <2> HIDE DEF p, v
  <2>4. Passed(v) /\ v.s = session
    BY <2>1, <2>3 DEF Passed
  <2> QED BY <1>1, <2>2, <2>4, ResetSound, CommitSound
<1> QED BY <1>2, <1>3, <1>4

\* No repair leads into an attempt, and none leaves a line worse than it was but a
\* failed one, on a pole that is not the actor's own work.
LEMMA RepairSound ==
  ASSUME SessionInv, RigFails \/ Rig \/ Untangle
  PROVE  SessionInv'
<1>1. InAttempt(session) => ~untouched
  BY DEF SessionInv, Steady, LineReady, RigFails, Rig, Untangle
<1>2. PoleTyped(pole) /\ (session = None \/ Shaped(session))
  BY DEF SessionInv, Steady
<1>3. Fallback(session) \in States /\ Fallback(session) \notin Attempt
  BY DEF Fallback, States, Attempt
<1>4. ASSUME NEW v, Passed(v), v.s = session, NEW state, NEW n,
             n = IF Pulling(state) THEN Enter(v, Fallback(session)) ELSE v,
             Commit(n), location' = location
      PROVE  SessionInv'
  <2>1. CASE Pulling(state)
    <3>1. Shaped(v.s)
      BY <1>2, <1>4, <2>1 DEF Pulling
    <3>2. Passed(n) /\ Shaped(n.s) /\ n.s.state = Fallback(session)
      BY <1>3, <1>4, <2>1, <3>1, EnterFields
    <3> QED BY <1>3, <1>4, <3>2, CalmStateSound, CommitSound
  <2>2. CASE ~Pulling(state)
    <3>1. Steady(v.s, v.pole, location')
      BY <1>1, <1>2, <1>4 DEF SessionInv, Steady, Passed, LineReady, Rig, RigFails, Untangle
    <3> QED BY <1>4, <2>2, <3>1, CommitSound
  <2> QED BY <2>1, <2>2
<1>5. CASE RigFails
  BY <1>1, <1>2, <1>5 DEF RigFails, SessionInv, Steady, PoleTyped, InAttempt, LineReady
<1>6. CASE Rig
  <2> DEFINE p == [pole EXCEPT !.rigged = TRUE]
             v == [Now EXCEPT !.pole.rigged = TRUE]
             n == IF Pulling("broken") THEN Enter(v, Fallback(session)) ELSE v
  <2>1. PoleTyped(p)
    BY <1>2 DEF PoleTyped
  <2>2. v = [q |-> q, calls |-> calls, s |-> session, pole |-> p]
    <3>1. Now.pole = pole
      BY DEF Now
    <3>2. v = [Now EXCEPT !.pole = p]
      BY <3>1, Zenon
    <3> HIDE DEF p, v
    <3> QED BY <3>2 DEF Now
  <2>3. Commit(n) /\ location' = location
    BY <1>6 DEF Rig
  <2> HIDE DEF p, v
  <2>4. Passed(v) /\ v.s = session
    BY <2>1, <2>2 DEF Passed
  <2> QED BY <1>4, <2>3, <2>4
<1>7. CASE Untangle
  <2> DEFINE p == [pole EXCEPT !.tangled = FALSE]
             v == [Now EXCEPT !.pole.tangled = FALSE]
             n == IF Pulling("tangled") THEN Enter(v, Fallback(session)) ELSE v
  <2>1. PoleTyped(p)
    BY <1>2 DEF PoleTyped
  <2>2. v = [q |-> q, calls |-> calls, s |-> session, pole |-> p]
    <3>1. Now.pole = pole
      BY DEF Now
    <3>2. v = [Now EXCEPT !.pole = p]
      BY <3>1, Zenon
    <3> HIDE DEF p, v
    <3> QED BY <3>2 DEF Now
  <2>3. Commit(n) /\ location' = location
    BY <1>7 DEF Untangle
  <2> HIDE DEF p, v
  <2>4. Passed(v) /\ v.s = session
    BY <2>1, <2>2 DEF Passed
  <2> QED BY <1>4, <2>3, <2>4
<1> QED BY <1>5, <1>6, <1>7

-----------------------------------------------------------------------------
(* Line and room: callbacks and the rest of the actor *)

LEMMA NibbleSound ==
  ASSUME SessionInv, NEW j, BeginNibble(j)
  PROVE  SessionInv'
<1> DEFINE f == Fired(j)
           c == Clear(f, {"bite"})
<1>1. location' = location
  BY DEF BeginNibble
<1>2. Passed(f) /\ f.s = session /\ f.pole = pole /\ Steady(f.s, f.pole, location)
  BY FiredSound
<1>3. session = None \/ Shaped(session)
  BY NowSound
<1>4. PICK w \in IF Expected("cast", j) THEN NibbleOutcomes(c) ELSE {f} : Done(w, j)
  BY DEF BeginNibble
<1> HIDE DEF f
<1>5. CASE ~Expected("cast", j)
  BY <1>1, <1>2, <1>4, <1>5, DoneSound
<1>6. CASE Expected("cast", j)
  <2>1. session # None /\ session.state = "cast"
    BY <1>6 DEF Expected
  <2>2. Kept(c, f)
    BY <1>2, <1>3, <2>1, ClearKept
  <2>3. LineReady(pole) /\ location = session.room /\ location \in Fishable
    BY <2>1 DEF SessionInv, Steady, InAttempt, Attempt
  <2>4. Passed(c) /\ Shaped(c.s) /\ c.pole = pole /\ c.s.room = session.room
    BY <1>2, <2>2 DEF Kept
  <2> HIDE DEF c
  <2>5. w \in {Arm(Enter(c, "nibble"), "nibble_timeout"), Enter(c, "junk"), Enter(c, "event")}
    BY <1>4, <1>6, <2>3, <2>4 DEF NibbleOutcomes
  <2>6. CASE w = Arm(Enter(c, "nibble"), "nibble_timeout")
    <3> DEFINE e == Enter(c, "nibble")
    <3>1. Passed(e) /\ Shaped(e.s) /\ e.pole = pole /\ e.s.room = session.room
      BY <2>4, EnterFields DEF States
    <3> HIDE DEF e
    <3>2. Kept(Arm(e, "nibble_timeout"), e)
      BY <3>1, ArmKept
    <3>3. Passed(w) /\ Steady(w.s, w.pole, location)
      BY <2>3, <2>6, <3>1, <3>2, KeptSound DEF e
    <3> QED BY <1>1, <1>4, <3>3, DoneSound
  <2>7. ASSUME NEW state \in {"junk", "event"}, w = Enter(c, state)
        PROVE  SessionInv'
    <3>1. state \in States /\ state \notin Attempt
      BY DEF States, Attempt
    <3>2. Passed(w) /\ Shaped(w.s) /\ w.s.state = state
      BY <2>4, <2>7, <3>1, EnterFields
    <3>3. Steady(w.s, w.pole, location)
      BY <3>1, <3>2, CalmStateSound
    <3> QED BY <1>1, <1>4, <3>2, <3>3, DoneSound
  <2> QED BY <2>5, <2>6, <2>7
<1> QED BY <1>5, <1>6

LEMMA ExpireSound ==
  ASSUME SessionInv, NEW j, ExpireNibble(j)
  PROVE  SessionInv'
<1> DEFINE f == Fired(j)
<1>1. location' = location
  BY DEF ExpireNibble
<1>2. Passed(f) /\ f.s = session /\ Steady(f.s, f.pole, location)
  BY FiredSound
<1>3. session = None \/ Shaped(session)
  BY NowSound
<1>4. PICK w \in IF Expected("nibble", j) THEN {MarkTangled(f), Reset(f)} ELSE {f} : Done(w, j)
  BY DEF ExpireNibble
<1> HIDE DEF f
<1>5. Expected("nibble", j) => session # None
  BY DEF Expected
<1>6. Passed(w) /\ Steady(w.s, w.pole, location)
  BY <1>2, <1>3, <1>4, <1>5, TangledSound, ResetSound
<1> QED BY <1>1, <1>4, <1>6, DoneSound

LEMMA StruggleSound ==
  ASSUME SessionInv, NEW j, Struggle(j)
  PROVE  SessionInv'
<1> DEFINE f == Fired(j)
           c == Clear(f, {"struggle"})
<1>1. location' = location
  BY DEF Struggle
<1>2. Passed(f) /\ f.s = session /\ f.pole = pole /\ Steady(f.s, f.pole, location)
  BY FiredSound
<1>3. session = None \/ Shaped(session)
  BY NowSound
<1>4. PICK w \in IF Expected("hooked", j) THEN StruggleOutcomes(c) ELSE {f} : Done(w, j)
  BY DEF Struggle
<1> HIDE DEF f
<1>5. CASE ~Expected("hooked", j)
  BY <1>1, <1>2, <1>4, <1>5, DoneSound
<1>6. CASE Expected("hooked", j)
  <2>1. session # None /\ session.state = "hooked"
    BY <1>6 DEF Expected
  <2>2. Kept(c, f)
    BY <1>2, <1>3, <2>1, ClearKept
  <2>3. LineReady(pole) /\ location = session.room /\ location \in Fishable
    BY <2>1 DEF SessionInv, Steady, InAttempt, Attempt
  <2>4. Passed(c) /\ Shaped(c.s) /\ c.pole = pole /\ c.s.room = session.room
    BY <1>2, <2>2 DEF Kept
  <2> HIDE DEF c
  <2>5. w \in {Reset(c), MarkBroken(c), Arm(c, "struggle")}
    BY <1>4, <1>6 DEF StruggleOutcomes
  <2>6. CASE w = Arm(c, "struggle")
    <3>1. Kept(Arm(c, "struggle"), c)
      BY <2>4, ArmKept
    <3>2. Passed(w) /\ Steady(w.s, w.pole, location)
      BY <2>3, <2>4, <2>6, <3>1, KeptSound
    <3> QED BY <1>1, <1>4, <3>2, DoneSound
  <2>7. CASE w = Reset(c)
    BY <1>1, <1>4, <2>4, <2>7, ResetSound, DoneSound
  <2>8. CASE w = MarkBroken(c)
    BY <1>1, <1>4, <2>4, <2>8, BrokenSound, DoneSound
  <2> QED BY <2>5, <2>6, <2>7, <2>8
<1> QED BY <1>5, <1>6

LEMMA ActorSound ==
  ASSUME SessionInv,
         \/ \E r \in Rooms : Move(r) \/ Puppet(r)
         \/ Unpuppet \/ HandlePole \/ PoleChangesHands \/ Restart
         \/ \E b \in Baits : HandleBait(b)
         \/ \E k \in OtherKeys : OtherJob(k)
         \/ \E j \in DOMAIN q.armed : OtherRuns(j)
  PROVE  SessionInv'
<1> USE NowSound
<1>1. CASE \E r \in Rooms : Move(r)
  <2>1. PICK r \in Rooms : Move(r)
    BY <1>1
  <2>2. CASE is_fishing
    BY <2>1, <2>2, ResetSound, CommitSound DEF Move
  <2>3. CASE ~is_fishing
    <3>1. Steady(Now.s, Now.pole, location')
      BY <2>3 DEF SessionInv, Steady
    <3> QED BY <2>1, <2>3, <3>1, CommitSound DEF Move
  <2> QED BY <2>2, <2>3
<1>2. CASE \E r \in Rooms : Puppet(r)
  <2>1. location = None
    BY <1>2 DEF Puppet
  <2>2. ~InAttempt(session)
    BY <2>1, FishingAssumption DEF SessionInv, Steady
  <2> QED BY <1>2, <2>2 DEF Puppet, SessionInv, Steady, InAttempt, LineReady
<1>3. CASE Unpuppet
  BY <1>3, ResetSound, CommitSound DEF Unpuppet
<1>4. CASE HandlePole
  BY <1>4 DEF HandlePole, SessionInv, Steady, PoleTyped, InAttempt, LineReady
<1>10. CASE PoleChangesHands
  <2>1. session' = session /\ is_fishing' = is_fishing /\ location' = location /\ PoleTyped(pole')
    BY <1>10 DEF PoleChangesHands, PoleTyped
  <2>2. untouched' \in BOOLEAN /\ (untouched' \/ InAttempt(session)) /\ (InAttempt(session) => ~untouched')
    BY <1>10, Zenon DEF PoleChangesHands, InAttempt
  <2> QED BY <2>1, <2>2 DEF SessionInv, Steady, LineReady, InAttempt, Shaped
<1>5. CASE Restart
  BY <1>5 DEF Restart, SessionInv, Steady, InAttempt, LineReady
<1>6. CASE \E b \in Baits : HandleBait(b)
  BY <1>6 DEF HandleBait, SessionInv, Steady, LineReady, InAttempt
<1>7. ASSUME NEW p, Commit([Now EXCEPT !.q = p]), location' = location
      PROVE  SessionInv'
  <2> DEFINE v == [Now EXCEPT !.q = p]
  <2>1. v.s = session /\ v.pole = pole
    BY DEF Now
  <2> HIDE DEF v
  <2>2. Steady(v.s, v.pole, location')
    BY <1>7, <2>1 DEF SessionInv
  <2> QED BY <1>7, <2>2, CommitSound DEF v
<1>8. CASE \E k \in OtherKeys : OtherJob(k)
  BY <1>7, <1>8 DEF OtherJob
<1>9. CASE \E j \in DOMAIN q.armed : OtherRuns(j)
  BY <1>7, <1>9 DEF OtherRuns
<1> QED BY <1>1, <1>2, <1>3, <1>4, <1>5, <1>6, <1>8, <1>9, <1>10

-----------------------------------------------------------------------------
(* Theorems of the line and the room *)

LEMMA InitSound ==
  ASSUME Init
  PROVE  SessionInv
BY DEF Init, SessionInv, Steady, PoleTyped, InAttempt, LineReady

LEMMA NextSound ==
  ASSUME SessionInv, Next
  PROVE  SessionInv'
<1>1. CASE \E b \in Baits : Bait(b)
  BY <1>1, BaitSound
<1>2. CASE \E t \in Tokens : Cast(t)
  BY <1>2, CastSound
<1>3. CASE CastWithoutBait \/ Hook
  BY <1>3, CastWithoutBaitSound, HookSound
<1>4. CASE PullTooEarly \/ MissHook \/ PullJunk \/ PullEvent
  BY <1>4, PullsSound
<1>5. CASE RigFails \/ Rig \/ Untangle
  BY <1>5, RepairSound
<1>6. CASE Timer
  BY <1>6, NibbleSound, ExpireSound, StruggleSound DEF Timer
<1> QED BY <1>1, <1>2, <1>3, <1>4, <1>5, <1>6, ActorSound DEF Next

LEMMA SessionCorrect == Spec => []SessionInv
<1>1. SessionInv /\ UNCHANGED vars => SessionInv'
  BY DEF SessionInv, Steady, vars, InAttempt, Shaped, PoleTyped, LineReady
<1> QED BY <1>1, InitSound, NextSound, PTL DEF Spec

\* The actor's own doings never leave an attempt with a snarled or missing line:
\* start_fishing_cast() checks the line once, and whatever he snaps, tangles, rigs,
\* drops or picks up later ends the attempt or leaves the line as it was.  Only a
\* pole that somebody else had meanwhile is left out, and no earlier or later one:
\* the next cast starts afresh.
THEOREM ReadyLineCorrect == Spec => []AttemptHasReadyLine
<1>1. SessionInv => AttemptHasReadyLine
  BY DEF SessionInv, Steady, AttemptHasReadyLine, Ready, LineReady
<1> QED BY <1>1, SessionCorrect, PTL

\* move_to() may trust the is_fishing flag: it is up exactly during an attempt,
\* and the attempt stays in the fishable room it was cast in.
THEOREM StaysInRoomCorrect == Spec => []AttemptStaysInRoom
<1>1. SessionInv => AttemptStaysInRoom
  BY DEF SessionInv, Steady, AttemptStaysInRoom
<1> QED BY <1>1, SessionCorrect, PTL

-----------------------------------------------------------------------------
(* The registry of one actor: no job is ever parked, every job is the      *)
(* actor's, and a job without a task is one whose task was cancelled       *)

Bare(p) ==
  /\ IsRegistry(p) /\ KeysIndexed(p)
  /\ DOMAIN p.delayed = {} /\ DOMAIN p.delayedKey = {}
  /\ DOMAIN p.armed \subseteq DOMAIN p.active
  /\ \A j \in DOMAIN p.active : p.active[j].key \in Keys /\ p.active[j].owner = Actor
Fresh(p) == p.next \in Nat /\ p.next \notin DOMAIN p.active

\* The jobs a new job of key k leaves alone.
Others(p, k) == {j \in DOMAIN p.active : p.active[j].key # k}

\* n is p with fewer tasks.
Quieter(n, p) ==
  /\ Bare(n) /\ n.active = p.active /\ n.next = p.next
  /\ DOMAIN n.armed \subseteq DOMAIN p.armed

LEMMA JobOfKey ==
  ASSUME NEW p, Bare(p), NEW j \in DOMAIN p.active
  PROVE  p.active[j].key # None /\ Maps(p.keyJob, p.active[j].key, j)
BY QueueAssumption DEF Bare, KeysIndexed

LEMMA SameJobsBare ==
  ASSUME NEW p, Bare(p), NEW n, IsRegistry(n),
         n.active = p.active, n.keyJob = p.keyJob,
         n.delayed = p.delayed, n.delayedKey = p.delayedKey,
         DOMAIN n.armed \subseteq DOMAIN p.armed, n.next = p.next
  PROVE  Quieter(n, p)
<1>1. KeysIndexed(n)
  BY DEF Bare, KeysIndexed
<1> QED BY <1>1 DEF Bare, Quieter

LEMMA CancelTaskQuieter ==
  ASSUME NEW p, Bare(p), NEW j, NEW n, n = CancelTask(p, j)
  PROVE  Quieter(n, p) /\ DOMAIN n.armed = DOMAIN p.armed \ {j}
<1>1. IsRegistry(p)
  BY DEF Bare
<1>2. /\ IsRegistry(n)
      /\ n.active = p.active /\ n.keyJob = p.keyJob
      /\ n.delayed = p.delayed /\ n.delayedKey = p.delayedKey
      /\ n.armed = Drop(p.armed, j) /\ n.sources = p.sources
      /\ n.on = p.on /\ n.fate = p.fate /\ n.next = p.next
  BY <1>1, CancelTaskFields
<1>3. DOMAIN n.armed = DOMAIN p.armed \ {j}
  BY <1>2, DropDomain
<1> QED BY <1>2, <1>3, SameJobsBare

LEMMA SettleQuieter ==
  ASSUME NEW p, Bare(p), NEW t, NEW f, NEW n, n = Settle(p, t, f)
  PROVE  Quieter(n, p) /\ n.armed = p.armed /\ n.keyJob = p.keyJob
<1>1. IsRegistry(p)
  BY DEF Bare
<1>2. /\ IsRegistry(n)
      /\ n.active = p.active /\ n.keyJob = p.keyJob
      /\ n.delayed = p.delayed /\ n.delayedKey = p.delayedKey
      /\ n.armed = p.armed /\ n.sources = p.sources
      /\ n.on = p.on /\ n.next = p.next
      /\ n.fate = IF Maps(p.fate, t, "pending") THEN [p.fate EXCEPT ![t] = f] ELSE p.fate
  BY <1>1, SettleFields
<1> QED BY <1>2, SameJobsBare

LEMMA DropJobBare ==
  ASSUME NEW p, Bare(p), NEW j \in DOMAIN p.active, NEW n, IsRegistry(n),
         n.active = Drop(p.active, j),
         n.keyJob = IF Maps(p.keyJob, p.active[j].key, j)
                    THEN Drop(p.keyJob, p.active[j].key) ELSE p.keyJob,
         n.delayed = p.delayed, n.delayedKey = p.delayedKey,
         DOMAIN n.armed \subseteq DOMAIN p.armed \ {j}
  PROVE  Bare(n) /\ p.active[j].key \notin DOMAIN n.keyJob
<1> DEFINE k == p.active[j].key
<1>1. k # None /\ Maps(p.keyJob, k, j)
  BY JobOfKey
<1>2. n.keyJob = Drop(p.keyJob, k)
  BY <1>1
<1>3. DOMAIN n.keyJob = DOMAIN p.keyJob \ {k} /\ \A l \in DOMAIN n.keyJob : n.keyJob[l] = p.keyJob[l]
  BY <1>2 DEF Drop, Restrict
<1>4. DOMAIN n.active = DOMAIN p.active \ {j} /\ \A i \in DOMAIN n.active : n.active[i] = p.active[i]
  BY DEF Drop, Restrict
<1>5. ASSUME NEW l \in DOMAIN n.keyJob
      PROVE  n.keyJob[l] \in DOMAIN n.active /\ n.active[n.keyJob[l]].key = l
  <2>1. n.keyJob[l] = p.keyJob[l] /\ l # k /\ l \in DOMAIN p.keyJob
    BY <1>3
  <2>2. p.keyJob[l] \in DOMAIN p.active /\ p.active[p.keyJob[l]].key = l
    BY <2>1 DEF Bare, KeysIndexed
  <2>3. p.keyJob[l] # j
    BY <2>1, <2>2
  <2> QED BY <1>4, <2>1, <2>2, <2>3
<1>6. ASSUME NEW i \in DOMAIN n.active
      PROVE  Maps(n.keyJob, n.active[i].key, i)
  <2>1. i \in DOMAIN p.active /\ i # j /\ n.active[i] = p.active[i]
    BY <1>4
  <2>2. Maps(p.keyJob, p.active[i].key, i)
    BY <2>1, JobOfKey
  <2>3. p.active[i].key # k
    BY <1>1, <2>1, <2>2 DEF Maps
  <2> QED BY <1>3, <2>1, <2>2, <2>3 DEF Maps
<1>7. KeysIndexed(n)
  BY <1>5, <1>6 DEF Bare, KeysIndexed
<1>8. DOMAIN n.armed \subseteq DOMAIN n.active
  BY <1>4 DEF Bare
<1>9. \A i \in DOMAIN n.active : n.active[i].key \in Keys /\ n.active[i].owner = Actor
  BY <1>4 DEF Bare
<1> QED BY <1>3, <1>7, <1>8, <1>9 DEF Bare

LEMMA PopJobBare ==
  ASSUME NEW p, Bare(p), NEW j, j \notin DOMAIN p.armed, NEW n, n = PopJob(p, j)
  PROVE  /\ Bare(n) /\ n.armed = p.armed
         /\ DOMAIN n.active = DOMAIN p.active \ {j}
         /\ \A i \in DOMAIN n.active : n.active[i] = p.active[i]
<1>1. CASE j \notin DOMAIN p.active
  BY <1>1 DEF PopJob
<1>2. CASE j \in DOMAIN p.active
  <2>0. IsRegistry(p)
    BY DEF Bare
  <2>1. /\ IsRegistry(n)
        /\ n.active = Drop(p.active, j)
        /\ n.keyJob = IF Maps(p.keyJob, p.active[j].key, j)
                      THEN Drop(p.keyJob, p.active[j].key) ELSE p.keyJob
        /\ n.delayed = p.delayed /\ n.delayedKey = p.delayedKey
        /\ n.armed = p.armed /\ n.on = p.on /\ n.fate = p.fate /\ n.next = p.next
        /\ n.sources = IF p.on THEN p.sources \ SourcesOf(j, p.active[j]) ELSE p.sources
    BY <1>2, <2>0, PopJobFields
  <2>2. DOMAIN n.armed \subseteq DOMAIN p.armed \ {j}
    BY <2>1
  <2>3. Bare(n)
    BY <1>2, <2>1, <2>2, DropJobBare
  <2>4. DOMAIN n.active = DOMAIN p.active \ {j} /\ \A i \in DOMAIN n.active : n.active[i] = p.active[i]
    BY <2>1 DEF Drop, Restrict
  <2> QED BY <2>1, <2>3, <2>4
<1> QED BY <1>1, <1>2

\* cancel() takes the one job of the key, its timer with it.
LEMMA CancelBare ==
  ASSUME NEW p, Bare(p), NEW k \in Keys, NEW why, NEW n, n = Cancel(p, k, why)
  PROVE  /\ Bare(n) /\ n.next = p.next /\ ~Held(n, k)
         /\ DOMAIN n.active = Others(p, k)
         /\ \A j \in Others(p, k) : n.active[j] = p.active[j]
         /\ DOMAIN n.armed \subseteq DOMAIN p.armed
<1>1. CASE HasActive(p, k)
  <2> DEFINE j == p.keyJob[k]
             a == Settle(p, p.active[j].ticket, why)
             b == PopJob(a, j)
  <2>1. n = CancelTask(b, j)
    BY <1>1 DEF Cancel
  <2>2. j \in DOMAIN p.active /\ p.active[j].key = k
    BY <1>1 DEF HasActive, Bare, KeysIndexed
  <2>3. IsRegistry(p)
    BY DEF Bare
  <2>4. /\ IsRegistry(a)
        /\ a.active = p.active /\ a.keyJob = p.keyJob
        /\ a.delayed = p.delayed /\ a.delayedKey = p.delayedKey
        /\ a.armed = p.armed /\ a.next = p.next
    BY <2>3 DEF Settle, IsRegistry
  <2> HIDE DEF a, j
  <2>5. j \in DOMAIN a.active
    BY <2>2, <2>4
  <2>6. /\ IsRegistry(b)
        /\ b.active = Drop(a.active, j)
        /\ b.keyJob = IF Maps(a.keyJob, a.active[j].key, j)
                      THEN Drop(a.keyJob, a.active[j].key) ELSE a.keyJob
        /\ b.delayed = a.delayed /\ b.delayedKey = a.delayedKey
        /\ b.armed = a.armed /\ b.on = a.on /\ b.fate = a.fate /\ b.next = a.next
        /\ b.sources = IF a.on THEN a.sources \ SourcesOf(j, a.active[j]) ELSE a.sources
    BY <2>4, <2>5, PopJobFields
  <2> HIDE DEF b
  <2>7. /\ IsRegistry(n)
        /\ n.active = b.active /\ n.keyJob = b.keyJob
        /\ n.delayed = b.delayed /\ n.delayedKey = b.delayedKey
        /\ n.armed = Drop(b.armed, j) /\ n.sources = b.sources
        /\ n.on = b.on /\ n.fate = b.fate /\ n.next = b.next
    BY <2>1, <2>6, CancelTaskFields
  <2>8. DOMAIN n.armed = DOMAIN p.armed \ {j}
    <3>1. n.armed = Drop(p.armed, j)
      BY <2>4, <2>6, <2>7
    <3> QED BY <3>1, DropDomain
  <2>9. Bare(n) /\ k \notin DOMAIN n.keyJob
    BY <2>2, <2>4, <2>6, <2>7, <2>8, DropJobBare
  <2>10. \A i \in DOMAIN p.active : p.active[i].key = k <=> i = j
    BY <1>1, <2>2, JobOfKey DEF Maps, j
  <2>11. DOMAIN n.active = Others(p, k) /\ \A i \in DOMAIN n.active : n.active[i] = p.active[i]
    <3>1. DOMAIN n.active = DOMAIN p.active \ {j} /\ \A i \in DOMAIN n.active : n.active[i] = p.active[i]
      BY <2>4, <2>6, <2>7 DEF Drop, Restrict
    <3> QED BY <2>10, <3>1 DEF Others
  <2> QED BY <2>4, <2>6, <2>7, <2>8, <2>9, <2>11 DEF Held, Bare
<1>2. CASE ~HasActive(p, k)
  <2>1. n = p
    BY <1>2 DEF Cancel, HasDelayed, Bare
  <2>2. \A j \in DOMAIN p.active : p.active[j].key # k
    BY <1>2, JobOfKey DEF HasActive, Maps
  <2>3. ~Held(p, k)
    BY <1>2 DEF Held, HasActive, Bare, KeysIndexed
  <2> QED BY <2>1, <2>2, <2>3 DEF Others
<1> QED BY <1>1, <1>2

LEMMA JobFields ==
  ASSUME NEW k, NEW s, NEW r, r = Job(k, s)
  PROVE  /\ r.key = k /\ r.owner = Actor /\ r.system = s /\ r.conflict = "replace"
         /\ [r EXCEPT !.attempt = 0].key = k /\ [r EXCEPT !.attempt = 0].owner = Actor
BY DEF Job

LEMMA InsertBare ==
  ASSUME NEW p, Bare(p), Fresh(p), NEW k \in Keys, ~Held(p, k), NEW s,
         NEW r, r = Job(k, s), NEW n, n = Insert(p, r)
  PROVE  /\ Bare(n)
         /\ DOMAIN n.active = DOMAIN p.active \cup {p.next}
         /\ n.active[p.next].key = k
         /\ \A j \in DOMAIN p.active : n.active[j] = p.active[j]
         /\ DOMAIN n.armed = DOMAIN p.armed \cup {p.next}
<1>1. /\ r.key = k /\ r.owner = Actor
      /\ [r EXCEPT !.attempt = 0].key = k /\ [r EXCEPT !.attempt = 0].owner = Actor
  BY DEF Job
<1> DEFINE rec == [r EXCEPT !.attempt = 0]
           id == p.next
<1>2. IsRegistry(p)
  BY DEF Bare
<1>3. /\ IsRegistry(n)
      /\ n.active = Put(p.active, p.next, [r EXCEPT !.attempt = 0])
      /\ n.keyJob = IF r.key = None THEN p.keyJob ELSE Put(p.keyJob, r.key, p.next)
      /\ n.delayed = p.delayed /\ n.delayedKey = p.delayedKey
      /\ n.armed = Put(p.armed, p.next, [kind |-> "run", ticket |-> r.ticket])
      /\ n.sources = IF p.on THEN p.sources \cup SourcesOf(p.next, r) ELSE p.sources
      /\ n.on = p.on /\ n.next = p.next + 1
      /\ n.fate = Accept(p, r.ticket).fate
  BY <1>2, InsertFields
<1>4. n.active = Put(p.active, id, rec) /\ n.keyJob = Put(p.keyJob, k, id) /\ rec.key = k /\ rec.owner = Actor
  <2>1. k # None
    BY QueueAssumption
  <2> QED BY <1>1, <1>3, <2>1
<1>5. DOMAIN n.armed = DOMAIN p.armed \cup {id}
  BY <1>3 DEF Put
<1> HIDE DEF rec
<1>6. /\ DOMAIN n.active = DOMAIN p.active \cup {id} /\ n.active[id] = rec
      /\ \A j \in DOMAIN p.active : n.active[j] = p.active[j]
  BY <1>4 DEF Put, Fresh
<1>7. /\ DOMAIN n.keyJob = DOMAIN p.keyJob \cup {k} /\ n.keyJob[k] = id
      /\ \A l \in DOMAIN p.keyJob : n.keyJob[l] = p.keyJob[l]
  BY <1>4 DEF Put, Held
<1>8. \A l \in DOMAIN n.keyJob : n.keyJob[l] \in DOMAIN n.active /\ n.active[n.keyJob[l]].key = l
  BY <1>4, <1>6, <1>7 DEF Bare, KeysIndexed
<1>9. \A j \in DOMAIN n.active : Maps(n.keyJob, n.active[j].key, j)
  BY <1>4, <1>6, <1>7, JobOfKey DEF Maps
<1>10. KeysIndexed(n)
  BY <1>3, <1>8, <1>9 DEF Bare, KeysIndexed
<1>11. \A j \in DOMAIN n.active : n.active[j].key \in Keys /\ n.active[j].owner = Actor
  BY <1>4, <1>6 DEF Bare
<1>12. DOMAIN n.armed \subseteq DOMAIN n.active
  BY <1>5, <1>6 DEF Bare
<1> QED BY <1>3, <1>4, <1>5, <1>6, <1>10, <1>11, <1>12 DEF Bare

\* There is room for one more job beside the jobs S.
HasRoom(S) ==
  /\ IsFiniteSet(S)
  /\ Cardinality(S) < MaxPerOwner /\ Cardinality(S) < MaxPerSystem /\ Cardinality(S) < MaxTotal

LEMMA RoomAdmits ==
  ASSUME NEW p, Bare(p), HasRoom(DOMAIN p.active), NEW k, NEW s, NEW r, r = Job(k, s)
  PROVE  Admit(p, r) = Insert(p, r)
<1>1. r.owner = Actor /\ r.system = s
  BY JobFields
<1>2. \A T : T \subseteq DOMAIN p.active => Cardinality(T) \in Nat /\ Cardinality(T) <= Cardinality(DOMAIN p.active)
  BY FS_Subset, FS_CardinalityType DEF HasRoom
<1>3. OwnedBy(p, r.owner) \subseteq DOMAIN p.active /\ InSystem(p, r.system) \subseteq DOMAIN p.active
  BY DEF OwnedBy, InSystem
<1> DEFINE o == Cardinality(OwnedBy(p, r.owner))
           i == Cardinality(InSystem(p, r.system))
           c == Cardinality(DOMAIN p.active)
<1>4. o \in Nat /\ i \in Nat /\ c \in Nat /\ o <= c /\ i <= c
  BY <1>2, <1>3
<1>5. c < MaxPerOwner /\ c < MaxPerSystem /\ c < MaxTotal
  BY DEF HasRoom
<1>6. MaxPerOwner \in Nat /\ MaxPerSystem \in Nat /\ MaxTotal \in Nat
  BY QueueAssumption
<1>7. ~(o >= MaxPerOwner) /\ ~(i >= MaxPerSystem) /\ ~(c >= MaxTotal)
  <2> HIDE DEF o, i, c
  <2> QED BY <1>4, <1>5, <1>6
<1> QED BY <1>7 DEF Admit, OverOwner, OverSystem, OverTotal

\* With the behaviours of the code's settings a call is inserted or refused.
LEMMA AdmitCases ==
  ASSUME NEW p, NEW r
  PROVE  Admit(p, r) = Insert(p, r) \/ Admit(p, r) = Reject(p, r)
BY FishingAssumption DEF Admit, Apply

\* schedule(): the new job of the key takes the place of the old one, or the
\* quotas refuse it and the key has none.
LEMMA ScheduleBare ==
  ASSUME NEW p, Bare(p), Fresh(p), NEW k \in Keys, NEW s, NEW n, n = Schedule(p, Job(k, s))
  PROVE  /\ Bare(n)
         /\ DOMAIN n.active \subseteq Others(p, k) \cup {p.next}
         /\ \A j \in Others(p, k) : j \in DOMAIN n.active /\ n.active[j] = p.active[j]
         /\ p.next \in DOMAIN n.active => n.active[p.next].key = k /\ p.next \in DOMAIN n.armed
         /\ DOMAIN n.armed \subseteq DOMAIN p.armed \cup {p.next}
         /\ HasRoom(Others(p, k)) => p.next \in DOMAIN n.active
<1> DEFINE r == Job(k, s)
           m == Cancel(p, k, "replaced")
<1>1. r.key = k /\ r.conflict = "replace"
  BY DEF Job
<1>2. n = Admit(m, r)
  <2>1. CASE Held(p, k)
    BY <1>1, <2>1 DEF Schedule
  <2>2. CASE ~Held(p, k)
    <3>1. m = p
      BY <2>2 DEF Cancel, Held, HasActive, HasDelayed
    <3> QED BY <1>1, <2>2, <3>1 DEF Schedule
  <2> QED BY <2>1, <2>2
<1>3. /\ Bare(m) /\ m.next = p.next /\ ~Held(m, k)
      /\ DOMAIN m.active = Others(p, k)
      /\ \A j \in Others(p, k) : m.active[j] = p.active[j]
      /\ DOMAIN m.armed \subseteq DOMAIN p.armed
  BY CancelBare
<1>4. p.next \notin Others(p, k)
  BY DEF Fresh, Others
<1>5. Fresh(m)
  BY <1>3, <1>4 DEF Fresh
<1> HIDE DEF m
<1>6. CASE n = Insert(m, r)
  <2>1. /\ Bare(n)
        /\ DOMAIN n.active = DOMAIN m.active \cup {m.next}
        /\ n.active[m.next].key = k
        /\ \A j \in DOMAIN m.active : n.active[j] = m.active[j]
        /\ DOMAIN n.armed = DOMAIN m.armed \cup {m.next}
    BY <1>3, <1>5, <1>6, InsertBare
  <2> QED BY <1>3, <2>1
<1>7. CASE n = Reject(m, r) /\ n # Insert(m, r)
  <2>1. n = Settle(m, r.ticket, "rejected")
    BY <1>7 DEF Reject
  <2>2. Quieter(n, m) /\ n.armed = m.armed /\ n.keyJob = m.keyJob
    BY <1>3, <2>1, SettleQuieter
  <2>3. ~HasRoom(Others(p, k))
    BY <1>2, <1>3, <1>7, RoomAdmits
  <2> QED BY <1>3, <1>4, <2>2, <2>3 DEF Quieter
<1> HIDE DEF r
<1>8. n = Insert(m, r) \/ n = Reject(m, r)
  BY <1>2, AdmitCases
<1> QED BY <1>6, <1>7, <1>8

-----------------------------------------------------------------------------
(* Unused ids: there are more of them than jobs and remembered tasks *)

LEMMA FiniteKeys == IsFiniteSet(Callbacks) /\ Cardinality(Callbacks) \in Nat /\ IsFiniteSet(Keys) /\ Cardinality(Keys) \in Nat
<1>1. IsFiniteSet({"bite"}) /\ IsFiniteSet({"bite"} \cup {"nibble_timeout"})
  BY FS_Singleton, FS_AddElement
<1>2. Callbacks = ({"bite"} \cup {"nibble_timeout"}) \cup {"struggle"}
  BY DEF Callbacks
<1>3. IsFiniteSet(Callbacks)
  BY <1>1, <1>2, FS_AddElement
<1>4. IsFiniteSet(OtherKeys) /\ Keys = Callbacks \cup OtherKeys
  BY FishingAssumption
<1>5. IsFiniteSet(Keys)
  BY <1>3, <1>4, FS_Union
<1> QED BY <1>3, <1>5, FS_CardinalityType

\* A key has one job at most.
LEMMA FewJobs ==
  ASSUME NEW p, Bare(p), NEW J, J \subseteq DOMAIN p.active,
         NEW K, IsFiniteSet(K), \A j \in J : p.active[j].key \in K
  PROVE  IsFiniteSet(J) /\ Cardinality(J) \in Nat /\ Cardinality(J) <= Cardinality(K)
<1> DEFINE f == [j \in J |-> p.active[j].key]
<1>1. ASSUME NEW i \in J, NEW j \in J, f[i] = f[j]
      PROVE  i = j
  <2>1. Maps(p.keyJob, p.active[i].key, i) /\ Maps(p.keyJob, p.active[j].key, j)
    BY JobOfKey
  <2> QED BY <1>1, <2>1 DEF Maps
<1>2. f \in Injection(J, K)
  BY <1>1 DEF Injection, IsInjective
<1>3. IsFiniteSet(J) /\ Cardinality(J) <= Cardinality(K)
  BY <1>2, FS_Injection
<1> QED BY <1>3, FS_CardinalityType

LEMMA FewTasks ==
  ASSUME NEW s, s = None \/ IsSession(s)
  PROVE  IsFiniteSet(TaskIds(s)) /\ Cardinality(TaskIds(s)) <= Cardinality(Callbacks)
<1>1. CASE s = None
  BY <1>1, FS_EmptySet, FiniteKeys DEF TaskIds
<1>2. CASE s # None
  <2>1. PICK C \in SUBSET Callbacks : s.tasks \in [C -> Nat \cup {None}]
    BY <1>2 DEF IsSession
  <2>2. DOMAIN s.tasks = C /\ TaskIds(s) = {s.tasks[c] : c \in C}
    BY <1>2, <2>1 DEF TaskIds
  <2>3. s.tasks \in Surjection(C, TaskIds(s))
    BY <2>1, <2>2 DEF Surjection
  <2>4. IsFiniteSet(C) /\ Cardinality(C) <= Cardinality(Callbacks)
    BY FiniteKeys, FS_Subset
  <2>5. IsFiniteSet(TaskIds(s)) /\ Cardinality(TaskIds(s)) <= Cardinality(C)
    BY <2>3, <2>4, FS_Surjection
  <2>6. Cardinality(TaskIds(s)) \in Nat /\ Cardinality(C) \in Nat /\ Cardinality(Callbacks) \in Nat
    BY <2>4, <2>5, FiniteKeys, FS_CardinalityType
  <2> QED BY <2>4, <2>5, <2>6
<1> QED BY <1>1, <1>2

LEMMA TidyBare ==
  ASSUME NEW p, Bare(p), NEW s, s = None \/ IsSession(s), NEW n, n = Tidy(p, s)
  PROVE  /\ Bare(n) /\ Fresh(n)
         /\ n.active = p.active /\ n.armed = p.armed /\ n.keyJob = p.keyJob
<1> DEFINE top == Cardinality(Keys) + Cardinality(Callbacks) + 1
           used == DOMAIN p.active \cup DOMAIN p.armed \cup TaskIds(s)
           id == Min((1..top) \ used)
<1>1. n = [p EXCEPT !.fate = <<>>, !.next = id]
  BY DEF Tidy
<1>2. IsFiniteSet(DOMAIN p.active) /\ Cardinality(DOMAIN p.active) \in Nat
      /\ Cardinality(DOMAIN p.active) <= Cardinality(Keys)
  <2>1. IsFiniteSet(Keys) /\ DOMAIN p.active \subseteq DOMAIN p.active /\ \A j \in DOMAIN p.active : p.active[j].key \in Keys
    BY FiniteKeys DEF Bare
  <2> QED BY <2>1, FewJobs
<1>3. used = DOMAIN p.active \cup TaskIds(s)
  BY DEF Bare
<1>4. IsFiniteSet(TaskIds(s)) /\ Cardinality(TaskIds(s)) <= Cardinality(Callbacks)
  BY FewTasks
<1>5. Cardinality(DOMAIN p.active \cap TaskIds(s)) \in Nat /\ Cardinality(TaskIds(s)) \in Nat
  BY <1>2, <1>4, FS_Intersection, FS_CardinalityType
<1>6. IsFiniteSet(used) /\ Cardinality(used) <= Cardinality(Keys) + Cardinality(Callbacks)
  <2>1. IsFiniteSet(used)
        /\ Cardinality(used) = Cardinality(DOMAIN p.active) + Cardinality(TaskIds(s)) - Cardinality(DOMAIN p.active \cap TaskIds(s))
    BY <1>2, <1>3, <1>4, FS_Union
  <2> QED BY <1>2, <1>4, <1>5, <2>1, FiniteKeys
<1>7. IsFiniteSet(1..top) /\ Cardinality(1..top) = top /\ top \in Nat
  <2>1. top \in Nat /\ top >= 1
    BY FiniteKeys
  <2> HIDE DEF top
  <2>2. IsFiniteSet(1..top) /\ Cardinality(1..top) = IF 1 > top THEN 0 ELSE top - 1 + 1
    BY <2>1, FS_Interval
  <2> QED BY <2>1, <2>2
<1>8. (1..top) \ used # {}
  <2> SUFFICES ASSUME 1..top \subseteq used PROVE FALSE
    OBVIOUS
  <2>1. Cardinality(1..top) <= Cardinality(used)
    BY <1>6, FS_Subset
  <2>2. Cardinality(used) \in Nat
    BY <1>6, FS_CardinalityType
  <2> QED BY <1>6, <1>7, <2>1, <2>2, FiniteKeys
<1>9. id \in (1..top) \ used
  <2> DEFINE T == (1..top) \ used
  <2>1. T \in SUBSET Nat /\ T # {}
    BY <1>7, <1>8
  <2> HIDE DEF T
  <2>2. \E x \in T : \A y \in T : x <= y
    BY <2>1, Oldest
  <2>3. Min(T) \in T
    BY <2>2 DEF Min
  <2> QED BY <2>3 DEF T
<1>10. id \in Nat /\ id \notin DOMAIN p.active
  BY <1>7, <1>9
<1> HIDE DEF id
<1>11. /\ IsRegistry(n) /\ n.active = p.active /\ n.keyJob = p.keyJob
       /\ n.delayed = p.delayed /\ n.delayedKey = p.delayedKey /\ n.armed = p.armed /\ n.next = id
  <2>1. IsRegistry(p)
    BY DEF Bare
  <2> QED BY <1>1, <2>1 DEF IsRegistry
<1>12. KeysIndexed(n)
  BY <1>11 DEF Bare, KeysIndexed
<1> QED BY <1>10, <1>11, <1>12 DEF Bare, Fresh

-----------------------------------------------------------------------------
(* Timers: the armed jobs whose callback is one of the session's *)

Live(w) == DOMAIN w.calls \cap DOMAIN w.q.armed

\* The state each callback is scheduled for.
TimerStates == {<<"bite", "cast">>, <<"nibble_timeout", "nibble">>, <<"struggle", "hooked">>}

Whole(w) ==
  /\ Passed(w) /\ Bare(w.q)
  /\ w.s = None \/ IsSession(w.s)
  /\ \A j \in DOMAIN w.calls : w.calls[j] \in Tokens
  /\ InAttempt(w.s) => w.s.token \in Tokens

Belong(w) ==
  \A j \in Live(w) :
    /\ w.s # None /\ w.s.token = w.calls[j]
    /\ <<w.q.active[j].key, w.s.state>> \in TimerStates
    /\ Maps(w.s.tasks, w.q.active[j].key, j)

\* No timer runs and the next id is unused: a callback may be scheduled.
Rest(w) == Whole(w) /\ Fresh(w.q) /\ Live(w) = {}

\* As long as nothing else is scheduled for the actor.
OnlyFishing(p) == \A j \in DOMAIN p.active : p.active[j].key \in Callbacks
Manned(w) == InAttempt(w.s) => Live(w) # {}
Roomy == MaxPerOwner >= 3 /\ MaxPerSystem >= 3 /\ MaxTotal >= 3

LEMMA TimerStateKey ==
  ASSUME NEW name, NEW state, <<name, state>> \in TimerStates
  PROVE  name \in Callbacks /\ state \in Attempt
BY DEF TimerStates, Callbacks, Attempt

LEMMA SessionShaped ==
  ASSUME NEW s, IsSession(s)
  PROVE  Shaped(s) /\ s # None
BY SessionAssumption DEF IsSession, Shaped, States

\* The fields of a session may be assigned one by one.
LEMMA SessionFields ==
  ASSUME NEW s, IsSession(s), NEW n, Shaped(n),
         n.bait \in Baits \cup {None}, n.token \in Tokens \cup {None}, n.room \in Rooms \cup {None},
         n.tasks = s.tasks
  PROVE  IsSession(n)
BY DEF IsSession, Shaped

LEMMA SessionTasks ==
  ASSUME NEW s, IsSession(s), NEW n, Shaped(n),
         n.bait = s.bait, n.token = s.token, n.room = s.room
  PROVE  /\ \A names : n.tasks = Restrict(s.tasks, DOMAIN s.tasks \ names) => IsSession(n)
         /\ \A name \in Callbacks, v \in Nat \cup {None} : n.tasks = Put(s.tasks, name, v) => IsSession(n)
<1>1. PICK C \in SUBSET Callbacks :
        /\ s.tasks \in [C -> Nat \cup {None}] /\ s.bait \in Baits \cup {None}
        /\ s.token \in Tokens \cup {None} /\ s.room \in Rooms \cup {None}
  BY DEF IsSession
<1>2. ASSUME NEW D \in SUBSET Callbacks, n.tasks \in [D -> Nat \cup {None}]
      PROVE  IsSession(n)
  BY <1>1, <1>2 DEF IsSession, Shaped
<1>3. ASSUME NEW names, n.tasks = Restrict(s.tasks, DOMAIN s.tasks \ names)
      PROVE  n.tasks \in [C \ names -> Nat \cup {None}]
  BY <1>1, <1>3 DEF Restrict
<1>4. ASSUME NEW name \in Callbacks, NEW v \in Nat \cup {None}, n.tasks = Put(s.tasks, name, v)
      PROVE  n.tasks \in [C \cup {name} -> Nat \cup {None}]
  BY <1>1, <1>4 DEF Put
<1>5. \A names : C \ names \in SUBSET Callbacks
  OBVIOUS
<1>6. \A name \in Callbacks : C \cup {name} \in SUBSET Callbacks
  OBVIOUS
<1>7. ASSUME NEW names, n.tasks = Restrict(s.tasks, DOMAIN s.tasks \ names)
      PROVE  IsSession(n)
  BY <1>2, <1>3, <1>5, <1>7
<1>8. ASSUME NEW name \in Callbacks, NEW v \in Nat \cup {None}, n.tasks = Put(s.tasks, name, v)
      PROVE  IsSession(n)
  BY <1>2, <1>4, <1>6, <1>8
<1> QED BY <1>7, <1>8

LEMMA QuieterFresh ==
  ASSUME NEW p, NEW n, Quieter(n, p)
  PROVE  Bare(n) /\ (Fresh(p) => Fresh(n)) /\ (OnlyFishing(p) => OnlyFishing(n))
BY DEF Quieter, Fresh, OnlyFishing

LEMMA RestBelongs ==
  ASSUME NEW w, Rest(w)
  PROVE  Whole(w) /\ Belong(w) /\ Quieter(w.q, w.q)
BY DEF Rest, Belong, Whole, Quieter

LEMMA EnterWhole ==
  ASSUME NEW w, Whole(w), w.s # None, NEW state \in States,
         state \in Attempt => w.s.token \in Tokens,
         NEW n, n = Enter(w, state)
  PROVE  /\ Whole(n) /\ n.q = w.q /\ n.calls = w.calls /\ n.s # None
         /\ n.s.state = state /\ n.s.token = w.s.token /\ n.s.tasks = w.s.tasks
<1>1. Passed(w) /\ IsSession(w.s) /\ Shaped(w.s)
  BY SessionShaped DEF Whole
<1>2. n.q = w.q /\ n.calls = w.calls /\ n.s = [w.s EXCEPT !.state = state]
  BY <1>1 DEF Enter, Passed
<1>3. /\ n.s.bait = w.s.bait /\ n.s.token = w.s.token /\ n.s.room = w.s.room /\ n.s.tasks = w.s.tasks
      /\ n.s.state = state
  BY <1>1, <1>2 DEF Shaped
<1>4. Passed(n) /\ Shaped(n.s)
  BY <1>1, EnterFields
<1>5. w.s.bait \in Baits \cup {None} /\ w.s.token \in Tokens \cup {None} /\ w.s.room \in Rooms \cup {None}
  BY <1>1 DEF IsSession
<1>6. IsSession(n.s)
  BY <1>1, <1>3, <1>4, <1>5, SessionFields
<1>7. n.s # None
  BY <1>6, SessionShaped
<1>8. Whole(n)
  BY <1>2, <1>3, <1>4, <1>6 DEF Whole, InAttempt
<1> QED BY <1>2, <1>3, <1>7, <1>8

LEMMA EnterRest ==
  ASSUME NEW w, Rest(w), w.s # None, NEW state \in States,
         state \in Attempt => w.s.token \in Tokens,
         NEW n, n = Enter(w, state)
  PROVE  Rest(n) /\ n.q = w.q /\ n.s # None /\ n.s.state = state /\ n.s.token = w.s.token
<1>1. Whole(w) /\ Live(w) = {} /\ Fresh(w.q)
  BY DEF Rest
<1>2. /\ Whole(n) /\ n.q = w.q /\ n.calls = w.calls /\ n.s # None
      /\ n.s.state = state /\ n.s.token = w.s.token /\ n.s.tasks = w.s.tasks
  BY <1>1, EnterWhole
<1> QED BY <1>1, <1>2 DEF Rest, Live

\* The ids whose tasks _clear_session_callbacks() cancels.
Cancelled(s, names) == {s.tasks[c] : c \in names \cap DOMAIN s.tasks}

Cleared(n, w, names) ==
  /\ Kept(n, w) /\ n.calls = w.calls
  /\ IsRegistry(n.q) /\ n.q.active = w.q.active /\ n.q.keyJob = w.q.keyJob
  /\ n.q.delayed = w.q.delayed /\ n.q.delayedKey = w.q.delayedKey /\ n.q.next = w.q.next
  /\ n.s.tasks = Restrict(w.s.tasks, DOMAIN w.s.tasks \ names)
  /\ DOMAIN n.q.armed = DOMAIN w.q.armed \ Cancelled(w.s, names)

LEMMA ClearFields ==
  ASSUME NEW w, Passed(w), IsRegistry(w.q), w.s # None, Shaped(w.s), NEW names,
         NEW n, n = Clear(w, names)
  PROVE  Cleared(n, w, names)
<1> DEFINE ids == Cancelled(w.s, names)
           a == Restrict(w.q.armed, DOMAIN w.q.armed \ ids)
           u == Restrict(w.s.tasks, DOMAIN w.s.tasks \ names)
           p == [w.q EXCEPT !.armed = a]
           v == [w.s EXCEPT !.tasks = u]
<1>1. n = [w EXCEPT !.q.armed = a, !.s.tasks = u]
  BY DEF Clear, Cancelled
<1>2. DOMAIN a = DOMAIN w.q.armed \ ids
  BY DEF Restrict
<1> HIDE DEF ids, a, u
<1>3. n = [q |-> p, calls |-> w.calls, s |-> v, pole |-> w.pole]
  BY <1>1 DEF Passed
<1>4. /\ IsRegistry(p) /\ p.active = w.q.active /\ p.keyJob = w.q.keyJob /\ p.armed = a
      /\ p.delayed = w.q.delayed /\ p.delayedKey = w.q.delayedKey /\ p.next = w.q.next
  BY DEF IsRegistry
<1>5. v.tasks = u
  BY DEF Shaped
<1>6. Kept(n, w)
  BY ClearKept
<1> HIDE DEF p, v
<1>7. n.q = p /\ n.calls = w.calls /\ n.s = v
  BY <1>3
<1> QED BY <1>2, <1>4, <1>5, <1>6, <1>7 DEF Cleared, u, ids

\* Cancelling what can still run leaves the session without a timer.
LEMMA ClearRest ==
  ASSUME NEW w, Whole(w), Fresh(w.q), NEW names,
         \A j \in Live(w) : w.s # None /\ \E c \in names : Maps(w.s.tasks, c, j),
         NEW n, n = Clear(w, names)
  PROVE  /\ Rest(n) /\ Quieter(n.q, w.q)
         /\ w.s = None => n = w
         /\ w.s # None => n.s # None /\ Kept(n, w)
<1>1. CASE w.s = None
  <2>1. n = w
    BY <1>1 DEF Clear
  <2>2. Live(w) = {}
    BY <1>1
  <2> QED BY <1>1, <2>1, <2>2, RestBelongs DEF Rest
<1>2. CASE w.s # None
  <2>1. Passed(w) /\ IsRegistry(w.q) /\ IsSession(w.s) /\ Shaped(w.s)
    BY <1>2, SessionShaped DEF Whole, Bare
  <2>2. /\ Kept(n, w) /\ n.calls = w.calls
        /\ IsRegistry(n.q) /\ n.q.active = w.q.active /\ n.q.keyJob = w.q.keyJob
        /\ n.q.delayed = w.q.delayed /\ n.q.delayedKey = w.q.delayedKey /\ n.q.next = w.q.next
        /\ n.s.tasks = Restrict(w.s.tasks, DOMAIN w.s.tasks \ names)
        /\ DOMAIN n.q.armed = DOMAIN w.q.armed \ Cancelled(w.s, names)
    <3>1. Cleared(n, w, names)
      BY <1>2, <2>1, ClearFields
    <3> QED BY <3>1 DEF Cleared
  <2>3. Live(n) = {}
    <3> SUFFICES ASSUME NEW j \in Live(n) PROVE FALSE
      OBVIOUS
    <3>1. j \in Live(w)
      BY <2>2 DEF Live
    <3>2. PICK c \in names : Maps(w.s.tasks, c, j)
      BY <3>1
    <3>3. j \in Cancelled(w.s, names)
      BY <3>2 DEF Maps, Cancelled
    <3> QED BY <2>2, <3>3 DEF Live
  <2>4. Quieter(n.q, w.q)
    <3>1. DOMAIN n.q.armed \subseteq DOMAIN w.q.armed
      BY <2>2
    <3>2. Bare(w.q)
      BY DEF Whole
    <3> QED BY <2>2, <3>1, <3>2, SameJobsBare
  <2>5. /\ Passed(n) /\ Shaped(n.s) /\ n.s.bait = w.s.bait /\ n.s.token = w.s.token
        /\ n.s.room = w.s.room /\ n.s.state = w.s.state
    BY <2>2 DEF Kept
  <2>6. IsSession(n.s)
    BY <2>1, <2>2, <2>5, SessionTasks
  <2>7. n.s # None
    BY <2>6, SessionShaped
  <2>8. InAttempt(n.s) => n.s.token \in Tokens
    BY <1>2, <2>5 DEF Whole, InAttempt
  <2>9. Whole(n) /\ Fresh(n.q)
    BY <2>2, <2>4, <2>5, <2>6, <2>8, QuieterFresh DEF Whole
  <2> QED BY <1>2, <2>2, <2>3, <2>4, <2>7, <2>9 DEF Rest
<1> QED BY <1>1, <1>2

LEMMA ClearAllRest ==
  ASSUME NEW w, Whole(w), Fresh(w.q), Belong(w), NEW n, n = Clear(w, Callbacks)
  PROVE  /\ Rest(n) /\ Quieter(n.q, w.q)
         /\ w.s = None => n = w
         /\ w.s # None => n.s # None /\ Kept(n, w)
<1>1. \A j \in Live(w) : w.s # None /\ \E c \in Callbacks : Maps(w.s.tasks, c, j)
  BY TimerStateKey DEF Belong
<1> QED BY <1>1, ClearRest

LEMMA ResetRest ==
  ASSUME NEW w, Whole(w), Fresh(w.q), Belong(w), NEW n, n = Reset(w)
  PROVE  Rest(n) /\ Quieter(n.q, w.q) /\ n.s = None
<1> DEFINE c == Clear(w, Callbacks)
<1>1. Rest(c) /\ Quieter(c.q, w.q)
  BY ClearAllRest
<1>2. n = [c EXCEPT !.s = None]
  BY DEF Reset
<1> HIDE DEF c
<1>3. n.s = None /\ n.q = c.q /\ n.calls = c.calls /\ Passed(n)
  BY <1>1, <1>2 DEF Rest, Whole, Passed
<1> QED BY <1>1, <1>3 DEF Rest, Whole, Live, InAttempt

\* What becomes of the pole is no matter of the timers.
LEMMA PoleRest ==
  ASSUME NEW w, Rest(w), NEW n, Passed(n), n.q = w.q, n.calls = w.calls, n.s = w.s
  PROVE  Rest(n)
BY DEF Rest, Whole, Live

LEMMA TangledRest ==
  ASSUME NEW w, Whole(w), Fresh(w.q), Belong(w), w.s # None, NEW n, n = MarkTangled(w)
  PROVE  Rest(n) /\ Quieter(n.q, w.q) /\ n.s # None /\ n.s.state = "tangled"
<1> DEFINE c == Clear(w, Callbacks)
           e == Enter(c, "tangled")
<1>1. Rest(c) /\ Quieter(c.q, w.q) /\ c.s # None
  BY ClearAllRest
<1>2. "tangled" \in States /\ "tangled" \notin Attempt
  BY DEF States, Attempt
<1>3. Rest(e) /\ e.q = c.q /\ e.s # None /\ e.s.state = "tangled"
  BY <1>1, <1>2, EnterRest
<1>4. n = [e EXCEPT !.pole.tangled = @ \/ w.pole.carried]
  BY DEF MarkTangled
<1>5. Passed(n)
  <2>1. Passed(w) /\ Shaped(w.s)
    BY SessionShaped DEF Whole
  <2> QED BY <2>1, TangledFields
<1> HIDE DEF e, c
<1>6. n.q = e.q /\ n.calls = e.calls /\ n.s = e.s
  BY <1>3, <1>4 DEF Rest, Whole, Passed
<1> QED BY <1>1, <1>3, <1>5, <1>6, PoleRest

LEMMA BrokenRest ==
  ASSUME NEW w, Whole(w), Fresh(w.q), Belong(w), w.s # None, NEW n, n = MarkBroken(w)
  PROVE  Rest(n) /\ Quieter(n.q, w.q) /\ n.s # None /\ n.s.state = "broken"
<1> DEFINE c == Clear(w, Callbacks)
           e == Enter(c, "broken")
<1>1. Rest(c) /\ Quieter(c.q, w.q) /\ c.s # None
  BY ClearAllRest
<1>2. "broken" \in States /\ "broken" \notin Attempt
  BY DEF States, Attempt
<1>3. Rest(e) /\ e.q = c.q /\ e.s # None /\ e.s.state = "broken"
  BY <1>1, <1>2, EnterRest
<1>4. n = [e EXCEPT !.pole = IF @.carried THEN [@ EXCEPT !.rigged = FALSE, !.tangled = FALSE] ELSE @]
  BY DEF MarkBroken
<1>5. Passed(n)
  <2>1. Passed(w) /\ Shaped(w.s)
    BY SessionShaped DEF Whole
  <2> QED BY <2>1, BrokenFields
<1> HIDE DEF e, c
<1>6. n.q = e.q /\ n.calls = e.calls /\ n.s = e.s
  BY <1>3, <1>4 DEF Rest, Whole, Passed
<1> QED BY <1>1, <1>3, <1>5, <1>6, PoleRest

Armed(n, w, name, p) ==
  /\ Kept(n, w) /\ n.q = p
  /\ n.calls = IF w.q.next \in DOMAIN p.active THEN Put(w.calls, w.q.next, w.s.token) ELSE w.calls
  /\ n.s.tasks = Put(w.s.tasks, name, IF w.q.next \in DOMAIN p.active THEN w.q.next ELSE None)

LEMMA ArmFields ==
  ASSUME NEW w, Passed(w), Shaped(w.s), NEW name, NEW n, n = Arm(w, name)
  PROVE  Armed(n, w, name, Schedule(Clear(w, {name}).q, Job(name, Fishing)))
<1> DEFINE p == Schedule(Clear(w, {name}).q, Job(name, Fishing))
           c == IF w.q.next \in DOMAIN p.active THEN Put(w.calls, w.q.next, w.s.token) ELSE w.calls
           t == Put(w.s.tasks, name, IF w.q.next \in DOMAIN p.active THEN w.q.next ELSE None)
           v == [w.s EXCEPT !.tasks = t]
<1> HIDE DEF p
<1>1. n = [w EXCEPT !.q = p, !.calls = IF w.q.next \in DOMAIN p.active THEN Put(@, w.q.next, w.s.token) ELSE @,
                    !.s.tasks = Put(@, name, IF w.q.next \in DOMAIN p.active THEN w.q.next ELSE None)]
  BY DEF Arm, p
<1>2. n = [q |-> p, calls |-> c, s |-> v, pole |-> w.pole]
  BY <1>1 DEF Passed
<1> HIDE DEF c, t
<1>3. v.tasks = t
  BY DEF Shaped
<1>4. Kept(n, w)
  BY ArmKept
<1> HIDE DEF v
<1>5. n.q = p /\ n.calls = c /\ n.s = v
  BY <1>2
<1> QED BY <1>3, <1>4, <1>5 DEF Armed, c, t, p

\* With nothing else in the quota there is room for the three callbacks.
LEMMA CallbacksFit ==
  ASSUME Roomy, NEW p, Bare(p), OnlyFishing(p), NEW name \in Callbacks
  PROVE  HasRoom(Others(p, name))
<1> DEFINE K == Callbacks \ {name}
<1>1. Others(p, name) \subseteq DOMAIN p.active /\ \A j \in Others(p, name) : p.active[j].key \in K
  BY DEF Others, OnlyFishing
<1>2. IsFiniteSet(K) /\ Cardinality(K) = 2
  <2>1. \E x, y : x # y /\ K = {x} \cup {y}
    <3>1. CASE name = "bite"
      <4>1. K = {"nibble_timeout"} \cup {"struggle"} /\ "nibble_timeout" # "struggle"
        BY <3>1 DEF Callbacks
      <4> HIDE DEF K
      <4> QED BY <4>1
    <3>2. CASE name = "nibble_timeout"
      <4>1. K = {"bite"} \cup {"struggle"} /\ "bite" # "struggle"
        BY <3>2 DEF Callbacks
      <4> HIDE DEF K
      <4> QED BY <4>1
    <3>3. CASE name = "struggle"
      <4>1. K = {"bite"} \cup {"nibble_timeout"} /\ "bite" # "nibble_timeout"
        BY <3>3 DEF Callbacks
      <4> HIDE DEF K
      <4> QED BY <4>1
    <3> QED BY <3>1, <3>2, <3>3 DEF Callbacks
  <2> HIDE DEF K
  <2>2. PICK x, y : x # y /\ K = {x} \cup {y}
    BY <2>1
  <2>3. IsFiniteSet({x}) /\ Cardinality({x}) = 1
    BY FS_Singleton
  <2>4. IsFiniteSet({x} \cup {y}) /\ Cardinality({x} \cup {y}) = IF y \in {x} THEN Cardinality({x}) ELSE Cardinality({x}) + 1
    BY <2>3, FS_AddElement
  <2> QED BY <2>2, <2>3, <2>4
<1> HIDE DEF K
<1> DEFINE o == Cardinality(Others(p, name))
<1>3. IsFiniteSet(Others(p, name)) /\ o \in Nat /\ o <= Cardinality(K)
  BY <1>1, <1>2, FewJobs
<1>4. MaxPerOwner \in Nat /\ MaxPerSystem \in Nat /\ MaxTotal \in Nat
  BY QueueAssumption
<1>5. o < MaxPerOwner /\ o < MaxPerSystem /\ o < MaxTotal
  <2> HIDE DEF o
  <2> QED BY <1>2, <1>3, <1>4 DEF Roomy
<1> QED BY <1>3, <1>5 DEF HasRoom

\* A scheduled callback is the session's one timer, or the quotas refused it.
LEMMA ArmBelongs ==
  ASSUME NEW w, Rest(w), w.s # None, NEW name, <<name, w.s.state>> \in TimerStates,
         w.s.token \in Tokens, NEW n, n = Arm(w, name)
  PROVE  /\ Whole(n) /\ Belong(n)
         /\ DOMAIN n.q.armed \subseteq DOMAIN w.q.armed \cup {w.q.next}
         /\ OnlyFishing(w.q) => OnlyFishing(n.q)
         /\ Roomy /\ OnlyFishing(w.q) => Live(n) # {}
<1> DEFINE c == Clear(w, {name})
           p == Schedule(c.q, Job(name, Fishing))
           id == w.q.next
<1>1. name \in Callbacks /\ name \in Keys
  BY TimerStateKey, FishingAssumption
<1>2. Whole(w) /\ Fresh(w.q) /\ Belong(w) /\ Live(w) = {}
  BY RestBelongs DEF Rest
<1>3. Passed(w) /\ IsSession(w.s) /\ Shaped(w.s)
  BY <1>2, SessionShaped DEF Whole
<1>4. Rest(c) /\ Quieter(c.q, w.q)
  <2>1. \A j \in Live(w) : w.s # None /\ \E cb \in {name} : Maps(w.s.tasks, cb, j)
    BY <1>2
  <2> QED BY <1>2, <2>1, ClearRest
<1>5. Armed(n, w, name, p)
  BY <1>3, ArmFields
<1> HIDE DEF c
<1>6. Bare(c.q) /\ Fresh(c.q)
  BY <1>2, <1>4, QuieterFresh
<1>7. /\ Bare(p)
      /\ DOMAIN p.active \subseteq Others(c.q, name) \cup {c.q.next}
      /\ \A j \in Others(c.q, name) : j \in DOMAIN p.active /\ p.active[j] = c.q.active[j]
      /\ c.q.next \in DOMAIN p.active => p.active[c.q.next].key = name /\ c.q.next \in DOMAIN p.armed
      /\ DOMAIN p.armed \subseteq DOMAIN c.q.armed \cup {c.q.next}
      /\ HasRoom(Others(c.q, name)) => c.q.next \in DOMAIN p.active
  BY <1>1, <1>6, ScheduleBare
<1> HIDE DEF p
<1>8. /\ c.q.next = id /\ c.q.active = w.q.active /\ DOMAIN c.q.armed \subseteq DOMAIN w.q.armed
      /\ Others(c.q, name) = Others(w.q, name)
  BY <1>4 DEF Quieter, Others
<1>9. id \in Nat /\ id \notin DOMAIN w.q.active
  BY <1>2 DEF Fresh
<1>10. /\ Kept(n, w) /\ n.q = p
       /\ n.calls = IF id \in DOMAIN p.active THEN Put(w.calls, id, w.s.token) ELSE w.calls
       /\ n.s.tasks = Put(w.s.tasks, name, IF id \in DOMAIN p.active THEN id ELSE None)
  BY <1>5 DEF Armed
<1>11. /\ Passed(n) /\ Shaped(n.s) /\ n.s.bait = w.s.bait /\ n.s.token = w.s.token
       /\ n.s.room = w.s.room /\ n.s.state = w.s.state
  BY <1>10 DEF Kept
<1>12. IsSession(n.s) /\ n.s # None
  <2>1. (IF id \in DOMAIN p.active THEN id ELSE None) \in Nat \cup {None}
    BY <1>9
  <2>2. IsSession(n.s)
    BY <1>1, <1>3, <1>10, <1>11, <2>1, SessionTasks
  <2> QED BY <2>2, SessionShaped
<1>13. ASSUME id \in DOMAIN p.active
       PROVE  /\ DOMAIN n.calls = DOMAIN w.calls \cup {id} /\ n.calls[id] = w.s.token
              /\ \A j \in DOMAIN w.calls : j # id => n.calls[j] = w.calls[j]
              /\ Maps(n.s.tasks, name, id)
  BY <1>10, <1>13 DEF Put, Maps
<1>14. ASSUME id \notin DOMAIN p.active
       PROVE  n.calls = w.calls
  BY <1>10, <1>14
<1>15. \A j \in DOMAIN n.calls : n.calls[j] \in Tokens
  BY <1>2, <1>13, <1>14 DEF Whole
<1>16. Whole(n)
  BY <1>7, <1>10, <1>11, <1>12, <1>15 DEF Whole
<1>17. \A j \in Live(n) : j = id
  BY <1>2, <1>7, <1>8, <1>10, <1>13, <1>14 DEF Live
<1>18. Belong(n)
  <2> SUFFICES ASSUME NEW j \in Live(n)
               PROVE  /\ n.s # None /\ n.s.token = n.calls[j]
                      /\ <<n.q.active[j].key, n.s.state>> \in TimerStates
                      /\ Maps(n.s.tasks, n.q.active[j].key, j)
    BY DEF Belong
  <2>1. j = id /\ id \in DOMAIN p.active
    BY <1>7, <1>10, <1>17 DEF Live, Bare
  <2>2. p.active[id].key = name
    BY <1>7, <1>8, <2>1
  <2> QED BY <1>10, <1>11, <1>12, <1>13, <2>1, <2>2
<1>19. ASSUME OnlyFishing(w.q)
       PROVE  OnlyFishing(n.q) /\ (Roomy => Live(n) # {})
  <2>1. OnlyFishing(n.q)
    BY <1>1, <1>7, <1>8, <1>10, <1>19 DEF OnlyFishing, Others
  <2>2. ASSUME Roomy PROVE id \in Live(n)
    <3>1. HasRoom(Others(w.q, name))
      BY <1>1, <1>2, <1>19, <2>2, CallbacksFit DEF Whole
    <3>2. id \in DOMAIN p.active /\ id \in DOMAIN p.armed
      BY <1>7, <1>8, <3>1
    <3> QED BY <1>10, <1>13, <3>2 DEF Live
  <2> QED BY <2>1, <2>2
<1> QED BY <1>7, <1>8, <1>10, <1>16, <1>18, <1>19

Popped(n, j) == [n EXCEPT !.q = PopJob(@, j)]

\* _wrapped_callback pops its job at the end: the timers are not touched.
LEMMA PopBelongs ==
  ASSUME NEW n, Whole(n), Belong(n), NEW j, j \notin DOMAIN n.q.armed,
         NEW m, m = Popped(n, j)
  PROVE  /\ Whole(m) /\ Belong(m) /\ m.s = n.s /\ Live(m) = Live(n)
         /\ OnlyFishing(n.q) => OnlyFishing(m.q)
<1> DEFINE p == PopJob(n.q, j)
<1>1. Bare(n.q) /\ Passed(n)
  BY DEF Whole
<1>2. /\ Bare(p) /\ p.armed = n.q.armed
      /\ DOMAIN p.active = DOMAIN n.q.active \ {j}
      /\ \A i \in DOMAIN p.active : p.active[i] = n.q.active[i]
  BY <1>1, PopJobBare
<1>3. m = [n EXCEPT !.q = p]
  BY DEF Popped
<1> HIDE DEF p
<1>4. m.q = p /\ m.calls = n.calls /\ m.s = n.s /\ Passed(m)
  BY <1>1, <1>3 DEF Passed
<1>5. Whole(m) /\ Live(m) = Live(n)
  BY <1>2, <1>4 DEF Whole, Live
<1>6. \A i \in Live(m) : m.q.active[i] = n.q.active[i]
  BY <1>2, <1>4 DEF Live, Bare
<1>7. Belong(m)
  BY <1>4, <1>5, <1>6 DEF Belong
<1>8. OnlyFishing(n.q) => OnlyFishing(m.q)
  BY <1>2, <1>4 DEF OnlyFishing
<1> QED BY <1>4, <1>5, <1>7, <1>8

-----------------------------------------------------------------------------
(* The inductive invariants of the timers *)

TimersInv == Whole(Now) /\ Fresh(q) /\ Belong(Now) /\ DOMAIN calls \subseteq DOMAIN q.armed
MannedInv == OnlyFishing(q) /\ Manned(Now)

LEMMA NowFields == Now.q = q /\ Now.calls = calls /\ Now.s = session /\ Now.pole = pole
BY DEF Now

LEMMA CommitBelongs ==
  ASSUME NEW n, Whole(n), Belong(n), Commit(n)
  PROVE  TimersInv' /\ (OnlyFishing(n.q) /\ Manned(n) => MannedInv')
<1> DEFINE W == [q |-> q', calls |-> calls', s |-> session', pole |-> pole']
<1>1. /\ q' = Tidy(n.q, n.s)
      /\ calls' = Restrict(n.calls, DOMAIN n.calls \cap DOMAIN n.q.armed)
      /\ session' = n.s /\ pole' = n.pole
  BY DEF Commit
<1>2. /\ Bare(q') /\ Fresh(q')
      /\ q'.active = n.q.active /\ q'.armed = n.q.armed /\ q'.keyJob = n.q.keyJob
  BY <1>1, TidyBare DEF Whole
<1>3. /\ DOMAIN calls' = Live(n)
      /\ \A j \in DOMAIN calls' : calls'[j] = n.calls[j]
  BY <1>1 DEF Restrict, Live
<1>4. W.q = q' /\ W.calls = calls' /\ W.s = session' /\ W.pole = pole'
  OBVIOUS
<1>5. Passed(W)
  BY <1>1 DEF Passed, Whole
<1>6. Now' = W
  BY DEF Now
<1> HIDE DEF W
<1>7. Live(W) = Live(n) /\ DOMAIN calls' \subseteq DOMAIN q'.armed
  BY <1>2, <1>3, <1>4 DEF Live
<1>8. Whole(W)
  BY <1>1, <1>2, <1>3, <1>4, <1>5 DEF Whole, Live
<1>9. Belong(W)
  BY <1>1, <1>2, <1>3, <1>4, <1>7 DEF Belong
<1>10. TimersInv'
  BY <1>2, <1>6, <1>7, <1>8, <1>9 DEF TimersInv
<1>11. ASSUME OnlyFishing(n.q), Manned(n) PROVE MannedInv'
  <2>1. OnlyFishing(q') /\ Manned(W)
    BY <1>1, <1>2, <1>4, <1>7, <1>11 DEF OnlyFishing, Manned
  <2> QED BY <1>6, <2>1 DEF MannedInv
<1> QED BY <1>10, <1>11

\* With the quota to itself, an attempt keeps its timer.
TimersGoOn == TimersInv' /\ (Roomy /\ calm /\ MannedInv => MannedInv')

LEMMA NowWhole ==
  ASSUME TimersInv
  PROVE  /\ Whole(Now) /\ Fresh(Now.q) /\ Belong(Now) /\ Quieter(Now.q, q)
         /\ Live(Now) = DOMAIN calls
<1>1. Whole(Now) /\ Fresh(Now.q) /\ Belong(Now)
  BY NowFields DEF TimersInv
<1>2. Quieter(Now.q, q)
  BY <1>1, NowFields DEF Whole, Quieter
<1>3. Live(Now) = DOMAIN calls
  BY NowFields DEF TimersInv, Live
<1> QED BY <1>1, <1>2, <1>3

\* Outside an attempt no timer runs.
LEMMA IdleRest ==
  ASSUME TimersInv, ~InAttempt(session)
  PROVE  Rest(Now)
<1>1. Whole(Now) /\ Fresh(Now.q) /\ Belong(Now)
  BY NowWhole
<1>2. Live(Now) = {}
  BY <1>1, NowFields, TimerStateKey DEF Belong, InAttempt
<1> QED BY <1>1, <1>2 DEF Rest

LEMMA SameTimers ==
  ASSUME TimersInv, q' = q, calls' = calls, session' = session, PoleTyped(pole')
  PROVE  TimersGoOn
<1> DEFINE W == [q |-> q, calls |-> calls, s |-> session, pole |-> pole']
<1>1. Now' = W
  BY DEF Now
<1>2. W.q = q /\ W.calls = calls /\ W.s = session /\ W.pole = pole' /\ Passed(W)
  BY DEF Passed
<1> HIDE DEF W
<1>3. Live(W) = Live(Now)
  BY <1>2, NowFields DEF Live
<1>4. Whole(W) /\ Belong(W)
  BY <1>2, <1>3, NowFields DEF TimersInv, Whole, Belong
<1>5. TimersInv'
  BY <1>1, <1>4 DEF TimersInv
<1>6. MannedInv => MannedInv'
  BY <1>1, <1>2, <1>3, NowFields DEF MannedInv, Manned
<1> QED BY <1>5, <1>6 DEF TimersGoOn

LEMMA CommitRest ==
  ASSUME NEW n, Rest(n), Quieter(n.q, q), ~InAttempt(n.s), Commit(n)
  PROVE  TimersGoOn
<1>1. Whole(n) /\ Belong(n)
  BY RestBelongs
<1>2. OnlyFishing(q) => OnlyFishing(n.q)
  BY QuieterFresh
<1>3. Manned(n)
  BY DEF Manned
<1>4. TimersInv' /\ (OnlyFishing(n.q) /\ Manned(n) => MannedInv')
  BY <1>1, CommitBelongs
<1> QED BY <1>2, <1>3, <1>4 DEF TimersGoOn, MannedInv

LEMMA CommitArm ==
  ASSUME NEW w, Rest(w), Quieter(w.q, q), w.s # None, NEW name,
         <<name, w.s.state>> \in TimerStates, w.s.token \in Tokens, Commit(Arm(w, name))
  PROVE  TimersGoOn
<1> DEFINE n == Arm(w, name)
<1>1. /\ Whole(n) /\ Belong(n)
      /\ OnlyFishing(w.q) => OnlyFishing(n.q)
      /\ Roomy /\ OnlyFishing(w.q) => Live(n) # {}
  BY ArmBelongs
<1>2. Commit(n)
  OBVIOUS
<1> HIDE DEF n
<1>3. OnlyFishing(q) => OnlyFishing(w.q)
  BY QuieterFresh
<1>4. TimersInv' /\ (OnlyFishing(n.q) /\ Manned(n) => MannedInv')
  BY <1>1, <1>2, CommitBelongs
<1> QED BY <1>1, <1>3, <1>4 DEF TimersGoOn, MannedInv, Manned

LEMMA DoneRest ==
  ASSUME NEW n, Rest(n), Quieter(n.q, q), ~InAttempt(n.s), NEW j, j \notin DOMAIN n.q.armed, Done(n, j)
  PROVE  TimersGoOn
<1> DEFINE m == Popped(n, j)
<1>1. Whole(n) /\ Belong(n)
  BY RestBelongs
<1>2. OnlyFishing(q) => OnlyFishing(n.q)
  BY QuieterFresh
<1>4. Commit(m)
  BY DEF Done, Popped
<1>3. /\ Whole(m) /\ Belong(m) /\ m.s = n.s /\ Live(m) = Live(n)
      /\ OnlyFishing(n.q) => OnlyFishing(m.q)
  BY <1>1, PopBelongs
<1> HIDE DEF m
<1>5. Manned(m)
  BY <1>3 DEF Manned
<1>6. TimersInv' /\ (OnlyFishing(m.q) /\ Manned(m) => MannedInv')
  BY <1>3, <1>4, CommitBelongs
<1> QED BY <1>2, <1>3, <1>5, <1>6 DEF TimersGoOn, MannedInv

LEMMA DoneArm ==
  ASSUME NEW w, Rest(w), Quieter(w.q, q), w.s # None, NEW name,
         <<name, w.s.state>> \in TimerStates, w.s.token \in Tokens,
         NEW j, j \notin DOMAIN w.q.armed, j # w.q.next, Done(Arm(w, name), j)
  PROVE  TimersGoOn
<1> DEFINE n == Arm(w, name)
           m == Popped(n, j)
<1>1. /\ Whole(n) /\ Belong(n)
      /\ DOMAIN n.q.armed \subseteq DOMAIN w.q.armed \cup {w.q.next}
      /\ OnlyFishing(w.q) => OnlyFishing(n.q)
      /\ Roomy /\ OnlyFishing(w.q) => Live(n) # {}
  BY ArmBelongs
<1>2. Commit(m)
  BY DEF Done, Popped
<1> HIDE DEF n
<1>3. j \notin DOMAIN n.q.armed
  BY <1>1
<1>4. /\ Whole(m) /\ Belong(m) /\ m.s = n.s /\ Live(m) = Live(n)
      /\ OnlyFishing(n.q) => OnlyFishing(m.q)
  BY <1>1, <1>3, PopBelongs
<1> HIDE DEF m
<1>5. OnlyFishing(q) => OnlyFishing(w.q)
  BY QuieterFresh
<1>6. TimersInv' /\ (OnlyFishing(m.q) /\ Manned(m) => MannedInv')
  BY <1>2, <1>4, CommitBelongs
<1> QED BY <1>1, <1>4, <1>5, <1>6 DEF TimersGoOn, MannedInv, Manned

\* The session may change as long as its timers do not.
LEMMA SessionBelongs ==
  ASSUME NEW w, Whole(w), Fresh(w.q), Belong(w), NEW n, Passed(n),
         n.q = w.q, n.calls = w.calls, IsSession(n.s),
         InAttempt(n.s) => n.s.token \in Tokens
  PROVE  /\ Live(w) = {} => Rest(n)
         /\ (w.s # None => n.s.state = w.s.state /\ n.s.token = w.s.token /\ n.s.tasks = w.s.tasks)
              => Whole(n) /\ Fresh(n.q) /\ Belong(n)
<1>1. Whole(n) /\ Fresh(n.q) /\ Live(n) = Live(w)
  BY DEF Whole, Live
<1>2. n.s # None
  BY SessionShaped
<1> QED BY <1>1, <1>2 DEF Rest, Belong

-----------------------------------------------------------------------------
(* Timers: commands *)

LEMMA NewSessionTyped == IsSession(NewSession)
<1>1. NewSession.tasks \in [{} -> Nat \cup {None}]
  BY DEF NewSession
<1> QED BY <1>1 DEF NewSession, IsSession, States

LEMMA BaitTimers ==
  ASSUME TimersInv, NEW b \in Baits, Bait(b)
  PROVE  TimersGoOn
<1> DEFINE s == IF session = None THEN NewSession ELSE session
           t == [s EXCEPT !.bait = b]
           v == [Now EXCEPT !.s = t]
           c == Clear(v, Callbacks)
           n == Enter(c, "baited")
<1>1. Whole(Now) /\ Fresh(Now.q) /\ Belong(Now) /\ Quieter(Now.q, q)
  BY NowWhole
<1>2. Commit(n)
  BY DEF Bait
<1>3. IsSession(s) /\ (session # None => s = session)
  BY <1>1, NewSessionTyped, NowFields DEF Whole
<1>4. InAttempt(s) => session # None /\ s.token \in Tokens
  BY <1>1, NowFields DEF Whole, InAttempt, NewSession, Attempt
<1> HIDE DEF s
<1>5. /\ IsSession(t) /\ t.state = s.state /\ t.token = s.token /\ t.tasks = s.tasks
      /\ InAttempt(t) => t.token \in Tokens
  <2>1. Shaped(s) /\ s # None
    BY <1>3, SessionShaped
  <2>2. /\ t.state = s.state /\ t.token = s.token /\ t.tasks = s.tasks /\ t.room = s.room /\ t.bait = b
        /\ Shaped(t)
    BY <2>1 DEF Shaped
  <2> HIDE DEF t
  <2>3. s.token \in Tokens \cup {None} /\ s.room \in Rooms \cup {None}
    BY <1>3 DEF IsSession
  <2>4. IsSession(t)
    BY <1>3, <2>2, <2>3, SessionFields
  <2> QED BY <1>4, <2>1, <2>2, <2>4 DEF InAttempt
<1> HIDE DEF t
<1>6. Passed(v) /\ v.q = Now.q /\ v.calls = Now.calls /\ v.s = t
  BY <1>1 DEF Whole, Passed
<1> HIDE DEF v
<1>7. Whole(v) /\ Fresh(v.q) /\ Belong(v)
  BY <1>1, <1>3, <1>5, <1>6, NowFields, SessionBelongs
<1>8. v.s # None
  BY <1>5, <1>6, SessionShaped
<1>9. Rest(c) /\ Quieter(c.q, v.q) /\ c.s # None
  BY <1>7, <1>8, ClearAllRest
<1> HIDE DEF c
<1>10. Rest(n) /\ n.q = c.q /\ n.s # None /\ n.s.state = "baited"
  BY <1>9, EnterRest DEF States, Attempt
<1> HIDE DEF n
<1>11. ~InAttempt(n.s) /\ Quieter(n.q, q)
  BY <1>6, <1>9, <1>10, NowFields DEF InAttempt, Attempt
<1> QED BY <1>2, <1>10, <1>11, CommitRest

LEMMA CastTimers ==
  ASSUME TimersInv, NEW token \in Tokens, Cast(token)
  PROVE  TimersGoOn
<1> DEFINE t == [session EXCEPT !.state = "cast", !.token = token, !.room = location]
           v == [Now EXCEPT !.s = t]
<1>1. session # None /\ ~InAttempt(session) /\ location \in Rooms
  BY FishingAssumption DEF Cast, MayCast, InAttempt
<1>2. Rest(Now) /\ Whole(Now) /\ Quieter(Now.q, q)
  BY <1>1, IdleRest, NowWhole
<1>3. IsSession(session) /\ Shaped(session)
  BY <1>1, <1>2, NowFields, SessionShaped DEF Whole
<1>4. t = [state |-> "cast", bait |-> session.bait, token |-> token, room |-> location, tasks |-> session.tasks]
  BY <1>3, CastSession
<1>5. Commit(Arm(v, "bite"))
  BY DEF Cast, Now
<1>6. v = [q |-> q, calls |-> calls, s |-> t, pole |-> pole]
  BY DEF Now
<1> HIDE DEF v, t
<1>7. v.q = q /\ v.calls = calls /\ v.s = t /\ Passed(v)
  BY <1>2, <1>6, NowFields DEF Passed, Whole
<1>8. IsSession(t) /\ t.state = "cast" /\ t.token = token
  <2>1. session.bait \in Baits \cup {None}
    BY <1>3 DEF IsSession
  <2>2. Shaped(t)
    BY <1>4 DEF Shaped, States
  <2> QED BY <1>1, <1>3, <1>4, <2>1, <2>2, SessionFields
<1>9. Rest(v)
  <2>1. Whole(Now) /\ Fresh(Now.q) /\ Belong(Now) /\ Live(Now) = {}
    BY <1>2, RestBelongs DEF Rest
  <2> QED BY <1>7, <1>8, <2>1, NowFields, SessionBelongs
<1>10. v.s # None /\ <<"bite", v.s.state>> \in TimerStates /\ v.s.token \in Tokens
  BY <1>7, <1>8, SessionShaped DEF TimerStates
<1> QED BY <1>2, <1>5, <1>7, <1>9, <1>10, NowFields, CommitArm

LEMMA CastWithoutBaitTimers ==
  ASSUME TimersInv, CastWithoutBait
  PROVE  TimersGoOn
<1> DEFINE t == [session EXCEPT !.state = "idle", !.bait = None]
           v == [Now EXCEPT !.s = t]
<1>1. session # None /\ ~InAttempt(session)
  BY DEF CastWithoutBait, MayCast, InAttempt
<1>2. Rest(Now) /\ Whole(Now) /\ Quieter(Now.q, q)
  BY <1>1, IdleRest, NowWhole
<1>3. IsSession(session) /\ Shaped(session)
  BY <1>1, <1>2, NowFields, SessionShaped DEF Whole
<1>4. t = [state |-> "idle", bait |-> None, token |-> session.token, room |-> session.room, tasks |-> session.tasks]
  BY <1>3, BaitlessSession
<1>5. Commit(v)
  BY DEF CastWithoutBait, Now
<1>6. v = [q |-> q, calls |-> calls, s |-> t, pole |-> pole]
  BY DEF Now
<1> HIDE DEF v, t
<1>7. v.q = q /\ v.calls = calls /\ v.s = t /\ Passed(v)
  BY <1>2, <1>6, NowFields DEF Passed, Whole
<1>8. IsSession(t) /\ t.state = "idle"
  <2>1. session.token \in Tokens \cup {None} /\ session.room \in Rooms \cup {None}
    BY <1>3 DEF IsSession
  <2>2. Shaped(t)
    BY <1>4 DEF Shaped, States
  <2> QED BY <1>3, <1>4, <2>1, <2>2, SessionFields
<1>9. ~InAttempt(t)
  BY <1>8 DEF InAttempt, Attempt
<1>10. Rest(v)
  <2>1. Whole(Now) /\ Fresh(Now.q) /\ Belong(Now) /\ Live(Now) = {}
    BY <1>2, RestBelongs DEF Rest
  <2> QED BY <1>7, <1>8, <1>9, <2>1, NowFields, SessionBelongs
<1> QED BY <1>2, <1>5, <1>7, <1>9, <1>10, NowFields, CommitRest

\* Hooking exchanges the nibble window for the first struggle round.
LEMMA HookTimers ==
  ASSUME TimersInv, Hook
  PROVE  TimersGoOn
<1> DEFINE e == Enter(Now, "hooked")
           c == Clear(e, {"nibble_timeout"})
<1>1. session # None /\ session.state = "nibble" /\ Commit(Arm(c, "struggle"))
  BY DEF Hook, Pulling
<1>2. Whole(Now) /\ Fresh(Now.q) /\ Belong(Now) /\ Quieter(Now.q, q)
  BY NowWhole
<1>3. session.token \in Tokens
  BY <1>1, <1>2, NowFields DEF Whole, InAttempt, Attempt
<1>4. /\ Whole(e) /\ e.q = q /\ e.calls = calls /\ e.s # None
      /\ e.s.state = "hooked" /\ e.s.token = session.token /\ e.s.tasks = session.tasks
  BY <1>1, <1>2, <1>3, NowFields, EnterWhole DEF States
<1> HIDE DEF e
<1>5. \A j \in Live(e) : e.s # None /\ \E cb \in {"nibble_timeout"} : Maps(e.s.tasks, cb, j)
  <2> SUFFICES ASSUME NEW j \in Live(e) PROVE Maps(session.tasks, "nibble_timeout", j)
    BY <1>4
  <2>1. j \in Live(Now)
    BY <1>4, NowFields DEF Live
  <2>2. <<q.active[j].key, session.state>> \in TimerStates /\ Maps(session.tasks, q.active[j].key, j)
    BY <1>2, <2>1, NowFields DEF Belong
  <2>3. q.active[j].key = "nibble_timeout"
    BY <1>1, <2>2 DEF TimerStates
  <2> QED BY <2>2, <2>3
<1>6. Rest(c) /\ Quieter(c.q, e.q) /\ c.s # None /\ Kept(c, e)
  BY <1>2, <1>4, <1>5, NowFields, ClearRest
<1> HIDE DEF c
<1>7. Quieter(c.q, q) /\ <<"struggle", c.s.state>> \in TimerStates /\ c.s.token \in Tokens
  BY <1>3, <1>4, <1>6 DEF Kept, TimerStates
<1> QED BY <1>1, <1>6, <1>7, CommitArm

LEMMA PullTimers ==
  ASSUME TimersInv, PullTooEarly \/ MissHook \/ PullJunk \/ PullEvent
  PROVE  TimersGoOn
<1>1. session # None
  BY DEF PullTooEarly, MissHook, PullJunk, PullEvent, Pulling
<1>2. Whole(Now) /\ Fresh(Now.q) /\ Belong(Now) /\ Quieter(Now.q, q)
  BY NowWhole
<1>3. CASE PullTooEarly
  <2> DEFINE n == MarkTangled(Now)
  <2>1. Rest(n) /\ Quieter(n.q, Now.q) /\ n.s # None /\ n.s.state = "tangled"
    BY <1>1, <1>2, NowFields, TangledRest
  <2>2. Commit(n)
    BY <1>3 DEF PullTooEarly
  <2> HIDE DEF n
  <2> QED BY <2>1, <2>2, NowFields, CommitRest DEF InAttempt, Attempt
<1>4. CASE MissHook \/ PullJunk
  <2> DEFINE n == Reset(Now)
  <2>1. Rest(n) /\ Quieter(n.q, Now.q) /\ n.s = None
    BY <1>2, ResetRest
  <2>2. Commit(n)
    BY <1>4 DEF MissHook, PullJunk
  <2> HIDE DEF n
  <2> QED BY <2>1, <2>2, NowFields, CommitRest DEF InAttempt
<1>5. CASE PullEvent
  <2> DEFINE p == MarkBroken(Now).pole
             v == [Now EXCEPT !.pole = p]
             n == Reset(v)
  <2>1. PoleTyped(p)
    <3>1. Passed(Now) /\ Shaped(Now.s)
      BY <1>1, <1>2, NowFields, SessionShaped DEF Whole
    <3> QED BY <3>1, BrokenFields DEF Passed
  <2>2. Commit(n)
    BY <1>5 DEF PullEvent
  <2>3. v = [q |-> q, calls |-> calls, s |-> session, pole |-> p]
    BY DEF Now
  <2> HIDE DEF p, v
  <2>4. Passed(v) /\ v.q = Now.q /\ v.calls = Now.calls /\ v.s = Now.s
    BY <2>1, <2>3, NowFields DEF Passed
  <2>5. IsSession(v.s) /\ (InAttempt(v.s) => v.s.token \in Tokens)
    BY <1>1, <1>2, <2>4, NowFields DEF Whole
  <2>6. Whole(v) /\ Fresh(v.q) /\ Belong(v)
    BY <1>2, <2>4, <2>5, SessionBelongs
  <2>7. Rest(n) /\ Quieter(n.q, v.q) /\ n.s = None
    BY <2>6, ResetRest
  <2> HIDE DEF n
  <2> QED BY <2>2, <2>4, <2>7, NowFields, CommitRest DEF InAttempt
<1> QED BY <1>3, <1>4, <1>5

LEMMA RepairTimers ==
  ASSUME SessionInv, TimersInv, RigFails \/ Rig \/ Untangle
  PROVE  TimersGoOn
<1>1. PoleTyped(pole)
  BY DEF SessionInv, Steady
<1>2. Whole(Now) /\ Belong(Now) /\ Quieter(Now.q, q) /\ (~InAttempt(session) => Rest(Now))
  BY IdleRest, NowWhole
<1>3. Fallback(session) \in States /\ Fallback(session) \notin Attempt
  BY DEF Fallback, States, Attempt
<1>4. ASSUME NEW p, PoleTyped(p), NEW v, v = [q |-> q, calls |-> calls, s |-> session, pole |-> p],
             NEW state \in {"broken", "tangled"},
             NEW n, n = IF Pulling(state) THEN Enter(v, Fallback(session)) ELSE v,
             Commit(n)
      PROVE  TimersGoOn
  <2>1. Passed(v) /\ v.q = Now.q /\ v.calls = Now.calls /\ v.s = Now.s /\ v.s = session
    BY <1>4, NowFields DEF Passed
  <2>2. ~InAttempt(session) => Rest(v)
    BY <1>2, <2>1, PoleRest
  <2>3. Quieter(v.q, q)
    BY <1>2, <2>1
  <2>4. CASE Pulling(state)
    <3> DEFINE e == Enter(v, Fallback(session))
    <3>1. v.s # None
      BY <2>1, <2>4 DEF Pulling
    <3>2. Rest(e) /\ e.q = v.q /\ e.s # None /\ e.s.state = Fallback(session)
      BY <1>3, <2>2, <2>4, <3>1, EnterRest DEF Pulling, InAttempt, Attempt
    <3>3. Commit(e)
      BY <1>4, <2>4
    <3> HIDE DEF e
    <3>4. ~InAttempt(e.s)
      BY <1>3, <3>2 DEF InAttempt
    <3> QED BY <2>3, <3>2, <3>3, <3>4, CommitRest
  <2>5. CASE ~Pulling(state)
    <3>1. Commit(v)
      BY <1>4, <2>5
    <3>2. Live(v) = Live(Now)
      BY <2>1 DEF Live
    <3>3. Whole(v) /\ Belong(v) /\ (Manned(Now) => Manned(v))
      BY <1>2, <2>1, <3>2 DEF Whole, Belong, Manned
    <3>4. TimersInv' /\ (OnlyFishing(v.q) /\ Manned(v) => MannedInv')
      BY <3>1, <3>3, CommitBelongs
    <3> QED BY <2>1, <3>3, <3>4, NowFields DEF TimersGoOn, MannedInv
  <2> QED BY <2>4, <2>5
<1>5. CASE RigFails
  <2>1. PoleTyped(pole')
    BY <1>1, <1>5 DEF RigFails, PoleTyped
  <2> QED BY <1>5, <2>1, SameTimers DEF RigFails
<1>6. CASE Rig
  <2> DEFINE p == [pole EXCEPT !.rigged = TRUE]
             v == [Now EXCEPT !.pole.rigged = TRUE]
             n == IF Pulling("broken") THEN Enter(v, Fallback(session)) ELSE v
  <2>1. PoleTyped(p)
    BY <1>1 DEF PoleTyped
  <2>2. v = [q |-> q, calls |-> calls, s |-> session, pole |-> p]
    <3>1. v = [Now EXCEPT !.pole = p]
      BY NowFields, Zenon
    <3> HIDE DEF p, v
    <3> QED BY <3>1 DEF Now
  <2>3. Commit(n)
    BY <1>6 DEF Rig
  <2> HIDE DEF p, v
  <2> QED BY <1>4, <2>1, <2>2, <2>3
<1>7. CASE Untangle
  <2> DEFINE p == [pole EXCEPT !.tangled = FALSE]
             v == [Now EXCEPT !.pole.tangled = FALSE]
             n == IF Pulling("tangled") THEN Enter(v, Fallback(session)) ELSE v
  <2>1. PoleTyped(p)
    BY <1>1 DEF PoleTyped
  <2>2. v = [q |-> q, calls |-> calls, s |-> session, pole |-> p]
    <3>1. v = [Now EXCEPT !.pole = p]
      BY NowFields, Zenon
    <3> HIDE DEF p, v
    <3> QED BY <3>1 DEF Now
  <2>3. Commit(n)
    BY <1>7 DEF Untangle
  <2> HIDE DEF p, v
  <2> QED BY <1>4, <2>1, <2>2, <2>3
<1> QED BY <1>5, <1>6, <1>7

-----------------------------------------------------------------------------
(* Timers: callbacks *)

\* The job that fires is the session's only timer, so nothing runs beside it and
\* the session expects it.
LEMMA FiredRest ==
  ASSUME TimersInv, NEW j, NEW name, Fires(j, name), NEW f, f = Fired(j)
  PROVE  /\ Rest(f) /\ Quieter(f.q, q) /\ f.s = session /\ session # None
         /\ session.token = calls[j] /\ session.token \in Tokens
         /\ <<name, session.state>> \in TimerStates
         /\ j \notin DOMAIN f.q.armed /\ j # f.q.next
<1>1. Whole(Now) /\ Fresh(Now.q) /\ Belong(Now) /\ Live(Now) = DOMAIN calls
  BY NowWhole
<1>2. j \in DOMAIN calls /\ j \in DOMAIN q.active /\ q.active[j].key = name
  BY DEF Fires
<1>3. ASSUME NEW i \in DOMAIN calls
      PROVE  /\ session # None /\ session.token = calls[i]
             /\ <<q.active[i].key, session.state>> \in TimerStates
             /\ Maps(session.tasks, q.active[i].key, i)
  BY <1>1, NowFields DEF Belong
<1>4. session # None /\ session.token = calls[j] /\ <<name, session.state>> \in TimerStates
  BY <1>2, <1>3
<1>5. ASSUME NEW i \in DOMAIN calls PROVE i = j
  <2>1. q.active[i].key = q.active[j].key
    BY <1>2, <1>3 DEF TimerStates
  <2> QED BY <1>2, <1>3, <2>1 DEF Maps
<1>6. calls[j] \in Tokens
  BY <1>1, <1>2, NowFields DEF Whole
<1> DEFINE p == CancelTask(q, j)
<1>7. Quieter(p, q) /\ DOMAIN p.armed = DOMAIN q.armed \ {j}
  BY <1>1, NowFields, CancelTaskQuieter DEF Whole
<1>8. f = [q |-> p, calls |-> calls, s |-> session, pole |-> pole]
  BY DEF Fired, Now
<1> HIDE DEF p
<1>9. f.q = p /\ f.calls = calls /\ f.s = session /\ f.pole = pole /\ Passed(f)
  BY <1>1, <1>8, NowFields DEF Passed, Whole
<1>10. Whole(f)
  BY <1>1, <1>7, <1>9, NowFields DEF Whole, Quieter
<1>11. Live(f) = {}
  BY <1>5, <1>7, <1>9 DEF Live
<1>12. Fresh(f.q) /\ j # f.q.next
  BY <1>1, <1>2, <1>7, <1>9, NowFields DEF Quieter, Fresh
<1> QED BY <1>4, <1>6, <1>7, <1>9, <1>10, <1>11, <1>12 DEF Rest

LEMMA QuieterTrans ==
  ASSUME NEW n, NEW m, NEW p, Quieter(n, m), Quieter(m, p)
  PROVE  Quieter(n, p)
BY DEF Quieter

\* What a callback does once its own task is cleared.
LEMMA FiredClear ==
  ASSUME TimersInv, NEW j, NEW name, Fires(j, name), NEW c, c = Clear(Fired(j), {name})
  PROVE  /\ Rest(c) /\ Quieter(c.q, q) /\ c.s # None
         /\ c.s.token \in Tokens /\ c.s.state = session.state /\ c.s.room = session.room
         /\ j \notin DOMAIN c.q.armed /\ j # c.q.next
<1> DEFINE f == Fired(j)
<1>1. /\ Rest(f) /\ Quieter(f.q, q) /\ f.s = session /\ session # None
      /\ session.token = calls[j] /\ session.token \in Tokens
      /\ <<name, session.state>> \in TimerStates
      /\ j \notin DOMAIN f.q.armed /\ j # f.q.next
  BY FiredRest
<1> HIDE DEF f
<1>2. Whole(f) /\ Fresh(f.q) /\ Live(f) = {}
  BY <1>1 DEF Rest
<1>3. Rest(c) /\ Quieter(c.q, f.q) /\ c.s # None /\ Kept(c, f)
  <2>1. c = Clear(f, {name})
    BY DEF f
  <2>2. \A i \in Live(f) : f.s # None /\ \E cb \in {name} : Maps(f.s.tasks, cb, i)
    BY <1>2
  <2> QED BY <1>1, <1>2, <2>1, <2>2, ClearRest
<1>4. Quieter(c.q, q)
  BY <1>1, <1>3, QuieterTrans
<1> QED BY <1>1, <1>3, <1>4 DEF Kept, Quieter

\* Every end of a callback but a new timer leaves the attempt.
LEMMA DoneReset ==
  ASSUME NEW w, Rest(w), Quieter(w.q, q), NEW j, j \notin DOMAIN w.q.armed, Done(Reset(w), j)
  PROVE  TimersGoOn
<1> DEFINE n == Reset(w)
<1>1. Rest(n) /\ Quieter(n.q, w.q) /\ n.s = None
  BY RestBelongs, ResetRest DEF Rest
<1>2. Done(n, j)
  OBVIOUS
<1> HIDE DEF n
<1>3. Quieter(n.q, q) /\ j \notin DOMAIN n.q.armed /\ ~InAttempt(n.s)
  BY <1>1, QuieterTrans DEF Quieter, InAttempt
<1> QED BY <1>1, <1>2, <1>3, DoneRest

LEMMA DoneTangled ==
  ASSUME NEW w, Rest(w), w.s # None, Quieter(w.q, q), NEW j, j \notin DOMAIN w.q.armed,
         Done(MarkTangled(w), j)
  PROVE  TimersGoOn
<1> DEFINE n == MarkTangled(w)
<1>1. Rest(n) /\ Quieter(n.q, w.q) /\ n.s # None /\ n.s.state = "tangled"
  BY RestBelongs, TangledRest DEF Rest
<1>2. Done(n, j)
  OBVIOUS
<1> HIDE DEF n
<1>3. Quieter(n.q, q) /\ j \notin DOMAIN n.q.armed /\ ~InAttempt(n.s)
  BY <1>1, QuieterTrans DEF Quieter, InAttempt, Attempt
<1> QED BY <1>1, <1>2, <1>3, DoneRest

LEMMA DoneBroken ==
  ASSUME NEW w, Rest(w), w.s # None, Quieter(w.q, q), NEW j, j \notin DOMAIN w.q.armed,
         Done(MarkBroken(w), j)
  PROVE  TimersGoOn
<1> DEFINE n == MarkBroken(w)
<1>1. Rest(n) /\ Quieter(n.q, w.q) /\ n.s # None /\ n.s.state = "broken"
  BY RestBelongs, BrokenRest DEF Rest
<1>2. Done(n, j)
  OBVIOUS
<1> HIDE DEF n
<1>3. Quieter(n.q, q) /\ j \notin DOMAIN n.q.armed /\ ~InAttempt(n.s)
  BY <1>1, QuieterTrans DEF Quieter, InAttempt, Attempt
<1> QED BY <1>1, <1>2, <1>3, DoneRest

LEMMA NibbleTimers ==
  ASSUME TimersInv, NEW j, BeginNibble(j)
  PROVE  TimersGoOn
<1> DEFINE f == Fired(j)
           c == Clear(f, {"bite"})
<1>1. Fires(j, "bite")
  BY DEF BeginNibble
<1>2. session # None /\ session.token = calls[j] /\ <<"bite", session.state>> \in TimerStates
  BY <1>1, FiredRest
<1>3. Expected("cast", j)
  BY <1>2 DEF Expected, TimerStates
<1>4. PICK w \in NibbleOutcomes(c) : Done(w, j)
  BY <1>3 DEF BeginNibble
<1>5. /\ Rest(c) /\ Quieter(c.q, q) /\ c.s # None
      /\ c.s.token \in Tokens /\ c.s.state = session.state /\ c.s.room = session.room
      /\ j \notin DOMAIN c.q.armed /\ j # c.q.next
  BY <1>1, FiredClear
<1> HIDE DEF c
<1>6. \/ w = Reset(c)
      \/ w = Arm(Enter(c, "nibble"), "nibble_timeout")
      \/ \E state \in {"junk", "event"} : w = Enter(c, state)
  BY <1>4 DEF NibbleOutcomes
<1>7. CASE w = Reset(c)
  BY <1>4, <1>5, <1>7, DoneReset
<1>8. CASE w = Arm(Enter(c, "nibble"), "nibble_timeout")
  <2> DEFINE e == Enter(c, "nibble")
  <2>1. Rest(e) /\ e.q = c.q /\ e.s # None /\ e.s.state = "nibble" /\ e.s.token = c.s.token
    BY <1>5, EnterRest DEF States
  <2>2. Done(Arm(e, "nibble_timeout"), j)
    BY <1>4, <1>8
  <2> HIDE DEF e
  <2>3. <<"nibble_timeout", e.s.state>> \in TimerStates
    BY <2>1 DEF TimerStates
  <2> QED BY <1>5, <2>1, <2>2, <2>3, DoneArm
<1>9. ASSUME NEW state \in {"junk", "event"}, w = Enter(c, state)
      PROVE  TimersGoOn
  <2>1. state \in States /\ state \notin Attempt
    BY DEF States, Attempt
  <2>2. Rest(w) /\ w.q = c.q /\ w.s # None /\ w.s.state = state
    BY <1>5, <1>9, <2>1, EnterRest
  <2>3. ~InAttempt(w.s)
    BY <2>1, <2>2 DEF InAttempt
  <2> QED BY <1>4, <1>5, <2>2, <2>3, DoneRest
<1> QED BY <1>6, <1>7, <1>8, <1>9

LEMMA ExpireTimers ==
  ASSUME TimersInv, NEW j, ExpireNibble(j)
  PROVE  TimersGoOn
<1> DEFINE f == Fired(j)
<1>1. Fires(j, "nibble_timeout")
  BY DEF ExpireNibble
<1>2. /\ Rest(f) /\ Quieter(f.q, q) /\ f.s = session /\ session # None
      /\ session.token = calls[j] /\ session.token \in Tokens
      /\ <<"nibble_timeout", session.state>> \in TimerStates
      /\ j \notin DOMAIN f.q.armed /\ j # f.q.next
  BY <1>1, FiredRest
<1>3. Expected("nibble", j)
  BY <1>2 DEF Expected, TimerStates
<1>4. PICK w \in {MarkTangled(f), Reset(f)} : Done(w, j)
  BY <1>3 DEF ExpireNibble
<1> HIDE DEF f
<1>5. CASE w = MarkTangled(f)
  BY <1>2, <1>4, <1>5, DoneTangled
<1>6. CASE w = Reset(f)
  BY <1>2, <1>4, <1>6, DoneReset
<1> QED BY <1>4, <1>5, <1>6

LEMMA StruggleTimers ==
  ASSUME TimersInv, NEW j, Struggle(j)
  PROVE  TimersGoOn
<1> DEFINE f == Fired(j)
           c == Clear(f, {"struggle"})
<1>1. Fires(j, "struggle")
  BY DEF Struggle
<1>2. session # None /\ session.token = calls[j] /\ <<"struggle", session.state>> \in TimerStates
  BY <1>1, FiredRest
<1>3. Expected("hooked", j)
  BY <1>2 DEF Expected, TimerStates
<1>4. PICK w \in StruggleOutcomes(c) : Done(w, j)
  BY <1>3 DEF Struggle
<1>5. /\ Rest(c) /\ Quieter(c.q, q) /\ c.s # None
      /\ c.s.token \in Tokens /\ c.s.state = session.state /\ c.s.room = session.room
      /\ j \notin DOMAIN c.q.armed /\ j # c.q.next
  BY <1>1, FiredClear
<1> HIDE DEF c
<1>6. w = Reset(c) \/ w = MarkBroken(c) \/ w = Arm(c, "struggle")
  BY <1>4 DEF StruggleOutcomes
<1>7. CASE w = Reset(c)
  BY <1>4, <1>5, <1>7, DoneReset
<1>8. CASE w = MarkBroken(c)
  BY <1>4, <1>5, <1>8, DoneBroken
<1>9. CASE w = Arm(c, "struggle")
  <2>1. <<"struggle", c.s.state>> \in TimerStates
    BY <1>2, <1>5
  <2> QED BY <1>4, <1>5, <1>9, <2>1, DoneArm
<1> QED BY <1>6, <1>7, <1>8, <1>9

-----------------------------------------------------------------------------
(* Timers: the rest of the actor *)

LEMMA MoveTimers ==
  ASSUME TimersInv, (\E r \in Rooms : Move(r)) \/ Unpuppet
  PROVE  TimersGoOn
<1>1. Whole(Now) /\ Fresh(Now.q) /\ Belong(Now) /\ Quieter(Now.q, q)
  BY NowWhole
<1>2. Commit(Reset(Now)) \/ Commit(Now)
  BY DEF Move, Unpuppet
<1>3. CASE Commit(Reset(Now))
  <2> DEFINE n == Reset(Now)
  <2>1. Rest(n) /\ Quieter(n.q, Now.q) /\ n.s = None
    BY <1>1, ResetRest
  <2>2. Commit(n)
    BY <1>3
  <2> HIDE DEF n
  <2> QED BY <2>1, <2>2, NowFields, CommitRest DEF InAttempt
<1>4. CASE Commit(Now)
  <2>1. TimersInv' /\ (OnlyFishing(Now.q) /\ Manned(Now) => MannedInv')
    BY <1>1, <1>4, CommitBelongs
  <2> QED BY <2>1, NowFields DEF TimersGoOn, MannedInv
<1> QED BY <1>2, <1>3, <1>4

LEMMA RestartTimers ==
  ASSUME TimersInv, Restart
  PROVE  TimersGoOn
<1> DEFINE W == [q |-> q', calls |-> calls', s |-> session', pole |-> pole']
<1>1. q' = EmptyQueue /\ calls' = <<>> /\ session' = None /\ pole' = pole
  BY DEF Restart
<1>2. Now' = W
  BY DEF Now
<1>3. PoleTyped(pole)
  BY NowWhole, NowFields DEF Whole, Passed
<1>4. W.q = q' /\ W.calls = calls' /\ W.s = session' /\ W.pole = pole' /\ Passed(W)
  BY <1>1, <1>3 DEF Passed
<1> HIDE DEF W
<1>5. /\ IsRegistry(q') /\ DOMAIN q'.active = {} /\ DOMAIN q'.keyJob = {} /\ DOMAIN q'.armed = {}
      /\ DOMAIN q'.delayed = {} /\ DOMAIN q'.delayedKey = {} /\ q'.next \in Nat
  BY <1>1 DEF EmptyQueue, IsRegistry
<1>6. Bare(q') /\ Fresh(q') /\ OnlyFishing(q')
  BY <1>5 DEF Bare, Fresh, KeysIndexed, OnlyFishing
<1>7. DOMAIN calls' = {}
  BY <1>1
<1>8. Whole(W) /\ Belong(W) /\ Manned(W)
  BY <1>1, <1>4, <1>6, <1>7 DEF Whole, Belong, Live, Manned, InAttempt
<1> QED BY <1>2, <1>6, <1>7, <1>8 DEF TimersGoOn, TimersInv, MannedInv

Requeued(p) == [Now EXCEPT !.q = p]

\* A registry that leaves the callbacks alone leaves the session's timers alone.
LEMMA OthersBelong ==
  ASSUME TimersInv, NEW p, Bare(p), NEW n, n = Requeued(p),
         \A j \in DOMAIN p.armed \cap DOMAIN calls : p.active[j] = q.active[j]
  PROVE  Whole(n) /\ Belong(n) /\ n.q = p /\ n.s = session /\ Live(n) = DOMAIN p.armed \cap DOMAIN calls
<1>1. Whole(Now) /\ Belong(Now) /\ Live(Now) = DOMAIN calls
  BY NowWhole
<1>2. n.q = p /\ n.calls = calls /\ n.s = session /\ Passed(n)
  BY <1>1 DEF Requeued, Now, Passed, Whole
<1>3. Whole(n) /\ Live(n) = DOMAIN p.armed \cap DOMAIN calls
  BY <1>1, <1>2, NowFields DEF Whole, Live
<1>4. Belong(n)
  BY <1>1, <1>2, <1>3, NowFields DEF Belong
<1> QED BY <1>2, <1>3, <1>4

LEMMA OtherJobTimers ==
  ASSUME TimersInv, NEW k \in OtherKeys, OtherJob(k)
  PROVE  TimersGoOn
<1> DEFINE p == Schedule(q, Job(k, None))
           n == Requeued(p)
<1>1. ~calm /\ Commit(n)
  BY NowFields DEF OtherJob, Requeued
<1>2. Whole(Now) /\ Belong(Now) /\ Live(Now) = DOMAIN calls
  BY NowWhole
<1>3. Bare(q) /\ Fresh(q) /\ k \in Keys /\ k \notin Callbacks
  BY <1>2, NowFields, FishingAssumption DEF TimersInv, Whole
<1>4. /\ Bare(p)
      /\ DOMAIN p.active \subseteq Others(q, k) \cup {q.next}
      /\ \A j \in Others(q, k) : j \in DOMAIN p.active /\ p.active[j] = q.active[j]
      /\ q.next \in DOMAIN p.active => p.active[q.next].key = k /\ q.next \in DOMAIN p.armed
      /\ DOMAIN p.armed \subseteq DOMAIN q.armed \cup {q.next}
      /\ HasRoom(Others(q, k)) => q.next \in DOMAIN p.active
  BY <1>3, ScheduleBare
<1> HIDE DEF p
<1>5. ASSUME NEW j \in DOMAIN p.armed \cap DOMAIN calls
      PROVE  p.active[j] = q.active[j]
  <2>1. j \in DOMAIN q.active
    BY <1>3 DEF TimersInv, Bare
  <2>2. q.active[j].key \in Callbacks
    BY <1>2, NowFields, TimerStateKey DEF Belong
  <2>3. j \in Others(q, k)
    BY <1>3, <2>1, <2>2 DEF Others
  <2> QED BY <1>4, <2>3
<1>6. \A j \in DOMAIN p.armed \cap DOMAIN calls : p.active[j] = q.active[j]
  BY <1>5
<1>7. Whole(n) /\ Belong(n) /\ n.q = p /\ n.s = session /\ Live(n) = DOMAIN p.armed \cap DOMAIN calls
  BY <1>4, <1>6, OthersBelong
<1> HIDE DEF n
<1> QED BY <1>1, <1>7, CommitBelongs DEF TimersGoOn

LEMMA OtherRunsTimers ==
  ASSUME TimersInv, NEW j \in DOMAIN q.armed, OtherRuns(j)
  PROVE  TimersGoOn
<1> DEFINE m == CancelTask(q, j)
           p == PopJob(m, j)
           n == Requeued(p)
<1>1. j \notin DOMAIN calls /\ Commit(n)
  BY NowFields DEF OtherRuns, Requeued
<1>2. Bare(q)
  BY NowWhole, NowFields DEF Whole
<1>3. Quieter(m, q) /\ DOMAIN m.armed = DOMAIN q.armed \ {j}
  BY <1>2, CancelTaskQuieter
<1> HIDE DEF m
<1>4. Bare(m) /\ m.active = q.active /\ j \notin DOMAIN m.armed
  BY <1>3 DEF Quieter
<1>5. /\ Bare(p) /\ p.armed = m.armed
      /\ DOMAIN p.active = DOMAIN m.active \ {j}
      /\ \A i \in DOMAIN p.active : p.active[i] = m.active[i]
  BY <1>4, PopJobBare
<1> HIDE DEF p
<1>6. \A i \in DOMAIN p.armed \cap DOMAIN calls : p.active[i] = q.active[i]
  BY <1>4, <1>5 DEF Bare
<1>7. Whole(n) /\ Belong(n) /\ n.q = p /\ n.s = session /\ Live(n) = DOMAIN p.armed \cap DOMAIN calls
  BY <1>5, <1>6, OthersBelong
<1> HIDE DEF n
<1>8. Live(n) = Live(Now)
  BY <1>1, <1>3, <1>5, <1>7, NowWhole DEF TimersInv
<1>9. OnlyFishing(q) => OnlyFishing(n.q)
  BY <1>4, <1>5, <1>7 DEF OnlyFishing
<1>10. Manned(Now) => Manned(n)
  BY <1>7, <1>8, NowFields DEF Manned
<1>11. TimersInv' /\ (OnlyFishing(n.q) /\ Manned(n) => MannedInv')
  BY <1>1, <1>7, CommitBelongs
<1> QED BY <1>9, <1>10, <1>11 DEF TimersGoOn, MannedInv

LEMMA StillTimers ==
  ASSUME TimersInv,
         (\E r \in Rooms : Puppet(r)) \/ (\E b \in Baits : HandleBait(b)) \/ HandlePole \/ PoleChangesHands
         \/ UNCHANGED vars
  PROVE  TimersGoOn
<1>1. PoleTyped(pole)
  BY NowWhole, NowFields DEF Whole, Passed
<1>2. PoleTyped(pole')
  BY <1>1 DEF Puppet, HandleBait, HandlePole, PoleChangesHands, vars, PoleTyped
<1> QED BY <1>2, SameTimers DEF Puppet, HandleBait, HandlePole, PoleChangesHands, vars

LEMMA NextTimers ==
  ASSUME SessionInv, TimersInv, [Next]_vars
  PROVE  TimersGoOn
<1>1. CASE \E b \in Baits : Bait(b)
  BY <1>1, BaitTimers
<1>2. CASE \E t \in Tokens : Cast(t)
  BY <1>2, CastTimers
<1>3. CASE CastWithoutBait \/ Hook
  BY <1>3, CastWithoutBaitTimers, HookTimers
<1>4. CASE PullTooEarly \/ MissHook \/ PullJunk \/ PullEvent
  BY <1>4, PullTimers
<1>5. CASE RigFails \/ Rig \/ Untangle
  BY <1>5, RepairTimers
<1>6. CASE Timer
  BY <1>6, NibbleTimers, ExpireTimers, StruggleTimers DEF Timer
<1>7. CASE (\E r \in Rooms : Move(r)) \/ Unpuppet
  BY <1>7, MoveTimers
<1>8. CASE Restart
  BY <1>8, RestartTimers
<1>9. CASE \E k \in OtherKeys : OtherJob(k)
  BY <1>9, OtherJobTimers
<1>10. CASE \E j \in DOMAIN q.armed : OtherRuns(j)
  BY <1>10, OtherRunsTimers
<1>11. CASE (\E r \in Rooms : Puppet(r)) \/ (\E b \in Baits : HandleBait(b)) \/ HandlePole \/ PoleChangesHands
           \/ UNCHANGED vars
  BY <1>11, StillTimers
<1> QED BY <1>1, <1>2, <1>3, <1>4, <1>5, <1>6, <1>7, <1>8, <1>9, <1>10, <1>11 DEF Next

-----------------------------------------------------------------------------

(* Theorems of the timers *)

\* What no timer depends on.
AroundInv == calm \in BOOLEAN /\ bag \subseteq Baits /\ location \in Rooms \cup {None}

LEMMA InitTimers ==
  ASSUME Init
  PROVE  TimersInv /\ MannedInv /\ AroundInv
<1>1. q = EmptyQueue /\ calls = <<>> /\ session = None /\ PoleTyped(pole)
  BY DEF Init, PoleTyped
<1>2. Passed(Now)
  BY <1>1 DEF Now, Passed
<1>3. /\ IsRegistry(q) /\ DOMAIN q.active = {} /\ DOMAIN q.keyJob = {} /\ DOMAIN q.armed = {}
      /\ DOMAIN q.delayed = {} /\ DOMAIN q.delayedKey = {} /\ q.next \in Nat
  BY <1>1 DEF EmptyQueue, IsRegistry
<1>4. Bare(q) /\ Fresh(q) /\ OnlyFishing(q)
  BY <1>3 DEF Bare, Fresh, KeysIndexed, OnlyFishing
<1>5. DOMAIN calls = {}
  BY <1>1
<1>6. Whole(Now) /\ Belong(Now) /\ Manned(Now)
  BY <1>1, <1>2, <1>4, <1>5, NowFields DEF Whole, Belong, Live, Manned, InAttempt
<1>7. AroundInv
  BY DEF Init, AroundInv
<1> QED BY <1>4, <1>5, <1>6, <1>7 DEF TimersInv, MannedInv

LEMMA NextAround ==
  ASSUME AroundInv, [Next]_vars
  PROVE  AroundInv' /\ calm' = calm
<1>1. calm' = calm
  BY DEF Next, vars, Commit, Bait, HandleBait, Cast, CastWithoutBait, PullTooEarly, Hook, MissHook,
         PullJunk, PullEvent, RigFails, Rig, Untangle, Timer, BeginNibble, ExpireNibble, Struggle, Done,
         Move, Puppet, Unpuppet, HandlePole, PoleChangesHands, Restart, OtherJob, OtherRuns
<1>2. bag' \subseteq Baits
  BY DEF AroundInv, Next, vars, Bait, HandleBait, Cast, CastWithoutBait, PullTooEarly, Hook, MissHook,
         PullJunk, PullEvent, RigFails, Rig, Untangle, Timer, BeginNibble, ExpireNibble, Struggle,
         Move, Puppet, Unpuppet, HandlePole, PoleChangesHands, Restart, OtherJob, OtherRuns
<1>3. location' \in Rooms \cup {None}
  BY DEF AroundInv, Next, vars, Bait, HandleBait, Cast, CastWithoutBait, PullTooEarly, Hook, MissHook,
         PullJunk, PullEvent, RigFails, Rig, Untangle, Timer, BeginNibble, ExpireNibble, Struggle,
         Move, Puppet, Unpuppet, HandlePole, PoleChangesHands, Restart, OtherJob, OtherRuns
<1> QED BY <1>1, <1>2, <1>3 DEF AroundInv

LEMMA TimersInvariant == Spec => [](SessionInv /\ TimersInv /\ AroundInv)
<1>1. Init => SessionInv /\ TimersInv /\ AroundInv
  BY InitSound, InitTimers
<1>2. SessionInv /\ UNCHANGED vars => SessionInv'
  BY DEF SessionInv, Steady, vars, InAttempt, Shaped, PoleTyped, LineReady
<1>3. (SessionInv /\ TimersInv /\ AroundInv) /\ [Next]_vars => (SessionInv /\ TimersInv /\ AroundInv)'
  BY <1>2, NextSound, NextTimers, NextAround DEF TimersGoOn
<1> QED BY <1>1, <1>3, PTL DEF Spec

\* Sessions, pole, bag, registry and timers keep their shape for any rooms, baits,
\* tokens, other jobs and quotas, also when schedule_event() refuses a callback.
THEOREM SessionTypeCorrect == Spec => []TypeOK
<1>1. SessionInv /\ TimersInv /\ AroundInv => TypeOK
  <2> SUFFICES ASSUME SessionInv, TimersInv, AroundInv PROVE TypeOK
    OBVIOUS
  <2>1. Whole(Now) /\ DOMAIN calls \subseteq DOMAIN q.armed
    BY DEF TimersInv
  <2>2. IsRegistry(q) /\ KeysIndexed(q) /\ (session = None \/ IsSession(session))
    BY <2>1, NowFields DEF Whole, Bare
  <2>3. \A j \in DOMAIN calls : calls[j] \in Tokens
    BY <2>1, NowFields DEF Whole
  <2>4. is_fishing \in BOOLEAN /\ untouched \in BOOLEAN /\ PoleTyped(pole)
    BY DEF SessionInv, Steady, InAttempt
  <2> QED BY <2>1, <2>2, <2>3, <2>4 DEF TypeOK, AroundInv, PoleTyped
<1> QED BY <1>1, TimersInvariant, PTL

\* No command, move, logout, restart or late callback leaves a timer of an earlier
\* attempt or of an earlier state behind: every timer that can still fire is the one
\* the session remembers and expects.
THEOREM TimersBelongCorrect == Spec => []TimersBelongToAttempt
<1>1. TimersInv => TimersBelongToAttempt
  BY NowWhole, NowFields DEF Belong, TimerStates, TimersBelongToAttempt
<1> QED BY <1>1, TimersInvariant, PTL

\* If the three callbacks fit into the quotas and nothing else is scheduled for the
\* actor, an attempt always has the timer that will end its state.
THEOREM CalmTimerCorrect ==
  ASSUME Roomy
  PROVE  Spec => []CalmAttemptHasTimer
<1>1. Init => (calm => MannedInv)
  BY InitTimers
<1>2. (SessionInv /\ TimersInv /\ AroundInv) /\ (calm => MannedInv) /\ [Next]_vars => (calm => MannedInv)'
  BY NextTimers, NextAround DEF TimersGoOn
<1>3. TimersInv /\ (calm => MannedInv) => CalmAttemptHasTimer
  <2> SUFFICES ASSUME TimersInv, MannedInv, InAttempt(session)
               PROVE  \E j \in DOMAIN calls : session.token = calls[j]
    BY DEF CalmAttemptHasTimer, AttemptHasTimer
  <2>1. DOMAIN calls # {}
    BY NowWhole, NowFields DEF MannedInv, Manned
  <2> QED BY <2>1, NowWhole, NowFields DEF Belong
<1> QED BY <1>1, <1>2, <1>3, TimersInvariant, PTL DEF Spec

=============================================================================
