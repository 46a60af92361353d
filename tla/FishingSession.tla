--------------------------- MODULE FishingSession ---------------------------
(***************************************************************************)
(* One actor's fishing attempt (world/systems/fishing.py) on top of the    *)
(* job registry of SchedulerQueue.tla.  An attempt is driven by two kinds  *)
(* of steps the reactor interleaves: commands (bait, cast, pull, rig,      *)
(* untangle, moving, logging out) and three scheduled callbacks            *)
(* (_begin_nibble, _expire_nibble_window, _resolve_struggle_round), each   *)
(* guarded by the state and the attempt token it was scheduled for.  The   *)
(* actor's other jobs (roundtime, effects) share the owner's quota.        *)
(*                                                                         *)
(* Abstracted: dice and skill become choices; fish, junk and event         *)
(* profiles, gear ratings, experience and pending_pull (which only shifts  *)
(* the odds) are left out.  The pole is an object with a state of its own, *)
(* which others change while it is out of the actor's hands, and the actor *)
(* may carry a second one; he always has a spare hook and line.  Job ids   *)
(* and attempt tokens are uuids in the code: any unused value serves, so   *)
(* the least one is taken and the state space is finite without a bound.   *)
(***************************************************************************)
EXTENDS SchedulerQueue, FiniteSetsExt

CONSTANTS
  Actor, Fishing,    \* the owner, and the system "fishing.delayed_effect"
  OtherKeys,         \* keys of the actor's other jobs
  Rooms, Fishable,   \* all rooms, and those with a fish group
  Baits, Tokens      \* bait items, attempt tokens

Callbacks == {"bite", "nibble_timeout", "struggle"}

ASSUME FishingAssumption ==
  /\ Keys = Callbacks \cup OtherKeys /\ Callbacks \cap OtherKeys = {}
  /\ IsFiniteSet(OtherKeys)
  /\ Actor \in Owners /\ Fishing \in Systems
  /\ Fishable \subseteq Rooms /\ None \notin Rooms \cup Baits \cup Tokens
  /\ OwnerBehavior = "reject" /\ SystemBehavior = "reject" /\ GlobalBehavior = "reject"

VARIABLES
  calm,        \* in a calm behaviour nothing else is scheduled for the actor
  q,           \* the job registry
  calls,       \* the token each armed fishing job was given
  session,     \* actor.ndb.fishing_session, or None
  is_fishing,  \* actor.ndb.is_fishing, which Character.move_to() looks at
  pole,        \* the pole get_fishing_pole() finds: carried? hook and line
               \* attached? tangled?  (while none is carried, the last one)
  untouched,   \* history: nobody else had the pole since the line was cast
  bag,         \* bait items the actor carries
  location     \* the actor's room, or None while nobody puppets it

vars == <<calm, q, calls, session, is_fishing, pole, untouched, bag, location>>

States == {"idle", "baited", "cast", "nibble", "hooked", "junk", "event", "tangled", "broken"}
IsSession(s) ==
  \E callbacks \in SUBSET Callbacks :          \* the keys of scheduled_callbacks
    s \in [state : States, bait : Baits \cup {None}, token : Tokens \cup {None},
          room : Rooms \cup {None}, tasks : [callbacks -> Nat \cup {None}]]

\* None is no session.
ASSUME SessionAssumption == ~IsSession(None)

NewSession == [state |-> "idle", bait |-> None, token |-> None, room |-> None, tasks |-> <<>>]

Ready == pole.rigged /\ ~pole.tangled           \* get_pole_issue() is None
Attempt == {"cast", "nibble", "hooked"}
InAttempt(s) == s # None /\ s.state \in Attempt  \* what _sync_runtime_flags() computes

Init ==
  /\ calm \in BOOLEAN
  /\ q = EmptyQueue /\ calls = <<>>
  /\ session = None /\ is_fishing = FALSE
  /\ pole \in [carried : {TRUE}, rigged : BOOLEAN, tangled : BOOLEAN]
  /\ untouched = TRUE
  /\ bag = Baits
  /\ location \in Rooms

-----------------------------------------------------------------------------
(* What the functions below pass along: registry, tokens, session and pole *)

Now == [q |-> q, calls |-> calls, s |-> session, pole |-> pole]

TaskIds(s) == IF s = None THEN {} ELSE {s.tasks[c] : c \in DOMAIN s.tasks}

\* Finished tickets are forgotten, and the next id is the least unused one.
Tidy(p, s) ==
  [p EXCEPT !.fate = <<>>,
            !.next = Min((1..(Cardinality(Keys) + Cardinality(Callbacks) + 1))
                           \ (DOMAIN p.active \cup DOMAIN p.armed \cup TaskIds(s)))]

\* _sync_runtime_flags() or reset_fishing_session() ends every function below.
Commit(new) ==
  \E w \in {new} :
    /\ q' = Tidy(w.q, w.s)
    /\ calls' = Restrict(w.calls, DOMAIN w.calls \cap DOMAIN w.q.armed)
    /\ session' = w.s /\ is_fishing' = InAttempt(w.s)
    /\ pole' = w.pole
    /\ untouched' = (untouched \/ ~InAttempt(w.s))
    /\ UNCHANGED calm

\* _clear_session_callbacks(): the tasks are cancelled, not the scheduler's jobs.
Clear(w, names) ==
  IF w.s = None THEN w
  ELSE LET ids == {w.s.tasks[c] : c \in names \cap DOMAIN w.s.tasks} IN
       [w EXCEPT !.q.armed = Restrict(@, DOMAIN @ \ ids),
                 !.s.tasks = Restrict(@, DOMAIN @ \ names)]

Job(key, system) ==
  [key |-> key, owner |-> Actor, system |-> system, conflict |-> "replace",
   args |-> FALSE, obj |-> None, policy |-> "defer", defers |-> 0, attempt |-> 0, ticket |-> 1]

\* _schedule_session_callback(): the result of schedule_event() is kept, also
\* when it is None because a quota refused the job.
Arm(w, name) ==
  LET id == w.q.next
      p  == Schedule(Clear(w, {name}).q, Job(name, Fishing))
      ok == id \in DOMAIN p.active
  IN  [w EXCEPT !.q = p,
                !.calls = IF ok THEN Put(@, id, w.s.token) ELSE @,
                !.s.tasks = Put(@, name, IF ok THEN id ELSE None)]

Enter(w, state) == [w EXCEPT !.s.state = state]

\* reset_fishing_session() and cancel_fishing_session()
Reset(w) == [Clear(w, Callbacks) EXCEPT !.s = None]

MarkTangled(w) ==
  [Enter(Clear(w, Callbacks), "tangled") EXCEPT !.pole.tangled = @ \/ w.pole.carried]
MarkBroken(w) ==
  [Enter(Clear(w, Callbacks), "broken") EXCEPT
     !.pole = IF @.carried THEN [@ EXCEPT !.rigged = FALSE, !.tangled = FALSE] ELSE @]

\* The state a repaired or refused session falls back to.
Fallback(s) == IF s.bait = None THEN "idle" ELSE "baited"

-----------------------------------------------------------------------------
(* Commands *)

\* Variant: re-baiting leaves the callbacks of the attempt it ends.
BaitKeepsTimers(b) ==
  /\ location # None /\ b \in bag
  /\ ~pole.carried \/ Ready
  /\ LET s == IF session = None THEN NewSession ELSE session
     IN  Commit(Enter([Now EXCEPT !.s = [s EXCEPT !.bait = b]], "baited"))
  /\ UNCHANGED <<bag, location>>

\* attach_bait()
Bait(b) ==
  /\ location # None /\ b \in bag
  /\ ~pole.carried \/ Ready
  /\ LET s == IF session = None THEN NewSession ELSE session
     IN  Commit(Enter(Clear([Now EXCEPT !.s = [s EXCEPT !.bait = b]], Callbacks), "baited"))
  /\ UNCHANGED <<bag, location>>

\* ensure_can_cast() up to the bait check
MayCast ==
  /\ location \in Fishable
  /\ session # None /\ session.state \notin Attempt \cup {"tangled", "broken"}
  /\ pole.carried /\ Ready
  /\ bag # {} /\ session.bait # None

\* start_fishing_cast()
Cast(token) ==
  /\ MayCast /\ session.bait \in bag
  /\ token \notin {session.token} \cup {calls[j] : j \in DOMAIN calls}
  /\ Commit(Arm([Now EXCEPT !.s = [@ EXCEPT !.state = "cast", !.token = token, !.room = location]],
                "bite"))
  /\ UNCHANGED <<bag, location>>

CastWithoutBait ==
  /\ MayCast /\ session.bait \notin bag
  /\ Commit([Now EXCEPT !.s = [@ EXCEPT !.state = "idle", !.bait = None]])
  /\ UNCHANGED <<bag, location>>

Pulling(state) == location # None /\ session # None /\ session.state = state

\* resolve_pull() while waiting for a bite
PullTooEarly ==
  /\ Pulling("cast") /\ Commit(MarkTangled(Now)) /\ UNCHANGED <<bag, location>>

\* _resolve_hook_attempt()
Hook ==
  /\ Pulling("nibble") /\ session.bait \in bag
  /\ Commit(Arm(Clear(Enter(Now, "hooked"), {"nibble_timeout"}), "struggle"))
  /\ UNCHANGED <<bag, location>>

MissHook ==
  /\ Pulling("nibble") /\ Commit(Reset(Now)) /\ UNCHANGED <<bag, location>>

\* _resolve_junk_pull()
PullJunk ==
  /\ Pulling("junk") /\ Commit(Reset(Now)) /\ UNCHANGED <<bag, location>>

\* _resolve_event_pull(): the line is gone.
PullEvent ==
  /\ Pulling("event")
  /\ Commit(Reset([Now EXCEPT !.pole = MarkBroken(Now).pole]))
  /\ UNCHANGED <<bag, location>>

\* Variant: a rigged pole may be rigged again.
RigFailsOnRigged ==
  /\ location # None /\ pole.carried /\ ~pole.tangled
  /\ pole' = [pole EXCEPT !.tangled = TRUE]
  /\ UNCHANGED <<calm, q, calls, session, is_fishing, untouched, bag, location>>

\* rig_fishing_pole()
RigFails ==
  /\ location # None /\ pole.carried /\ ~pole.tangled /\ ~pole.rigged
  /\ pole' = [pole EXCEPT !.tangled = TRUE]
  /\ UNCHANGED <<calm, q, calls, session, is_fishing, untouched, bag, location>>

Rig ==
  /\ location # None /\ pole.carried /\ ~pole.tangled /\ ~pole.rigged
  /\ LET w == [Now EXCEPT !.pole.rigged = TRUE] IN
       Commit(IF Pulling("broken") THEN Enter(w, Fallback(session)) ELSE w)
  /\ UNCHANGED <<bag, location>>

\* untangle_fishing_pole()
Untangle ==
  /\ location # None /\ pole.carried /\ pole.tangled
  /\ LET w == [Now EXCEPT !.pole.tangled = FALSE] IN
       Commit(IF Pulling("tangled") THEN Enter(w, Fallback(session)) ELSE w)
  /\ UNCHANGED <<bag, location>>

-----------------------------------------------------------------------------
(* Callbacks: job j fires, and _wrapped_callback pops it when it is done *)

Fires(j, name) ==
  j \in DOMAIN calls /\ j \in DOMAIN q.active /\ q.active[j].key = name
Fired(j) == [Now EXCEPT !.q = CancelTask(@, j)]
Done(w, j) == Commit([w EXCEPT !.q = PopJob(@, j)])

\* _get_expected_session()
Expected(state, j) ==
  session # None /\ session.state = state /\ session.token = calls[j]

\* Variant: a nibble without a timeout.
NibbleWithoutTimeout(w) ==
  IF location # w.s.room \/ location \notin Fishable THEN {Reset(w)}
  ELSE {Enter(w, "nibble"), Enter(w, "junk"), Enter(w, "event")}

\* _begin_nibble(): a fish, junk or an event.
NibbleOutcomes(w) ==
  IF location # w.s.room \/ location \notin Fishable THEN {Reset(w)}
  ELSE {Arm(Enter(w, "nibble"), "nibble_timeout"), Enter(w, "junk"), Enter(w, "event")}

BeginNibble(j) ==
  /\ Fires(j, "bite")
  /\ \E f \in {Fired(j)} :
       \E w \in IF Expected("cast", j) THEN NibbleOutcomes(Clear(f, {"bite"})) ELSE {f} : Done(w, j)
  /\ UNCHANGED <<bag, location>>

\* _expire_nibble_window()
ExpireNibble(j) ==
  /\ Fires(j, "nibble_timeout")
  /\ \E f \in {Fired(j)} :
       \E w \in IF Expected("nibble", j) THEN {MarkTangled(f), Reset(f)} ELSE {f} : Done(w, j)
  /\ UNCHANGED <<bag, location>>

\* Variant: the fish fights on and no further round is scheduled.
StruggleOnce(w) == {Reset(w), MarkBroken(w), w}

\* _resolve_struggle_round(): landed or lost, the line breaks, or another round.
StruggleOutcomes(w) == {Reset(w), MarkBroken(w), Arm(w, "struggle")}

Struggle(j) ==
  /\ Fires(j, "struggle")
  /\ \E f \in {Fired(j)} :
       \E w \in IF Expected("hooked", j) THEN StruggleOutcomes(Clear(f, {"struggle"})) ELSE {f} : Done(w, j)
  /\ UNCHANGED <<bag, location>>

-----------------------------------------------------------------------------
(* The rest of the actor *)

\* Character.move_to(): only an attempt is cancelled.
Move(room) ==
  /\ location # None /\ room # location
  /\ location' = room
  /\ Commit(IF is_fishing THEN Reset(Now) ELSE Now)
  /\ UNCHANGED bag

\* Variant: logging out does not cancel the attempt.
UnpuppetGoesOn ==
  /\ location # None /\ location' = None
  /\ UNCHANGED <<calm, q, calls, session, is_fishing, pole, untouched, bag>>

\* Character.at_post_unpuppet(): the character has left its room by then.
Unpuppet ==
  /\ location # None /\ location' = None
  /\ Commit(Reset(Now))
  /\ UNCHANGED bag

Puppet(room) ==
  /\ location = None /\ location' = room
  /\ UNCHANGED <<calm, q, calls, session, is_fishing, pole, untouched, bag>>

\* Picked up, dropped, given, returned to the lender.
HandleBait(b) ==
  /\ bag' = IF b \in bag THEN bag \ {b} ELSE bag \cup {b}
  /\ UNCHANGED <<calm, q, calls, session, is_fishing, pole, untouched, location>>
\* The actor drops the pole or gives it away, and takes it or another one.
HandlePole ==
  /\ pole' = [pole EXCEPT !.carried = ~@]
  /\ UNCHANGED <<calm, q, calls, session, is_fishing, untouched, bag, location>>

\* Whoever has it rigs, tangles, snaps or untangles the line meanwhile; the pole
\* the actor takes next, or the second one he carries, may be any other.
PoleChangesHands ==
  /\ ~pole.carried
  /\ pole' \in [carried : {FALSE}, rigged : BOOLEAN, tangled : BOOLEAN]
  /\ untouched' = ~InAttempt(session)
  /\ UNCHANGED <<calm, q, calls, session, is_fishing, bag, location>>

\* Another system's job of the same owner comes, and runs.
OtherJob(k) ==
  /\ ~calm /\ Commit([Now EXCEPT !.q = Schedule(@, Job(k, None))])
  /\ UNCHANGED <<bag, location>>
OtherRuns(j) ==
  /\ j \in DOMAIN q.armed \ DOMAIN calls
  /\ Commit([Now EXCEPT !.q = PopJob(CancelTask(@, j), j)])
  /\ UNCHANGED <<bag, location>>

\* The server restarts: ndb attributes and the scheduler's dictionaries are gone,
\* the pole's and the items' attributes are in the database.
Restart ==
  /\ q' = EmptyQueue /\ calls' = <<>> /\ session' = None /\ is_fishing' = FALSE
  /\ untouched' = TRUE
  /\ UNCHANGED <<calm, pole, bag, location>>

Timer ==
  \E j \in DOMAIN calls : BeginNibble(j) \/ ExpireNibble(j) \/ Struggle(j)

Next ==
  \/ \E b \in Baits : Bait(b) \/ HandleBait(b)
  \/ \E t \in Tokens : Cast(t)
  \/ CastWithoutBait
  \/ PullTooEarly \/ Hook \/ MissHook \/ PullJunk \/ PullEvent
  \/ RigFails \/ Rig \/ Untangle
  \/ Timer
  \/ \E r \in Rooms : Move(r) \/ Puppet(r)
  \/ Unpuppet \/ HandlePole \/ PoleChangesHands \/ Restart
  \/ \E k \in OtherKeys : OtherJob(k)
  \/ \E j \in DOMAIN q.armed : OtherRuns(j)

Spec == Init /\ [][Next]_vars

\* A timer that is due is served; players promise nothing.  This is WF_vars(Timer)
\* with what enables it spelled out: TLC is slow to find out by itself.
FairSpec == Spec /\ ([]<>(DOMAIN calls = {}) \/ []<><<Timer>>_vars)

-----------------------------------------------------------------------------
(* Properties *)

\* Sessions, pole, bag and timers have the shape the code gives them.
TypeOK ==
  /\ IsRegistry(q) /\ KeysIndexed(q)
  /\ session = None \/ IsSession(session)
  /\ calm \in BOOLEAN /\ is_fishing \in BOOLEAN
  /\ pole \in [carried : BOOLEAN, rigged : BOOLEAN, tangled : BOOLEAN]
  /\ untouched \in BOOLEAN
  /\ bag \subseteq Baits /\ location \in Rooms \cup {None}
  /\ DOMAIN calls \subseteq DOMAIN q.armed
  /\ \A j \in DOMAIN calls : calls[j] \in Tokens

\* A timer that can still fire belongs to the attempt that is going on and to the
\* state it is in: re-baiting, moving, logging out or a new cast leaves no timer
\* of an old attempt behind, so the token check never has to save the session.
TimersBelongToAttempt ==
  \A j \in DOMAIN calls :
    /\ session # None /\ session.token = calls[j]
    /\ <<q.active[j].key, session.state>> \in
         {<<"bite", "cast">>, <<"nibble_timeout", "nibble">>, <<"struggle", "hooked">>}
    /\ Maps(session.tasks, q.active[j].key, j)

\* Nobody fights a fish with a snarled or missing line: whatever the actor snaps,
\* tangles, rigs or drops himself ends the attempt or leaves the pole ready.  The
\* code does not look at the pole again after the cast, so this says nothing of
\* a pole that somebody else had during the attempt.
AttemptHasReadyLine == InAttempt(session) /\ untouched => Ready

\* move_to() trusts the is_fishing flag: it must be up for the whole attempt, and
\* the attempt stays in the fishable room it was cast in.
AttemptStaysInRoom ==
  /\ is_fishing = InAttempt(session)
  /\ InAttempt(session) => location = session.room /\ location \in Fishable

\* An attempt has the timer that will end its state, so it cannot hang around.
AttemptHasTimer ==
  InAttempt(session) => \E j \in DOMAIN calls : session.token = calls[j]

\* As long as nothing else fills the actor's quota, it always has that timer, with
\* all the commands, moves, logouts and restarts in between.
CalmAttemptHasTimer == calm => AttemptHasTimer

\* With that timer served, the wait for a bite and the nibble window do end.
WaitsEnd ==
  /\ calm /\ Pulling("cast") ~> ~Pulling("cast")
  /\ calm /\ Pulling("nibble") ~> ~Pulling("nibble")

\* The scheduler owns cancellation: no job of it counts without a timer to end it.
JobsHaveTimers == DOMAIN q.active \subseteq DOMAIN q.armed

\* A catch that waits to be pulled in is given up by leaving the room, too.
CatchStaysInRoom ==
  session # None /\ session.state \in {"junk", "event"} => location = session.room
=============================================================================
