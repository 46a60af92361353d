-------------------------- MODULE SpellPreparation --------------------------
(***************************************************************************)
(* One magic user's prepared spell, harnessed mana and cyclic spell        *)
(* (engine/services/mana_service.py and the commands of                    *)
(* typeclasses/characters.py).  The spell is kept twice: as prepared_mana  *)
(* in the character's ndb, which the service works on, and as the          *)
(* "prepared_spell" entry of db.states, which the commands look at.  Two   *)
(* scheduled jobs make it ready and let it expire.  Neither job knows      *)
(* which spell it was scheduled for, so the code must cancel both whenever *)
(* the spell goes.                                                         *)
(*                                                                         *)
(* Abstracted: costs are small numbers, dice are choices, and what a spell *)
(* does is left out.  Cooldowns and access rules only refuse commands,     *)
(* except the one that drops the spell.  "made" numbers the preparations,  *)
(* so that a job can be told from another spell's.                         *)
(***************************************************************************)
EXTENDS Integers, FiniteSetsExt

CONSTANTS
  MaxAttunement,   \* db.attunement["max"]
  Costs,           \* amounts of mana a command may ask for
  MaxPool,         \* a bound on what is harnessed at once; the code has none
  None

ASSUME SpellAssumption ==
  /\ MaxAttunement \in Nat /\ MaxPool \in Nat
  /\ Costs \subseteq Nat \ {0}
  /\ None \notin Int

VARIABLES
  calm,         \* nothing is refused by a quota, lost by a restart or a logout
  renewable,    \* may an operator renew or reset the character?
  online,       \* is somebody puppeting the character?
  prepared,     \* ndb.prepared_mana
  shown,        \* db.states["prepared_spell"]
  pool,         \* db.harnessed_mana
  attunement,   \* db.attunement["current"]
  cyclic,       \* what sustains the active cyclic spell, or None
  readyJob,     \* the preparation the "prepared ready" job was scheduled for
  expireJob     \* the preparation the "prepared expire" job was scheduled for

vars ==
  <<calm, renewable, online, prepared, shown, pool, attunement, cyclic, readyJob, expireJob>>

Made == 1..3
Prepared == [made : Made, mana : Costs, held : Nat, ready : BOOLEAN]
Shown == [mana : Costs, held : Nat, ready : BOOLEAN]

ASSUME NoneAssumption == None \notin Prepared \cup Shown

Init ==
  /\ calm \in BOOLEAN /\ renewable \in BOOLEAN /\ online = TRUE
  /\ prepared = None /\ shown = None
  /\ pool = 0 /\ attunement \in 0..MaxAttunement /\ cyclic = None
  /\ readyJob = None /\ expireJob = None

-----------------------------------------------------------------------------
(* The service *)

\* What _sync_prepared_spell_state_from_mana() copies.
Copy(p) == [mana |-> p.mana, held |-> p.held, ready |-> p.ready]

\* Variant: what is shown is not brought up to date.
SyncDropsOnly(p) == shown' = IF p = None THEN None ELSE shown

\* _sync_prepared_spell_state_from_mana(): nothing is shown that was not before.
Sync(p) == shown' = IF p = None \/ shown = None THEN None ELSE Copy(p)

\* Variant: the expiry stays scheduled.
ClearKeepsExpiry ==
  /\ readyJob' = None /\ UNCHANGED expireJob
  /\ prepared' = None /\ shown' = None

\* clear_prepared_mana() and clear_state("prepared_spell")
Clear ==
  /\ readyJob' = None /\ expireJob' = None
  /\ prepared' = None /\ shown' = None

\* The pool changes, and the prepared spell is told.
Hold(amount) ==
  /\ pool' = amount
  /\ prepared' = IF prepared = None THEN None ELSE [prepared EXCEPT !.held = amount]

Untouched == UNCHANGED <<calm, renewable, online>>
Unprepared == UNCHANGED <<prepared, shown, readyJob, expireJob>>

\* schedule_event(), which a quota may refuse; its result is not looked at.
Arm(job, made) == job = made \/ (~calm /\ job = None)

NextMade ==
  Min(Made \ ({readyJob, expireJob} \cup (IF prepared = None THEN {} ELSE {prepared.made})))

-----------------------------------------------------------------------------
(* Commands *)

\* Variant: only a spell that is ready gets its expiry.
PrepareArmsLate(mana, slow) ==
  /\ online /\ attunement >= mana
  /\ LET p == [made |-> NextMade, mana |-> mana, held |-> pool, ready |-> ~slow] IN
       /\ prepared' = p /\ shown' = Copy(p)
       /\ IF slow THEN Arm(readyJob', p.made) /\ expireJob' = None
          ELSE readyJob' = None /\ Arm(expireJob', p.made)
  /\ UNCHANGED <<pool, attunement, cyclic>> /\ Untouched

\* prepare_spell(): the spell before it is cleared, timers included.
Prepare(mana, slow) ==
  /\ online /\ attunement >= mana
  /\ LET p == [made |-> NextMade, mana |-> mana, held |-> pool, ready |-> ~slow] IN
       /\ prepared' = p /\ shown' = Copy(p)
       /\ IF slow THEN Arm(readyJob', p.made) ELSE readyJob' = None
       /\ Arm(expireJob', p.made)
  /\ UNCHANGED <<pool, attunement, cyclic>> /\ Untouched

\* gate_mana_effect(): a rite or a healing prepares and clears in passing, and
\* with it goes whatever was prepared.
Gate(mana) ==
  /\ online /\ attunement >= mana /\ Clear
  /\ UNCHANGED <<pool, attunement, cyclic>> /\ Untouched

\* harness_mana() and harness_spell(): a spell that is only shown goes.
Harness(amount, cost) ==
  /\ online /\ attunement >= cost /\ pool + amount <= MaxPool
  /\ attunement' = attunement - cost
  /\ Hold(pool + amount) /\ Sync(prepared')
  /\ UNCHANGED <<cyclic, readyJob, expireJob>> /\ Untouched

\* release_magic(): the spell, the held mana, or the cyclic spell.
ReleaseSpell ==
  /\ online /\ shown # None /\ Clear
  /\ UNCHANGED <<pool, attunement, cyclic>> /\ Untouched
ReleaseMana ==
  /\ online /\ pool > 0 /\ Hold(0)
  /\ IF prepared = None THEN UNCHANGED shown ELSE Sync(prepared')
  /\ UNCHANGED <<attunement, cyclic, readyJob, expireJob>> /\ Untouched
ReleaseCyclic ==
  /\ online /\ cyclic # None /\ cyclic' = None
  /\ UNCHANGED <<pool, attunement>> /\ Unprepared /\ Untouched

\* cast_spell() finds that the character may not cast the spell any more.
CastForbidden ==
  /\ online /\ shown # None /\ Clear
  /\ UNCHANGED <<pool, attunement, cyclic>> /\ Untouched

\* _cast_spell() takes attunement and held mana; a backlash may burn more.
Cast(used, burnt) ==
  /\ online /\ shown # None /\ prepared # None
  /\ attunement >= prepared.mana + burnt
  /\ attunement' = attunement - prepared.mana - burnt
  /\ pool' = pool - used
  /\ Untouched

CastFails(used, burnt) == Cast(used, burnt) /\ Clear /\ UNCHANGED cyclic

\* resolve_spell() is content: an ordinary spell takes the whole pool, a cyclic
\* one leaves it to be sustained from.
CastWorks ==
  /\ \/ Cast(pool, 0) /\ UNCHANGED cyclic
     \/ /\ Cast(0, 0) /\ cyclic = None
        /\ \/ pool > 0 /\ cyclic' = "held"
           \/ attunement' > 0 /\ cyclic' = "attunement"
  /\ Clear

\* resolve_spell() is not: the mana is gone and the spell stays prepared.
CastUnresolved(used) == Cast(used, 0) /\ UNCHANGED cyclic /\ Unprepared

-----------------------------------------------------------------------------
(* Time *)

\* Variant: what is there to be taken is not looked at.
CyclicTickUnchecked(cost) ==
  /\ \/ /\ cyclic = "held" /\ Hold(pool - cost)
        /\ IF prepared = None THEN UNCHANGED shown ELSE Sync(prepared')
        /\ UNCHANGED <<attunement, cyclic, readyJob, expireJob>>
     \/ /\ cyclic = "attunement" /\ attunement' = attunement - cost
        /\ UNCHANGED <<pool, cyclic>> /\ Unprepared
  /\ Untouched

\* consume_mana_for_cyclic() under process_cyclic_effects()
CyclicTick(cost) ==
  /\ \/ /\ cyclic = "held" /\ pool >= cost /\ Hold(pool - cost)
        /\ IF prepared = None THEN UNCHANGED shown ELSE Sync(prepared')
        /\ UNCHANGED <<attunement, cyclic, readyJob, expireJob>>
     \/ /\ cyclic = "attunement" /\ attunement >= cost /\ attunement' = attunement - cost
        /\ UNCHANGED <<pool, cyclic>> /\ Unprepared
  /\ Untouched

\* process_cyclic_effects() ends the spell of a caster who is down, hindered or
\* has left the room, and one that cannot be paid for.
CyclicCollapses ==
  /\ cyclic # None /\ cyclic' = None
  /\ UNCHANGED <<pool, attunement>> /\ Unprepared /\ Untouched

\* regenerate_attunement()
Regen ==
  /\ attunement < MaxAttunement /\ attunement' = attunement + 1
  /\ UNCHANGED <<pool, cyclic>> /\ Unprepared /\ Untouched

\* transition_to_full_prep()
Ready ==
  /\ readyJob # None /\ readyJob' = None
  /\ IF prepared = None THEN UNCHANGED <<prepared, shown>>
     ELSE prepared' = [prepared EXCEPT !.ready = TRUE] /\ Sync(prepared')
  /\ UNCHANGED <<pool, attunement, cyclic, expireJob>> /\ Untouched

\* expire_prepared_spell()
Expire ==
  /\ expireJob # None
  /\ IF prepared = None THEN expireJob' = None /\ UNCHANGED <<prepared, shown, readyJob>>
     ELSE Clear
  /\ UNCHANGED <<pool, attunement, cyclic>> /\ Untouched

-----------------------------------------------------------------------------
(* Sessions *)

\* at_post_unpuppet(): cancel_scheduled_effects() takes both timers and leaves the
\* spell; at_post_puppet() schedules neither again.
Unpuppet ==
  /\ ~calm /\ online /\ online' = FALSE
  /\ readyJob' = None /\ expireJob' = None
  /\ UNCHANGED <<calm, renewable, prepared, shown, pool, attunement, cyclic>>
Puppet ==
  /\ ~online /\ online' = TRUE
  /\ UNCHANGED <<calm, renewable, pool, attunement, cyclic>> /\ Unprepared

\* A restart: ndb and the jobs are gone, db.states is not.
Restart ==
  /\ ~calm
  /\ prepared' = None /\ readyJob' = None /\ expireJob' = None
  /\ UNCHANGED <<shown, pool, attunement, cyclic>> /\ Untouched

\* renew_state(), also under combat_reset_state(): db.states is emptied, and with it
\* what is shown and what is sustained; the service and its timers learn nothing.
Renew ==
  /\ renewable
  /\ shown' = None /\ cyclic' = None /\ attunement' = MaxAttunement
  /\ UNCHANGED <<prepared, pool, readyJob, expireJob>> /\ Untouched

Command ==
  \/ \E n \in Costs :
       \/ Prepare(n, TRUE) \/ Prepare(n, FALSE) \/ Gate(n)
       \/ \E cost \in 0..MaxAttunement : Harness(n, cost)
  \/ ReleaseSpell \/ ReleaseMana \/ ReleaseCyclic \/ CastForbidden
  \/ CastWorks
  \/ \E used \in {0, pool} :
       CastUnresolved(used) \/ \E burnt \in 0..MaxAttunement : CastFails(used, burnt)

Next ==
  \/ Command
  \/ \E n \in Costs : CyclicTick(n)
  \/ CyclicCollapses \/ Regen \/ Ready \/ Expire \/ Unpuppet \/ Puppet \/ Restart
  \/ Renew

Spec == Init /\ [][Next]_vars

\* An expiry that stays scheduled becomes due and runs; one that is replaced does not.
FairSpec == Spec /\ \A made \in Made : WF_vars(expireJob = made /\ Expire)

-----------------------------------------------------------------------------
(* Properties *)

\* Every variable has the shape the code gives it.
TypeOK ==
  /\ calm \in BOOLEAN /\ renewable \in BOOLEAN /\ online \in BOOLEAN
  /\ prepared \in Prepared \cup {None}
  /\ shown \in Shown \cup {None}
  /\ pool \in Nat /\ attunement \in 0..MaxAttunement
  /\ cyclic \in {None, "held", "attunement"}
  /\ readyJob \in Made \cup {None} /\ expireJob \in Made \cup {None}

\* A timer that may fire belongs to the spell that is prepared now, through casts,
\* releases, rites, new preparations, logouts and restarts: the callbacks do not
\* look which spell they were meant for.
TimersServeTheSpell ==
  /\ readyJob # None => prepared # None /\ prepared.made = readyJob /\ ~prepared.ready
  /\ expireJob # None => prepared # None /\ prepared.made = expireJob

\* In a calm behaviour the spell has the timers it needs, renewed or not.
SpellHasTimers ==
  calm /\ prepared # None => expireJob # None /\ (~prepared.ready => readyJob # None)

\* Both copies of the spell never contradict each other.  Only a restart leaves a
\* spell shown without being prepared, and only a renewal one prepared without being
\* shown: it can be neither cast nor released, and goes by its timer, a rite or the
\* next preparation.
ShownIsPrepared ==
  /\ prepared # None /\ shown # None => shown = Copy(prepared)
  /\ calm /\ shown # None => prepared # None
  /\ ~renewable /\ prepared # None => shown # None

\* Each preparation is used, released, replaced or lapses: nobody stays prepared
\* for ever as long as nothing takes the timers away.
SpellsEnd ==
  \A made \in Made :
    calm /\ prepared # None /\ prepared.made = made
      ~> prepared = None \/ prepared.made # made
=============================================================================
