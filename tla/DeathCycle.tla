----------------------------- MODULE DeathCycle -----------------------------
(***************************************************************************)
(* Death and the ways back: world/systems/death.py makes a corpse, clerics *)
(* work through the rites on it (typeclasses/characters.py), its decay job *)
(* removes it (typeclasses/corpse.py), and departing turns it into a grave *)
(* (typeclasses/grave.py).  A rite is a pending action in the cleric's ndb *)
(* and a scheduled job that completes it; several clerics may work on one  *)
(* body, and whatever they do lies between other steps of the reactor.     *)
(*                                                                         *)
(* Abstracted: all bodies lie in one room; devotion, mana and favor only   *)
(* decide whether a rite may start; wounds, ritual quality, condition and  *)
(* Death's Sting are left out.  Items go the way the coins go.  Clocks are *)
(* choices: a memory may lapse, a body decay, a grave expire at any time.  *)
(* Left out: the administrators' renew and combat reset commands.  An id   *)
(* is used again once nothing refers to it (a link to an object that is    *)
(* gone reads as no link).                                                 *)
(***************************************************************************)
EXTENDS Integers, FiniteSets, Functions, FiniteSetsExt

CONSTANTS
  Chars, Clerics,    \* characters, and those among them who are clerics
  Mortal,            \* those who may die
  Crowded,           \* clerics whose other jobs may fill their quota
  Bodies, Graves,    \* ids of corpses and graves: how many there may be at once
  Wealth,            \* coins a character starts with
  FatalFailures,     \* failed rites that make a body useless (3 in the code)
  None

ASSUME DeathAssumption ==
  /\ Clerics \subseteq Chars /\ Mortal \subseteq Chars /\ Crowded \subseteq Clerics
  /\ IsFiniteSet(Clerics)
  /\ Wealth \in Nat /\ FatalFailures \in Nat \ {0}
  /\ None \notin Chars \cup Bodies \cup Graves

VARIABLES
  calm,      \* in a calm behaviour no job is refused or lost, and a job that is due
             \* at once runs before the next death
  life,      \* alive; dead; or felled: is_dead set by a destroyed vital part
  purse,     \* db.coins
  link,      \* db.corpse_id, the body get_death_corpse() finds
  corpses,   \* the bodies that exist
  graves,    \* the graves that exist
  here,      \* is the cleric in the room of the bodies?
  rite,      \* ndb.pending_cleric_ritual_action while it is active, or None
  job,       \* the token of the scheduled "cleric_ritual" job, or None
  cleanup    \* bodies a scheduled revive_cleanup job will delete

vars == <<calm, life, purse, link, corpses, graves, here, rite, job, cleanup>>

\* RITUAL_STATE_ORDER: unprepared, prepared, stabilized, restored, bound
Stages == 0..4
Actions == {"prepare", "stabilize", "restore", "bind", "revive"}

\* The stage a rite asks for and works on.
Needs == [prepare |-> 0, stabilize |-> 1, restore |-> 2, bind |-> 3, revive |-> 4]

Tokens == {1, 2}
Corpse ==
  [owner : Chars, stage : Stages, soul : BOOLEAN, valid : BOOLEAN, memory : BOOLEAN,
   failures : 0..FatalFailures, helpers : SUBSET Clerics, coins : Nat]
Rite == [action : Actions, body : Bodies, token : Tokens]

ASSUME NoneAssumption == None \notin Rite \cup Tokens

Init ==
  /\ calm \in BOOLEAN
  /\ life = [c \in Chars |-> "alive"]
  /\ purse = [c \in Chars |-> Wealth]
  /\ link = [c \in Chars |-> None]
  /\ corpses = <<>> /\ graves = <<>>
  /\ here = [k \in Clerics |-> TRUE]
  /\ rite = [k \in Clerics |-> None]
  /\ job = [k \in Clerics |-> None]
  /\ cleanup = {}

-----------------------------------------------------------------------------
(* Helpers *)

With(f, x, y) == [z \in DOMAIN f \cup {x} |-> IF z = x THEN y ELSE f[z]]
Without(f, x) == Restrict(f, DOMAIN f \ {x})

Unlink(b) == [c \in Chars |-> IF link[c] = b THEN None ELSE link[c]]

\* is_dead() is true of a felled character, too.
Gone(c) == life[c] # "alive"

FreeBodies ==
  Bodies \ (DOMAIN corpses \cup cleanup \cup {link[c] : c \in Chars}
              \cup {rite[k].body : k \in {k \in Clerics : rite[k] # None}})

\* get_cleric_group_support_count(), seen by k once its own rite is over.
Support(b, k) ==
  corpses[b].helpers
    \cup {o \in Clerics \ {k} : rite[o] # None /\ rite[o].body = b /\ here[o]}

\* record_ritual_failure()
Marked(body) ==
  LET n == Min({body.failures + 1, FatalFailures}) IN
  [body EXCEPT !.failures = n, !.valid = @ /\ n < FatalFailures]

\* Variant: one stage below the rite's.
FallsBelow == [prepare |-> -1, stabilize |-> 0, restore |-> 1, bind |-> 2, revive |-> 3]

\* regress_ritual_state(): what each failed rite throws the body back to.
FallsTo == [prepare |-> 0, stabilize |-> 1, restore |-> 2, bind |-> 3, revive |-> 3]

\* Variants: a failure regresses the body whoever else works on it; the soul
\* stays bound.
FailureAlwaysRegresses(k) ==
  LET b == rite[k].body IN
  IF rite[k] = None \/ b \notin DOMAIN corpses THEN corpses
  ELSE [corpses EXCEPT ![b] =
          [Marked(@) EXCEPT !.stage = FallsTo[rite[k].action], !.soul = FALSE]]
FailureKeepsSoul(k) ==
  LET b == rite[k].body IN
  IF rite[k] = None \/ b \notin DOMAIN corpses THEN corpses
  ELSE [corpses EXCEPT ![b] =
          IF Cardinality(Support(b, k)) > 1 THEN Marked(@)
          ELSE [Marked(@) EXCEPT !.stage = FallsTo[rite[k].action]]]

\* apply_cleric_ritual_failure() of k's rite, if it has one: only a cleric who
\* works alone throws the body back.
AfterFailure(k) ==
  LET b == rite[k].body IN
  IF rite[k] = None \/ b \notin DOMAIN corpses THEN corpses
  ELSE [corpses EXCEPT ![b] =
          IF Cardinality(Support(b, k)) > 1 THEN Marked(@)
          ELSE [Marked(@) EXCEPT !.stage = FallsTo[rite[k].action], !.soul = FALSE]]

-----------------------------------------------------------------------------
(* Rites *)

RiteEnds(k) == rite' = [rite EXCEPT ![k] = None]

\* Variant: the pending action ends and its job stays scheduled.
StopKeepsJob(k) == RiteEnds(k) /\ UNCHANGED job

\* cancel_pending_cleric_ritual()
Stop(k) == RiteEnds(k) /\ job' = [job EXCEPT ![k] = None]

NextToken(k) == IF job[k] = 1 THEN 2 ELSE 1

\* start_cleric_corpse_ritual() and start_cleric_revive(): the result of
\* schedule_event() is not looked at.
StartRite(k, b, action) ==
  /\ rite[k] = None /\ life[k] = "alive" /\ here[k]
  /\ b \in DOMAIN corpses /\ corpses[b].valid /\ corpses[b].memory
  /\ corpses[b].stage = Needs[action] /\ (action = "revive" => corpses[b].soul)
  /\ corpses' = [corpses EXCEPT ![b].helpers = @ \cup {k}]
  /\ rite' = [rite EXCEPT ![k] = [action |-> action, body |-> b, token |-> NextToken(k)]]
  /\ \/ job' = [job EXCEPT ![k] = NextToken(k)]
     \/ k \in Crowded /\ ~calm /\ UNCHANGED job
  /\ UNCHANGED <<calm, life, purse, link, graves, here, cleanup>>

\* The job fires, and pops itself when it is done.  It returns at once when the
\* pending action is over or another's; by RitesHaveTheirJob that never happens.
Due(k) == job[k] # None /\ job' = [job EXCEPT ![k] = None]
Pending(k) == rite[k] # None /\ rite[k].token = job[k]

\* What perform_cleric_corpse_ritual() and perform_cleric_revive() ask of every rite.
CanWork(k, b) ==
  life[k] = "alive" /\ here[k] /\ b \in DOMAIN corpses /\ corpses[b].valid

Advanced(body, action) ==
  [body EXCEPT !.stage = @ + 1, !.soul = @ \/ action = "bind",
               !.memory = @ \/ action = "stabilize"]

\* _complete_pending_cleric_ritual(): whoever comes late joins what is done.
RiteSucceeds(k) ==
  /\ Due(k) /\ Pending(k) /\ rite[k].action # "revive"
  /\ LET b == rite[k].body IN
       /\ CanWork(k, b) /\ corpses[b].stage >= Needs[rite[k].action]
       /\ corpses' = IF corpses[b].stage > Needs[rite[k].action] THEN corpses
                     ELSE [corpses EXCEPT ![b] = Advanced(@, rite[k].action)]
  /\ RiteEnds(k)
  /\ UNCHANGED <<calm, life, purse, link, graves, here, cleanup>>

CanRevive(k, b) ==
  CanWork(k, b) /\ corpses[b].memory /\ corpses[b].stage = 4 /\ corpses[b].soul
    /\ Gone(corpses[b].owner)

Lives(c) == life' = [life EXCEPT ![c] = "alive"]

\* Variants: the owner keeps its link to the body it left; no cleanup is scheduled.
RevivalKeepsLink(k, b) ==
  /\ CanRevive(k, b) /\ Lives(corpses[b].owner) /\ UNCHANGED link
  /\ cleanup' = cleanup \cup {b} \/ (k \in Crowded /\ ~calm /\ UNCHANGED cleanup)
  /\ UNCHANGED <<calm, purse, corpses, graves, here>>
RevivalLeavesBody(k, b) ==
  /\ CanRevive(k, b) /\ Lives(corpses[b].owner)
  /\ link' = [link EXCEPT ![corpses[b].owner] = None]
  /\ UNCHANGED <<calm, purse, corpses, graves, here, cleanup>>

\* perform_cleric_revive(): the purse stays with the body, and the body goes by a
\* job of the cleric's.
Revival(k, b) ==
  /\ CanRevive(k, b) /\ Lives(corpses[b].owner)
  /\ link' = [link EXCEPT ![corpses[b].owner] = None]
  /\ cleanup' = cleanup \cup {b} \/ (k \in Crowded /\ ~calm /\ UNCHANGED cleanup)
  /\ UNCHANGED <<calm, purse, corpses, graves, here>>

Revive(k) ==
  /\ Due(k) /\ Pending(k) /\ rite[k].action = "revive"
  /\ Revival(k, rite[k].body) /\ RiteEnds(k)

\* A resurrection spell does the same at once, whatever rite is pending.
CastRevival(k, b) == Revival(k, b) /\ UNCHANGED <<rite, job>>

\* Variant: the pending action stays active when the rite fails.
RiteFailsOn(k) ==
  /\ Due(k) /\ Pending(k) /\ corpses' = AfterFailure(k)
  /\ UNCHANGED <<calm, life, purse, link, graves, here, rite, cleanup>>

\* The rite fails when it should be complete; a place may have lost its
\* consecration by then.
RiteFails(k) ==
  /\ Due(k) /\ Pending(k)
  /\ LET b == rite[k].body IN
       rite[k].action # "revive" =>
         ~(CanWork(k, b) /\ corpses[b].stage >= Needs[rite[k].action])
  /\ corpses' = AfterFailure(k)
  /\ RiteEnds(k)
  /\ UNCHANGED <<calm, life, purse, link, graves, here, cleanup>>

Complete(k) == RiteSucceeds(k) \/ Revive(k) \/ RiteFails(k)

\* set_hp(): damage breaks the rite.
Hurt(k) ==
  /\ rite[k] # None
  /\ corpses' = AfterFailure(k) /\ Stop(k)
  /\ UNCHANGED <<calm, life, purse, link, graves, here, cleanup>>

\* Character.move_to(): a quiet move has no consequence for the body.
Leave(k) ==
  /\ here[k] /\ life[k] = "alive"
  /\ here' = [here EXCEPT ![k] = FALSE]
  /\ corpses' \in {corpses, AfterFailure(k)} /\ Stop(k)
  /\ UNCHANGED <<calm, life, purse, link, graves, cleanup>>

\* at_post_unpuppet() lets the rite go on.
Unpuppet(k) ==
  /\ here[k] /\ here' = [here EXCEPT ![k] = FALSE]
  /\ UNCHANGED <<calm, life, purse, link, corpses, graves, rite, job, cleanup>>

\* Back from another room, or from a logout.
Arrive(k) ==
  /\ ~here[k] /\ here' = [here EXCEPT ![k] = TRUE]
  /\ UNCHANGED <<calm, life, purse, link, corpses, graves, rite, job, cleanup>>
-----------------------------------------------------------------------------
(* Death *)

\* No caller asks for a death of the spirit, whose body no rite could use.
NewBody(c) ==
  [owner |-> c, stage |-> 0, soul |-> FALSE, valid |-> TRUE, memory |-> TRUE,
   failures |-> 0, helpers |-> {}, coins |-> purse[c]]

\* A cleric's own rite breaks with the blow.
StopOwn(c) ==
  IF c \in Clerics /\ rite[c] # None THEN Stop(c) ELSE UNCHANGED <<rite, job>>
AfterBlow(c) == IF c \in Clerics THEN AfterFailure(c) ELSE corpses

\* Variant: the purse is copied to the body.
DieCopiesPurse(c) ==
  /\ c \in Mortal /\ life[c] = "alive" /\ link[c] = None
  /\ \E b \in FreeBodies :
       corpses' = With(AfterBlow(c), b, NewBody(c)) /\ link' = [link EXCEPT ![c] = b]
  /\ StopOwn(c)
  /\ life' = [life EXCEPT ![c] = "dead"]
  /\ UNCHANGED <<calm, purse, graves, here, cleanup>>

\* set_hp() down to zero and handle_death(): create_death_corpse() uses the body
\* the character is still linked to, if there is one.
Die(c) ==
  /\ c \in Mortal /\ life[c] = "alive" /\ (calm => cleanup = {})
  /\ IF link[c] # None
     THEN /\ corpses' = [AfterBlow(c) EXCEPT ![link[c]].coins = purse[c], ![link[c]].valid = TRUE]
          /\ UNCHANGED link
     ELSE \E b \in FreeBodies :
            corpses' = With(AfterBlow(c), b, NewBody(c)) /\ link' = [link EXCEPT ![c] = b]
  /\ StopOwn(c)
  /\ life' = [life EXCEPT ![c] = "dead"] /\ purse' = [purse EXCEPT ![c] = 0]
  /\ UNCHANGED <<calm, graves, here, cleanup>>

\* apply_hit_wound() destroys a vital part while hp are left: the flag is set and
\* at_death() never called, then or later.
Fell(c) ==
  /\ c \in Mortal /\ life[c] = "alive"
  /\ life' = [life EXCEPT ![c] = "felled"]
  /\ corpses' = AfterBlow(c) /\ StopOwn(c)
  /\ UNCHANGED <<calm, purse, link, graves, here, cleanup>>

-----------------------------------------------------------------------------
(* What becomes of the body *)

\* at_object_delete() cancels the decay job, too.
Delete(b) == corpses' = Without(corpses, b)

\* _finalize_revive_corpse_cleanup()
Cleanup(b) ==
  /\ b \in cleanup /\ cleanup' = cleanup \ {b}
  /\ Delete(b) /\ link' = Unlink(b)
  /\ UNCHANGED <<calm, life, purse, graves, here, rite, job>>

\* The corpse's script finds no memory left.
Fade(b) ==
  /\ b \in DOMAIN corpses /\ corpses[b].memory
  /\ corpses' = [corpses EXCEPT ![b].memory = FALSE]
  /\ UNCHANGED <<calm, life, purse, link, graves, here, rite, job, cleanup>>

\* _expire_decay_to_grave(): whichever body the owner is linked to by now.
Decay(b) ==
  /\ b \in DOMAIN corpses /\ Delete(b)
  /\ link' = [Unlink(b) EXCEPT ![corpses[b].owner] = None]
  /\ UNCHANGED <<calm, life, purse, graves, here, rite, job, cleanup>>

\* decay_to_grave() with these coins.
Bury(b, coins) ==
  /\ \E g \in Graves \ DOMAIN graves :
       graves' = With(graves, g, [owner |-> corpses[b].owner, coins |-> coins])
  /\ Delete(b)

DecayCommand(b) ==
  /\ b \in DOMAIN corpses /\ Bury(b, corpses[b].coins) /\ link' = Unlink(b)
  /\ UNCHANGED <<calm, life, purse, here, rite, job, cleanup>>

-----------------------------------------------------------------------------
(* Ways back *)

\* is_depart_blocked_by_active_revive()
Blocked(b) ==
  \E k \in Clerics : rite[k] # None /\ rite[k].body = b /\ rite[k].action = "revive" /\ here[k]

\* calculate_depart_coin_loss() takes less than half.
Kept(coins) == {n \in 0..coins : 2 * n >= coins}

\* depart_self(): a character without a body leaves an empty grave.
Depart(c) ==
  /\ Gone(c)
  /\ IF link[c] # None
     THEN ~Blocked(link[c]) /\ \E n \in Kept(corpses[link[c]].coins) : Bury(link[c], n)
     ELSE /\ \E g \in Graves \ DOMAIN graves :
               graves' = With(graves, g, [owner |-> c, coins |-> 0])
          /\ UNCHANGED corpses
  /\ Lives(c) /\ link' = [link EXCEPT ![c] = None]
  /\ UNCHANGED <<calm, purse, here, rite, job, cleanup>>

\* force_resurrect()
Resurrect(c) ==
  /\ Gone(c)
  /\ IF link[c] # None
     THEN purse' = [purse EXCEPT ![c] = @ + corpses[link[c]].coins] /\ Delete(link[c])
     ELSE UNCHANGED <<purse, corpses>>
  /\ Lives(c) /\ link' = [link EXCEPT ![c] = None]
  /\ UNCHANGED <<calm, graves, here, rite, job, cleanup>>

\* recover_grave_items(): the owner takes everything and the grave goes.
Recover(g) ==
  /\ g \in DOMAIN graves /\ life[graves[g].owner] = "alive"
  /\ purse' = [purse EXCEPT ![graves[g].owner] = @ + graves[g].coins]
  /\ graves' = Without(graves, g)
  /\ UNCHANGED <<calm, life, link, corpses, here, rite, job, cleanup>>

\* Grave.process_expiry()
Expire(g) ==
  /\ g \in DOMAIN graves /\ graves' = Without(graves, g)
  /\ UNCHANGED <<calm, life, purse, link, corpses, here, rite, job, cleanup>>

\* A restart loses the pending rites and their jobs; CorpseDecayScript.at_start()
\* schedules the decay of every body again.
Restart ==
  /\ ~calm
  /\ rite' = [k \in Clerics |-> None] /\ job' = [k \in Clerics |-> None] /\ cleanup' = {}
  /\ UNCHANGED <<calm, life, purse, link, corpses, graves, here>>

Next ==
  \/ \E k \in Clerics :
       \/ \E b \in Bodies, a \in Actions : StartRite(k, b, a)
       \/ \E b \in Bodies : CastRevival(k, b)
       \/ Complete(k) \/ Hurt(k) \/ Leave(k) \/ Unpuppet(k) \/ Arrive(k)
  \/ \E c \in Chars : Die(c) \/ Fell(c) \/ Depart(c) \/ Resurrect(c)
  \/ \E b \in Bodies : Cleanup(b) \/ Fade(b) \/ Decay(b) \/ DecayCommand(b)
  \/ \E g \in Graves : Recover(g) \/ Expire(g)
  \/ Restart

Spec == Init /\ [][Next]_vars

\* The scheduler runs what is due; nothing is asked of anybody else.
FairSpec == Spec /\ \A k \in Clerics : WF_vars(Complete(k))

-----------------------------------------------------------------------------
(* Properties *)

\* Every variable has the shape the code gives it.
TypeOK ==
  /\ calm \in BOOLEAN
  /\ life \in [Chars -> {"alive", "dead", "felled"}]
  /\ purse \in [Chars -> Nat]
  /\ link \in [Chars -> Bodies \cup {None}]
  /\ DOMAIN corpses \subseteq Bodies /\ \A b \in DOMAIN corpses : corpses[b] \in Corpse
  /\ DOMAIN graves \subseteq Graves
  /\ \A g \in DOMAIN graves : graves[g] \in [owner : Chars, coins : Nat]
  /\ here \in [Clerics -> BOOLEAN]
  /\ rite \in [Clerics -> Rite \cup {None}]
  /\ job \in [Clerics -> Tokens \cup {None}]
  /\ cleanup \subseteq Bodies

\* A link leads to a body of the character's own, and only while it is gone:
\* create_death_corpse() would take an old body, rites and failures included, for
\* the new death, if any way back forgot the link.
LinksLeadToOwnBody ==
  \A c \in Chars : link[c] # None =>
    Gone(c) /\ link[c] \in DOMAIN corpses /\ corpses[link[c]].owner = c

\* The mark revive looks for agrees with the stage the rites have reached, through
\* joined, failed, broken and regressed rites of several clerics.
SoulBoundAtLastStage == \A b \in DOMAIN corpses : corpses[b].soul <=> corpses[b].stage = 4

\* A rite goes on as long as its own job is scheduled, except where the cleric's
\* quota may have refused the job; no job outlives its rite, and a cleric who is
\* gone holds no rite.
RitesHaveTheirJob ==
  \A k \in Clerics :
    /\ job[k] # None => rite[k] # None /\ rite[k].token = job[k]
    /\ rite[k] # None => life[k] = "alive" /\ (job[k] # None \/ (k \in Crowded /\ ~calm))

\* In a calm behaviour every body is its owner's or about to be cleaned up: none
\* lies about that could be worked on, or whose decay would unlink a later body.
BodiesAreAccountedFor ==
  calm => \A b \in DOMAIN corpses : link[corpses[b].owner] = b \/ b \in cleanup

\* A body advances stage by stage, each time because a cleric's rite of just that
\* stage is complete: neither a failure nor a late colleague moves it forward.
RitesAdvanceInOrder ==
  [][\A b \in DOMAIN corpses \cap DOMAIN corpses' :
       corpses'[b].stage > corpses[b].stage =>
         /\ corpses'[b].stage = corpses[b].stage + 1
         /\ \E k \in Clerics :
              /\ rite[k] # None /\ rite'[k] = None
              /\ rite[k].body = b /\ Needs[rite[k].action] = corpses[b].stage]_vars

\* Whatever a character owns, wherever it lies: purse, bodies, graves.
Coins(f, c) == MapThenSumSet(LAMBDA x : f[x].coins, {x \in DOMAIN f : f[x].owner = c})
Owned(c) == purse[c] + Coins(corpses, c) + Coins(graves, c)

\* Deaths, graves and returns in any order never make coins, and never move them
\* from one character to another.
CoinsNeverGrow == [][\A c \in Chars : Owned(c)' <= Owned(c)]_vars

\* A cleric whose jobs are not refused is not held in a rite for ever, and so the
\* dead are not kept from departing by one.
RitesEnd == \A k \in Clerics \ Crowded : rite[k] # None ~> rite[k] = None

\* A character whom a cleric calls back has the coins again that it fell with.
RevivalKeepsCoins ==
  [][\A c \in Chars :
       life[c] = "dead" /\ life'[c] = "alive" /\ graves' = graves /\ link[c] # None
         => purse'[c] = purse[c] + corpses[link[c]].coins]_vars

\* A dead character whose body goes by itself finds a grave in its place: what the
\* corpse held must stay recoverable when nobody came in time.
DecayLeavesGrave ==
  [][\A b \in DOMAIN corpses \ DOMAIN corpses' :
       link[corpses[b].owner] = b /\ Gone(corpses[b].owner) /\ life' = life
         => \E g \in DOMAIN graves' : graves'[g].owner = corpses[b].owner]_vars
=============================================================================
