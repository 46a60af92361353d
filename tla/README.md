# DireEngine in TLA+

DireEngine is a text game (a MUD) on top of Evennia: one Python process, one
Twisted reactor thread. Commands, hooks and timer callbacks run one at a time,
each to its end, but in any order. Almost everything that takes time in the game
(roundtime, spell preparation, rites, fishing, decay of corpses) goes through one
job scheduler, and what is worth simulating is decided by one registry of
"interest". Those two are modelled here, with the three state machines that race
their own timers most: fishing, death with its ways back, and prepared spells.
Paths below are relative to the repository.

## 1. Inventory

### Components modelled

**Job scheduler** (`world/systems/scheduler.py`).
*State*: `_ACTIVE_JOBS` and `_DELAYED_RETRY_JOBS` (job id -> record),
`_KEY_TO_JOB_ID` and `_DELAYED_KEY_TO_JOB_ID` (key -> job id), the timers the
records hold (an `evennia_delay()` task, or a `_DeferredTask` in DireTest mode).
*Operations*: `schedule()`/`schedule_event()`, `cancel()`/`cancel_event()`,
`reschedule()`, the timer callback `_wrapped_callback`, the retry callback of a
call parked by a quota (`_retry_delayed_schedule()`), and in DireTest mode
`flush_due()` with `_execute_job()`, `_skip_job()` and `_defer_job()`.
*Interacts with*: everything that schedules; calls `interest.py` to keep the
object of a job active while the job waits.
*Hard*: callbacks call the scheduler while their own job is still registered;
three quotas (owner, system, total) with three behaviours each; retries racing
cancels and new calls for the same key; a flush working from a list that its
callbacks make stale; exceptions half-way.
*Correct means*: tables, indexes, timers and interest sources describe the same
set of jobs; a call is started at most once and waits in exactly one job; no
withdrawn job fires; quotas hold; every accepted call settles.

**Interest registry** (`world/systems/interest.py`, flag in `engine_flags.py`).
*State*: per object a record of sources (room, proximity, zone, direct,
scheduled); an object is active while it has one.
*Operations*: `sync_subject_interest()` (room, then proximity, then zone),
`clear_subject_interest()`, `sync_direct_interest()`, add/remove of scheduled
interest. *Called by* `Character.at_post_move/at_post_puppet/at_post_unpuppet/
set_target` and by the scheduler.
*Hard*: updates are differences ("off the old place, onto the new one") computed
from where things are *now*; callers that bypass the hooks (`death.py`).
*Correct means*: exactly the places around the characters in the game are active.

**Fishing session** (`world/systems/fishing.py`).
*State*: `actor.ndb.fishing_session` (state, bait, attempt token, room, scheduled
callbacks), `actor.ndb.is_fishing`, the `db` attributes of the pole, an object that
others may hold as well.
*Operations*: bait, cast, pull (too early, hook, junk, event), rig, untangle; the
callbacks `_begin_nibble`, `_expire_nibble_window`, `_resolve_struggle_round`;
cancelled by `Character.move_to()` and `at_post_unpuppet()`.
*Hard*: three timers race the commands; each callback checks state and token; the
owner's other jobs share a quota of five; memory and database state diverge on a
restart. *Correct means*: timers belong to the attempt going on; an attempt has a
ready pole unless others had it meanwhile, stays in its room and ends.

**Corpses, graves and rites** (`world/systems/death.py`, `typeclasses/corpse.py`,
`typeclasses/grave.py`, rites and deaths in `typeclasses/characters.py`).
*State*: `is_dead` and `db.coins` of a character and its link `db.corpse_id`; of a
corpse its owner, stage of the rites, soul mark, memory, failed rites, helpers and
coins; of a grave its owner and coins; of a cleric `ndb.pending_cleric_ritual_action`
and the `cleric_ritual` job; the jobs that delete a revived body.
*Operations*: start, complete, fail and break a rite; revive by rite or by spell;
die, fall by a wound; fade, decay, the operator's decay command; depart, resurrect,
recover a grave, expire; move, log in and out; restart.
*Interacts with*: the scheduler (rites, cleanups, decay), `move_to()` and the login
hooks of `Character`.
*Hard*: several clerics on one body, each with a job that completes later; blows,
moves and deaths in between; one body and its link passed through five ways back;
a quota that may refuse the rite's job or the cleanup.
*Correct means*: a dead character is linked to its own body and a living one to
none; stages advance in order and carry the soul mark at the last; a rite has its
job and ends; no body is forgotten and no coin made.

**Mana and prepared spells** (`engine/services/mana_service.py`, spell commands in
`typeclasses/characters.py`, upkeep in `engine/services/state_service.py`).
*State*: the prepared spell, twice (`ndb.prepared_mana` for the service,
`db.states["prepared_spell"]` for the commands); held and attuned mana; the cyclic
spell; the "prepared ready" and "prepared expire" jobs.
*Operations*: prepare, gate (a rite or a healing that uses mana), harness, release
(spell, mana, cyclic spell), cast with its outcomes, cyclic tick and collapse,
regeneration, ready, expire, log in and out, restart, an operator's renew or combat reset.
*Hard*: the jobs carry no token of the spell they are for; two copies with different
lifetimes; a failed or unresolved cast; quotas, logouts and restarts that take jobs.
*Correct means*: a timer belongs to the spell prepared now; the copies never
contradict each other; a preparation ends.

### Components not modelled, or in part

| component | why |
|---|---|
| `typeclasses/characters.py` | 19505 lines behind the commands; the hooks and commands that drive the five components are translated in their modules, displays, skills, professions and inventory are not |
| Experience pulse (`exp_pulse.py`, `pulse_service.py`) | one key that its own callback schedules again, which `Scheduler` lets every callback do; what a tick does is arithmetic |
| Justice and guards, theft, burglary | tables of crimes and marks polled by shared tickers; nothing is scheduled, and nothing interleaves below one call |
| Combat, injuries, state and spell effects | rolls, wounds and durations within one call; what they do to a rite, a life or a spell is an action of `DeathCycle` or `SpellPreparation` |
| Fishing economy, onboarding, trap devices | prices and records; a linear script; one keyed job per device |
| Start-up, metrics, area forge, web, DireTest scenarios | wiring, reports and tooling; how DireTest drives the scheduler is `HarnessScheduler` |

The full list, and every hazard with its line and the properties about it, is in
`PROJECT.json`. Section 6 says what of the modelled components is left out.

## 2. Modules

| module | models | composes |
|---|---|---|
| `SchedulerQueue` | the job registry and every function that changes it, as operators from a registry to a registry | |
| `SchedulerCalls` | what callers may ask of it: the requests, and the bound on ids | `SchedulerQueue` |
| `JobLedger` | *abstract*: tickets and who holds a key; what the scheduler promises | |
| `Scheduler` | live timers: commands, timer callbacks and retries interleave | `SchedulerCalls`, implements `JobLedger` |
| `HarnessScheduler` | `flush_due()`, deferral and skipping, the interest flag | `SchedulerCalls`, implements `JobLedger` |
| `FishingSession` | one actor's session, pole, bag and place | `SchedulerQueue` |
| `Interest` | the interest registry driven by characters and items | |
| `DeathCycle` | deaths, bodies, rites of several clerics, graves, ways back | |
| `SpellPreparation` | one magic user's prepared spell, mana and timers | |
| `QueueProofs`, `QueueLedgerProofs` | lemmas about the operators of `SchedulerQueue` | |
| `SchedulerProofs`, `HarnessProofs`, `FishingProofs`, `InterestProofs`, `DeathProofs`, `SpellProofs` | theorems | |
| `MCScheduler`, `MCHarness`, `MCFishing`, `MCInterest`, `MCDeath`, `MCSpell` | values for TLC | |

**Registry as a value.** `reschedule()` is `cancel()` followed by `schedule()`,
eviction is pop, cancel, insert: in Python these are calls on module-level
dictionaries under one lock. In `SchedulerQueue` the dictionaries are the fields of
one record `q` and each function is an operator (`PopJob`, `Cancel`, `Insert`,
`ReplaceOldest`, `Delay`, `Admit`, `Schedule`, `RetryDelayed`, `Reschedule`) with
the same calls in the same order, so that one action of a driving module is one
whole call. The three drivers reuse it unchanged. `DeathCycle` and
`SpellPreparation` use a few keyed jobs each and say of the scheduler only what those
modules establish of it: a job that is cancelled does not fire, a new job of a key
takes the place of the old one, and a quota may refuse.

| code | model |
|---|---|
| `_ACTIVE_JOBS`, `_KEY_TO_JOB_ID` | `q.active`, `q.keyJob` |
| `_DELAYED_RETRY_JOBS`, `_DELAYED_KEY_TO_JOB_ID` | `q.delayed`, `q.delayedKey` |
| a live task in a record | `q.armed[job]`, with what it will call |
| scheduled-interest sources, flag | `q.sources`, `q.on` |
| uuid job ids, `created_at` | increasing naturals `q.next` |
| a callback on the stack | `running` (its job still registered, as in the code) |
| the job ids `flush_due()` collected | `flush.retries`, `flush.jobs` |
| `due_at` passed | `due` (set by `Elapse`) |
| `ndb.fishing_session`, `ndb.is_fishing` | `session`, `is_fishing` |
| `task` kept in `scheduled_callbacks`, `None` on refusal | `session.tasks` |
| `_INTEREST_REGISTRY[...]["sources"]` | `Interest!sources`, one element per entry |
| `db.prelogout_location` | `last` |
| `db.corpse_id` (and what `get_death_corpse()` finds) | `link` |
| `ndb.pending_cleric_ritual_action`, job `cleric_ritual` | `rite`, `job` (both with the rite's token) |
| the `revive_cleanup` jobs | `cleanup`, the bodies they will delete |
| `is_dead` with and without a death | `life`: "dead", "felled" |
| `ndb.prepared_mana`, `db.states["prepared_spell"]` | `prepared`, `shown` |
| `db.harnessed_mana`, `db.attunement` | `pool`, `attunement` |
| "prepared ready" and "prepared expire" jobs | `readyJob`, `expireJob`: the preparation each was scheduled for |

**Auxiliary.** A *ticket* names the accepted call a job serves, across delayed
retries, deferrals and reschedules; `q.fate` records what became of it. They are
only written, never read by a guard, except that a job re-armed from inside its own
callback gets a new ticket, since the old call has started. `made` numbers the
preparations of a spell and is read by no guard. `calm` is chosen once by `Init`
and never changes: in a calm behaviour no quota refuses and nobody restarts the
server (in `SpellPreparation` nobody logs out either; in `FishingSession` nothing
else is scheduled for the actor, but it restarts and logs out; in `DeathCycle` a
due cleanup also runs before the next death). Properties that need this name `calm`; the others
hold in both sorts of behaviour, in one run. `renewable` is such a choice, too: may an
operator renew the magic user? `untouched` in `FishingSession` is a history variable:
since the line was cast nobody else had the pole.

**Variants.** Definitions whose comment begins "Variant" are deliberately wrong
versions of the operator below them (a forgotten index, `>` for `>=`, a timer left
running). They are not part of any specification; substituted for the operator they
vary, each violates a property, which shows that the property can fail.
`PROJECT.json`, "mutants", pairs them.

**Abstractions.** Delays become "may fire now"; dice, skill, profiles and prices
become choices; log lines, metrics and operator reports are left out.

- *Scheduler.* Key normalisation is done before the model: `Keys` are normalised
  keys. `_build_metadata()` raises `ValueError` before any change when a call has
  neither owner nor system: an assumption on `Requests`.
- *Fishing.* Attempt tokens and job ids are the least unused value (uuids in the code:
  any unused value serves), so the state space is finite without a bound. `pole` is the
  pole `get_fishing_pole()` finds, the first the actor carries (`fishing.py:971`). Once
  it is dropped, lent or behind another one, others may rig, tangle or snap it
  (`_mark_tangled()` and `_mark_line_broken()` act on whatever pole their own actor
  carries), and the pole found next may be any: `PoleChangesHands`. What others' own
  sessions do is that action and no more.
- *Interest.* The map does not change, so the 30 s zone cache is always right. A room's
  own zone is its first area tag, else its region (`interest.py:230-264`), but the rooms of
  a zone are all that have the tag anywhere in their list, or the region, tagged or not
  (`interest.py:278-292`): `Zone` and `ZoneRooms` keep the two apart.
  Subjects are player characters (NPCs run the same hooks except login and logout),
  and objects are not deleted, so `set_target()`'s branch for a deleted target is
  left out. `_clear_combat_link()`, which the range tick and renewals use, is
  `LoseContact`. The aim and spell channels work like combat.
- *Death.* All bodies lie in one room; wounds, condition, ritual quality and favor are
  left out, and what devotion and mana decide is whether a rite may start. The
  administrators' renew, reset and kill commands are left out, as is a body whose owner is
  deleted, and a death of the spirit (`death.py:19`), which no caller asks for. Items go
  the way the coins go. An id is used again once nothing refers to it.
- *Spells.* Costs are small numbers and `pool` has a bound; cooldowns and access
  rules only refuse commands, except the one that drops the spell. `renew_state()`, also as part
  of `combat_reset_state()`, is `Renew`: it empties `db.states` and with it the shown copy
  and the cyclic spell, and leaves the service's copy and both timers.
- *Flushes.* No callback calls `flush_due()`, so flushes do not nest. A job that a
  callback schedules or reschedules without delay may or may not be due in the same flush
  (`DueAfterCall`), as the clock ticks.

## 3. Runs

| run | instance | checks |
|---|---|---|
| `SchedReject` | default quotas (`reject`, 2/2/3), 3 keys, 2 owners, 2 systems, 5 ids | `TypeOK`, `KeyIndexSound`, `QuotasHold`, `AcceptedStaysAccepted`, `ReplacedHasSuccessor` |
| `SchedMixed` | owner quota `delay`, system quota `replace_oldest` (1/1/2), fair reactor, 3 calls plus their retries | `TimersMatchJobs`, `SourcesMatchJobs`, `WaitsOnce`, `EveryTicketSettles`, refinement `LedgerSpec` |
| `HarnessFlush` | owner quota `delay`, flag toggled up to twice, callbacks raise or make jobs due, tasks cancelled behind the scheduler's back | `TypeOK`, `TasksMatchJobs`, `InactivePolicyNeverFires`, `DeferredAtMostOnce`, `FlushServesDue`, refinement `LedgerSpec` |
| `FishAttempt` | quota 3 and another key of the actor's, 3 rooms of which 2 have fish, 2 baits, a pole that changes hands, calm or not, fair timers | `TypeOK`, `TimersBelongToAttempt`, `AttemptHasReadyLine`, `AttemptStaysInRoom`, `CalmAttemptHasTimer`, `WaitsEnd` |
| `InterestFollows` | a mortal character, an item carried around, 5 rooms: one with two tags and a region, two with one tag, one with the region only, one in no zone | `TypeOK`, `PlacesFollowSubjects`, `ZonesFollowSubjects`, `CombatFollowsTarget`, `LoggedOutLeavesNothingNear` |
| `DeathRites` | 3 characters, 2 clerics, one of them mortal and with a crowded quota, 1 body, 1 grave, 2 failures are fatal, fair jobs | `TypeOK`, `SoulBoundAtLastStage`, `RitesHaveTheirJob`, `RitesAdvanceInOrder`, `RitesEnd` |
| `DeathBodies` | 2 mortal characters, one a cleric, 2 bodies, 1 grave, the first failure is fatal | `LinksLeadToOwnBody`, `BodiesAreAccountedFor`, `CoinsNeverGrow` |
| `SpellTimers` | attunement to 4, costs 1 and 2, pool to 4, calm or not, renewable or not, fair expiry | `TypeOK`, `TimersServeTheSpell`, `SpellHasTimers`, `ShownIsPrepared`, `SpellsEnd` |
| `SchedArgs` | jobs with positional callback arguments | *violated*: `NothingLost` |
| `FishStuck` | `FishAttempt`'s instance | *violated*: `AttemptHasTimer` |
| `InterestZone` | 2 characters, 3 of these rooms, no deaths | *violated*: `LoggedOutLeavesNoZone` |
| `DeathDecay` | `DeathBodies` with one body | *violated*: `DecayLeavesGrave` |

What the passing runs show, in words:

- *The scheduler is consistent under reentrancy.* Whatever a callback does to its
  own key before it returns, the `finally` clause removes the job it belongs to and
  not the one that replaced it; timers, tables, indexes and sources agree in every
  state. Calls refine a ledger in which a ticket is started at most once, a key has
  one holder, and an end is final.
- *Inactive policy.* A job's own source keeps its object active; `_skip_job()` and
  `_defer_job()` are reached only after the flag was switched, and then a job is
  deferred at most once, because deferring registers the source.
  `max_inactive_defers` is never exhausted.
- *The token check in fishing's callbacks is redundant*: no timer of an old attempt
  survives, calm or not. A quota refusal costs liveness (`FishStuck`), not safety.
  The line of an attempt stays ready through everything the actor does. It does not if
  somebody else has the pole during the attempt: the session never looks again, and
  `AttemptHasReadyLine` says nothing of such an attempt.
- *Interest of places is exact* for characters in the game, although logging out
  leaves zone sources behind: they are those of the room the character returns to. That
  zones overlap does no harm, because a move compares zone keys and both the old rooms
  and the new ones are found from a key in the same way.
- *A rite's token check is redundant, too*: every path that ends a rite also cancels its
  job. Several clerics never push a body past a stage nobody worked on, and the soul
  mark, which revival asks for beside the stage, always agrees with it.
- *Links and coins*: death, revival, resurrection, departure, decay and recovery in any
  order leave a link only to the dead character's own body, and create no coin.
- *Spells need no token*: every path that changes or drops the spell cancels both of its
  timers, so a callback that does not look which spell it was meant for is harmless. A
  renewed character keeps a spell that no command shows; its timers still end it.

### Bounds, and why they are enough

- `MaxId` bounds the ids callers may use; retries go beyond it, at most
  `MaxDelayAttempts` per ticket. Five ids let a key be replaced, rescheduled from
  its own callback and scheduled again while other jobs hold both quotas.
  `SchedMixed` and `HarnessFlush` have three calls, because of liveness checking and
  of toggles: one to fill a quota, one to be parked or to evict, one to race the retry.
- Quotas are 1 to 3 (5, 100, 1000 in the code): the comparison with the limit is
  what matters, and small limits are reached often. Every key belongs to one owner
  and system, as with all callers in the repository.
- `MaxDelayAttempts` is 1 or 2 (3), `MaxDefers` is 3 as in the code,
  `MaxToggles` 2: off and on again while a job waits.
- Fishing: the session's callbacks have three keys, so a quota of 3 with one other key
  is reached as a quota of 5 with three others is. Two tokens suffice because a cast
  takes one that no timer carries.
- Interest: the five rooms give moves within a zone (square to lane), between zones that
  share a room (lane to crypt, by a tag and by the region) and out of all zones. Teleports
  join any two rooms, so exits only matter for neighbours; one of them is one-way. One
  character and one item: every source carries its subject, stale sources on things that
  were carried away multiply, and a second character in this world is beyond five
  minutes. What two characters do to each other (an opponent that fights back) is
  covered by the theorems, for any number of them.
- Death: `Bodies` and `Graves` bound how many exist at once; a death or burial that finds
  no id free waits. One body is enough for what clerics do to each other's rites; two
  let a character die again while its old body is still there. `FatalFailures` is 2
  (3 in the code) where rites are the question, 1 where bodies are. Rite tokens
  alternate between two: a new rite differs from the job left by an old one, which is
  all the comparison in the callback needs.
- Spells: two costs and an attunement of four let a cast drain the pool in steps and a
  second preparation fail for want of mana. Three preparation numbers: at most two jobs
  could belong to other preparations than the newest.

### Fairness

Weak fairness of the reactor, nothing else. Twisted serves a timer that is due as
long as callbacks return, and the scheduler's lock is never held across a callback.
Players and other callers promise nothing: no command is fair.

- `Scheduler`: `WF(Finish)`, and weak fairness per job (`Begin` or `Retry` of that job).
- `FishingSession`: of `Timer` as a whole, since at most one timer can be armed there
  (`TimersBelongToAttempt`); it is spelled out as `[]<>(no timer) \/ []<><<Timer>>`,
  which says the same because `Timer` is enabled exactly while a timer is armed.
- `DeathCycle`: `WF(Complete(k))` per cleric, whose rite is one keyed job.
- `SpellPreparation`: per preparation, `WF(expireJob = made /\ Expire)`: an expiry that is
  replaced by a later preparation's need not run.

`EveryTicketSettles` holds although callers may reschedule, because they add a
bounded number of jobs; a job that is rescheduled for ever is never due in the code
either. `WaitsEnd`, `RitesEnd` and `SpellsEnd` are claimed where no quota refuses the
timer they rest on (calm behaviours; clerics who are not crowded).

## 4. Proofs

TLAPS proves, for every value of the constants allowed by the modules' assumptions
(each of the form `Spec => []P`, but `RitesAdvanceInOrder` and `CoinsNeverGrow` are
`Spec => [][A]_vars`, and the two refinements implications between specifications):

| module | theorem: property |
|---|---|
| `SchedulerProofs` | `TypeCorrect`: `TypeOK`; `KeyIndexCorrect`: `KeyIndexSound`; `TimersCorrect`: `TimersMatchJobs`; `SourcesCorrect`: `SourcesMatchJobs`; `TicketsCorrect`: `WaitsOnce`; `LedgerCorrect`: the refinement `LedgerSpec`; `OwnersAndTotalCorrect`: `OwnerQuotaHolds`, `TotalQuotaHolds`; `QuotasCorrect`: `QuotasHold`; `AcceptedCorrect`: `AcceptedStaysAccepted`; `SuccessorCorrect`: `ReplacedHasSuccessor` |
| `HarnessProofs` | `HarnessTypeCorrect`: `TypeOK`; `HarnessTasksCorrect`: `TasksMatchJobs`; `InactivePolicyCorrect`: `InactivePolicyNeverFires`; `FlushCorrect`: `FlushServesDue`; `HarnessLedgerCorrect`: the refinement `LedgerSpec`; `DeferralsCorrect`: `DeferredAtMostOnce` |
| `FishingProofs` | `ReadyLineCorrect`: `AttemptHasReadyLine`; `StaysInRoomCorrect`: `AttemptStaysInRoom`; `SessionTypeCorrect`: `TypeOK`; `TimersBelongCorrect`: `TimersBelongToAttempt`; `CalmTimerCorrect`: `CalmAttemptHasTimer` |
| `InterestProofs` | `TypeCorrect`: `TypeOK`; `LocationsCorrect`: the types of places; `PlacesCorrect`: `PlacesFollowSubjects`; `LogoutCorrect`: `LoggedOutLeavesNothingNear`; `ZonesCorrect`: `ZonesFollowSubjects`; `CombatCorrect`: `CombatFollowsTarget` |
| `DeathProofs` | `TypeCorrect`: `TypeOK`; `LinksCorrect`: `LinksLeadToOwnBody`; `SoulCorrect`: `SoulBoundAtLastStage`; `JobsCorrect`: `RitesHaveTheirJob`; `OrderCorrect`: `RitesAdvanceInOrder`; `BodiesCorrect`: `BodiesAreAccountedFor`; `CoinsCorrect`: `CoinsNeverGrow` |
| `SpellProofs` | `TypeCorrect`: `TypeOK`; `TimersCorrect`: `TimersServeTheSpell`; `CopiesCorrect`: `ShownIsPrepared`; `TimersComplete`: `SpellHasTimers` |

*Scheduler.* The invariant is `Sound(q)` (types and key indexes) with the types of
`running`. Neither half is inductive alone: that a popped record has a key to look
up needs the types, that an inserted id is new needs ids below `q.next`. There is
one lemma per operator of `SchedulerQueue`; a composed operator needs to know what
its parts did *not* do, which `Smaller` (only removes) and `Later` (never takes ids or
tickets back) carry along. The crux is `ScheduleLater`: after the key conflict is
settled the key is free, so `Insert` and `Delay` may index it.

*Timers, sources, tickets.* `Good(p, S, H, X)` adds to `Sound(p)` that timers, sources
and tickets fit the tables. `S` are the jobs whose task is gone, with their tickets: the
callback on the stack, and in `HarnessScheduler` also what was cancelled behind the
scheduler's back. `H` are the tickets *in hand*: `Reschedule`, `Delay` and
`RetryDelayed` take one from a job and give it to the next, and in between it
waits nowhere. `X` are the sources nothing is said of: none, until the flag is toggled.
Again one lemma per operator. `replace_oldest` needs that a set of
jobs has an oldest one (`Oldest`, from the well-founded order of finite subsets), and
sources need `IdAssumption`: a keyless job's source is its id, which must be nobody's key.

*Ledger.* `LedgerCorrect` reads each step of `Scheduler` as one step of `JobLedger`. One call is
several operators, and each of these withdraws some tickets (`Released`), serves one
(`Placed`) or ends one (`Ended`); `Outcome` is the first followed by one of the others, and
is what `schedule()` amounts to. `ReleasedTrans`, `OutcomeAfter` and `Retaken` say that
these compose: a ticket that `reschedule()` or a retry takes in hand and serves again is not
even a step of the ledger. The invariant is that of the timers with `LInv`, that the
tickets with fate `running` are that of the callback on the stack: a key may be lost
without its ticket being withdrawn only by that one. `OwnTicket` is the crux, that no other
job's key goes with a ticket.

*Quotas and acceptance.* `QuotasKept(n, p)` says which quotas a call keeps. An
insertion asks the owner's quota, then the system's, then the total, and acts on the first
that is violated. So an eviction for the owner never asks the system's quota:
`OwnersAndTotalCorrect` has no hypothesis, `QuotasCorrect` excludes `replace_oldest` for
owners, and section 5 says what TLC finds without it. An eviction keeps the others because
the evicted job leaves the room its successor takes (`GoneLeaves`, by cardinalities). Where the
quotas are met a reschedule finds room for the job it took out
(`RescheduleInserts`). `AcceptedCorrect` and `SuccessorCorrect` are stated for `NoParking`,
which the code's settings satisfy (all three behaviours are `reject` in
`scheduler.py`): a parked call was accepted and its retry may still be refused.
`SuccessorCorrect` also needs `OneOwnerPerKey`: callers put the owner's id in the key.

*Harness.* `HInv` is: there are jobs `S` without task such that `Good(q, S, {}, X)` and
`Stand(q, S, running)`, that each of them is on the stack or cancelled. `X` is empty until
the flag is toggled and all sources after. `FInv` says that the flush's list and the due
jobs are ids of jobs, and that a listed retry never becomes a job: ids are not used again
(`Fresh`). `Onward` says what no operator does: skip, drop, or change how often a job was
deferred. Each theorem adds its own invariant. `InactivePolicyCorrect`: while the sources
are exact, a job's own source keeps it active (`OwnSource`). `FlushCorrect`: while nothing
of a pass has run, all that is due is on its list (`GInv`); the pass that ends a flush is
such a one. `HarnessLedgerCorrect`: `CallOf` is the refinement's holder of a key, none
when the call was cancelled; `KeysStand` makes it follow the same `Outcome` and `Released`
as in *Ledger*. `DeferralsCorrect`: a job that was deferred has its source, whatever the
flag did since (`Backed`): it lacked it when it was deferred, its source is no other
job's, and with the quotas met there is room for it to come back at once. This is why the
theorem, like `QuotasCorrect`, excludes `replace_oldest` for owners.

*Fishing.* Line and room rest on one invariant, `Steady(s, p, l)`: an attempt has a ready
line (`LineReady`: if the pole is `untouched`) *and* is in its fishable room, and outside
an attempt the flag is down. That the pole is untouched whenever there is no attempt is
part of it. Every function of the code is an operator on what it passes along, so each has
a lemma that says what it does to session and pole; what the scheduler does with a
callback is of no account, which is why a refused, replaced or late one can never leave an
attempt without its line.

Timers need the registry as well. `TimersInv` says that it holds jobs of this actor only
and none is parked (`Whole`), that ids are new (`Fresh`), and that a timer which may fire has
the session's token, is the task the session remembers for its callback, and is for the
state the session is in (`Belong`). The property alone is not inductive: re-baiting and
resetting cancel the *remembered* tasks (`_clear_scheduled_callbacks()`), so a timer they miss
would be one nobody remembers. The functions are then of two sorts: those that leave no timer
(`Rest`), and `Arm`, which after such a one leaves at most one. A job id is the least
unused one in the model, and that there is always an unused one is a count (`FewJobs`): a key
has one job at most, and the session remembers one task per callback; this is why `OtherKeys`
is finite. `SessionAssumption` says that `None` is no session.
`CalmTimerCorrect` adds `MannedInv`, that an attempt has a timer. It is stated for
`Roomy`: all three quotas are at least 3, the number of the session's callbacks, where the
code has 5, 100 and 1000 (`scheduler.py:35-37`). The theorem is about an actor who has these
quotas to itself; what happens to one who has not is `FishStuck`.

*Interest.* `PlacesFollowSubjects` is inductive with the types of `location`.
`LoggedOutLeavesNothingNear` needs `NearSourcesOnline`: room and proximity sources carry
no tag, or removal "everywhere" would miss one. `ZonesFollowSubjects` is not inductive: a
logout leaves zone sources, and a login has no previous room to clean. `ZonesKept` adds
that what is left belongs to the zone of `last`, the room the character returns to.
Nothing is asked of how `ZoneRooms` and `Zone` fit together. Lemmas say what
`sync_subject_interest()` does to one sort of entry (`SyncedRooms`, `SyncedNeighbours`,
`SyncedZones`, `SyncedCombat`).

*Death.* The actions are first classified by what they do to a body (`BodySteps`: made,
left alone, raised a stage by a rite, thrown back by a failure), then each invariant follows
from the classes. `OrderCorrect` needs what the code relies on silently: a failed rite must
never *raise* the stage. A failure throws the body to a stage named by the rite, so this
holds only if the body is not below that stage. `SoloAtItsStage` says why: a cleric at work is a
helper of the body, and while it is the only one the body stays where its rite began;
with company, `Support` keeps the failure from throwing it anywhere.
`BodiesCorrect` rests on `AccountedFor`, which adds what calm behaviours keep of `cleanup`.
`CoinsCorrect` is about a sum, which the library folds over a finite set in an order it
chooses. `SumsTake` says that any summand may be taken out first, `SumsAgree` that nothing else
counts, `SumsExist` that there is such a fold at all, each by a least counterexample among the
subsets (`LeastSet`), since the library's induction takes an operator. With these a body that
comes or goes changes the sum by its coins (`CoinsOut`), and there is a lemma for each way the
coins take. Deaths and resurrections need `LinksLeadToOwnBody`: with another's
body behind the link they would move coins between characters.

*Spells.* `TypeOK`, `TimersServeTheSpell`, `ShownIsPrepared` and `SpellHasTimers` are
inductive together, and not one by one: that a cast may clear both copies needs that
both exist, and that `Ready` finds its own spell needs the timers. A renewal may hide the
spell at any time, so no lemma may assume that a prepared spell is shown: `HoldKeeps` and
the step `Ready` keep a hidden spell hidden.

*Model-checked only*: liveness (`EveryTicketSettles`, `WaitsEnd`, `RitesEnd`,
`SpellsEnd`), which is out of the provers' reach. Every other property of a passing run is
the statement of a theorem.

## 5. Where code and documents disagree

Listed as findings, with a run each: `SchedArgs` (`reschedule()` passes `key=` with
`*args` and loses the job to a `TypeError`), `FishStuck` (a refused callback is stored
as `None` and the session waits for ever), `InterestZone` (logging out does not clear
the zone), `DeathDecay` (the scheduled decay deletes the corpse and leaves no grave).

Seen as well, and kept as definitions that TLC refutes when they are put into the
named instance:

| definition | instance | what happens |
|---|---|---|
| `SystemQuotaHolds` | `SchedReject.cfg` with owner behaviour `replace_oldest`, `CrossedRequests`, quotas 2/2/4 | eviction for the owner inserts without asking the system quota (`scheduler.py:485`); no code sets this configuration |
| `ReplacedHasSuccessor` | `SchedReject.cfg` with `SharedKeyRequests`, quotas 1/2/3 | a key shared by two owners: the accepted job is cancelled, its successor refused (`scheduler.py:971`); no caller shares keys |
| `JobsHaveTimers` | `FishAttempt.cfg` | `fishing.py:676` cancels the task, not the job: a hooked fish leaves its nibble-timeout job registered until the key is used again, counting against the owner's five |
| `CatchStaysInRoom` | `FishAttempt.cfg` | junk or an event on the line survives leaving the room, against `docs/systems/fishingAsBuilt.md:415` |
| `FightsEnd` | `InterestFollows.cfg` | `death.py:33` and `_clear_combat_link()` (`characters.py:1097`) assign `db.target` without `set_target()`: the source stays |
| `ThingsFollowSubjects` | `InterestFollows.cfg` | `sync_room_interest()` reaches what is in the room at that moment: an item dropped later is not active, one carried away stays active |
| `RevivalKeepsCoins` | `DeathBodies.cfg` | `perform_cleric_revive()` (`characters.py:5309-5382`) leaves the purse with the body that the cleanup deletes; `player-integrity-spec.md:55` wants carried things kept across resurrection |

What the modules say without a property of its own:

- A revived character's old body goes by a job. If a quota refuses it, or a restart loses
  it, the body stays, and its decay unlinks the body of the owner's *next* death
  (`corpse.py:608`): `BodiesAreAccountedFor` is claimed for calm behaviours only.
- A character felled by a destroyed vital part is dead without a death: no corpse is made,
  and departing leaves an empty grave (`Fell`).
- A logout leaves the cleric's rite pending; its job then fails it (`Unpuppet`).
- Logging out cancels both timers of a prepared spell and keeps the spell; logging in
  schedules neither again, so the spell neither gets ready nor lapses
  (`characters.py:1410`). After a restart the commands see a spell the service has lost.
- `gate_mana_effect()` prepares and clears in passing: a rite destroys the player's own
  prepared spell and spends no attunement.
- `renew_state()` wipes `db.states` (`characters.py:8752`): the service's spell can then be
  neither cast nor released, since both commands look at the other copy.
- A pole that was lent during a cast and comes back tangled or broken leaves the attempt going
  on with a line that could not have been cast (`fishing.py:1116-1137`).
- A cast that `resolve_spell()` does not resolve takes its mana and leaves the spell
  prepared, showing the mana it held before.

## 6. Not modelled, and what is left

*Not modelled within the components.* The scheduler's metrics, snapshot and registry of
named event callbacks (lookups); the aim and spell channels of interest (as combat);
zone edits by builders against the 30 s cache (the map is fixed); borrowed fishing gear,
whose return job is one more job a quota may refuse; formulas for costs, power,
devotion and chances; the regeneration chain's own job. Hazards that lie there are listed in
`PROJECT.json` without a property, with the reason.

*Not modelled at all*: the components of the second table of section 1. They are
arithmetic, tables and scripts within one call, where a model would only repeat the code.

*Left to prove.* No property of a run but liveness. What the runs do not ask: an abstract
specification of a rite (begun, then done, failed or stopped) which `DeathCycle` and
`SpellPreparation` would both implement, as the two schedulers implement `JobLedger`.
