----------------------------- MODULE SpellProofs -----------------------------
(***************************************************************************)
(* Proofs about SpellPreparation for any costs and any amount of mana: the *)
(* timers that may fire are the prepared spell's own, and both copies of   *)
(* the spell agree, whatever commands, timers, logouts, restarts and       *)
(* renewals come.                                                          *)
(***************************************************************************)
EXTENDS SpellPreparation, TLAPS

\* Together they are inductive: a copy that disagreed could be shown again, and a
\* timer of another spell would act on this one.
IInv == TypeOK /\ TimersServeTheSpell /\ ShownIsPrepared /\ SpellHasTimers

-----------------------------------------------------------------------------
(* Helpers *)

LEMMA NoneIsNothing == None \notin Prepared /\ None \notin Shown /\ None \notin Made
BY SpellAssumption, NoneAssumption DEF Shown, Made

\* A preparation gets a number that neither a timer nor the spell before it has.
LEMMA NextMadeTyped ==
  ASSUME TypeOK, TimersServeTheSpell
  PROVE  NextMade \in Made
<1> DEFINE taken == {readyJob, expireJob} \cup (IF prepared = None THEN {} ELSE {prepared.made})
<1>1. \E n \in Made : taken \subseteq {None, n}
  BY DEF TypeOK, TimersServeTheSpell, Prepared, Made
<1>2. \E n \in Made \ taken : \A m \in Made \ taken : n <= m
  BY <1>1, SpellAssumption DEF Made
<1>3. NextMade = Min(Made \ taken)
  BY DEF NextMade
<1> HIDE DEF taken
<1>4. NextMade \in Made \ taken
  BY <1>2, <1>3 DEF Min
<1> QED BY <1>4

LEMMA CopyTyped ==
  ASSUME NEW p \in Prepared
  PROVE  Copy(p) \in Shown /\ Copy(p) # None
<1>1. Copy(p) \in Shown
  BY DEF Copy, Prepared, Shown
<1> QED BY <1>1, NoneIsNothing

-----------------------------------------------------------------------------
(* What commands and timers are made of *)

\* The mana and the sessions may change as they like within their types.
Elsewhere ==
  /\ calm' = calm /\ renewable' = renewable /\ online' \in BOOLEAN
  /\ pool' \in Nat /\ attunement' \in 0..MaxAttunement
  /\ cyclic' \in {None, "held", "attunement"}

LEMMA UnpreparedKeeps ==
  ASSUME IInv, Unprepared, Elsewhere
  PROVE  IInv'
BY DEF IInv, Unprepared, Elsewhere, TypeOK, TimersServeTheSpell, ShownIsPrepared, SpellHasTimers, Copy

LEMMA ClearKeeps ==
  ASSUME IInv, Clear, Elsewhere
  PROVE  IInv'
BY DEF IInv, Clear, Elsewhere, TypeOK, TimersServeTheSpell, ShownIsPrepared, SpellHasTimers

\* The pool changes, and both copies learn of it.
LEMMA HoldKeeps ==
  ASSUME IInv, Elsewhere, Hold(pool'), UNCHANGED <<readyJob, expireJob>>,
         Sync(prepared') \/ (prepared = None /\ UNCHANGED shown)
  PROVE  IInv'
<1>1. CASE prepared = None
  BY <1>1 DEF IInv, Hold, Sync, Elsewhere, TypeOK, TimersServeTheSpell, ShownIsPrepared, SpellHasTimers
<1>2. CASE prepared # None
  <2>1. prepared \in Prepared
    BY <1>2 DEF IInv, TypeOK
  <2>2. /\ prepared' \in Prepared
        /\ prepared'.made = prepared.made /\ prepared'.ready = prepared.ready
    BY <1>2, <2>1 DEF Hold, Elsewhere, Prepared
  <2>3. prepared' # None
    BY <2>2, NoneIsNothing
  <2>4. IF shown = None THEN shown' = None
        ELSE shown' = Copy(prepared') /\ shown' \in Shown /\ shown' # None
    BY <1>2, <2>2, <2>3, CopyTyped DEF Sync
  <2> QED BY <1>2, <2>2, <2>3, <2>4 DEF IInv, Elsewhere, TypeOK, TimersServeTheSpell, ShownIsPrepared,
                                       SpellHasTimers
<1> QED BY <1>1, <1>2

\* The spell is replaced, and the timers with it.
LEMMA PrepareKeeps ==
  ASSUME IInv, NEW mana \in Costs, NEW slow \in BOOLEAN, Prepare(mana, slow)
  PROVE  IInv'
<1> DEFINE p == [made |-> NextMade, mana |-> mana, held |-> pool, ready |-> ~slow]
<1>1. NextMade \in Made /\ pool \in Nat
  BY NextMadeTyped DEF IInv, TypeOK
<1>2. /\ p \in Prepared /\ p # None /\ p.made = NextMade /\ p.ready = ~slow
      /\ Copy(p) \in Shown /\ Copy(p) # None
  <2>1. p \in Prepared
    BY <1>1 DEF Prepared
  <2> QED BY <2>1, CopyTyped, NoneIsNothing
<1>3. NextMade # None
  BY <1>1, NoneIsNothing
<1>4. /\ prepared' = p /\ shown' = Copy(p)
      /\ IF slow THEN Arm(readyJob', NextMade) ELSE readyJob' = None
      /\ Arm(expireJob', NextMade)
      /\ UNCHANGED <<pool, attunement, cyclic, calm, renewable, online>>
  BY DEF Prepare, Untouched
<1> HIDE DEF p
<1> QED BY <1>1, <1>2, <1>3, <1>4 DEF IInv, Arm, TypeOK, TimersServeTheSpell, ShownIsPrepared,
                                      SpellHasTimers

-----------------------------------------------------------------------------
(* Steps *)

LEMMA CommandKeeps ==
  ASSUME IInv, Command
  PROVE  IInv'
<1>0. /\ pool \in Nat /\ attunement \in 0..MaxAttunement /\ MaxAttunement \in Nat
      /\ Costs \subseteq Nat /\ online \in BOOLEAN /\ cyclic \in {None, "held", "attunement"}
      /\ \A n \in Costs : n \in Nat
  BY SpellAssumption DEF IInv, TypeOK
<1>1. ASSUME NEW n \in Costs, Prepare(n, TRUE) \/ Prepare(n, FALSE)
      PROVE  IInv'
  BY <1>1, PrepareKeeps
<1>2. CASE ReleaseSpell \/ CastForbidden \/ \E n \in Costs : Gate(n)
  <2>1. Clear /\ Elsewhere
    BY <1>0, <1>2 DEF ReleaseSpell, CastForbidden, Gate, Untouched, Elsewhere
  <2> QED BY <2>1, ClearKeeps
<1>3. ASSUME NEW n \in Costs, NEW cost \in 0..MaxAttunement, Harness(n, cost)
      PROVE  IInv'
  <2>1. pool' = pool + n /\ attunement' = attunement - cost /\ attunement >= cost
    BY <1>3 DEF Harness, Hold
  <2>2. Elsewhere
    BY <1>0, <1>3, <2>1 DEF Harness, Untouched, Elsewhere
  <2>3. Hold(pool') /\ Sync(prepared') /\ UNCHANGED <<readyJob, expireJob>>
    BY <1>3, <2>1 DEF Harness
  <2> QED BY <2>2, <2>3, HoldKeeps
<1>4. CASE ReleaseMana
  <2>1. pool' = 0 /\ Hold(pool')
    BY <1>4 DEF ReleaseMana, Hold
  <2>2. Elsewhere
    BY <1>0, <1>4, <2>1 DEF ReleaseMana, Untouched, Elsewhere
  <2>3. (Sync(prepared') \/ (prepared = None /\ UNCHANGED shown)) /\ UNCHANGED <<readyJob, expireJob>>
    BY <1>4 DEF ReleaseMana
  <2> QED BY <2>1, <2>2, <2>3, HoldKeeps
<1>5. CASE ReleaseCyclic
  <2>1. Unprepared /\ Elsewhere
    BY <1>0, <1>5 DEF ReleaseCyclic, Untouched, Elsewhere
  <2> QED BY <2>1, UnpreparedKeeps
<1>6. ASSUME NEW used \in {0, pool}, NEW burnt \in 0..MaxAttunement, Cast(used, burnt)
      PROVE  /\ calm' = calm /\ renewable' = renewable /\ online' \in BOOLEAN /\ pool' \in Nat
             /\ attunement' \in 0..MaxAttunement
  <2>1. prepared.mana \in Nat
    BY <1>0, <1>6 DEF IInv, TypeOK, Prepared, Cast
  <2>2. pool' = pool - used /\ pool' \in Nat
    BY <1>0, <1>6 DEF Cast
  <2>3. attunement' = attunement - prepared.mana - burnt /\ attunement >= prepared.mana + burnt
    BY <1>6 DEF Cast
  <2>4. attunement' \in 0..MaxAttunement
    BY <1>0, <2>1, <2>3
  <2> QED BY <1>0, <1>6, <2>2, <2>4 DEF Cast, Untouched
<1>7. ASSUME NEW used \in {0, pool}, NEW burnt \in 0..MaxAttunement, CastFails(used, burnt)
      PROVE  IInv'
  BY <1>0, <1>6, <1>7, ClearKeeps DEF CastFails, Elsewhere
<1>8. CASE CastWorks
  BY <1>0, <1>6, <1>8, ClearKeeps DEF CastWorks, Elsewhere
<1>9. ASSUME NEW used \in {0, pool}, CastUnresolved(used)
      PROVE  IInv'
  BY <1>0, <1>6, <1>9, UnpreparedKeeps DEF CastUnresolved, Elsewhere
<1> QED BY <1>1, <1>2, <1>3, <1>4, <1>5, <1>7, <1>8, <1>9 DEF Command

LEMMA StepKeeps ==
  ASSUME IInv, [Next]_vars
  PROVE  IInv'
<1>0. /\ pool \in Nat /\ attunement \in 0..MaxAttunement /\ MaxAttunement \in Nat
      /\ Costs \subseteq Nat /\ online \in BOOLEAN /\ cyclic \in {None, "held", "attunement"}
  BY SpellAssumption DEF IInv, TypeOK
<1>1. CASE Command
  BY <1>1, CommandKeeps
<1>2. ASSUME NEW n \in Costs, CyclicTick(n)
      PROVE  IInv'
  <2>0. n \in Nat
    BY <1>0
  <2>1. CASE cyclic = "held"
    <3>1. pool' = pool - n /\ pool >= n /\ Hold(pool')
      BY <1>2, <2>1 DEF CyclicTick, Hold
    <3>2. /\ Sync(prepared') \/ (prepared = None /\ UNCHANGED shown)
          /\ UNCHANGED <<readyJob, expireJob>> /\ Elsewhere
      BY <1>0, <1>2, <2>0, <2>1, <3>1 DEF CyclicTick, Untouched, Elsewhere
    <3> QED BY <3>1, <3>2, HoldKeeps
  <2>2. CASE cyclic = "attunement"
    <3>1. Unprepared /\ attunement >= n /\ attunement' = attunement - n
      BY <1>2, <2>2 DEF CyclicTick
    <3>2. Elsewhere
      BY <1>0, <1>2, <2>0, <2>2, <3>1 DEF CyclicTick, Untouched, Elsewhere
    <3> QED BY <3>1, <3>2, UnpreparedKeeps
  <2> QED BY <1>2, <2>1, <2>2 DEF CyclicTick
<1>3. CASE CyclicCollapses \/ Regen \/ Puppet
  <2>1. CASE CyclicCollapses
    BY <1>0, <2>1, UnpreparedKeeps DEF CyclicCollapses, Untouched, Elsewhere
  <2>2. CASE Regen
    BY <1>0, <2>2, UnpreparedKeeps DEF Regen, Untouched, Elsewhere
  <2>3. CASE Puppet
    BY <1>0, <2>3, UnpreparedKeeps DEF Puppet, Elsewhere
  <2> QED BY <1>3, <2>1, <2>2, <2>3
<1>4. CASE Ready
  <2>1. Elsewhere /\ readyJob' = None /\ UNCHANGED expireJob /\ readyJob # None
    BY <1>0, <1>4 DEF Ready, Untouched, Elsewhere
  <2>2. prepared # None /\ prepared \in Prepared
    BY <2>1 DEF IInv, TimersServeTheSpell, TypeOK
  <2>3. prepared' = [prepared EXCEPT !.ready = TRUE] /\ Sync(prepared')
    BY <1>4, <2>2 DEF Ready
  <2>4. /\ prepared' \in Prepared /\ prepared' # None
        /\ prepared'.made = prepared.made /\ prepared'.ready = TRUE
    <3>1. /\ prepared' \in Prepared
          /\ prepared'.made = prepared.made /\ prepared'.ready = TRUE
      BY <2>2, <2>3 DEF Prepared
    <3> QED BY <3>1, NoneIsNothing
  <2>5. IF shown = None THEN shown' = None
        ELSE shown' = Copy(prepared') /\ shown' \in Shown /\ shown' # None
    BY <2>3, <2>4, CopyTyped DEF Sync
  <2> QED BY <2>1, <2>2, <2>4, <2>5 DEF IInv, Elsewhere, TypeOK, TimersServeTheSpell, ShownIsPrepared,
                                        SpellHasTimers
<1>5. CASE Expire
  <2>1. Elsewhere /\ expireJob # None
    BY <1>0, <1>5 DEF Expire, Untouched, Elsewhere
  <2>2. prepared # None
    BY <2>1 DEF IInv, TimersServeTheSpell
  <2> QED BY <1>5, <2>1, <2>2, ClearKeeps DEF Expire
<1>6. CASE Unpuppet \/ Restart
  <2>1. /\ ~calm /\ calm' = calm /\ renewable' = renewable /\ online' \in BOOLEAN /\ readyJob' = None /\ expireJob' = None
        /\ shown' = shown /\ prepared' \in {prepared, None}
        /\ UNCHANGED <<pool, attunement, cyclic>>
    BY <1>0, <1>6 DEF Unpuppet, Restart, Untouched
  <2>2. TypeOK' /\ TimersServeTheSpell' /\ SpellHasTimers'
    BY <2>1 DEF IInv, TypeOK, TimersServeTheSpell, SpellHasTimers
  <2>3. ShownIsPrepared'
    BY <2>1 DEF IInv, ShownIsPrepared, Copy
  <2> QED BY <2>2, <2>3 DEF IInv
<1>7. CASE Renew
  <2>1. /\ renewable /\ shown' = None /\ cyclic' = None /\ attunement' = MaxAttunement
        /\ UNCHANGED <<calm, renewable, online, prepared, pool, readyJob, expireJob>>
    BY <1>7 DEF Renew, Untouched
  <2>2. attunement' \in 0..MaxAttunement
    BY <1>0, <2>1
  <2> QED BY <1>0, <2>1, <2>2 DEF IInv, TypeOK, TimersServeTheSpell, ShownIsPrepared, SpellHasTimers
<1>8. CASE UNCHANGED vars
  BY <1>0, <1>8, UnpreparedKeeps DEF vars, Unprepared, Elsewhere
<1> QED BY <1>1, <1>2, <1>3, <1>4, <1>5, <1>6, <1>7, <1>8 DEF Next

-----------------------------------------------------------------------------
(* Theorems *)

THEOREM SpellInductive == Spec => []IInv
<1>1. Init => IInv
  BY SpellAssumption DEF Init, IInv, TypeOK, TimersServeTheSpell, ShownIsPrepared, SpellHasTimers
<1>2. IInv /\ [Next]_vars => IInv'
  BY StepKeeps
<1> QED BY <1>1, <1>2, PTL DEF Spec

\* Every variable keeps its shape: no pool and no attunement is overdrawn.
THEOREM TypeCorrect == Spec => []TypeOK
<1>1. IInv => TypeOK
  BY DEF IInv
<1> QED BY <1>1, SpellInductive, PTL

\* A timer that may fire is the prepared spell's own.
THEOREM TimersCorrect == Spec => []TimersServeTheSpell
<1>1. IInv => TimersServeTheSpell
  BY DEF IInv
<1> QED BY <1>1, SpellInductive, PTL

\* The copy the commands look at says what the service works on, never goes without
\* a renewal, and outlives the spell only by a restart.
THEOREM CopiesCorrect == Spec => []ShownIsPrepared
<1>1. IInv => ShownIsPrepared
  BY DEF IInv
<1> QED BY <1>1, SpellInductive, PTL

\* Without refusals, restarts and logouts a prepared spell has the timers it needs.
THEOREM TimersComplete == Spec => []SpellHasTimers
<1>1. IInv => SpellHasTimers
  BY DEF IInv
<1> QED BY <1>1, SpellInductive, PTL
=============================================================================
