----------------------------- MODULE DeathProofs -----------------------------
(***************************************************************************)
(* Proofs about DeathCycle for any number of characters, clerics, bodies   *)
(* and graves.  A failed rite is the one thing that may throw a body back, *)
(* so the lemmas about AfterFailure come first; each invariant then has    *)
(* one step per action that could disturb it.  What a character owns is a  *)
(* sum over bodies and graves: that a sum changes by the summand that goes *)
(* is proved first, by least counterexamples among the finite sets, and    *)
(* then there is a lemma for each way the coins take.                      *)
(***************************************************************************)
EXTENDS DeathCycle, FiniteSetTheorems, WellFoundedInduction, TLAPS

BodiesTyped(f) == DOMAIN f \subseteq Bodies /\ \A b \in DOMAIN f : f[b] \in Corpse

\* The steps that change none of life, link, corpses, rite and job.
Aside ==
  \/ \E k \in Clerics : Arrive(k) \/ Unpuppet(k)
  \/ \E g \in Graves : Recover(g) \/ Expire(g)

-----------------------------------------------------------------------------
(* Helpers *)

LEMMA MinOfTwo ==
  ASSUME NEW m \in Int, NEW n \in Int
  PROVE  Min({m, n}) = IF m <= n THEN m ELSE n
<1> DEFINE x == IF m <= n THEN m ELSE n
<1>1. x \in {m, n} /\ \A y \in {m, n} : x <= y
  OBVIOUS
<1>2. \A z \in {m, n} : (\A y \in {m, n} : z <= y) => z = x
  OBVIOUS
<1> QED BY <1>1, <1>2, SMT DEF Min

\* A failure counts, and leaves everything but the count and the validity alone.
LEMMA MarkedBody ==
  ASSUME NEW body \in Corpse
  PROVE  /\ Marked(body) \in Corpse
         /\ Marked(body).owner = body.owner /\ Marked(body).helpers = body.helpers
         /\ Marked(body).coins = body.coins
         /\ Marked(body).stage = body.stage /\ Marked(body).soul = body.soul
<1> DEFINE n == Min({body.failures + 1, FatalFailures})
<1>1. body.failures + 1 \in Int /\ FatalFailures \in Nat
  BY DeathAssumption DEF Corpse
<1>2. n \in 0..FatalFailures
  BY <1>1, MinOfTwo DEF Corpse
<1>3. Marked(body) = [body EXCEPT !.failures = n, !.valid = @ /\ n < FatalFailures]
  BY DEF Marked
<1> HIDE DEF n
<1>4. (n < FatalFailures) \in BOOLEAN
  OBVIOUS
<1> QED BY <1>2, <1>3, <1>4 DEF Corpse

\* What a failure of k's rite does to the bodies.
LEMMA AfterFailureFields ==
  ASSUME BodiesTyped(corpses), rite \in [Clerics -> Rite \cup {None}],
         NEW k \in Clerics
  PROVE  /\ BodiesTyped(AfterFailure(k)) /\ DOMAIN AfterFailure(k) = DOMAIN corpses
         /\ \A b \in DOMAIN corpses :
              /\ AfterFailure(k)[b].owner = corpses[b].owner
              /\ AfterFailure(k)[b].helpers = corpses[b].helpers
              /\ AfterFailure(k)[b].coins = corpses[b].coins
              /\ \/ /\ AfterFailure(k)[b].stage = corpses[b].stage
                    /\ AfterFailure(k)[b].soul = corpses[b].soul
                 \/ /\ rite[k] # None /\ b = rite[k].body
                    /\ Cardinality(Support(b, k)) <= 1
                    /\ AfterFailure(k)[b].stage = FallsTo[rite[k].action]
                    /\ AfterFailure(k)[b].soul = FALSE
<1> DEFINE f == AfterFailure(k)
<1>0. f = AfterFailure(k)
  OBVIOUS
<1> HIDE DEF f
<1>1. CASE rite[k] = None \/ rite[k].body \notin DOMAIN corpses
  BY <1>0, <1>1 DEF AfterFailure
<1>2. CASE ~(rite[k] = None \/ rite[k].body \notin DOMAIN corpses)
  <2> DEFINE c == rite[k].body
             alone == ~(Cardinality(Support(c, k)) > 1)
             marked == Marked(corpses[c])
             new == IF alone THEN [marked EXCEPT !.stage = FallsTo[rite[k].action], !.soul = FALSE]
                    ELSE marked
  <2>1. rite[k] \in Rite /\ c \in DOMAIN corpses /\ corpses[c] \in Corpse
    BY <1>2 DEF BodiesTyped
  <2>2. FallsTo[rite[k].action] \in Stages
    BY <2>1 DEF FallsTo, Rite, Actions, Stages
  <2>3. /\ marked \in Corpse /\ marked.owner = corpses[c].owner
        /\ marked.helpers = corpses[c].helpers /\ marked.coins = corpses[c].coins
        /\ marked.stage = corpses[c].stage /\ marked.soul = corpses[c].soul
    BY <2>1, MarkedBody
  <2>4. f = [corpses EXCEPT ![c] = new]
    BY <1>0, <1>2 DEF AfterFailure
  <2> HIDE DEF marked
  <2>5. /\ new \in Corpse /\ new.owner = corpses[c].owner /\ new.helpers = corpses[c].helpers
        /\ new.coins = corpses[c].coins
        /\ \/ new.stage = corpses[c].stage /\ new.soul = corpses[c].soul
           \/ alone /\ new.stage = FallsTo[rite[k].action] /\ new.soul = FALSE
    BY <2>2, <2>3 DEF Corpse
  <2>6. alone => Cardinality(Support(c, k)) <= 1
    <3>1. IsFiniteSet(Support(c, k))
      <4>1. Support(c, k) \subseteq Clerics
        BY <2>1 DEF Support, Corpse
      <4> QED BY <4>1, FS_Subset, DeathAssumption
    <3> QED BY <3>1, FS_CardinalityType
  <2> HIDE DEF new, alone
  <2>7. DOMAIN f = DOMAIN corpses /\ f[c] = new
        /\ \A b \in DOMAIN corpses \ {c} : f[b] = corpses[b]
    BY <2>1, <2>4
  <2>8. BodiesTyped(f)
    BY <2>5, <2>7 DEF BodiesTyped
  <2> QED BY <1>0, <1>2, <2>5, <2>6, <2>7, <2>8
<1> QED BY <1>1, <1>2

LEMMA WithFields ==
  ASSUME NEW f, NEW x, NEW y
  PROVE  /\ DOMAIN With(f, x, y) = DOMAIN f \cup {x} /\ With(f, x, y)[x] = y
         /\ \A z \in DOMAIN f \ {x} : With(f, x, y)[z] = f[z]
BY DEF With

LEMMA WithoutFields ==
  ASSUME NEW f, NEW x
  PROVE  /\ DOMAIN Without(f, x) = DOMAIN f \ {x}
         /\ \A z \in DOMAIN f \ {x} : Without(f, x)[z] = f[z]
BY DEF Without, Restrict

LEMMA UnlinkFields ==
  ASSUME NEW b, NEW c \in Chars
  PROVE  Unlink(b)[c] = IF link[c] = b THEN None ELSE link[c]
BY DEF Unlink

\* Tables stay typed when an entry comes or goes.
LEMMA WithTyped ==
  ASSUME NEW f, NEW x, NEW y, NEW S, NEW T,
         DOMAIN f \subseteq S, \A z \in DOMAIN f : f[z] \in T, x \in S, y \in T
  PROVE  DOMAIN With(f, x, y) \subseteq S /\ \A z \in DOMAIN With(f, x, y) : With(f, x, y)[z] \in T
BY DEF With

LEMMA WithoutTyped ==
  ASSUME NEW f, NEW x, NEW S, NEW T,
         DOMAIN f \subseteq S, \A z \in DOMAIN f : f[z] \in T
  PROVE  DOMAIN Without(f, x) \subseteq S /\ \A z \in DOMAIN Without(f, x) : Without(f, x)[z] \in T
BY DEF Without, Restrict

LEMMA GravesTyped ==
  ASSUME TypeOK, NEW g, NEW c \in Chars, NEW n \in Nat,
         \/ g \in Graves /\ graves' = With(graves, g, [owner |-> c, coins |-> n])
         \/ graves' = Without(graves, g)
  PROVE  /\ DOMAIN graves' \subseteq Graves
         /\ \A h \in DOMAIN graves' : graves'[h] \in [owner : Chars, coins : Nat]
BY DEF TypeOK, With, Without, Restrict

LEMMA AdvancedBody ==
  ASSUME NEW body \in Corpse, NEW a \in Actions \ {"revive"}, body.stage = Needs[a]
  PROVE  /\ Advanced(body, a) \in Corpse
         /\ Advanced(body, a).owner = body.owner /\ Advanced(body, a).helpers = body.helpers
         /\ Advanced(body, a).coins = body.coins
         /\ Advanced(body, a).stage = body.stage + 1
         /\ Advanced(body, a).soul = (body.soul \/ a = "bind")
<1> DEFINE soul == body.soul \/ a = "bind"
           memory == body.memory \/ a = "stabilize"
<1>1. soul \in BOOLEAN /\ memory \in BOOLEAN
  OBVIOUS
<1>2. Advanced(body, a) = [body EXCEPT !.stage = body.stage + 1, !.soul = soul, !.memory = memory]
  BY DEF Advanced
<1>3. body.stage + 1 \in Stages
  BY DEF Actions, Needs, Stages
<1> HIDE DEF soul, memory
<1>4. /\ Advanced(body, a) \in Corpse
      /\ Advanced(body, a).owner = body.owner /\ Advanced(body, a).helpers = body.helpers
      /\ Advanced(body, a).coins = body.coins
      /\ Advanced(body, a).stage = body.stage + 1 /\ Advanced(body, a).soul = soul
  BY <1>1, <1>2, <1>3 DEF Corpse
<1> QED BY <1>4 DEF soul

-----------------------------------------------------------------------------
(* Types *)

\* A blow breaks the rite of a cleric, and no one else's.
LEMMA BlowTyped ==
  ASSUME TypeOK, NEW c \in Chars, StopOwn(c)
  PROVE  /\ BodiesTyped(AfterBlow(c)) /\ DOMAIN AfterBlow(c) = DOMAIN corpses
         /\ rite' \in [Clerics -> Rite \cup {None}]
         /\ job' \in [Clerics -> Tokens \cup {None}]
<1>1. BodiesTyped(corpses) /\ rite \in [Clerics -> Rite \cup {None}]
  BY DEF TypeOK, BodiesTyped
<1>2. BodiesTyped(AfterBlow(c)) /\ DOMAIN AfterBlow(c) = DOMAIN corpses
  BY <1>1, AfterFailureFields DEF AfterBlow
<1> QED BY <1>2 DEF TypeOK, StopOwn, Stop, RiteEnds

\* What a rite that succeeds does to the bodies.
LEMMA SuccessFields ==
  ASSUME TypeOK, NEW k \in Clerics, RiteSucceeds(k)
  PROVE  /\ BodiesTyped(corpses') /\ DOMAIN corpses' = DOMAIN corpses
         /\ rite[k] \in Rite /\ rite[k].action # "revive"
         /\ \A b \in DOMAIN corpses :
              /\ corpses'[b].owner = corpses[b].owner
              /\ corpses'[b].helpers = corpses[b].helpers
              /\ corpses'[b].coins = corpses[b].coins
              /\ \/ corpses'[b] = corpses[b]
                 \/ /\ b = rite[k].body /\ corpses[b].stage = Needs[rite[k].action]
                    /\ corpses'[b].stage = corpses[b].stage + 1
                    /\ corpses'[b].soul = (corpses[b].soul \/ rite[k].action = "bind")
<1> DEFINE b == rite[k].body
           a == rite[k].action
<1>1. /\ rite[k] \in Rite /\ a \in Actions \ {"revive"}
      /\ b \in DOMAIN corpses /\ corpses[b] \in Corpse
      /\ corpses[b].stage >= Needs[a]
  BY DEF RiteSucceeds, Pending, CanWork, TypeOK, Rite
<1>2. corpses[b].stage \in Int /\ Needs[a] \in Int
  BY <1>1 DEF Corpse, Stages, Needs, Actions
<1>3. CASE corpses[b].stage > Needs[a]
  BY <1>1, <1>3 DEF RiteSucceeds, TypeOK, BodiesTyped
<1>4. CASE corpses[b].stage = Needs[a]
  <2>1. corpses' = [corpses EXCEPT ![b] = Advanced(corpses[b], a)]
    BY <1>2, <1>4 DEF RiteSucceeds
  <2>2. /\ DOMAIN corpses' = DOMAIN corpses
        /\ corpses'[b] = Advanced(corpses[b], a)
        /\ \A d \in DOMAIN corpses \ {b} : corpses'[d] = corpses[d]
    BY <1>1, <2>1
  <2>3. /\ Advanced(corpses[b], a) \in Corpse
        /\ Advanced(corpses[b], a).owner = corpses[b].owner
        /\ Advanced(corpses[b], a).helpers = corpses[b].helpers
        /\ Advanced(corpses[b], a).coins = corpses[b].coins
        /\ Advanced(corpses[b], a).stage = corpses[b].stage + 1
        /\ Advanced(corpses[b], a).soul = (corpses[b].soul \/ a = "bind")
    BY <1>1, <1>4, AdvancedBody
  <2> QED BY <1>1, <1>4, <2>2, <2>3 DEF TypeOK, BodiesTyped
<1> QED BY <1>1, <1>2, <1>3, <1>4

\* The invariant of the links is needed for the types: what a dead character takes
\* back is in the body its link leads to.
LEMMA TypesKept ==
  ASSUME TypeOK, LinksLeadToOwnBody, [Next]_vars
  PROVE  TypeOK'
<1>0. BodiesTyped(corpses) /\ rite \in [Clerics -> Rite \cup {None}]
  BY DEF TypeOK, BodiesTyped
<1>1. ASSUME NEW k \in Clerics, NEW b \in Bodies, NEW a \in Actions, StartRite(k, b, a)
      PROVE  TypeOK'
  <2>1. [action |-> a, body |-> b, token |-> NextToken(k)] \in Rite /\ NextToken(k) \in Tokens
    BY DEF Rite, NextToken, Tokens
  <2>2. BodiesTyped(corpses')
    BY <1>0, <1>1 DEF StartRite, BodiesTyped, Corpse
  <2>3. rite' \in [Clerics -> Rite \cup {None}] /\ job' \in [Clerics -> Tokens \cup {None}]
    BY <1>1, <2>1 DEF StartRite, TypeOK
  <2> QED BY <1>1, <2>2, <2>3 DEF StartRite, TypeOK, BodiesTyped
<1>2. ASSUME NEW k \in Clerics, NEW b \in Bodies, Revival(k, b), RiteEnds(k) \/ UNCHANGED rite,
             job' \in [Clerics -> Tokens \cup {None}]
      PROVE  TypeOK'
  <2>1. corpses[b].owner \in Chars
    BY <1>0, <1>2 DEF Revival, CanRevive, CanWork, BodiesTyped, Corpse
  <2> QED BY <1>2, <2>1 DEF Revival, Lives, TypeOK, RiteEnds
<1>3. ASSUME NEW k \in Clerics, Complete(k)
      PROVE  TypeOK'
  <2>0. job' \in [Clerics -> Tokens \cup {None}]
    BY <1>3 DEF Complete, RiteSucceeds, Revive, RiteFails, Due, TypeOK
  <2>1. CASE RiteSucceeds(k)
    BY <2>0, <2>1, SuccessFields DEF RiteSucceeds, RiteEnds, TypeOK, BodiesTyped
  <2>2. CASE Revive(k)
    BY <1>0, <1>2, <2>0, <2>2 DEF Revive, Pending, Rite
  <2>3. CASE RiteFails(k)
    BY <1>0, <2>0, <2>3, AfterFailureFields DEF RiteFails, RiteEnds, TypeOK, BodiesTyped
  <2> QED BY <1>3, <2>1, <2>2, <2>3 DEF Complete
<1>4. ASSUME NEW k \in Clerics, Hurt(k) \/ Leave(k)
      PROVE  TypeOK'
  <2>1. BodiesTyped(corpses')
    BY <1>0, <1>4, AfterFailureFields DEF Hurt, Leave
  <2> QED BY <1>4, <2>1 DEF Hurt, Leave, Stop, RiteEnds, TypeOK, BodiesTyped
<1>5. CASE Aside
  <2>1. ASSUME NEW k \in Clerics, Arrive(k) \/ Unpuppet(k)
        PROVE  TypeOK'
    BY <2>1 DEF Arrive, Unpuppet, TypeOK
  <2>2. ASSUME NEW g \in Graves, Recover(g) \/ Expire(g)
        PROVE  TypeOK'
    <3>1. /\ DOMAIN graves' \subseteq Graves
          /\ \A h \in DOMAIN graves' : graves'[h] \in [owner : Chars, coins : Nat]
      <4>1. graves' = Without(graves, g) /\ graves[g].owner \in Chars
        BY <2>2 DEF Recover, Expire, TypeOK
      <4> QED BY <4>1, GravesTyped
    <3>2. purse' \in [Chars -> Nat]
      BY <2>2 DEF Recover, Expire, TypeOK
    <3> QED BY <2>2, <3>1, <3>2 DEF Recover, Expire, TypeOK
  <2> QED BY <1>5, <2>1, <2>2 DEF Aside
<1>6. ASSUME NEW c \in Chars, Die(c)
      PROVE  TypeOK'
  <2>1. /\ BodiesTyped(AfterBlow(c)) /\ DOMAIN AfterBlow(c) = DOMAIN corpses
        /\ rite' \in [Clerics -> Rite \cup {None}]
        /\ job' \in [Clerics -> Tokens \cup {None}]
    BY <1>6, BlowTyped DEF Die
  <2>2. link[c] = None /\ purse[c] \in Nat
    BY <1>6 DEF Die, LinksLeadToOwnBody, Gone, TypeOK
  <2>3. PICK b \in FreeBodies :
          corpses' = With(AfterBlow(c), b, NewBody(c)) /\ link' = [link EXCEPT ![c] = b]
    BY <1>6, <2>2 DEF Die
  <2>4. NewBody(c) \in Corpse
    BY <2>2, DeathAssumption DEF NewBody, Corpse, Stages
  <2>5. b \in Bodies
    BY DEF FreeBodies
  <2>6. BodiesTyped(corpses') /\ link' \in [Chars -> Bodies \cup {None}]
    BY <2>1, <2>3, <2>4, <2>5, WithTyped DEF BodiesTyped, TypeOK
  <2> QED BY <1>6, <2>1, <2>6 DEF Die, TypeOK, BodiesTyped
<1>7. ASSUME NEW c \in Chars, Fell(c)
      PROVE  TypeOK'
  BY <1>7, BlowTyped DEF Fell, TypeOK, BodiesTyped
<1>8. ASSUME NEW b, Delete(b)
      PROVE  BodiesTyped(corpses')
  BY <1>0, <1>8, WithoutTyped DEF Delete, BodiesTyped
<1>9. ASSUME NEW b \in Bodies, Cleanup(b) \/ Decay(b)
      PROVE  TypeOK'
  <2>1. Unlink(b) \in [Chars -> Bodies \cup {None}]
    BY DEF Unlink, TypeOK
  <2>2. link' \in [Chars -> Bodies \cup {None}]
    BY <1>9, <2>1 DEF Cleanup, Decay
  <2> QED BY <1>8, <1>9, <2>2 DEF Cleanup, Decay, BodiesTyped, TypeOK
<1>10. ASSUME NEW b \in Bodies, Fade(b)
       PROVE  TypeOK'
  <2>1. BodiesTyped(corpses')
    BY <1>0, <1>10 DEF Fade, BodiesTyped, Corpse
  <2> QED BY <1>10, <2>1 DEF Fade, BodiesTyped, TypeOK
<1>11. ASSUME NEW b \in DOMAIN corpses, NEW coins \in Nat, Bury(b, coins)
       PROVE  /\ BodiesTyped(corpses')
              /\ DOMAIN graves' \subseteq Graves
              /\ \A g \in DOMAIN graves' : graves'[g] \in [owner : Chars, coins : Nat]
  <2>1. corpses[b].owner \in Chars
    BY <1>0 DEF BodiesTyped, Corpse
  <2>2. PICK g \in Graves : graves' = With(graves, g, [owner |-> corpses[b].owner, coins |-> coins])
    BY <1>11 DEF Bury
  <2> QED BY <1>8, <1>11, <2>1, <2>2, GravesTyped DEF Bury
<1>12. ASSUME NEW b \in Bodies, DecayCommand(b)
       PROVE  TypeOK'
  <2>1. b \in DOMAIN corpses /\ corpses[b].coins \in Nat
    BY <1>0, <1>12 DEF DecayCommand, BodiesTyped, Corpse
  <2>2. link' \in [Chars -> Bodies \cup {None}]
    BY <1>12 DEF DecayCommand, Unlink, TypeOK
  <2> QED BY <1>11, <1>12, <2>1, <2>2 DEF DecayCommand, TypeOK, BodiesTyped
<1>13. ASSUME NEW c \in Chars, Depart(c)
       PROVE  TypeOK'
  <2>1. CASE link[c] # None
    <3>1. PICK n \in Kept(corpses[link[c]].coins) : Bury(link[c], n)
      BY <1>13, <2>1 DEF Depart
    <3>2. link[c] \in DOMAIN corpses /\ n \in Nat
      BY <1>0, <2>1 DEF Kept, BodiesTyped, Corpse, LinksLeadToOwnBody
    <3> QED BY <1>11, <1>13, <3>1, <3>2 DEF Depart, Lives, TypeOK, BodiesTyped
  <2>2. CASE link[c] = None
    <3>1. PICK g \in Graves : graves' = With(graves, g, [owner |-> c, coins |-> 0])
      BY <1>13, <2>2 DEF Depart
    <3>2. /\ DOMAIN graves' \subseteq Graves
          /\ \A h \in DOMAIN graves' : graves'[h] \in [owner : Chars, coins : Nat]
      BY <3>1, GravesTyped
    <3> QED BY <1>13, <2>2, <3>2 DEF Depart, Lives, TypeOK
  <2> QED BY <2>1, <2>2
<1>14. ASSUME NEW c \in Chars, Resurrect(c)
       PROVE  TypeOK'
  <2>1. BodiesTyped(corpses') /\ purse' \in [Chars -> Nat]
    BY <1>0, <1>8, <1>14 DEF Resurrect, LinksLeadToOwnBody, BodiesTyped, Corpse, TypeOK
  <2> QED BY <1>14, <2>1 DEF Resurrect, Lives, BodiesTyped, TypeOK
<1>15. CASE Restart
  BY <1>15 DEF Restart, TypeOK
<1>16. CASE UNCHANGED vars
  BY <1>16 DEF vars, TypeOK
<1>17. ASSUME NEW k \in Clerics, NEW b \in Bodies, CastRevival(k, b)
       PROVE  TypeOK'
  BY <1>2, <1>17 DEF CastRevival, TypeOK
<1> QED BY <1>1, <1>3, <1>4, <1>5, <1>6, <1>7, <1>9, <1>10, <1>12, <1>13, <1>14, <1>15, <1>16,
           <1>17 DEF Next, Aside

-----------------------------------------------------------------------------
(* Links *)

\* Bodies keep their owners and coins as long as they are there.  (Alike also
\* serves for graves.)
Alike(f, g, b) == g[b].owner = f[b].owner /\ g[b].coins = f[b].coins
OwnersKept == \A b \in DOMAIN corpses \cap DOMAIN corpses' : Alike(corpses, corpses', b)

\* The bodies are worked on, and nothing else happens to them.
LEMMA RiteKeepsOwners ==
  ASSUME TypeOK, NEW k \in Clerics,
         \/ \E b \in Bodies, a \in Actions : StartRite(k, b, a)
         \/ RiteSucceeds(k) \/ RiteFails(k) \/ Hurt(k) \/ Leave(k)
  PROVE  DOMAIN corpses' = DOMAIN corpses /\ OwnersKept /\ life' = life /\ link' = link
<1>0. BodiesTyped(corpses) /\ rite \in [Clerics -> Rite \cup {None}]
  BY DEF TypeOK, BodiesTyped
<1>1. CASE \E b \in Bodies, a \in Actions : StartRite(k, b, a)
  <2> PICK b \in Bodies, a \in Actions : StartRite(k, b, a)
    BY <1>1
  <2>1. b \in DOMAIN corpses /\ corpses[b] \in Corpse
    BY <1>0 DEF StartRite, BodiesTyped
  <2> QED BY <2>1 DEF StartRite, Alike, OwnersKept, Corpse
<1>2. CASE RiteSucceeds(k)
  BY <1>2, SuccessFields DEF RiteSucceeds, Alike, OwnersKept
<1>3. CASE RiteFails(k) \/ Hurt(k) \/ Leave(k)
  <2> DEFINE f == AfterFailure(k)
  <2>1. DOMAIN f = DOMAIN corpses /\ \A b \in DOMAIN f : Alike(corpses, f, b)
    BY <1>0, AfterFailureFields DEF Alike
  <2>2. corpses' \in {corpses, f} /\ life' = life /\ link' = link
    BY <1>3 DEF RiteFails, Hurt, Leave
  <2> HIDE DEF f
  <2> QED BY <2>1, <2>2 DEF Alike, OwnersKept
<1> QED BY <1>1, <1>2, <1>3

LEMMA BlowKeepsOwners ==
  ASSUME TypeOK, NEW c \in Chars
  PROVE  \A b \in DOMAIN corpses : Alike(corpses, AfterBlow(c), b)
<1> DEFINE f == AfterFailure(c)
<1>1. BodiesTyped(corpses) /\ rite \in [Clerics -> Rite \cup {None}]
  BY DEF TypeOK, BodiesTyped
<1>2. c \in Clerics => DOMAIN f = DOMAIN corpses /\ \A b \in DOMAIN f : Alike(corpses, f, b)
  BY <1>1, AfterFailureFields DEF Alike
<1>3. AfterBlow(c) = IF c \in Clerics THEN f ELSE corpses
  BY DEF AfterBlow
<1> QED BY <1>2, <1>3 DEF Alike

LEMMA LinksKept ==
  ASSUME TypeOK, LinksLeadToOwnBody, [Next]_vars
  PROVE  LinksLeadToOwnBody'
<1> USE DEF LinksLeadToOwnBody
<1>0. link \in [Chars -> Bodies \cup {None}] /\ life \in [Chars -> {"alive", "dead", "felled"}]
      /\ \A c \in Chars : link[c] # None =>
           life[c] # "alive" /\ link[c] \in DOMAIN corpses /\ corpses[link[c]].owner = c
  BY DEF TypeOK, Gone
<1>1. CASE DOMAIN corpses' = DOMAIN corpses /\ OwnersKept /\ life' = life /\ link' = link
  BY <1>1 DEF Alike, OwnersKept, Gone
<1>2. ASSUME NEW k \in Clerics,
             \/ \E b \in Bodies, a \in Actions : StartRite(k, b, a)
             \/ RiteSucceeds(k) \/ RiteFails(k) \/ Hurt(k) \/ Leave(k)
      PROVE  LinksLeadToOwnBody'
  BY <1>1, <1>2, RiteKeepsOwners
<1>3. ASSUME NEW k \in Clerics, NEW b \in Bodies, Revival(k, b)
      PROVE  LinksLeadToOwnBody'
  BY <1>0, <1>3 DEF Revival, Lives, Gone
<1>4. CASE Aside \/ Restart \/ UNCHANGED vars
  BY <1>1, <1>4 DEF Aside, Arrive, Unpuppet, Recover, Expire, Restart, vars, Alike, OwnersKept
<1>5. ASSUME NEW c \in Chars, Die(c)
      PROVE  LinksLeadToOwnBody'
  <2>1. DOMAIN AfterBlow(c) = DOMAIN corpses
        /\ \A d \in DOMAIN corpses : AfterBlow(c)[d].owner = corpses[d].owner
    BY <1>5, BlowKeepsOwners, BlowTyped DEF Alike, Die
  <2>2. link[c] = None
    BY <1>0, <1>5 DEF Die
  <2>3. PICK b \in FreeBodies :
          corpses' = With(AfterBlow(c), b, NewBody(c)) /\ link' = [link EXCEPT ![c] = b]
    BY <1>5, <2>2 DEF Die
  <2>4. /\ DOMAIN corpses' = DOMAIN corpses \cup {b}
        /\ b \notin DOMAIN corpses /\ corpses'[b].owner = c
        /\ \A d \in DOMAIN corpses : corpses'[d].owner = corpses[d].owner
    <3>1. b \notin DOMAIN corpses /\ NewBody(c).owner = c
      BY DEF FreeBodies, NewBody
    <3> QED BY <2>1, <2>3, <3>1 DEF With
  <2> QED BY <1>0, <1>5, <2>3, <2>4 DEF Die, Gone
<1>6. ASSUME NEW c \in Chars, Fell(c)
      PROVE  LinksLeadToOwnBody'
  <2>1. DOMAIN corpses' = DOMAIN corpses
        /\ \A d \in DOMAIN corpses : corpses'[d].owner = corpses[d].owner
    BY <1>6, BlowKeepsOwners, BlowTyped DEF Alike, Fell
  <2> QED BY <1>0, <1>6, <2>1 DEF Fell, Gone
<1>7. ASSUME NEW b, Delete(b)
      PROVE  DOMAIN corpses' = DOMAIN corpses \ {b} /\ OwnersKept
  BY <1>7 DEF Delete, Alike, OwnersKept, Without, Restrict
<1>8. ASSUME NEW b \in Bodies, Cleanup(b) \/ Decay(b) \/ DecayCommand(b)
      PROVE  LinksLeadToOwnBody'
  <2>1. DOMAIN corpses' = DOMAIN corpses \ {b} /\ OwnersKept /\ life' = life
    BY <1>7, <1>8 DEF Cleanup, Decay, DecayCommand, Bury
  <2>2. \A c \in Chars : link'[c] # None => link'[c] = link[c] /\ link[c] # b
    <3>1. \A c \in Chars : Unlink(b)[c] # None => Unlink(b)[c] = link[c] /\ link[c] # b
      BY UnlinkFields
    <3>2. DOMAIN Unlink(b) = Chars
      BY DEF Unlink
    <3>3. link' = Unlink(b) \/ link' = [Unlink(b) EXCEPT ![corpses[b].owner] = None]
      BY <1>8 DEF Cleanup, Decay, DecayCommand
    <3> QED BY <3>1, <3>2, <3>3
  <2> QED BY <1>0, <2>1, <2>2 DEF Alike, OwnersKept, Gone
<1>9. ASSUME NEW b \in Bodies, Fade(b)
      PROVE  LinksLeadToOwnBody'
  <2>1. DOMAIN corpses' = DOMAIN corpses /\ OwnersKept /\ life' = life /\ link' = link
    BY <1>9 DEF Fade, Alike, OwnersKept, TypeOK, Corpse
  <2> QED BY <1>1, <2>1
<1>10. ASSUME NEW c \in Chars, Depart(c) \/ Resurrect(c)
       PROVE  LinksLeadToOwnBody'
  <2>1. life' = [life EXCEPT ![c] = "alive"] /\ link' = [link EXCEPT ![c] = None]
    BY <1>10 DEF Depart, Resurrect, Lives
  <2>2. Delete(link[c]) \/ corpses' = corpses
    BY <1>10 DEF Depart, Resurrect, Bury
  <2>3. \A b \in DOMAIN corpses : b # link[c] => b \in DOMAIN corpses' /\ corpses'[b].owner = corpses[b].owner
    <3>1. CASE Delete(link[c])
      <4>1. DOMAIN corpses' = DOMAIN corpses \ {link[c]} /\ OwnersKept
        BY <1>7, <3>1
      <4> QED BY <4>1 DEF Alike, OwnersKept
    <3>2. CASE corpses' = corpses
      BY <3>2
    <3> QED BY <2>2, <3>1, <3>2
  <2> QED BY <1>0, <2>1, <2>3 DEF Gone
<1> QED BY <1>2, <1>3, <1>4, <1>5, <1>6, <1>8, <1>9, <1>10 DEF Next, Complete, CastRevival, Revive,
           Aside, Pending, TypeOK, Rite

\* Types and links: for any number of everything, whoever is dead leads to its own
\* body or to none, and nobody alive leads to any.
THEOREM LinksCorrect == Spec => [](TypeOK /\ LinksLeadToOwnBody)
<1>1. Init => TypeOK /\ LinksLeadToOwnBody
  BY DeathAssumption DEF Init, TypeOK, LinksLeadToOwnBody
<1>2. TypeOK /\ LinksLeadToOwnBody /\ [Next]_vars => (TypeOK /\ LinksLeadToOwnBody)'
  BY TypesKept, LinksKept
<1> QED BY <1>1, <1>2, PTL DEF Spec

\* Every variable keeps its shape.
THEOREM TypeCorrect == Spec => []TypeOK
BY LinksCorrect, PTL

-----------------------------------------------------------------------------
(* Stages *)

\* What a step may do to a body that stays: nothing to its stage; throw it back,
\* by the failed rite of a cleric who works alone; or raise it, by a rite of
\* just its stage.  The rite of whoever did it is over.
Same(b) == corpses'[b].stage = corpses[b].stage /\ corpses'[b].soul = corpses[b].soul
Thrown(b, k) ==
  /\ rite[k] # None /\ rite'[k] = None /\ b = rite[k].body
  /\ Cardinality(Support(b, k)) <= 1
  /\ corpses'[b].stage = FallsTo[rite[k].action] /\ corpses'[b].soul = FALSE
Raised(b, k) ==
  /\ rite[k] # None /\ rite'[k] = None /\ b = rite[k].body /\ rite[k].action # "revive"
  /\ corpses[b].stage = Needs[rite[k].action]
  /\ corpses'[b].stage = corpses[b].stage + 1
  /\ corpses'[b].soul = (corpses[b].soul \/ rite[k].action = "bind")
Old(b) ==
  /\ b \in DOMAIN corpses /\ corpses[b].helpers \subseteq corpses'[b].helpers
  /\ Same(b) \/ \E k \in Clerics : Thrown(b, k) \/ Raised(b, k)
New(b) ==
  /\ b \in FreeBodies /\ b \notin DOMAIN corpses
  /\ corpses'[b].stage = 0 /\ corpses'[b].soul = FALSE
BodyStep == \A b \in DOMAIN corpses' : Old(b) \/ New(b)

LEMMA FailureStep ==
  ASSUME TypeOK, NEW k \in Clerics, rite[k] # None => rite'[k] = None,
         NEW b \in DOMAIN corpses, corpses'[b] = AfterFailure(k)[b]
  PROVE  Old(b)
<1>1. BodiesTyped(corpses) /\ rite \in [Clerics -> Rite \cup {None}]
  BY DEF TypeOK, BodiesTyped
<1>2. /\ AfterFailure(k)[b].helpers = corpses[b].helpers
      /\ \/ /\ AfterFailure(k)[b].stage = corpses[b].stage
            /\ AfterFailure(k)[b].soul = corpses[b].soul
         \/ /\ rite[k] # None /\ b = rite[k].body
            /\ Cardinality(Support(b, k)) <= 1
            /\ AfterFailure(k)[b].stage = FallsTo[rite[k].action]
            /\ AfterFailure(k)[b].soul = FALSE
  BY <1>1, AfterFailureFields
<1> QED BY <1>2 DEF Old, Same, Thrown

\* A blow against c, after which every old body is as AfterBlow(c) says.
LEMMA BlowStep ==
  ASSUME TypeOK, NEW c \in Chars, StopOwn(c),
         NEW b \in DOMAIN corpses, corpses'[b] = AfterBlow(c)[b]
  PROVE  Old(b)
<1>1. CASE c \in Clerics
  <2>1. rite[c] # None => rite'[c] = None
    BY <1>1 DEF StopOwn, Stop, RiteEnds, TypeOK
  <2> QED BY <1>1, <2>1, FailureStep DEF AfterBlow
<1>2. CASE c \notin Clerics
  BY <1>2 DEF AfterBlow, Old, Same
<1> QED BY <1>1, <1>2

LEMMA BodySteps ==
  ASSUME TypeOK, LinksLeadToOwnBody, [Next]_vars
  PROVE  BodyStep
<1>0. BodiesTyped(corpses) /\ rite \in [Clerics -> Rite \cup {None}]
  BY DEF TypeOK, BodiesTyped
<1>1. CASE corpses' = corpses
  BY <1>1 DEF BodyStep, Old, Same
<1>2. ASSUME NEW b, Delete(b)
      PROVE  BodyStep
  BY <1>2 DEF Delete, Without, Restrict, BodyStep, Old, Same
<1>3. ASSUME NEW k \in Clerics, NEW b \in Bodies, NEW a \in Actions, StartRite(k, b, a)
      PROVE  BodyStep
  <2>1. b \in DOMAIN corpses /\ corpses[b] \in Corpse
    BY <1>0, <1>3 DEF StartRite, BodiesTyped
  <2> QED BY <1>3, <2>1 DEF StartRite, BodyStep, Old, Same, Corpse
<1>4. ASSUME NEW k \in Clerics, RiteSucceeds(k)
      PROVE  BodyStep
  <2>1. rite[k] # None /\ rite'[k] = None
    BY <1>0, <1>4 DEF RiteSucceeds, Pending, RiteEnds
  <2>2. /\ DOMAIN corpses' = DOMAIN corpses /\ rite[k].action # "revive"
        /\ \A b \in DOMAIN corpses :
             /\ corpses'[b].helpers = corpses[b].helpers
             /\ \/ corpses'[b] = corpses[b]
                \/ /\ b = rite[k].body /\ corpses[b].stage = Needs[rite[k].action]
                   /\ corpses'[b].stage = corpses[b].stage + 1
                   /\ corpses'[b].soul = (corpses[b].soul \/ rite[k].action = "bind")
    BY <1>4, SuccessFields
  <2>3. ASSUME NEW b \in DOMAIN corpses
        PROVE  Old(b)
    <3>1. CASE corpses'[b] = corpses[b]
      BY <3>1 DEF Old, Same
    <3>2. CASE corpses'[b] # corpses[b]
      BY <2>1, <2>2, <3>2 DEF Old, Raised
    <3> QED BY <3>1, <3>2
  <2> QED BY <2>2, <2>3 DEF BodyStep
<1>5. ASSUME NEW k \in Clerics, RiteFails(k) \/ Hurt(k) \/ Leave(k)
      PROVE  BodyStep
  <2>1. rite'[k] = None /\ (corpses' = corpses \/ corpses' = AfterFailure(k))
    BY <1>0, <1>5 DEF RiteFails, Hurt, Leave, Stop, RiteEnds
  <2>2. CASE corpses' = AfterFailure(k)
    <3>1. DOMAIN corpses' = DOMAIN corpses
      BY <1>0, <2>2, AfterFailureFields
    <3> QED BY <2>1, <2>2, <3>1, FailureStep DEF BodyStep
  <2> QED BY <1>1, <2>1, <2>2
<1>6. ASSUME NEW c \in Chars, Die(c)
      PROVE  BodyStep
  <2>1. link[c] = None /\ StopOwn(c)
    BY <1>6 DEF Die, LinksLeadToOwnBody, Gone
  <2>2. PICK b \in FreeBodies : corpses' = With(AfterBlow(c), b, NewBody(c))
    BY <1>6, <2>1 DEF Die
  <2>3. DOMAIN AfterBlow(c) = DOMAIN corpses
    BY <1>6, <2>1, BlowTyped
  <2>4. b \notin DOMAIN corpses /\ NewBody(c).stage = 0 /\ NewBody(c).soul = FALSE
    BY DEF FreeBodies, NewBody
  <2>5. /\ DOMAIN corpses' = DOMAIN corpses \cup {b} /\ corpses'[b] = NewBody(c)
        /\ \A d \in DOMAIN corpses : corpses'[d] = AfterBlow(c)[d]
    BY <2>2, <2>3, <2>4 DEF With
  <2>6. \A d \in DOMAIN corpses : Old(d)
    BY <1>6, <2>1, <2>5, BlowStep
  <2> QED BY <2>4, <2>5, <2>6 DEF BodyStep, New
<1>7. ASSUME NEW c \in Chars, Fell(c)
      PROVE  BodyStep
  <2>1. DOMAIN corpses' = DOMAIN corpses
    BY <1>7, BlowTyped DEF Fell
  <2>2. \A b \in DOMAIN corpses : Old(b)
    BY <1>7, BlowStep DEF Fell
  <2> QED BY <2>1, <2>2 DEF BodyStep
<1>8. ASSUME NEW b \in Bodies, Fade(b)
      PROVE  BodyStep
  BY <1>0, <1>8 DEF Fade, BodyStep, Old, Same, BodiesTyped, Corpse
<1>9. ASSUME NEW c \in Chars, Depart(c) \/ Resurrect(c)
      PROVE  BodyStep
  <2>1. Delete(link[c]) \/ corpses' = corpses
    BY <1>9 DEF Depart, Resurrect, Bury
  <2> QED BY <1>1, <1>2, <2>1
<1>10. ASSUME NEW b \in Bodies, Cleanup(b) \/ Decay(b) \/ DecayCommand(b)
       PROVE  BodyStep
  BY <1>2, <1>10 DEF Cleanup, Decay, DecayCommand, Bury
<1>11. ASSUME NEW k \in Clerics, Revive(k) \/ \E b \in Bodies : CastRevival(k, b)
       PROVE  BodyStep
  BY <1>1, <1>11 DEF Revive, CastRevival, Revival
<1>12. CASE Aside \/ Restart \/ UNCHANGED vars
  BY <1>1, <1>12 DEF Aside, Arrive, Unpuppet, Recover, Expire, Restart, vars
<1> QED BY <1>3, <1>4, <1>5, <1>6, <1>7, <1>8, <1>9, <1>10, <1>11, <1>12 DEF Next, Complete, Aside

\* The mark that revive looks for and the stage agree, whoever joins, fails or breaks
\* off a rite.
THEOREM SoulCorrect == Spec => []SoulBoundAtLastStage
<1>1. Init => SoulBoundAtLastStage
  BY DEF Init, SoulBoundAtLastStage
<1>2. TypeOK /\ LinksLeadToOwnBody /\ SoulBoundAtLastStage /\ [Next]_vars => SoulBoundAtLastStage'
  <2> SUFFICES ASSUME TypeOK, LinksLeadToOwnBody, SoulBoundAtLastStage, [Next]_vars,
                      NEW b \in DOMAIN corpses'
               PROVE  corpses'[b].soul <=> corpses'[b].stage = 4
    BY DEF SoulBoundAtLastStage
  <2>1. Old(b) \/ New(b)
    BY BodySteps DEF BodyStep
  <2>2. CASE New(b)
    BY <2>2 DEF New
  <2>3. CASE b \in DOMAIN corpses /\ Same(b)
    BY <2>3 DEF Same, SoulBoundAtLastStage
  <2>4. ASSUME NEW k \in Clerics, Thrown(b, k)
        PROVE  corpses'[b].soul <=> corpses'[b].stage = 4
    <3>1. rite[k].action \in Actions
      BY <2>4 DEF Thrown, TypeOK, Rite
    <3> QED BY <2>4, <3>1 DEF Thrown, Actions, FallsTo
  <2>5. ASSUME NEW k \in Clerics, b \in DOMAIN corpses, Raised(b, k)
        PROVE  corpses'[b].soul <=> corpses'[b].stage = 4
    <3>1. rite[k].action \in Actions \ {"revive"}
      BY <2>5 DEF Raised, TypeOK, Rite
    <3>2. corpses[b].soul <=> corpses[b].stage = 4
      BY <2>5 DEF SoulBoundAtLastStage
    <3>3. corpses[b].stage = Needs[rite[k].action] /\ corpses[b].stage # 4
          /\ (corpses[b].stage = 3 <=> rite[k].action = "bind")
      BY <2>5, <3>1 DEF Raised, Actions, Needs
    <3>4. corpses'[b].stage = 4 <=> corpses[b].stage = 3
      BY <2>5, <3>1 DEF Raised, Actions, Needs
    <3> QED BY <2>5, <3>2, <3>3, <3>4 DEF Raised
  <2> QED BY <2>1, <2>2, <2>3, <2>4, <2>5 DEF Old
<1> QED BY <1>1, <1>2, LinksCorrect, PTL DEF Spec

-----------------------------------------------------------------------------
(* Order *)

\* A cleric at work on a body is known there as a helper, and as long as it is the
\* only one the body stays at the stage its rite asks for.
SoloAtItsStage ==
  \A k \in Clerics :
    LET b == rite[k].body IN
    rite[k] # None /\ b \in DOMAIN corpses =>
      /\ k \in corpses[b].helpers
      /\ corpses[b].helpers = {k} => corpses[b].stage = Needs[rite[k].action]

\* Other steps than StartRite() only end rites.
LEMMA RitesEndOnly ==
  ASSUME TypeOK, [Next]_vars, NEW k \in Clerics, rite'[k] # None
  PROVE  rite'[k] = rite[k] \/ \E b \in Bodies, a \in Actions : StartRite(k, b, a)
<1>0. rite \in [Clerics -> Rite \cup {None}]
  BY DEF TypeOK
<1>1. ASSUME NEW l \in Clerics, NEW b \in Bodies, NEW a \in Actions, StartRite(l, b, a)
      PROVE  rite'[k] = rite[k] \/ l = k
  BY <1>0, <1>1 DEF StartRite
<1>2. ASSUME NEW l \in Clerics, Complete(l) \/ Hurt(l) \/ Leave(l) \/ \E b \in Bodies : CastRevival(l, b)
      PROVE  rite'[k] = rite[k]
  BY <1>0, <1>2 DEF Complete, RiteSucceeds, Revive, RiteFails, Hurt, Leave, Stop, RiteEnds,
                    CastRevival
<1>3. ASSUME NEW c \in Chars, Die(c) \/ Fell(c) \/ Depart(c) \/ Resurrect(c)
      PROVE  rite'[k] = rite[k]
  BY <1>0, <1>3 DEF Die, Fell, Depart, Resurrect, StopOwn, Stop, RiteEnds
<1>4. ASSUME NEW b \in Bodies, Cleanup(b) \/ Fade(b) \/ Decay(b) \/ DecayCommand(b)
      PROVE  rite'[k] = rite[k]
  BY <1>4 DEF Cleanup, Fade, Decay, DecayCommand
<1>5. CASE Aside \/ Restart \/ UNCHANGED vars
  BY <1>5 DEF Aside, Arrive, Unpuppet, Recover, Expire, Restart, vars
<1> QED BY <1>1, <1>2, <1>3, <1>4, <1>5 DEF Next, Aside

LEMMA SoloKept ==
  ASSUME TypeOK, LinksLeadToOwnBody, SoloAtItsStage, [Next]_vars
  PROVE  SoloAtItsStage'
<1> SUFFICES ASSUME NEW k \in Clerics, rite'[k] # None, rite'[k].body \in DOMAIN corpses'
             PROVE  /\ k \in corpses'[rite'[k].body].helpers
                    /\ corpses'[rite'[k].body].helpers = {k}
                         => corpses'[rite'[k].body].stage = Needs[rite'[k].action]
  BY DEF SoloAtItsStage
<1> DEFINE b == rite'[k].body
<1>0. BodiesTyped(corpses) /\ rite \in [Clerics -> Rite \cup {None}]
  BY DEF TypeOK, BodiesTyped
<1>1. CASE \E d \in Bodies, a \in Actions : StartRite(k, d, a)
  <2> PICK d \in Bodies, a \in Actions : StartRite(k, d, a)
    BY <1>1
  <2>1. d \in DOMAIN corpses /\ corpses[d] \in Corpse /\ corpses[d].stage = Needs[a]
    BY <1>0 DEF StartRite, BodiesTyped
  <2>2. rite'[k].body = d /\ rite'[k].action = a
    BY <1>0 DEF StartRite
  <2>3. corpses'[d].helpers = corpses[d].helpers \cup {k} /\ corpses'[d].stage = corpses[d].stage
    BY <2>1 DEF StartRite, Corpse
  <2> QED BY <2>1, <2>2, <2>3
<1>2. CASE rite'[k] = rite[k]
  <2>1. b \notin FreeBodies
    BY <1>2 DEF FreeBodies
  <2>2. Old(b) /\ b \in DOMAIN corpses
    BY <2>1, BodySteps DEF BodyStep, New, Old
  <2>3. k \in corpses[b].helpers /\ k \in corpses'[b].helpers
        /\ (corpses'[b].helpers = {k} => corpses[b].helpers = {k})
    BY <1>2, <2>2 DEF SoloAtItsStage, Old
  <2>4. CASE Same(b)
    BY <1>2, <2>2, <2>3, <2>4 DEF Same, SoloAtItsStage
  <2>5. ASSUME NEW l \in Clerics, Thrown(b, l) \/ Raised(b, l)
        PROVE  corpses'[b].helpers # {k}
    <3>1. l # k /\ l \in corpses[b].helpers
      BY <1>2, <2>2, <2>5 DEF Thrown, Raised, SoloAtItsStage
    <3> QED BY <2>2, <3>1 DEF Old
  <2> QED BY <2>2, <2>3, <2>4, <2>5 DEF Old
<1> QED BY <1>1, <1>2, RitesEndOnly

\* Each stage is reached from the one below by a rite of just that stage: a lone
\* cleric's failure never throws a body forward, and colleagues prevent the throw.
THEOREM OrderCorrect == Spec => RitesAdvanceInOrder
<1> DEFINE Forward ==
      \A b \in DOMAIN corpses \cap DOMAIN corpses' :
        corpses'[b].stage > corpses[b].stage =>
          /\ corpses'[b].stage = corpses[b].stage + 1
          /\ \E k \in Clerics :
               /\ rite[k] # None /\ rite'[k] = None
               /\ rite[k].body = b /\ Needs[rite[k].action] = corpses[b].stage
<1>1. Init => SoloAtItsStage
  BY DEF Init, SoloAtItsStage
<1>2. TypeOK /\ LinksLeadToOwnBody /\ SoloAtItsStage /\ [Next]_vars => SoloAtItsStage'
  BY SoloKept
<1>3. TypeOK /\ LinksLeadToOwnBody /\ SoloAtItsStage /\ [Next]_vars => [Forward]_vars
  <2> SUFFICES ASSUME TypeOK, LinksLeadToOwnBody, SoloAtItsStage, [Next]_vars,
                      NEW b \in DOMAIN corpses \cap DOMAIN corpses',
                      corpses'[b].stage > corpses[b].stage
               PROVE  /\ corpses'[b].stage = corpses[b].stage + 1
                      /\ \E k \in Clerics :
                           /\ rite[k] # None /\ rite'[k] = None
                           /\ rite[k].body = b /\ Needs[rite[k].action] = corpses[b].stage
    OBVIOUS
  <2>0. corpses[b].stage \in Int /\ corpses[b].helpers \subseteq Clerics
    BY DEF TypeOK, Corpse, Stages
  <2>1. PICK k \in Clerics : Thrown(b, k) \/ Raised(b, k)
    <3>1. Old(b) \/ New(b)
      BY BodySteps DEF BodyStep
    <3>2. ~New(b) /\ ~Same(b)
      BY <2>0 DEF New, Same
    <3> QED BY <3>1, <3>2 DEF Old
  <2>2. CASE Raised(b, k)
    BY <2>2 DEF Raised
  <2>3. CASE Thrown(b, k)
    <3>1. rite[k].action \in Actions
      BY <2>3 DEF Thrown, TypeOK, Rite
    <3>2. FallsTo[rite[k].action] <= Needs[rite[k].action]
      BY <3>1 DEF Actions, FallsTo, Needs
    <3>3. k \in corpses[b].helpers
      BY <2>3 DEF Thrown, SoloAtItsStage
    <3>4. Support(b, k) = {k}
      <4>1. k \in Support(b, k) /\ Support(b, k) \subseteq Clerics
        BY <2>0, <3>3 DEF Support
      <4>2. IsFiniteSet(Support(b, k)) /\ Cardinality(Support(b, k)) <= 1
        BY <2>3, <4>1, FS_Subset, DeathAssumption DEF Thrown
      <4>3. Cardinality({k}) = 1 /\ IsFiniteSet({k})
        BY FS_Singleton
      <4>4. {k} \in SUBSET Support(b, k) /\ Cardinality(Support(b, k)) \in Nat
        BY <4>1, <4>2, FS_CardinalityType
      <4>5. Cardinality({k}) <= Cardinality(Support(b, k))
        BY <4>2, <4>4, FS_Subset
      <4> QED BY <4>2, <4>3, <4>4, <4>5, FS_Subset
    <3>5. corpses[b].helpers = {k}
      BY <3>3, <3>4 DEF Support
    <3>6. corpses[b].stage = Needs[rite[k].action]
      BY <2>3, <3>5 DEF Thrown, SoloAtItsStage
    <3> QED BY <2>0, <2>3, <3>1, <3>2, <3>6 DEF Thrown, FallsTo, Needs, Actions
  <2> QED BY <2>1, <2>2, <2>3
<1>4. RitesAdvanceInOrder <=> [][Forward]_vars
  BY PTL DEF RitesAdvanceInOrder
<1> HIDE DEF Forward
<1> QED BY <1>1, <1>2, <1>3, <1>4, LinksCorrect, PTL DEF Spec

-----------------------------------------------------------------------------
(* Jobs *)

\* A rite is pending with its own job, except where a quota refused the job.
THEOREM JobsCorrect == Spec => []RitesHaveTheirJob
<1>1. Init => RitesHaveTheirJob
  BY DEF Init, RitesHaveTheirJob
<1>2. TypeOK /\ RitesHaveTheirJob /\ [Next]_vars => RitesHaveTheirJob'
  <2> SUFFICES ASSUME TypeOK, RitesHaveTheirJob, [Next]_vars, NEW k \in Clerics
               PROVE  /\ job'[k] # None => rite'[k] # None /\ rite'[k].token = job'[k]
                      /\ rite'[k] # None =>
                           life'[k] = "alive" /\ (job'[k] # None \/ (k \in Crowded /\ ~calm'))
    BY DEF RitesHaveTheirJob
  <2>0. /\ rite \in [Clerics -> Rite \cup {None}] /\ job \in [Clerics -> Tokens \cup {None}]
        /\ life \in [Chars -> {"alive", "dead", "felled"}] /\ k \in Chars
    BY DeathAssumption DEF TypeOK
  <2>1. /\ job[k] # None => rite[k] # None /\ rite[k].token = job[k]
        /\ rite[k] # None => life[k] = "alive" /\ (job[k] # None \/ (k \in Crowded /\ ~calm))
    BY DEF RitesHaveTheirJob
  <2>2. CASE /\ rite'[k] = rite[k] /\ job'[k] = job[k] /\ calm' = calm
             /\ life[k] = "alive" => life'[k] = "alive"
    BY <2>1, <2>2
  <2>3. CASE rite'[k] = None /\ job'[k] = None
    BY <2>3
  <2>4. ASSUME NEW l \in Clerics, NEW b \in Bodies, NEW a \in Actions, StartRite(l, b, a), l = k
        PROVE  /\ rite'[k] # None /\ life'[k] = "alive"
               /\ \/ job'[k] # None /\ rite'[k].token = job'[k]
                  \/ job'[k] = None /\ k \in Crowded /\ ~calm'
    <3> DEFINE r == [action |-> a, body |-> b, token |-> NextToken(k)]
    <3>1. NextToken(k) \in Tokens /\ r \in Rite /\ r.token = NextToken(k)
      BY DEF Rite, NextToken, Tokens
    <3>2. r # None /\ NextToken(k) # None
      BY <3>1, NoneAssumption
    <3>3. rite'[k] = r /\ rite[k] = None /\ life'[k] = "alive" /\ calm' = calm
      BY <2>0, <2>4 DEF StartRite
    <3>4. job'[k] = NextToken(k) \/ (job'[k] = job[k] /\ k \in Crowded /\ ~calm)
      BY <2>0, <2>4 DEF StartRite
    <3> HIDE DEF r
    <3> QED BY <2>1, <3>1, <3>2, <3>3, <3>4
  <2>5. ASSUME NEW l \in Clerics, NEW b \in Bodies, NEW a \in Actions, StartRite(l, b, a), l # k
        PROVE  /\ rite'[k] = rite[k] /\ job'[k] = job[k] /\ calm' = calm /\ life' = life
    BY <2>0, <2>5 DEF StartRite
  <2>6. ASSUME NEW l \in Clerics, Complete(l) \/ Hurt(l) \/ Leave(l)
        PROVE  \/ rite'[k] = None /\ job'[k] = None
               \/ /\ rite'[k] = rite[k] /\ job'[k] = job[k] /\ calm' = calm
                  /\ life[k] = "alive" => life'[k] = "alive"
    <3>0. /\ calm' = calm /\ (life[k] = "alive" => life'[k] = "alive")
          /\ l # k => rite'[k] = rite[k] /\ job'[k] = job[k]
      BY <2>0, <2>6 DEF Complete, RiteSucceeds, Revive, Revival, Lives, RiteFails, Due, Hurt,
                        Leave, Stop, RiteEnds
    <3>1. CASE l = k
      BY <2>0, <2>6, <3>1 DEF Complete, RiteSucceeds, Revive, RiteFails, Due, Hurt, Leave, Stop, RiteEnds
    <3> QED BY <3>0, <3>1
  <2>7. ASSUME NEW c \in Chars, Die(c) \/ Fell(c)
        PROVE  \/ rite'[k] = None /\ job'[k] = None
               \/ /\ rite'[k] = rite[k] /\ job'[k] = job[k] /\ calm' = calm
                  /\ life[k] = "alive" => life'[k] = "alive"
    <3>1. StopOwn(c) /\ calm' = calm /\ (c # k => life'[k] = life[k])
      BY <2>0, <2>7 DEF Die, Fell
    <3>2. CASE c = k
      BY <2>0, <2>1, <3>1, <3>2 DEF StopOwn, Stop, RiteEnds
    <3>3. CASE c # k
      BY <2>0, <3>1, <3>3 DEF StopOwn, Stop, RiteEnds
    <3> QED BY <3>2, <3>3
  <2>8. ASSUME NEW l \in Clerics, NEW b \in Bodies, CastRevival(l, b)
        PROVE  /\ rite'[k] = rite[k] /\ job'[k] = job[k] /\ calm' = calm
               /\ life[k] = "alive" => life'[k] = "alive"
    BY <2>0, <2>8 DEF CastRevival, Revival, Lives
  <2>9. ASSUME NEW c \in Chars, Depart(c) \/ Resurrect(c)
        PROVE  /\ rite'[k] = rite[k] /\ job'[k] = job[k] /\ calm' = calm
               /\ life[k] = "alive" => life'[k] = "alive"
    BY <2>0, <2>9 DEF Depart, Resurrect, Lives
  <2>10. ASSUME NEW b \in Bodies, Cleanup(b) \/ Fade(b) \/ Decay(b) \/ DecayCommand(b)
         PROVE  rite' = rite /\ job' = job /\ calm' = calm /\ life' = life
    BY <2>10 DEF Cleanup, Fade, Decay, DecayCommand
  <2>11. CASE Aside \/ UNCHANGED vars
    BY <2>2, <2>11 DEF Aside, Arrive, Unpuppet, Recover, Expire, vars
  <2>12. CASE Restart
    BY <2>3, <2>12 DEF Restart
  <2> QED BY <2>2, <2>3, <2>4, <2>5, <2>6, <2>7, <2>8, <2>9, <2>10, <2>11, <2>12 DEF Next, Aside
<1> QED BY <1>1, <1>2, LinksCorrect, PTL DEF Spec

-----------------------------------------------------------------------------
(* Bodies *)

\* In a calm behaviour every body is the one its owner leads to, or it waits to be
\* cleaned up and its owner leads to none: so no later body is unlinked by mistake.
AccountedFor ==
  calm => \A b \in DOMAIN corpses :
    IF b \in cleanup THEN link[corpses[b].owner] = None ELSE link[corpses[b].owner] = b

LEMMA AccountedKept ==
  ASSUME TypeOK, LinksLeadToOwnBody, AccountedFor, [Next]_vars
  PROVE  AccountedFor'
<1>0. /\ BodiesTyped(corpses) /\ link \in [Chars -> Bodies \cup {None}]
      /\ \A b \in DOMAIN corpses : corpses[b].owner \in Chars /\ b # None
  BY DeathAssumption DEF TypeOK, BodiesTyped, Corpse
<1>1. CASE /\ DOMAIN corpses' = DOMAIN corpses /\ OwnersKept
           /\ link' = link /\ cleanup' = cleanup /\ calm' = calm
  BY <1>1 DEF AccountedFor, Alike, OwnersKept
<1>2. ASSUME NEW k \in Clerics,
             \/ \E b \in Bodies, a \in Actions : StartRite(k, b, a)
             \/ RiteSucceeds(k) \/ RiteFails(k) \/ Hurt(k) \/ Leave(k)
      PROVE  AccountedFor'
  <2>1. DOMAIN corpses' = DOMAIN corpses /\ OwnersKept /\ link' = link
    BY <1>2, RiteKeepsOwners
  <2>2. cleanup' = cleanup /\ calm' = calm
    BY <1>2 DEF StartRite, RiteSucceeds, RiteFails, Hurt, Leave
  <2> QED BY <1>1, <2>1, <2>2
<1>3. ASSUME NEW k \in Clerics, NEW b \in Bodies, Revival(k, b)
      PROVE  AccountedFor'
  <2>1. b \in DOMAIN corpses /\ corpses' = corpses /\ calm' = calm
        /\ link' = [link EXCEPT ![corpses[b].owner] = None]
        /\ (calm => cleanup' = cleanup \cup {b})
    BY <1>3 DEF Revival, CanRevive, CanWork
  <2> QED BY <1>0, <2>1 DEF AccountedFor, LinksLeadToOwnBody
<1>4. CASE Aside \/ Restart \/ UNCHANGED vars
  BY <1>1, <1>4 DEF Aside, Arrive, Unpuppet, Recover, Expire, Restart, vars, Alike, OwnersKept, AccountedFor
<1>5. ASSUME NEW c \in Chars, Die(c)
      PROVE  AccountedFor'
  <2>1. DOMAIN AfterBlow(c) = DOMAIN corpses
        /\ \A d \in DOMAIN corpses : AfterBlow(c)[d].owner = corpses[d].owner
    BY <1>5, BlowKeepsOwners, BlowTyped DEF Alike, Die
  <2>2. link[c] = None /\ cleanup' = cleanup /\ calm' = calm /\ (calm => cleanup = {})
    BY <1>5 DEF Die, LinksLeadToOwnBody, Gone
  <2>3. PICK b \in FreeBodies :
          corpses' = With(AfterBlow(c), b, NewBody(c)) /\ link' = [link EXCEPT ![c] = b]
    BY <1>5, <2>2 DEF Die
  <2>4. /\ DOMAIN corpses' = DOMAIN corpses \cup {b} /\ corpses'[b].owner = c
        /\ \A d \in DOMAIN corpses : corpses'[d].owner = corpses[d].owner
        /\ b \notin DOMAIN corpses
    <3>1. b \notin DOMAIN corpses /\ NewBody(c).owner = c
      BY DEF FreeBodies, NewBody
    <3> QED BY <2>1, <2>3, <3>1 DEF With
  <2>5. \A d \in DOMAIN corpses : calm => link[corpses[d].owner] = d
    BY <2>2 DEF AccountedFor
  <2> QED BY <1>0, <2>2, <2>3, <2>4, <2>5 DEF AccountedFor
<1>6. ASSUME NEW c \in Chars, Fell(c)
      PROVE  AccountedFor'
  <2>1. DOMAIN corpses' = DOMAIN corpses
        /\ \A d \in DOMAIN corpses : Alike(corpses, corpses', d)
    BY <1>6, BlowKeepsOwners, BlowTyped DEF Alike, Fell
  <2> QED BY <1>1, <1>6, <2>1 DEF Fell, Alike, OwnersKept
<1>7. ASSUME NEW b, Delete(b)
      PROVE  DOMAIN corpses' = DOMAIN corpses \ {b} /\ OwnersKept
  BY <1>7 DEF Delete, Alike, OwnersKept, Without, Restrict
<1>8. ASSUME NEW b \in Bodies, Cleanup(b) \/ Decay(b) \/ DecayCommand(b)
      PROVE  AccountedFor'
  <2>1. /\ DOMAIN corpses' = DOMAIN corpses \ {b} /\ OwnersKept
        /\ calm' = calm /\ cleanup \ {b} \subseteq cleanup' /\ cleanup' \subseteq cleanup
    BY <1>7, <1>8 DEF Cleanup, Decay, DecayCommand, Bury
  <2>2. /\ \A c \in Chars : Unlink(b)[c] = IF link[c] = b THEN None ELSE link[c]
        /\ DOMAIN Unlink(b) = Chars
    BY UnlinkFields DEF Unlink
  <2>3. CASE link' = Unlink(b)
    BY <1>0, <2>1, <2>2, <2>3 DEF AccountedFor, Alike, OwnersKept
  <2>4. CASE Decay(b)
    <3>1. b \in DOMAIN corpses /\ link' = [Unlink(b) EXCEPT ![corpses[b].owner] = None]
      BY <2>4 DEF Decay
    <3>2. ASSUME calm, NEW d \in DOMAIN corpses \ {b}, corpses[d].owner = corpses[b].owner
          PROVE  d \in cleanup
      BY <1>0, <3>1, <3>2 DEF AccountedFor
    <3> QED BY <1>0, <2>1, <2>2, <3>1, <3>2 DEF AccountedFor, Alike, OwnersKept
  <2> QED BY <1>8, <2>3, <2>4 DEF Cleanup, DecayCommand
<1>9. ASSUME NEW b \in Bodies, Fade(b)
      PROVE  AccountedFor'
  <2>1. DOMAIN corpses' = DOMAIN corpses /\ OwnersKept
    BY <1>0, <1>9 DEF Fade, Alike, OwnersKept, BodiesTyped, Corpse
  <2> QED BY <1>1, <1>9, <2>1 DEF Fade
<1>10. ASSUME NEW c \in Chars, Depart(c) \/ Resurrect(c)
       PROVE  AccountedFor'
  <2>1. link' = [link EXCEPT ![c] = None] /\ cleanup' = cleanup /\ calm' = calm
    BY <1>10 DEF Depart, Resurrect
  <2>2. CASE link[c] # None
    <3>1. Delete(link[c])
      BY <1>10, <2>2 DEF Depart, Resurrect, Bury
    <3>2. DOMAIN corpses' = DOMAIN corpses \ {link[c]} /\ OwnersKept
      BY <1>7, <3>1
    <3> QED BY <1>0, <2>1, <2>2, <3>2 DEF AccountedFor, Alike, OwnersKept
  <2>3. CASE link[c] = None
    <3>1. corpses' = corpses /\ link' = link
      BY <1>0, <1>10, <2>1, <2>3 DEF Depart, Resurrect
    <3> QED BY <1>1, <2>1, <3>1 DEF Alike, OwnersKept
  <2> QED BY <2>2, <2>3
<1> QED BY <1>2, <1>3, <1>4, <1>5, <1>6, <1>8, <1>9, <1>10 DEF Next, Complete, CastRevival, Revive,
           Aside, Pending, TypeOK, Rite

THEOREM BodiesCorrect == Spec => []BodiesAreAccountedFor
<1>1. Init => AccountedFor
  BY DEF Init, AccountedFor
<1>2. TypeOK /\ LinksLeadToOwnBody /\ AccountedFor /\ [Next]_vars => AccountedFor'
  BY AccountedKept
<1>3. AccountedFor => BodiesAreAccountedFor
  BY DEF AccountedFor, BodiesAreAccountedFor
<1> QED BY <1>1, <1>2, <1>3, LinksCorrect, PTL DEF Spec

-----------------------------------------------------------------------------
(* Sums over finite sets *)

\* Coins(f, c) folds over the entries of f that are c's; g does so for every set of
\* entries in S.
Own(f, c) == {x \in DOMAIN f : f[x].owner = c}
First(s) == CHOOSE x \in s : TRUE
Sums(g, f, S) ==
  g = [s \in SUBSET S |-> IF s = {} THEN 0 ELSE f[First(s)].coins + g[s \ {First(s)}]]

\* Every set of subsets of a finite set has one that contains no other.
LEMMA LeastSet ==
  ASSUME NEW S, IsFiniteSet(S), NEW B, B \subseteq SUBSET S, B # {}
  PROVE  \E s \in B : \A t \in B : t \subseteq s => t = s
<1>1. IsWellFoundedOn(StrictSubsetOrdering(S), FiniteSubsetsOf(S))
  BY FS_StrictSubsetOrderingWellFounded
<1>2. \A s \in SUBSET S : s \in FiniteSubsetsOf(S)
  BY FS_Subset DEF FiniteSubsetsOf
<1>3. B \subseteq FiniteSubsetsOf(S)
  BY <1>2
<1>4. PICK s \in B : \A t \in B : ~(<<t, s>> \in StrictSubsetOrdering(S))
  BY <1>1, <1>3, WFMin
<1>5. \A t \in B : t \subseteq s => t = s
  BY <1>2, <1>4 DEF StrictSubsetOrdering
<1> QED BY <1>5

LEMMA FirstIn ==
  ASSUME NEW s, s # {}
  PROVE  First(s) \in s
BY DEF First

LEMMA SumsFields ==
  ASSUME NEW g, NEW f, NEW S, Sums(g, f, S)
  PROVE  /\ g[{}] = 0
         /\ \A s \in SUBSET S : s # {} => g[s] = f[First(s)].coins + g[s \ {First(s)}]
<1>1. \A s \in SUBSET S : g[s] = IF s = {} THEN 0 ELSE f[First(s)].coins + g[s \ {First(s)}]
  BY Zenon DEF Sums
<1> QED BY <1>1

\* A sum is determined by what is summed up.
LEMMA SumsAgree ==
  ASSUME NEW g, NEW f, NEW S, Sums(g, f, S), NEW h, NEW e, NEW T, Sums(h, e, T),
         IsFiniteSet(S), \A x \in S \cap T : f[x].coins = e[x].coins
  PROVE  \A s \in SUBSET (S \cap T) : g[s] = h[s]
<1> DEFINE B == {s \in SUBSET (S \cap T) : g[s] # h[s]}
<1>1. SUFFICES ASSUME B # {} PROVE FALSE
  OBVIOUS
<1>2. IsFiniteSet(S \cap T)
  BY FS_Subset
<1>3. B \subseteq SUBSET (S \cap T)
  OBVIOUS
<1> HIDE DEF B
<1>4. PICK s \in B : \A t \in B : t \subseteq s => t = s
  BY <1>1, <1>2, <1>3, LeastSet
<1> USE DEF B
<1>5. s # {}
  BY SumsFields
<1> DEFINE x == First(s)
<1>6. x \in s /\ s \in SUBSET S /\ s \in SUBSET T
  BY <1>5, FirstIn
<1>7. g[s] = f[x].coins + g[s \ {x}] /\ h[s] = e[x].coins + h[s \ {x}]
  BY <1>5, <1>6, SumsFields
<1> HIDE DEF x
<1>8. s \ {x} \notin B
  BY <1>6, <1>4
<1>9. g[s \ {x}] = h[s \ {x}]
  BY <1>6, <1>8
<1> QED BY <1>6, <1>7, <1>9

LEMMA SumsExist ==
  ASSUME NEW f, NEW S, IsFiniteSet(S)
  PROVE  \E g : Sums(g, f, S)
<1> DEFINE B == {s \in SUBSET S : ~\E g : Sums(g, f, s)}
<1>1. SUFFICES ASSUME B # {} PROVE FALSE
  OBVIOUS
<1>2. B \subseteq SUBSET S
  OBVIOUS
<1> HIDE DEF B
<1>3. PICK s \in B : \A t \in B : t \subseteq s => t = s
  BY <1>1, <1>2, LeastSet
<1> USE DEF B
<1> DEFINE G(t) == CHOOSE g : Sums(g, f, t)
<1>4. ASSUME NEW t \in SUBSET s, t # s PROVE Sums(G(t), f, t)
  <2>1. t \notin B /\ t \in SUBSET S
    BY <1>3, <1>4
  <2> QED BY <2>1
<1>5. IsFiniteSet(s)
  BY FS_Subset
<1> DEFINE val(t) == G(t)[t]
           h == [t \in SUBSET s |-> IF t = {} THEN 0 ELSE f[First(t)].coins + val(t \ {First(t)})]
<1>6. ASSUME NEW t \in SUBSET s, t # {}
      PROVE  h[t \ {First(t)}] = val(t \ {First(t)})
  <2> DEFINE u == t \ {First(t)}
             v == u \ {First(u)}
  <2>1. u \in SUBSET s /\ u # s
    BY <1>6, FirstIn
  <2>2. Sums(G(u), f, u)
    BY <1>4, <2>1
  <2>3. CASE u = {}
    BY <2>1, <2>2, <2>3, SumsFields
  <2>4. CASE u # {}
    <3>1. v \in SUBSET u /\ v \in SUBSET s /\ v # s /\ u \in SUBSET u
      BY <2>1
    <3>2. Sums(G(v), f, v)
      BY <1>4, <3>1
    <3>3. G(u)[u] = f[First(u)].coins + G(u)[v]
      BY <2>2, <2>4, <3>1, SumsFields
    <3>4. IsFiniteSet(u)
      BY <1>5, <2>1, FS_Subset
    <3> HIDE DEF G, u
    <3>5. \A r \in SUBSET (u \cap v) : G(u)[r] = G(v)[r]
      BY <2>2, <3>2, <3>4, SumsAgree
    <3>6. G(u)[v] = G(v)[v]
      BY <3>1, <3>5
    <3>7. h[u] = f[First(u)].coins + val(v)
      BY <2>1, <2>4
    <3> QED BY <3>3, <3>6, <3>7 DEF u
  <2> QED BY <2>3, <2>4
<1> HIDE DEF val
<1>7. h = [t \in SUBSET s |-> IF t = {} THEN 0 ELSE f[First(t)].coins + h[t \ {First(t)}]]
  BY <1>6
<1>8. Sums(h, f, s)
  BY <1>7, Zenon DEF Sums
<1> QED BY <1>3, <1>8

LEMMA SumsNat ==
  ASSUME NEW g, NEW f, NEW S, Sums(g, f, S), IsFiniteSet(S), \A x \in S : f[x].coins \in Nat
  PROVE  \A s \in SUBSET S : g[s] \in Nat
<1> DEFINE B == {s \in SUBSET S : g[s] \notin Nat}
<1>1. SUFFICES ASSUME B # {} PROVE FALSE
  OBVIOUS
<1>2. B \subseteq SUBSET S
  OBVIOUS
<1> HIDE DEF B
<1>3. PICK s \in B : \A t \in B : t \subseteq s => t = s
  BY <1>1, <1>2, LeastSet
<1> USE DEF B
<1>4. s \in SUBSET S /\ g[s] \notin Nat
  OBVIOUS
<1>5. s # {}
  <2>1. g[{}] = 0
    BY SumsFields
  <2> QED BY <1>4, <2>1
<1> DEFINE x == First(s)
<1>6. x \in s /\ g[s] = f[x].coins + g[s \ {x}]
  BY <1>4, <1>5, FirstIn, SumsFields
<1> HIDE DEF x
<1>7. s \ {x} \notin B
  BY <1>3, <1>6
<1>8. g[s \ {x}] \in Nat /\ f[x].coins \in Nat
  BY <1>6, <1>7
<1> QED BY <1>6, <1>8

\* Any entry may be taken out first.
LEMMA SumsTake ==
  ASSUME NEW g, NEW f, NEW S, Sums(g, f, S), IsFiniteSet(S), \A x \in S : f[x].coins \in Nat
  PROVE  \A s \in SUBSET S : \A x \in s : g[s] = f[x].coins + g[s \ {x}]
<1> DEFINE B == {s \in SUBSET S : ~\A x \in s : g[s] = f[x].coins + g[s \ {x}]}
<1>1. SUFFICES ASSUME B # {} PROVE FALSE
  OBVIOUS
<1>2. B \subseteq SUBSET S
  OBVIOUS
<1> HIDE DEF B
<1>3. PICK s \in B : \A t \in B : t \subseteq s => t = s
  BY <1>1, <1>2, LeastSet
<1> USE DEF B
<1>4. PICK x \in s : g[s] # f[x].coins + g[s \ {x}]
  OBVIOUS
<1> DEFINE y == First(s)
<1>5. y \in s /\ g[s] = f[y].coins + g[s \ {y}]
  BY <1>4, FirstIn, SumsFields
<1> HIDE DEF y
<1> DEFINE v == (s \ {x}) \ {y}
<1>6. x # y /\ v = (s \ {y}) \ {x}
  BY <1>4, <1>5
<1>7. s \ {x} \notin B /\ s \ {y} \notin B
  BY <1>3, <1>4, <1>5
<1>8. g[s \ {x}] = f[y].coins + g[v] /\ g[s \ {y}] = f[x].coins + g[v]
  BY <1>4, <1>5, <1>6, <1>7
<1>9. f[x].coins \in Nat /\ f[y].coins \in Nat /\ g[v] \in Nat
  BY <1>4, <1>5, SumsNat
<1> QED BY <1>4, <1>5, <1>8, <1>9

-----------------------------------------------------------------------------
(* Coins *)

\* Finitely many bodies or graves, with coins in them.
\* Finitely many bodies or graves, with coins in them.
Priced(f) == IsFiniteSet(DOMAIN f) /\ \A x \in DOMAIN f : f[x].coins \in Nat

LEMMA CoinsFold ==
  ASSUME NEW f, NEW c, Priced(f)
  PROVE  \E g : Sums(g, f, Own(f, c)) /\ Coins(f, c) = g[Own(f, c)]
<1> DEFINE S == Own(f, c)
<1>1. Coins(f, c) = (CHOOSE g : Sums(g, f, S))[S]
  BY DEF Coins, MapThenSumSet, MapThenFoldSet, Sums, Own, First
<1>2. IsFiniteSet(S)
  BY FS_Subset DEF Priced, Own
<1> QED BY <1>1, <1>2, SumsExist

LEMMA CoinsNat ==
  ASSUME NEW f, NEW c, Priced(f)
  PROVE  Coins(f, c) \in Nat
<1>1. Own(f, c) \subseteq DOMAIN f /\ IsFiniteSet(Own(f, c))
  BY FS_Subset DEF Priced, Own
<1> QED BY <1>1, CoinsFold, SumsNat DEF Priced

\* f has the entries of e and x.
LEMMA CoinsOut ==
  ASSUME NEW f, NEW e, NEW c, Priced(f), NEW x \in DOMAIN f, DOMAIN e = DOMAIN f \ {x},
         \A z \in DOMAIN e : Alike(f, e, z)
  PROVE  /\ Priced(e) /\ Coins(e, c) \in Nat
         /\ Coins(f, c) = Coins(e, c) + IF f[x].owner = c THEN f[x].coins ELSE 0
<1> DEFINE S == Own(f, c)
           T == Own(e, c)
<1>1. Priced(e)
  BY FS_Subset DEF Priced, Alike
<1>2. T = S \ {x} /\ S \subseteq DOMAIN f /\ (x \in S <=> f[x].owner = c)
  BY DEF Own, Alike
<1>3. IsFiniteSet(S) /\ \A z \in S : f[z].coins \in Nat
  BY <1>2, FS_Subset DEF Priced
<1>4. \A z \in S \cap T : f[z].coins = e[z].coins
  BY DEF Own, Alike
<1>5. PICK g : Sums(g, f, S) /\ Coins(f, c) = g[S]
  BY CoinsFold
<1>6. PICK h : Sums(h, e, T) /\ Coins(e, c) = h[T]
  BY <1>1, CoinsFold
<1> HIDE DEF S, T
<1>7. g[T] = h[T]
  BY <1>2, <1>3, <1>4, <1>5, <1>6, SumsAgree
<1>8. x \in S => g[S] = f[x].coins + g[S \ {x}]
  BY <1>3, <1>5, SumsTake
<1>9. Coins(e, c) \in Nat
  BY <1>1, CoinsNat
<1>10. x \notin S => S = T
  BY <1>2
<1>11. f[x].coins \in Nat
  BY DEF Priced
<1>12. CASE x \in S
  <2>1. Coins(f, c) = f[x].coins + Coins(e, c) /\ f[x].owner = c
    BY <1>2, <1>5, <1>6, <1>7, <1>8, <1>12
  <2> QED BY <1>1, <1>9, <1>11, <2>1
<1>13. CASE x \notin S
  <2>1. Coins(f, c) = Coins(e, c) /\ f[x].owner # c
    BY <1>2, <1>5, <1>6, <1>7, <1>10, <1>13
  <2> QED BY <1>1, <1>9, <2>1
<1> QED BY <1>12, <1>13

\* Only owners and coins count.
LEMMA CoinsSame ==
  ASSUME NEW f, NEW e, NEW c, Priced(f), DOMAIN e = DOMAIN f,
         \A z \in DOMAIN e : Alike(f, e, z)
  PROVE  Priced(e) /\ Coins(e, c) = Coins(f, c)
<1> DEFINE S == Own(f, c)
<1>1. Priced(e)
  BY DEF Priced, Alike
<1>2. Own(e, c) = S /\ IsFiniteSet(S) /\ \A z \in S : f[z].coins = e[z].coins
  BY FS_Subset DEF Priced, Own, Alike
<1>3. PICK g : Sums(g, f, S) /\ Coins(f, c) = g[S]
  BY CoinsFold
<1>4. PICK h : Sums(h, e, S) /\ Coins(e, c) = h[S]
  BY <1>1, <1>2, CoinsFold
<1> HIDE DEF S
<1>5. g[S] = h[S]
  BY <1>2, <1>3, <1>4, SumsAgree
<1> QED BY <1>1, <1>3, <1>4, <1>5

\* The counts are finite, and a step makes nobody richer.
\* The counts are finite, and a step makes nobody richer.
Tally == Priced(corpses) /\ Priced(graves)
NoGain == Tally' /\ \A c \in Chars : Owned(c)' <= Owned(c)

LEMMA OwnedParts ==
  ASSUME TypeOK, Tally, NEW c \in Chars
  PROVE  /\ Owned(c) = purse[c] + Coins(corpses, c) + Coins(graves, c)
         /\ Owned(c)' = purse'[c] + Coins(corpses', c) + Coins(graves', c)
         /\ purse[c] \in Nat /\ Coins(corpses, c) \in Nat /\ Coins(graves, c) \in Nat
BY CoinsNat DEF Owned, TypeOK, Tally

LEMMA NothingMoves ==
  ASSUME TypeOK, Tally, DOMAIN corpses' = DOMAIN corpses, OwnersKept, purse' = purse, graves' = graves
  PROVE  NoGain
<1>1. Priced(corpses') /\ \A c : Coins(corpses', c) = Coins(corpses, c)
  BY CoinsSame DEF OwnersKept, Tally
<1> QED BY <1>1, OwnedParts DEF NoGain, Tally

\* What becomes of the coins, one lemma for each way they take.
\* What becomes of the coins, one lemma for each way they take.
LEMMA BodyGoes ==
  ASSUME Tally, NEW b \in DOMAIN corpses, Delete(b)
  PROVE  /\ Priced(corpses')
         /\ \A c : /\ Coins(corpses', c) \in Nat
                  /\ Coins(corpses, c) = Coins(corpses', c)
                       + IF corpses[b].owner = c THEN corpses[b].coins ELSE 0
<1>1. DOMAIN corpses' = DOMAIN corpses \ {b} /\ \A z \in DOMAIN corpses' : Alike(corpses, corpses', z)
  BY DEF Delete, Without, Restrict, Alike
<1> QED BY <1>1, CoinsOut DEF Tally

LEMMA BodyLost ==
  ASSUME TypeOK, Tally, NEW b, Delete(b), purse' = purse, graves' = graves
  PROVE  NoGain
<1>1. CASE b \in DOMAIN corpses
  <2>1. corpses[b].coins \in Nat
    BY <1>1 DEF Tally, Priced
  <2>2. ASSUME NEW c \in Chars PROVE Coins(corpses', c) <= Coins(corpses, c) /\ Coins(corpses', c) \in Nat
    BY <1>1, <2>1, OwnedParts, BodyGoes
  <2>3. ASSUME NEW c \in Chars PROVE Owned(c)' <= Owned(c)
    BY <2>2, OwnedParts
  <2> QED BY <1>1, <2>3, BodyGoes DEF NoGain, Tally
<1>2. CASE b \notin DOMAIN corpses
  <2>1. DOMAIN corpses' = DOMAIN corpses /\ OwnersKept
    BY <1>2 DEF Delete, Without, Restrict, OwnersKept, Alike
  <2> QED BY <2>1, NothingMoves
<1> QED BY <1>1, <1>2

\* A new grave for c, with n coins.
Dug(c, n) == \E g \in Graves \ DOMAIN graves : graves' = With(graves, g, [owner |-> c, coins |-> n])

LEMMA GraveComes ==
  ASSUME Tally, NEW o, NEW n \in Nat, Dug(o, n)
  PROVE  /\ Priced(graves')
         /\ \A c : /\ Coins(graves, c) \in Nat
                  /\ Coins(graves', c) = Coins(graves, c) + IF o = c THEN n ELSE 0
<1>1. PICK g \in Graves \ DOMAIN graves : graves' = With(graves, g, [owner |-> o, coins |-> n])
  BY DEF Dug
<1>2. /\ g \notin DOMAIN graves
      /\ DOMAIN graves' = DOMAIN graves \cup {g} /\ DOMAIN graves = DOMAIN graves' \ {g}
      /\ graves'[g] = [owner |-> o, coins |-> n]
      /\ \A z \in DOMAIN graves : graves'[z] = graves[z]
  BY <1>1 DEF With
<1>3. Priced(graves')
  BY <1>2, FS_AddElement DEF Tally, Priced
<1>4. \A z \in DOMAIN graves : Alike(graves', graves, z)
  BY <1>2 DEF Alike
<1>5. ASSUME NEW c
      PROVE  /\ Coins(graves, c) \in Nat
             /\ Coins(graves', c) = Coins(graves, c) + IF graves'[g].owner = c THEN graves'[g].coins ELSE 0
  <2>1. g \in DOMAIN graves' /\ DOMAIN graves = DOMAIN graves' \ {g}
    BY <1>2
  <2> QED BY <1>3, <1>4, <2>1, CoinsOut
<1> QED BY <1>2, <1>3, <1>5

LEMMA BodyBuried ==
  ASSUME TypeOK, Tally, NEW b \in DOMAIN corpses, NEW n \in 0..corpses[b].coins, Bury(b, n), purse' = purse
  PROVE  NoGain
<1> DEFINE o == corpses[b].owner
           m == corpses[b].coins
<1>1. m \in Nat /\ n \in Nat /\ n <= m
  BY DEF Tally, Priced
<1>2. Dug(o, n) /\ Delete(b)
  BY DEF Bury, Dug
<1>3. Priced(corpses') /\ Priced(graves')
  BY <1>1, <1>2, BodyGoes, GraveComes
<1>4. ASSUME NEW c \in Chars PROVE Owned(c)' <= Owned(c)
  <2>1. Coins(corpses', c) \in Nat /\ Coins(corpses, c) = Coins(corpses', c) + IF o = c THEN m ELSE 0
    BY <1>2, BodyGoes
  <2>2. Coins(graves', c) = Coins(graves, c) + IF o = c THEN n ELSE 0
    BY <1>1, <1>2, GraveComes
  <2> HIDE DEF o, m
  <2> QED BY <1>1, <2>1, <2>2, OwnedParts
<1> QED BY <1>3, <1>4 DEF NoGain, Tally

\* An empty grave.
LEMMA GraveOfNothing ==
  ASSUME TypeOK, Tally, NEW o, Dug(o, 0), purse' = purse, corpses' = corpses
  PROVE  NoGain
<1>1. Priced(graves') /\ \A c : Coins(graves', c) = Coins(graves, c)
  BY GraveComes
<1> QED BY <1>1, OwnedParts DEF NoGain, Tally

LEMMA BodyTaken ==
  ASSUME TypeOK, Tally, NEW b \in DOMAIN corpses, Delete(b), graves' = graves,
         purse' = [purse EXCEPT ![corpses[b].owner] = @ + corpses[b].coins]
  PROVE  NoGain
<1> DEFINE o == corpses[b].owner
           m == corpses[b].coins
<1>1. m \in Nat
  BY DEF Tally, Priced
<1>2. ASSUME NEW c \in Chars PROVE Owned(c)' <= Owned(c)
  <2>1. Coins(corpses', c) \in Nat /\ Coins(corpses, c) = Coins(corpses', c) + IF o = c THEN m ELSE 0
    BY BodyGoes
  <2>2. purse'[c] = purse[c] + IF o = c THEN m ELSE 0
    BY <1>1, OwnedParts DEF TypeOK
  <2> HIDE DEF o, m
  <2> QED BY <1>1, <2>1, <2>2, OwnedParts
<1> QED BY <1>2, BodyGoes DEF NoGain, Tally

LEMMA GraveGoes ==
  ASSUME TypeOK, Tally, NEW g \in DOMAIN graves, graves' = Without(graves, g), corpses' = corpses,
         \/ purse' = purse
         \/ purse' = [purse EXCEPT ![graves[g].owner] = @ + graves[g].coins]
  PROVE  NoGain
<1> DEFINE o == graves[g].owner
           m == graves[g].coins
<1>1. m \in Nat
  BY DEF Tally, Priced
<1>2. DOMAIN graves' = DOMAIN graves \ {g} /\ \A z \in DOMAIN graves' : Alike(graves, graves', z)
  BY DEF Without, Restrict, Alike
<1>3. Priced(graves')
      /\ \A c : /\ Coins(graves', c) \in Nat
               /\ Coins(graves, c) = Coins(graves', c) + IF o = c THEN m ELSE 0
  <2>1. Priced(graves)
    BY DEF Tally
  <2>2. ASSUME NEW c
        PROVE  /\ Priced(graves') /\ Coins(graves', c) \in Nat
               /\ Coins(graves, c) = Coins(graves', c)
                    + IF graves[g].owner = c THEN graves[g].coins ELSE 0
    BY <1>2, <2>1, CoinsOut
  <2> QED BY <2>2
<1>4. ASSUME NEW c \in Chars PROVE Owned(c)' <= Owned(c)
  <2>1. purse'[c] = purse[c] \/ purse'[c] = purse[c] + IF o = c THEN m ELSE 0
    BY <1>1, OwnedParts DEF TypeOK
  <2>2. Coins(graves', c) \in Nat /\ Coins(graves, c) = Coins(graves', c) + IF o = c THEN m ELSE 0
    BY <1>3
  <2> HIDE DEF o, m
  <2> QED BY <1>1, <2>1, <2>2, OwnedParts
<1> QED BY <1>3, <1>4 DEF NoGain, Tally

\* The purse goes with the body.
LEMMA PurseDropped ==
  ASSUME TypeOK, Tally, LinksLeadToOwnBody, NEW o \in Chars, Die(o)
  PROVE  NoGain
<1>1. link[o] = None /\ graves' = graves /\ purse' = [purse EXCEPT ![o] = 0]
  BY DEF Die, LinksLeadToOwnBody, Gone
<1>2. PICK b \in FreeBodies : corpses' = With(AfterBlow(o), b, NewBody(o))
  BY <1>1 DEF Die
<1>3. DOMAIN AfterBlow(o) = DOMAIN corpses /\ b \notin DOMAIN corpses
  BY BlowTyped DEF Die, FreeBodies
<1>4. /\ DOMAIN corpses' = DOMAIN corpses \cup {b} /\ DOMAIN corpses = DOMAIN corpses' \ {b}
      /\ corpses'[b].owner = o /\ corpses'[b].coins = purse[o]
      /\ \A z \in DOMAIN corpses : corpses'[z] = AfterBlow(o)[z]
  BY <1>2, <1>3 DEF With, NewBody
<1>5. \A z \in DOMAIN corpses : Alike(corpses, corpses', z)
  BY <1>4, BlowKeepsOwners DEF Alike
<1>6. \A z \in DOMAIN corpses : Alike(corpses', corpses, z)
  BY <1>5 DEF Alike
<1>7. purse[o] \in Nat
  BY DEF TypeOK
<1>8. Priced(corpses')
  BY <1>4, <1>5, <1>7, FS_AddElement DEF Tally, Priced, Alike
<1>9. ASSUME NEW c \in Chars PROVE Owned(c)' <= Owned(c)
  <2>1. Coins(corpses', c) = Coins(corpses, c) + IF o = c THEN purse[o] ELSE 0
    <3>1. b \in DOMAIN corpses' /\ DOMAIN corpses = DOMAIN corpses' \ {b}
      BY <1>4
    <3>2. Coins(corpses', c) = Coins(corpses, c) + IF corpses'[b].owner = c THEN corpses'[b].coins ELSE 0
      BY <1>6, <1>8, <3>1, CoinsOut
    <3> QED BY <1>4, <3>2
  <2>2. purse'[c] = IF o = c THEN 0 ELSE purse[c]
    BY <1>1 DEF TypeOK
  <2> QED BY <1>1, <2>1, <2>2, OwnedParts
<1> QED BY <1>1, <1>8, <1>9 DEF NoGain, Tally

LEMMA CoinsKept ==
  ASSUME TypeOK, LinksLeadToOwnBody, Tally, [Next]_vars
  PROVE  NoGain
<1>1. ASSUME NEW k \in Clerics,
             \/ \E b \in Bodies, a \in Actions : StartRite(k, b, a)
             \/ RiteSucceeds(k) \/ RiteFails(k) \/ Hurt(k) \/ Leave(k)
      PROVE  NoGain
  <2>1. DOMAIN corpses' = DOMAIN corpses /\ OwnersKept
    BY <1>1, RiteKeepsOwners
  <2>2. purse' = purse /\ graves' = graves
    BY <1>1 DEF StartRite, RiteSucceeds, RiteFails, Hurt, Leave
  <2> QED BY <2>1, <2>2, NothingMoves
<1>2. CASE UNCHANGED <<purse, corpses, graves>>
  BY <1>2, NothingMoves DEF OwnersKept, Alike
<1>3. ASSUME NEW k \in Clerics,
             Unpuppet(k) \/ Arrive(k) \/ Revive(k) \/ \E b \in Bodies : CastRevival(k, b)
      PROVE  NoGain
  BY <1>2, <1>3 DEF Unpuppet, Arrive, Revive, CastRevival, Revival
<1>4. CASE Restart \/ UNCHANGED vars
  BY <1>2, <1>4 DEF Restart, vars
<1>5. ASSUME NEW c \in Chars, Fell(c)
      PROVE  NoGain
  <2>1. DOMAIN corpses' = DOMAIN corpses /\ \A b \in DOMAIN corpses : Alike(corpses, corpses', b)
    BY <1>5, BlowKeepsOwners, BlowTyped DEF Fell
  <2> QED BY <1>5, <2>1, NothingMoves DEF Fell, OwnersKept
<1>6. ASSUME NEW c \in Chars, Depart(c)
      PROVE  NoGain
  <2>1. CASE link[c] # None
    <3>1. PICK n \in Kept(corpses[link[c]].coins) : Bury(link[c], n)
      BY <1>6, <2>1 DEF Depart
    <3>2. link[c] \in DOMAIN corpses /\ n \in 0..corpses[link[c]].coins
      BY <2>1 DEF LinksLeadToOwnBody, Kept
    <3> QED BY <1>6, <3>1, <3>2, BodyBuried DEF Depart
  <2>2. CASE link[c] = None
    BY <1>6, <2>2, GraveOfNothing DEF Depart, Dug
  <2> QED BY <2>1, <2>2
<1>7. ASSUME NEW c \in Chars, Resurrect(c)
      PROVE  NoGain
  <2>1. CASE link[c] # None
    <3>1. link[c] \in DOMAIN corpses /\ corpses[link[c]].owner = c
      BY <2>1 DEF LinksLeadToOwnBody
    <3> QED BY <1>7, <2>1, <3>1, BodyTaken DEF Resurrect
  <2>2. CASE link[c] = None
    BY <1>2, <1>7, <2>2 DEF Resurrect
  <2> QED BY <2>1, <2>2
<1>8. ASSUME NEW b \in Bodies, Cleanup(b) \/ Decay(b)
      PROVE  NoGain
  BY <1>8, BodyLost DEF Cleanup, Decay
<1>9. ASSUME NEW b \in Bodies, Fade(b)
      PROVE  NoGain
  <2>1. DOMAIN corpses' = DOMAIN corpses /\ OwnersKept
    BY <1>9 DEF Fade, OwnersKept, Alike, TypeOK, Corpse
  <2> QED BY <1>9, <2>1, NothingMoves DEF Fade
<1>10. ASSUME NEW b \in Bodies, DecayCommand(b)
       PROVE  NoGain
  <2>1. b \in DOMAIN corpses /\ Bury(b, corpses[b].coins) /\ purse' = purse
    BY <1>10 DEF DecayCommand
  <2>2. corpses[b].coins \in 0..corpses[b].coins
    BY <2>1 DEF Tally, Priced
  <2> QED BY <2>1, <2>2, BodyBuried
<1>11. ASSUME NEW g \in Graves, Recover(g) \/ Expire(g)
       PROVE  NoGain
  BY <1>11, GraveGoes DEF Recover, Expire
<1> QED BY <1>1, <1>3, <1>4, <1>5, <1>6, <1>7, <1>8, <1>9, <1>10, <1>11, PurseDropped DEF Next, Complete

\* Coins are never made nor given away by dying and coming back: what a character
\* owns in purse, bodies and graves together never grows, for any number of
\* characters, clerics, bodies and graves.
THEOREM CoinsCorrect == Spec => CoinsNeverGrow
<1> DEFINE Less == \A c \in Chars : Owned(c)' <= Owned(c)
<1>1. Init => Tally
  <2> SUFFICES ASSUME Init PROVE Tally
    OBVIOUS
  <2>1. DOMAIN corpses = {} /\ DOMAIN graves = {}
    BY DEF Init
  <2> QED BY <2>1, FS_EmptySet DEF Tally, Priced
<1>2. TypeOK /\ LinksLeadToOwnBody /\ Tally /\ [Next]_vars => Tally' /\ Less
  BY CoinsKept DEF NoGain
<1>3. TypeOK /\ LinksLeadToOwnBody /\ Tally /\ [Next]_vars => Tally'
  BY <1>2
<1>4. TypeOK /\ LinksLeadToOwnBody /\ Tally /\ [Next]_vars => [Less]_vars
  BY <1>2
<1>5. CoinsNeverGrow <=> [][Less]_vars
  BY PTL DEF CoinsNeverGrow
<1> HIDE DEF Less
<1> QED BY <1>1, <1>3, <1>4, <1>5, LinksCorrect, PTL DEF Spec

=============================================================================
