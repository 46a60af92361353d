--------------------------- MODULE InterestProofs ---------------------------
(***************************************************************************)
(* Proofs about Interest for every world: any map, any zones and any       *)
(* number of characters and things.                                        *)
(***************************************************************************)
EXTENDS Interest, TLAPS

Entry(x, type, s, tag) == [obj |-> x, type |-> type, subject |-> s, tag |-> tag]

\* Characters and things are in rooms of the map.
LocationsTyped ==
  /\ location \in [Things -> Rooms \cup {None}]
  /\ last \in [Subjects -> Rooms]

RoomsFollow ==
  \A r \in Rooms, s \in Subjects : Registered(r, "room", s, None) <=> location[s] = r
NeighboursFollow ==
  \A r \in Rooms, s \in Subjects :
    Registered(r, "proximity", s, None) <=> (location[s] # None /\ r \in Near(location[s]))

\* No source of one sort is touched by registering another.
LEMMA SourcedEntry ==
  ASSUME NEW things, NEW type, NEW s, NEW tag,
         NEW x, NEW type2, NEW s2, NEW tag2
  PROVE  Entry(x, type2, s2, tag2) \in Sourced(things, type, s, tag)
           <=> x \in things /\ type2 = type /\ s2 = s /\ tag2 = tag
BY DEF Entry, Sourced

\* A room is reached by a source exactly when it is one of the rooms meant.
LEMMA WithinRoom ==
  ASSUME NEW rooms, NEW where, NEW r \in Rooms
  PROVE  r \in Within(rooms, where) <=> r \in rooms
BY InterestAssumption DEF Within, Things

\* What sync_subject_interest() leaves of the room sources on rooms.
LEMMA SyncedRooms ==
  ASSUME NEW s \in Subjects, NEW previous, NEW where, NEW r \in Rooms, NEW t \in Subjects
  PROVE  Entry(r, "room", t, None) \in SyncSubject(s, previous, where)
           <=> \/ Entry(r, "room", t, None) \in sources /\ ~(t = s /\ r \in Here(previous))
               \/ t = s /\ r \in Here(where[s])
<1> DEFINE e == Entry(r, "room", t, None)
<1>1. e \in SyncSubject(s, previous, where) <=> e \in SyncRoom(sources, s, previous, where)
  BY SourcedEntry DEF SyncSubject, SyncZone, SyncProximity
<1> QED BY <1>1, SourcedEntry, WithinRoom DEF SyncRoom

\* The same for the sources on neighbouring rooms.
LEMMA SyncedNeighbours ==
  ASSUME NEW s \in Subjects, NEW previous, NEW where, NEW r \in Rooms, NEW t \in Subjects
  PROVE  Entry(r, "proximity", t, None) \in SyncSubject(s, previous, where)
           <=> \/ Entry(r, "proximity", t, None) \in sources /\ ~(t = s /\ r \in Near(previous))
               \/ t = s /\ r \in Near(where[s])
<1> DEFINE e == Entry(r, "proximity", t, None)
           room == SyncRoom(sources, s, previous, where)
<1>1. e \in SyncSubject(s, previous, where) <=> e \in SyncProximity(room, s, previous, where)
  BY SourcedEntry DEF SyncSubject, SyncZone
<1>2. e \in room <=> e \in sources
  BY SourcedEntry DEF SyncRoom
<1> QED BY <1>1, <1>2, SourcedEntry, WithinRoom DEF SyncProximity

\* Characters stay on the map.
THEOREM LocationsCorrect == Spec => []LocationsTyped
<1>1. Init => LocationsTyped
  BY DEF Init, LocationsTyped
<1>2. LocationsTyped /\ [Next]_vars => LocationsTyped'
  <2> SUFFICES ASSUME LocationsTyped, [Next]_vars
               PROVE  LocationsTyped'
    OBVIOUS
  <2> USE DEF LocationsTyped, Things
  <2>1. CASE \E s \in Subjects, room \in Rooms : Move(s, room)
    BY <2>1 DEF Move
  <2>2. CASE \E s \in Subjects : Puppet(s)
    BY <2>2 DEF Puppet
  <2>3. CASE \E s \in Subjects : Unpuppet(s)
    BY <2>3 DEF Unpuppet, InGame
  <2>4. CASE \/ \E s \in Subjects, x \in Things \cup {None} : SetTarget(s, x)
             \/ \E s \in Subjects : LoseContact(s) \/ Die(s)
             \/ UNCHANGED vars
    BY <2>4 DEF SetTarget, LoseContact, Die, vars
  <2>5. CASE \E x \in Items, room \in Rooms \cup {None} : MoveItem(x, room)
    BY <2>5 DEF MoveItem
  <2> QED BY <2>1, <2>2, <2>3, <2>4, <2>5 DEF Next
<1> QED BY <1>1, <1>2, PTL DEF Spec

\* interest-model.md, source types "room" and "proximity": a room is active by
\* exactly the characters in it and next to it, in every world and after every
\* sequence of moves, logins, logouts and fights.
THEOREM PlacesCorrect == Spec => []PlacesFollowSubjects
<1> DEFINE IInv == LocationsTyped /\ PlacesFollowSubjects
<1>1. Init => IInv
  BY InterestAssumption DEF Init, LocationsTyped, PlacesFollowSubjects, Registered, Things
<1>2. IInv /\ [Next]_vars => PlacesFollowSubjects'
  <2> SUFFICES ASSUME LocationsTyped, PlacesFollowSubjects, [Next]_vars
               PROVE  PlacesFollowSubjects'
    OBVIOUS
  <2> SUFFICES ASSUME NEW r \in Rooms, NEW t \in Subjects
               PROVE  /\ Entry(r, "room", t, None) \in sources' <=> location'[t] = r
                      /\ Entry(r, "proximity", t, None) \in sources'
                           <=> (location'[t] # None /\ r \in Near(location'[t]))
    BY DEF PlacesFollowSubjects, Registered, Entry
  <2>0. /\ Entry(r, "room", t, None) \in sources <=> location[t] = r
        /\ Entry(r, "proximity", t, None) \in sources
             <=> (location[t] # None /\ r \in Near(location[t]))
    BY DEF PlacesFollowSubjects, Registered, Entry
  <2>A. ASSUME NEW s \in Subjects, NEW room \in Rooms,
               location' = [location EXCEPT ![s] = room],
               sources' = SyncSubject(s, location[s], location')
        PROVE  /\ Entry(r, "room", t, None) \in sources' <=> location'[t] = r
               /\ Entry(r, "proximity", t, None) \in sources'
                    <=> (location'[t] # None /\ r \in Near(location'[t]))
    <3>1. location'[s] = room /\ (t # s => location'[t] = location[t])
      BY <2>A DEF LocationsTyped, Things
    <3>2. room # None
      BY InterestAssumption
    <3>3. Entry(r, "room", t, None) \in sources'
            <=> \/ Entry(r, "room", t, None) \in sources /\ ~(t = s /\ r \in Here(location[s]))
                \/ t = s /\ r \in Here(location'[s])
      BY <2>A, SyncedRooms
    <3>4. Entry(r, "proximity", t, None) \in sources'
            <=> \/ Entry(r, "proximity", t, None) \in sources /\ ~(t = s /\ r \in Near(location[s]))
                \/ t = s /\ r \in Near(location'[s])
      BY <2>A, SyncedNeighbours
    <3>5. \A x : r \in Here(x) <=> r = x
      BY InterestAssumption DEF Here
    <3> QED BY <2>0, <3>1, <3>2, <3>3, <3>4, <3>5
  <2>1. CASE \E s \in Subjects, room \in Rooms : Move(s, room)
    BY <2>1, <2>A DEF Move
  <2>2. CASE \E s \in Subjects : Puppet(s)
    <3> PICK s \in Subjects : Puppet(s)
      BY <2>2
    <3> QED BY <2>A DEF Puppet, LocationsTyped
  <2>3. CASE \E s \in Subjects : Unpuppet(s)
    <3> PICK s \in Subjects : Unpuppet(s)
      BY <2>3
    <3>1. location'[s] = None /\ (t # s => location'[t] = location[t])
      BY DEF Unpuppet, LocationsTyped, Things
    <3>2. sources' = ClearSubject(s, location')
      BY DEF Unpuppet
    <3>3. Entry(r, "room", t, None) \in sources'
            <=> Entry(r, "room", t, None) \in sources /\ t # s
      BY <3>1, <3>2, Zenon DEF ClearSubject, Everywhere, Entry, Zone
    <3>4. Entry(r, "proximity", t, None) \in sources'
            <=> Entry(r, "proximity", t, None) \in sources /\ t # s
      BY <3>1, <3>2, Zenon DEF ClearSubject, Everywhere, Entry, Zone
    <3> QED BY <2>0, <3>1, <3>3, <3>4, InterestAssumption
  <2>4. CASE \E s \in Subjects, x \in Things \cup {None} : SetTarget(s, x)
    <3> PICK s \in Subjects, x \in Things \cup {None} : SetTarget(s, x)
      BY <2>4
    <3>1. sources' = SyncCombat(s, x) /\ location' = location
      BY DEF SetTarget
    <3>2. /\ Entry(r, "room", t, None) \in sources' <=> Entry(r, "room", t, None) \in sources
          /\ Entry(r, "proximity", t, None) \in sources'
               <=> Entry(r, "proximity", t, None) \in sources
      BY <3>1 DEF SyncCombat, Everywhere, Entry, Sourced
    <3> QED BY <2>0, <3>1, <3>2
  <2>5. CASE \E s \in Subjects : LoseContact(s) \/ Die(s)
    BY <2>0, <2>5 DEF LoseContact, Die
  <2>6. CASE \E x \in Items, room \in Rooms \cup {None} : MoveItem(x, room)
    <3>1. location'[t] = location[t] /\ sources' = sources
      BY <2>6, InterestAssumption DEF MoveItem, LocationsTyped, Things
    <3> QED BY <2>0, <3>1
  <2>7. CASE UNCHANGED vars
    BY <2>0, <2>7 DEF vars
  <2> QED BY <2>1, <2>2, <2>3, <2>4, <2>5, <2>6, <2>7 DEF Next
<1>3. Spec => []LocationsTyped
  BY LocationsCorrect
<1> QED BY <1>1, <1>2, <1>3, PTL DEF Spec

\* LoggedOutLeavesNothingNear, and what a room or proximity source looks like:
\* without the tag the removal "everywhere" might miss one.
NearSourcesOnline ==
  \A e \in sources : e.type \in {"room", "proximity"} =>
    e.subject \in Subjects /\ e.tag = None /\ location[e.subject] # None

\* What sync_subject_interest() registers is registered for s.
LEMMA SyncedSources ==
  ASSUME NEW s \in Subjects, NEW previous, NEW where,
         NEW e \in SyncSubject(s, previous, where), e.type \in {"room", "proximity"}
  PROVE  e \in sources \/ (e.subject = s /\ e.tag = None)
<1>1. e \in SyncProximity(SyncRoom(sources, s, previous, where), s, previous, where)
  BY DEF SyncSubject, SyncZone, Sourced
<1> QED BY <1>1 DEF SyncProximity, SyncRoom, Sourced

\* A logout removes a character's room and proximity sources from everything,
\* also from things that were carried elsewhere: in every world.
THEOREM LogoutCorrect == Spec => []LoggedOutLeavesNothingNear
<1> DEFINE IInv == LocationsTyped /\ NearSourcesOnline
<1>1. Init => IInv
  BY DEF Init, LocationsTyped, NearSourcesOnline
<1>2. IInv /\ [Next]_vars => NearSourcesOnline'
  <2> SUFFICES ASSUME LocationsTyped, NearSourcesOnline, [Next]_vars,
                      NEW e \in sources', e.type \in {"room", "proximity"}
               PROVE  e.subject \in Subjects /\ e.tag = None /\ location'[e.subject] # None
    BY DEF NearSourcesOnline
  <2>0. e \in sources => e.subject \in Subjects /\ e.tag = None /\ location[e.subject] # None
    BY DEF NearSourcesOnline
  <2>A. ASSUME NEW s \in Subjects, NEW room \in Rooms,
               location' = [location EXCEPT ![s] = room],
               sources' = SyncSubject(s, location[s], location')
        PROVE  e.subject \in Subjects /\ e.tag = None /\ location'[e.subject] # None
    <3>1. e \in sources \/ (e.subject = s /\ e.tag = None)
      BY <2>A, SyncedSources
    <3>2. room # None
      BY InterestAssumption
    <3> QED BY <2>0, <2>A, <3>1, <3>2 DEF LocationsTyped, Things
  <2>1. CASE \E s \in Subjects, room \in Rooms : Move(s, room)
    BY <2>1, <2>A DEF Move
  <2>2. CASE \E s \in Subjects : Puppet(s)
    <3> PICK s \in Subjects : Puppet(s)
      BY <2>2
    <3> QED BY <2>A DEF Puppet, LocationsTyped
  <2>3. CASE \E s \in Subjects : Unpuppet(s)
    <3> PICK s \in Subjects : Unpuppet(s)
      BY <2>3
    <3>1. e \in sources /\ e \notin Everywhere("room", s, None)
            /\ e \notin Everywhere("proximity", s, None)
      BY DEF Unpuppet, ClearSubject
    <3>2. e.subject # s
      BY <2>0, <3>1 DEF Everywhere
    <3> QED BY <2>0, <3>1, <3>2 DEF Unpuppet, LocationsTyped, Things
  <2>4. CASE \E s \in Subjects, x \in Things \cup {None} : SetTarget(s, x)
    <3>1. e \in sources /\ location' = location
      BY <2>4 DEF SetTarget, SyncCombat, Sourced
    <3> QED BY <2>0, <3>1
  <2>5. CASE \E s \in Subjects : LoseContact(s) \/ Die(s)
    BY <2>0, <2>5 DEF LoseContact, Die
  <2>6. CASE \E x \in Items, room \in Rooms \cup {None} : MoveItem(x, room)
    BY <2>0, <2>6, InterestAssumption DEF MoveItem, LocationsTyped, Things
  <2>7. CASE UNCHANGED vars
    BY <2>0, <2>7 DEF vars
  <2> QED BY <2>1, <2>2, <2>3, <2>4, <2>5, <2>6, <2>7 DEF Next
<1>3. IInv => LoggedOutLeavesNothingNear
  BY DEF NearSourcesOnline, LoggedOutLeavesNothingNear
<1>4. Spec => []LocationsTyped
  BY LocationsCorrect
<1> QED BY <1>1, <1>2, <1>3, <1>4, PTL DEF Spec

TargetsTyped == target \in [Subjects -> Things \cup {None}]

\* Room, proximity and zone synchronisation leaves combat sources alone.
LEMMA SyncedCombat ==
  ASSUME NEW s, NEW previous, NEW where, NEW x, NEW t
  PROVE  Entry(x, "direct", t, "combat") \in SyncSubject(s, previous, where)
           <=> Entry(x, "direct", t, "combat") \in sources
BY SourcedEntry DEF SyncSubject, SyncZone, SyncProximity, SyncRoom

\* Whoever fights keeps exactly its target active, in every world and wherever
\* either of the two went, logged out or died since.
THEOREM CombatCorrect == Spec => []CombatFollowsTarget
<1> DEFINE IInv == TargetsTyped /\ CombatFollowsTarget
<1>1. Init => IInv
  BY DEF Init, TargetsTyped, CombatFollowsTarget
<1>2. IInv /\ [Next]_vars => IInv'
  <2> SUFFICES ASSUME TargetsTyped, CombatFollowsTarget, [Next]_vars
               PROVE  TargetsTyped' /\ CombatFollowsTarget'
    OBVIOUS
  <2>0. ASSUME target' = target,
               \A t \in Subjects, y \in Things : Entry(y, "direct", t, "combat") \in sources'
                                       <=> Entry(y, "direct", t, "combat") \in sources
        PROVE  TargetsTyped' /\ CombatFollowsTarget'
    BY <2>0 DEF TargetsTyped, CombatFollowsTarget, Registered, Entry
  <2>1. CASE \E s \in Subjects, room \in Rooms : Move(s, room)
    BY <2>0, <2>1, SyncedCombat DEF Move
  <2>2. CASE \E s \in Subjects : Puppet(s)
    BY <2>0, <2>2, SyncedCombat DEF Puppet
  <2>3. CASE \E s \in Subjects : Unpuppet(s)
    <3>1. PICK s \in Subjects : target' = target /\ sources' = ClearSubject(s, location')
      BY <2>3 DEF Unpuppet
    <3>2. \A t \in Subjects, y \in Things : Entry(y, "direct", t, "combat") \in sources'
                                  <=> Entry(y, "direct", t, "combat") \in sources
      BY <3>1 DEF ClearSubject, Everywhere, Entry
    <3> QED BY <2>0, <3>1, <3>2
  <2>4. CASE \E s \in Subjects, x \in Things \cup {None} : SetTarget(s, x)
    <3>1. PICK s \in Subjects, x \in Things \cup {None} :
            target' = [target EXCEPT ![s] = x] /\ sources' = SyncCombat(s, x)
      BY <2>4 DEF SetTarget
    <3>2. TargetsTyped'
      BY <3>1 DEF TargetsTyped
    <3>3. ASSUME NEW t \in Subjects, NEW y \in Things, target'[t] # None
          PROVE  Entry(y, "direct", t, "combat") \in sources' <=> target'[t] = y
      <4>1. Entry(y, "direct", t, "combat") \in sources'
              <=> \/ Entry(y, "direct", t, "combat") \in sources /\ t # s
                  \/ y \in {x} \ {None} /\ t = s
        BY <3>1, SourcedEntry DEF SyncCombat, Everywhere, Entry
      <4>2. CASE t = s
        BY <3>1, <3>3, <4>1, <4>2 DEF TargetsTyped
      <4>3. CASE t # s
        BY <3>1, <3>3, <4>1, <4>3 DEF TargetsTyped, CombatFollowsTarget, Registered, Entry
      <4> QED BY <4>2, <4>3
    <3> QED BY <3>2, <3>3 DEF CombatFollowsTarget, Registered, Entry
  <2>5. CASE \E s \in Subjects : LoseContact(s) \/ Die(s)
    BY <2>5 DEF LoseContact, Die, TargetsTyped, CombatFollowsTarget, Registered
  <2>6. CASE \E x \in Items, room \in Rooms \cup {None} : MoveItem(x, room)
    BY <2>0, <2>6 DEF MoveItem
  <2>7. CASE UNCHANGED vars
    BY <2>0, <2>7 DEF vars
  <2> QED BY <2>1, <2>2, <2>3, <2>4, <2>5, <2>6, <2>7 DEF Next
<1>3. IInv => CombatFollowsTarget
  OBVIOUS
<1> QED BY <1>1, <1>2, <1>3, PTL DEF Spec

\* ZonesFollowSubjects, and what a logout leaves behind: zone sources may stay on,
\* but only those of the room the character will come back to, so that logging in
\* again, where sync_zone_interest() has no previous room to clean up, is right.
ZonesKept ==
  /\ ZonesFollowSubjects
  /\ \A r \in Rooms, s \in Subjects, z \in Zones :
       location[s] = None /\ Registered(r, "zone", s, z) => z = Zone(last[s]) /\ r \in ZoneRooms(z)

\* What sync_subject_interest() leaves of the zone sources on rooms.
LEMMA SyncedZones ==
  ASSUME NEW s \in Subjects, NEW previous \in Rooms \cup {None}, NEW where,
         where[s] \in Rooms, NEW r \in Rooms, NEW t \in Subjects, NEW z \in Zones
  PROVE  Entry(r, "zone", t, z) \in SyncSubject(s, previous, where)
           <=> \/ /\ Entry(r, "zone", t, z) \in sources
                  /\ \/ Zone(previous) = Zone(where[s])
                     \/ ~(t = s /\ z = Zone(previous) /\ r \in ZoneRooms(z))
               \/ /\ Zone(previous) # Zone(where[s])
                  /\ t = s /\ z = Zone(where[s]) /\ r \in ZoneRooms(z)
<1> DEFINE e == Entry(r, "zone", t, z)
           near == SyncProximity(SyncRoom(sources, s, previous, where), s, previous, where)
<1>1. e \in near <=> e \in sources
  BY SourcedEntry DEF SyncProximity, SyncRoom
<1>2. \A zone : r \in Within(ZoneRooms(zone), where) <=> r \in ZoneRooms(zone)
  BY WithinRoom
<1>4. SyncSubject(s, previous, where) = SyncZone(near, s, previous, where)
  BY DEF SyncSubject
<1>5. CASE Zone(previous) = Zone(where[s])
  BY <1>1, <1>4, <1>5 DEF SyncZone
<1>6. CASE Zone(previous) # Zone(where[s])
  <2>1. e \in SyncZone(near, s, previous, where)
          <=> \/ /\ e \in near
                 /\ ~(r \in Within(ZoneRooms(Zone(previous)), where) /\ t = s /\ z = Zone(previous))
              \/ r \in Within(ZoneRooms(Zone(where[s])), where) /\ t = s /\ z = Zone(where[s])
    BY <1>6, SourcedEntry DEF SyncZone
  <2> QED BY <1>1, <1>2, <1>4, <1>6, <2>1
<1> QED BY <1>5, <1>6

\* interest-model.md, source type "zone": for a character in the game the rooms of
\* its zone, and no others, are active, however it got there: within the zone,
\* across its border, through rooms outside all zones, or by logging in again.
THEOREM ZonesCorrect == Spec => []ZonesFollowSubjects
<1> DEFINE IInv == LocationsTyped /\ ZonesKept
<1>1. Init => IInv
  BY InterestAssumption DEF Init, LocationsTyped, ZonesKept, ZonesFollowSubjects, Registered
<1>2. IInv /\ [Next]_vars => ZonesKept'
  <2> SUFFICES ASSUME LocationsTyped, ZonesKept, [Next]_vars
               PROVE  ZonesKept'
    OBVIOUS
  <2> DEFINE Right(t, r, z) ==
        /\ location'[t] # None =>
             (Entry(r, "zone", t, z) \in sources' <=> z = Zone(location'[t]) /\ r \in ZoneRooms(z))
        /\ location'[t] = None /\ Entry(r, "zone", t, z) \in sources' =>
             z = Zone(last'[t]) /\ r \in ZoneRooms(z)
  <2> SUFFICES ASSUME NEW r \in Rooms, NEW t \in Subjects, NEW z \in Zones
               PROVE  Right(t, r, z)
    BY DEF ZonesKept, ZonesFollowSubjects, Registered, Entry
  <2>0. /\ location[t] # None =>
             (Entry(r, "zone", t, z) \in sources <=> z = Zone(location[t]) /\ r \in ZoneRooms(z))
        /\ location[t] = None /\ Entry(r, "zone", t, z) \in sources =>
             z = Zone(last[t]) /\ r \in ZoneRooms(z)
    BY DEF ZonesKept, ZonesFollowSubjects, Registered, Entry
  <2>A. ASSUME NEW s \in Subjects, NEW room \in Rooms, last' = last,
               location' = [location EXCEPT ![s] = room],
               location[s] = None => room = last[s],
               sources' = SyncSubject(s, location[s], location')
        PROVE  Right(t, r, z)
    <3>1. /\ location'[s] = room /\ (t # s => location'[t] = location[t])
          /\ location[s] \in Rooms \cup {None}
      BY <2>A DEF LocationsTyped, Things
    <3>2. room # None /\ Zone(None) = None /\ z # None
      BY InterestAssumption DEF Zone, Zones
    <3>3. Entry(r, "zone", t, z) \in sources'
            <=> \/ /\ Entry(r, "zone", t, z) \in sources
                   /\ \/ Zone(location[s]) = Zone(room)
                      \/ ~(t = s /\ z = Zone(location[s]) /\ r \in ZoneRooms(z))
                \/ /\ Zone(location[s]) # Zone(room)
                   /\ t = s /\ z = Zone(room) /\ r \in ZoneRooms(z)
      <4>1. location'[s] \in Rooms
        BY <3>1
      <4>2. Entry(r, "zone", t, z) \in SyncSubject(s, location[s], location')
              <=> \/ /\ Entry(r, "zone", t, z) \in sources
                     /\ \/ Zone(location[s]) = Zone(location'[s])
                        \/ ~(t = s /\ z = Zone(location[s]) /\ r \in ZoneRooms(z))
                  \/ /\ Zone(location[s]) # Zone(location'[s])
                     /\ t = s /\ z = Zone(location'[s]) /\ r \in ZoneRooms(z)
        BY <3>1, <4>1, SyncedZones
      <4> QED BY <2>A, <3>1, <4>2
    <3>4. CASE t # s
      BY <2>0, <2>A, <3>1, <3>3, <3>4
    <3>5. CASE t = s /\ location[s] # None
      BY <2>0, <3>1, <3>2, <3>3, <3>5
    <3>6. CASE t = s /\ location[s] = None
      BY <2>0, <2>A, <3>1, <3>2, <3>3, <3>6
    <3> QED BY <3>4, <3>5, <3>6
  <2>1. CASE \E s \in Subjects, room \in Rooms : Move(s, room)
    BY <2>1, <2>A DEF Move, InGame
  <2>2. CASE \E s \in Subjects : Puppet(s)
    <3> PICK s \in Subjects : Puppet(s)
      BY <2>2
    <3> QED BY <2>A DEF Puppet, LocationsTyped
  <2>3. CASE \E s \in Subjects : Unpuppet(s)
    <3> PICK s \in Subjects : Unpuppet(s)
      BY <2>3
    <3>1. /\ location'[s] = None /\ (t # s => location'[t] = location[t])
          /\ last'[s] = location[s] /\ (t # s => last'[t] = last[t])
          /\ location[s] \in Rooms
      BY DEF Unpuppet, InGame, LocationsTyped, Things
    <3>2. sources' = ClearSubject(s, location')
      BY DEF Unpuppet
    <3>3. Entry(r, "zone", t, z) \in sources' <=> Entry(r, "zone", t, z) \in sources
      BY <3>1, <3>2, Zenon DEF ClearSubject, Everywhere, Entry, Zone
    <3>4. location[s] # None
      BY <3>1, InterestAssumption
    <3> QED BY <2>0, <3>1, <3>3, <3>4
  <2>4. CASE \E s \in Subjects, x \in Things \cup {None} : SetTarget(s, x)
    <3> PICK s \in Subjects, x \in Things \cup {None} : SetTarget(s, x)
      BY <2>4
    <3>1. sources' = SyncCombat(s, x) /\ location' = location /\ last' = last
      BY DEF SetTarget
    <3>2. Entry(r, "zone", t, z) \in sources' <=> Entry(r, "zone", t, z) \in sources
      BY <3>1, SourcedEntry DEF SyncCombat, Everywhere, Entry
    <3> QED BY <2>0, <3>1, <3>2
  <2>5. CASE \E s \in Subjects : LoseContact(s) \/ Die(s)
    BY <2>0, <2>5 DEF LoseContact, Die
  <2>6. CASE \E x \in Items, room \in Rooms \cup {None} : MoveItem(x, room)
    <3>1. location'[t] = location[t] /\ sources' = sources /\ last' = last
      BY <2>6, InterestAssumption DEF MoveItem, LocationsTyped, Things
    <3> QED BY <2>0, <3>1
  <2>7. CASE UNCHANGED vars
    BY <2>0, <2>7 DEF vars
  <2> QED BY <2>1, <2>2, <2>3, <2>4, <2>5, <2>6, <2>7 DEF Next
<1>3. IInv => ZonesFollowSubjects
  BY DEF ZonesKept
<1>4. Spec => []LocationsTyped
  BY LocationsCorrect
<1> QED BY <1>1, <1>2, <1>3, <1>4, PTL DEF Spec

-----------------------------------------------------------------------------
(* Types *)

\* Whatever is registered on places and what lies in them is a source.
LEMMA SourcedTyped ==
  ASSUME NEW rooms, rooms \subseteq Rooms, NEW where, NEW s \in Subjects,
         NEW type \in {"room", "proximity", "zone"}, NEW tag \in Zones \cup {None}
  PROVE  Sourced(Within(rooms, where), type, s, tag) \subseteq Source
<1>1. Within(rooms, where) \subseteq Rooms \cup Things
  BY DEF Within
<1> QED BY <1>1 DEF Sourced, Source

\* A room's zone is one of its areas or its region.
LEMMA ZoneTyped ==
  ASSUME NEW room \in Rooms \cup {None}
  PROVE  Zone(room) \in Zones \cup {None}
<1>1. CASE room = None
  BY <1>1 DEF Zone
<1>2. CASE room # None
  <2>1. room \in Rooms /\ BuildTags[room] \in Seq(Areas) /\ Region[room] \in Regions \cup {None}
    BY <1>2, InterestAssumption
  <2>2. BuildTags[room] # <<>> => BuildTags[room][1] \in Areas
    BY <2>1
  <2> QED BY <1>2, <2>1, <2>2 DEF Zone, Zones
<1> QED BY <1>1, <1>2

\* sync_subject_interest() registers sources, in rooms of the map.
LEMMA SyncedTyped ==
  ASSUME NEW s \in Subjects, NEW previous, NEW where, where[s] \in Rooms \cup {None}, sources \subseteq Source
  PROVE  SyncSubject(s, previous, where) \subseteq Source
<1> DEFINE room == SyncRoom(sources, s, previous, where)
           near == SyncProximity(room, s, previous, where)
<1>1. room \subseteq Source
  <2>1. Here(where[s]) \subseteq Rooms
    BY DEF Here
  <2> QED BY <2>1, SourcedTyped DEF SyncRoom
<1>2. near \subseteq Source
  <2>1. Near(where[s]) \subseteq Rooms
    BY DEF Near
  <2> HIDE DEF room
  <2> QED BY <1>1, <2>1, SourcedTyped DEF SyncProximity
<1>3. SyncZone(near, s, previous, where) \subseteq Source
  <2>1. ZoneRooms(Zone(where[s])) \subseteq Rooms /\ Zone(where[s]) \in Zones \cup {None}
    BY ZoneTyped DEF ZoneRooms
  <2> HIDE DEF near
  <2> QED BY <1>2, <2>1, SourcedTyped DEF SyncZone
<1> QED BY <1>3 DEF SyncSubject

\* In every world all that the registry holds are sources of the four types, on
\* places and things, for characters.
THEOREM TypeCorrect == Spec => []TypeOK
<1>1. Init => TypeOK
  BY DEF Init, TypeOK, Things
<1>2. TypeOK /\ LocationsTyped /\ LocationsTyped' /\ [Next]_vars => TypeOK'
  <2> SUFFICES ASSUME TypeOK, LocationsTyped, LocationsTyped', [Next]_vars
               PROVE  target' \in [Subjects -> Things \cup {None}] /\ sources' \subseteq Source
    BY DEF TypeOK, LocationsTyped
  <2>0. sources \subseteq Source /\ target \in [Subjects -> Things \cup {None}]
    BY DEF TypeOK
  <2>a. \A s \in Subjects : location'[s] \in Rooms \cup {None}
    BY DEF LocationsTyped, Things
  <2>1. CASE \E s \in Subjects, room \in Rooms : Move(s, room)
    <3> PICK s \in Subjects, room \in Rooms : Move(s, room)
      BY <2>1
    <3>1. sources' = SyncSubject(s, location[s], location') /\ target' = target
      BY DEF Move
    <3> QED BY <2>0, <2>a, <3>1, SyncedTyped
  <2>2. CASE \E s \in Subjects : Puppet(s)
    <3> PICK s \in Subjects : Puppet(s)
      BY <2>2
    <3>1. sources' = SyncSubject(s, None, location') /\ target' = target
      BY DEF Puppet
    <3> QED BY <2>0, <2>a, <3>1, SyncedTyped
  <2>3. CASE \E s \in Subjects : Unpuppet(s)
    BY <2>0, <2>3 DEF Unpuppet, ClearSubject
  <2>4. CASE \E s \in Subjects, x \in Things \cup {None} : SetTarget(s, x)
    <3> PICK s \in Subjects, x \in Things \cup {None} : SetTarget(s, x)
      BY <2>4
    <3>1. target' = [target EXCEPT ![s] = x] /\ sources' = SyncCombat(s, x)
      BY DEF SetTarget
    <3>2. Sourced({x} \ {None}, "direct", s, "combat") \subseteq Source
      BY DEF Sourced, Source
    <3>3. sources' \subseteq Source
      BY <2>0, <3>1, <3>2 DEF SyncCombat
    <3> QED BY <2>0, <3>1, <3>3
  <2>5. CASE \E s \in Subjects : LoseContact(s) \/ Die(s)
    BY <2>0, <2>5 DEF LoseContact, Die
  <2>6. CASE \E x \in Items, room \in Rooms \cup {None} : MoveItem(x, room)
    BY <2>0, <2>6 DEF MoveItem
  <2>7. CASE UNCHANGED vars
    BY <2>0, <2>7 DEF vars
  <2> QED BY <2>1, <2>2, <2>3, <2>4, <2>5, <2>6, <2>7 DEF Next
<1>3. Spec => []LocationsTyped
  BY LocationsCorrect
<1> QED BY <1>1, <1>2, <1>3, PTL DEF Spec
=============================================================================
