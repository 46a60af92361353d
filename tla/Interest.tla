------------------------------ MODULE Interest ------------------------------
(***************************************************************************)
(* The activation registry of world/systems/interest.py while the flag     *)
(* interest_activation is on: every character is a subject that keeps the  *)
(* things around it active, and typeclasses/characters.py calls the        *)
(* registry when a character moves, logs in or out, and picks or loses a   *)
(* combat target.  Each call is one step: the reactor runs it to its end.  *)
(*                                                                         *)
(* A source is one entry of a record's "sources": the thing it is          *)
(* registered on, its type, the subject, and the zone or channel that is   *)
(* part of its key.  Scheduled sources are in SchedulerQueue.tla.          *)
(* Abstracted: weak references, metrics and the on_activate hooks (no      *)
(* typeclass defines one); the map of the world, its tags and regions do   *)
(* not change, so the 30 second zone cache always holds the right rooms.   *)
(* Only rooms carry a build tag or a region.                               *)
(***************************************************************************)
EXTENDS FiniteSets, Functions, Sequences

CONSTANTS
  Rooms, Exits,       \* the rooms, and the pairs an exit leads from and to
  Areas, BuildTags,   \* area tags, and those of each room in their order
  Regions, Region,    \* regions, and the one of each room, or None by default
  Subjects, Items,    \* characters and other things that lie in rooms
  Mortal,             \* the characters that may die
  None

ASSUME InterestAssumption ==
  /\ Exits \subseteq Rooms \X Rooms
  /\ BuildTags \in [Rooms -> Seq(Areas)]
  /\ Region \in [Rooms -> Regions \cup {None}]
  /\ Areas \cap Regions = {}
  /\ Mortal \subseteq Subjects
  /\ None \notin Rooms \cup Areas \cup Regions \cup Subjects \cup Items
  /\ Rooms \cap (Subjects \cup Items) = {} /\ Subjects \cap Items = {}

VARIABLES
  location,    \* the room each thing is in, or None (logged out, or carried)
  last,        \* db.prelogout_location, where a character comes back
  target,      \* db.target
  sources      \* the registry

vars == <<location, last, target, sources>>

Things == Subjects \cup Items
Zones == Areas \cup Regions      \* the keys "area:..." and "region:..."

Source ==
  [obj : Rooms \cup Things, type : {"room", "proximity", "zone", "direct"},
   subject : Subjects, tag : Zones \cup {None, "combat"}]

Init ==
  /\ location \in [Things -> Rooms \cup {None}]
  /\ \A s \in Subjects : location[s] = None
  /\ last \in [Subjects -> Rooms]
  /\ target = [s \in Subjects |-> None]
  /\ sources = {}

-----------------------------------------------------------------------------
(* Whom a source reaches *)

\* _iter_room_targets() of these rooms: the rooms and what lies in them.
Within(rooms, where) == rooms \cup {x \in Things : where[x] \in rooms}

Here(room) == {room} \ {None}
Near(room) == {n \in Rooms \ {room} : <<room, n>> \in Exits}     \* radius 1

\* _get_zone_key(): the first build tag, and the region only of an untagged room.
Zone(room) ==
  IF room = None THEN None
  ELSE IF BuildTags[room] # <<>> THEN BuildTags[room][1] ELSE Region[room]

\* _iter_zone_rooms(): all rooms with that tag, first or not, or in that region,
\* tagged or not; so a room may belong to several zones.
ZoneRooms(zone) ==
  IF zone = None THEN {} ELSE {r \in Rooms : zone \in Range(BuildTags[r]) \/ zone = Region[r]}

Sourced(things, type, s, tag) ==
  {[obj |-> x, type |-> type, subject |-> s, tag |-> tag] : x \in things}

\* _remove_source_everywhere()
Everywhere(type, s, tag) ==
  {e \in sources : e.type = type /\ e.subject = s /\ e.tag = tag}

\* sync_room_interest() and sync_proximity_interest(): off what lies around the
\* previous room now, onto what lies around the new one.
SyncRoom(all, s, previous, where) ==
  (all \ Sourced(Within(Here(previous), where), "room", s, None))
    \cup Sourced(Within(Here(where[s]), where), "room", s, None)

\* Variant: what was near stays so.
SyncProximityAddsOnly(all, s, previous, where) ==
  all \cup Sourced(Within(Near(where[s]), where), "proximity", s, None)

SyncProximity(all, s, previous, where) ==
  (all \ Sourced(Within(Near(previous), where), "proximity", s, None))
    \cup Sourced(Within(Near(where[s]), where), "proximity", s, None)

\* Variants: the early return for a room outside all zones comes first; the
\* source is keyed by the room.
SyncZoneReturnsEarly(all, s, previous, where) ==
  LET old == Zone(previous)
      new == Zone(where[s])
  IN  IF new = None \/ old = new THEN all
      ELSE (all \ Sourced(Within(ZoneRooms(old), where), "zone", s, old))
             \cup Sourced(Within(ZoneRooms(new), where), "zone", s, new)
SyncZoneByRoom(all, s, previous, where) ==
  all \cup Sourced(Within(ZoneRooms(Zone(where[s])), where), "zone", s, where[s])

\* sync_zone_interest(): nothing happens within a zone.
SyncZone(all, s, previous, where) ==
  LET old == Zone(previous)
      new == Zone(where[s])
  IN  IF old = new THEN all
      ELSE (all \ Sourced(Within(ZoneRooms(old), where), "zone", s, old))
             \cup Sourced(Within(ZoneRooms(new), where), "zone", s, new)

\* sync_subject_interest(), called with where the character is by now.
SyncSubject(s, previous, where) ==
  SyncZone(SyncProximity(SyncRoom(sources, s, previous, where), s, previous, where),
           s, previous, where)

\* Variant: only what lies around the character is cleared.
ClearSubjectNear(s, where) ==
  sources \ (Sourced(Within(Here(where[s]), where), "room", s, None)
               \cup Sourced(Within(Near(where[s]), where), "proximity", s, None))

\* clear_subject_interest(): the zone is read from the room s is in.
ClearSubject(s, where) ==
  sources \ (Everywhere("room", s, None) \cup Everywhere("proximity", s, None)
               \cup (IF Zone(where[s]) = None THEN {} ELSE Everywhere("zone", s, Zone(where[s]))))

\* Variant: the old target keeps its source.
SyncCombatAddsOnly(s, x) == sources \cup Sourced({x} \ {None}, "direct", s, "combat")

\* sync_direct_interest() on the combat channel.
SyncCombat(s, x) ==
  (sources \ Everywhere("direct", s, "combat"))
    \cup Sourced({x} \ {None}, "direct", s, "combat")

-----------------------------------------------------------------------------
(* Characters *)

InGame(s) == location[s] # None

\* Character.at_post_move()
Move(s, room) ==
  /\ InGame(s) /\ room # location[s]
  /\ location' = [location EXCEPT ![s] = room]
  /\ sources' = SyncSubject(s, location[s], location')
  /\ UNCHANGED <<last, target>>

\* Evennia puts the character back, then Character.at_post_puppet().
Puppet(s) ==
  /\ location[s] = None
  /\ location' = [location EXCEPT ![s] = last[s]]
  /\ sources' = SyncSubject(s, None, location')
  /\ UNCHANGED <<last, target>>

\* Character.at_post_unpuppet(): its super() call has put the character into
\* None-space by the time clear_subject_interest() is called.
Unpuppet(s) ==
  /\ InGame(s)
  /\ location' = [location EXCEPT ![s] = None]
  /\ last' = [last EXCEPT ![s] = location[s]]
  /\ sources' = ClearSubject(s, location')
  /\ UNCHANGED target

\* Character.set_target(): commands find anything in the room, the caller included.
SetTarget(s, x) ==
  /\ x # None => InGame(s) /\ location[x] = location[s]
  /\ target' = [target EXCEPT ![s] = x]
  /\ sources' = SyncCombat(s, x)
  /\ UNCHANGED <<location, last>>

\* _clear_combat_link(), when the two are out of range or an operator renews the
\* character: db.target is reset, and that of an opponent who fights back.
LoseContact(s) ==
  /\ target' = [x \in Subjects |->
                 IF x = s \/ (x = target[s] /\ target[x] = s) THEN None ELSE target[x]]
  /\ UNCHANGED <<location, last, sources>>

\* handle_death() resets db.target itself.
Die(s) ==
  /\ s \in Mortal /\ InGame(s)
  /\ target' = [target EXCEPT ![s] = None]
  /\ UNCHANGED <<location, last, sources>>

\* An item is dropped or taken: Object.move_to() tells the registry nothing.
MoveItem(x, room) ==
  /\ room # location[x]
  /\ location' = [location EXCEPT ![x] = room]
  /\ UNCHANGED <<last, target, sources>>

Next ==
  \/ \E s \in Subjects :
       \/ \E r \in Rooms : Move(s, r)
       \/ Puppet(s) \/ Unpuppet(s) \/ LoseContact(s) \/ Die(s)
       \/ \E x \in Things \cup {None} : SetTarget(s, x)
  \/ \E x \in Items, r \in Rooms \cup {None} : MoveItem(x, r)

Spec == Init /\ [][Next]_vars

-----------------------------------------------------------------------------
(* Properties *)

Registered(x, type, s, tag) ==
  [obj |-> x, type |-> type, subject |-> s, tag |-> tag] \in sources

TypeOK ==
  /\ location \in [Things -> Rooms \cup {None}] /\ last \in [Subjects -> Rooms]
  /\ target \in [Subjects -> Things \cup {None}]
  /\ sources \subseteq Source

\* The place itself follows the characters: a room is kept active by exactly the
\* characters in it and, one exit away, by exactly those next to it.
PlacesFollowSubjects ==
  \A r \in Rooms, s \in Subjects :
    /\ Registered(r, "room", s, None) <=> location[s] = r
    /\ Registered(r, "proximity", s, None) <=> (location[s] # None /\ r \in Near(location[s]))

\* So does every room of its zone, as long as the character is in the game: whoever
\* is in a room keeps all rooms tagged like it or, for want of a tag, of its region
\* active under that zone's key, and no room under any other key.  So
\* sync_zone_interest() may skip moves within a zone and never misses a change of
\* zone, although zones overlap.
ZonesFollowSubjects ==
  \A r \in Rooms, s \in Subjects, z \in Zones :
    location[s] # None => (Registered(r, "zone", s, z) <=> z = Zone(location[s]) /\ r \in ZoneRooms(z))

\* A character that left the game keeps no room or neighbour active, and nothing
\* that was there, wherever it was carried to since.
LoggedOutLeavesNothingNear ==
  \A e \in sources : e.type \in {"room", "proximity"} => location[e.subject] # None

\* Whoever fights keeps its target active, wherever either has gone since, and no
\* former target along with it.
CombatFollowsTarget ==
  \A s \in Subjects, x \in Things :
    target[s] # None => (Registered(x, "direct", s, "combat") <=> target[s] = x)

\* Who has no target keeps nobody active by fighting (not so after a death
\* or a lost contact).
FightsEnd ==
  \A e \in sources : e.type = "direct" => target[e.subject] # None

\* A character that left the game keeps no zone active either.
LoggedOutLeavesNoZone ==
  \A e \in sources : e.type = "zone" => location[e.subject] # None

\* What lies in a room is kept active by exactly the characters in that room.
ThingsFollowSubjects ==
  \A x \in Things, s \in Subjects :
    location[x] # None => (Registered(x, "room", s, None) <=> location[s] = location[x])
=============================================================================
