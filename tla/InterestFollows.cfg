SPECIFICATION Spec
CONSTANTS
  None = None
  square = square  lane = lane  quay = quay  crypt = crypt  moor = moor
  town = town  docks = docks  shire = shire
  ann = ann  bob = bob  lamp = lamp
  Rooms = {square, lane, quay, crypt, moor}
  Exits <- World
  Areas = {town, docks}
  BuildTags <- Tags
  Regions = {shire}
  Region <- Lands
  Subjects = {ann}
  Items = {lamp}
  Mortal = {ann}
INVARIANTS TypeOK PlacesFollowSubjects ZonesFollowSubjects CombatFollowsTarget LoggedOutLeavesNothingNear
