SPECIFICATION Spec
CONSTANTS
  None = None
  a1 = a1  fish = fish  b1 = b1  b2 = b2  t1 = t1  t2 = t2
  bank = bank  pier = pier  hall = hall
  Keys <- AllKeys
  OtherKeys <- Other
  Owners = {a1}
  Systems = {fish}
  Objects = {}
  MaxPerOwner = 3  MaxPerSystem = 9  MaxTotal = 9
  OwnerBehavior = "reject"  SystemBehavior = "reject"  GlobalBehavior = "reject"
  MaxDelayAttempts = 1
  Actor = a1
  Fishing = fish
  Rooms = {bank, pier, hall}
  Fishable = {bank, pier}
  Baits = {b1, b2}
  Tokens = {t1, t2}
INVARIANTS AttemptHasTimer
