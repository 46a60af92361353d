SPECIFICATION Spec
CONSTANTS
  None = None
  k1 = k1  k2 = k2  o1 = o1  s1 = s1  s2 = s2  x1 = x1
  Keys = {k1, k2}
  Owners = {o1}
  Systems = {s1, s2}
  Objects = {x1}
  MaxPerOwner = 2  MaxPerSystem = 2  MaxTotal = 3
  OwnerBehavior = "delay"  SystemBehavior = "reject"  GlobalBehavior = "reject"
  MaxDelayAttempts = 1
  MaxDefers = 3
  DirectCancel = TRUE
  MaxToggles = 2
  MaxId = 3
  Requests <- InterestRequests
INVARIANTS TypeOK TasksMatchJobs InactivePolicyNeverFires DeferredAtMostOnce
PROPERTIES FlushServesDue LedgerSpec
