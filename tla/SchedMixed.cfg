SPECIFICATION FairSpec
CONSTANTS
  None = None
  k1 = k1  k2 = k2  k3 = k3  o1 = o1  o2 = o2  s1 = s1  s2 = s2  x1 = x1
  Keys = {k1, k2, k3}
  Owners = {o1, o2}
  Systems = {s1, s2}
  Objects = {x1}
  MaxPerOwner = 1  MaxPerSystem = 1  MaxTotal = 2
  OwnerBehavior = "delay"  SystemBehavior = "replace_oldest"  GlobalBehavior = "reject"
  MaxDelayAttempts = 2
  Requests <- KeyedRequests
  MaxId = 3
INVARIANTS TimersMatchJobs SourcesMatchJobs WaitsOnce
PROPERTIES EveryTicketSettles LedgerSpec
