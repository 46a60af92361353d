SPECIFICATION FairSpec
CONSTANTS
  None = None
  ann = ann  kay = kay  lee = lee  b1 = b1  b2 = b2  g1 = g1
  Chars = {ann, kay, lee}
  Clerics = {kay, lee}
  Mortal = {ann, kay}
  Crowded = {kay}
  Bodies = {b1}
  Graves = {g1}
  Wealth = 1
  FatalFailures = 2
INVARIANTS TypeOK SoulBoundAtLastStage RitesHaveTheirJob
PROPERTIES RitesAdvanceInOrder RitesEnd
