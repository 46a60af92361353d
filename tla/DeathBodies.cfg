SPECIFICATION Spec
CONSTANTS
  None = None
  ann = ann  kay = kay  lee = lee  b1 = b1  b2 = b2  g1 = g1
  Chars = {ann, kay}
  Clerics = {kay}
  Mortal = {ann, kay}
  Crowded = {kay}
  Bodies = {b1, b2}
  Graves = {g1}
  Wealth = 1
  FatalFailures = 1
INVARIANTS LinksLeadToOwnBody BodiesAreAccountedFor
PROPERTIES CoinsNeverGrow
