SPECIFICATION FairSpec
CONSTANTS
  None = None
  MaxAttunement = 4
  Costs = {1, 2}
  MaxPool = 4
INVARIANTS TypeOK TimersServeTheSpell SpellHasTimers ShownIsPrepared
PROPERTY SpellsEnd
