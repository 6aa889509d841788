SPECIFICATION FairSpec
CONSTANTS
  Hooks = {h1, h2, h3}
  NoHook = NoHook
  MaxRetries = 2
INVARIANTS TypeOK Accounted GivesUpOnTime
PROPERTY DispatchEnds
