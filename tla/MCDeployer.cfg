SPECIFICATION Spec
CONSTANTS
  N = 3
  MaxDeployments = 3
  RetentionCount = 1
  ByAge = TRUE
  LinkModes = {TRUE, FALSE}
INVARIANT TypeOK
PROPERTIES GenerationsNeverMix ProtectedKept NamesKeepResolving CurrentIsWhole
  OnlyCutLinkingBlocks
