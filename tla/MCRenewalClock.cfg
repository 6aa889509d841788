SPECIFICATION Spec
CONSTANTS
  Window = 3
  MaxRetries = 1
  Lifetime = 6
  EarlyBy = 1
  CommandTime = 1
  DispatchTime = 0
  Answers <- MCAnswers
  MaxTime = 7
  MaxFollowers = 2
INVARIANTS TypeOK RenewedInTime RetriedBeforeFailed JobFollowsRow
