SPECIFICATION FairSpec
CONSTANTS
  Keys = {k1, k2}
  Reasons = {r1, r2}
  Workers = {w1, w2}
  NoKey = NoKey
  NoReason = NoReason
  Answers <- MCAnswers
  Lease = 1
  WithinLease = TRUE
INVARIANTS TypeOK SingleRevoker SuccessIsReal
PROPERTIES DurableResult RetrySettles
