SPECIFICATION Spec
CONSTANTS
  Keys = {k1}
  Reasons = {r1}
  Workers = {w1, w2}
  NoKey = NoKey
  NoReason = NoReason
  Answers <- MCAnswers
  Lease = 2
  WithinLease = FALSE
PROPERTY DurableResult
