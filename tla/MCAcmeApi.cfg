SPECIFICATION Spec
CONSTANTS
  Certs = {c1}
  Persist = {c1}
  Workers = {w1, w2}
  Recovery = recovery
  Keys = {k1, k2}
  NoKey = NoKey
  NoCert = NoCert
  Revisions = {1, 2}
  MaxRetries = 1
  PromptRecovery = FALSE
SYMMETRY Symmetry
INVARIANTS TypeOK HeldNeedsRelease ReleasedNotOrphaned RenewalCovered
PROPERTY ReleaseOnce
