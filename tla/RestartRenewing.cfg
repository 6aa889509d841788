SPECIFICATION Spec
CONSTANTS
  Certs = {c1}
  Persist = {c1}
  Workers = {w1, w2}
  Recovery = recovery
  Keys = {k1}
  NoKey = NoKey
  NoCert = NoCert
  Revisions = {1, 2}
  MaxRetries = 0
  PromptRecovery = FALSE
PROPERTY RestartReschedules
