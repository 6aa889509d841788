SPECIFICATION FairServiceSpec
CONSTANTS
  Certs = {c1, c2}
  Persist = {c1}
  Workers = {w1, w2}
  Recovery = recovery
  Keys = {k1}
  NoKey = NoKey
  NoCert = NoCert
  Revisions = {1, 2}
  MaxRetries = 0
  PromptRecovery = TRUE
INVARIANTS SingleIssuer SingleProviderIssuer
PROPERTIES ClosedStaysClosed ImplementsHeldRequest ReleaseSettles
