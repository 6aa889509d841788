\* Once the last admin is revoked nobody can act any more (README: if every admin credential is lost).
SPECIFICATION Spec
CONSTANTS
  Clients = {initial, c1, c2}
  InitialAdmin = initial
  Sessions = {s1, s2}
  MaxKeys = 4
SYMMETRY Symmetry
CHECK_DEADLOCK FALSE
INVARIANT TypeOK
PROPERTIES DeadKeysStayDead RevokedIsFinal InitializesEmptyTable
