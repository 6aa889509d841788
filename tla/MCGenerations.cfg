SPECIFICATION Spec
CONSTANTS
  apex = apex
  twin = twin
  wildcard = wildcard
  Certs = {apex, twin, wildcard}
  Domains <- MCDomains
  Workers = {w1, w2}
  Keys = {k1, k2}
  NoKey = NoKey
  MaxGenerations = 2
SYMMETRY Symmetry
INVARIANTS TypeOK RowNamesCurrent
