SPECIFICATION Spec
CONSTANTS
  l1 = l1
  l2 = l2
  a = a
  b = b
  Loader <- MCLoader
  Dir <- MCDir
  MaxVersion = 2
  MaxKills = 0
  Rollback = TRUE
SYMMETRY Sym
INVARIANT
  LoadsCurrent
