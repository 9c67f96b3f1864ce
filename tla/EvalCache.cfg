SPECIFICATION Spec
CONSTANTS
  w1 = w1
  w2 = w2
  w3 = w3
  n1 = n1
  r1 = r1
  r2 = r2
  Worker = {w1, w2, w3}
  NearestKey = {n1}
  RankKey = {r1, r2}
  NearestOf <- MCNearestOf
  Bytes <- MCBytes
  Budget <- MCBudget
  NoEntry = NoEntry
INVARIANTS
  AccountingExact
  SampledWithinBudget
  WaitersNotOrphaned
PROPERTIES
  EveryEvaluationReturns
  SingleFlightTables
