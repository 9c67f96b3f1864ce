SPECIFICATION Spec
CONSTANTS
  Budgets <- MCBudgets
  Reserves <- MCReserves
  MaxContexts = 3
  MinimumUseful = 2
  Candidates <- MCCandidates
  Quality <- MCQuality
  LowPotential = 1
  Stagnation = 2
  Rounds = 1
  HasDeadline = TRUE
INVARIANTS
  TypeOK
  LaterContextsKeepASlot
  ContextsAreClosed
  ReasonIsHonest
