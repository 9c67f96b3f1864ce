SPECIFICATION SchedulerSpec
CONSTANTS
  MaxBatch = 3
  MaxPool = 2
  WithDeadline = TRUE
  Main = Main
  Fresh = Fresh
INVARIANTS
  NoSlotContended
  SingleFreshStream
PROPERTY
  BatchImplemented
