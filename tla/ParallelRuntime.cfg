SPECIFICATION Spec
CONSTANTS
  Main = Main
  Helper = Helper
  w1 = w1
  w2 = w2
  Worker = {w1, w2}
  MaxTasks = 3
  MaxInflight = 2
  NoTask = NoTask
INVARIANTS
  CountersExact
  NoTaskOutlivesItsOperation
PROPERTIES
  OperationsReturn
  ForkJoinImplemented
