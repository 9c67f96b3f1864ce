SPECIFICATION Spec
CONSTANTS
  w1 = w1
  w2 = w2
  k1 = k1
  k2 = k2
  k3 = k3
  b1 = b1
  o1 = o1
  o2 = o2
  c1 = c1
  c2 = c2
  Worker = {w1, w2}
  Key = {k1, k2, k3}
  Component = {b1, o1, o2}
  CdfKey = {c1, c2}
  BaseOf <- MCBaseOf
  OrderOf <- MCOrderOf
  CdfOf <- MCCdfOf
  MaxModelTrains = 2
  ContextLimit = {0, 1}
  HasDeadline = TRUE
  NoWorker = NoWorker
  NoKey = NoKey
PROPERTIES
  TrainsOnlyBeforeDeadline
