SPECIFICATION ListSpec
CONSTANTS
  Nil = Nil
  Keys = {k1, k2, k3, k4}
  Values = {1, 2}
  None = 0
  Capacity = 3
  TTL = 1
INVARIANT WellLinked
PROPERTIES ImplementsLruCache LeavesInOrder
