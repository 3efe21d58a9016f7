SPECIFICATION Spec
CONSTANTS
  k1 = k1
  k2 = k2
  k3 = k3
  NULL = NULL
  Threads = {t1}
  Values = {v1, v2}
  Keys <- KeysThree
  Hash <- HashTwoOne
  NumBuckets = 2
  Stripe = 1
  Capacity = 2
  Ops = {"get", "put", "putIfNew", "compareAndPut", "remove", "clear",
         "removeTail", "removeLongestTail"}
  MaxOps = 6
  EnableListeners = TRUE
  MaxInt = 15
  CounterModulus = 5
SYMMETRY Symmetry
INVARIANTS
  CapacityRespected
PROPERTIES
  EvictOnlyWhenFull
CHECK_DEADLOCK FALSE
