SPECIFICATION HSpec
CONSTANTS
  k1 = k1
  k2 = k2
  k3 = k3
  NULL = NULL
  Threads = {t1, t2}
  Values = {v1, v2}
  Keys <- KeysThree
  Hash <- HashTwoOne
  NumBuckets = 2
  Stripe = 1
  Capacity = 2
  Ops = {"get", "put", "remove", "clear"}
  MaxOps = 4
  EnableListeners = TRUE
  MaxInt = 15
  CounterModulus = 64
SYMMETRY Symmetry
INVARIANTS
  LruListsOk
  TableConsistent
  GetIsLinearizable
  InformedOnce
CHECK_DEADLOCK FALSE
