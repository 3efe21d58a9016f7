SPECIFICATION FairSpec
CONSTANTS
  k1 = k1
  k2 = k2
  k3 = k3
  NULL = NULL
  Threads = {t1, t2}
  Values = {v1}
  Keys <- KeysTwo
  Hash <- HashTwo
  NumBuckets = 2
  Stripe = 1
  Capacity = 1
  Ops = {"get", "put", "remove", "clear"}
  MaxOps = 4
  EnableListeners = TRUE
  MaxInt = 15
  CounterModulus = 64
PROPERTIES
  OperationsEnd
CHECK_DEADLOCK FALSE
