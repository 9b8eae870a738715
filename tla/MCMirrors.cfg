SPECIFICATION FairRootSpec
CONSTANTS
  Parts = {"feed", "vault"}
  d1 = d1
  d2 = d2
  t1 = t1
  t2 = t2
  e1 = e1
  e2 = e2
  Ids = {1, 2}
  Keys = {"create", "trash", "folder"}
  KeyTime <- MCKeyTime
  Blocks = {"b"}
  Ciphertexts = {"x"}
  NoCiphertext = "none"
  Requests <- MCRequests
  RequestOf <- MCRequestOf
  Lifetime = 1
  Skew = 0
  Retention = 0
  MaxTime = 1
  MaxSequence = 3
  PageSize = 1
  MaxInterrupts = 1
INVARIANTS MirrorExact
PROPERTIES NeverDropsLive Convergence DevicesAgree
CHECK_DEADLOCK FALSE
