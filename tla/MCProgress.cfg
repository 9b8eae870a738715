SPECIFICATION FairRootSpec
CONSTANTS
  Parts = {"coordinator", "events", "saves", "queue", "uploads"}
  Windows = {w1, w2}
  MaxChanges = 1
  MaxFaults = 2
  n1 = n1
  d1 = d1
  a1 = a1
  a2 = a2
  MaxFailures = 2
INVARIANTS CoordinatorSafe EventsSafe
PROPERTIES IntentsServed ChangesArrive   UploadsArrive
CHECK_DEADLOCK FALSE
