SPECIFICATION RootSpec
CONSTANTS
  Parts = {"storage", "calm", "retention", "timeline"}
  Processes = {"p1", "p2"}
  Kinds = {"service", "restore", "compact", "rotate"}
  Pids = {1, 2}
  Initial = {2, 5, 6}
  AtOnce = 1
  MaxStarts = 2
  MaxCrashes = 1
  MaxEdits = 2
  Jobs = {"backup", "adopt"}
  Daily = 2
  Weekly = 2
  Monthly = 2
  DaysOfWeek = 2
  DaysOfMonth = 3
  Days = 4
  PerDay = 1
  MaxTampers = 1
  MaxDeaths = 1
  Objects = {1, 2}
  Later = {}
  MaxEpoch = 2
  MaxPurges = 1
  MaxLapses = 1
  LateEdits = FALSE
  MaxMade = 2
INVARIANTS  RecoverySafe
PROPERTIES EpochsGoForward 
CHECK_DEADLOCK FALSE
