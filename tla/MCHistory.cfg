SPECIFICATION RootSpec
CONSTANTS
  Parts = {"server", "queue", "panel"}
  None = None
  Versions = {1, 2}
  ByHand = {2}
  Labels = {"renamed"}
  MaxLabels = 2
  MaxLost = 1
  Pauses = TRUE
  Pages = {n1, n2}
  MaxEdits = 2
  Slots = {s1, s2}
  Timers = {1, 2}
  ShowsPanel = FALSE
  Overlaps = {"settings"}
  Snapshots = {2, 3}
  Notes = {"n"}
  NoteOf <- OneNote
  Manual = {3}
  Size <- TwoBytes
  Budgets = {2, 4}
  Retentions = {3}
  TotalQuota = 3
  Day = 2
  Hour = 1
  Week = 3
  Lifetime = 2
  MaxTime = 3
  Habits = {{"trash", "delete"}, {"clear"}, {"label", "settings"}}
SYMMETRY Alike
INVARIANTS AgesHold HistorySafe
   
CHECK_DEADLOCK FALSE
