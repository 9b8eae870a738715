SPECIFICATION RootSpec
CONSTANTS
  Parts = {"uploads", "prompt", "reclaim", "urls", "sealing"}
  Devices = {d1, d2}
  Attachments = {a1, a2}
  Chunks = {1, 2}
  MaxClock = 1
  MaxEdits = 2
  MaxStops = 1
  Clients = {e1, e2}
  Collectors = {e1}
  Owned = {"a1"}
  Versions = {1}
  Grace = 1
  Legacy = {}
  MaxDays = 1
  MaxRecorded = 3
  Images = {1, 2}
  Shows <- TwoNotes
  MaxShown = 1
  Data <- TwoImages
  ChunkSize = 2
  Copies = {c1, c2}
  Browser = TRUE
  MaxFaults = 1
  None = None
SYMMETRY Alike
INVARIANTS UploadsSafe 
PROPERTIES NothingGoesEarly
CHECK_DEADLOCK FALSE
