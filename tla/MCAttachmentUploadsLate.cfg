SPECIFICATION Spec
CONSTANTS
  Devices = {"d1"}
  Attachments = {"a1"}
  Chunks = {1, 2}
  MaxClock = 1
  MaxEdits = 2
  MaxStops = 1
INVARIANTS BytesKept
CHECK_DEADLOCK FALSE
