SPECIFICATION RootSpec
CONSTANTS
  Parts = {"typed", "moved", "tree", "loading", "bodies", "restored", "splitting"}
  n1 = n1
  n2 = n2
  laptop = laptop
  d1 = d1
  d2 = d2
  x1 = x1
  x2 = x2
  None = None
  Notes = {n1, n2}
  MaxEdits = 2
  MaxStructural = 1
  MaxFailures = 1
SYMMETRY Alike
INVARIANTS SavesSafe  ContentSafe

CHECK_DEADLOCK FALSE
