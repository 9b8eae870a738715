SPECIFICATION RootSpec
CONSTANTS
  Parts = {"client", "restoring", "recovering", "worker", "markdown", "imports",
           "editing", "switching", "disturbed", "one table", "two tables", "retyped",
           "pasted", "texts", "items"}
  x1 = x1
  None = None
  Red = Red
  Blue = Blue
  MaxOps = 2
  MaxEdits = 1
  MaxLosses = 1
  MaxChanges = 1
  MaxRestores = 0
  MaxExpiries = 1
  Recovering = FALSE
INVARIANTS ClientsSafe 
PROPERTIES OthersEditsSurvive
CHECK_DEADLOCK FALSE
