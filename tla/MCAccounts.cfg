SPECIFICATION RootSpec
CONSTANTS
  Parts = {"sessions", "accounts", "browser", "trust", "credentials"}
  Users = {u1, u2}
  Browsers = {b1, b2}
  Grants = {g1}
  MaxSessions = 2
  MaxEnrolments = 2
  MaxSecrets = 2
  Ids = {i1, i2, i3}
  Names = {"n1", "n2", "n3"}
  Apps = {"a1"}
  AllowRegistration = TRUE
  AppLimit = 1
  MaxReplaced = 1
  Tabs = {t1, t2}
  MaxGenerations = 5
  MaxFailures = 1
  MaxSignIns = 3
  MaxGrants = 2
  Editors = {e1}
  MaxTries = 2
  MaxEdits = 1
  Pages = {"a", "b"}
  Visitors = {"v"}
  Flows = {"f1", "f2"}
  Kinds = {"username", "reset", "password", "recovery", "verify", "recover"}
  Passwords = {"p1", "p2"}
  Logins = {"name1", "name2"}
  None = None
SYMMETRY Alike
INVARIANTS SessionsSafe AccountsSafe BrowserSafe
PROPERTIES  EndingsHold
CHECK_DEADLOCK FALSE
