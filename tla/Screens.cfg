SPECIFICATION PartsSpec
CONSTANTS
  None = None
  Value = {x, y}
  CallBound = 2
  MishapBound = 1
  AllowMishap = {"refused", "lost", "unfetched", "elsewhere", "overlap", "left_saving", "away"}
  NoOne = NoOne
  MaxStack = 5
  NavCalls = 1
  MaxTrouble = 1
  AllowTrouble = {"late", "reset", "env_role", "test_screen", "ungated", "split"}
  Nothing = Nothing
  Category = {c1, c2}
  Level = {l1, l2}
  Text = {"", "why"}
  DailyTickets = 2
  Rows = 2
  Limit = 1
  Pages = 2
  Fetches = 2
  MaxSlips = 1
  AllowSlip = {"overtaken", "elsewhere", "arrives", "failed", "left", "acted"}
INVARIANTS
  ProfileShown
  HomeIsVerified
  OwnScreens
  DashboardIsRight
PROPERTIES
  EditsSurvive
  AskedAsShown
CHECK_DEADLOCK FALSE
