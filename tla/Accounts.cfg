SPECIFICATION PartsSpec
CONSTANTS
  None = None
  Unset = Unset
  Absent = Absent
  Phone = {phone}
  Tab = {tab1, tab2}
  Browser = browser
  Request = {c1, c2}
  CallBound = 2
  ClockBound = 3
  RowBound = 3
  SignInBound = 2
  MishapBound = 1
  Allow = {"kill", "lost", "same_second", "late_401", "leftover_401", "logout_expired",
           "logout_in_refresh", "two_tabs", "idle", "bar"}
  Task = {c1, c2}
  Party = {seeker, volunteer}
  Applicant = volunteer
  Reporter = {seeker}
  Rating = {good, bad}
  Handler = {c1, c2}
  Person = {p, q}
  Nickname = {n, m}
  Language = {l1, l2}
  WriteBound = 2
  AppBound = 2
  ActionBound = 1
  AllowOverlap = {"double_apply", "double_review"}
  a1 = a1
  a2 = a2
  s1 = s1
  s2 = s2
  s3 = s3
  s4 = s4
  Seeker <- MCSeeker
  Session <- MCSession
  SeekerOf <- MCSeekerOf
  Limits <- MCLimits
  MaxDay = 2
SYMMETRY Symmetry
INVARIANTS
  RowsAreSound
  TokensAgree
  NoRequestHangs
  LogoutSticks
  RecordsAgree
  RecordsHold
  DailyBound
  ReservationsAccounted
PROPERTIES
  DecisionsStand
  BarredDoNothing
  SpentStaysSpent
CHECK_DEADLOCK FALSE
