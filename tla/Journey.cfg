SPECIFICATION FairSpec
CONSTANTS
  k = k
  v1 = v1
  v2 = v2
  s1 = s1
  s2 = s2
  None = None
  Seeker = {k}
  Volunteer = {v1}
  Session = {s1, s2}
  SeekerOf <- OneSeeker
  Direct = {s2}
  MishapBound = 1
INVARIANTS
  ScreensTellTruth
  Truth
  NobodyAlone
PROPERTIES
  JourneyEnds
CHECK_DEADLOCK FALSE
