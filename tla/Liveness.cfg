SPECIFICATION FairSpec
CONSTANTS
  None = None
  k1 = k1
  key1 = key1
  r1 = r1
  r2 = r2
  v1 = v1
  v2 = v2
  v3 = v3
  a1 = a1
  a2 = a2
  a3 = a3
  Seeker = {k1}
  Volunteer = {v1, v2}
  Request = {r1}
  SeekerOf <- SameSeeker
  Key = {key1}
  KeyOf <- SameKey
  Acceptor = {a1, a2}
  VolunteerOf <- OneEach
  Blocked <- NoBlocks
  DailyLimit = 2
  Allow = {"early_end", "timeout_during_accept"}
PROPERTIES
  WaitingResolved
  SessionEnds
