SPECIFICATION CrossSpec
CONSTANTS
  None = None
  k1 = k1
  key1 = key1
  r1 = r1
  r2 = r2
  v1 = v1
  v2 = v2
  v3 = v3
  a1 = a1
  a2 = a2
  a3 = a3
  Seeker = {k1}
  Volunteer = {v1}
  Request = {r1, r2}
  SeekerOf <- SameSeeker
  Key = {key1}
  KeyOf <- SameKey
  Acceptor = {a1, a2}
  VolunteerOf <- TwoTaps
  Blocked <- NoBlocks
  DailyLimit = 2
  Allow = {"parallel_connect", "early_end"}
SYMMETRY Alike2
INVARIANTS
  LockExclusion
  OneAccepted
  ChargesAreRight
  OneActiveUnlessRaced
  OneSessionUnlessOverlapped
  TicketsAccounted
