SPECIFICATION Spec
CONSTANTS
  None = None
  volunteer = volunteer
  seeker = seeker
  Volunteer = {volunteer}
  Seeker = {seeker}
  Socket = {0, 1, 2}
  Owner <- MCOwner
  Request = {1, 2}
  SeekerOf <- MCSeekerOf
  Problem = {1, 2}
  PosedBy <- MCPosedBy
  Steady = {0, 2}
  MishapBound = 1
  Allow <- MCAllow
INVARIANTS
  PoolIsRight
  DropsAreNoticed
  SessionsAreSound
PROPERTIES
  EndsRight
CHECK_DEADLOCK FALSE
