SPECIFICATION Spec
CONSTANTS
  k = k
  v1 = v1
  v2 = v2
  s1 = s1
  s2 = s2
  None = None
  Seeker = {k}
  Volunteer = {v1}
  Session = {s1, s2}
  SeekerOf <- OneSeeker
  Direct = {s1}
  MishapBound = 0
INVARIANT
  BothToldOfMatch
