SPECIFICATION Spec
CONSTANTS
  None = None
  c1 = c1
  c2 = c2
  c3 = c3
  a1 = a1
  a2 = a2
  p1 = p1
  p2 = p2
  i0 = i0
  i1 = i1
  m1 = m1
  s1 = s1
  s2 = s2
  direct = direct
  unknown = unknown
CHECK_DEADLOCK FALSE
PROPERTIES
  WaveConfirmed
  GhostsLeave
  DueIsSent
  VersionArrives
  AdmittedIsServed
