SPECIFICATION Spec
CONSTANTS
  Thread = {t1, t2}
  Client = {k1}
  None = None
  c1 = c1
  c2 = c2
  c3 = c3
  c4 = c4
  p1 = p1
  p2 = p2
  Unknown = Unknown
  MaxRequests = 3
  MaxFaults = 2
  MaxCrashes = 1
  MaxChanges = 2
  MaxTime = 2
  MaxRepair = 3
  MaxLost = 1
  Conn = {c1, c2, c3, c4}
  Peer = {p1, p2}
  PeerOf <- From
  Slow = {c1, c2, c4}
  Banned = {}
  MaxPerPeer = 2
  LightThreads = 1
  LightQueue = 2
  SlowThreads = 1
  SlowQueue = 1
SYMMETRY Symmetry
CHECK_DEADLOCK FALSE
INVARIANTS
  ManifestKept
  Announced
  VersionNamesOne
  LoadedIsCurrent
  PlacesCounted
