SPECIFICATION AllPlayers
CONSTANTS
  c1 = c1
  c2 = c2
  c3 = c3
  a1 = a1
  a2 = a2
  Conn = {c1, c2, c3}
  Acc = {a1, a2}
  AccOf <- Owner
  Id = {i0, i1, i2}
  NoId = i0
  None = None
  MaxWaves = 2
  MaxRepeats = 1
  Map = {m1, m2}
  MaxMoves = 2
  Pair = {c1, c3}
  PairMoves = 3
  User = {a1}
  Token = {i1, i2}
  Psw = {p, q, s}
  Short = {s}
  NoPsw = NoPsw
  Worker = {m1, m2}
  CacheCap = 1
  MaxFaults = 1
SYMMETRY Symmetry
VIEW Seen
CHECK_DEADLOCK FALSE
INVARIANTS
  OkIsTrue
  AnswersAgree
  RouteReady
  MapViews
  CacheFollowsRows
  RowsFollowPassword
  ValidateAnswers
