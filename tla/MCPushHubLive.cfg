SPECIFICATION FairSpec
CONSTANTS
  Conn = {c1, c2}
  Acc = {a1}
  Fd = {f1, f2}
  Pusher = {p1}
  Stopper = stopper
  Stalled = {c2}
  None = None
  MaxConns = 2
PROPERTIES
  ConnectionsEnd
  PushReturns
CHECK_DEADLOCK FALSE
