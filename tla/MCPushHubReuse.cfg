SPECIFICATION Spec
CONSTANTS
  Conn = {c1, c2}
  Acc = {a1, a2}
  Fd = {f1, f2}
  Pusher = {p1}
  Stopper = stopper
  Stalled = {}
  None = None
  MaxConns = 2
INVARIANT PushReachesOnlyItsAccount
CHECK_DEADLOCK FALSE
