SPECIFICATION Mails
CONSTANTS
  Task = {s1, s2}
  Throwing = {s2}
  Admin = {a1}
  Scheduler = scheduler
  Direct = Direct
  None = None
  MaxFaults = 2
  MaxCrashes = 1
  Writer = {k1, k2}
  Lifetime = 1
  MaxTime = 3
  MaxRequests = 3
  MaxRepeats = 2
  MaxRestarts = 1
  Caller = {t1, t2, t3}
  Socket = {k1, k2}
  MaxCalls = 3
SYMMETRY Symmetry
VIEW View
CHECK_DEADLOCK FALSE
INVARIANTS
  TasksKept
  CancelHolds
  IndexHolds
  Replies
  HolderWorks
PROPERTIES
  KeepsTaskLife
  KeepsPromise
