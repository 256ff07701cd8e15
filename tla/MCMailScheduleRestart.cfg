SPECIFICATION Spec
CONSTANTS
  Task = {s1}
  Throwing = {}
  Admin = {a1}
  Scheduler = scheduler
  Direct = Direct
  None = None
  MaxFaults = 0
  MaxCrashes = 1
INVARIANT RestartKeepsTasks
