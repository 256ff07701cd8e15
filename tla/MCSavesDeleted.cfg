SPECIFICATION Spec
CONSTANTS
  Thread = {t1, t2}
  None = None
  a1 = a1
  a2 = a2
  SaveAcc = {a1, a2}
  Stripe <- Stripes
  Legacy = {a1}
  Exempt = {}
  Week = 1
  MaxRequests = 3
  MaxTime = 2
  MaxFaults = 1
  MaxCrashes = 1
  ListAcc = {x, y}
  ListTime = 2
  MaxEdits = 1
  ListFaults = 1
  ListCrashes = 1
  MaxId = 3
  IdFaults = 1
  IdCrashes = 1
SYMMETRY Symmetry
CHECK_DEADLOCK FALSE
INVARIANT DeletedWithSaves
