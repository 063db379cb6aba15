SPECIFICATION Spec
CONSTANTS
  Users = {u1}
  Requests = {r1, r2}
  Calls = {c1, c2}
  Workers = {w1, w2}
  Results = {"SUCCEEDED", "CANCELLED"}
  Deletable = {r1}
  Policies <- MCFree
  InitialPlan = "FREE"
  MaxUnits = 1
  DayLength = 2
  MonthDays = 2
  RateWindow = 1
  LockWait = 1
  Slack = 1
  Grace = 2
  BatchSize = 1
  MaxTime = 5
  MaxFaults = 1
SYMMETRY MCSymmetry
INVARIANTS
  CountersMatch
  OneCallPerRequest
  LiveCallsKeepReservation
