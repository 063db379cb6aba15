SPECIFICATION Spec
CONSTANTS
  Users = {u1}
  Requests = {r1, r2, r3}
  Calls = {c1, c2}
  Workers = {w1}
  Results = {"FAILED"}
  Deletable = {}
  Policies <- MCPlans
  InitialPlan = "FREE"
  MaxUnits = 2
  DayLength = 2
  MonthDays = 2
  RateWindow = 1
  LockWait = 1
  Slack = 1
  Grace = 2
  BatchSize = 1
  MaxTime = 2
  MaxFaults = 0
SYMMETRY MCSymmetry
INVARIANTS
  WithinAllowance
  ConcurrencyBound
  RateBound
