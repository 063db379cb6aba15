SPECIFICATION Spec
CONSTANTS
  Users = {u1}
  Requests = {r1, r2}
  Calls = {c1}
  Workers = {w1}
  Results = {"FAILED"}
  Deletable = {}
  Policies <- MCFree
  InitialPlan = "FREE"
  MaxUnits = 1
  DayLength = 4
  MonthDays = 2
  RateWindow = 1
  LockWait = 0
  Slack = 1
  Grace = 1
  BatchSize = 1
  MaxTime = 5
  MaxFaults = 1
INVARIANT InterruptedIsVisible
