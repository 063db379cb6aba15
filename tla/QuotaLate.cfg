SPECIFICATION FairSpec
CONSTANTS
  Users = {u1}
  Requests = {r1, r2}
  Calls = {c1}
  Workers = {w1, w2}
  Results = {"FAILED"}
  Deletable = {}
  Policies <- MCFree
  InitialPlan = "FREE"
  MaxUnits = 1
  DayLength = 2
  MonthDays = 2
  RateWindow = 1
  LockWait = 0
  Slack = 1
  Grace = 0
  BatchSize = 1
  MaxTime = 4
  MaxFaults = 1
PROPERTIES
  EventuallySettled
  SettledOnce
  KeepsPromise
