SPECIFICATION Spec
CONSTANTS
  c1 = c1
  p1 = p1
  p2 = p2
  w1 = w1
  w2 = w2
  w3 = w3
  r1 = r1
  r2 = r2
  Tiers = {"FREE", "PRO"}
  FirstTier = "PRO"
  Allows <- MCAllows
  MaxChanges = 1
  MaxRequests = 3
  FileIds = {f1, f2}
  Size <- MCSize
  Home <- MCHome
  Conversations = {c1}
  Transfers = {t1, t2}
  Projects = {p1, p2}
  Flows = {w1, w2, w3}
  Begins <- MCBegins
  Runs = {r1, r2}
  Jobs = {j1, j2}
  Steps = 2
  StepLimit = 1
  SweepAge = 2
  RateWindow = 1
  RateLimit = 1
  MaxTime = 3
  MaxFaults = 1
  Messages = {1, 2}
  Uploads = {u1}
  Chats = {1, 2, 3}
  Existing = {1}
INVARIANTS
  ViewKeepsApart
  StopReachesAnswer
  RunsCostOnce
  RunsTell
  WithinPlan
  FilesMatchRows
PROPERTY
  FinishedStays
SYMMETRY MCSymmetry
ACTION_CONSTRAINT MCApart
CHECK_DEADLOCK FALSE
