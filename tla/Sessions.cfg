SPECIFICATION MCSpec
CONSTANTS
  ann = ann
  bob = bob
  cid = cid
  t1 = t1
  t2 = t2
  t3 = t3
  Users = {ann, bob, cid}
  Staff = {ann, bob}
  f1 = f1
  f2 = f2
  f3 = f3
  Families = {f1, f2, f3}
  Opened <- MCOpened
  SignedIn <- MCSignedIn
  Owners <- MCOwners
  Tabs = {t1, t2, t3}
  Desks = {t1, t2, t3}
  Browsers = {"b1", "b2"}
  Home <- MCHome
  Locking = TRUE
  Inputs <- MCInputs
  MaxRotations = 2
  MaxPasswords = 2
  Budgets <- MCBudgets
  PageKinds = {"workflows", "projects", "conversations", "prompts", "users", "registry", "settings", "audit"}
  Rows = {"row"}
  Paths = {"all", "some"}
  Holder <- MCHolder
  MaxTurns = 1
  MaxSends = 2
INVARIANTS
  ShowsCurrent
  NothingStuck
  SessionsMatchAccount
  AnAdminRemains
PROPERTIES
  NoFalseAlarm
  SignedOutStaysOut
SYMMETRY MCSymmetry
CHECK_DEADLOCK FALSE
