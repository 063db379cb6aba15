SPECIFICATION Spec
CONSTANTS
  m1 = m1
  m2 = m2
  m3 = m3
  Models = {m1, m2}
  Calls = {c1, c2}
  Nobody = Nobody
  Modes = {"AUTO"}
  Features = {"document"}
  Rankings <- MCPairs
  Duration = 4
  AttemptLimit = 1
  Cooldown = 1
  Forget = 1
  Capacity = 2
  Outputs = {"some"}
  Disconnecting = {}
  MaxTime = 2
SYMMETRY MCSymmetry
INVARIANTS
  PenaltiesEarned
