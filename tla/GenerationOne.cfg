SPECIFICATION FairSpec
CONSTANTS
  m1 = m1
  m2 = m2
  m3 = m3
  Models = {m1, m2, m3}
  Calls = {c1}
  Nobody = Nobody
  Modes = {"AUTO", "MANUAL"}
  Features = {"chat", "image", "document"}
  Rankings <- MCChain
  Duration = 3
  AttemptLimit = 3
  Cooldown = 1
  Forget = 1
  Capacity = 1
  Outputs = {"blank", "some", "usage", "image"}
  Disconnecting = {c1}
  MaxTime = 3
INVARIANTS
  RecordsTell
  FairShare
PROPERTIES
  KeepsPromise
  StopsWhenAsked
  EveryCallEnds
