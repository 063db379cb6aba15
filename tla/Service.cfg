SPECIFICATION MCSpec
CONSTANTS
  m1 = m1
  m2 = m2
  Models = {m1, m2}
  q1 = q1
  q2 = q2
  q3 = q3
  Requests = {q1, q2, q3}
  Contents <- MCTexts
  Instructions = 2
  Material <- MCMaterial
  ProjectChars = 5
  Verbatim = 1
  Recent = 3
  OlderChars = 5
  Endings <- MCEndings
  Calls = {c1, c2}
  Editors = {e1}
  Nobody = Nobody
  Modes = {"AUTO", "MANUAL"}
  Features = {"chat"}
  Rankings <- MCRankings
  Order <- MCOrder
  ModelEdits <- MCModelEdits
  PolicyEdits <- MCPolicyEdits
  FirstModels <- MCFirstModels
  FirstPolicies <- MCFirstPolicies
  Connected = {"OPENAI"}
  Tokens = 1
  Tasks <- MCTasks
  Budget = 8
  MaxEdits = 1
  Duration = 4
  AttemptLimit = 1
  Cooldown = 1
  Forget = 1
  Capacity = 2
  Outputs = {"some"}
  Disconnecting = {}
  MaxTime = 2
  NoReport = NoReport
  Vendors = {"OPENAI", "GOOGLE", "ANTHROPIC", "MISTRAL"}
  Prices <- MCPrices
  Replies <- MCReplies
CHECK_DEADLOCK FALSE
SYMMETRY MCSymmetry
INVARIANTS
  RestsAfterFailures
  BudgetCovers
  ReplyTold
  PromptsRight
PROPERTIES
  ChoosesWell
