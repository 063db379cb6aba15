SPECIFICATION MCSpec
CONSTANTS
  u1 = u1
  k1 = k1
  k2 = k2
  Users = {u1}
  Keys = {k1, k2}
  Owner <- MCOneOwner
  Clients = {c1, c2}
  Hooks = {w1}
  MaxSubscriptions = 2
  PromotionMax = 2
  PromotionPerUser = 1
  NewUsersOnly = FALSE
  DiscountMax = 1
  DiscountPerUser = 1
  Period = 1
  CheckoutExpiry = 1
  Overlap = TRUE
  MaxTime = 0
  Budgets <- MCSafe
  Plans = {l1, l2}
  FreePlans = {l2}
  Promotions = {o1}
  Admins = {a1, a2}
  EntryIds = {e1}
  Amounts = {x1, x2}
  Nothing = Nothing
  MaxWrites = 4
  Windows = {c1, c2, w1}
  Machines = {"b1", "b2"}
  MachineOf <- MCMachineOf
  Profiles <- MCProfiles
  Spelling <- MCSpelling
  StaffMail = "s"
  Places = {"chat", "plan"}
  MaxJourneys = 2
  MaxEdits = 1
INVARIANTS
  AccessIsPaid
  RedemptionsRight
  OneCheckoutPerKey
  HistoryTells
  AppendsAnswered
  OwnAccount
SYMMETRY MCSymmetry
CHECK_DEADLOCK FALSE
