SPECIFICATION Spec
CONSTANTS
  u1 = u1
  k1 = k1
  k2 = k2
  Users = {u1}
  Keys = {k1, k2}
  Owner <- MCOneOwner
  Clients = {c1}
  Hooks = {w1}
  MaxSubscriptions = 2
  PromotionMax = 1
  PromotionPerUser = 1
  NewUsersOnly = TRUE
  DiscountMax = 1
  DiscountPerUser = 1
  Period = 1
  CheckoutExpiry = 1
  Overlap = FALSE
  MaxTime = 2
  Budgets <- MCLive
INVARIANTS
  RowsAgree
PROPERTIES
  PaidReachesUser
