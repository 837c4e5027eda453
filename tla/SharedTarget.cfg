SPECIFICATION FairSpec
CONSTANTS
  Nil = Nil
  a = a
  svc = svc
  Ids = {a}
  Caps = {1, 2}
  MaxInt32 = 5
  Roles = {svc}
  ServiceRole = svc
  Flags = {}
  MaxTime <- Still
  UserSpecs1 <- Wishes1
  UserSpecs2 <- Wishes2
  ForeignSpecs = {}
  RoleStates = {Nil}
  Renames = FALSE
  MaxUser = 2
  MaxForeign = 0
  MaxFaults = 1
  Budgets <- UserBudgets
INVARIANT NothingLeft
PROPERTIES RefusedLeavesAlone DeletedOrServed
CHECK_DEADLOCK FALSE
