SPECIFICATION Spec
CONSTANTS
  Nil = Nil
  a = a
  b = b
  svc = svc
  r1 = r1
  Ids = {a, b}
  Caps = {1, 2, 3, 9}
  MaxInt32 = 5
  Roles = {svc, r1}
  ServiceRole = svc
  Flags = {"dynamicScalingInSuspended"}
  MaxTime <- BothClocks
  UserSpecs <- SettledSpecs
  ForeignSpecs <- Suspended
  RoleStates <- RoleLifecycle
  Renames = FALSE
  MaxUser = 1
  MaxForeign = 1
  MaxFaults = 0
INVARIANT ModifiedAfterCreation
CHECK_DEADLOCK FALSE
