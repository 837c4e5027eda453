SPECIFICATION Spec
CONSTANTS
  Nil = Nil
  a = a
  b = b
  svc = svc
  r1 = r1
  Ids = {a, b}
  Caps = {1, 2, 3, 9}
  MaxInt32 = 5
  Roles = {svc, r1}
  ServiceRole = svc
  Flags = {"dynamicScalingInSuspended"}
  MaxTime <- Still
  UserSpecs <- RenamedSpecs
  ForeignSpecs <- Suspended
  RoleStates <- RoleLifecycle
  Renames = TRUE
  MaxUser = 3
  MaxForeign = 0
  MaxFaults = 0
INVARIANT NoOrphan
CHECK_DEADLOCK FALSE
