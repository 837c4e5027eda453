SPECIFICATION FairSpec
CONSTANTS
  Nil = Nil
  a = a
  b = b
  svc = svc
  r1 = r1
  Ids = {a}
  Caps = {1, 2, 3, 9}
  MaxInt32 = 5
  Roles = {svc, r1}
  ServiceRole = svc
  Flags = {"dynamicScalingInSuspended"}
  MaxTime <- Still
  UserSpecs <- SettledSpecs
  ForeignSpecs <- Suspended
  RoleStates <- RoleLifecycle
  Renames = FALSE
  MaxUser = 3
  MaxForeign = 1
  MaxFaults = 1
PROPERTIES DeletionCompletes ConvergesToSpec UpdatesCease
CHECK_DEADLOCK FALSE
