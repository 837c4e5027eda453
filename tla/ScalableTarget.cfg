SPECIFICATION Spec
CONSTANTS
  Nil = Nil
  a = a
  b = b
  svc = svc
  r1 = r1
  Ids = {a, b}
  Caps = {1, 2, 3, 9}
  MaxInt32 = 5
  Roles = {svc, r1}
  ServiceRole = svc
  Flags = {"dynamicScalingInSuspended"}
  MaxTime <- OwnClock
  UserSpecs <- VariedSpecs
  ForeignSpecs <- Suspended
  RoleStates <- RoleLifecycle
  Renames = FALSE
  MaxUser = 3
  MaxForeign = 1
  MaxFaults = 1
INVARIANTS TypeOK NoOrphan SyncedMeansMatching
PROPERTIES WritesOnlyManaged LastModifiedNeverBack UnsetFieldsUntouched
  LateInitFillsGap FinalizerRefinement
CHECK_DEADLOCK FALSE
