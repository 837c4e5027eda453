SPECIFICATION FairSpec
CONSTANTS
  Nil = Nil
  MaxInt32 = 5
  MaxTime <- Still
  MaxUser = 2
  MaxForeign = 1
  MaxFaults = 1
  a = a
  svc = svc
  cpu = cpu
  Ids = {a}
  Caps = {1}
  Roles = {svc}
  ServiceRole = svc
  Flags = {}
  RoleStates = {Nil}
  Renames = FALSE
  TargetSpecs <- ATarget
  Numbers = {2}
  Lists <- NoLists
  Others = {cpu}
  DefaultOther = cpu
  PolicySpecs <- APolicy
  ForeignSpecs = {}
  Target = a
INVARIANTS GoneWithItsCR SyncedPolicyHasTarget
PROPERTIES SettlesTogether
CHECK_DEADLOCK FALSE
