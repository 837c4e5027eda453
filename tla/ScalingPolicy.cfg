SPECIFICATION Spec
CONSTANTS
  Nil = Nil
  MaxInt32 = 5
  MaxTime <- BothClocks
  x = x
  y = y
  cpu = cpu
  io = io
  Numbers = {1, 2, 9}
  Lists <- MCLists
  Others = {cpu, io}
  DefaultOther = cpu
  UserSpecs <- VariedSpecs
  ForeignSpecs <- Drifted
  MaxUser = 3
  MaxForeign = 2
  MaxFaults = 1
INVARIANTS TypeOK NoOrphan SyncedMeansMatching AlarmsCurrent
PROPERTIES FinalizerRefinement
CHECK_DEADLOCK FALSE
