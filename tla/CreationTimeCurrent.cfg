SPECIFICATION Spec
CONSTANTS
  Nil = Nil
  MaxInt32 = 5
  MaxTime <- BothClocks
  x = x
  y = y
  cpu = cpu
  io = io
  Numbers = {1, 2, 9}
  Lists <- MCLists
  Others = {cpu, io}
  DefaultOther = cpu
  UserSpecs <- SettledSpecs
  ForeignSpecs <- Drifted
  MaxUser = 1
  MaxForeign = 2
  MaxFaults = 0
INVARIANT CreationTimeCurrent
CHECK_DEADLOCK FALSE
