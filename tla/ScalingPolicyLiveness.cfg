SPECIFICATION FairSpec
CONSTANTS
  Nil = Nil
  MaxInt32 = 5
  MaxTime <- Still
  x = x
  y = y
  cpu = cpu
  io = io
  Numbers = {1, 2, 9}
  Lists <- MCLists
  Others = {cpu, io}
  DefaultOther = cpu
  UserSpecs <- SettledSpecs
  ForeignSpecs <- Drifted
  MaxUser = 3
  MaxForeign = 2
  MaxFaults = 1
PROPERTIES DeletionCompletes ConvergesToSpec UpdatesCease ClaimsCorrected
CHECK_DEADLOCK FALSE
