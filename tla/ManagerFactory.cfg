SPECIFICATION FairSpec
CONSTANTS
  Procs = {w1, w2, w3}
  RmIds = {k1, k2}
  Nil = Nil
INVARIANTS MapAccessExclusive RightManager BuildsOncePerKey
PROPERTIES AtomicGet CallsReturn
