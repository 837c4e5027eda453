SPECIFICATION Spec
CONSTANTS
  Procs = {w1, w2}
  RmIds = {k1}
  Nil = Nil
INVARIANT OneManagerPerKey
