SPECIFICATION FairSpec
CONSTANTS
  Nil = Nil
  r = r
  d1 = d1
  d2 = d2
  n = n
  p = p
  Values <- MCValues
  Identities <- MCIdentities
  Requests <- MCRequests
  MaxUser = 3
  MaxForeign = 1
  MaxFaults = 1
INVARIANTS TypeOK IdentityComplete
PROPERTIES AdoptsWhatWasNamed DeletesOnlyAdopted AdoptionCompletes
CHECK_DEADLOCK FALSE
