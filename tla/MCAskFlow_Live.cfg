CONSTANTS
  c1 = c1
  c2 = c2
  k1 = k1
  k2 = k2
  n1 = n1
  n2 = n2
  None = None
  Cookies = {c1}
  Tuples = {k1, k2}
  Nft = {n1}
  Workers = {"poll", "neigh"}
  Overlap = FALSE
  TuplesAt <- OneTuple
  HwOutcomes = {"hw"}
  GenLimit = 16
  MaxFlows = 2
  MaxPending = 2
  MaxHwId = 3
  MaxFake = 0
  MaxGen = 1
  MaxBorn = 1
  MaxMac = 1
  MaxRoute = 0
SPECIFICATION FairSpec
PROPERTY ParkedLeaves
PROPERTY TornDownLeavesSilicon
CHECK_DEADLOCK FALSE
