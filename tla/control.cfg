SPECIFICATION Spec
CONSTANTS
  w1 = w1
  w2 = w2
  k1 = k1
  k2 = k2
  k3 = k3
  tok = tok
  t1 = t1
  t2 = t2
  p1 = p1
  b1 = b1
  org1 = org1
  c1 = c1
  c2 = c2
  Workers <- MCWorkers
  Keys <- MCKeys
  Tokens = {tok}
  Tenants <- MCTenants
  Projects = {p1}
  Bases = {b1}
  Orgs = {org1}
  Nothing = Nothing
  Minting = TRUE
  Consumers <- MCConsumers
  MaxCalls = 2
SYMMETRY Symmetry
CHECK_DEADLOCK FALSE
INVARIANT KeysAccounted
INVARIANT Admission
INVARIANT HomeWhole
