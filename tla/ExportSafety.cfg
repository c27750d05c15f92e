CONSTANTS
  p = p
  q = q
  Ops = {p, q}
  Requesters = {p, q}
  RequesterOf <- Own
  MaxActive = 1
  MaxCrashes = 1
SPECIFICATION Spec
INVARIANTS TypeOK Capacity ArtifactKept 
PROPERTY GuardAccepts
SYMMETRY Sym
