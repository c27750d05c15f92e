CONSTANTS
  p = p
  q = q
  Ops = {p}
  Requesters = {p}
  RequesterOf <- Own
  MaxActive = 1
  MaxCrashes = 2
SPECIFICATION FairSpec
PROPERTIES NoArtifactLeak EveryOperationEnds

