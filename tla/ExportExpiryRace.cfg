CONSTANTS
  p = p
  q = q
  Ops = {p}
  Requesters = {p}
  RequesterOf <- Own
  MaxActive = 1
  MaxCrashes = 0
SPECIFICATION Spec
INVARIANT IntegrityFailureIsReal

