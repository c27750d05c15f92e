CONSTANTS
  e1 = e1
  e2 = e2
  a1 = a1
  a2 = a2
  o1 = o1
  o2 = o2
  Events = {e1, e2}
  Aggregates = {a1}
  AggOf <- OneAggregate
  Owners = {o1, o2}
  Effects = {x}
  None = None
  MaxAttempts = 1
  Lease = 1
  Beat = 1
  RetryDelay <- OneTick
  BatchSize = 2
  MaxReplays = 1
  MaxTime = 2
SPECIFICATION Spec
INVARIANT AggregateOrder
PROPERTY ImplementsLog
CHECK_DEADLOCK FALSE
SYMMETRY Sym
