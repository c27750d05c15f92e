CONSTANTS
  e1 = e1
  e2 = e2
  a1 = a1
  a2 = a2
  o1 = o1
  o2 = o2
  Events = {e1}
  Aggregates = {a1}
  AggOf <- OneAggregate
  Owners = {o1, o2}
  Effects = {x, y}
  None = None
  MaxAttempts = 2
  Lease = 2
  Beat = 1
  RetryDelay <- OneTick
  BatchSize = 1
  MaxReplays = 1
  MaxTime = 3
SPECIFICATION Spec
INVARIANTS TypeOK CompletedHasReceipt EpochAccounting NoPoisonRow
PROPERTIES ReceiptUnderFence ImplementsLog
CHECK_DEADLOCK FALSE
SYMMETRY Sym
