CONSTANTS
  Procs = {"p1", "p2"}
  Reqs = {"r1", "r2", "r3"}
  ProcOf <- ServedBy
  Logouts = {"r2"}
  Callbacks = {"c1", "c2"}
  Rotates = {TRUE, FALSE}
  MaxSeals = 2
  Order <- MigrationOrder
  Class <- MigrationClass
  Through = 4
  Replay = {"m014"}
  Tombstone <- Lost
  Cutover = {"m040", "m041"}
  Releases = {7, 9}
  RunModes = {"admin", "migrate", "bootstrap"}
  Starts <- Databases
  MaxFaults = 1
  NoSite = NoSite
SPECIFICATION AreaSpec
INVARIANTS
  TypesOK
  
  
  SessionsHold
  LedgerTrue
PROPERTIES
  FencedWork
  SignInHolds
  
CHECK_DEADLOCK FALSE
