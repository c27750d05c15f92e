SPECIFICATION AreaSpec
INVARIANTS
  
  TargetsAgree
  
PROPERTIES
  ChangesBuildOnWhatWasSeen
CHECK_DEADLOCK FALSE
