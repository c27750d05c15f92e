CONSTANTS
  Legacy = Legacy
  FromV1 = FromV1
  Own = Own
  file1 = file1
  file2 = file2
SPECIFICATION AreaSpec
INVARIANTS
  TypesOK
  
  
  WayBackKept
PROPERTIES
  BuildsOnWhatWasSeen
  
CHECK_DEADLOCK FALSE
