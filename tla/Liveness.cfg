CONSTANTS
  Legacy = Legacy
  FromV1 = FromV1
  Own = Own
  NoSite = NoSite
  file1 = file1
SPECIFICATION FairSpec
PROPERTIES
  OperationsEnd
  RequestsEnd
  
CHECK_DEADLOCK FALSE
