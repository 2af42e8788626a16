SPECIFICATION Spec
CONSTANTS
  Conns = 2
  FirstPort = 1
  WrapPort = 1
  EndPort = 4
  MaxRtx = 1
  MaxSynRtx = 1
  MaxCalls = 2
  Loads <- Talk
PROPERTIES NewDataWhenAcked
CHECK_DEADLOCK FALSE
