SPECIFICATION FairSpec
CONSTANTS
  Conns = 2
  FirstPort = 1
  WrapPort = 1
  EndPort = 4
  MaxRtx = 1
  MaxSynRtx = 1
  MaxCalls = 5
  Loads <- Mixed
INVARIANTS TypeOK SequenceAgreement HandledInOrder AnswersInOrder AlwaysTrying OnePortPerSlot PortsRest
PROPERTIES EntriesAreFreed ConnectsAgain
CHECK_DEADLOCK FALSE
