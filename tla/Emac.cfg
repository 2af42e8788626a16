SPECIFICATION FairSpec
CONSTANTS
  NumRxFrag = 4
  MaxFrames = 9
INVARIANTS NoLostWakeup NothingStoredIsLost
PROPERTIES StoredIsHandled
CHECK_DEADLOCK FALSE
