SPECIFICATION FairSpec
CONSTANTS
  Loads <- Both
INVARIANTS TypeOK NoOrphanTimer
PROPERTIES QueuesAreLossyFifos CrashNeedsCause NoDigitLostWhileServed PortReopens QueueDrained
CHECK_DEADLOCK FALSE
