\* Two receivers of one priority and a device that sends, or does not.
SPECIFICATION FairSpec
CONSTANTS
    urgent = urgent
    a = a
    b = b
    Idle = Idle
    Task = {a, b}
    Prio <- Peers
    Job <- PeerJobs
    Wait <- PeerWaits
    Isr = {"send"}
    Length = 2
    MaxDelay = 4
    MaxMissed = 2
PROPERTIES
    CallsReturn
