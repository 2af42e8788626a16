\* The lists, wake-ups and timeouts of three tasks and a device that uses
\* both ends of the queue.
SPECIFICATION Spec
CONSTANTS
    urgent = urgent
    a = a
    b = b
    Idle = Idle
    Task = {urgent, a, b}
    Prio <- Ranks
    Job <- Jobs
    Wait <- Waits
    Isr = {"send", "receive"}
    Length = 2
    MaxDelay = 4
    MaxMissed = 2
INVARIANTS
    TypeOK
    WakeIsAhead
    HighestRuns
    NoLostWakeup
    TimeoutsAreExact
