\* The count of ticks wraps where no timeout but the shortest ones divides it.
SPECIFICATION FairSpec
CONSTANTS
    Timeout <- Timeouts
    Wrap = 8
INVARIANTS
    WedgedWithCause
PROPERTIES
    SamplesGoOn
    HeldButtonIsSeen
