SPECIFICATION FairSpec
CONSTANT QueueLen = 3
INVARIANTS TypeOK ScreenIsLast
PROPERTIES ButtonIsShown
