\* Two threads logging three lines each; the file may fail to open.
CONSTANTS
    p1 = p1  p2 = p2
    Producers <- TwoProducers
    MaxLines = 3
SPECIFICATION FairSpec
INVARIANTS TypeOK LogComplete NoSleepOverWork
PROPERTIES EveryLineWritten DestructorReturns
CHECK_DEADLOCK FALSE
