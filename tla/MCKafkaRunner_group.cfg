SPECIFICATION FairSpec
CONSTANTS
    Partitions = {q1}
    Pods = {p1, p2}
    NoPod = NoPod
    MaxLog <- ShortLog
    MaxFaults = 1
    MaxMoves = 1
    MaxStops = 1
INVARIANTS
    TypeOK
    CommittedWereTried
    TriedInOrder
    RepeatsArePaid
PROPERTY
    EveryMessageTried
CHECK_DEADLOCK FALSE
