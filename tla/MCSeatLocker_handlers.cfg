SPECIFICATION LockerSpec
CONSTANTS
    s1 = s1
    f1 = f1
    Seats = {s1}
    FlightOf <- OneFlight
    Bookings = {b1, b2}
    SeatOf <- SameSeat
    Tokens = {t1, t2, t3}
    Pods = {p1, p2, p3}
    CronPods = {}
    Env <- HandlerEnv
    MaxFaults = 1
    NoToken = NoToken
    NoBooking = NoBooking
SYMMETRY Symmetry
CHECK_DEADLOCK FALSE
INVARIANTS LockerTypeOK LockReplyTruthful QuietKeysAgree
PROPERTIES LockNotStolen BookedForever
