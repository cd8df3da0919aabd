\* Messages in any order, expired and released locks, one group or one for each service,
\* and one thing of any kind that goes wrong or that the administrator does.
SPECIFICATION Spec
CONSTANTS
    s1 = s1
    s2 = s2
    b1 = b1
    b2 = b2
    p1 = p1
    NoBooking = NoBooking
    Seats = {s1, s2}
    Bookings = {b1, b2}
    SeatOf <- Wanted
    Pods = {p1}
    CronPods = {p1}
    Managed = {s2}
    Happens = {"giveUp", "expiry", "reset"}
    totalSeats = 5
    Elsewhere = 2
    BasePrice = 850000
    MaxTroubles = 1
    MaxQueue = 2
INVARIANTS TypeOK PricingBalances SearchBalances PriceShownFollowsDemand
CHECK_DEADLOCK FALSE
