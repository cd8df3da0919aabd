SPECIFICATION FairSpec
CONSTANTS
    s1 = s1
    f1 = f1
    Seats = {s1}
    FlightOf <- OneFlight
    Bookings = {b1, b2}
    SeatOf <- SameSeat
    Tokens = {t1, t2, t3}
    Pods = {p1, p2}
    CronPods = {p1}
    BookingPods = {q1}
    Env <- LostWork
    MaxFaults = 1
    NoToken = NoToken
    NoBooking = NoBooking
CHECK_DEADLOCK FALSE
INVARIANTS NoDoubleSale BookedForLiveBooking NeverStranded
PROPERTIES ImplementsSale LocksEnd SettlesIfNothingFails ConfirmedIsAnnounced DemandIsServed
