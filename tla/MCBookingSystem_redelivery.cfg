SPECIFICATION Spec
CONSTANTS
    s1 = s1
    f1 = f1
    Seats = {s1}
    FlightOf <- OneFlight
    Bookings = {b1}
    SeatOf <- SameSeat
    Tokens = {t1, t2}
    Pods = {p1, p2}
    CronPods = {}
    BookingPods = {q1}
    Env <- Redelivery
    MaxFaults = 1
    NoToken = NoToken
    NoBooking = NoBooking
SYMMETRY Symmetry
CHECK_DEADLOCK FALSE
INVARIANTS BookedForLiveBooking
