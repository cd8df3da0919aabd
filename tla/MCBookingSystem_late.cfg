SPECIFICATION FairSpec
CONSTANTS
    s1 = s1
    f1 = f1
    Seats = {s1}
    FlightOf <- OneFlight
    Bookings = {b1}
    SeatOf <- SameSeat
    Tokens = {t1, t2}
    Pods = {p1, p2}
    CronPods = {p1}
    BookingPods = {q1}
    Env <- LateHandlers
    MaxFaults = 0
    NoToken = NoToken
    NoBooking = NoBooking
CHECK_DEADLOCK FALSE
PROPERTIES EveryBookingSettles
