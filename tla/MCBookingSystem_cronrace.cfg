SPECIFICATION Spec
CONSTANTS
    s1 = s1
    f1 = f1
    Seats = {s1}
    FlightOf <- OneFlight
    Bookings = {b1, b2}
    SeatOf <- SameSeat
    Tokens = {t1, t2}
    Pods = {p1, p2}
    CronPods = {p1, p2}
    BookingPods = {q1}
    Env <- LostMessage
    MaxFaults = 1
    NoToken = NoToken
    NoBooking = NoBooking
SYMMETRY Symmetry
CHECK_DEADLOCK FALSE
INVARIANTS ConfirmedHoldsSeat
