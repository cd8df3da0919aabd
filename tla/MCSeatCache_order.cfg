\* The cache with two inventory pods, expiry and compensation, nothing out of order, and
\* one thing that gets lost or that the administrator does.
SPECIFICATION Spec
CONSTANTS
    s1 = s1
    s2 = s2
    b1 = b1
    b2 = b2
    p1 = p1
    q1 = q1
    q2 = q2
    p2 = p2
    NoBooking = NoBooking
    Seats = {s1, s2}
    Bookings = {b1, b2}
    SeatOf <- WantsFirst
    Pods = {p1, p2}
    BookingPods = {q1, q2}
    CronPods = {p1}
    Managed = {s2}
    Happens = {"expiry", "giveUp", "reset"}
    Disorders = {}
    MaxSnapshots = 1
    MaxFeed = 2
    MaxTroubles = 1
SYMMETRY Symmetry
INVARIANTS TypeOK HiddenForAReason OfferedForAReason
CHECK_DEADLOCK FALSE
