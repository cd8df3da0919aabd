SPECIFICATION Spec
CONSTANTS
    f1 = f1
    f2 = f2
    Flights = {f1, f2}
    Routes = {r}
    RouteOf <- MCRouteOf
    Departure <- MCDeparture
    SeedSeats <- MCSeedSeats
    SeedPrice <- MCSeedPrice
    Prices = {2}
    NoValue = NoValue
    SearchPods = {p1}
    Limit = 1
    MaxUpdates = 0
    Seats = {s1}
    LowSeats = {s1}
    Slots = {1}
    MaxBookings = 1
    MaxLost = 0
    MaxRivals = 1
INVARIANT OneCustomerPerSeat
CHECK_DEADLOCK FALSE
