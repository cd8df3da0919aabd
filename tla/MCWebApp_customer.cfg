SPECIFICATION FairSpec
CONSTANTS
    f1 = f1
    f2 = f2
    Flights = {f1, f2}
    Routes = {r}
    RouteOf <- MCRouteOf
    Departure <- MCDeparture
    SeedSeats <- MCSeedSeats
    SeedPrice <- MCSeedPrice
    Prices = {2}
    NoValue = NoValue
    SearchPods = {p1, p2}
    Limit = 1
    MaxUpdates = 1
    Seats = {s1}
    LowSeats = {}
    Slots = {1, 2}
    MaxBookings = 2
    MaxLost = 1
    MaxRivals = 1
INVARIANTS TypeOK SeededIsFound PageListedIsPageNamed OneBookingPerVisit PageTellsTheTruth
PROPERTIES PodsStart OutcomeIsShown
CHECK_DEADLOCK FALSE
