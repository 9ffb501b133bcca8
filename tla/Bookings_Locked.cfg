SPECIFICATION LockedSpec
CONSTANTS
    lena = lena
    bob = bob
    ada = ada
    tent = tent
    None = None
    Users <- MC_Users
    Admins <- MC_Admins
    Listings <- MC_Listings
    BookingIds = {b1, b2}
    Periods <- MC_Periods
    DayTicks = 2
    EarningsLimit = 1
    InitialListings <- MC_InitialListings
    Requests = {r1, r2}
    Failures = TRUE
CHECK_DEADLOCK FALSE
INVARIANTS
    NoDoubleBooking
    NoFalseTamperAlert
    LinksOpen
    AvailabilityPredictsClash
    EarningsComplete
PROPERTIES
    ImplementsLifecycle
SYMMETRY MC_SlotSymmetry
VIEW MC_View
