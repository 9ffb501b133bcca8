SPECIFICATION PaymentsSpec
CONSTANTS
    lena = lena
    bob = bob
    tent = tent
    None = None
    Users <- MC_Users
    Admins <- MC_Admins
    Listings <- MC_Listings
    BookingIds = {b1}
    Periods <- MC_Periods
    DayTicks = 2
    InitialListings <- MC_InitialListings
    Requests = {r1}
    Failures = FALSE
    Pidxs = {p1, p2}
    Calls = {c1, c2}
    Deviations <- MC_Deviations
CHECK_DEADLOCK FALSE
SYMMETRY MC_Symmetry
INVARIANTS
    PaymentsTypeOK
    PaidOnlyIfVerified
    PaidOnce
    MismatchJustified
    SuccessOnlyIfSettled
PROPERTIES
    ImplementsBookings
