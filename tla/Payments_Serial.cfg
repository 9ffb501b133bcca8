SPECIFICATION PaymentsSpec
CONSTANTS
    lena = lena
    bob = bob
    tent = tent
    None = None
    Users <- MC_Users
    Admins <- MC_Admins
    Listings <- MC_Listings
    BookingIds = {b1}
    Periods <- MC_Periods
    DayTicks = 2
    InitialListings <- MC_InitialListings
    Requests = {r1}
    Failures = TRUE
    Pidxs = {p1, p2, p3}
    Calls = {c1}
    Deviations <- MC_Deviations
CHECK_DEADLOCK FALSE
SYMMETRY MC_Symmetry
INVARIANTS
    OneLivePidx
    NoPaymentLost
