SPECIFICATION MarketSpec
CONSTANTS
    lena = lena
    bob = bob
    tent = tent
    None = None
    Users <- MC_Users
    Admins <- MC_Admins
    Listings <- MC_Listings
    BookingIds = {b1}
    Periods <- MC_Periods
    DayTicks = 1
    InitialListings <- MC_InitialListings
    Requests = {r1}
    Failures = TRUE
    Jobs = {j1, j2}
CHECK_DEADLOCK FALSE
SYMMETRY MC_Symmetry
VIEW MC_View
INVARIANTS
    MarketTypeOK
    InactiveLeavesNothingOpen
    RestoresExactlyWhatWasHidden
    ReviewsSound
PROPERTIES
    NoOrphanedBooking
