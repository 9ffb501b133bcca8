SPECIFICATION FairSpec
CONSTANTS
    lena = lena
    bob = bob
    ada = ada
    tent = tent
    None = None
    Users <- MC_Users
    Admins <- MC_Admins
    Listings <- MC_Listings
    BookingIds = {b1}
    Periods <- MC_OnePeriod
    DayTicks = 2
    EarningsLimit = 1
    InitialListings <- MC_InitialListings
    Requests = {r1, r2}
    Failures = FALSE
CHECK_DEADLOCK FALSE
PROPERTIES
    StatusMovesLegally
