SPECIFICATION FairSpec
CONSTANTS
    lena = lena
    bob = bob
    ada = ada
    tent = tent
    None = None
    Users <- MC_ThreeUsers
    Admins <- MC_OneAdmin
    Listings <- MC_Listings
    BookingIds = {b1}
    Periods <- MC_OnePeriod
    DayTicks = 2
    EarningsLimit = 1
    InitialListings <- MC_InitialListings
    Requests = {r1, r2}
    Failures = FALSE
CHECK_DEADLOCK FALSE
INVARIANTS
    TypeOK
    StatusIsLastHistory
    HistoryJustified
    OnlySealCanLag
    NoticesJustified
    PageOffersWhatServerAccepts
PROPERTIES
    HistoryNeverRewritten
    EventuallyCaughtUp
