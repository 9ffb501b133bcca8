SPECIFICATION BrowserSpec
CONSTANTS
    l1 = l1  l2 = l2  n1 = n1  n2 = n2  n3 = n3  s1 = s1  s2 = s2  s3 = s3  d1 = d1  d2 = d2
    PageLimit = 2
    MaxRequests = 2
    None = None
    Listings <- MC_Listings
    Notes <- MC_Notes
    Secrets <- MC_Secrets
    Callers <- MC_Callers
SYMMETRY Symmetry
CONSTRAINT MC_OneAtATime
INVARIANTS
    BrowserTypeOK
    
    DialogOfItsCaller
    UnreadCounted
PROPERTY
    SecondFactorInSync
