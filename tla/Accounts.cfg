SPECIFICATION AccountsSpec
CONSTANTS
    c1 = c1  c2 = c2  s1 = s1  s2 = s2  p1 = p1  p2 = p2  p3 = p3  k1 = k1
    None = None
    Calls <- MC_Calls
    Sids <- MC_Sids
    Passwords <- MC_Passwords
    Codes <- MC_Codes
    WINDOW = 1
    BLOCK = 1
    MAX_FAILURES = 3
    LOCK_THRESHOLD = 2
    LOCK = 1
    HISTORY = 2
    MaxTime = 3
    MaxVersion = 2
    MaxTrouble = 5
SYMMETRY Symmetry
CHECK_DEADLOCK FALSE
INVARIANTS
    AccountsTypeOK
    BlockedWhileHot
    LockedAfterConsecutiveFailures
    BackupCodeUsedOnce
    SecondFactorHasSecret
    RevokedSessionsGone
PROPERTY
    PasswordChangesOnlyByItsLink
