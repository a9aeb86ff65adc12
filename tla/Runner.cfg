CONSTANTS
    k1 = k1
    k2 = k2
    u1 = u1
    u2 = u2
    NoCred = NoCred
    NoUrl = NoUrl
    MaxJobs = 2
    Credentials <- MCCredentials
    MaxAttempts = 2
    RetiredKeep = 2
    MaxChanges = 1
    MaxRetries = 1
    Resolutions = {{"public"}, {"public", "private"}}
    AllowPrivate = FALSE
    Plain = {}
    Works <- MCWorks
    MaxCleanings = 1
SPECIFICATION Spec
INVARIANTS KeysAreGuarded StopsAfterOneStep JobsDoNotCollide
CHECK_DEADLOCK FALSE
