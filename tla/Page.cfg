CONSTANTS
    f1 = f1
    f2 = f2
    None = None
    File = {f1, f2}
    Media <- MCMedia
    VerticalMax = 600
    Offered = {"auto", "burn by hand", "vertical by hand"}
    Chosen <- MCChosen
    Request = {1, 2}
    MaxJobs = 3
    MaxQueued = 1
    MaxPerHour = 2
    MaxUploads = 1
    MaxHours = 1
    MaxWanted = 2
    MaxGestures = 2
SPECIFICATION Spec
INVARIANTS LimitsHold ActsOnceAndInformed QueueGoesOn
CHECK_DEADLOCK FALSE
