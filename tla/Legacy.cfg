\* Two uploads, a batch of two files, one edit, and streams that are given up after two errors.
CONSTANTS
    None = None
    Jobs = {1, 2}
    Saves = {1}
    MaxFiles = 2
    MaxErrors = 2
    Faults = {"ffmpeg", "model", "disk", "restart"}
SPECIFICATION FairSpec
INVARIANTS OffersWhatIsThere
PROPERTIES OverIsOver WaitingEnds
CHECK_DEADLOCK FALSE
