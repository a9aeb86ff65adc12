CONSTANTS
    e1 = e1
    e2 = e2
    e3 = e3
    Nobody = Nobody
    NoEtag = NoEtag
    Tasks = {e1, e2, e3}
    Slots <- TwoSlots
    Texts = {"a", "b"}
    Patch <- OneMisses
    Etags <- SomeEtags
    Faults = {"s3", "db", "crash"}
SPECIFICATION FairEditsSpec
INVARIANTS FilesAgree MutexIsKept
PROPERTIES NoLostEdit ImplementsStore EditsAreAnswered
CHECK_DEADLOCK FALSE
