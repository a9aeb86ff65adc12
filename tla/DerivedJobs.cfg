CONSTANTS
    e1 = e1
    e2 = e2
    r1 = r1
    r2 = r2
    r3 = r3
    Nobody = Nobody
    NoEtag = NoEtag
    Tasks = {e1, e2}
    Slots <- TwoSlots
    Texts = {"long", "short"}
    Patch <- LongAndShort
    Etags <- WithoutEtag
    Faults = {"crash"}
    Requests = {r1, r2, r3}
    Kind <- TwoDubsAndATranslation
    WithinCaps <- Short
SPECIFICATION Spec
INVARIANTS OneActivePerKind MadeFromApproved SpendsWithinCaps
CHECK_DEADLOCK FALSE
