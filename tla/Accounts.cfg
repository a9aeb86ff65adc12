CONSTANTS
    ana = ana
    beto = beto
    l1 = l1
    l2 = l2
    s1 = s1
    s2 = s2
    inv = inv
    k1 = k1
    e1 = e1
    None = None
    Person = {ana, beto, l1, l2}
    Space = {s1, s2, l1, l2}
    Session = {s1, s2, beto, l1, l2}
    Login = {l1, l2}
    Invite = {inv}
    Key = {k1}
    Request = {1, 2}
    Subject = {"ana", "beto", "carla"}
    Email = {e1}
    Profile <- MCProfile
    UserId <- MCUserId
    Starts <- MCStarts
    MaxPending = 1
    MaxRequests = 2
SPECIFICATION FairSpec
INVARIANTS NobodyIsOrphaned InviteUsedOnce SignedInAsOneself
PROPERTIES RolesAreRespected RequestsAreAnswered
CHECK_DEADLOCK FALSE
