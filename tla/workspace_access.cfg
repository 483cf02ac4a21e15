CONSTANTS
    None = None
    Members = {m1}
    Venues = {"v1", "v2", "x"}
    OwnVenues = {"v1", "v2"}
    VenueSets <- SampleVenueSets
    PermSets <- SamplePermSets
    Requests = {r1, r2, r3}
    Tokens = {t1, t2, t3}
    Starts <- SampleStarts
SYMMETRY Interchangeable
CHECK_DEADLOCK FALSE
SPECIFICATION Spec
INVARIANTS InvitedCanActivate WritesWithinRights VenuesReplaced
