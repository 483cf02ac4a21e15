CONSTANTS
    None = None
    Matches = {m1}
    Users = {"host", "u1", "u2"}
    HostOf <- SampleHost
    Requests = {r1, r2, r3}
    Places = {1, 2}
    MaxConns = 2
SPECIFICATION MatchFairSpec
INVARIANT SeatsKept
PROPERTIES JoinsOnlyLive RequestsAnswered
