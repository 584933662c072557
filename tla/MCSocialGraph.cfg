CONSTANTS
    Users = {u1, u2, u3}
    Requests = {r1, r2}
    MAX_FOLLOWERS = 1
    NoEdge = NoEdge
SPECIFICATION Spec
SYMMETRY Symmetry
INVARIANTS
    TypeOK
    NoFollowAcrossBlock
    FollowersBounded
    NoFollowersOfDeleted
    DeadlockOnlyThroughFollow
CHECK_DEADLOCK FALSE
