CONSTANTS
    Stories = {s1, s2}
    Users = {u1, u2}
    Highlights = {h1}
    Requests = {r1, r2}
    None = None
SPECIFICATION Spec
INVARIANT PositionsDistinct
CHECK_DEADLOCK FALSE
