\* Three reporters, a post and the profile: six reports, and five ban.
CONSTANTS
    Reporters = {x1, x2, x3}
    Posts = {p1}
    Profile = Profile
    Requests = {r1, r2}
    FlagsPerStrike = 3
    StrikesToBan = 2
    Basic <- BasicNeeds
    Trusted <- TrustedNeeds
    MaxPoints = 10

SPECIFICATION Spec

SYMMETRY Symmetry

INVARIANTS
    TypeOK
    StrikesMatchReports
    LevelEarned
