\* Two users with one or two tokens between them: sessions of one do not end through the
\* other. MCSessions.cfg has longer chains of one user.
CONSTANTS
    Users = {u1, u2}
    Requests = {r1, r2}
    MaxTokens = 2
    NoUser = NoUser
SPECIFICATION Spec
SYMMETRY Symmetry
INVARIANTS
    TypeOK
    DeletionEndsSessions
    OnlyReplayEndsSessions
PROPERTY RotationIsChains
