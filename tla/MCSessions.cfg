\* One user: a chain of two rotations, or a second login beside a rotation.
CONSTANTS
    Users = {u1}
    Requests = {r1, r2}
    MaxTokens = 3
    NoUser = NoUser
SPECIFICATION Spec
SYMMETRY Symmetry
INVARIANTS
    TypeOK
    DeletionEndsSessions
    OnlyReplayEndsSessions
PROPERTY RotationIsChains
