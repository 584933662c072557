\* Two requests over two connections: two create_invite calls of different inviters
\* take both and wait for a third.
CONSTANTS
    Inviters = {u1, u2}
    Handles = {h1, h2}
    Requests = {r1, r2}
    NoOne = NoOne
    Levels = {0, 1}
    max_invites <- Quota
    PoolSize = 2
    MaxCodes = 2

SPECIFICATION Spec

INVARIANTS
    TypeOK
    SignupIsAtomic
    StallOnlyInCodeGeneration

PROPERTIES
    QuotaHeld
    RevokedStaysUnused
    RequestsFinish
