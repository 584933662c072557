CONSTANTS
    NumUploads = 1
    Workers = {w1, w2}
    Handlers = {h1, h2}
    MaxMsgs = 2
    MaxReceives = 3
    Batch = 1
    MaxFaults = 1
    None = None
SPECIFICATION Spec
SYMMETRY Symmetry
INVARIANTS
    TypeOK
    NoOrphanedMedia
    CompletedPointsAtMedia
    BrokenOnlyAfterDelete
    StrandedOnlyByFault
PROPERTY SettledStaysSettled
