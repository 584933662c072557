CONSTANTS
    NumUploads = 1
    Workers = {w1, w2}
    Handlers = {h1, h2}
    MaxMsgs = 2
    MaxReceives = 2
    Batch = 1
    MaxFaults = 1
    None = None
SPECIFICATION Spec
INVARIANT AtMostOneMedia
