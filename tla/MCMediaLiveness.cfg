CONSTANTS
    NumUploads = 1
    Workers = {w1, w2}
    Handlers = {h1}
    MaxMsgs = 1
    MaxReceives = 3
    Batch = 1
    MaxFaults = 2
    None = None
SPECIFICATION LiveSpec
PROPERTIES
    UploadsSettle
