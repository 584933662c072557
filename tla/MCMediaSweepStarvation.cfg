CONSTANTS
    NumUploads = 2
    Workers = {w1}
    Handlers = {h1}
    MaxMsgs = 1
    MaxReceives = 2
    Batch = 1
    MaxFaults = 1
    None = None
SPECIFICATION LiveSpec
PROPERTIES
    UploadsSettle
