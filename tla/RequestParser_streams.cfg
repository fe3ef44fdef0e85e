\* Streams of two requests around every limit, cut anywhere into chunks of one to five bytes.
CONSTANTS
    MaxChunk = 5
    maxRequestLine = 3
    maxHeaderBlock = 8
    maxBody = 2
    MaxRequests = 2
    ShortLines = {1, 3}
    LongLines = {4, 10}
    Streams <- AllStreams
SPECIFICATION Spec
INVARIANTS TypeOK ChunkingIrrelevantBelowLimit WaitsOnlyForMissingBytes FramedExactly BoundedWhileWaiting
CHECK_DEADLOCK FALSE
