\* A request line of the maximal length whose CRLF is split.
CONSTANTS
    MaxChunk = 5
    maxRequestLine = 3
    maxHeaderBlock = 8
    maxBody = 2
    MaxRequests = 1
    ShortLines = {3}
    LongLines = {4}
    Streams <- AllStreams
SPECIFICATION Spec
INVARIANT ChunkingIrrelevant
CHECK_DEADLOCK FALSE
