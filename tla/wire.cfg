SPECIFICATION WireSpec
CONSTANTS
    ExtTime = 3
    TimeMod = 8
    HeadersMax = 10
    MinChunk = 2
    SeqMax = 1000
    Cids = {4, 70}
    MediaTypes = {9}
    Times = {2, 4, 9}
    Lengths = {1, 3}
    ChunkSizes = {3}
    Windows = {5, 12}
    PlayerSid = 1
    MaxMessages = 3
    MaxWire = 2
    MaxCut = 12
    MaxTags = 4
    Nows = {3, 16777300}
    Widths = {39, 67108863}
    Units <- MCUnits
    MaxUnits = 2
    MaxFrames = 3
    LengthLimit = 400
    TsFrames <- MCTsFrames
    TsCodecs <- MCTsCodecs
    FirstCounter = 14
    MaxTsFrames = 3
    MaxSegments = 2
    MaxFaults = 2
CHECK_DEADLOCK FALSE
INVARIANTS AllDeliveredIntact RelayedIntact AcksFollow ReadAsWritten CutYieldsLess FramesKept TagsKept PacketsFull WholeMessages UntouchedDelivered
