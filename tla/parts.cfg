SPECIFICATION PartsSpec
CONSTANTS
    Files <- MCFiles
    Vhosts = {"v1", "v2"}
    Streams = {"s"}
    Handlers = {"h"}
    RawOptions = {"pid", "chunk_size"}
    MaxChanges = 2
    BufSize = 46
    MaxSamples = 4
    Deltas = {1, 2}
    Ctss = {0, 1}
    MaxSent = 3
    InitialSize = 1
    VideoHeaders = {1, 3}
    AudioHeaders = {2}
    MaxPushed = 6
INVARIANTS OptionRead SubscribersFollow DumpAgrees RecordingReadBack IndexReadBack FragmentReadBack AtMostOneQueued NoAutoResponseWhileReading InBounds
PROPERTIES SavedWhole ControlProcessed ErrorSeen ImplementsFifo
