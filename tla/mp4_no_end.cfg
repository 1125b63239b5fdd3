SPECIFICATION Mp4FairSpec
CONSTANTS
    BufSize = 46
    MaxSamples = 2
    Deltas = {1, 2}
    Ctss = {0, 1}
PROPERTY FileOpened
