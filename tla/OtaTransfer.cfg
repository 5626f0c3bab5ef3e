CONSTANTS
    a = a
    factory = factory
    Image = {a}
    Factory = factory
    Size <- Sizes
    Chunks <- UploadChunks
    WebImages = {a}
    WebRead = 2
    HeaderSize = 1
    MaxFaults = 1
    MaxRestarts = 1
    NoReply = NoReply
    Upload = a
    MaxLosses = 1
    MaxTimeouts = 1
    MaxWebStarts = 1
    NoChunk = NoChunk
SPECIFICATION TransferSpec
INVARIANT ServerNeverAhead
INVARIANT DoneMeansWhole
PROPERTY TransferEnds
PROPERTY DoneMeansRunning
