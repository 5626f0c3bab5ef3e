CONSTANTS
    a = a
    b = b
    factory = factory
    Image = {a}
    Factory = factory
    Size <- Sizes
    Chunks <- ServerChunks
    WebImages = {}
    WebRead = 2
    HeaderSize = 1
    MaxFaults = 1
    MaxRestarts = 0
    NoReply = NoReply
    NoImage = NoImage
SPECIFICATION OtaSpec
PROPERTY SixMeansDone
