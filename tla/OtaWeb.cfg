CONSTANTS
    a = a
    b = b
    factory = factory
    Image = {a, b}
    Factory = factory
    Size <- Sizes
    Chunks = {}
    WebImages = {a, b}
    WebRead = 2
    HeaderSize = 1
    MaxFaults = 2
    MaxRestarts = 1
    NoReply = NoReply
    NoImage = NoImage
SPECIFICATION OtaSpec
PROPERTY UpdateIsAtomic
