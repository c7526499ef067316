CONSTANTS
    MaxChunks = 1
    MaxPackets = 2
    MaxResets = 1
SPECIFICATION FairPipeSpec
PROPERTY CleanClose
