SPECIFICATION FairSpec
CONSTANTS
    Requests <- MCRequests
    ItemLen <- MCItemLen
    MaxPacket = 64
    BufSize = 192
    Bauds <- MCBauds
INVARIANTS
    BaudInv
    RightResult
    AddressHeard
    ConfigurationRead
PROPERTIES
    BaudAsOrdered
    TransferEnds
