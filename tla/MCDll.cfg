\* Of the transport: a RESP_DATA of seven bytes, cut after five or not.
\* Of the chain: three devices, IDCODEs of three bits, a preload two bits longer than
\* the instruction registers.
CONSTANTS
    MaxCalls = 4
    MaxOpens = 2
    DataLen = 2
    FirstPacket = 5
    IRLen <- MCIRLen
    IdCode <- MCIdCode
    DRLen = 2
    IdWidth = 3
    Preload = 8
\* The caller may stop calling.
CHECK_DEADLOCK FALSE
SPECIFICATION FairDllSpec
INVARIANTS TypeOK AlignedUnlessCut ChainTypeOK TransparentPadding 
PROPERTIES OwnAnswerWhileClean OnceInOrder CallReturns
