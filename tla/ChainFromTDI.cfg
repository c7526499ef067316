\* As MCDll.cfg: a caller who counts from TDI.
CONSTANTS
    IRLen <- MCIRLen
    IdCode <- MCIdCode
    DRLen = 2
    IdWidth = 3
    Preload = 8
SPECIFICATION ChainSpec
INVARIANT PaddingFromTDI
