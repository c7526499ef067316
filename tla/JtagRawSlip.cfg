\* As MCJtagRaw.cfg.
CONSTANTS
    MaxShift = 32
    Words <- MCWords
    Devices = {1, 2}
    IRLen = 2
SPECIFICATION Spec
INVARIANT TrackerFollows
