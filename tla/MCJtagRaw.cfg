\* SHIFT_DATA takes 32 bits instead of 8176.
CONSTANTS
    MaxShift = 32
    Words <- MCWords
    Devices = {1, 2}
    IRLen = 2
SPECIFICATION Spec
INVARIANTS TypeOK Agree RawWalk Home
