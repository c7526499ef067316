CONSTANTS
    Radix = 3
    Start = 2
    MaxPayload = 2
    Crc <- MCCrc
    Timeout = 1
    MaxNow = 3
SPECIFICATION Spec
INVARIANTS PayloadInBounds RoomForByte ParserInv
PROPERTIES RaceHeals Recognises
