\* The ring has two values for a byte, and sessions before and after one bus reset; the
\* pipe two messages of up to two packets, before and after one.
CONSTANTS
    Hz = {999, 1000, 4000000}
    Scans = {1, 1025, 8176}
    Runs <- MCRuns
    ResetMs = {0, 120, 5001}
    UartPiece = 22
    Size = 4
    Byte = {0, 1}
    MaxPacket = 2
    MaxEpoch = 2
    MaxChunks = 2
    MaxPackets = 4
    MaxResets = 1
SPECIFICATION FairFirmwareSpec
INVARIANTS BitesOnlyUnfed FreshUnlessRaced RingInv Delivered BusyIsLive Phantoms
PROPERTIES PulseAsAsked QueueStep PushIsTheLoop EveryByteServed SendReturns
