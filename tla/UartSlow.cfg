\* As UartBridge.cfg, before the bus reset.
CONSTANTS
    Capacity = 3
    MaxPacket = 2
    Chunk = 2
    MaxBytes = 5
    MaxEpoch = 1
SPECIFICATION Spec
INVARIANT SlowUartDropsNothing
