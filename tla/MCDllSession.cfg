\* Ten for the thousand and 41000 for 2^32: 4000 kHz fits, and 4101 wraps round to 1 kHz.
CONSTANTS
    a = a
    b = b
    none = none
    Probe <- MCProbe
    Version <- MCVersion
    Khz = {2, 4101}
    Thousand = 10
    Wrap = 41000
    Ttl = 1
    TickWrap = 3
    MaxOwing = 1
SYMMETRY Swap
SPECIFICATION Spec
INVARIANT HandlesInv
PROPERTIES ListFresh ClockAsSet
