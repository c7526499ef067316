\* As the transport of MCDll.cfg.
CONSTANTS
    MaxCalls = 3
    MaxOpens = 2
    DataLen = 2
    FirstPacket = 5
\* The caller may stop calling.
CHECK_DEADLOCK FALSE
SPECIFICATION Spec
INVARIANT OwnAnswer
