SPECIFICATION Spec
CONSTANTS
    Threads = {t1}
    Byte = {0, 1}
    SIZE = 3
    Outgoing <- Out3
    Incoming <- In4
    MaxEvents = 2
    MaxTorn = 1
PROPERTIES
    
    ReadIsFifo
    CallsReturn
CHECK_DEADLOCK FALSE
