CONSTANTS
    HeaderSize = 2
    PacketSize = 2
    MaxSent = 3
    BodySizes = {0, 1, 3}
CHECK_DEADLOCK FALSE
SPECIFICATION Spec
INVARIANTS TypeOK InFrame
PROPERTIES ImplementsChannel Delivers
