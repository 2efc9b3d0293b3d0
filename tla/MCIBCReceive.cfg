CONSTANT
    Packet = {p1, p2, p3}

SPECIFICATION ReceiveSpec

INVARIANTS
    DecidedByApp

PROPERTY
    EveryPacketAcked
