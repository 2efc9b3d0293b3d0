CONSTANTS
    QueueSize = 2
    PacketSpans = 2
    MaxSpans = 5

SPECIFICATION Spec

INVARIANTS
    SpansAccounted
    EndLosesLittle

PROPERTIES
    OnlyBatchesTooBig
    CommandEnds
