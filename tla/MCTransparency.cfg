SPECIFICATION SpecH
CONSTANTS
    NoClock = NoClock
    Event = {e1, e2}
    Key = {k}
    Value = {0, 1}
    AccessGas = 1
    GasLimit = 2
    BlockTime = 10
    MaxSteps = 4
    MaxSpans = 3
    MaxTime = 2
INVARIANTS TypeOK SpansSettle ChildWithinParent GasTraceAddsUp StoreLogsNest TransparentEvents
PROPERTIES WritesAreTraced ReportsItsEvents Transparent
