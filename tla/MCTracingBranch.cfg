SPECIFICATION Spec
CONSTANTS
    NoClock = NoClock
    Event = {e}
    Key = {k}
    Value = {0, 1}
    AccessGas = 1
    GasLimit = 3
    BlockTime = 10
    MaxSteps = 4
    MaxSpans = 2
    MaxTime = 0
PROPERTY AllWritesTraced
