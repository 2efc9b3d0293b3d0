SPECIFICATION Spec
CONSTANTS
    TxLimit = 4
    Limits = {0, 1, 2}
    Amounts = {1, 2}
    MaxSteps = 6
INVARIANTS
    GasExplained
    AbortsOutOfGas
PROPERTIES
    LimitProtects
