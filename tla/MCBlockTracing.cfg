CONSTANTS
    Module <- MCModule
    BeginOrder <- MCBeginOrder
    EndOrder <- MCEndOrder
    BeginBlockers <- MCBeginBlockers
    EndBlockers <- MCEndBlockers
    Programs <- MCPrograms
    MaxHeight = 2
    MaxCrashes = 1

SPECIFICATION Spec

INVARIANTS
    CommitsAsManager
    TracesBlock

PROPERTY
    BlocksCommitted
