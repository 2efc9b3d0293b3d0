SPECIFICATION SpecG
CONSTANTS
    Validators = {1, 2}
    Delegators = {d1}
    Unit = 2
    Fee = 5
    MaxBlocks = 4
INVARIANTS TypeOK BooksBalance PaidInFull PeriodsReferred NothingFromTheFuture OnlyJailingFails ChainRestarts
