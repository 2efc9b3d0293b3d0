SPECIFICATION Spec
CONSTANTS
    MaxHeight = 5
    MaxStops = 3
INVARIANTS TypeOK MigratedWithStores
PROPERTIES ChainGoesOn
