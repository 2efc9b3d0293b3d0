CONSTANTS
    MaxValidators = 3
    StartBytes = {1, 254}
    SingleHosts = {FALSE, TRUE}
    MaxRuns = 2
    MaxFailures = 1

SPECIFICATION Spec

INVARIANTS
    GenesesAgree
    PeersConnect
    SingleHostPorts
    
