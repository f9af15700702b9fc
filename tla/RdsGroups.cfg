SPECIFICATION Spec
CONSTANTS
    PIs = {23100, 42435}
    PTYs = {31, 32}
    Bools = {0, 3}
    DIs = {6, 31}
    ECCs = {225}
    LICs = {4079, 8191}
    PSs <- MCPSs
    PTYNs <- MCPTYNs
    RTs <- MCRTs
    Times <- MCTimes
    MaxSets = 2
    ClockSets = 0
INVARIANTS
    BlocksDecode
    BasicComplete
    
    ClockDecodes
    FieldsDecode
