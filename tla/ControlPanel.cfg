SPECIFICATION Spec
CHECK_DEADLOCK FALSE
CONSTANTS
    Kinds = {"gain", "lpf", "mode", "pty", "di", "ecc", "lic", "text", "list"}
    MaxActs = 3
    MaxGens = 2
    PeriodUnits = 2
    PipeUnits = 3
INVARIANTS
    NotReverted
PROPERTIES
    Converges
    PlotReturns
