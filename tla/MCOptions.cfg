SPECIFICATION Spec
CONSTANTS
    ld1 = ld1
    ld2 = ld2
    Null = Null
    Bad = Bad
    Sessions <- MCSessions
    Confs <- MCConfs
    Inputs <- MCInputs
    Hosts <- MCHosts
    GlobalTimeouts = FALSE
    MaxCalls = 4
SYMMETRY Symmetry
INVARIANTS BlocksExact
PROPERTIES OptionsSpec
CHECK_DEADLOCK FALSE
