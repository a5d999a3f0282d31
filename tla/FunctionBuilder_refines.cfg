SPECIFICATION Spec
CONSTANTS
    Runtimes = {"acir", "brillig"}
    NumericTypes <- MCNumericTypes
    GlobalGraphs <- MCGlobalGraphs
    PurityTables = {p1}
    DefaultPurities = p0
    ErrorSelectors = {e1}
    Terminators = {"jmp", "return"}
    NoTerminator = NoTerminator
    MaxCalls = 4
    MaxFunctions = 2
    MaxBlocks = 2
    MaxValues = 2
    p0 = p0
    p1 = p1
    e1 = e1
VIEW BuilderView
INVARIANTS TypeOK
PROPERTIES Refinement
CHECK_DEADLOCK FALSE
