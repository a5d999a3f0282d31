SPECIFICATION Spec
CONSTANTS
    P = 3
    MaxWitnesses = 4
    ExpressionWidth = 2
    Payloads = {m1}
    NoPayload = NoPayload
    MaxCalls = 4
    MaxOpcodes = 5
    Ops <- MemoryOps
    Constants = {0, 1}
    BlockIds = {0, 1}
    MaxArrayLen = 2
VIEW ContextView
INVARIANTS MemoryAgrees
PROPERTIES MemoryResultsCorrect
CHECK_DEADLOCK FALSE
