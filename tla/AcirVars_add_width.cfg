SPECIFICATION Spec
CONSTANTS
    P = 3
    MaxWitnesses = 4
    ExpressionWidth = 2
    Payloads = {m1}
    NoPayload = NoPayload
    MaxCalls = 7
    MaxOpcodes = 2
    Ops <- WidthOps
    Constants = {1}
    BlockIds = {0, 1}
    MaxArrayLen = 2
VIEW ContextView
PROPERTIES AddVarFits
CHECK_DEADLOCK FALSE
