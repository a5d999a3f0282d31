SPECIFICATION Spec
CONSTANTS
    P = 3
    MaxWitnesses = 3
    ExpressionWidth = 2
    Payloads = {m1}
    NoPayload = NoPayload
    MaxCalls = 5
    MaxOpcodes = 4
    Ops <- ArithmeticOps
    Constants = {0, 1, 2}
    BlockIds = {0, 1}
    MaxArrayLen = 2
INVARIANTS TypeOK
PROPERTIES ValuesPreserved ResultCorrect
CHECK_DEADLOCK FALSE
VIEW ContextView
