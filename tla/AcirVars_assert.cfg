SPECIFICATION Spec
CONSTANTS
    P = 3
    MaxWitnesses = 3
    ExpressionWidth = 2
    Payloads = {m1}
    NoPayload = NoPayload
    MaxCalls = 4
    MaxOpcodes = 3
    Ops <- AssertionOps
    Constants = {0, 1, 2}
    BlockIds = {0, 1}
    MaxArrayLen = 2
VIEW ContextView
INVARIANTS ConstantWitnessesSound
PROPERTIES ResultCorrect CircuitMeaning PayloadOnOwnOpcode
CHECK_DEADLOCK FALSE
