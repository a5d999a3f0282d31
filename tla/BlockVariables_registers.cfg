SPECIFICATION Spec
CONSTANTS
    v1 = v1
    v2 = v2
    v3 = v3
    v4 = v4
    r1 = r1
    r2 = r2
    r3 = r3
    ValueIds = {v1, v2, v3, v4}
    TypeOf <- MCTypeOf
    Registers = {r1, r2, r3}
    LiveIn = {v1}
INVARIANTS
    NoRegisterAliasing
    NoRegisterLeak
\* A panic ends compilation: those states have no successor.
CHECK_DEADLOCK FALSE
