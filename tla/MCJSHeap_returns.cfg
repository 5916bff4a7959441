CONSTANTS
    Addr = {a1, a2, a3}
    Ref = {r1, r2, r3}
    Stack = Stack
    Unused = Unused
    Nil = Nil
SPECIFICATION Spec
PROPERTIES
    EngineReturns
