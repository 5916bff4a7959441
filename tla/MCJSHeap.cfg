CONSTANTS
    Addr = {a1, a2, a3}
    Ref = {r1, r2, r3, r4}
    Stack = Stack
    Unused = Unused
    Nil = Nil
SPECIFICATION Spec
SYMMETRY Symmetry
INVARIANTS
    RefCountExact
    NoUseAfterFree
    WeakCountExact
    CollectorAsserts
    NoGarbageLeft
    RuntimeEmpty
PROPERTIES
    GraphSpec
