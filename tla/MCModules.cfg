CONSTANTS
    a = a
    b = b
    c = c
    z = z
    Names = {a, b, c}
    MaxRequired = 2
    MaxModules = 4
    None = none
    w = w
    default = default
    u = u
    v = v
SPECIFICATION Spec
CHECK_DEADLOCK FALSE
SYMMETRY
    Symmetric
INVARIANTS
    LinkedWhole
    DependenciesFirst
    LoadedOnce
    SearchFinds
PROPERTIES
    OldestFirst
