CONSTANTS
    Keys = {k, l}
    Iters = {i, j}
    Values = {i, j}
    MaxRecords = 3
    MaxCalls = 1
    None = none
    Objects = {o1, o2}
    Atoms = {x, y}
    Protos = {p1, p2}
    Addr = {s1, s2, s3}
    InitSize = 2
    MinDeleted = 2
    MaxCount = 3
    Nil = nil
    k = k
    l = l
    i = i
    j = j
    o1 = o1
    o2 = o2
    x = x
    y = y
    p1 = p1
    p2 = p2
    s1 = s1
    s2 = s2
    s3 = s3
    Parts = {"walk", "held", "array", "shape"}
SPECIFICATION MCSpec
CHECK_DEADLOCK FALSE
SYMMETRY
    Symmetric
INVARIANTS
    RecordsExact
    SharingExact
PROPERTIES
    AsPromised
