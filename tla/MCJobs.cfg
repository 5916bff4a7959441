CONSTANTS
    Promise = {p1, p2, p3}
    Async = {f1}
    NoFun = NoFun
    MaxOps = 5
    MaxReactions = 3
    Length = 3
    Data = {"x", "y"}
    None = None
    MaxRequests = 5
    MaxAwaits = 3
    a = a
    b = b
    c = c
SPECIFICATION MCSpec
CHECK_DEADLOCK FALSE
INVARIANTS
    JobsExact
    HostHears
    CompleteMeansAll
    AnswersInOrder
PROPERTIES
    AwaitEnds
    ImportsSettle
