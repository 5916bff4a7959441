CONSTANTS
    Addr = {a1, a2}
    Names = {"print", "g"}
    Methods = {"markStart", "call"}
    Proxies = {"JSBridge", "person"}
    Bridge = "JSBridge"
    BridgeFun = "call"
    Nil = Nil
    MaxRefs = 1
    MaxJava = 1
    MaxLeaks = 1
SPECIFICATION Spec
SYMMETRY Symmetry
CHECK_DEADLOCK FALSE
INVARIANTS
    ExactUntilHit
    DanglingOnlyAfterHit
    ProxyCountsExact
    CallsReachTheirFunction
    ProxiesKeepTheirObject
    LeftOnlyIfLeaked
