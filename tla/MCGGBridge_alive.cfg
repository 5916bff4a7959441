CONSTANTS
    Addr = {a1, a2, a3}
    Names = {"print"}
    Methods = {"call"}
    Proxies = {"JSBridge"}
    Bridge = "JSBridge"
    BridgeFun = "call"
    Nil = Nil
    MaxRefs = 1
    MaxJava = 0
    MaxLeaks = 1
SPECIFICATION Spec
SYMMETRY Symmetry
CHECK_DEADLOCK FALSE
INVARIANT
    FunctionsStayAlive
