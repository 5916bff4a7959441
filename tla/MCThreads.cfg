CONSTANTS
    Threads = {t1, t2, t3}
    Main = {}
    Free = none
    Words = {1}
    Values = {0, 1}
    Counts = {3}
    MaxCalls = 4
    Timeouts = TRUE
    Spurious = FALSE
    w1 = w1
    w2 = w2
    block = block
    Agents = {a, b, c}
    Tester = main
    x = x
    y = y
    fd = fd
    int = int
    hup = hup
    job = job
    Parts = {"all", "some", "one", "two", "agents", "loop", "signals"}
SPECIFICATION MCSpec
CHECK_DEADLOCK FALSE
SYMMETRY
    Symmetric
INVARIANTS
    WaitersListed
    PipesExact
    BroadcastTaken
PROPERTIES
    EventsWhenQuiet
