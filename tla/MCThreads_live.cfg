CONSTANTS
    Threads = {t1, t2, t3}
    Main = {}
    Free = none
    Words = {1}
    Values = {0, 1}
    Counts = {3}
    MaxCalls = 3
    Timeouts = TRUE
    Spurious = FALSE
    w1 = w1
    w2 = w2
    block = block
    Agents = {a, b, c}
    Tester = main
    x = x
    y = y
    fd = fd
    int = int
    hup = hup
    job = job
    Parts = {"all", "lone", "timers"}
SPECIFICATION MCSpec
CHECK_DEADLOCK FALSE
PROPERTIES
    StoreWakes
    Delivered
    TimersFire
