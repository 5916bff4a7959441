CONSTANTS
    Parts = {"wide"}
SPECIFICATION Spec
CHECK_DEADLOCK FALSE
INVARIANTS
    ComparesExactly
