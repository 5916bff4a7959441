CONSTANTS
    Parts = {"values", "narrow", "long", "wide", "regexp", "control"}
SPECIFICATION Spec
CHECK_DEADLOCK FALSE
INVARIANTS
    BigIntExact
    RunsAsWritten
    StackForeseen
PROPERTIES
    NumbersKept
    MatchExact
