---------------------------- MODULE MCCollections ----------------------------
(***************************************************************************)
(* MapIterators, Arrays and Shapes on small instances.  A behaviour is one *)
(* of one instance, and part says of which, so that their state spaces add *)
(* up.  Parts held and shape are the instances of MapIterators and Shapes  *)
(* whose constants the configuration gives.                                *)
(***************************************************************************)
EXTENDS MapIterators, Shapes, TLC

CONSTANTS
    Parts,             \* the instances to check
    k, l, i, j,        \* keys, iterators
    o1, o2, x, y, p1, p2, s1, s2, s3   \* objects, names, prototypes, memory of shapes

VARIABLES part, array, extensible, flaw

avars == <<array, extensible, flaw>>
vars == <<part, mapvars, avars, shapevars>>

\* Four records under two iterators and a call of forEach; in part held the
\* iterators are values of the map they walk over.
Walk == INSTANCE MapIterators WITH Values <- {}, MaxRecords <- 4

\* Two holes make the slots of an array move, not eight, and an array of a few
\* elements is long enough for set_array_length to go over them.
Array == INSTANCE Arrays WITH
    Indices <- {0, 1, 6, 7}, Lengths <- {0, 2, 8}, MinDeleted <- 2, MaxSlots <- 5

ASSUME CollectionsAssumption == Array!ArraysAssumption

Init ==
    /\ part \in Parts
    /\ IF part = "held" THEN MapInit ELSE Walk!MapInit
    /\ Array!Init /\ ShapesInit

Next ==
    /\ UNCHANGED part
    /\ \/ /\ \/ part = "walk" /\ Walk!MapNext
             \/ part = "held" /\ MapNext
          /\ UNCHANGED <<avars, shapevars>>
       \/ part = "array" /\ Array!Next /\ UNCHANGED <<mapvars, shapevars>>
       \/ part = "shape" /\ ShapesNext /\ UNCHANGED <<mapvars, avars>>

MCSpec == Init /\ [][Next]_vars

Symmetric == Permutations({k, l}) \cup Permutations({i, j}) \cup Permutations({o1, o2})

-----------------------------------------------------------------------------
\* Walks, arrays and objects implement the specifications of what they promise,
\* and their states have the types the modules state.
TypesOK == (MapTypeOK \/ Walk!MapTypeOK) /\ Array!TypeOK
AsPromised == Ordered /\ Array!AsSeen /\ ObjectsApart /\ []TypesOK
NoneBeyond == Array!NoneBeyond
=============================================================================
