------------------------------- MODULE Arrays -------------------------------
(***************************************************************************)
(* An Array object of quickjs.c: an array of values for the elements 0 to  *)
(* count - 1 as long as it is fast, and properties in the slots of a shape *)
(* otherwise, in the order in which they were added.  A property that is   *)
(* deleted leaves a hole; when there are many, the slots move together.    *)
(* Slot 0 is length and is not counted here.                               *)
(*                                                                         *)
(* Elements have no value, and are enumerable and writable: what the code  *)
(* decides upon is which are there and which may be deleted.               *)
(***************************************************************************)
EXTENDS Integers, Sequences, SequencesExt, FiniteSets

CONSTANTS
    Indices,    \* of the elements
    Lengths,    \* that a script sets
    MinDeleted, \* the holes that make the slots move, 8 in the code
    MaxSlots    \* bound

ArraysAssumption ==
    /\ Indices \subseteq Nat /\ Lengths \subseteq Nat
    /\ MinDeleted \in Nat \ {0} /\ MaxSlots \in Nat

VARIABLES
    array,      \* the object
    extensible,
    flaw        \* which of two paths was taken, after which the model stops

vars == <<array, extensible, flaw>>

Absent == -1
Hole == [index |-> Absent, configurable |-> FALSE]
Slot == [index : Indices \cup {Absent}, configurable : BOOLEAN]

\* writable: the flag of length.
Array == [length : Nat, writable : BOOLEAN, fast : BOOLEAN, count : Nat, slots : Seq(Slot)]

TypeOK ==
    /\ array \in Array /\ extensible \in BOOLEAN
    /\ flaw \in {"none", "kept", "grown"}
    /\ array.count > 0 => array.fast

Init ==
    /\ array = [length |-> 0, writable |-> TRUE, fast |-> TRUE, count |-> 0, slots |-> <<>>]
    /\ extensible = TRUE
    /\ flaw = "none"

Holes(a) == Cardinality({k \in DOMAIN a.slots : a.slots[k] = Hole})

\* find_own_property
At(a, i) == {k \in DOMAIN a.slots : a.slots[k].index = i}
Has(a, i) == At(a, i) # {} \/ (a.fast /\ i < a.count)
FixedAt(a, i) == \E k \in At(a, i) : ~a.slots[k].configurable

\* convert_fast_array_to_array
Slow(a) ==
    [a EXCEPT !.fast = FALSE, !.count = 0,
              !.slots = @ \o [k \in 1..a.count |-> [index |-> k - 1, configurable |-> TRUE]]]

-----------------------------------------------------------------------------
(***************************************************************************)
(* Deleting                                                                *)
(***************************************************************************)

\* compact_properties
Compact(a) == [a EXCEPT !.slots = SelectSeq(@, LAMBDA s : s # Hole)]

Emptied(a, k) ==
    LET b == [a EXCEPT !.slots[k] = Hole]
    IN IF Holes(b) >= MinDeleted /\ Holes(b) >= (Len(b.slots) + 1) \div 2 THEN Compact(b) ELSE b

\* delete_property
Deleted(a, i) ==
    IF FixedAt(a, i) \/ ~Has(a, i) THEN a
    ELSE IF a.fast /\ i = a.count - 1 THEN [a EXCEPT !.count = i]
    ELSE LET b == IF a.fast THEN Slow(a) ELSE a
         IN Emptied(b, CHOOSE k \in At(b, i) : TRUE)

\* The first loop of set_array_length, from the last element down.
RECURSIVE Shortened(_, _, _)
Shortened(a, cur, len) ==
    IF cur = len \/ FixedAt(a, cur - 1) THEN [a EXCEPT !.length = cur]
    ELSE Shortened(Deleted(a, cur - 1), cur - 1, len)

\* Its second, over the slots: those that deleted elements have moved to where
\* the loop has been are passed by.
RECURSIVE Swept(_, _, _)
Swept(a, k, len) ==
    IF k > Len(a.slots) THEN [a EXCEPT !.length = len]
    ELSE Swept(IF a.slots[k].index >= len THEN Deleted(a, a.slots[k].index) ELSE a, k + 1, len)

\* The length up to the last element from len on that must stay.
KeptLength(a, len) ==
    LET ends == {len} \cup {a.slots[k].index + 1 :
                               k \in {l \in DOMAIN a.slots : ~a.slots[l].configurable}}
    IN CHOOSE e \in ends : \A f \in ends : f <= e

\* set_array_length of a writable length
WithLength(a, len) ==
    IF a.fast THEN [a EXCEPT !.length = len, !.count = IF len < @ THEN len ELSE @]
    ELSE IF len >= a.length THEN [a EXCEPT !.length = len]
    ELSE IF a.length - len <= Len(a.slots) + 1 THEN Shortened(a, a.length, len)
    ELSE Swept(a, 1, KeptLength(a, len))

Running == flaw = "none"

Flawed(f) == flaw' = f

\* Slots have moved under the loop, and it has passed by elements.
Kept(a) ==
    /\ Len(a.slots) < Len(array.slots)
    /\ \E k \in DOMAIN a.slots : a.slots[k].index >= a.length

SetsLength(n) ==
    /\ array' = WithLength(array, n)
    /\ Flawed(IF Kept(array') THEN "kept" ELSE "none")

-----------------------------------------------------------------------------
(***************************************************************************)
(* The operations of scripts                                               *)
(***************************************************************************)

\* add_fast_array_element
AddFast(a) ==
    IF a.count < a.length THEN [a EXCEPT !.count = @ + 1]
    ELSE IF a.writable THEN [a EXCEPT !.count = @ + 1, !.length = a.count + 1]
    ELSE a

\* Room for an element in the slots.
Room(a) == Len(a.slots) + a.count < MaxSlots

\* Mutant of CreateGeneric: length is not looked at.
CreateGenericFree(a, i, c) ==
    LET grows == i + 1 > a.length
        b == IF grows THEN [a EXCEPT !.length = i + 1] ELSE a
    IN /\ array' = IF extensible
                   THEN [b EXCEPT !.slots = Append(@, [index |-> i, configurable |-> c])] ELSE b
       /\ Flawed(IF grows /\ ~extensible THEN "grown" ELSE "none")

\* JS_CreateProperty from generic_array on: the length grows before it is known
\* that the element can be added.
CreateGeneric(a, i, c) ==
    LET grows == i + 1 > a.length
        b == IF grows THEN [a EXCEPT !.length = i + 1] ELSE a
    IN IF grows /\ ~a.writable THEN array' = a /\ UNCHANGED flaw
       ELSE /\ array' = IF extensible
                        THEN [b EXCEPT !.slots = Append(@, [index |-> i, configurable |-> c])]
                        ELSE b
            /\ Flawed(IF grows /\ ~extensible THEN "grown" ELSE "none")

\* JS_CreateProperty of an element that is not there
CreateProperty(i, c) ==
    IF ~array.fast THEN CreateGeneric(array, i, c)
    ELSE IF i = array.count /\ ~extensible THEN UNCHANGED <<array, flaw>>
    ELSE IF i = array.count /\ c THEN array' = AddFast(array) /\ UNCHANGED flaw
    ELSE CreateGeneric(Slow(array), i, c)

\* JS_SetPropertyInternal of an element that is not there; one that is there
\* gets a value.
SetElement(i) ==
    /\ Running /\ Room(array) /\ ~Has(array, i) /\ extensible
    /\ CreateProperty(i, TRUE)
    /\ UNCHANGED extensible

\* JS_DefineProperty with the flag configurable.
DefineElement(i, c) ==
    LET a == IF array.fast /\ ~c THEN Slow(array) ELSE array IN
    /\ Running /\ Room(array)
    /\ IF ~Has(array, i) THEN CreateProperty(i, c)
       ELSE /\ ~(FixedAt(array, i) /\ c)
            /\ array' = [a EXCEPT !.slots = [k \in DOMAIN @ |->
                            IF @[k].index = i THEN [@[k] EXCEPT !.configurable = c] ELSE @[k]]]
            /\ UNCHANGED flaw
    /\ UNCHANGED extensible

DeleteElement(i) ==
    /\ Running /\ Has(array, i)
    /\ array' = Deleted(array, i)
    /\ UNCHANGED <<extensible, flaw>>

SetLength(n) ==
    /\ Running /\ array.writable
    /\ SetsLength(n)
    /\ UNCHANGED extensible

\* JS_DefineProperty of length with writable: false, with the value n; the flag
\* is set also where elements that must stay have made it fail.
FixLength(n) ==
    LET a == WithLength(array, n) IN
    /\ Running /\ array.writable
    /\ array' = [a EXCEPT !.writable = FALSE]
    /\ Flawed(IF Kept(a) THEN "kept" ELSE "none")
    /\ UNCHANGED extensible

PreventExtensions ==
    /\ Running /\ extensible
    /\ extensible' = FALSE
    /\ UNCHANGED <<array, flaw>>

\* js_array_pop: delete the last element, then set length, which may throw.
Pop ==
    LET a == IF array.fast /\ array.count = array.length THEN [array EXCEPT !.count = @ - 1]
             ELSE Deleted(array, array.length - 1)
    IN /\ Running /\ array.length > 0 /\ ~FixedAt(array, array.length - 1)
       /\ array' = IF a.writable THEN WithLength(a, array.length - 1) ELSE a
       /\ UNCHANGED <<extensible, flaw>>

Next ==
    \/ \E i \in Indices : SetElement(i) \/ DeleteElement(i) \/ \E c \in BOOLEAN : DefineElement(i, c)
    \/ \E n \in Lengths : SetLength(n) \/ FixLength(n)
    \/ FixLength(array.length)
    \/ PreventExtensions \/ Pop

Spec == Init /\ [][Next]_vars

-----------------------------------------------------------------------------
\* Scripts see the elements and lengths of ArrayObject, whether the array is
\* fast or not and wherever its slots are, up to the step that keeps elements
\* beyond the length or changes the length of an array that is not extensible.
Elements ==
    LET there == {i \in Indices : Has(array, i)} IN [i \in there |-> ~FixedAt(array, i)]

Seen ==
    INSTANCE ArrayObject WITH length <- array.length, elements <- Elements,
                              writable <- array.writable
AsSeen == [][flaw' # "none" \/ Seen!Next]_<<array.length, Elements, array.writable, extensible>>

\* Refuted: no element is beyond the length (doc/quickjs.texi:255, "The ES2023
\* specification is almost fully supported").
NoneBeyond == \A i \in DOMAIN Elements : i < array.length
=============================================================================
