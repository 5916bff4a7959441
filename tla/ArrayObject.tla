---------------------------- MODULE ArrayObject ----------------------------
(***************************************************************************)
(* An array as scripts see it: elements below a length, some of which can  *)
(* not be deleted.  Arrays is shown to implement this specification until  *)
(* one of two of its paths is taken.                                       *)
(***************************************************************************)
EXTENDS Integers

CONSTANTS Indices, Lengths

VARIABLES
    length,
    elements,   \* configurable or not, of each index that is there
    writable,   \* of length
    extensible

vars == <<length, elements, writable, extensible>>

Init ==
    /\ length = 0
    /\ elements = [i \in {} |-> TRUE]
    /\ writable = TRUE /\ extensible = TRUE

There == DOMAIN elements
With(i, c) == [e \in There \cup {i} |-> IF e = i THEN c ELSE elements[e]]
Without(S) == [e \in There \ S |-> elements[e]]
Fixed(n) == {e \in There : e >= n /\ ~elements[e]}

Grow(n) == length' = IF n > length THEN n ELSE length

\* An element is written or defined; one that is not configurable stays so.
Add(i, c) ==
    /\ i \notin There /\ extensible /\ (i < length \/ writable)
    /\ elements' = With(i, c) /\ Grow(i + 1)
    /\ UNCHANGED <<writable, extensible>>

Change(i, c) ==
    /\ i \in There /\ (elements[i] \/ ~c)
    /\ elements' = With(i, c)
    /\ UNCHANGED <<length, writable, extensible>>

Delete(i) ==
    /\ i \in There /\ elements[i]
    /\ elements' = Without({i})
    /\ UNCHANGED <<length, writable, extensible>>

\* The elements from n on are deleted, from the last one to the first that
\* cannot be deleted.
Cut(n) ==
    LET last == IF Fixed(n) = {} THEN n ELSE 1 + CHOOSE e \in Fixed(n) : \A f \in Fixed(n) : f <= e
    IN /\ length' = last
       /\ elements' = Without({e \in There : e >= last})

SetLength(n) ==
    /\ writable
    /\ Cut(n)
    /\ UNCHANGED <<writable, extensible>>

\* defineProperty of length, with a value or without.
FixLength(n) ==
    /\ writable /\ writable' = FALSE
    /\ Cut(n)
    /\ UNCHANGED extensible

PreventExtensions ==
    /\ extensible' = FALSE
    /\ UNCHANGED <<length, elements, writable>>

\* pop: an element that can be deleted goes even where length is fixed.
Pop ==
    /\ length > 0 /\ (length - 1 \in There => elements[length - 1])
    /\ elements' = Without({length - 1})
    /\ length' = IF writable THEN length - 1 ELSE length
    /\ UNCHANGED <<writable, extensible>>

Next ==
    \/ \E i \in Indices, c \in BOOLEAN : Add(i, c) \/ Change(i, c)
    \/ \E i \in Indices : Delete(i)
    \/ \E n \in Lengths \cup {length} : SetLength(n) \/ FixLength(n)
    \/ PreventExtensions \/ Pop
=============================================================================
