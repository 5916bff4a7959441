----------------------------- MODULE ObjectGraph -----------------------------
(***************************************************************************)
(* What QuickJS promises about memory, without saying how: JS values are   *)
(* the edges of a graph of objects, the program adds and removes edges,    *)
(* and the engine may take back an object only when it lies in a set of    *)
(* objects that no edge enters from outside.  Reference counts, the cycle  *)
(* collector and weak references are the mechanism of JSHeap, which is     *)
(* shown to implement this specification.                                  *)
(***************************************************************************)
CONSTANTS
    Addr,    \* addresses of heap cells
    Ref,     \* places that can hold a counted JS value (locals, properties)
    Stack,   \* owner of the values held by C code or by a JS stack frame
    Unused,  \* owner of a place that holds no value
    Nil      \* no address

VARIABLES
    live,    \* the objects a program may still use
    owner,   \* owner[r]: who holds the value in place r
    target   \* target[r]: the object the value in place r denotes

vars == <<live, owner, target>>

Init ==
    /\ live = {}
    /\ owner = [r \in Ref |-> Unused]
    /\ target = [r \in Ref |-> Nil]

\* Places owned by the members of S, when S is a set of objects.
Owned(S) == {r \in Ref : owner[r] \in S}

\* No value outside U denotes a member of U.
Closed(U) == \A r \in Ref : target[r] \in U => owner[r] \in U

\* The values held in R are dropped.
Drop(R) ==
    /\ owner' = [r \in Ref |-> IF r \in R THEN Unused ELSE owner[r]]
    /\ target' = [r \in Ref |-> IF r \in R THEN Nil ELSE target[r]]

\* A fresh object, known only through place r of some live owner.
Create(a, r, o) ==
    /\ a \notin live
    /\ owner[r] = Unused
    /\ \A s \in Ref : target[s] # a
    /\ live' = live \cup {a}
    /\ owner' = [owner EXCEPT ![r] = o]
    /\ target' = [target EXCEPT ![r] = a]

\* A live object becomes known through one more place.
Link(c, r, o) ==
    /\ c \in live
    /\ owner[r] = Unused
    /\ owner' = [owner EXCEPT ![r] = o]
    /\ target' = [target EXCEPT ![r] = c]
    /\ UNCHANGED live

\* A value moves to another owner; R are the values it overwrites.
Move(s, o, R) ==
    /\ owner[s] = Stack
    /\ s \notin R
    /\ owner' = [r \in Ref |-> IF r = s THEN o
                               ELSE IF r \in R THEN Unused ELSE owner[r]]
    /\ target' = [r \in Ref |-> IF r \in R THEN Nil ELSE target[r]]
    /\ UNCHANGED live

\* Values are dropped: a local goes out of scope, a property is deleted.
Forget(R) ==
    /\ Drop(R)
    /\ UNCHANGED live

\* The engine takes back the members of S, and the values they own.
Reclaim(S) ==
    /\ \E U \in SUBSET live : S \subseteq U /\ Closed(U)
    /\ live' = live \ S
    /\ Drop(Owned(S))

Next ==
    \/ \E a \in Addr, r \in Ref, o \in live \cup {Stack} : Create(a, r, o)
    \/ \E c \in Addr, r \in Ref, o \in live \cup {Stack} : Link(c, r, o)
    \/ \E s \in Ref, o \in live \cup {Stack} :
           \E R \in SUBSET (Ref \ {s}) : Move(s, o, R)
    \/ \E R \in SUBSET Ref : Forget(R)
    \/ \E S \in SUBSET live : S # {} /\ Reclaim(S)

Spec == Init /\ [][Next]_vars

=============================================================================
