--------------------------- MODULE OwnProperties ---------------------------
(***************************************************************************)
(* Objects as scripts see them: each has a prototype and properties of its *)
(* own, in the order in which they were added, and what is done to one of  *)
(* them changes that one.  Shapes is shown to implement this specification.*)
(***************************************************************************)
EXTENDS Sequences, SequencesExt

CONSTANTS Objects, Atoms, Protos

\* Of each object there is: proto and props, a sequence of [atom, flags, value].
VARIABLE own

Init == own = [o \in {} |-> <<>>]

Live(o) == o \in DOMAIN own
IsAt(o, atom, k) == k \in DOMAIN own[o].props /\ own[o].props[k].atom = atom

New(o, proto) ==
    /\ ~Live(o)
    /\ own' = [q \in DOMAIN own \cup {o} |->
                  IF q = o THEN [proto |-> proto, props |-> <<>>] ELSE own[q]]

Free(o) ==
    /\ Live(o)
    /\ own' = [q \in DOMAIN own \ {o} |-> own[q]]

SetPrototype(o, proto) ==
    /\ Live(o)
    /\ own' = [own EXCEPT ![o].proto = proto]

\* No object has two properties of one name.
Add(o, atom, flags) ==
    /\ Live(o) /\ \A k \in DOMAIN own[o].props : ~IsAt(o, atom, k)
    /\ own' = [own EXCEPT ![o].props =
                  Append(@, [atom |-> atom, flags |-> flags, value |-> atom])]

Delete(o, atom) ==
    /\ Live(o)
    /\ \E k \in DOMAIN own[o].props :
          IsAt(o, atom, k) /\ own' = [own EXCEPT ![o].props = RemoveAt(@, k)]

SetFlags(o, atom, flags) ==
    /\ Live(o)
    /\ \E k \in DOMAIN own[o].props :
          IsAt(o, atom, k) /\ own' = [own EXCEPT ![o].props[k].flags = flags]

Next ==
    \E o \in Objects :
        \/ Free(o)
        \/ \E proto \in Protos : New(o, proto) \/ SetPrototype(o, proto)
        \/ \E atom \in Atoms : Delete(o, atom)
        \/ \E atom \in Atoms, flags \in BOOLEAN : Add(o, atom, flags) \/ SetFlags(o, atom, flags)

Spec == Init /\ [][Next]_own
=============================================================================
