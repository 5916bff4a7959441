------------------------------- MODULE Programs -------------------------------
(***************************************************************************)
(* The functions that ControlFlow is checked with.  Each iteration of a    *)
(* loop has an event.                                                      *)
(***************************************************************************)
EXTENDS Statements

Fn(st) == [body |-> <<st, Do(Ev("end"))>>, generator |-> FALSE, fuel |-> 5]
Generator(st) == [Fn(st) EXCEPT !.generator = TRUE]

E(name) == Do(Ev(name))
C(name) == Do(Closure(name))
Braces(st) == Block(FALSE, <<st>>)
Scoped(st) == Block(TRUE, <<C("c"), st>>)   \* a closure over its variable
Maybe(st) == If(Ev("x"), st, None)
Each(F(_), S) == UNION {F(st) : st \in S}

-----------------------------------------------------------------------------
(***************************************************************************)
(* Jumps out of up to three nested statements.                             *)
(***************************************************************************)
Leaps == {Break(""), Continue(""), Break("o"), Continue("o"), Return(Ev("r")), Return(None)}
Tries(st) ==
    {Try(Braces(st), None, Braces(E("f"))), Try(Braces(st), Braces(E("h")), None),
     Try(Braces(E("b")), Braces(st), None), Try(Braces(E("b")), Braces(st), Braces(E("f"))),
     Try(Braces(E("b")), None, Braces(st)), Try(Braces(st), Braces(E("h")), Braces(E("f")))}
Wraps(st) ==
    Tries(st) \cup
    {Braces(st), Labelled("o", st), If(Or(<<Ev("x"), Ev("z")>>), st, E("else")),
     ForOf("", FALSE, Ev("p"), Ev("of"), st), ForIn("i", FALSE, None, Ev("in"), st),
     Switch(Ev("s"), <<Clause(Ev("1"), <<st>>), Clause(None, <<E("d")>>)>>),
     Switch(Ev("s"), <<Clause(None, <<E("d")>>), Clause(Ev("1"), <<>>), Clause(Ev("2"), <<st>>)>>)}
Loop(st) ==
    {While("o", Ev("t"), st), DoWhile("o", st, Ev("t")), For("o", FALSE, None, None, Ev("u"), st),
     For("o", FALSE, Ev("i"), Ev("t"), Ev("u"), st), For("o", FALSE, None, Ev("t"), None, st),
     ForOf("o", FALSE, None, Ev("of"), st), ForIn("o", FALSE, Ev("p"), Ev("in"), st)}

Nested ==
    LET leaps == {Maybe(leap) : leap \in Leaps}
    IN Each(Loop, Each(Wraps, leaps)) \cup Each(Wraps, Each(Tries, leaps))
         \cup Each(Loop, Each(Tries, Each(Tries, {Maybe(Continue("o")), Maybe(Return(Ev("r")))})))

-----------------------------------------------------------------------------
(***************************************************************************)
(* Loops whose variables are captured.                                     *)
(***************************************************************************)
Fresh(st) ==
    {ForOf("o", TRUE, None, Ev("of"), Scoped(st)), ForIn("o", TRUE, None, Ev("in"), Scoped(st)),
     ForOf("o", TRUE, None, Closure("of"), Braces(st)), While("o", Ev("t"), Scoped(st)),
     DoWhile("o", Scoped(st), Ev("t")), For("o", FALSE, None, Ev("t"), Ev("u"), Scoped(st))}
Copied(st) ==
    {For("o", TRUE, Ev("i"), Ev("t"), Closure("u"), Block(FALSE, <<C("v"), st>>)),
     For("o", TRUE, Closure("i"), Closure("t"), Ev("u"), Block(FALSE, <<C("v"), st>>)),
     For("o", TRUE, Ev("i"), Closure("t"), None, Scoped(st))}
Scopes(st) ==
    {st, Scoped(st), Switch(Ev("s"), <<Clause(Ev("1"), <<Scoped(st)>>), Clause(None, <<E("d")>>)>>)}
Captured ==
    Each(Fresh, Each(Scopes, {Maybe(leap) : leap \in Leaps}))
        \cup Each(Copied, Each(Scopes, {Maybe(leap) : leap \in Leaps \ {Continue(""), Continue("o")}}))
        \cup Each(Fresh, {ForOf("", TRUE, None, Ev("of"), Block(FALSE, <<C("w"), Maybe(leap)>>)) :
                             leap \in {Break("o"), Continue("o"), Continue("")}})

-----------------------------------------------------------------------------
(***************************************************************************)
(* Generators: whatever waits, next, throw and return may be called.       *)
(***************************************************************************)
Y == Yield("y")
Waiting(st) ==
    {While("o", Y, st), ForOf("o", FALSE, None, Ev("of"), st), ForIn("o", FALSE, Y, Y, st),
     Try(Braces(st), None, Braces(E("f"))), Try(Braces(st), None, Braces(Do(Y))),
     Try(Braces(Do(Y)), Braces(st), Braces(E("f"))), Try(Braces(st), Braces(E("h")), None),
     Switch(Y, <<Clause(Y, <<st>>), Clause(None, <<E("d")>>)>>),
     If(And(<<Y, Ev("x")>>), st, Return(Y))}
Yields ==
    Each(Waiting, Each(Waiting, {Do(Y), If(Y, Break(""), None), If(Ev("x"), Continue(""), Return(Y)), Throw(Y)}))

-----------------------------------------------------------------------------
(***************************************************************************)
(* Tests, and constants among them.                                        *)
(***************************************************************************)
Atoms == {Ev("x"), Const(TRUE), Const(FALSE)}
Tests ==
    LET pairs == {And(<<l, r>>) : l, r \in Atoms} \cup {Or(<<l, r>>) : l, r \in Atoms}
                     \cup {Not(l) : l \in Atoms}
        simple == Atoms \cup pairs
    IN simple \cup {Not(l) : l \in pairs}
         \cup {And(<<l, Ev("z")>>) : l \in simple} \cup {Or(<<Ev("z"), l>>) : l \in simple}
         \cup {Or(<<l, r, Ev("z")>>) : l \in Atoms, r \in simple}
         \cup {Cond(l, r, Ev("z")) : l \in simple, r \in Atoms}
         \cup {Cond(Ev("w"), l, r) : l \in Atoms, r \in simple}
Deciding ==
    UNION {{If(e, E("1"), E("2")), If(e, Braces(Return(None)), E("2")), Return(e),
            While("", e, Block(FALSE, <<E("1"), Maybe(Break(""))>>)), DoWhile("", E("1"), e),
            For("", FALSE, None, e, Ev("u"), Maybe(Continue("")))} : e \in Tests}

-----------------------------------------------------------------------------
(***************************************************************************)
(* Up to three clauses in every order, and jumps to jumps.                 *)
(***************************************************************************)
Clauses ==
    {Clause(Ev("1"), <<>>), Clause(Ev("2"), <<E("2")>>), Clause(Ev("3"), <<E("3"), Break("")>>),
     Clause(Const(TRUE), <<Maybe(Break(""))>>), Clause(Ev("4"), <<Return(Ev("4"))>>),
     Clause(None, <<>>), Clause(None, <<E("d")>>), Clause(None, <<Break("")>>)}
Switches ==
    {Switch(Ev("s"), list) : list \in
        {l \in UNION {[1..n -> Clauses] : n \in 0..3} :
            Cardinality({k \in DOMAIN l : l[k].test = None}) <= 1}}

RECURSIVE Ifs(_), Labels(_)
Ifs(n) == IF n = 0 THEN E("in") ELSE If(Ev("x"), Ifs(n - 1), E("e"))
Labels(n) ==
    IF n = 0 THEN Maybe(Return(None))
    ELSE Labelled(ToString(n), Block(FALSE, <<Labels(n - 1), Break(ToString(n))>>))
Chains == {Ifs(n) : n \in {3, 9, 10, 11, 12}} \cup {Labels(n) : n \in {3, 9, 10, 11, 12}}

-----------------------------------------------------------------------------
Leaving == {Fn(st) : st \in Nested}
\* Two iterations with captured variables have nine events.
Capturing == {[Fn(st) EXCEPT !.fuel = 9] : st \in Captured}
Yielding == {Generator(st) : st \in Yields}
Tested == {Fn(st) : st \in Deciding}
Switched == {Fn(st) : st \in Switches \cup Chains}
All == Leaving \cup Capturing \cup Yielding \cup Tested \cup Switched
=============================================================================
