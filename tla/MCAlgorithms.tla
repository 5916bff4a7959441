----------------------------- MODULE MCAlgorithms -----------------------------
(***************************************************************************)
(* GGValues, BigInt, RegExp and ControlFlow on small instances.  A         *)
(* behaviour is one of one instance, and part says of which, so that their *)
(* state spaces add up.                                                    *)
(***************************************************************************)
EXTENDS Matching, TLC

CONSTANT
    Parts   \* the instances to check

VARIABLES
    part,
    js, box, age, written,
    x, out,
    problem, program, capture, stack, pc, cptr, states, ret, lastIndex, matches,
    function, stage, fd, vm

gvars == <<js, box, age, written>>
bvars == <<x, out>>
rvars == <<problem, program, capture, stack, pc, cptr, states, ret, lastIndex, matches>>
fvars == <<function, stage, fd, vm>>

-----------------------------------------------------------------------------
\* int32_t has 2 bits, jlong 4, a double 2 bits of significand, so that there are
\* doubles beyond the range of jlong and jlongs that are not doubles.
V == INSTANCE GGValues WITH W <- 2, LW <- 4, P <- 2, MaxHalf <- 20

-----------------------------------------------------------------------------
Both(S) == S \cup {-n : n \in S}
Linear == {"add", "sub", "mul", "div", "mod", "and", "or", "xor", "neg", "inc", "dec", "not",
           "cmp", "asIntN", "asUintN"}
Division == {"div", "mod"}
Every == Linear \cup {"pow", "shl", "sar", "compare", "number", "bigint", "text", "parsed"}

\* Limbs of two bits: all numbers of up to four limbs with all of up to three.
Narrow == INSTANCE BigInt WITH
    JS_LIMB_BITS <- 2, JS_BIGINT_MAX_SIZE <- 12, DBL_MANT_DIG <- 1, MaxExp <- 1,
    Xs <- -128..127, Ys <- -32..31, Radices <- {}, TextRadices <- {}, Ops <- Linear

\* Limbs of three bits, and quotients of up to four.
Long == INSTANCE BigInt WITH
    JS_LIMB_BITS <- 3, JS_BIGINT_MAX_SIZE <- 8, DBL_MANT_DIG <- 1, MaxExp <- 1,
    Xs <- Both({(k * 239) % 16384 : k \in 60..120}),
    Ys <- 8..70 \cup {100, 200, 319, 320, 321, 600, 1000, 2047}
              \cup Both({255, 256, 257, 449, 511, 512, 65, 64, 63, 40, 33, 32, 31}),
    Radices <- {}, TextRadices <- {}, Ops <- Division

\* Limbs of six bits, which have room for decimal digits, for the significand of a
\* double, and for a shift by more than the largest number of bits.
Wide == INSTANCE BigInt WITH
    JS_LIMB_BITS <- 6, JS_BIGINT_MAX_SIZE <- 4, DBL_MANT_DIG <- 3, MaxExp <- 14,
    Xs <- Both({0, 1, 2, 3, 5, 8, 15, 16, 31, 32, 33, 36, 37, 39, 47, 63, 64, 65, 74, 78, 100,
                127, 128, 148, 156, 255, 256, 296, 511, 512, 1023, 1024, 1025, 1600, 2047,
                2048, 2049, 4095, 4096, 65535, 65536, 131071}),
    Ys <- Both(0..33 \cup {63, 64, 65, 100, 1000, 1023, 1024, 2047}),
    Radices <- {2, 3, 7, 8, 10, 16, 32, 36}, TextRadices <- {2, 8, 10, 16}, Ops <- Every

-----------------------------------------------------------------------------
(***************************************************************************)
(* Regular expressions, the flags they have, and inputs.                   *)
(***************************************************************************)
a == Char("a")
b == Char("b")
One(t) == <<<<t>>>>
Star(t) == Quant(t, 0, INT32_MAX, TRUE)
Plus(t) == Quant(t, 1, INT32_MAX, TRUE)
Quants(t) ==
    {Quant(t, 0, max, greedy) : max \in {1, INT32_MAX}, greedy \in BOOLEAN}
        \cup {Quant(t, 1, INT32_MAX, greedy) : greedy \in BOOLEAN}
        \cup {Quant(t, 2, 2, TRUE), Quant(t, 0, 2, TRUE), Quant(t, 1, 2, FALSE),
              Quant(t, 2, INT32_MAX, TRUE)}

\* References to groups that there are.
RECURSIVE Refers(_), RefersTerm(_)
Refers(d) == UNION {UNION {RefersTerm(d[k][j]) : j \in DOMAIN d[k]} : k \in DOMAIN d}
RefersTerm(t) ==
    CASE t.op = "ref" -> {t.n}
      [] t.op \in {"group", "plain", "look", "modify"} -> Refers(t.d)
      [] t.op = "quant" -> RefersTerm(t.of)
      [] OTHER -> {}
Sound(S) == {d \in S : Refers(d) \subseteq 1..Groups(d)}

\* Loops over bodies that may be empty, capture, refer or look around, what comes
\* behind them, and all of that in a lookbehind.
Bodies ==
    {One(a), One(Quant(a, 0, 1, TRUE)), One(Group(One(a))), <<<<Group(One(a))>>, <<b>>>>,
     <<<<a>>, <<a, b>>>>, <<<<>>, <<a>>>>, One(Group(<<<<a>>, <<>>>>)),
     <<<<Group(One(Quant(a, 0, 1, TRUE))), Group(One(b))>>>>,
     <<<<Look(FALSE, FALSE, One(Group(One(a)))), Dot>>>>, One(Star(Group(One(a)))),
     <<<<Look(TRUE, FALSE, One(Group(One(a)))), b>>, <<a>>>>, <<<<Ref(1), a>>>>,
     <<<<Group(One(a)), Ref(1)>>>>}
Loops ==
    {<<<<loop>> \o behind>> :
        loop \in UNION {Quants(t) : t \in {a} \cup {Plain(d) : d \in Bodies}
                                            \cup {Group(d) : d \in Bodies}},
        behind \in {<<>>, <<b>>, <<LineEnd>>, <<Ref(1)>>}}
Plainly(d, input) ==
    [re |-> d, unicode |-> FALSE, ignoreCase |-> FALSE, multiline |-> FALSE, sticky |-> FALSE,
     global |-> FALSE, all |-> FALSE, lastIndex |-> 0, input |-> input]
LoopProblems ==
    {Plainly(d, <<"a", "a", "b">>) : d \in Sound(Loops)}
        \cup {Plainly(One(Look(TRUE, neg, d)), <<"a", "b", "a">>) :
                 d \in Sound(Loops), neg \in BOOLEAN}

\* Pairs of code units, assertions, and searches that go on at lastIndex.
Terms ==
    {Star(Dot), Quant(Dot, 0, INT32_MAX, FALSE), Plus(Class({"hi", "a"})), Plus(Class({"pair"})),
     Quant(Class({"hi", "lo"}), 1, 2, TRUE), Star(Group(One(Dot))),
     Quant(Plain(<<<<Dot, Dot>>>>), 1, INT32_MAX, TRUE),
     Strings({<<"a", "pair">>, <<"a">>, <<>>}), Strings({<<"a", "a">>, <<"pair", "a">>}),
     Boundary(FALSE), Star(Plain(<<<<Dot, Boundary(TRUE)>>>>)), LineStart, LineEnd,
     Look(TRUE, FALSE, One(Dot)), Look(TRUE, TRUE, One(Class({"hi"}))),
     Look(TRUE, FALSE, <<<<Group(One(Dot)), Dot>>>>),
     Look(FALSE, TRUE, <<<<Group(One(Dot)), Ref(1)>>>>)}
Searches ==
    {<<<<t>> \o behind>> :
        t \in Terms,
        behind \in {<<>>, <<Dot>>, <<Look(TRUE, FALSE, One(Ref(1))), Group(One(Plus(Dot)))>>}}
SearchProblems ==
    {p \in [re : Sound(Searches), unicode : BOOLEAN, ignoreCase : {FALSE}, multiline : BOOLEAN,
            sticky : BOOLEAN, global : BOOLEAN, all : BOOLEAN, lastIndex : {0, 1, 4},
            input : {<<"a", "hi", "lo", "hi">>, <<"hi", "lo", "hi", "lo">>, <<"a", "\n", "a">>}] :
        /\ p.all => p.global /\ p.lastIndex = 0
        /\ p.multiline => p.lastIndex = 0 /\ ~p.unicode
        /\ p.lastIndex > 0 => p.global \/ p.sticky}

\* Case, ignored by the expression or by a part of it.
Cases ==
    {<<<<t>> \o behind>> :
        t \in {a, Plus(Class({"a", "b"})), Group(One(a)), Modify(TRUE, One(Group(One(a)))),
               Modify(FALSE, One(Group(One(Plus(a)))))},
        behind \in {<<>>, <<Char("A")>>, <<Ref(1)>>, <<Modify(TRUE, One(Ref(1)))>>,
                    <<Look(TRUE, FALSE, One(a)), Dot>>}}
CaseProblems ==
    {[Plainly(d, input) EXCEPT !.ignoreCase = i] :
        d \in Sound(Cases), i \in BOOLEAN, input \in {<<"a", "A", "a">>, <<"A", "a", "b">>}}

R == INSTANCE RegExp WITH Problems <- LoopProblems \cup SearchProblems \cup CaseProblems
NoProblem == INSTANCE RegExp WITH Problems <- {Plainly(One(a), <<"a">>)}

-----------------------------------------------------------------------------
\* Jumps of all widths occur.
P == INSTANCE Programs
F == INSTANCE ControlFlow WITH
    Functions <- P!All, Int8 <- 16, Int16 <- 48, MaxSteps <- 60

-----------------------------------------------------------------------------
ASSUME AlgorithmsAssumption ==
    /\ V!WidthAssumption
    /\ Narrow!BigIntAssumption /\ Long!BigIntAssumption /\ Wide!BigIntAssumption

NoFunction == function = 0 /\ stage = "" /\ fd = <<>> /\ vm = <<>>

BigInts ==
    \/ part = "narrow" /\ Narrow!Next
    \/ part = "long" /\ Long!Next
    \/ part = "wide" /\ Wide!Next

Init ==
    /\ part \in Parts
    /\ V!Init
    /\ CASE part = "narrow" -> Narrow!Init
         [] part = "long" -> Long!Init
         [] part = "wide" -> Wide!Init
         [] OTHER -> Narrow!Init /\ x = <<0>>
    /\ IF part = "regexp" THEN R!Init ELSE NoProblem!Init
    /\ IF part = "control" THEN F!Init ELSE NoFunction

Matched == part = "regexp" /\ R!Next /\ UNCHANGED <<part, gvars, bvars, fvars>>

Next ==
    \/ part = "values" /\ V!Next /\ UNCHANGED <<part, bvars, rvars, fvars>>
    \/ BigInts /\ UNCHANGED <<part, gvars, rvars, fvars>>
    \/ Matched
    \/ part = "control" /\ F!Next /\ UNCHANGED <<part, gvars, bvars, rvars>>

vars == <<part, gvars, bvars, rvars, fvars>>

\* The interpreter of regular expressions is one loop.
Spec == Init /\ [][Next]_vars /\ WF_vars(Matched)

-----------------------------------------------------------------------------
\* The properties, under the names of the modules they are stated in.
NumbersKept == [][part = "values" => V!BoxKept' /\ V!AgeWritten]_vars
BigIntExact ==
    CASE part = "narrow" -> Narrow!BigIntExact
      [] part = "long" -> Long!BigIntExact
      [] part = "wide" -> Wide!BigIntExact
      [] OTHER -> TRUE
MatchExact ==
    /\ [](part = "regexp" => R!MatchFound)
    /\ part = "regexp" => <>R!Ended
RunsAsWritten == part = "control" => F!RunsAsWritten
StackForeseen == part = "control" => F!StackForeseen
ComparesExactly == part = "wide" => Wide!ComparesExactly
=============================================================================
