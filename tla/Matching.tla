------------------------------- MODULE Matching -------------------------------
(***************************************************************************)
(* What regular expressions match, as ECMAScript defines it: the ordered   *)
(* list of the ways in which a term matches at a position.  The first one  *)
(* counts.  Nothing of QuickJS is in here but one rule about captures (see *)
(* Repeat); RegExp checks its byte code against these definitions.         *)
(*                                                                         *)
(* A regular expression is a disjunction, a sequence of alternatives; an   *)
(* alternative is a sequence of terms; a term is a record.                 *)
(***************************************************************************)
EXTENDS Integers, Sequences, SequencesExt

Char(c) == [op |-> "char", c |-> c]
Dot == [op |-> "dot"]
Class(S) == [op |-> "strings", in |-> {<<c>> : c \in S}]  \* [...]
Strings(S) == [op |-> "strings", in |-> S]                \* [\q{...}]
LineStart == [op |-> "line_start"]
LineEnd == [op |-> "line_end"]
Boundary(neg) == [op |-> "boundary", neg |-> neg]         \* \b, \B
Group(d) == [op |-> "group", d |-> d]                     \* (...)
Plain(d) == [op |-> "plain", d |-> d]                     \* (?:...)
Modify(i, d) == [op |-> "modify", i |-> i, d |-> d]       \* (?i:...), (?-i:...)
Look(back, neg, d) == [op |-> "look", back |-> back, neg |-> neg, d |-> d]
Ref(n) == [op |-> "ref", n |-> n]                         \* \n
Quant(t, min, max, greedy) ==
    [op |-> "quant", of |-> t, min |-> min, max |-> max, greedy |-> greedy]

INT32_MAX == 1000   \* as in the code, the maximum of a quantifier without one

-----------------------------------------------------------------------------
\* Characters: letters, a line terminator, and UTF-16 code units, of which two
\* make one character if the expression has the flag u or v.
Canonicalize(c) == IF c = "a" THEN "A" ELSE c
IsWord(c) == c \in {"a", "A", "b"}
IsTerminator(c) == c = "\n"

\* The characters of an input, with the code units before and after each.
RECURSIVE PointsFrom(_, _, _)
PointsFrom(input, unicode, k) ==
    IF k > Len(input) THEN <<>>
    ELSE IF unicode /\ input[k] = "hi" /\ k < Len(input) /\ input[k + 1] = "lo"
    THEN <<[c |-> "pair", from |-> k - 1, to |-> k + 1]>> \o PointsFrom(input, unicode, k + 2)
    ELSE <<[c |-> input[k], from |-> k - 1, to |-> k]>> \o PointsFrom(input, unicode, k + 1)

\* The groups of a disjunction, an alternative, and a term.
RECURSIVE Groups(_), GroupsOfTerms(_), GroupsOfTerm(_)
Groups(d) == IF d = <<>> THEN 0 ELSE GroupsOfTerms(Head(d)) + Groups(Tail(d))
GroupsOfTerms(a) == IF a = <<>> THEN 0 ELSE GroupsOfTerm(Head(a)) + GroupsOfTerms(Tail(a))
GroupsOfTerm(t) ==
    CASE t.op = "group" -> 1 + Groups(t.d)
      [] t.op \in {"plain", "modify", "look"} -> Groups(t.d)
      [] t.op = "quant" -> GroupsOfTerm(t.of)
      [] OTHER -> 0

-----------------------------------------------------------------------------
(***************************************************************************)
(* A way to match is [at, caps]: the characters before the position it     *)
(* leads to, and for each group the characters before and after what it    *)
(* has captured, <<>> if nothing.  e has the characters, the flags i and m *)
(* and the direction; g is the number of groups to the left of a term.     *)
(***************************************************************************)
Undefined == <<>>

Same(c, d, e) == IF e.i THEN Canonicalize(c) = Canonicalize(d) ELSE c = d

\* The character next to a position in the direction of e, if there is one that
\* satisfies Test, is passed.
Pass(Test(_), x, e) ==
    LET k == IF e.back THEN x.at ELSE x.at + 1
    IN IF k \in 1..Len(e.points) /\ Test(e.points[k].c)
       THEN <<[x EXCEPT !.at = IF e.back THEN x.at - 1 ELSE x.at + 1]>>
       ELSE <<>>

Holds(t, at, e) ==
    LET before == at > 0
        after == at < Len(e.points)
        word(k) == IsWord(e.points[k].c)
    IN CASE t.op = "line_start" -> before => (e.m /\ IsTerminator(e.points[at].c))
         [] t.op = "line_end" -> after => (e.m /\ IsTerminator(e.points[at + 1].c))
         [] t.op = "boundary" ->
               t.neg # ((before /\ word(at)) # (after /\ word(at + 1)))

\* The captured characters next to a position.
PassAgain(cap, x, e) ==
    LET n == cap[2] - cap[1]
        start == IF e.back THEN x.at - n ELSE x.at
    IN IF /\ start >= 0 /\ start + n <= Len(e.points)
          /\ \A k \in 1..n : Same(e.points[start + k].c, e.points[cap[1] + k].c, e)
       THEN <<[x EXCEPT !.at = IF e.back THEN x.at - n ELSE x.at + n]>>
       ELSE <<>>

Clear(x, groups) ==
    [x EXCEPT !.caps = [k \in DOMAIN @ |-> IF k \in groups THEN Undefined ELSE @[k]]]

\* Strings, the longest first, as an expression.
AsDisjunction(S) ==
    LET longest == SetToSortSeq(S, LAMBDA u, v : Len(u) > Len(v))
    IN [k \in DOMAIN longest |-> [j \in DOMAIN longest[k] |-> Char(longest[k][j])]]

RECURSIVE Ways(_, _, _, _), WaysOfAlternative(_, _, _, _), WaysOfDisjunction(_, _, _, _),
          Repeat(_, _, _, _, _, _)

Ways(t, x, g, e) ==
    CASE t.op = "char" -> Pass(LAMBDA c : Same(c, t.c, e), x, e)
      [] t.op = "dot" -> Pass(LAMBDA c : ~IsTerminator(c), x, e)
      [] t.op = "strings" -> WaysOfDisjunction(AsDisjunction(t.in), x, g, e)
      [] t.op \in {"line_start", "line_end", "boundary"} ->
            IF Holds(t, x.at, e) THEN <<x>> ELSE <<>>
      [] t.op = "group" ->
            LET inner == WaysOfDisjunction(t.d, Clear(x, {g + 1}), g + 1, e)
            IN [k \in DOMAIN inner |->
                   [inner[k] EXCEPT !.caps[g + 1] =
                       IF e.back THEN <<inner[k].at, x.at>> ELSE <<x.at, inner[k].at>>]]
      [] t.op = "plain" -> WaysOfDisjunction(t.d, x, g, e)
      [] t.op = "modify" -> WaysOfDisjunction(t.d, x, g, [e EXCEPT !.i = t.i])
      [] t.op = "look" ->
            LET inner == WaysOfDisjunction(t.d, x, g, [e EXCEPT !.back = t.back])
            IN IF t.neg THEN IF inner = <<>> THEN <<x>> ELSE <<>>
               ELSE IF inner = <<>> THEN <<>> ELSE <<[x EXCEPT !.caps = inner[1].caps]>>
      [] t.op = "ref" ->
            IF x.caps[t.n] = Undefined THEN <<x>> ELSE PassAgain(x.caps[t.n], x, e)
      [] t.op = "quant" ->
            LET groups == g + 1 .. g + GroupsOfTerm(t.of)
            IN Repeat(t, t.min, t.max,
                      IF ~e.iterations /\ t.min = 0 THEN Clear(x, groups) ELSE x, g, e)

\* The ways of an alternative that lead on from each of xs, in their order.
WaysOfAlternative(a, xs, g, e) ==
    LET through(t, left) ==
            FlattenSeq([k \in DOMAIN xs |-> Ways(t, xs[k], g + left, e)])
    IN IF a = <<>> THEN xs
       ELSE IF e.back
       THEN WaysOfAlternative(Front(a), through(Last(a), GroupsOfTerms(Front(a))), g, e)
       ELSE WaysOfAlternative(Tail(a), through(Head(a), 0), g + GroupsOfTerm(Head(a)), e)

WaysOfDisjunction(d, x, g, e) ==
    FlattenSeq([k \in DOMAIN d |->
        WaysOfAlternative(d[k], <<x>>, g + Groups(SubSeq(d, 1, k - 1)), e)])

\* A repetition beyond the minimum that passes no character is none.  In
\* ECMAScript each iteration starts with undefined captures (e.iterations); in
\* the code, captures become undefined when a loop with the minimum 0 starts.
Repeat(t, min, max, x, g, e) ==
    LET start == IF e.iterations THEN Clear(x, g + 1 .. g + GroupsOfTerm(t.of)) ELSE x
        once == Ways(t.of, start, g, e)
        more == FlattenSeq([k \in DOMAIN once |->
                    IF min = 0 /\ once[k].at = x.at THEN <<>>
                    ELSE Repeat(t, IF min = 0 THEN 0 ELSE min - 1,
                                IF max = INT32_MAX THEN max ELSE max - 1, once[k], g, e)])
    IN IF max = 0 THEN <<x>>
       ELSE IF min > 0 THEN more
       ELSE IF t.greedy THEN more \o <<x>> ELSE <<x>> \o more

-----------------------------------------------------------------------------
\* A problem: an expression with flags, an input and the property lastIndex.  If
\* all holds, all matches are asked for, as String.prototype.match does with the
\* flag g.
Points(p) == PointsFrom(p.input, p.unicode, 1)

Unit(points, at) == IF at = 0 THEN 0 ELSE points[at].to

\* The first match that starts after from characters (there and nowhere else if
\* the expression is sticky): <<>>, or what is captured, in code units.
RECURSIVE MatchFrom(_, _, _)
MatchFrom(p, from, iterations) ==
    LET points == Points(p)
        e == [points |-> points, i |-> p.ignoreCase, m |-> p.multiline, back |-> FALSE,
              iterations |-> iterations]
        ways == WaysOfDisjunction(p.re, [at |-> from, caps |-> [k \in 1..Groups(p.re) |-> Undefined]], 0, e)
        unit(cap) == IF cap = Undefined THEN Undefined
                     ELSE <<Unit(points, cap[1]), Unit(points, cap[2])>>
    IN IF ways # <<>>
       THEN <<unit(<<from, ways[1].at>>)>> \o [k \in DOMAIN ways[1].caps |-> unit(ways[1].caps[k])]
       ELSE IF p.sticky \/ from = Len(points) THEN <<>>
       ELSE MatchFrom(p, from + 1, iterations)

\* The character that a code unit belongs to.
CharAt(p, index) ==
    LET points == Points(p)
    IN CHOOSE k \in 0..Len(points) :
          IF k = Len(points) THEN index = Len(p.input)
          ELSE points[k + 1].from <= index /\ index < points[k + 1].to

\* The matches that are asked for.  After an empty one the next is looked for
\* behind the character that follows.
RECURSIVE AllFrom(_, _, _)
AllFrom(p, from, iterations) ==
    LET match == MatchFrom(p, from, iterations)
        end == CharAt(p, match[1][2])
        next == IF match[1][1] = match[1][2] THEN end + 1 ELSE end
    IN IF match = <<>> THEN <<>>
       ELSE IF next > Len(Points(p)) THEN <<match>>
       ELSE <<match>> \o AllFrom(p, next, iterations)

Matches(p, iterations) ==
    IF p.all THEN AllFrom(p, 0, iterations)
    ELSE LET index == IF p.global \/ p.sticky THEN p.lastIndex ELSE 0
             match == MatchFrom(p, CharAt(p, index), iterations)
         IN IF index > Len(p.input) \/ match = <<>> THEN <<>> ELSE <<match>>
=============================================================================
