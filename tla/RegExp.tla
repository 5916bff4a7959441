-------------------------------- MODULE RegExp --------------------------------
(***************************************************************************)
(* Regular expressions (libregexp.c): the compiler, from a syntax tree to  *)
(* byte code, and lre_exec_backtrack, one action per opcode, with its      *)
(* stack of states to go back to; js_regexp_exec with lastIndex, and the   *)
(* loop of RegExp.prototype[Symbol.match] around it.                       *)
(*                                                                         *)
(* The code is a sequence of instructions, and offsets count instructions, *)
(* not bytes; pc is the next one.  A position is the number of code units  *)
(* before it.                                                              *)
(***************************************************************************)
EXTENDS Matching

CONSTANT
    Problems   \* see Matching: expressions, flags, inputs

VARIABLES
    problem, program,
    capture, stack, pc, cptr,   \* as in lre_exec_backtrack
    states,                     \* REExecContext.state_stack
    ret,                        \* "run"; "match", "no_match": the state stack is unwound; "done"
    lastIndex,                  \* the property of the RegExp
    matches                     \* the results so far

vars == <<problem, program, capture, stack, pc, cptr, states, ret, lastIndex, matches>>

-----------------------------------------------------------------------------
(***************************************************************************)
(* The compiler.  s has the direction and the flags i and m; n is          *)
(* capture_count where a term starts.                                      *)
(***************************************************************************)
Op(op) == <<[op |-> op]>>
Jump(op, by) == <<[op |-> op, by |-> by]>>
Split(first, by) == Jump(IF first = "next" THEN "split_next_first" ELSE "split_goto_first", by)
CharOp(c, s) == <<[op |-> "char", c |-> IF s.i THEN Canonicalize(c) ELSE c, i |-> s.i]>>
SaveOp(op, n) == <<[op |-> op, n |-> n]>>
PushOp(n) == <<[op |-> "push_i32", n |-> n]>>

Chars == {"char", "range", "dot", "any"}
Assertions == {"line_start", "line_end", "boundary"}

\* Mutant of re_need_check_advance: assumes that back references advance.
need_check_advance_ref(code) ==
    \/ \E k \in DOMAIN code :
          code[k].op \notin Chars \cup Assertions \cup
              {"push_i32", "push_char_pos", "drop", "prev", "save_start", "save_end",
               "save_reset", "back_reference"}
    \/ \A k \in DOMAIN code : code[k].op \notin Chars \cup {"back_reference"}

re_need_check_advance(code) ==
    \/ \E k \in DOMAIN code :
          code[k].op \notin Chars \cup Assertions \cup
              {"push_i32", "push_char_pos", "drop", "prev", "save_start", "save_end",
               "save_reset", "back_reference"}
    \/ \A k \in DOMAIN code : code[k].op \notin Chars

\* The number of characters, or none if the atom is not that simple.
re_is_simple_quantifier(code) ==
    IF \E k \in DOMAIN code : code[k].op \notin Chars \cup Assertions THEN 0
    ELSE Len(SelectSeq(code, LAMBDA instr : instr.op \in Chars))

\* re_emit_string_list: the longest strings first, then the characters, then the
\* empty string; each but the last behind a split that leads to the next.
re_emit_string_list(S, s) ==
    LET chars == {str[1] : str \in {u \in S : Len(u) = 1}}
        range == IF chars = {} THEN <<>>
                 ELSE <<[op |-> "range", i |-> s.i,
                         in |-> IF s.i THEN {Canonicalize(c) : c \in chars} ELSE chars]>>
        strs == SetToSortSeq({u \in S : Len(u) > 1}, LAMBDA u, v : Len(u) > Len(v))
        spelled(str) == FlattenSeq([k \in DOMAIN str |-> CharOp(str[k], s)])
        choices == [k \in DOMAIN strs |-> spelled(strs[k])]
                       \o (IF range = <<>> THEN <<>> ELSE <<range>>)
                       \o (IF <<>> \in S THEN <<<<>>>> ELSE <<>>)
        Before(choice, code) ==
            Split("next", Len(choice) + 1) \o choice \o Jump("goto", Len(code)) \o code
    IN FoldRight(Before, Front(choices), Last(choices))

\* A quantifier behind an atom, with the captures from..to in it.
Quantified(t, code, from, to) ==
    LET check == re_need_check_advance(code)
        chars == re_is_simple_quantifier(code)
        body == IF check THEN Op("push_char_pos") \o code \o Op("check_advance") ELSE code
        first == IF t.greedy THEN "next" ELSE "goto"
        endless == Split(first, Len(body) + 1) \o body \o Jump("goto", -(Len(body) + 2))
        optional == Split(first, Len(body)) \o body
        counted(max) ==
            PushOp(max) \o Split(first, Len(body) + 1) \o body
                \o Jump("loop", -(Len(body) + 2)) \o Op("drop")
        exactly(min) ==
            PushOp(min) \o code \o Jump("loop", -(Len(code) + 1)) \o Op("drop")
        reset == IF from > to THEN <<>>
                 ELSE <<[op |-> "save_reset", from |-> from, to |-> to]>>
    IN IF t.greedy /\ t.max > 0 /\ chars > 0
       THEN <<[op |-> "simple_greedy_quant", by |-> Len(code) + 1,
               min |-> t.min, max |-> t.max, chars |-> chars]>> \o code \o Op("match")
       ELSE IF t.min = 0
       THEN reset \o (CASE t.max = 0 -> <<>>
                        [] t.max = 1 -> optional
                        [] t.max = INT32_MAX -> endless
                        [] OTHER -> counted(t.max))
       ELSE IF t.min = 1 /\ t.max = INT32_MAX /\ ~check
       THEN code \o Split(IF t.greedy THEN "goto" ELSE "next", -(Len(code) + 1))
       ELSE (IF t.min = 1 THEN code ELSE exactly(t.min))
                \o (CASE t.max = INT32_MAX -> endless
                      [] t.max > t.min /\ t.max # INT32_MAX -> counted(t.max - t.min)
                      [] OTHER -> <<>>)

RECURSIVE re_parse_term(_, _, _), re_parse_alternative(_, _, _), re_parse_disjunction(_, _, _)

re_parse_term(t, s, n) ==
    LET around(code) == IF s.back THEN Op("prev") \o code \o Op("prev") ELSE code
    IN CASE t.op = "char" -> around(CharOp(t.c, s))
         [] t.op = "dot" -> around(Op("dot"))
         [] t.op = "strings" -> around(re_emit_string_list(t.in, s))
         [] t.op \in {"line_start", "line_end"} -> <<[op |-> t.op, m |-> s.m]>>
         [] t.op = "boundary" -> <<t>>
         [] t.op = "group" ->
               SaveOp(IF s.back THEN "save_end" ELSE "save_start", n)
                   \o re_parse_disjunction(t.d, s, n + 1)
                   \o SaveOp(IF s.back THEN "save_start" ELSE "save_end", n)
         [] t.op = "plain" -> re_parse_disjunction(t.d, s, n)
         [] t.op = "modify" -> re_parse_disjunction(t.d, [s EXCEPT !.i = t.i], n)
         [] t.op = "look" ->
               LET body == re_parse_disjunction(t.d, [s EXCEPT !.back = t.back], n)
               IN Jump(IF t.neg THEN "negative_lookahead" ELSE "lookahead", Len(body) + 1)
                      \o body \o Op("match")
         [] t.op = "ref" ->
               <<[op |-> "back_reference", n |-> t.n, i |-> s.i, back |-> s.back]>>
         [] t.op = "quant" ->
               Quantified(t, re_parse_term(t.of, s, n), n, n + GroupsOfTerm(t.of) - 1)

\* Terms are parsed from left to right; going backward, each comes before the
\* code of those to its left.
re_parse_alternative(a, s, n) ==
    IF a = <<>> THEN <<>>
    ELSE LET left == re_parse_alternative(Front(a), s, n)
             term == re_parse_term(Last(a), s, n + GroupsOfTerms(Front(a)))
         IN IF s.back THEN term \o left ELSE left \o term

re_parse_disjunction(d, s, n) ==
    LET last == re_parse_alternative(Last(d), s, n + Groups(Front(d)))
        before == re_parse_disjunction(Front(d), s, n)
    IN IF Len(d) = 1 THEN last
       ELSE Split("next", Len(before) + 1) \o before \o Jump("goto", Len(last)) \o last

lre_compile(p) ==
    LET s == [back |-> FALSE, i |-> p.ignoreCase, m |-> p.multiline]
    IN [code |-> (IF p.sticky THEN <<>>
                  ELSE Split("goto", 2) \o Op("any") \o Jump("goto", -3))
                 \o SaveOp("save_start", 0) \o re_parse_disjunction(p.re, s, 1)
                 \o SaveOp("save_end", 0) \o Op("match"),
        capture_count |-> 1 + Groups(p.re)]

-----------------------------------------------------------------------------
(***************************************************************************)
(* The interpreter                                                         *)
(***************************************************************************)
input == problem.input
cbuf_end == Len(input)

Pair(k) == problem.unicode /\ k \in 1..cbuf_end - 1 /\ input[k] = "hi" /\ input[k + 1] = "lo"

\* GET_CHAR, GET_PREV_CHAR: a character and the position behind or before it.
GetChar(p, end) ==
    IF Pair(p + 1) /\ p + 1 < end THEN [c |-> "pair", p |-> p + 2]
    ELSE [c |-> input[p + 1], p |-> p + 1]

GetPrevChar(p, start) ==
    IF Pair(p - 1) /\ p - 1 > start THEN [c |-> "pair", p |-> p - 2]
    ELSE [c |-> input[p], p |-> p - 1]

PrevChar(p) == GetPrevChar(p, 0).p

NoMatch == -1

Canon(c, instr) == IF instr.i THEN Canonicalize(c) ELSE c

is_word_at(p) == p < cbuf_end /\ IsWord(GetChar(p, cbuf_end).c)
is_word_before(p) == p > 0 /\ IsWord(GetPrevChar(p, 0).c)

Tested(instr, c) ==
    CASE instr.op = "char" -> instr.c = Canon(c, instr)
      [] instr.op = "range" -> Canon(c, instr) \in instr.in
      [] instr.op = "dot" -> ~IsTerminator(c)
      [] instr.op = "any" -> TRUE

\* Where an instruction that tests characters leads to.
After(instr, p) ==
    IF instr.op \in Chars
    THEN IF p < cbuf_end /\ Tested(instr, GetChar(p, cbuf_end).c)
         THEN GetChar(p, cbuf_end).p ELSE NoMatch
    ELSE IF CASE instr.op = "line_start" ->
                    p > 0 => (instr.m /\ IsTerminator(GetPrevChar(p, 0).c))
              [] instr.op = "line_end" ->
                    p < cbuf_end => (instr.m /\ IsTerminator(GetChar(p, cbuf_end).c))
              [] instr.op = "boundary" -> instr.neg # (is_word_before(p) # is_word_at(p))
         THEN p ELSE NoMatch

Positions == 0..cbuf_end

Null == -1

\* The captured characters start..end compared with those behind or before q.
Repeats(instr, start, end, q) ==
    LET one(s, e) == IF instr.back THEN GetPrevChar(e, s) ELSE GetChar(s, e)
        two(p) == IF instr.back THEN GetPrevChar(p, 0) ELSE GetChar(p, cbuf_end)
        repeats[s \in Positions, e \in Positions, p \in Positions] ==
            IF s >= e THEN p
            ELSE IF p = (IF instr.back THEN 0 ELSE cbuf_end) THEN NoMatch
            ELSE IF Canon(one(s, e).c, instr) # Canon(two(p).c, instr) THEN NoMatch
            ELSE IF instr.back THEN repeats[s, one(s, e).p, two(p).p]
            ELSE repeats[one(s, e).p, e, two(p).p]
    IN repeats[start, end, q]

\* The call of lre_exec_backtrack with no_recurse: an atom of characters.
Atom[at \in DOMAIN program.code, p \in Positions \cup {NoMatch}] ==
    IF program.code[at].op = "match" \/ p = NoMatch THEN p
    ELSE Atom[at + 1, After(program.code[at], p)]

\* Its loop in simple_greedy_quant: the number of atoms and where they end.
Greedily(at, max) ==
    LET greedily[p \in Positions, q \in Positions] ==
            IF Atom[at, p] = NoMatch \/ (q >= max /\ max # INT32_MAX) THEN [q |-> q, p |-> p]
            ELSE greedily[Atom[at, p], q + 1]
    IN greedily[cptr, 0]

Back[p \in Positions, chars \in Nat] ==
    IF chars = 0 THEN p ELSE Back[PrevChar(p), chars - 1]

\* lre_exec, from the start of a pair if index is in its middle.
Start(prog, index, p) ==
    [pc |-> 1, stack |-> <<>>, states |-> <<>>,
     capture |-> [k \in 0..2 * prog.capture_count - 1 |-> Null],
     cptr |-> IF /\ p.unicode /\ 0 < index /\ index < Len(p.input)
                 /\ p.input[index + 1] = "lo" /\ p.input[index] = "hi"
              THEN index - 1 ELSE index]

Resume(rs) ==
    /\ pc' = rs.pc /\ stack' = rs.stack /\ capture' = rs.capture
    /\ cptr' = rs.cptr

\* js_regexp_exec looks at lastIndex of global and sticky expressions only.
Indexed == problem.global \/ problem.sticky

Init ==
    /\ problem \in Problems
    /\ program = lre_compile(problem)
    /\ lastIndex = IF problem.all THEN 0 ELSE problem.lastIndex
    /\ LET index == IF Indexed THEN lastIndex ELSE 0
           s == Start(program, index, problem)
       IN /\ pc = s.pc /\ stack = s.stack /\ capture = s.capture /\ cptr = s.cptr
          /\ ret = IF index > cbuf_end THEN "no_match" ELSE "run"
    /\ states = <<>>
    /\ matches = <<>>

fixed == <<problem, program, lastIndex, matches>>

instr == program.code[pc]
At(ops) == ret = "run" /\ instr.op \in ops
Goes(on) == IF on THEN pc' = pc + 1 /\ UNCHANGED ret ELSE ret' = "no_match" /\ UNCHANGED pc

RS(type, at, p, count) ==
    [type |-> type, pc |-> at, cptr |-> p, count |-> count, stack |-> stack, capture |-> capture]

\* char, range, dot, any, line_start, line_end, word_boundary
TestChar ==
    /\ At(Chars \cup Assertions)
    /\ LET next == After(instr, cptr)
       IN Goes(next # NoMatch) /\ cptr' = IF next = NoMatch THEN cptr ELSE next
    /\ UNCHANGED <<fixed, capture, stack, states>>

\* A group that has not been left is undefined: its end, or its start, is missing
\* or on the wrong side.
BackReference ==
    /\ At({"back_reference"})
    /\ LET start == capture[2 * instr.n]
           end == capture[2 * instr.n + 1]
           next == IF start = Null \/ end = Null THEN cptr
                   ELSE Repeats(instr, start, end, cptr)
       IN Goes(next # NoMatch) /\ cptr' = IF next = NoMatch THEN cptr ELSE next
    /\ UNCHANGED <<fixed, capture, stack, states>>

Prev ==
    /\ At({"prev"})
    /\ Goes(cptr > 0)
    /\ cptr' = IF cptr > 0 THEN PrevChar(cptr) ELSE cptr
    /\ UNCHANGED <<fixed, capture, stack, states>>

\* The other way is kept.
SplitFirst ==
    /\ At({"split_goto_first", "split_next_first"})
    /\ LET far == pc + 1 + instr.by
           now == IF instr.op = "split_next_first" THEN pc + 1 ELSE far
           later == IF instr.op = "split_next_first" THEN far ELSE pc + 1
       IN /\ pc' = now
          /\ states' = Append(states, RS("split", later, cptr, 0))
    /\ UNCHANGED <<fixed, capture, stack, cptr, ret>>

\* What is behind a lookahead is kept; the code of the lookahead is next.
LookAhead ==
    /\ At({"lookahead", "negative_lookahead"})
    /\ states' = Append(states, RS(instr.op, pc + 1 + instr.by, cptr, 0))
    /\ pc' = pc + 1
    /\ UNCHANGED <<fixed, capture, stack, cptr, ret>>

Goto ==
    /\ At({"goto"})
    /\ pc' = pc + 1 + instr.by
    /\ UNCHANGED <<fixed, capture, stack, cptr, states, ret>>

Save ==
    /\ At({"save_start", "save_end", "save_reset"})
    /\ capture' =
          IF instr.op = "save_reset"
          THEN [k \in DOMAIN capture |->
                   IF k \div 2 \in instr.from..instr.to THEN Null ELSE capture[k]]
          ELSE [capture EXCEPT ![2 * instr.n + IF instr.op = "save_end" THEN 1 ELSE 0] = cptr]
    /\ pc' = pc + 1
    /\ UNCHANGED <<fixed, stack, cptr, states, ret>>

Push ==
    /\ At({"push_i32", "push_char_pos"})
    /\ stack' = Append(stack, IF instr.op = "push_i32" THEN instr.n ELSE cptr)
    /\ pc' = pc + 1
    /\ UNCHANGED <<fixed, capture, cptr, states, ret>>

Drop ==
    /\ At({"drop"})
    /\ stack' = Front(stack)
    /\ pc' = pc + 1
    /\ UNCHANGED <<fixed, capture, cptr, states, ret>>

Loop ==
    /\ At({"loop"})
    /\ stack' = [stack EXCEPT ![Len(stack)] = @ - 1]
    /\ pc' = IF Last(stack) # 1 THEN pc + 1 + instr.by ELSE pc + 1
    /\ UNCHANGED <<fixed, capture, cptr, states, ret>>

CheckAdvance ==
    /\ At({"check_advance"})
    /\ Goes(Last(stack) # cptr)
    /\ stack' = Front(stack)
    /\ UNCHANGED <<fixed, capture, cptr, states>>

\* All atoms at once; down to the minimum they can be given back.
SimpleGreedyQuant ==
    /\ At({"simple_greedy_quant"})
    /\ LET run == Greedily(pc + 1, instr.max)
       IN /\ IF run.q < instr.min THEN ret' = "no_match" /\ UNCHANGED pc
             ELSE pc' = pc + 1 + instr.by /\ UNCHANGED ret
          /\ cptr' = run.p
          /\ states' = IF run.q <= instr.min THEN states
                       ELSE Append(states, RS("greedy", pc, run.p, run.q - instr.min))
    /\ UNCHANGED <<fixed, capture, stack>>

Match ==
    /\ At({"match"})
    /\ ret' = "match"
    /\ UNCHANGED <<fixed, capture, stack, pc, cptr, states>>

\* The loop recurse, a state of the stack at a time.  Without a match the last
\* choice is tried the other way.
PopSplit ==
    /\ ret = "no_match" /\ states # <<>> /\ Last(states).type = "split"
    /\ Resume(Last(states))
    /\ states' = Front(states)
    /\ ret' = "run"
    /\ UNCHANGED fixed

\* One atom is given back.
PopGreedy ==
    /\ ret = "no_match" /\ states # <<>> /\ Last(states).type = "greedy"
    /\ LET rs == Last(states)
           quant == program.code[rs.pc]
           back == Back[rs.cptr, quant.chars]
       IN /\ capture' = rs.capture /\ stack' = rs.stack
          /\ cptr' = back
          /\ pc' = rs.pc + 1 + quant.by
          /\ states' = IF rs.count = 1 THEN Front(states)
                       ELSE [states EXCEPT ![Len(states)] =
                                [rs EXCEPT !.cptr = back, !.count = @ - 1]]
    /\ ret' = "run"
    /\ UNCHANGED fixed

\* Mutant of PopLook: the captures of a negative lookahead are kept.
PopLookKept ==
    /\ ret # "run" /\ states # <<>>
    /\ Last(states).type \in {"lookahead", "negative_lookahead"}
    /\ LET rs == Last(states)
       IN IF (rs.type = "lookahead") = (ret = "match")
          THEN Resume([rs EXCEPT !.capture = capture]) /\ ret' = "run"
          ELSE ret' = "no_match" /\ UNCHANGED <<capture, stack, pc, cptr>>
    /\ states' = Front(states)
    /\ UNCHANGED fixed

\* A lookahead ends; the captures of a positive one are kept.
PopLook ==
    /\ ret \in {"match", "no_match"} /\ states # <<>>
    /\ Last(states).type \in {"lookahead", "negative_lookahead"}
    /\ LET rs == Last(states)
           positive == rs.type = "lookahead"
       IN IF positive = (ret = "match")
          THEN Resume(IF positive THEN [rs EXCEPT !.capture = capture] ELSE rs) /\ ret' = "run"
          ELSE ret' = "no_match" /\ UNCHANGED <<capture, stack, pc, cptr>>
    /\ states' = Front(states)
    /\ UNCHANGED fixed

\* With a match the choices inside of what has matched are given up.
Unwind ==
    /\ ret = "match" /\ states # <<>> /\ Last(states).type \in {"split", "greedy"}
    /\ states' = Front(states)
    /\ UNCHANGED <<fixed, capture, stack, pc, cptr, ret>>

\* js_regexp_exec sets lastIndex, and js_regexp_Symbol_match calls it again until
\* there is no match; behind an empty match string_advance_index passes a
\* character.  A lastIndex behind the end is no match.
Found ==
    LET captured(k) == IF capture[2 * k] = Null \/ capture[2 * k + 1] = Null THEN <<>>
                       ELSE <<capture[2 * k], capture[2 * k + 1]>>
    IN [k \in 1..program.capture_count |-> captured(k - 1)]

string_advance_index(index) ==
    IF index >= cbuf_end THEN index + 1 ELSE GetChar(index, cbuf_end).p

\* Mutant of Return: string_advance_index passes a code unit.
ReturnUnit ==
    /\ ret \in {"match", "no_match"} /\ states = <<>>
    /\ LET end == capture[1]
           next == IF capture[0] = end THEN end + 1 ELSE end
           s == Start(program, next, problem)
           again == problem.all /\ ret = "match" /\ next <= cbuf_end
       IN /\ matches' = IF ret = "match" THEN Append(matches, Found) ELSE matches
          /\ lastIndex' = IF ~Indexed THEN lastIndex
                          ELSE IF again THEN next
                          ELSE IF problem.all \/ ret = "no_match" THEN 0 ELSE end
          /\ ret' = IF again THEN "run" ELSE "done"
          /\ IF again THEN Resume(s) ELSE UNCHANGED <<pc, stack, capture, cptr>>
    /\ UNCHANGED <<problem, program, states>>

Return ==
    /\ ret \in {"match", "no_match"} /\ states = <<>>
    /\ LET end == capture[1]
           next == IF capture[0] = end THEN string_advance_index(end) ELSE end
           s == Start(program, next, problem)
           again == problem.all /\ ret = "match" /\ next <= cbuf_end
       IN /\ matches' = IF ret = "match" THEN Append(matches, Found) ELSE matches
          /\ lastIndex' = IF ~Indexed THEN lastIndex
                          ELSE IF again THEN next
                          ELSE IF problem.all \/ ret = "no_match" THEN 0 ELSE end
          /\ ret' = IF again THEN "run" ELSE "done"
          /\ IF again THEN Resume(s) ELSE UNCHANGED <<pc, stack, capture, cptr>>
    /\ UNCHANGED <<problem, program, states>>

Next ==
    \/ TestChar \/ BackReference \/ Prev \/ SplitFirst \/ LookAhead \/ Goto \/ Save \/ Push
    \/ Drop \/ Loop \/ CheckAdvance \/ SimpleGreedyQuant \/ Match
    \/ PopSplit \/ PopGreedy \/ PopLook \/ Unwind \/ Return

\* The interpreter is one loop.
Spec == Init /\ [][Next]_vars /\ WF_vars(Next)

-----------------------------------------------------------------------------
Ended == ret = "done"

\* What has been found, extents and captures, is what the expression matches,
\* whatever it is made of; and lastIndex is where the next search starts.
MatchFound ==
    Ended => /\ matches = Matches(problem, FALSE)
             /\ lastIndex = IF ~Indexed THEN problem.lastIndex
                            ELSE IF problem.all \/ matches = <<>> THEN 0
                            ELSE matches[1][1][2]

\* The interpreter ends with that.
MatchExact == []MatchFound /\ <>Ended

\* Not so, and so not checked: what ECMAScript says of captures in loops.  The
\* code lets a group keep what it captured in an earlier iteration that it does
\* not take part in: /(?:(a)|b)*/ leaves "a" in the group at the end of "ab".
ResetEachTime == Ended => matches = Matches(problem, TRUE)
=============================================================================
