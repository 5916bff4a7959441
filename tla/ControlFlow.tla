----------------------------- MODULE ControlFlow ------------------------------
(***************************************************************************)
(* How quickjs.c compiles statements and runs them: the parser emits       *)
(* instructions with labels; resolve_variables and resolve_labels remove   *)
(* labels, dead code and needless jumps, and choose the widths of the      *)
(* jumps; compute_stack_size finds the depth of the stack and the handler  *)
(* at each instruction; JS_CallInternal runs the code.                     *)
(*                                                                         *)
(* An offset into unfinished code is a number of instructions; in the      *)
(* finished code, a function from offsets to instructions, it is bytes.    *)
(***************************************************************************)
EXTENDS Statements

CONSTANTS
    Functions,      \* [body, generator, fuel]: statements, whether it is a generator, events
    Int8, Int16,    \* the numbers of values of a jump of one and of two bytes, halved
    MaxSteps        \* instructions from one event to the next

VARIABLES
    function,
    stage,    \* "source", "parsed", "variables", "labels", "run"
    fd,       \* the function as compiled so far
    vm        \* its frame

vars == <<function, stage, fd, vm>>

-----------------------------------------------------------------------------
(***************************************************************************)
(* Instructions.  arg is the label of a jump, a scope or the slot of a     *)
(* variable; of names an event; w is the width of what a jump adds.        *)
(***************************************************************************)
Op(op) == [op |-> op, arg |-> 0, of |-> "", w |-> 4]
J(op, label) == [Op(op) EXCEPT !.arg = label]

Ifs == {"if_true", "if_false"}
Jumps == Ifs \cup {"goto", "gosub", "catch"}
Ends == {"return", "return_undef", "return_async", "throw", "ret"}

Size(i) ==
    CASE i.op \in Jumps -> 1 + i.w
      [] i.op \in {"label", "put_field", "event"} -> 5
      [] i.op \in {"enter_scope", "leave_scope", "set_loc_uninitialized", "close_loc", "put_loc"}
             -> 3
      [] i.op \in {"for_of_next", "closure"} -> 2
      [] OTHER -> 1

\* The offset in bytes that an offset in instructions is.
Bytes(code, n) ==
    LET at[k \in 0..n] == IF k = 0 THEN 0 ELSE at[k - 1] + Size(code[k])
    IN at[n]

\* What an instruction pops and pushes.
Pops(i) ==
    CASE i.op \in Ifs \cup {"drop", "dup", "return", "return_async", "throw", "ret", "put_loc",
                            "for_in_start", "for_of_start", "for_in_next", "yield", "lnot"} -> 1
      [] i.op \in {"nip_catch", "put_field", "swap", "strict_eq"} -> 2
      [] i.op \in {"iterator_close", "rot3r", "for_of_next"} -> 3
      [] OTHER -> 0
Pushes(i) ==
    CASE i.op \in {"undefined", "push_true", "push_false", "event", "closure", "catch",
                   "for_in_start", "nip_catch", "strict_eq", "lnot"} -> 1
      [] i.op \in {"dup", "swap", "yield"} -> 2
      [] i.op \in {"for_of_start", "for_in_next", "rot3r"} -> 3
      [] i.op = "for_of_next" -> 5
      [] OTHER -> 0

-----------------------------------------------------------------------------
(***************************************************************************)
(* The parser.  where has the offsets of the labels, brk the blocks a jump *)
(* may leave (BlockEnv), the innermost last; lab is what the last call of  *)
(* emit_goto returned, 0 for none.                                         *)
(***************************************************************************)
cs ++ i == [cs EXCEPT !.code = Append(@, i)]

js_is_live_code(cs) == cs.code = <<>> \/ Last(cs.code).op \notin Ends \cup {"goto"}

new_labels(cs, n) == [cs EXCEPT !.where = @ \o [k \in 1..n |-> -1]]
emit_label(cs, l) ==
    IF l = 0 THEN cs
    ELSE [cs EXCEPT !.code = Append(@, J("label", l)), !.where[l] = Len(cs.code) + 1]
emit_goto(cs, op, l) ==
    CASE ~js_is_live_code(cs) -> [cs EXCEPT !.lab = 0]
      [] js_is_live_code(cs) /\ l # 0 -> [cs ++ J(op, l) EXCEPT !.lab = l]
      [] js_is_live_code(cs) /\ l = 0 ->
            LET n == Len(cs.where) + 1 IN [new_labels(cs, 1) ++ J(op, n) EXCEPT !.lab = n]

push_scope(cs, var) ==
    LET n == Len(cs.scopes) + 1
    IN [cs ++ J("enter_scope", n) EXCEPT
           !.scopes = Append(@, [parent |-> cs.scope, var |-> var]), !.scope = n]
pop_scope(cs) ==
    [cs ++ J("leave_scope", cs.scope) EXCEPT !.scope = cs.scopes[cs.scope].parent]

RECURSIVE close_scopes(_, _, _)
close_scopes(cs, scope, stop) ==
    IF scope <= stop THEN cs
    ELSE close_scopes(cs ++ J("leave_scope", scope), cs.scopes[scope].parent, stop)

\* Closes the scopes inside of one.
CloseTo(cs, stop) == close_scopes(cs, cs.scope, stop)

RECURSIVE Slot(_, _)
Slot(cs, scope) == IF cs.scopes[scope].var THEN scope ELSE Slot(cs, cs.scopes[scope].parent)

Entry(cs, label, break, cont, drops) ==
    [label |-> label, break |-> break, cont |-> cont, drops |-> drops, finally |-> 0,
     scope |-> cs.scope, iterator |-> FALSE, regular |-> FALSE]
Enter(cs, entry) == [cs EXCEPT !.brk = Append(@, entry)]
Leave(cs) == [cs EXCEPT !.brk = Front(@)]

\* Out of a block, but for its finally block; and through that.
Dropped(cs, top) ==
    LET drops == top.drops - (IF top.iterator THEN 3 ELSE 0)
    IN [cs EXCEPT !.code = @ \o (IF top.iterator THEN <<Op("iterator_close")>> ELSE <<>>)
                             \o [k \in 1..drops |-> Op("drop")]]
FinallyPassed(cs, top) == cs
Finally(cs, top) ==
    IF top.finally = 0 THEN cs
    ELSE emit_goto(cs ++ Op("undefined"), "gosub", top.finally) ++ Op("drop")

\* Leaves blocks from the n-th outward until one that the jump is for.
RECURSIVE LeaveBlocks(_, _, _, _, _)
LeaveBlocks(cs, n, scope, label, cont) ==
    LET top == cs.brk[n]
        to == IF cont THEN top.cont ELSE top.break
        named == IF label = "" THEN cont \/ ~top.regular ELSE label = top.label
        closed == close_scopes(cs, scope, top.scope)
    IN IF n = 0 THEN [cs EXCEPT !.error = TRUE]
       ELSE IF to # 0 /\ named THEN emit_goto(closed, "goto", to)
       ELSE LeaveBlocks(Finally(Dropped(closed, top), top), n - 1, top.scope, label, cont)
emit_break(cs, label, cont) == LeaveBlocks(cs, Len(cs.brk), cs.scope, label, cont)

\* Leaves the blocks from the n-th outward for a return.
Returning(cs, top) ==
    IF top.iterator THEN cs ++ Op("rot3r") ++ Op("undefined") ++ Op("iterator_close")
    ELSE emit_goto(cs, "gosub", top.finally)
RECURSIVE ReturnThrough(_, _, _)
ReturnThrough(cs, n, hasval) ==
    LET top == cs.brk[n]
        valued == IF hasval THEN cs ELSE cs ++ Op("undefined")
        end == IF cs.generator THEN "return_async" ELSE IF hasval THEN "return" ELSE "return_undef"
    IN IF n = 0 THEN cs ++ Op(end)
       ELSE IF ~top.iterator /\ top.finally = 0 THEN ReturnThrough(cs, n - 1, hasval)
       ELSE ReturnThrough(Returning(valued ++ Op("nip_catch"), top), n - 1, TRUE)
emit_return(cs, hasval) ==
    IF cs.generator /\ ~hasval THEN ReturnThrough(cs ++ Op("undefined"), Len(cs.brk), TRUE)
    ELSE ReturnThrough(cs, Len(cs.brk), hasval)

-----------------------------------------------------------------------------
RECURSIVE Expr(_, _), Chain(_, _, _, _)
Expr(e, cs) ==
    LET Returns(c) == emit_label(emit_return(c, TRUE), c.lab)
        First(c, l) == Chain(e.list, IF e.is = "and" THEN "if_false" ELSE "if_true", l, c)
        Right(c) == emit_label(Expr(e.r, emit_label(c[1], c[2])), c[1].lab)
        Left(c) == Right(<<emit_goto(Expr(e.l, c), "goto", 0), c.lab>>)
    IN CASE e.is = "event" -> cs ++ [Op("event") EXCEPT !.of = e.name]
         [] e.is = "closure" ->
               cs ++ [Op("closure") EXCEPT !.of = e.name, !.arg = Slot(cs, cs.scope)]
         [] e.is = "yield" ->
               Returns(emit_goto(cs ++ Op("undefined") ++ [Op("yield") EXCEPT !.of = e.name],
                                 "if_false", 0))
         [] e.is = "const" -> cs ++ Op(IF e.b THEN "push_true" ELSE "push_false")
         [] e.is = "not" -> Expr(e.l, cs) ++ Op("lnot")
         [] e.is \in {"and", "or"} -> First(new_labels(cs, 1), Len(cs.where) + 1)
         [] e.is = "cond" -> Left(emit_goto(Expr(e.c, cs), "if_false", 0))
\* Terms of and, or: each but the last jumps to the end if it decides.
Chain(list, op, l, cs) ==
    LET c == Expr(Head(list), cs)
    IN IF Len(list) = 1 THEN emit_label(c, l)
       ELSE Chain(Tail(list), op, l, emit_goto(c ++ Op("dup"), op, l) ++ Op("drop"))

\* Moves the code in from..to to the end, and the labels in it from the l-th on.
Moved(cs, from, to, l) ==
    LET chunk == SubSeq(cs.code, from + 1, to)
    IN [cs EXCEPT
           !.code = [k \in DOMAIN @ |-> IF k \in from + 1..to THEN Op("nop") ELSE @[k]] \o chunk,
           !.where = [k \in DOMAIN @ |->
               IF k >= l /\ @[k] >= from /\ @[k] < to THEN @[k] + Len(cs.code) - from ELSE @[k]]]

RECURSIVE Stmt(_, _), Stmts(_, _), Clauses(_, _)

Stmts(list, cs) == IF list = <<>> THEN cs ELSE Stmts(Tail(list), Stmt(Head(list), cs))

js_parse_block(st, cs) ==
    IF st.list = <<>> THEN cs ELSE pop_scope(Stmts(st.list, push_scope(cs, st.var)))

parse_if(st, cs) ==
    LET Else(c) == emit_label(Stmt(st.else, emit_label(c[1], c[2])), c[1].lab)
        Then(c) ==
            IF st.else = None THEN emit_label(Stmt(st.then, c), c.lab)
            ELSE Else(<<emit_goto(Stmt(st.then, c), "goto", 0), c.lab>>)
    IN pop_scope(Then(emit_goto(Expr(st.e, push_scope(cs, FALSE)), "if_false", 0)))

parse_while(st, cs) ==
    LET cont == Len(cs.where) + 1
        break == cont + 1
        c1 == Enter(new_labels(cs, 2), Entry(cs, st.label, break, cont, 0))
        c2 == emit_goto(Expr(st.e, emit_label(c1, cont)), "if_false", break)
        c3 == emit_goto(Stmt(st.body, c2), "goto", cont)
    IN Leave(emit_label(c3, break))

parse_do(st, cs) ==
    LET cont == Len(cs.where) + 1
        break == cont + 1
        l == cont + 2
        c1 == emit_label(Enter(new_labels(cs, 3), Entry(cs, st.label, break, cont, 0)), l)
        c2 == emit_goto(Expr(st.e, emit_label(Stmt(st.body, c1), cont)), "if_true", l)
    IN Leave(emit_label(c2, break))

\* What an iteration ends with moves behind the body, if there is a test.
parse_for(st, cs) ==
    LET Initial(c) ==
            IF st.init = None THEN c
            ELSE CloseTo(Expr(st.init, c) ++ Op(IF st.var THEN "put_loc" ELSE "drop"), cs.scope)
        Test(c, l) ==
            IF st.test = None THEN c
            ELSE emit_goto(Expr(st.test, emit_label(c, l.test)), "if_false", l.break)
        Body(c, l) == CloseTo(Stmt(st.body, emit_label(c, l.body)), cs.scope)
        Moving(c, d, inc, l) == Moved(d, Len(c.code), Len(inc.code), l.cont)
        Behind(c, inc, l) == Moving(c, Body(inc, l), inc, l)
        Inc(c, inc, l) ==
            IF st.test = None THEN emit_goto(Body(inc, l), "goto", l.cont)
            ELSE Behind(c, emit_goto(inc, "goto", l.test), l)
        Rest(c, l) ==
            IF st.inc = None THEN emit_goto(Body(c, l), "goto", l.cont)
            ELSE Inc(c, Expr(st.inc, emit_label(c, l.cont)) ++ Op("drop"), l)
        Tested(c, l) == Rest(IF st.inc = None THEN c ELSE emit_goto(c, "goto", l.body), l)
        Loop(c, l) ==
            Leave(emit_label(Tested(Test(Enter(new_labels(c, 4),
                                               Entry(c, st.label, l.break, l.cont, 0)), l), l),
                             l.break))
        Labels(body, test) ==
            [body |-> body, break |-> body + 1, test |-> test,
             cont |-> IF st.inc = None THEN test ELSE body - 1]
        Numbered(c, body) == Loop(c, Labels(body, IF st.test = None THEN body ELSE body - 2))
        Begun(c) == Numbered(c, Len(c.where) + 3)
    IN pop_scope(Begun(Initial(push_scope(cs, st.var))))

\* What assigns to the left hand side moves behind the expression.
js_parse_for_in_of(st, cs) ==
    LET cont == Len(cs.where) + 1
        body == cont + 1
        break == cont + 2
        next == cont + 3
        of == st.is = "for_of"
        entry == Entry(cs, st.label, break, cont, 1)
        known == [entry EXCEPT !.iterator = of, !.drops = IF of THEN 3 ELSE 1]
        Assign(c) ==
            IF st.lhs = None THEN c ++ Op("put_loc")
            ELSE Expr(st.lhs, c) ++ Op("swap") ++ Op("put_field")
        Iterating(c) ==
            CloseTo(Expr(st.e, Enter(Leave(c), known)), cs.scope)
                ++ Op(IF of THEN "for_of_start" ELSE "for_in_start")
        Stepped(c) ==
            emit_goto(emit_label(c, cont) ++ Op(IF of THEN "for_of_next" ELSE "for_in_next"),
                      "if_false", next)
        Body(c) == Stepped(CloseTo(Stmt(st.body, emit_label(c, body)), cs.scope)) ++ Op("drop")
        Behind(c, d) ==
            Body(Moved(emit_goto(Iterating(emit_label(d, c.lab)), "goto", cont),
                       Len(c.code), Len(d.code), cont))
        Loop(c) == Behind(c, emit_goto(Assign(emit_label(c, next)), "goto", body))
        Opened(c) == Loop(emit_goto(Enter(push_scope(c, st.var), entry), "goto", 0))
    IN pop_scope(Leave(emit_label(Opened(new_labels(cs, 4)), break)
                           ++ Op(IF of THEN "iterator_close" ELSE "drop")))

\* The clauses of a switch: next is label_case, eq the label of the body of a
\* sequence of cases, default the offset of the label to be patched; 0 for none.
Clauses(list, w) ==
    LET c == Head(list)
        Default(d) ==
            Clauses(Tail(list),
                [w EXCEPT !.cs = Stmts(c.body, d ++ Op("label")), !.default = Len(d.code) + 1,
                          !.next = IF @ = 0 THEN d.lab ELSE @])
        Again(d) == Clauses(Tail(list), [w EXCEPT !.cs = d, !.more = TRUE, !.eq = d.lab])
        Final(d, eq) ==
            Clauses(Tail(list), [w EXCEPT !.cs = Stmts(c.body, emit_label(d, eq)), !.more = FALSE,
                                          !.eq = 0, !.next = d.lab])
        Compared(d, eq) ==
            IF c.body = <<>> /\ Len(list) > 1 /\ list[2].test # None
            THEN Again(emit_goto(d, "if_true", eq)) ELSE Final(emit_goto(d, "if_false", 0), eq)
        Case(d) ==
            Compared(Expr(c.test, (IF w.more THEN d ELSE emit_label(d, w.next)) ++ Op("dup"))
                         ++ Op("strict_eq"),
                     d.lab)
    IN IF list = <<>> THEN w
       ELSE IF c.test = None THEN Default(IF w.next = 0 THEN emit_goto(w.cs, "goto", 0) ELSE w.cs)
       ELSE IF w.more \/ w.next = 0 THEN Case([w.cs EXCEPT !.lab = w.eq])
       ELSE Case(emit_goto(w.cs, "goto", 0))

parse_switch(st, cs) ==
    LET Patched(w) ==
            IF w.default = 0 THEN emit_label(w.cs, w.next)
            ELSE [w.cs EXCEPT !.code[w.default].arg = w.next, !.where[w.next] = w.default]
        Body(c, break) ==
            emit_label(Patched(Clauses(st.clauses,
                           [cs |-> Enter(new_labels(c, 1), Entry(c, "", break, 0, 1)),
                            more |-> FALSE, eq |-> 0, next |-> 0, default |-> 0])), break)
        Inside(c) == Body(c, Len(c.where) + 1)
    IN pop_scope(Leave(Inside(push_scope(Expr(st.e, cs), FALSE)) ++ Op("drop")))

parse_try(st, cs) ==
    LET catch == Len(cs.where) + 1
        catch2 == catch + 1
        finally == catch + 2
        end == catch + 3
        Guarded(c, block) ==
            Leave(js_parse_block(block, Enter(c, [Entry(c, "", 0, 0, 1) EXCEPT !.finally = finally])))
        \* Goes to the end through the finally block, if the end of the block is reached.
        Ended(c) ==
            IF ~js_is_live_code(c) THEN c
            ELSE emit_goto(emit_goto(c ++ Op("drop") ++ Op("undefined"), "gosub", finally)
                               ++ Op("drop"), "goto", end)
        Handler(c) ==
            pop_scope(pop_scope(Guarded(push_scope(
                emit_goto(emit_label(push_scope(c, FALSE), catch) ++ Op("drop"), "catch", catch2),
                FALSE), st.handler)))
        Rethrow(c, l) == emit_goto(emit_label(c, l), "gosub", finally) ++ Op("throw")
        Handled(c) ==
            IF st.handler = None THEN Rethrow(c, catch) ELSE Rethrow(Ended(Handler(c)), catch2)
        Lastly(c) ==
            IF st.finally = None THEN c
            ELSE Leave(js_parse_block(st.finally, Enter(c, Entry(c, "", 0, 0, 2))))
        try == Ended(Guarded(emit_goto(new_labels(cs, 4), "catch", catch), st.block))
    IN emit_label(Lastly(emit_label(Handled(try), finally)) ++ Op("ret"), end)

LabelInUse(st, cs) ==
    /\ st.is \in Loops \cup {"label"}
    /\ st.label # "" /\ \E k \in DOMAIN cs.brk : cs.brk[k].label = st.label

\* js_parse_statement_or_decl.
Stmt(st, cs) ==
    IF LabelInUse(st, cs) THEN [cs EXCEPT !.error = TRUE]
    ELSE CASE st.is = "expr" -> Expr(st.e, cs) ++ Op("drop")
           [] st.is = "block" -> js_parse_block(st, cs)
           [] st.is = "if" -> parse_if(st, cs)
           [] st.is = "while" -> parse_while(st, cs)
           [] st.is = "do" -> parse_do(st, cs)
           [] st.is = "for" -> parse_for(st, cs)
           [] st.is \in {"for_in", "for_of"} -> js_parse_for_in_of(st, cs)
           [] st.is = "switch" -> parse_switch(st, cs)
           [] st.is = "try" -> parse_try(st, cs)
           [] st.is = "break" -> emit_break(cs, st.label, FALSE)
           [] st.is = "continue" -> emit_break(cs, st.label, TRUE)
           [] st.is = "return" ->
                 IF st.e = None THEN emit_return(cs, FALSE) ELSE emit_return(Expr(st.e, cs), TRUE)
           [] st.is = "throw" -> Expr(st.e, cs) ++ Op("throw")
           [] st.is = "label" ->
                 LET break == Len(cs.where) + 1
                     c == Enter(new_labels(cs, 1),
                                [Entry(cs, st.label, break, 0, 0) EXCEPT !.regular = TRUE])
                 IN Leave(emit_label(Stmt(st.body, c), break))

Parsed(p) ==
    LET Returned(cs) == IF js_is_live_code(cs) THEN emit_return(cs, FALSE) ELSE cs
        Result(cs) ==
            [code |-> cs.code, where |-> cs.where,
             var |-> {k \in DOMAIN cs.scopes : cs.scopes[k].var},
             captured |-> {i.arg : i \in {j \in ToSet(cs.code) : j.op = "closure"}},
             error |-> cs.error]
    IN Result(Returned(Stmts(p.body,
           [code |-> <<>>, where |-> <<>>, lab |-> 0, brk |-> <<>>, scope |-> 0, scopes |-> <<>>,
            generator |-> p.generator, error |-> FALSE])))

-----------------------------------------------------------------------------
(***************************************************************************)
(* The passes over the code.  refs counts the jumps to each label.         *)
(***************************************************************************)
Refs(f) ==
    [l \in DOMAIN f.where |-> Cardinality({k \in DOMAIN f.code :
                                             f.code[k].op \in Jumps /\ f.code[k].arg = l})]
Fewer(refs, l) == [refs EXCEPT ![l] = @ - 1]

\* Whether the instructions from an offset on are of these kinds.
code_match(code, at, kinds) ==
    \A k \in DOMAIN kinds : at + k <= Len(code) /\ code[at + k].op \in kinds[k]

\* The offset after the labels at an offset.
RECURSIVE PastLabels(_, _)
PastLabels(code, at) ==
    IF code_match(code, at, <<{"label"}>>) THEN PastLabels(code, at + 1) ELSE at

RECURSIVE skip_dead_code(_, _, _)
skip_dead_code(code, at, refs) ==
    IF at = Len(code) THEN [at |-> at, refs |-> refs]
    ELSE LET i == code[at + 1]
         IN IF i.op = "label" /\ refs[i.arg] > 0 THEN [at |-> at, refs |-> refs]
            ELSE skip_dead_code(code, at + 1, IF i.op \in Jumps THEN Fewer(refs, i.arg) ELSE refs)

RECURSIVE get_label_pos(_, _, _)
get_label_pos(f, l, n) ==
    LET at == PastLabels(f.code, f.where[l])
    IN IF f.code[at + 1].op = "goto" /\ n > 1 THEN get_label_pos(f, f.code[at + 1].arg, n - 1)
       ELSE at

\* The last label of a chain of tests of the same value.
RECURSIVE LastTest(_, _, _)
LastTest(f, l, op) ==
    LET at == get_label_pos(f, l, 20)
    IN IF code_match(f.code, at, <<{"dup"}, {op}, {"drop"}>>)
       THEN LastTest(f, f.code[at + 2].arg, op) ELSE at

\* resolve_variables, from the offset at on.
RECURSIVE resolve_variables(_, _, _)
resolve_variables(f, at, r) ==
    IF at = Len(f.code) THEN [code |-> r.out, where |-> r.where, refs |-> r.refs]
    ELSE LET i == f.code[at + 1]
             To(next, out, refs) ==
                 resolve_variables(f, next, [r EXCEPT !.out = @ \o out, !.refs = refs])
             dead == skip_dead_code(f.code, at + 1, r.refs)
             test == f.code[at + 2]
             end == LastTest(f, test.arg, test.op)
             onto == f.code[end + 1]
         IN CASE i.op = "label" ->
                    resolve_variables(f, at + 1,
                        [r EXCEPT !.out = Append(@, i), !.where[i.arg] = Len(r.out) + 1])
              [] i.op = "gosub" ->
                    IF code_match(f.code, f.where[i.arg], <<{"ret"}>>)
                    THEN To(at + 1, <<>>, Fewer(r.refs, i.arg)) ELSE To(at + 1, <<i>>, r.refs)
              [] i.op \in {"goto", "return", "return_undef", "throw", "ret"} ->
                    To(dead.at, <<i>>, dead.refs)
              [] i.op = "enter_scope" ->
                    To(at + 1, IF i.arg \in f.var THEN <<J("set_loc_uninitialized", i.arg)>>
                               ELSE <<>>, r.refs)
              [] i.op = "leave_scope" ->
                    To(at + 1, IF i.arg \in f.captured THEN <<J("close_loc", i.arg)>> ELSE <<>>, r.refs)
              [] i.op = "nop" -> To(at + 1, <<>>, r.refs)
              [] i.op = "dup" ->
                    IF code_match(f.code, at + 1, <<Ifs, {"drop"}>>) /\ onto.op = test.op
                    THEN To(at + 3, <<J(test.op, onto.arg)>>,
                            [Fewer(r.refs, test.arg) EXCEPT ![onto.arg] = @ + 1])
                    ELSE To(at + 1, <<i>>, r.refs)
              [] OTHER -> To(at + 1, <<i>>, r.refs)

-----------------------------------------------------------------------------
\* Whether a label, or a jump to it, is what the code at an offset begins with.
code_has_label(code, at, l) ==
    LET end == PastLabels(code, at)
    IN \/ \E k \in at + 1..end : code[k].arg = l
       \/ code_match(code, end, <<{"goto"}>>) /\ code[end + 1].arg = l

\* The label that gotos from l lead to, and the first instruction there; l itself
\* after ten of them.
RECURSIVE Followed(_, _, _, _)
Followed(f, l0, l, n) ==
    LET at == PastLabels(f.code, f.where[l])
        i == f.code[at + 1]
        past == Min({k \in at + 1..Len(f.code) : f.code[k].op # "drop"})
    IN IF i.op = "goto"
       THEN IF n = 1 THEN [label |-> l0, op |-> "goto"] ELSE Followed(f, l0, i.arg, n - 1)
       ELSE [label |-> l,
             op |-> IF f.code[past].op = "return_undef" THEN "return_undef" ELSE i.op]
find_jump_target(f, l, refs) ==
    LET to == Followed(f, l, l, 10)
    IN [label |-> to.label, op |-> to.op, refs |-> [Fewer(refs, l) EXCEPT ![to.label] = @ + 1]]

\* The width that a jump emitted for the instruction at an offset gets.
Width(f, r, at, op, l) ==
    LET ahead == Bytes(f.code, f.where[l]) - Bytes(f.code, at) - 1
        back == Bytes(r.out, r.where[l]) - Bytes(r.out, Len(r.out)) - 1
    IN IF r.where[l] = -1
       THEN IF ahead < Int8 /\ op \in Ifs \cup {"goto"} THEN 1
            ELSE IF ahead < Int16 /\ op = "goto" THEN 2 ELSE 4
       ELSE IF back >= -Int8 /\ op \in Ifs \cup {"goto"} THEN 1
            ELSE IF back >= -Int16 /\ op = "goto" THEN 2 ELSE 4

Negated(op) == IF op = "if_true" THEN "if_false" ELSE "if_true"

\* resolve_labels, from the offset at on.
RECURSIVE resolve_labels(_, _, _)
resolve_labels(f, at, r) ==
    IF at = Len(f.code) THEN r
    ELSE LET i == f.code[at + 1]
             next == IF at + 1 < Len(f.code) THEN f.code[at + 2] ELSE Op("none")
             To(to, out, refs) == resolve_labels(f, to, [r EXCEPT !.out = @ \o out, !.refs = refs])
             Dead(from, out, refs) ==
                 LET dead == skip_dead_code(f.code, from, refs) IN To(dead.at, out, dead.refs)
             Jump(op, l, to, refs) ==
                 LET jump == [J(op, l) EXCEPT !.w = Width(f, r, at, op, l)]
                 IN IF op = "goto" THEN Dead(to, <<jump>>, refs) ELSE To(to, <<jump>>, refs)
             Goto(l, to) ==
                 LET t == find_jump_target(f, l, r.refs)
                 IN IF code_has_label(f.code, to, t.label) THEN To(to, <<>>, Fewer(t.refs, t.label))
                    ELSE IF t.op \in {"return", "return_undef", "throw"}
                    THEN Dead(to, <<Op(t.op)>>, Fewer(t.refs, t.label))
                    ELSE Jump("goto", t.label, to, t.refs)
             Test(op, l) ==
                 LET t == find_jump_target(f, l, r.refs)
                 IN IF code_has_label(f.code, at + 1, t.label)
                    THEN To(at + 1, <<Op("drop")>>, Fewer(t.refs, t.label))
                    ELSE IF next.op = "goto" /\ code_has_label(f.code, at + 2, t.label)
                    THEN Jump(Negated(op), next.arg, at + 2, Fewer(t.refs, t.label))
                    ELSE Jump(op, t.label, at + 1, t.refs)
             \* A test of a constant b is a goto or nothing.
             Known(b) ==
                 IF b = (next.op = "if_true") THEN Goto(next.arg, at + 2)
                 ELSE To(at + 2, <<>>, Fewer(r.refs, next.arg))
         IN CASE i.op = "label" ->
                    resolve_labels(f, at + 1, [r EXCEPT !.where[i.arg] = Len(r.out)])
              [] i.op \in {"return", "return_undef", "return_async", "throw"} ->
                    Dead(at + 1, <<i>>, r.refs)
              [] i.op = "goto" -> Goto(i.arg, at + 1)
              [] i.op \in {"gosub", "catch"} -> Jump(i.op, i.arg, at + 1, r.refs)
              [] i.op \in Ifs -> Test(i.op, i.arg)
              [] i.op = "drop" ->
                    To(at + 1, IF next.op = "return_undef" THEN <<>> ELSE <<i>>, r.refs)
              [] i.op \in {"push_true", "push_false"} /\ next.op \in Ifs -> Known(i.op = "push_true")
              [] i.op = "undefined" /\ next.op = "drop" -> To(at + 2, <<>>, r.refs)
              [] i.op = "undefined" /\ next.op = "return" ->
                    To(at + 2, <<Op("return_undef")>>, r.refs)
              [] i.op = "undefined" /\ next.op \in Ifs -> Known(FALSE)
              [] OTHER -> To(at + 1, <<i>>, r.refs)

\* The jumps again, in their order, each as narrow as those before it allow.
RECURSIVE Shrunk(_, _, _)
Shrunk(out, where, k) ==
    IF k > Len(out) THEN out
    ELSE LET i == out[k]
             diff == Bytes(out, where[i.arg]) - Bytes(out, k - 1) - 1
             delta == IF i.w = 2 THEN 1 ELSE 3
             Narrow(w) == Shrunk([out EXCEPT ![k].w = w], where, k + 1)
         IN IF i.op \notin Ifs \cup {"goto"} \/ i.w = 1 THEN Shrunk(out, where, k + 1)
            ELSE IF diff >= -Int8 /\ diff <= Int8 - 1 + delta THEN Narrow(1)
            ELSE IF diff >= -Int16 /\ diff < Int16 /\ i.op = "goto" THEN Narrow(2)
            ELSE Shrunk(out, where, k + 1)

\* The finished code: what a jump adds is cut to its width.
Placed(out, where) ==
    LET Cut(diff, w) ==
            CASE w = 1 -> ((diff + Int8) % (2 * Int8)) - Int8
              [] w = 2 -> ((diff + Int16) % (2 * Int16)) - Int16
              [] w = 4 -> diff
        place == [k \in DOMAIN out |-> Bytes(out, k - 1)]
    IN [pos \in Range(place) |->
           LET k == CHOOSE k \in DOMAIN out : place[k] = pos
               i == out[k]
           IN IF i.op \in Jumps
              THEN [i EXCEPT !.arg = pos + 1 + Cut(Bytes(out, where[i.arg]) - pos - 1, i.w)]
              ELSE i]

-----------------------------------------------------------------------------
(***************************************************************************)
(* compute_stack_size: the depth of the stack before each instruction and  *)
(* the instruction that pushed the innermost catch offset, or -1.          *)
(***************************************************************************)
ss_check(code, s, pos, depth, catch) ==
    IF s.fail \/ pos \notin DOMAIN code THEN [s EXCEPT !.fail = TRUE]
    ELSE IF s.level[pos] = -1
    THEN [s EXCEPT !.level[pos] = depth, !.catch[pos] = catch, !.work = Append(@, pos),
                   !.max = Max({@, depth})]
    ELSE [s EXCEPT !.fail = s.level[pos] # depth \/ s.catch[pos] # catch]

\* The depth below a catch offset: for..of has the iterator and its method there.
BelowAny(code, s, pos) == s.level[pos]
Below(code, s, pos) == s.level[pos] + (IF code[pos].op = "catch" THEN 0 ELSE 1)

RECURSIVE Explored(_, _)
Explored(code, s) ==
    IF s.fail \/ s.work = <<>> THEN s
    ELSE LET pos == Last(s.work)
             i == code[pos]
             catch == s.catch[pos]
             depth == s.level[pos] + Pushes(i) - Pops(i)
             s1 == [s EXCEPT !.work = Front(@), !.max = Max({@, depth})]
             next == pos + Size(i)
             Known(left) == catch # -1 /\ Below(code, s, catch) = left
             Out(left) == IF Known(left) THEN s.catch[catch] ELSE catch
         IN IF s.level[pos] < Pops(i) \/ (i.op = "nip_catch" /\ catch = -1)
            THEN [s EXCEPT !.fail = TRUE]
            ELSE Explored(code,
                CASE i.op \in Ends -> s1
                  [] i.op = "goto" -> ss_check(code, s1, i.arg, depth, catch)
                  [] i.op \in Ifs ->
                        ss_check(code, ss_check(code, s1, i.arg, depth, catch), next, depth, catch)
                  [] i.op = "gosub" ->
                        ss_check(code, ss_check(code, s1, i.arg, depth + 1, catch), next, depth, catch)
                  [] i.op = "catch" ->
                        ss_check(code, ss_check(code, s1, i.arg, depth, catch), next, depth, pos)
                  [] i.op = "for_of_start" -> ss_check(code, s1, next, depth, pos)
                  [] i.op = "drop" -> ss_check(code, s1, next, depth, Out(depth))
                  [] i.op = "iterator_close" -> ss_check(code, s1, next, depth, Out(depth + 2))
                  [] i.op = "nip_catch" ->
                        ss_check(code, s1, next, Below(code, s, catch) + 1, s.catch[catch])
                  [] OTHER -> ss_check(code, s1, next, depth, catch))

compute_stack_size(code) ==
    LET none == [pos \in DOMAIN code |-> -1]
    IN Explored(code,
           ss_check(code, [level |-> none, catch |-> none, work |-> <<>>, max |-> 0, fail |-> FALSE],
                    0, 0, -1))

-----------------------------------------------------------------------------
(***************************************************************************)
(* The interpreter.  A frame m has the stack of values, catch offsets and  *)
(* return addresses; exc, the exception while it unwinds the stack; refs,  *)
(* for each slot the closure its open JSVarRef was made for, 0 for none.   *)
(* It runs to the next event ("event"; "close" for an iterator it unwinds  *)
(* past) or to its end ("done").                                           *)
(***************************************************************************)
Value(v) == [t |-> "value", n |-> v.n, b |-> v.b]
Word(t, n) == [t |-> t, n |-> n, b |-> TRUE]
Truth(b) == Value([n |-> 0, b |-> b])
Undef == Truth(FALSE)
Internal == Word("value", -1)   \* an InternalError

Frame(f) ==
    [pc |-> 0, stack |-> <<>>, exc |-> <<>>, trace |-> <<>>, refs |-> [slot \in f.var |-> 0],
     high |-> 0, at |-> "run", type |-> "", value |-> Undef]

Depth(m) == Len(m.stack)
Top(m, k) == m.stack[Depth(m) - k]   \* k from the top
Popped(m, k) == [m EXCEPT !.stack = SubSeq(@, 1, Len(@) - k)]
Pushed(m, v) == [m EXCEPT !.stack = Append(@, v)]
Goes(m, pc) == [m EXCEPT !.pc = pc]
Thrown(m, v) == [m EXCEPT !.exc = <<v>>]
Ended(m, type, v) == [m EXCEPT !.at = "done", !.type = type, !.value = v]
Catches(m) == {k \in DOMAIN m.stack : m.stack[k].t = "catch"}

Jumping(f, m, i, next) ==
    CASE i.op = "goto" -> Goes(m, i.arg)
      [] i.op \in Ifs ->
            Goes(Popped(m, 1), IF Top(m, 0).b = (i.op = "if_true") THEN i.arg ELSE next)
      [] i.op = "catch" -> Goes(Pushed(m, Word("catch", i.arg)), next)
      [] i.op = "gosub" -> Goes(Pushed(m, Word("int", next)), i.arg)
      [] i.op = "ret" ->
            IF Top(m, 0).t = "int" THEN Goes(Popped(m, 1), Top(m, 0).n) ELSE Thrown(m, Internal)

nip_catch(m) ==
    LET at == {k \in Catches(m) : k < Depth(m)}
    IN IF at = {} THEN Thrown(m, Internal)
       ELSE [m EXCEPT !.stack = Append(SubSeq(@, 1, Max(at) - 1), Top(m, 0))]

Moving(f, m, i) ==
    CASE i.op = "undefined" -> Pushed(m, Undef)
      [] i.op \in {"push_true", "push_false"} -> Pushed(m, Truth(i.op = "push_true"))
      [] i.op \in {"drop", "put_loc"} -> Popped(m, 1)
      [] i.op = "dup" -> Pushed(m, Top(m, 0))
      [] i.op = "swap" -> Pushed(Pushed(Popped(m, 2), Top(m, 0)), Top(m, 1))
      [] i.op = "rot3r" -> Pushed(Pushed(Pushed(Popped(m, 3), Top(m, 0)), Top(m, 2)), Top(m, 1))
      [] i.op = "put_field" -> Popped(m, 2)
      [] i.op = "lnot" -> Pushed(Popped(m, 1), Truth(~Top(m, 0).b))
      [] i.op = "strict_eq" -> Pushed(Popped(m, 2), Truth(Top(m, 0).b))
      [] i.op = "nip_catch" -> nip_catch(m)
      [] i.op = "close_loc" -> [m EXCEPT !.refs[i.arg] = 0]
      [] i.op = "set_loc_uninitialized" -> m
      \* the iterator of these is undefined
      [] i.op = "iterator_close" -> Popped(m, 3)
      [] i.op = "for_of_next" -> Pushed(Pushed(m, Undef), Truth(TRUE))

Iterator(m, i) == Top(m, IF i.op = "for_in_next" THEN 0 ELSE 2)
Waits(m, i) ==
    \/ i.op \in {"event", "closure", "yield", "for_of_start", "for_in_start", "for_in_next"}
    \/ i.op \in {"for_of_next", "iterator_close"} /\ Iterator(m, i).t = "iterator"

\* An exception pops the stack to a catch offset.
Unwound(f, m) ==
    LET k == Max(Catches(m))
    IN CASE Catches(m) = {} -> Ended(m, "throw", m.exc[1])
         [] Catches(m) # {} /\ m.stack[k].n # 0 ->
               [m EXCEPT !.stack = Append(SubSeq(@, 1, k - 1), m.exc[1]), !.exc = <<>>,
                         !.pc = m.stack[k].n]
         [] Catches(m) # {} /\ m.stack[k].n = 0 ->
               [m EXCEPT !.stack = SubSeq(@, 1, k - 2),
                         !.at = IF m.stack[k - 2].t = "iterator" THEN "close" ELSE "run"]

\* One instruction, or one step of unwinding.
Step(f, m) ==
    LET i == f.code[m.pc]
        next == m.pc + Size(i)
    IN IF m.exc # <<>> THEN Unwound(f, m)
       ELSE IF m.pc \notin DOMAIN f.code THEN Ended(m, "lost", Undef)
       ELSE IF Waits(m, i) THEN [m EXCEPT !.at = "event"]
       ELSE CASE i.op \in Jumps \cup {"ret"} -> Jumping(f, m, i, next)
              [] i.op = "throw" -> Thrown(Popped(m, 1), Top(m, 0))
              [] i.op \in {"return", "return_async"} -> Ended(m, "return", Top(m, 0))
              [] i.op = "return_undef" -> Ended(m, "return", Undef)
              [] OTHER -> Goes(Moving(f, m, i), next)

JS_CallInternal(f, m0) ==
    LET Measured(m) == [m EXCEPT !.high = Max({@, Depth(m)})]
        run[k \in 0..MaxSteps] ==
            LET m == run[k - 1]
            IN IF k = 0 THEN Measured(m0) ELSE IF m.at = "run" THEN Measured(Step(f, m)) ELSE m
        end == run[MaxSteps]
    IN IF end.at = "run" THEN Ended(end, "lost", Undef) ELSE end

\* What the instruction that waits makes of what came of its event.
Answered(m, i, out) ==
    LET n == Len(m.trace) + 1
        v == Value([n |-> n, b |-> out # "F"])
        ref == CASE i.op = "closure" -> IF m.refs[i.arg] = 0 THEN n ELSE m.refs[i.arg]
                 [] i.op \in {"for_of_next", "for_in_next", "iterator_close"} -> Iterator(m, i).n
                 [] OTHER -> 0
        of == CASE i.op = "for_of_start" -> "iterator"
                [] i.op = "for_in_start" -> "keys"
                [] i.op = "for_of_next" -> "next"
                [] i.op = "for_in_next" -> "key"
                [] i.op = "iterator_close" -> "close"
                [] OTHER -> i.of
        s == [m EXCEPT !.trace = Append(@, [of |-> of, out |-> out, ref |-> ref]), !.at = "run"]
        \* for..of gives up an iterator that is done or throws
        lost == IF i.op = "for_of_next" THEN [s EXCEPT !.stack[Depth(m) - 2] = Undef] ELSE s
        r == Goes(IF out = "done" THEN lost ELSE s, m.pc + Size(i))
    IN IF out = "throw" THEN Thrown(IF i.op = "iterator_close" THEN Popped(s, 2) ELSE lost, v)
       ELSE CASE i.op = "event" -> Pushed(r, v)
              [] i.op = "closure" -> [Pushed(r, v) EXCEPT !.refs[i.arg] = ref]
              [] i.op = "yield" -> Pushed(Pushed(Popped(r, 1), v), Truth(out = "return"))
              [] i.op = "for_in_start" -> Pushed(Popped(r, 1), Word("iterator", n))
              [] i.op = "for_of_start" ->
                    Pushed(Pushed(Pushed(Popped(r, 1), Word("iterator", n)), v), Word("catch", 0))
              [] i.op \in {"for_in_next", "for_of_next"} ->
                    IF out = "done" THEN Pushed(Pushed(r, Undef), Truth(TRUE))
                    ELSE Pushed(Pushed(r, v), Truth(FALSE))
              [] i.op = "iterator_close" -> Popped(r, 3)

-----------------------------------------------------------------------------
(***************************************************************************)
(* A function is compiled and then called once.                            *)
(***************************************************************************)
Init ==
    /\ function \in Functions
    /\ stage = "source"
    /\ fd = <<>>
    /\ vm = <<>>

Parse ==
    /\ stage = "source"
    /\ fd' = Parsed(function)
    /\ stage' = IF fd'.error THEN "error" ELSE "parsed"
    /\ UNCHANGED <<function, vm>>

ResolveVariables ==
    /\ stage = "parsed"
    /\ LET f == resolve_variables(fd, 0, [out |-> <<>>, where |-> fd.where, refs |-> Refs(fd)])
       IN fd' = [fd EXCEPT !.code = f.code, !.where = f.where] @@ [refs |-> f.refs]
    /\ stage' = "variables"
    /\ UNCHANGED <<function, vm>>

ResolveLabels ==
    /\ stage = "variables"
    /\ LET none == [l \in DOMAIN fd.where |-> -1]
           r == resolve_labels(fd, 0, [out |-> <<>>, where |-> none, refs |-> fd.refs])
       IN fd' = [code |-> Placed(Shrunk(r.out, r.where, 1), r.where), var |-> fd.var]
    /\ stage' = "labels"
    /\ UNCHANGED <<function, vm>>

Call ==
    /\ stage = "labels"
    /\ LET s == compute_stack_size(fd.code)
       IN fd' = fd @@ [level |-> s.level, catch |-> s.catch, stack_size |-> s.max, fail |-> s.fail]
    /\ vm' = JS_CallInternal(fd, Frame(fd))
    /\ stage' = "run"
    /\ UNCHANGED function

Waiting(at) == stage = "run" /\ vm.at = at
Answers(ops, outs) ==
    /\ Waiting("event") /\ Len(vm.trace) < function.fuel
    /\ fd.code[vm.pc].op \in ops
    /\ \E out \in outs :
          vm' = JS_CallInternal(fd, Answered(vm, fd.code[vm.pc], out))
    /\ UNCHANGED <<function, stage, fd>>

Evaluate == Answers({"event"}, {"T", "F", "throw"})
MakeClosure == Answers({"closure"}, {"T"})
Resume == Answers({"yield"}, {"T", "F", "throw", "return"})   \* next, throw and return
StartIteration == Answers({"for_of_start", "for_in_start"}, {"T", "throw"})
NextResult == Answers({"for_of_next", "for_in_next"}, {"T", "done", "throw"})
CloseIterator == Answers({"iterator_close"}, {"T", "throw"})

\* The iterator is closed for an exception, which stays whatever comes of it.
CloseUnwinding ==
    /\ Waiting("close") /\ Len(vm.trace) < function.fuel
    /\ \E out \in {"T", "throw"} :
          vm' = JS_CallInternal(fd,
                    [vm EXCEPT !.at = "run",
                               !.trace = Append(@, [of |-> "close", out |-> out, ref |-> Top(vm, 0).n])])
    /\ UNCHANGED <<function, stage, fd>>

\* The interrupt handler ends the call with an exception that nothing catches, but
\* one that JS_IteratorClose throws gives way to the exception before it.
Interrupt ==
    /\ Waiting("event") \/ Waiting("close")
    /\ Len(vm.trace) = function.fuel
    /\ vm' = IF vm.at = "event" THEN Ended(vm, "interrupt", Undef)
             ELSE JS_CallInternal(fd, [vm EXCEPT !.at = "run"])
    /\ UNCHANGED <<function, stage, fd>>

Next ==
    \/ Parse \/ ResolveVariables \/ ResolveLabels \/ Call
    \/ Evaluate \/ MakeClosure \/ Resume \/ StartIteration \/ NextResult
    \/ CloseIterator \/ CloseUnwinding \/ Interrupt

Spec == Init /\ [][Next]_vars

-----------------------------------------------------------------------------
Done == stage = "run" /\ vm.at = "done"

\* The code does what the statements mean, whatever comes of its events; and it is
\* refused exactly for a break or continue with nowhere to go.
RunsAsWritten ==
    /\ stage # "source" => (stage = "error") = ~LegalAll(function.body, {}, {})
    /\ Done => Meaning(function, vm.trace) =
                   [trace |-> vm.trace, type |-> vm.type,
                    value |-> [n |-> vm.value.n, b |-> vm.value.b]]

\* compute_stack_size finds no inconsistency, its size is enough, and at every event
\* the depth and the innermost handler are those it computed.
StackForeseen ==
    stage = "run" =>
        /\ ~fd.fail
        /\ vm.high <= fd.stack_size
        /\ vm.at = "event" =>
              LET catch == fd.catch[vm.pc]
                  of == fd.code[catch].op = "for_of_start"
              IN /\ Depth(vm) = fd.level[vm.pc]
                 /\ (catch = -1) = (Catches(vm) = {})
                 /\ catch # -1 =>
                       /\ Max(Catches(vm)) = Below(fd.code, fd, catch) + 1
                       /\ vm.stack[Max(Catches(vm))].n = (IF of THEN 0 ELSE fd.code[catch].arg)
=============================================================================
