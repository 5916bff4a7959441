------------------------------ MODULE Statements ------------------------------
(***************************************************************************)
(* Statements and what they mean, by completions as ECMAScript does: what  *)
(* the code that ControlFlow compiles them to must do.                     *)
(*                                                                         *)
(* A statement shows itself by its events: an expression is evaluated, a   *)
(* closure is made, an iterator is asked for, stepped or closed.  What     *)
(* comes of an event is given from outside.                                *)
(***************************************************************************)
EXTENDS Integers, Sequences, SequencesExt, FiniteSetsExt

-----------------------------------------------------------------------------
None == [is |-> "none"]
Ev(name) == [is |-> "event", name |-> name]
Yield(name) == [is |-> "yield", name |-> name]
Closure(name) == [is |-> "closure", name |-> name]   \* over the innermost variable
Const(b) == [is |-> "const", b |-> b]
Not(e) == [is |-> "not", l |-> e]
And(list) == [is |-> "and", list |-> list]
Or(list) == [is |-> "or", list |-> list]
Cond(c, l, r) == [is |-> "cond", c |-> c, l |-> l, r |-> r]

\* var: whether the block, or the head of the loop, declares a variable with let.
\* A label is "" if there is none; an expression, a clause or a block is None.  A
\* loop has its label itself, and one at most.
Do(e) == [is |-> "expr", e |-> e]
Block(var, list) == [is |-> "block", var |-> var, list |-> list]
If(e, then, else) == [is |-> "if", e |-> e, then |-> then, else |-> else]
While(label, e, body) == [is |-> "while", label |-> label, e |-> e, body |-> body]
DoWhile(label, body, e) == [is |-> "do", label |-> label, e |-> e, body |-> body]
For(label, var, init, test, inc, body) ==
    [is |-> "for", label |-> label, var |-> var, init |-> init, test |-> test, inc |-> inc,
     body |-> body]
ForIn(label, var, lhs, e, body) ==
    [is |-> "for_in", label |-> label, var |-> var, lhs |-> lhs, e |-> e, body |-> body]
ForOf(label, var, lhs, e, body) ==
    [is |-> "for_of", label |-> label, var |-> var, lhs |-> lhs, e |-> e, body |-> body]
Switch(e, clauses) == [is |-> "switch", e |-> e, clauses |-> clauses]
Clause(test, body) == [test |-> test, body |-> body]   \* test None: default
Try(block, handler, finally) ==
    [is |-> "try", block |-> block, handler |-> handler, finally |-> finally]
Break(label) == [is |-> "break", label |-> label]
Continue(label) == [is |-> "continue", label |-> label]
Return(e) == [is |-> "return", e |-> e]
Throw(e) == [is |-> "throw", e |-> e]
Labelled(label, body) == [is |-> "label", label |-> label, body |-> body]

Loops == {"while", "do", "for", "for_in", "for_of"}

-----------------------------------------------------------------------------
(***************************************************************************)
(* Early errors: a break or continue with nowhere to go, and a label that  *)
(* is in use.  breaks and continues are the labels that may be used.       *)
(***************************************************************************)
RECURSIVE Legal(_, _, _), LegalAll(_, _, _)
LegalAll(list, breaks, continues) == \A k \in DOMAIN list : Legal(list[k], breaks, continues)
Legal(st, breaks, continues) ==
    CASE st.is = "break" -> st.label \in breaks
      [] st.is = "continue" -> st.label \in continues
      [] st.is = "block" -> LegalAll(st.list, breaks, continues)
      [] st.is = "if" -> /\ Legal(st.then, breaks, continues)
                         /\ st.else # None => Legal(st.else, breaks, continues)
      [] st.is \in Loops ->
            /\ st.label \notin breaks \ {""}
            /\ Legal(st.body, breaks \cup {"", st.label}, continues \cup {"", st.label})
      [] st.is = "switch" ->
            \A k \in DOMAIN st.clauses :
                LegalAll(st.clauses[k].body, breaks \cup {""}, continues)
      [] st.is = "try" ->
            \A b \in {st.block, st.handler, st.finally} \ {None} : Legal(b, breaks, continues)
      [] st.is = "label" ->
            /\ st.label \notin breaks
            /\ Legal(st.body, breaks \cup {st.label}, continues)
      [] OTHER -> TRUE

-----------------------------------------------------------------------------
(***************************************************************************)
(* The state s of an evaluation: the events, as given and so far; env, the *)
(* instances of the variables in scope; fresh, how many there have been;   *)
(* made, of which variable each closure is; c, the completion.             *)
(***************************************************************************)
Undefined == [n |-> 0, b |-> FALSE]
Completion(type, v, label) == [type |-> type, value |-> v, label |-> label]
Normal(s, v) == [s EXCEPT !.c = Completion("normal", v, "")]
Abrupt(s, type, v, label) == [s EXCEPT !.c = Completion(type, v, label)]
IsNormal(s) == s.c.type = "normal"
Start(given, fuel) ==
    [given |-> given, fuel |-> fuel, trace |-> <<>>, env |-> <<>>, fresh |-> 1, made |-> <<>>,
     c |-> Completion("normal", Undefined, "")]

\* The next event.  ref says of which iterator or closure it is.
Happens(s, of, ref) ==
    LET n == Len(s.trace) + 1
        out == s.given[n].out
        t == [s EXCEPT !.trace = Append(@, [of |-> of, out |-> out, ref |-> ref])]
        v == [n |-> n, b |-> out # "F"]
    IN IF n > s.fuel THEN Abrupt(s, "interrupt", Undefined, "")
       ELSE IF n > Len(s.given) THEN Abrupt(s, "missing", Undefined, "")
       ELSE IF out \in {"throw", "return"} THEN Abrupt(t, out, v, "")
       ELSE Normal(t, v)

Declared(s, var) ==
    IF var THEN [s EXCEPT !.env = Append(@, s.fresh), !.fresh = @ + 1] ELSE s
Renewed(s, var) == IF var THEN Declared([s EXCEPT !.env = Front(@)], var) ELSE s
In(env, s) == [s EXCEPT !.env = env]

RECURSIVE Eval(_, _)
Eval(e, s) ==
    CASE e.is \in {"event", "yield"} -> Happens(s, e.name, 0)
      [] e.is = "closure" ->
            LET n == Len(s.trace) + 1
                first == Min({n} \cup {made[1] : made \in {m \in ToSet(s.made) : m[2] = Last(s.env)}})
            IN Happens([s EXCEPT !.made = Append(@, <<n, Last(s.env)>>)], e.name, first)
      [] e.is = "const" -> Normal(s, [n |-> 0, b |-> e.b])
      [] e.is = "cond" ->
            LET c == Eval(e.c, s)
            IN IF ~IsNormal(c) THEN c ELSE Eval(IF c.c.value.b THEN e.l ELSE e.r, c)
      [] e.is = "not" ->
            LET l == Eval(e.l, s)
            IN IF IsNormal(l) THEN Normal(l, [n |-> 0, b |-> ~l.c.value.b]) ELSE l
      [] e.is \in {"and", "or"} ->
            LET l == Eval(Head(e.list), s)
            IN IF Len(e.list) > 1 /\ IsNormal(l) /\ l.c.value.b = (e.is = "and")
               THEN Eval([e EXCEPT !.list = Tail(@)], l) ELSE l

\* LoopContinues and what a break makes of a loop or a labelled statement.
LoopContinues(s, label) ==
    IsNormal(s) \/ (s.c.type = "continue" /\ s.c.label \in {"", label})
Broken(s, labels) ==
    IF s.c.type = "break" /\ s.c.label \in labels THEN Normal(s, Undefined) ELSE s

\* IteratorClose: an exception goes before one of the call.
Closed(s, iterator) ==
    LET t == Happens(s, "close", iterator)
    IN CASE s.c.type \in {"interrupt", "missing"} -> s
         [] s.c.type = "throw" -> IF t.c.type = "missing" THEN t ELSE [t EXCEPT !.c = s.c]
         [] OTHER -> IF IsNormal(t) THEN [t EXCEPT !.c = s.c] ELSE t

RECURSIVE Exec(_, _), ExecAll(_, _), Iterate(_, _), ForEach(_, _, _), Matching(_, _, _)

ExecAll(list, s) ==
    IF list = <<>> \/ ~IsNormal(s) THEN s ELSE ExecAll(Tail(list), Exec(Head(list), s))

\* One iteration of while, do or for, and those after it.
Iterate(st, s) ==
    LET test == CASE st.is = "while" -> st.e
                  [] st.is = "do" -> Const(TRUE)
                  [] st.is = "for" -> IF st.test = None THEN Const(TRUE) ELSE st.test
        Again(i) ==
            IF ~IsNormal(i) THEN i
            ELSE IF st.is = "do" /\ ~i.c.value.b THEN Normal(i, Undefined) ELSE Iterate(st, i)
        Renew(i) == IF st.inc = None THEN i ELSE Eval(st.inc, i)
        Behind(b) ==
            CASE st.is = "for" -> Renew(Renewed(b, st.var))
              [] st.is = "do" -> Eval(st.e, b)
              [] st.is = "while" -> b
        After(b) ==
            IF LoopContinues(b, st.label) THEN Again(Behind(Normal(b, Undefined)))
            ELSE Broken(b, {"", st.label})
        Tested(t) ==
            IF ~IsNormal(t) THEN t
            ELSE IF t.c.value.b THEN After(Exec(st.body, t)) ELSE Normal(t, Undefined)
    IN Tested(Eval(test, s))

ForEach(st, iterator, s) ==
    LET After(b) ==
            IF LoopContinues(b, st.label) THEN ForEach(st, iterator, Normal(b, Undefined))
            ELSE Broken(IF st.is = "for_of" THEN Closed(b, iterator) ELSE b, {"", st.label})
        Body(l) == After(In(s.env, IF IsNormal(l) THEN Exec(st.body, l) ELSE l))
        Assigned(d) == Body(IF st.lhs = None THEN d ELSE Eval(st.lhs, d))
        Stepped(n) ==
            IF ~IsNormal(n) THEN n
            ELSE IF Last(n.trace).out = "done" THEN Normal(n, Undefined)
            ELSE Assigned(Declared(n, st.var))
    IN Stepped(Happens(s, IF st.is = "for_of" THEN "next" ELSE "key", iterator))

\* The first clause from the k-th on whose test holds, or none, and what is left.
Matching(clauses, k, s) ==
    IF k > Len(clauses) THEN [at |-> 0, s |-> s]
    ELSE IF clauses[k].test = None THEN Matching(clauses, k + 1, s)
    ELSE LET Tested(t) ==
                 IF IsNormal(t) /\ ~t.c.value.b THEN Matching(clauses, k + 1, t)
                 ELSE [at |-> k, s |-> t]
         IN Tested(Eval(clauses[k].test, s))

ExecIf(st, t) ==
    IF ~IsNormal(t) THEN t
    ELSE IF t.c.value.b THEN Exec(st.then, t)
    ELSE IF st.else = None THEN t ELSE Exec(st.else, t)

ExecFor(st, s) ==
    LET Begun(i) == IF IsNormal(i) THEN Iterate(st, Renewed(i, st.var)) ELSE i
        Declaring(d) == Begun(IF st.init = None THEN d ELSE Eval(st.init, d))
    IN In(s.env, Declaring(Declared(s, st.var)))

ExecForEach(st, s) ==
    LET Begun(t) == IF IsNormal(t) THEN ForEach(st, Len(t.trace), t) ELSE t
        Iterator(e) ==
            IF IsNormal(e) THEN Begun(Happens(e, IF st.is = "for_of" THEN "iterator" ELSE "keys", 0))
            ELSE e
    IN Iterator(In(s.env, Eval(st.e, Declared(s, st.var))))

ExecSwitch(st, s) ==
    LET default == {k \in DOMAIN st.clauses : st.clauses[k].test = None}
        bodies == [k \in DOMAIN st.clauses |-> st.clauses[k].body]
        Bodies(from, t) ==
            IF from = 0 \/ ~IsNormal(t) THEN t
            ELSE Broken(ExecAll(FlattenSeq(SubSeq(bodies, from, Len(bodies))), t), {""})
        Matched(m) == Bodies(IF m.at = 0 /\ default # {} THEN Min(default) ELSE m.at, m.s)
        Chosen(e) == IF IsNormal(e) THEN Matched(Matching(st.clauses, 1, e)) ELSE e
    IN Chosen(Eval(st.e, s))

ExecTry(st, s) ==
    LET Finally(f, c) == IF IsNormal(f) THEN [f EXCEPT !.c = c] ELSE f
        Caught(c) ==
            IF st.finally = None \/ c.c.type \in {"interrupt", "missing"} THEN c
            ELSE Finally(Exec(st.finally, Normal(c, Undefined)), c.c)
        Tried(b) ==
            Caught(IF b.c.type = "throw" /\ st.handler # None
                   THEN Exec(st.handler, Normal(b, Undefined)) ELSE b)
    IN Tried(Exec(st.block, s))

ExecLeap(st, e) == IF IsNormal(e) THEN Abrupt(e, st.is, e.c.value, "") ELSE e

Exec(st, s) ==
    CASE st.is = "expr" -> Eval(st.e, s)
      [] st.is = "block" -> In(s.env, ExecAll(st.list, Declared(s, st.var)))
      [] st.is = "if" -> ExecIf(st, Eval(st.e, s))
      [] st.is \in {"while", "do"} -> Iterate(st, s)
      [] st.is = "for" -> ExecFor(st, s)
      [] st.is \in {"for_in", "for_of"} -> ExecForEach(st, s)
      [] st.is = "switch" -> ExecSwitch(st, s)
      [] st.is = "try" -> ExecTry(st, s)
      [] st.is \in {"break", "continue"} -> Abrupt(s, st.is, Undefined, st.label)
      [] st.is \in {"return", "throw"} ->
            ExecLeap(st, IF st.e = None THEN Normal(s, Undefined) ELSE Eval(st.e, s))
      [] st.is = "label" -> Broken(Exec(st.body, s), {st.label})

-----------------------------------------------------------------------------
\* What a function does: its events, whether it returns, throws or is interrupted,
\* as it is when it has had its fuel of events, and with which value.
Meaning(f, given) ==
    LET Result(s) ==
            [trace |-> s.trace,
             type |-> IF IsNormal(s) THEN "return" ELSE s.c.type,
             value |-> IF IsNormal(s) THEN Undefined ELSE s.c.value]
    IN Result(ExecAll(f.body, Start(given, f.fuel)))
=============================================================================
