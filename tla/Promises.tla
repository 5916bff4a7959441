------------------------------- MODULE Promises -------------------------------
(***************************************************************************)
(* Promises, the job queue and async functions of quickjs.c: resolving     *)
(* functions, reactions, thenable jobs, await, the rejection tracker of    *)
(* quickjs-libc.c, and the host that runs scripts and pending jobs.        *)
(*                                                                         *)
(* JavaScript code is the environment: it runs in a script, in a handler,  *)
(* in the then function of an object, or in an async function, and does    *)
(* there what it likes, one operation per step.  Jobs do not interleave:   *)
(* a job runs when nothing else does, to its end.                          *)
(***************************************************************************)
EXTENDS Integers, Sequences, FiniteSets, SequencesExt

CONSTANTS
    Promise,     \* promises
    Async,       \* calls of async functions
    NoFun,       \* undefined where a resolving function may be
    MaxOps,      \* bound: operations of the program
    MaxReactions \* bound: calls of then and await

\* Promises are none of the other values, and NoFun is no function.
ASSUME PromisesAssumption ==
    /\ Promise \cap {"value", "TypeError", "thenable", "throwing"} = {}
    /\ NoFun \notin Promise \cup [promise : Promise, n : Nat \ {0}]

VARIABLES
    eng,     \* the engine: promises, job_list, resolving functions
    calls,   \* the frames of the code that runs, innermost last
    async,   \* JSAsyncFunctionState: async[f], its resolving function, what it awaits
    held,    \* resolving functions in the hands of the program
    ops,     \* number of operations of the program
    ran,     \* history: reactions in the order in which they ran
    follows  \* history: follows[p], the promise p was resolved with

vars == <<eng, calls, async, held, ops, ran, follows>>

\* Objects with a then property: promises, an object with a then function of
\* its own, and an object whose then property throws when it is read.
Object == Promise \cup {"thenable", "throwing"}

Value == {"value", "TypeError"} \cup Object

\* resolving_funcs of promise p: n counts the pairs made for p.
Fun == [promise : Promise, n : Nat \ {0}]

States == {"none", "pending", "fulfilled", "rejected"}

\* What a reaction calls: code of the program, a resolving function of
\* another promise, an async function that waits, or nothing.
Handler ==
    [kind : {"user", "undefined"}] \cup [kind : {"resolving"}, fun : Fun, rej : BOOLEAN]
        \cup [kind : {"resume"}, fun : Async, rej : BOOLEAN]

\* JSPromiseReactionData of one call of then, for both outcomes; id is the
\* number of that call.
Reaction == [of : Promise, id : Nat, on : [BOOLEAN -> Handler],
             cap : Fun \cup {NoFun}]

Job == [kind : {"reaction"}, reaction : Reaction, rej : BOOLEAN, value : Value]
           \cup [kind : {"thenable"}, promise : Promise, thenable : Object]

PromiseData == [state : States, result : Value, reactions : Seq(Reaction),
                handled : BOOLEAN, funs : Nat]

Engine == [promise : [Promise -> PromiseData], jobs : Seq(Job), already : SUBSET Fun,
           unhandled : SUBSET Promise, thens : Nat]

Frame == [kind : {"script", "handler", "then"}, fun : Fun \cup {NoFun}]
             \cup [kind : {"async"}, async : Async]

NewPromise == [state |-> "none", result |-> "value", reactions |-> <<>>,
               handled |-> FALSE, funs |-> 0]

TypeOK ==
    /\ eng \in Engine
    /\ calls \in Seq(Frame)
    /\ async \in [Async -> [state : {"none", "running", "awaiting", "done"},
                           fun : Fun \cup {NoFun}, on : Promise \cup {NoFun}]]
    /\ held \subseteq Fun /\ ops \in Nat
    /\ ran \in Seq(Reaction)
    /\ follows \in [Promise -> Promise \cup {NoFun}]

-----------------------------------------------------------------------------
(***************************************************************************)
(* The engine; every operator gives the state of the engine after a call.  *)
(***************************************************************************)

JS_EnqueueJob(e, job) == [e EXCEPT !.jobs = Append(@, job)]

ReactionJobs(d, rej, v) ==
    [i \in DOMAIN d.reactions |->
        [kind |-> "reaction", reaction |-> d.reactions[i], rej |-> rej, value |-> v]]

Settled(d, rej, v) == [d EXCEPT !.state = IF rej THEN "rejected" ELSE "fulfilled",
                                !.result = v, !.reactions = <<>>]

\* Mutants of fulfill_or_reject_promise: reactions are freed without a job when
\* the promise is rejected; their order is reversed.
settle_lost(e, p, v, rej) ==
    LET d == e.promise[p] IN
    IF d.state # "pending" THEN e ELSE
    [e EXCEPT !.promise[p] = Settled(d, rej, v),
              !.jobs = IF rej THEN @ ELSE @ \o ReactionJobs(d, rej, v),
              !.unhandled = IF rej /\ ~d.handled THEN @ \cup {p} ELSE @]

settle_reversed(e, p, v, rej) ==
    LET d == e.promise[p] IN
    IF d.state # "pending" THEN e ELSE
    [e EXCEPT !.promise[p] = Settled(d, rej, v),
              !.jobs = @ \o Reverse(ReactionJobs(d, rej, v)),
              !.unhandled = IF rej /\ ~d.handled THEN @ \cup {p} ELSE @]

\* fulfill_or_reject_promise: the reactions become jobs, in their order; the
\* host hears of a rejection that nobody handles.
fulfill_or_reject_promise(e, p, v, rej) ==
    LET d == e.promise[p] IN
    IF d.state # "pending" THEN e ELSE
    [e EXCEPT !.promise[p] = Settled(d, rej, v),
              !.jobs = @ \o ReactionJobs(d, rej, v),
              !.unhandled = IF rej /\ ~d.handled THEN @ \cup {p} ELSE @]

\* js_promise_resolve_function_call: the first call of either function of a
\* pair counts.  An object with a then function is asked later, by a job.
resolving_function_call(e, f, rej, v) ==
    IF f = NoFun \/ f \in e.already THEN e ELSE
    LET e1 == [e EXCEPT !.already = @ \cup {f}] IN
    IF rej \/ v \notin Object THEN fulfill_or_reject_promise(e1, f.promise, v, rej)
    ELSE IF v \in {f.promise, "throwing"}
         THEN fulfill_or_reject_promise(e1, f.promise, "TypeError", TRUE)
    ELSE JS_EnqueueJob(e1, [kind |-> "thenable", promise |-> f.promise, thenable |-> v])

\* js_promise_constructor: a promise with its first pair.
js_promise_constructor(e, p) ==
    [e EXCEPT !.promise[p] = [NewPromise EXCEPT !.state = "pending", !.funs = 1]]

FirstFun(p) == [promise |-> p, n |-> 1]

Unused(e) == {p \in Promise : e.promise[p].state = "none"}

\* The promise that is made next.
Next1(e) == CHOOSE p \in Unused(e) : TRUE

\* Mutant of perform_promise_then: the host does not hear of handlers that
\* come late.
then_untold(e, p, on, cap) ==
    LET d == e.promise[p]
        r == [of |-> p, id |-> e.thens + 1, on |-> on, cap |-> cap]
        e1 == [e EXCEPT !.thens = @ + 1, !.promise[p].handled = TRUE]
    IN IF d.state = "pending"
       THEN [e1 EXCEPT !.promise[p].reactions = Append(@, r)]
       ELSE JS_EnqueueJob(e1, ReactionJobs([reactions |-> <<r>>], d.state = "rejected", d.result)[1])

\* perform_promise_then: p gets a reaction, or a job at once if it is settled;
\* the host hears that a rejection is handled after all.
perform_promise_then(e, p, on, cap) ==
    LET d == e.promise[p]
        r == [of |-> p, id |-> e.thens + 1, on |-> on, cap |-> cap]
        e1 == [e EXCEPT !.thens = @ + 1, !.promise[p].handled = TRUE,
                        !.unhandled = @ \ {p}]
    IN IF d.state = "pending"
       THEN [e1 EXCEPT !.promise[p].reactions = Append(@, r)]
       ELSE JS_EnqueueJob(e1, ReactionJobs([reactions |-> <<r>>], d.state = "rejected", d.result)[1])

-----------------------------------------------------------------------------
Init ==
    /\ eng = [promise |-> [p \in Promise |-> NewPromise], jobs |-> <<>>,
              already |-> {}, unhandled |-> {}, thens |-> 0]
    /\ calls = <<>>
    /\ async = [f \in Async |-> [state |-> "none", fun |-> NoFun, on |-> NoFun]]
    /\ held = {}
    /\ ops = 0
    /\ ran = <<>>
    /\ follows = [p \in Promise |-> NoFun]

\* History: the promise whose state a promise takes over by a first call.
Followed(f, rej, v) ==
    IF f # NoFun /\ f \notin eng.already /\ ~rej /\ v \in Promise \ {f.promise}
    THEN [follows EXCEPT ![f.promise] = v] ELSE follows

-----------------------------------------------------------------------------
(***************************************************************************)
(* What code does while it runs                                            *)
(***************************************************************************)

Innermost == calls[Len(calls)]

Running == calls # <<>> /\ ops < MaxOps

Op == ops' = ops + 1

Pop == calls' = SubSeq(calls, 1, Len(calls) - 1)

Values == {"value"} \cup {v \in Object : v \in Promise => eng.promise[v].state # "none"}

\* new Promise(...), with the resolving functions kept.
New ==
    /\ Running /\ Op
    /\ Unused(eng) # {}
    /\ eng' = js_promise_constructor(eng, Next1(eng))
    /\ held' = held \cup {FirstFun(Next1(eng))}
    /\ UNCHANGED <<calls, async, ran, follows>>

\* A resolving function is called; calls after the first change nothing.
Call(f, rej, v) ==
    /\ Running /\ Op
    /\ f \in held
    /\ rej => v = "value"
    /\ eng' = resolving_function_call(eng, f, rej, v)
    /\ follows' = Followed(f, rej, v)
    /\ UNCHANGED <<calls, async, held, ran>>

\* js_promise_then: p.then(handler) with a derived promise; a rejection passes
\* to the derived promise, or is handled as well.
Then(p, h) ==
    /\ Running /\ Op
    /\ eng.promise[p].state # "none" /\ eng.thens < MaxReactions
    /\ Unused(eng) # {}
    /\ LET q == Next1(eng) IN
       eng' = perform_promise_then(js_promise_constructor(eng, q), p,
                  [rej \in BOOLEAN |-> IF rej THEN h ELSE [kind |-> "user"]], FirstFun(q))
    /\ UNCHANGED <<calls, async, held, ran, follows>>

\* js_async_function_call: the body runs at once, on top of its caller.
CallAsync(f) ==
    /\ Running /\ Op
    /\ async[f].state = "none" /\ Unused(eng) # {}
    /\ eng' = js_promise_constructor(eng, Next1(eng))
    /\ async' = [async EXCEPT ![f] = [@ EXCEPT !.state = "running",
                                                 !.fun = FirstFun(Next1(eng))]]
    /\ calls' = Append(calls, [kind |-> "async", async |-> f])
    /\ UNCHANGED <<held, ran, follows>>

\* await p: the function waits for a promise, and its caller goes on.  Other
\* values are awaited through a promise of their own (Promise.resolve).
Await(v) ==
    /\ Running /\ Op
    /\ Innermost.kind = "async" /\ eng.thens < MaxReactions
    /\ v \in Promise \/ Unused(eng) # {}
    /\ LET f == Innermost.async
           p == IF v \in Promise THEN v ELSE Next1(eng)
           e == IF v \in Promise THEN eng
                ELSE resolving_function_call(js_promise_constructor(eng, p), FirstFun(p), FALSE, v)
       IN /\ eng' = perform_promise_then(e, p,
                        [rej \in BOOLEAN |-> [kind |-> "resume", fun |-> f, rej |-> rej]],
                        NoFun)
          /\ async' = [async EXCEPT ![f].state = "awaiting", ![f].on = p]
    /\ Pop
    /\ UNCHANGED <<held, ran, follows>>

\* The code on top returns v, or throws: promise_reaction_job passes the result
\* of a handler on, js_promise_resolve_thenable_job what a then function
\* throws, js_async_function_resume the result of an async function.
Return(v, throws) ==
    LET f == IF Innermost.kind = "async" THEN async[Innermost.async].fun ELSE Innermost.fun IN
    /\ calls # <<>>
    /\ throws => v = "value"
    /\ Pop
    /\ IF Innermost.kind \in {"handler", "async"} \/ (Innermost.kind = "then" /\ throws)
       THEN /\ eng' = resolving_function_call(eng, f, throws, v)
            /\ follows' = Followed(f, throws, v)
       ELSE v = "value" /\ UNCHANGED <<eng, follows>>
    /\ async' = IF Innermost.kind = "async" THEN [async EXCEPT ![Innermost.async].state = "done"] ELSE async
    /\ UNCHANGED <<held, ops, ran>>

-----------------------------------------------------------------------------
(***************************************************************************)
(* The host                                                                *)
(***************************************************************************)

\* A script or an event handler starts.
StartScript ==
    /\ calls = <<>> /\ ops < MaxOps
    /\ Op
    /\ calls' = <<[kind |-> "script", fun |-> NoFun]>>
    /\ UNCHANGED <<eng, async, held, ran, follows>>

Dequeued == [eng EXCEPT !.jobs = Tail(@)]

\* JS_ExecutePendingJob, promise_reaction_job: without a handler the outcome
\* goes on to the derived promise.
ReactionStep ==
    LET job == Head(eng.jobs)
        r == job.reaction
        h == r.on[job.rej]
        f == IF h.kind = "resolving" THEN h.fun ELSE r.cap
        rej == IF h.kind = "resolving" THEN h.rej ELSE job.rej
    IN
    /\ calls = <<>> /\ eng.jobs # <<>> /\ job.kind = "reaction"
    /\ ran' = Append(ran, r)
    /\ IF h.kind \in {"undefined", "resolving"}
       THEN /\ eng' = resolving_function_call(Dequeued, f, rej, job.value)
            /\ follows' = Followed(f, rej, job.value)
            /\ UNCHANGED calls
       ELSE /\ eng' = Dequeued
            /\ calls' = IF h.kind = "user" THEN <<[kind |-> "handler", fun |-> r.cap]>>
                        ELSE <<[kind |-> "async", async |-> h.fun]>>
            /\ UNCHANGED follows
    /\ async' = IF h.kind = "resume" THEN [async EXCEPT ![h.fun].state = "running"] ELSE async
    /\ UNCHANGED <<held, ops>>

\* JS_ExecutePendingJob, js_promise_resolve_thenable_job: a new pair for the
\* promise is passed to then.  The promise that then derives is never looked
\* at, and left out.
ThenableStep ==
    LET job == Head(eng.jobs)
        p == job.promise
        f == [promise |-> p, n |-> eng.promise[p].funs + 1]
        e == [Dequeued EXCEPT !.promise[p].funs = @ + 1]
    IN
    /\ calls = <<>> /\ eng.jobs # <<>> /\ job.kind = "thenable"
    /\ IF job.thenable \in Promise
       THEN /\ eng' = perform_promise_then(e, job.thenable,
                          [rej \in BOOLEAN |-> [kind |-> "resolving", fun |-> f, rej |-> rej]],
                          NoFun)
            /\ UNCHANGED <<calls, held>>
       ELSE /\ eng' = e
            /\ calls' = <<[kind |-> "then", fun |-> f]>>
            /\ held' = held \cup {f}
    /\ UNCHANGED <<async, ops, ran, follows>>

-----------------------------------------------------------------------------
Program ==
    \/ New
    \/ \E f \in held, rej \in BOOLEAN, v \in Values : Call(f, rej, v)
    \/ \E p \in Promise, k \in {"user", "undefined"} : Then(p, [kind |-> k])
    \/ \E f \in Async : CallAsync(f)
    \/ \E v \in Values : Await(v)

Returns == \E v \in Values, throws \in BOOLEAN : Return(v, throws)

ExecutePendingJob == ReactionStep \/ ThenableStep

Next == StartScript \/ Program \/ Returns \/ ExecutePendingJob

\* The event loop runs pending jobs, and code that was called returns.
Fairness == WF_vars(Returns) /\ WF_vars(ExecutePendingJob)

Spec == Init /\ [][Next]_vars /\ Fairness

-----------------------------------------------------------------------------
\* The places of the reactions of an engine, in the order in which a reaction
\* passes them: on the list of its promise, in job_list, among those that ran.
Places(e, r) ==
    {[stage |-> 0, list |-> NoFun, at |-> i, reaction |-> r[i]] : i \in DOMAIN r}
        \cup {[stage |-> 1, list |-> NoFun, at |-> i, reaction |-> e.jobs[i].reaction] :
                 i \in {i \in DOMAIN e.jobs : e.jobs[i].kind = "reaction"}}
        \cup UNION {{[stage |-> 2, list |-> p, at |-> i, reaction |-> e.promise[p].reactions[i]] :
                        i \in DOMAIN e.promise[p].reactions} : p \in Promise}

\* Of two reactions of one promise, the one at x runs before the one at y.
Earlier(x, y) == x.stage < y.stage \/ (x.stage = y.stage /\ x.at < y.at)

\* Every call of then or await leads to one run of its reaction: in whatever
\* order promises are settled, followed and derived, no reaction is lost with a
\* promise or run for both outcomes.  The reactions of one promise run in the
\* order in which they were added, those added when it was settled after those
\* added before.
InOrder ==
    /\ \A id \in 1..eng.thens : Cardinality({x \in Places(eng, ran) : x.reaction.id = id}) = 1
    /\ \A x, y \in Places(eng, ran) :
          x.reaction.of = y.reaction.of /\ Earlier(x, y) => x.reaction.id < y.reaction.id

\* A promise resolved with another promise takes over its state and result,
\* whatever is done with its resolving functions in the meantime.
Follows ==
    \A p \in Promise :
        LET d == eng.promise[p] q == follows[p] IN
        d.state \in {"fulfilled", "rejected"} /\ q # NoFun =>
            d.state = eng.promise[q].state /\ d.result = eng.promise[q].result

\* The list js_std_promise_rejection_check reports holds the rejected promises
\* without a reaction, also when the handler came late.
HostHears ==
    eng.unhandled = {p \in Promise : /\ eng.promise[p].state = "rejected"
                                     /\ \A x \in Places(eng, ran) : x.reaction.of # p}

\* An async function that waits is resumed by one reaction, and one that does
\* not wait by none: async_func_resume asserts that it has not completed.
Resumes(x, f) == x.reaction.on[TRUE].kind = "resume" /\ x.reaction.on[TRUE].fun = f

ResumedOnce ==
    \A f \in Async :
        Cardinality({x \in Places(eng, ran) : x.stage > 0 /\ Resumes(x, f)})
            = IF async[f].state = "awaiting" THEN 1 ELSE 0

JobsExact == TypeOK /\ InOrder /\ Follows /\ ResumedOnce

\* An async function goes on when the promise it awaits is settled.
AwaitGoesOn ==
    \A f \in Async, p \in Promise :
        async[f].state = "awaiting" /\ async[f].on = p
                /\ eng.promise[p].state \in {"fulfilled", "rejected"}
            ~> async[f].state # "awaiting"

=============================================================================
