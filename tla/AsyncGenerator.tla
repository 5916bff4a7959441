---------------------------- MODULE AsyncGenerator ----------------------------
(***************************************************************************)
(* The request queue of an async generator (JSAsyncGeneratorData and       *)
(* js_async_generator_resume_next of quickjs.c).                           *)
(*                                                                         *)
(* next, return and throw queue a request and may be called at any time,   *)
(* also while the body of the generator runs or waits.  The loop of        *)
(* js_async_generator_resume_next runs the body for the first request and  *)
(* answers it.  To answer is to call the resolving function of the         *)
(* request's promise, which looks up the then property of the result: a    *)
(* program that defines Object.prototype.then runs inside that call, and   *)
(* may call next there.                                                    *)
(***************************************************************************)
EXTENDS AsyncGeneratorState, Integers, SequencesExt

CONSTANTS
    MaxRequests,  \* bound: requests
    MaxAwaits,    \* bound: awaits of the body
    ThenDefined   \* TRUE if code can run inside the answers

BoundsAssumption ==
    MaxRequests \in Nat /\ MaxAwaits \in Nat /\ ThenDefined \in BOOLEAN

vars == <<state, queue, stack, func, awaits, returns, asked, paused, answers, runs, fault>>

States == {"SUSPENDED_START", "SUSPENDED_YIELD", "EXECUTING",
           "AWAITING_RETURN", "COMPLETED"}

Magic == {"next", "return", "throw"}

\* An activation is at the top of its loop, runs the body, or answers a
\* request, after which it goes on or is done.
Activation == {"loop", "body", "answer", "last_answer"}

TypeOK ==
    /\ state \in States
    /\ queue \in Seq([id : 1..MaxRequests, type : Magic])
    /\ stack \in Seq(Activation)
    /\ func \in {"start", "yield", "await", "running", "none"}
    /\ awaits \in 0..1 /\ returns \in 0..1
    /\ asked \in 0..MaxRequests /\ paused \in 0..MaxAwaits
    /\ answers \in Seq(1..MaxRequests) /\ runs \in 0..MaxRequests
    /\ fault \in {"none", "resumed", "assert"}

Init ==
    /\ state = "SUSPENDED_START"
    /\ queue = <<>> /\ stack = <<>>
    /\ func = "start"
    /\ awaits = 0 /\ returns = 0 /\ asked = 0 /\ paused = 0
    /\ answers = <<>> /\ runs = 0
    /\ fault = "none"

Goto(a) == Append(Front(stack), a)

\* js_async_generator_resolve_or_reject: the first request is answered; then
\* the activation goes on (a = "loop") or is done.
Answer(a) ==
    /\ queue' = Tail(queue)
    /\ answers' = Append(answers, Head(queue).id)
    /\ stack' = IF ThenDefined THEN Goto(IF a = "loop" THEN "answer" ELSE "last_answer")
                ELSE IF a = "loop" THEN Goto("loop") ELSE Front(stack)

\* Mutants of Ask: the request is queued first; the loop runs whatever the state.
AskFirst(type) ==
    /\ Idle \/ At("body") \/ At("answer") \/ At("last_answer")
    /\ asked < MaxRequests
    /\ asked' = asked + 1
    /\ queue' = <<[id |-> asked + 1, type |-> type]>> \o queue
    /\ stack' = IF state # "EXECUTING" THEN Append(stack, "loop") ELSE stack
    /\ UNCHANGED <<state, func, awaits, returns, paused, answers, runs, fault>>

AskAlways(type) ==
    /\ Idle \/ At("body") \/ At("answer") \/ At("last_answer")
    /\ asked < MaxRequests
    /\ asked' = asked + 1
    /\ queue' = Append(queue, [id |-> asked + 1, type |-> type])
    /\ stack' = Append(stack, "loop")
    /\ UNCHANGED <<state, func, awaits, returns, paused, answers, runs, fault>>

\* js_async_generator_next: code calls next, return or throw, when the host
\* calls it, in the body of the generator, or inside an answer.
Ask(type) ==
    /\ Idle \/ At("body") \/ At("answer") \/ At("last_answer")
    /\ asked < MaxRequests
    /\ asked' = asked + 1
    /\ queue' = Append(queue, [id |-> asked + 1, type |-> type])
    /\ stack' = IF state # "EXECUTING" THEN Append(stack, "loop") ELSE stack
    /\ UNCHANGED <<state, func, awaits, returns, paused, answers, runs, fault>>

\* The answer has been given.
Answered ==
    /\ At("answer") \/ At("last_answer")
    /\ stack' = IF Top = "answer" THEN Goto("loop") ELSE Front(stack)
    /\ UNCHANGED <<state, queue, func, awaits, returns, asked, paused, answers, runs, fault>>

\* The loop ends: nothing is queued, or a return is awaited.
LoopEnds ==
    /\ At("loop")
    /\ queue = <<>> \/ state = "AWAITING_RETURN"
    /\ stack' = Front(stack)
    /\ UNCHANGED <<state, queue, func, awaits, returns, asked, paused, answers, runs, fault>>

\* async_func_resume: the body runs for the first request.
Resume ==
    /\ state' = "EXECUTING"
    /\ stack' = Goto("body")
    /\ func' = "running"
    /\ runs' = Head(queue).id
    /\ UNCHANGED <<queue, awaits, returns, asked, paused, answers>>

\* The loop resumes the body: after an await, at its start, or at a yield.
LoopResumes ==
    /\ At("loop") /\ queue # <<>>
    /\ \/ state = "EXECUTING"
       \/ state = "SUSPENDED_START" /\ Head(queue).type = "next"
       \/ state = "SUSPENDED_YIELD"
    /\ fault' = IF state = "EXECUTING" /\ (func # "await" \/ awaits > 0)
                THEN "resumed" ELSE "none"
    /\ Resume

\* js_async_generator_complete, for return and throw before the start.
LoopCompletes ==
    /\ At("loop") /\ queue # <<>>
    /\ state = "SUSPENDED_START" /\ Head(queue).type # "next"
    /\ state' = "COMPLETED" /\ func' = "none"
    /\ UNCHANGED <<queue, stack, awaits, returns, asked, paused, answers, runs, fault>>

\* A request to a completed generator: next and throw are answered, the value
\* of return is awaited (js_async_generator_completed_return).
LoopCompleted ==
    /\ At("loop") /\ queue # <<>>
    /\ state = "COMPLETED"
    /\ IF Head(queue).type = "return"
       THEN /\ state' = "AWAITING_RETURN"
            /\ returns' = returns + 1
            /\ stack' = Front(stack)
            /\ UNCHANGED <<queue, answers>>
       ELSE Answer("done") /\ UNCHANGED <<state, returns>>
    /\ UNCHANGED <<func, awaits, asked, paused, runs, fault>>

-----------------------------------------------------------------------------
\* The body yields: the request is answered, and the loop looks for the next.
Yield ==
    /\ At("body") /\ queue # <<>>
    /\ state' = "SUSPENDED_YIELD" /\ func' = "yield"
    /\ Answer("loop")
    /\ UNCHANGED <<awaits, returns, asked, paused, runs, fault>>

\* The body returns or throws.
Finish ==
    /\ At("body") /\ queue # <<>>
    /\ state' = "COMPLETED" /\ func' = "none"
    /\ Answer("loop")
    /\ UNCHANGED <<awaits, returns, asked, paused, runs, fault>>

\* js_async_generator_await: the activation is done, the state stays EXECUTING.
\* (When the value cannot be awaited, the body goes on with an exception.)
Await ==
    /\ At("body") /\ paused < MaxAwaits
    /\ func' = "await"
    /\ awaits' = awaits + 1 /\ paused' = paused + 1
    /\ stack' = Front(stack)
    /\ UNCHANGED <<state, queue, returns, asked, answers, runs, fault>>

-----------------------------------------------------------------------------
\* Jobs: js_async_generator_resolve_function.  The awaited promise is settled.
AwaitDone ==
    /\ Idle /\ awaits > 0
    /\ awaits' = awaits - 1
    /\ fault' = IF state = "EXECUTING" THEN "none" ELSE "assert"
    /\ stack' = <<"loop">>
    /\ UNCHANGED <<state, queue, func, returns, asked, paused, answers, runs>>

\* The value of return is known: the request that waits is answered.
ReturnDone ==
    /\ Idle /\ returns > 0
    /\ returns' = returns - 1
    /\ fault' = IF state \in {"AWAITING_RETURN", "COMPLETED"} /\ queue # <<>>
                THEN "none" ELSE "assert"
    /\ state' = "COMPLETED"
    /\ queue' = IF queue = <<>> THEN queue ELSE Tail(queue)
    /\ answers' = IF queue = <<>> THEN answers ELSE Append(answers, Head(queue).id)
    /\ stack' = IF ThenDefined THEN <<"last_answer">> ELSE <<>>
    /\ UNCHANGED <<func, awaits, asked, paused, runs>>

Next ==
    \/ \E t \in Magic : Ask(t)
    \/ LoopEnds \/ LoopResumes \/ LoopCompletes \/ LoopCompleted
    \/ Answered \/ Yield \/ Finish \/ Await \/ AwaitDone \/ ReturnDone

\* Everything but the program's calls: the body ends, awaits yield or throws,
\* what it awaits is settled, and jobs run.
Engine == LoopEnds \/ LoopResumes \/ LoopCompletes \/ LoopCompleted \/ Answered
              \/ Yield \/ Finish \/ Await \/ AwaitDone \/ ReturnDone

Spec == Init /\ [][Next]_vars /\ WF_vars(Engine)

-----------------------------------------------------------------------------
\* The assertions of js_async_generator_resolve_function hold, the body waits
\* for what the state says, and it is resumed from EXECUTING "only [...] when
\* restarting execution after await()".  This is so when no code can run inside
\* the answers.
ResumedInTime ==
    /\ ThenDefined \/ fault = "none"
    /\ fault = "none" =>
          /\ func = "none" <=> state \in {"AWAITING_RETURN", "COMPLETED"}
          /\ func = "await" => state = "EXECUTING" /\ (awaits = 1 \/ At("loop"))
          /\ func = "start" <=> state = "SUSPENDED_START"
          /\ func = "yield" <=> state = "SUSPENDED_YIELD"

\* Every request is answered in the end, unless others are ahead of it when the
\* generator completes.
Progress ==
    \A i \in 1..MaxRequests :
        asked >= i ~> Len(answers) >= i \/ state = "COMPLETED"

=============================================================================
