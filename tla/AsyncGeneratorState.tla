------------------------- MODULE AsyncGeneratorState -------------------------
(***************************************************************************)
(* The state of an async generator, and what is promised to those who call *)
(* it.  AsyncGenerator says how the state changes.                         *)
(***************************************************************************)
EXTENDS Naturals, Sequences

VARIABLES
    state,     \* JSAsyncGeneratorData.state
    queue,     \* JSAsyncGeneratorData.queue
    stack,     \* activations of resume_next, innermost last: what each does
    func,      \* what the body of the generator waits for
    awaits,    \* reactions of await that have not run
    returns,   \* reactions of completed_return that have not run
    asked,     \* number of requests
    paused,    \* number of awaits
    answers,   \* history: the requests answered
    runs,      \* history: the request the body runs for
    fault      \* an assertion fails, or the body is resumed at a wrong time

Top == stack[Len(stack)]
\* No code runs; or the innermost activation is at a.
Idle == stack = <<>> /\ fault = "none"
At(a) == stack # <<>> /\ Top = a /\ fault = "none"

\* No request is lost, and they are answered in their order, each by the run of
\* the body it caused: what the body yields never goes to a request that came
\* in meanwhile.  When nothing is left to run, requests may be left over only if
\* the generator has completed: they never wait at a start or a yield.
AnswersInOrder ==
    /\ answers \o [i \in 1..Len(queue) |-> queue[i].id] = [i \in 1..asked |-> i]
    /\ At("body") => queue # <<>> /\ Head(queue).id = runs
    /\ Idle /\ awaits = 0 /\ returns = 0 /\ queue # <<>> => state = "COMPLETED"
==============================================================================
