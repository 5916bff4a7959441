----------------------------- MODULE RequestsProofs -----------------------------
(***************************************************************************)
(* Proofs about the two places that keep requests until they are served.   *)
(*                                                                         *)
(* AsyncGenerator, for any number of requests and awaits: the inductive    *)
(* invariant GenInv, and from it that requests are answered in their order *)
(* by the runs of the body they caused, and that the body is resumed in    *)
(* time when no code can run inside the answers.                           *)
(*                                                                         *)
(* ModuleLoading, for any files that request one another: the inductive    *)
(* invariant LoadInv, and from it that a name is loaded once, and that     *)
(* failures leave incomplete modules behind only where files need each     *)
(* other.                                                                  *)
(***************************************************************************)
EXTENDS AsyncGenerator, ModuleLoading, SequenceTheorems, TLAPS

-----------------------------------------------------------------------------
(***************************************************************************)
(* AsyncGenerator: the inductive invariant                                 *)
(***************************************************************************)

\* The requests answered and those queued are the requests, in their order.
Ordered ==
    /\ asked = Len(answers) + Len(queue)
    /\ \A i \in 1..Len(answers) : answers[i] = i
    /\ \A i \in 1..Len(queue) : queue[i].id = Len(answers) + i

\* Only the innermost activation runs the body.
BodyOnTop ==
    \A i \in 1..Len(stack) :
        stack[i] = "body" => i = Len(stack) /\ func = "running" /\ awaits = 0

\* What the body waits for is what the state says.
FuncExact ==
    /\ func = "start" <=> state = "SUSPENDED_START"
    /\ func = "yield" <=> state = "SUSPENDED_YIELD"
    /\ func = "none" <=> state \in {"AWAITING_RETURN", "COMPLETED"}
    /\ func = "running" => stack # <<>> /\ Top = "body"
    /\ func = "await" => awaits = 1 \/ (stack # <<>> /\ Top = "loop")
    /\ awaits = 1 => func = "await"

\* The first request is the one that the body runs for, or whose value is
\* awaited; a generator that has not started or has yielded has no request
\* that no activation will look at.
Served ==
    /\ state = "EXECUTING" => queue # <<>> /\ queue[1].id = runs
    /\ state = "AWAITING_RETURN" <=> returns = 1
    /\ state = "AWAITING_RETURN" => queue # <<>>
    /\ state \in {"SUSPENDED_START", "SUSPENDED_YIELD"} /\ queue # <<>> =>
          \E i \in 1..Len(stack) : stack[i] \in {"loop", "answer"}

\* Without code inside the answers, activations do not nest.
Single ==
    /\ Len(stack) <= 1
    /\ \A i \in 1..Len(stack) : stack[i] \in {"loop", "body"}
    /\ awaits = 1 => stack = <<>>

\* The inductive invariant.  After a fault nothing more happens.
GenInv ==
    /\ TypeOK
    /\ Ordered
    /\ fault = "none" => BodyOnTop /\ FuncExact /\ Served
    /\ ~ThenDefined => fault = "none" /\ Single

-----------------------------------------------------------------------------
(***************************************************************************)
(* AsyncGenerator: sequences as the actions change them                    *)
(***************************************************************************)

LEMMA AppendFacts ==
  ASSUME NEW S, NEW s \in Seq(S), NEW e \in S
  PROVE  /\ Append(s, e) \in Seq(S)
         /\ Len(Append(s, e)) = Len(s) + 1
         /\ \A i \in 1..Len(s) : Append(s, e)[i] = s[i]
         /\ Append(s, e)[Len(s) + 1] = e
  OBVIOUS

LEMMA TailFacts ==
  ASSUME NEW S, NEW s \in Seq(S), s # <<>>
  PROVE  /\ Tail(s) \in Seq(S) /\ Head(s) \in S /\ Head(s) = s[1]
         /\ Len(Tail(s)) = Len(s) - 1 /\ Len(s) \in Nat \ {0}
         /\ \A i \in 1..Len(s) - 1 : Tail(s)[i] = s[i + 1]
  OBVIOUS

LEMMA FrontFacts ==
  ASSUME NEW S, NEW s \in Seq(S), s # <<>>
  PROVE  /\ Front(s) \in Seq(S)
         /\ Len(Front(s)) = Len(s) - 1 /\ Len(s) \in Nat \ {0}
         /\ \A i \in 1..Len(s) - 1 : Front(s)[i] = s[i]
<1>1. Len(s) \in Nat \ {0}
  OBVIOUS
<1>2. PICK n \in Nat : Len(s) = n + 1
  <2>1. Len(s) - 1 \in Nat /\ Len(s) = (Len(s) - 1) + 1
    BY <1>1
  <2> QED BY <2>1
<1>3. /\ SubSeq(s, 1, n) \in Seq(S) /\ Len(SubSeq(s, 1, n)) = n
      /\ \A i \in 1..n : SubSeq(s, 1, n)[i] = s[i]
  BY <1>2
<1>4. Len(s) - 1 = n
  BY <1>2
<1>5. Front(s) = SubSeq(s, 1, n)
  BY <1>4 DEF Front
<1> QED BY <1>1, <1>3, <1>4, <1>5

\* An activation goes on to do something else.
LEMMA GotoFacts ==
  ASSUME stack \in Seq(Activation), stack # <<>>, NEW a \in Activation
  PROVE  /\ Goto(a) \in Seq(Activation)
         /\ Len(Goto(a)) = Len(stack) /\ Len(stack) \in Nat \ {0}
         /\ \A i \in 1..Len(stack) - 1 : Goto(a)[i] = stack[i]
         /\ Goto(a)[Len(stack)] = a
<1>1. /\ Front(stack) \in Seq(Activation)
      /\ Len(Front(stack)) = Len(stack) - 1 /\ Len(stack) \in Nat \ {0}
      /\ \A i \in 1..Len(stack) - 1 : Front(stack)[i] = stack[i]
  BY FrontFacts
<1> QED BY <1>1, AppendFacts DEF Goto

-----------------------------------------------------------------------------
(***************************************************************************)
(* AsyncGenerator: the requests                                            *)
(***************************************************************************)

Request == [id : 1..MaxRequests, type : Magic]

QueueTypes == queue \in Seq(Request) /\ answers \in Seq(1..MaxRequests)

\* A request more is queued.
LEMMA AskOrdered ==
  ASSUME BoundsAssumption, TypeOK, Ordered, NEW t \in Magic, asked < MaxRequests,
         asked' = asked + 1, queue' = Append(queue, [id |-> asked + 1, type |-> t]),
         UNCHANGED answers
  PROVE  /\ QueueTypes' /\ Ordered' /\ asked' \in 0..MaxRequests
         /\ queue' # <<>>
         /\ queue # <<>> => queue'[1] = queue[1]
<1> DEFINE r == [id |-> asked + 1, type |-> t]
<1>1. /\ queue \in Seq(Request) /\ answers \in Seq(1..MaxRequests)
      /\ MaxRequests \in Nat /\ asked \in Nat /\ r \in Request
      /\ Len(answers) \in Nat /\ Len(queue) \in Nat
  <2>1. queue \in Seq(Request) /\ answers \in Seq(1..MaxRequests) /\ asked \in 0..MaxRequests
    BY DEF TypeOK, Request
  <2>2. MaxRequests \in Int
    BY DEF BoundsAssumption
  <2>3. MaxRequests \in Nat /\ r \in Request
    BY <2>1 DEF BoundsAssumption, Request
  <2> QED BY <2>1, <2>3
<1>2. /\ queue' \in Seq(Request) /\ Len(queue') = Len(queue) + 1
      /\ \A i \in 1..Len(queue) : queue'[i] = queue[i]
      /\ queue'[Len(queue) + 1] = r
  BY <1>1, AppendFacts
<1>3. ASSUME NEW i \in 1..Len(queue') PROVE queue'[i].id = Len(answers') + i
  <2>1. CASE i \in 1..Len(queue)
    BY <2>1, <1>2 DEF Ordered
  <2>2. CASE i = Len(queue) + 1
    BY <2>2, <1>1, <1>2 DEF Ordered
  <2> QED BY <2>1, <2>2, <1>1, <1>2
<1>4. queue' # <<>> /\ (queue # <<>> => queue'[1] = queue[1])
  BY <1>1, <1>2
<1>5. asked' \in 0..MaxRequests
  BY <1>1
<1>6. Ordered'
  BY <1>1, <1>2, <1>3 DEF Ordered
<1> QED BY <1>1, <1>2, <1>4, <1>5, <1>6 DEF QueueTypes

\* The first request of the queue is answered.
LEMMA AnswerOrdered ==
  ASSUME TypeOK, Ordered, queue # <<>>,
         queue' = Tail(queue), answers' = Append(answers, Head(queue).id), UNCHANGED asked
  PROVE  QueueTypes' /\ Ordered'
<1>1. /\ queue \in Seq(Request) /\ answers \in Seq(1..MaxRequests) /\ Len(answers) \in Nat
  BY DEF TypeOK, Request
<1>2. /\ queue' \in Seq(Request) /\ Head(queue) = queue[1] /\ queue[1] \in Request
      /\ Len(queue') = Len(queue) - 1 /\ Len(queue) \in Nat \ {0}
      /\ \A i \in 1..Len(queue) - 1 : queue'[i] = queue[i + 1]
  BY <1>1, TailFacts
<1>3. /\ answers' \in Seq(1..MaxRequests) /\ Len(answers') = Len(answers) + 1
      /\ \A i \in 1..Len(answers) : answers'[i] = answers[i]
      /\ answers'[Len(answers) + 1] = queue[1].id
  BY <1>1, <1>2, AppendFacts DEF Request
<1>4. queue[1].id = Len(answers) + 1
  BY <1>2 DEF Ordered
<1>5. ASSUME NEW i \in 1..Len(answers') PROVE answers'[i] = i
  <2>1. CASE i \in 1..Len(answers)
    BY <2>1, <1>3 DEF Ordered
  <2>2. CASE i = Len(answers) + 1
    BY <2>2, <1>3, <1>4
  <2> QED BY <2>1, <2>2, <1>1, <1>3
<1>6. ASSUME NEW i \in 1..Len(queue') PROVE queue'[i].id = Len(answers') + i
  <2>1. i + 1 \in 1..Len(queue) /\ queue'[i] = queue[i + 1]
    BY <1>2
  <2>2. queue[i + 1].id = Len(answers) + (i + 1)
    BY <2>1 DEF Ordered
  <2> QED BY <2>1, <2>2, <1>1, <1>2, <1>3
<1>7. asked' = Len(answers') + Len(queue')
  BY <1>1, <1>2, <1>3 DEF Ordered
<1> QED BY <1>2, <1>3, <1>5, <1>6, <1>7 DEF Ordered, QueueTypes

\* Nothing happens to the requests.
LEMMA SameOrdered ==
  ASSUME TypeOK, Ordered, UNCHANGED <<queue, answers, asked>>
  PROVE  QueueTypes' /\ Ordered'
  BY DEF TypeOK, QueueTypes, Request, Ordered

-----------------------------------------------------------------------------
(***************************************************************************)
(* AsyncGenerator: the steps                                               *)
(***************************************************************************)

LEMMA InitGenInv == BoundsAssumption /\ Init => GenInv
<1> SUFFICES ASSUME BoundsAssumption, Init PROVE GenInv
  OBVIOUS
<1>1. TypeOK
  BY DEF Init, TypeOK, BoundsAssumption, States
<1>2. Ordered
  BY DEF Init, Ordered
<1>3. BodyOnTop /\ FuncExact /\ Served /\ Single
  BY DEF Init, BodyOnTop, FuncExact, Served, Single
<1> QED BY <1>1, <1>2, <1>3 DEF GenInv, Init

LEMMA AskGenInv ==
  ASSUME BoundsAssumption, GenInv, NEW t \in Magic, Ask(t)
  PROVE  GenInv'
<1>1. /\ TypeOK /\ Ordered /\ BodyOnTop /\ FuncExact /\ Served
      /\ ~ThenDefined => Single
      /\ fault = "none" /\ fault' = "none"
  BY DEF GenInv, Ask, Idle, At
<1>2. /\ QueueTypes' /\ Ordered' /\ asked' \in 0..MaxRequests /\ queue' # <<>>
      /\ queue # <<>> => queue'[1] = queue[1]
  BY <1>1, AskOrdered DEF Ask
<1>3. /\ stack' = IF state # "EXECUTING" THEN Append(stack, "loop") ELSE stack
      /\ UNCHANGED <<state, func, awaits, returns, paused, answers, runs>>
  BY DEF Ask
<1>4. stack \in Seq(Activation) /\ Len(stack) \in Nat /\ "loop" \in Activation
  <2>1. stack \in Seq(Activation) /\ "loop" \in Activation
    BY <1>1 DEF TypeOK, Activation
  <2> QED BY <2>1
<1>5. CASE state = "EXECUTING"
  <2>1. stack' = stack
    BY <1>3, <1>5
  <2>2. TypeOK'
    BY <1>1, <1>2, <1>3, <2>1 DEF TypeOK, QueueTypes, Request
  <2>3. BodyOnTop' /\ FuncExact' /\ Served'
    BY <1>1, <1>2, <1>3, <1>5, <2>1 DEF BodyOnTop, FuncExact, Served, Top
  <2>4. ~ThenDefined => Single'
    BY <1>1, <1>3, <2>1 DEF Single
  <2> QED BY <1>1, <1>2, <2>2, <2>3, <2>4 DEF GenInv
<1>6. CASE state # "EXECUTING"
  <2>1. /\ stack' \in Seq(Activation) /\ Len(stack') = Len(stack) + 1
        /\ \A i \in 1..Len(stack) : stack'[i] = stack[i]
        /\ stack'[Len(stack) + 1] = "loop"
    BY <1>3, <1>4, <1>6, AppendFacts
  <2>2. TypeOK'
    BY <1>1, <1>2, <1>3, <2>1 DEF TypeOK, QueueTypes, Request
  <2>3. func \notin {"running", "await"} /\ awaits # 1
    BY <1>1, <1>6 DEF FuncExact, TypeOK, States
  <2>4. BodyOnTop'
    BY <1>1, <1>3, <1>4, <2>1, <2>3 DEF BodyOnTop
  <2>5. FuncExact'
    BY <1>1, <1>3, <2>3 DEF FuncExact
  <2>6. Served'
    <3>1. Len(stack) + 1 \in 1..Len(stack') /\ stack'[Len(stack) + 1] = "loop"
      BY <1>4, <2>1
    <3> QED BY <1>1, <1>2, <1>3, <1>6, <3>1 DEF Served
  <2>7. ASSUME ~ThenDefined PROVE Single'
    <3>1. stack = <<>>
      <4>1. stack = <<>> \/ (stack # <<>> /\ Top \in {"body", "answer", "last_answer"})
        BY DEF Ask, Idle, At
      <4>2. stack # <<>> => Len(stack) \in 1..Len(stack)
        BY <1>4
      <4> QED BY <1>1, <2>3, <2>7, <4>1, <4>2 DEF Single, Top, BodyOnTop
    <3>2. Len(stack) = 0
      BY <3>1
    <3>3. Len(stack') = 1 /\ \A i \in 1..Len(stack') : stack'[i] = "loop"
      BY <2>1, <3>2
    <3> QED BY <1>3, <2>3, <3>3 DEF Single
  <2> QED BY <1>1, <1>2, <2>2, <2>4, <2>5, <2>6, <2>7 DEF GenInv
<1> QED BY <1>5, <1>6

\* The innermost of n + 1 activations is done, or goes on to a.
LEMMA StackFacts ==
  ASSUME TypeOK, stack # <<>>
  PROVE  \E n \in Nat :
         /\ Len(stack) = n + 1 /\ Top = stack[n + 1]
         /\ stack' = Front(stack) =>
              /\ stack' \in Seq(Activation) /\ Len(stack') = n
              /\ \A i \in 1..n : stack'[i] = stack[i]
         /\ \A a \in Activation : stack' = Goto(a) =>
              /\ stack' \in Seq(Activation) /\ Len(stack') = n + 1
              /\ \A i \in 1..n : stack'[i] = stack[i]
              /\ stack' # <<>> /\ stack'[n + 1] = a
<1>1. stack \in Seq(Activation)
  BY DEF TypeOK
<1>2. Len(stack) \in Nat \ {0}
  BY <1>1
<1>3. PICK n \in Nat : Len(stack) = n + 1
  <2>1. Len(stack) - 1 \in Nat /\ Len(stack) = (Len(stack) - 1) + 1
    BY <1>2
  <2> QED BY <2>1
<1>4. Len(stack) - 1 = n
  BY <1>3
<1>5. stack' = Front(stack) =>
        /\ stack' \in Seq(Activation) /\ Len(stack') = n
        /\ \A i \in 1..n : stack'[i] = stack[i]
  BY <1>1, <1>4, FrontFacts
<1>6. ASSUME NEW a \in Activation, stack' = Goto(a)
      PROVE  /\ stack' \in Seq(Activation) /\ Len(stack') = n + 1
             /\ \A i \in 1..n : stack'[i] = stack[i]
             /\ stack' # <<>> /\ stack'[n + 1] = a
  <2>1. /\ stack' \in Seq(Activation) /\ Len(stack') = Len(stack)
        /\ \A i \in 1..Len(stack) - 1 : stack'[i] = stack[i]
        /\ stack'[Len(stack)] = a
    BY <1>1, <1>6, GotoFacts
  <2> QED BY <1>3, <1>4, <2>1
<1> QED BY <1>3, <1>5, <1>6 DEF Top

\* The activations below one that does not run the body do not run it either.
LEMMA NoBody ==
  ASSUME GenInv, fault = "none", stack # <<>>, Top # "body"
  PROVE  \A i \in 1..Len(stack) : stack[i] # "body"
  BY DEF GenInv, BodyOnTop, Top

\* What an action that starts with an activation of kind a on top may use.
LEMMA AtFacts ==
  ASSUME GenInv, NEW a, At(a)
  PROVE  /\ TypeOK /\ Ordered /\ BodyOnTop /\ FuncExact /\ Served
         /\ ~ThenDefined => Single
         /\ fault = "none" /\ stack # <<>> /\ Top = a
         /\ state \in States /\ awaits \in 0..1 /\ returns \in 0..1
  BY DEF GenInv, At, TypeOK

\* No activation answers a request unless code can run inside the answers.
LEMMA AnswersNest ==
  ASSUME GenInv, NEW a \in {"answer", "last_answer"}, At(a)
  PROVE  ThenDefined
<1>1. /\ ~ThenDefined => Single
      /\ stack # <<>> /\ Top = a /\ TypeOK
  BY AtFacts
<1>2. PICK n \in Nat : Len(stack) = n + 1 /\ Top = stack[n + 1]
  BY <1>1, StackFacts
<1>3. n + 1 \in 1..Len(stack)
  BY <1>2
<1> QED BY <1>1, <1>2, <1>3 DEF Single

LEMMA AnsweredGenInv == GenInv /\ Answered => GenInv'
<1> SUFFICES ASSUME GenInv, Answered PROVE GenInv'
  OBVIOUS
<1>1. /\ TypeOK /\ Ordered /\ BodyOnTop /\ FuncExact /\ Served
      /\ fault = "none" /\ stack # <<>> /\ Top \in {"answer", "last_answer"}
      /\ awaits \in 0..1 /\ ThenDefined
  BY AtFacts, AnswersNest DEF Answered
<1>2. /\ stack' = IF Top = "answer" THEN Goto("loop") ELSE Front(stack)
      /\ UNCHANGED <<state, queue, func, awaits, returns, asked, paused, answers, runs, fault>>
  BY DEF Answered
<1>3. func # "running" /\ (func = "await" => awaits = 1)
  BY <1>1 DEF FuncExact
<1>4. FuncExact'
  BY <1>1, <1>2, <1>3 DEF FuncExact
<1>5. \A i \in 1..Len(stack) : stack[i] # "body"
  BY <1>1, NoBody
<1>6. /\ stack' \in Seq(Activation)
      /\ \A i \in 1..Len(stack') : stack'[i] # "body"
      /\ (\E i \in 1..Len(stack) : stack[i] \in {"loop", "answer"})
            => \E i \in 1..Len(stack') : stack'[i] \in {"loop", "answer"}
  <2>1. CASE Top = "answer"
    <3>1. "loop" \in Activation
      BY DEF Activation
    <3>2. PICK n \in Nat :
            /\ Len(stack) = n + 1
            /\ stack' \in Seq(Activation) /\ Len(stack') = n + 1
            /\ \A i \in 1..n : stack'[i] = stack[i]
            /\ stack'[n + 1] = "loop"
      BY <1>1, <1>2, <2>1, <3>1, StackFacts
    <3> QED BY <1>5, <3>2
  <2>2. CASE Top = "last_answer"
    <3>1. PICK n \in Nat :
            /\ Len(stack) = n + 1 /\ stack[n + 1] = "last_answer"
            /\ stack' \in Seq(Activation) /\ Len(stack') = n
            /\ \A i \in 1..n : stack'[i] = stack[i]
      BY <1>1, <1>2, <2>2, StackFacts
    <3> QED BY <1>5, <3>1
  <2> QED BY <1>1, <2>1, <2>2
<1>7. TypeOK'
  BY <1>1, <1>2, <1>6 DEF TypeOK
<1>8. BodyOnTop'
  BY <1>6 DEF BodyOnTop
<1>9. Served'
  <2>1. Served
    BY <1>1
  <2> QED BY <2>1, <1>2, <1>6 DEF Served
<1> QED BY <1>1, <1>2, <1>4, <1>7, <1>8, <1>9, SameOrdered DEF GenInv

LEMMA LoopEndsGenInv == GenInv /\ LoopEnds => GenInv'
<1> SUFFICES ASSUME GenInv, LoopEnds PROVE GenInv'
  OBVIOUS
<1>1. /\ TypeOK /\ Ordered /\ BodyOnTop /\ FuncExact /\ Served
      /\ ~ThenDefined => Single
      /\ fault = "none" /\ stack # <<>> /\ Top = "loop"
      /\ state \in States
  BY AtFacts DEF LoopEnds
<1>2. /\ queue = <<>> \/ state = "AWAITING_RETURN"
      /\ stack' = Front(stack)
      /\ UNCHANGED <<state, queue, func, awaits, returns, asked, paused, answers, runs, fault>>
  BY DEF LoopEnds
<1>3. PICK n \in Nat :
        /\ Len(stack) = n + 1
        /\ stack' \in Seq(Activation) /\ Len(stack') = n
        /\ \A i \in 1..n : stack'[i] = stack[i]
  BY <1>1, <1>2, StackFacts
<1>4. func \notin {"await", "running"}
  BY <1>1, <1>2 DEF FuncExact, Served, States
<1>5. TypeOK'
  BY <1>1, <1>2, <1>3 DEF TypeOK
<1>6. BodyOnTop'
  BY <1>1, <1>3, NoBody DEF BodyOnTop
<1>7. FuncExact'
  BY <1>1, <1>2, <1>4 DEF FuncExact
<1>8. Served'
  BY <1>1, <1>2 DEF Served
<1>9. ASSUME ~ThenDefined PROVE Single'
  BY <1>1, <1>2, <1>3, <1>4, <1>9 DEF Single, FuncExact
<1> QED BY <1>1, <1>2, <1>5, <1>6, <1>7, <1>8, <1>9, SameOrdered DEF GenInv

LEMMA LoopResumesGenInv == GenInv /\ LoopResumes => GenInv'
<1> SUFFICES ASSUME GenInv, LoopResumes PROVE GenInv'
  OBVIOUS
<1>1. /\ TypeOK /\ Ordered /\ BodyOnTop /\ FuncExact /\ Served
      /\ ~ThenDefined => Single
      /\ fault = "none" /\ stack # <<>> /\ Top = "loop"
      /\ awaits \in 0..1
  BY AtFacts DEF LoopResumes
<1>2. /\ queue # <<>> /\ state \in {"EXECUTING", "SUSPENDED_START", "SUSPENDED_YIELD"}
      /\ fault' = IF state = "EXECUTING" /\ (func # "await" \/ awaits > 0)
                  THEN "resumed" ELSE "none"
      /\ state' = "EXECUTING" /\ stack' = Goto("body")
      /\ func' = "running" /\ runs' = Head(queue).id
      /\ UNCHANGED <<queue, awaits, returns, asked, paused, answers>>
  BY DEF LoopResumes, Resume
<1>3. "body" \in Activation /\ "loop" # "body"
  BY DEF Activation
<1>4. PICK n \in Nat :
        /\ Len(stack) = n + 1 /\ stack[n + 1] = "loop"
        /\ stack' \in Seq(Activation) /\ Len(stack') = n + 1
        /\ \A i \in 1..n : stack'[i] = stack[i]
        /\ stack' # <<>> /\ stack'[n + 1] = "body"
  BY <1>1, <1>2, <1>3, StackFacts
<1>5. Head(queue) = queue[1] /\ queue[1] \in Request
  BY <1>1, <1>2, TailFacts DEF TypeOK, Request
<1>6. TypeOK'
  BY <1>1, <1>2, <1>4, <1>5 DEF TypeOK, States, Request
<1>7. ASSUME fault' = "none" PROVE BodyOnTop' /\ FuncExact' /\ Served'
  <2>1. awaits = 0
    BY <1>1, <1>2, <1>7 DEF FuncExact
  <2>2. BodyOnTop'
    BY <1>1, <1>2, <1>3, <1>4, <2>1, NoBody DEF BodyOnTop
  <2>3. FuncExact'
    BY <1>2, <1>4, <2>1 DEF FuncExact, Top
  <2>4. Served'
    BY <1>1, <1>2, <1>5 DEF Served
  <2> QED BY <2>2, <2>3, <2>4
<1>8. ASSUME ~ThenDefined PROVE fault' = "none" /\ Single'
  <2>1. n = 0 /\ awaits = 0
    BY <1>1, <1>4, <1>8 DEF Single
  <2>2. state = "EXECUTING" => func = "await"
    BY <1>1, <1>3, <1>2 DEF FuncExact, TypeOK
  <2> QED BY <1>2, <1>4, <2>1, <2>2 DEF Single
<1> QED BY <1>1, <1>2, <1>6, <1>7, <1>8, SameOrdered DEF GenInv

LEMMA LoopCompletesGenInv == GenInv /\ LoopCompletes => GenInv'
<1> SUFFICES ASSUME GenInv, LoopCompletes PROVE GenInv'
  OBVIOUS
<1>1. /\ TypeOK /\ Ordered /\ BodyOnTop /\ FuncExact /\ Served
      /\ ~ThenDefined => Single
      /\ fault = "none" /\ stack # <<>> /\ Top = "loop"
  BY AtFacts DEF LoopCompletes
<1>2. /\ state = "SUSPENDED_START" /\ state' = "COMPLETED" /\ func' = "none"
      /\ UNCHANGED <<queue, stack, awaits, returns, asked, paused, answers, runs, fault>>
  BY DEF LoopCompletes
<1>3. TypeOK'
  BY <1>1, <1>2 DEF TypeOK, States
<1>4. BodyOnTop'
  BY <1>1, <1>2, NoBody DEF BodyOnTop
<1>5. FuncExact' /\ Served'
  BY <1>1, <1>2 DEF FuncExact, Served
<1>6. ~ThenDefined => Single'
  BY <1>1, <1>2 DEF Single
<1> QED BY <1>1, <1>2, <1>3, <1>4, <1>5, <1>6, SameOrdered DEF GenInv

\* The body runs: the state is EXECUTING, and nothing is awaited.
LEMMA BodyFacts ==
  ASSUME GenInv, At("body")
  PROVE  func = "running" /\ state = "EXECUTING" /\ awaits = 0 /\ returns = 0
<1>1. /\ TypeOK /\ BodyOnTop /\ FuncExact /\ Served
      /\ stack # <<>> /\ Top = "body" /\ state \in States /\ returns \in 0..1
  BY AtFacts
<1>2. PICK n \in Nat : Len(stack) = n + 1 /\ Top = stack[n + 1]
  BY <1>1, StackFacts
<1>3. n + 1 \in 1..Len(stack)
  BY <1>2
<1>4. func = "running" /\ awaits = 0
  BY <1>1, <1>2, <1>3 DEF BodyOnTop
<1> QED BY <1>1, <1>4 DEF FuncExact, Served, States

\* An activation that looks at the first request answers it.
LEMMA AnswerFacts ==
  ASSUME GenInv, NEW b \in {"loop", "body"}, At(b), queue # <<>>,
         NEW a \in {"loop", "done"}, Answer(a), UNCHANGED asked
  PROVE  /\ QueueTypes' /\ Ordered' /\ stack' \in Seq(Activation)
         /\ \A i \in 1..Len(stack') : stack'[i] # "body"
         /\ a = "loop" => \E i \in 1..Len(stack') : stack'[i] \in {"loop", "answer"}
         /\ ~ThenDefined => /\ Len(stack') <= 1
                            /\ \A i \in 1..Len(stack') : stack'[i] = "loop"
<1>1. /\ TypeOK /\ Ordered /\ BodyOnTop
      /\ ~ThenDefined => Single
      /\ fault = "none" /\ stack # <<>> /\ Top = b
  BY AtFacts
<1>2. /\ queue' = Tail(queue) /\ answers' = Append(answers, Head(queue).id)
      /\ stack' = IF ThenDefined THEN Goto(IF a = "loop" THEN "answer" ELSE "last_answer")
                  ELSE IF a = "loop" THEN Goto("loop") ELSE Front(stack)
  BY DEF Answer
<1>3. QueueTypes' /\ Ordered'
  BY <1>1, <1>2, AnswerOrdered
<1>4. /\ "loop" \in Activation /\ "answer" \in Activation /\ "last_answer" \in Activation
  BY DEF Activation
<1>5. CASE ThenDefined
  <2> DEFINE c == IF a = "loop" THEN "answer" ELSE "last_answer"
  <2>1. c \in Activation /\ c # "body" /\ (a = "loop" => c = "answer") /\ stack' = Goto(c)
    BY <1>2, <1>4, <1>5
  <2> HIDE DEF c
  <2>2. PICK n \in Nat :
          /\ Len(stack) = n + 1
          /\ stack' \in Seq(Activation) /\ Len(stack') = n + 1
          /\ \A i \in 1..n : stack'[i] = stack[i]
          /\ stack'[n + 1] = c
    BY <1>1, <2>1, StackFacts
  <2>3. \A i \in 1..n : stack[i] # "body"
    BY <1>1, <2>2 DEF BodyOnTop
  <2> QED BY <1>3, <1>5, <2>1, <2>2, <2>3
<1>6. CASE ~ThenDefined /\ a = "loop"
  <2>1. PICK n \in Nat :
          /\ Len(stack) = n + 1
          /\ stack' \in Seq(Activation) /\ Len(stack') = n + 1
          /\ \A i \in 1..n : stack'[i] = stack[i]
          /\ stack'[n + 1] = "loop"
    BY <1>1, <1>2, <1>4, <1>6, StackFacts
  <2>2. n = 0
    BY <1>1, <1>6, <2>1 DEF Single
  <2> QED BY <1>3, <1>6, <2>1, <2>2
<1>7. CASE ~ThenDefined /\ a = "done"
  <2>1. PICK n \in Nat :
          /\ Len(stack) = n + 1
          /\ stack' \in Seq(Activation) /\ Len(stack') = n
    BY <1>1, <1>2, <1>7, StackFacts
  <2>2. n = 0
    BY <1>1, <1>7, <2>1 DEF Single
  <2> QED BY <1>3, <1>7, <2>1, <2>2
<1> QED BY <1>5, <1>6, <1>7

LEMMA LoopCompletedGenInv == GenInv /\ LoopCompleted => GenInv'
<1> SUFFICES ASSUME GenInv, LoopCompleted PROVE GenInv'
  OBVIOUS
<1>1. /\ TypeOK /\ Ordered /\ BodyOnTop /\ FuncExact /\ Served
      /\ ~ThenDefined => Single
      /\ fault = "none" /\ stack # <<>> /\ Top = "loop"
      /\ awaits \in 0..1 /\ returns \in 0..1
  BY AtFacts DEF LoopCompleted
<1>2. /\ At("loop") /\ queue # <<>> /\ state = "COMPLETED"
      /\ UNCHANGED <<func, awaits, asked, paused, runs, fault>>
  BY DEF LoopCompleted
<1>3. func = "none" /\ awaits = 0 /\ returns = 0
  BY <1>1, <1>2 DEF FuncExact, Served
<1>4. CASE Head(queue).type = "return"
  <2>1. /\ state' = "AWAITING_RETURN" /\ returns' = 1 /\ stack' = Front(stack)
        /\ UNCHANGED <<queue, answers>>
    BY <1>3, <1>4 DEF LoopCompleted
  <2>2. PICK n \in Nat :
          /\ Len(stack) = n + 1
          /\ stack' \in Seq(Activation) /\ Len(stack') = n
          /\ \A i \in 1..n : stack'[i] = stack[i]
    BY <1>1, <2>1, StackFacts
  <2>3. TypeOK'
    BY <1>1, <1>2, <2>1, <2>2 DEF TypeOK, States
  <2>4. BodyOnTop'
    BY <1>1, <2>2, NoBody DEF BodyOnTop
  <2>5. FuncExact' /\ Served'
    BY <1>2, <1>3, <2>1 DEF FuncExact, Served
  <2>6. ASSUME ~ThenDefined PROVE Single'
    <3>1. n = 0
      BY <1>1, <2>2, <2>6 DEF Single
    <3> QED BY <1>2, <1>3, <2>2, <3>1 DEF Single
  <2> QED BY <1>1, <1>2, <2>1, <2>3, <2>4, <2>5, <2>6, SameOrdered DEF GenInv
<1>5. CASE Head(queue).type # "return"
  <2>1. Answer("done") /\ UNCHANGED <<state, returns>>
    BY <1>5 DEF LoopCompleted
  <2>2. /\ QueueTypes' /\ Ordered' /\ stack' \in Seq(Activation)
        /\ \A i \in 1..Len(stack') : stack'[i] # "body"
        /\ ~ThenDefined => /\ Len(stack') <= 1
                           /\ \A i \in 1..Len(stack') : stack'[i] = "loop"
    BY <1>2, <2>1, AnswerFacts
  <2>3. TypeOK'
    BY <1>1, <1>2, <2>1, <2>2 DEF TypeOK, QueueTypes, Request
  <2>4. BodyOnTop' /\ FuncExact' /\ Served'
    BY <1>2, <1>3, <2>1, <2>2 DEF BodyOnTop, FuncExact, Served
  <2>5. ~ThenDefined => Single'
    BY <1>2, <1>3, <2>2 DEF Single
  <2> QED BY <1>1, <1>2, <2>2, <2>3, <2>4, <2>5 DEF GenInv
<1> QED BY <1>4, <1>5

\* The body yields, returns or throws: in all cases it leaves for a state in
\* which it does not run, and the first request is answered.
LEMMA LeavesGenInv ==
  ASSUME GenInv, At("body"), queue # <<>>, Answer("loop"),
         \/ state' = "SUSPENDED_YIELD" /\ func' = "yield"
         \/ state' = "COMPLETED" /\ func' = "none",
         UNCHANGED <<awaits, returns, asked, paused, runs, fault>>
  PROVE  GenInv'
<1>1. /\ TypeOK /\ fault = "none" /\ awaits = 0 /\ returns = 0
  BY AtFacts, BodyFacts
<1>2. /\ QueueTypes' /\ Ordered' /\ stack' \in Seq(Activation)
      /\ \A i \in 1..Len(stack') : stack'[i] # "body"
      /\ \E i \in 1..Len(stack') : stack'[i] \in {"loop", "answer"}
      /\ ~ThenDefined => /\ Len(stack') <= 1
                         /\ \A i \in 1..Len(stack') : stack'[i] = "loop"
  BY AnswerFacts
<1>3. TypeOK'
  BY <1>1, <1>2 DEF TypeOK, QueueTypes, Request, States
<1>4. BodyOnTop' /\ FuncExact' /\ Served'
  BY <1>1, <1>2 DEF BodyOnTop, FuncExact, Served
<1>5. ~ThenDefined => Single'
  BY <1>1, <1>2 DEF Single
<1> QED BY <1>1, <1>2, <1>3, <1>4, <1>5 DEF GenInv

LEMMA YieldGenInv == GenInv /\ Yield => GenInv'
  BY LeavesGenInv DEF Yield

LEMMA FinishGenInv == GenInv /\ Finish => GenInv'
  BY LeavesGenInv DEF Finish

LEMMA AwaitGenInv == BoundsAssumption /\ GenInv /\ Await => GenInv'
<1> SUFFICES ASSUME BoundsAssumption, GenInv, Await PROVE GenInv'
  OBVIOUS
<1>1. /\ TypeOK /\ Ordered /\ BodyOnTop /\ FuncExact /\ Served
      /\ ~ThenDefined => Single
      /\ fault = "none" /\ stack # <<>> /\ Top = "body"
      /\ state = "EXECUTING" /\ awaits = 0 /\ returns = 0
  BY AtFacts, BodyFacts DEF Await
<1>2. /\ paused < MaxAwaits /\ func' = "await"
      /\ awaits' = awaits + 1 /\ paused' = paused + 1
      /\ stack' = Front(stack)
      /\ UNCHANGED <<state, queue, returns, asked, answers, runs, fault>>
  BY DEF Await
<1>3. PICK n \in Nat :
        /\ Len(stack) = n + 1
        /\ stack' \in Seq(Activation) /\ Len(stack') = n
        /\ \A i \in 1..n : stack'[i] = stack[i]
  BY <1>1, <1>2, StackFacts
<1>4. paused' \in 0..MaxAwaits
  BY <1>1, <1>2 DEF TypeOK, BoundsAssumption
<1>5. TypeOK'
  BY <1>1, <1>2, <1>3, <1>4 DEF TypeOK
<1>6. BodyOnTop'
  <2>1. \A i \in 1..n : stack[i] # "body"
    BY <1>1, <1>3 DEF BodyOnTop
  <2> QED BY <1>3, <2>1 DEF BodyOnTop
<1>7. FuncExact' /\ Served'
  BY <1>1, <1>2 DEF FuncExact, Served
<1>8. ASSUME ~ThenDefined PROVE Single'
  <2>1. n = 0
    BY <1>1, <1>3, <1>8 DEF Single
  <2> QED BY <1>3, <2>1 DEF Single
<1> QED BY <1>1, <1>2, <1>5, <1>6, <1>7, <1>8, SameOrdered DEF GenInv

LEMMA AwaitDoneGenInv == GenInv /\ AwaitDone => GenInv'
<1> SUFFICES ASSUME GenInv, AwaitDone PROVE GenInv'
  OBVIOUS
<1>1. /\ TypeOK /\ Ordered /\ BodyOnTop /\ FuncExact /\ Served
      /\ awaits \in 0..1 /\ fault = "none"
  BY DEF GenInv, AwaitDone, Idle, TypeOK
<1>2. /\ awaits > 0 /\ awaits' = awaits - 1
      /\ fault' = IF state = "EXECUTING" THEN "none" ELSE "assert"
      /\ stack' = <<"loop">>
      /\ UNCHANGED <<state, queue, func, returns, asked, paused, answers, runs>>
  BY DEF AwaitDone
<1>3. func = "await" /\ awaits' = 0 /\ state = "EXECUTING"
  BY <1>1, <1>2 DEF FuncExact, TypeOK, States
<1>4. /\ stack' \in Seq(Activation) /\ Len(stack') = 1 /\ stack'[1] = "loop" /\ stack' # <<>>
  BY <1>2 DEF Activation
<1>5. TypeOK'
  BY <1>1, <1>2, <1>3, <1>4 DEF TypeOK
<1>6. BodyOnTop' /\ FuncExact' /\ Served'
  BY <1>1, <1>2, <1>3, <1>4 DEF BodyOnTop, FuncExact, Served, Top
<1>7. Single'
  BY <1>3, <1>4 DEF Single
<1> QED BY <1>1, <1>2, <1>3, <1>5, <1>6, <1>7, SameOrdered DEF GenInv

LEMMA ReturnDoneGenInv == GenInv /\ ReturnDone => GenInv'
<1> SUFFICES ASSUME GenInv, ReturnDone PROVE GenInv'
  OBVIOUS
<1>1. /\ TypeOK /\ Ordered /\ BodyOnTop /\ FuncExact /\ Served
      /\ returns \in 0..1 /\ awaits \in 0..1
  BY DEF GenInv, ReturnDone, Idle, TypeOK
<1>2. /\ returns > 0 /\ returns' = returns - 1
      /\ state' = "COMPLETED"
      /\ stack' = IF ThenDefined THEN <<"last_answer">> ELSE <<>>
      /\ UNCHANGED <<func, awaits, asked, paused, runs>>
  BY DEF ReturnDone
<1>3. /\ state = "AWAITING_RETURN" /\ queue # <<>> /\ returns' = 0
      /\ func = "none" /\ awaits = 0
  BY <1>1, <1>2 DEF FuncExact, Served
<1>4. /\ fault' = "none" /\ queue' = Tail(queue)
      /\ answers' = Append(answers, Head(queue).id)
  BY <1>3 DEF ReturnDone
<1>5. QueueTypes' /\ Ordered'
  BY <1>1, <1>2, <1>3, <1>4, AnswerOrdered
<1>6. /\ stack' \in Seq(Activation)
      /\ \A i \in 1..Len(stack') : stack'[i] # "body"
      /\ ~ThenDefined => stack' = <<>>
  <2>1. "last_answer" \in Activation /\ "last_answer" # "body"
    BY DEF Activation
  <2>2. CASE ThenDefined
    BY <1>2, <2>1, <2>2
  <2>3. CASE ~ThenDefined
    BY <1>2, <2>3
  <2> QED BY <2>2, <2>3
<1>7. TypeOK'
  BY <1>1, <1>2, <1>3, <1>4, <1>5, <1>6 DEF TypeOK, QueueTypes, Request, States
<1>8. BodyOnTop' /\ FuncExact' /\ Served'
  BY <1>2, <1>3, <1>6 DEF BodyOnTop, FuncExact, Served
<1>9. ~ThenDefined => Single'
  BY <1>2, <1>6 DEF Single
<1> QED BY <1>4, <1>5, <1>7, <1>8, <1>9 DEF GenInv

LEMMA NextGenInv == BoundsAssumption /\ GenInv /\ [Next]_vars => GenInv'
<1> SUFFICES ASSUME BoundsAssumption, GenInv, [Next]_vars PROVE GenInv'
  OBVIOUS
<1>1. CASE UNCHANGED vars
  BY <1>1 DEF vars, GenInv, TypeOK, Ordered, BodyOnTop, FuncExact, Served, Single, Top
<1>2. CASE Next
  BY <1>2, AskGenInv, LoopEndsGenInv, LoopResumesGenInv, LoopCompletesGenInv,
     LoopCompletedGenInv, AnsweredGenInv, YieldGenInv, FinishGenInv, AwaitGenInv,
     AwaitDoneGenInv, ReturnDoneGenInv DEF Next
<1> QED BY <1>1, <1>2

-----------------------------------------------------------------------------
(***************************************************************************)
(* The theorems.  The assumption only says that the bounds are numbers and *)
(* that ThenDefined is a truth value.                                      *)
(***************************************************************************)

LEMMA GenInvariant == ASSUME BoundsAssumption PROVE Spec => []GenInv
<1>1. Init => GenInv
  BY InitGenInv
<1>2. GenInv /\ [Next]_vars => GenInv'
  BY NextGenInv
<1> QED BY <1>1, <1>2, PTL DEF Spec

LEMMA GenTypes == GenInv => TypeOK
  BY DEF GenInv

LEMMA GenAnswersInOrder == BoundsAssumption /\ GenInv => AnswersInOrder
<1> SUFFICES ASSUME BoundsAssumption, GenInv PROVE AnswersInOrder
  OBVIOUS
<1>1. TypeOK /\ Ordered /\ (fault = "none" => BodyOnTop /\ FuncExact /\ Served)
  BY DEF GenInv
<1>2. answers \o [i \in 1..Len(queue) |-> queue[i].id] = [i \in 1..asked |-> i]
  <2>1. queue \in Seq(Request) /\ answers \in Seq(1..MaxRequests)
    BY <1>1 DEF TypeOK, Request
  <2> DEFINE ids == [i \in 1..Len(queue) |-> queue[i].id]
  <2>2. Len(queue) \in Nat /\ Len(answers) \in Nat /\ \A i \in 1..Len(queue) : queue[i] \in Request
    BY <2>1
  <2>3. ids \in Seq(1..MaxRequests) /\ Len(ids) = Len(queue)
    BY <2>2 DEF Request
  <2>4. asked = Len(answers) + Len(queue)
    BY <1>1 DEF Ordered
  <2>5. \A i \in 1..Len(queue) : ids[i] = Len(answers) + i
    BY <1>1 DEF Ordered
  <2>6. \A i \in 1..Len(answers) : answers[i] = i
    BY <1>1 DEF Ordered
  <2> HIDE DEF ids
  <2>7. /\ answers \o ids \in Seq(1..MaxRequests) /\ Len(answers \o ids) = asked
        /\ \A i \in 1..asked : (answers \o ids)[i] = i
    BY <2>1, <2>2, <2>3, <2>4, <2>5, <2>6
  <2> DEFINE all == [i \in 1..asked |-> i]
  <2>8. asked \in 0..MaxRequests /\ MaxRequests \in Nat
    BY <1>1 DEF TypeOK, BoundsAssumption
  <2>9. all \in Seq(1..MaxRequests) /\ Len(all) = asked
    <3>1. asked \in Nat /\ \A i \in 1..asked : i \in 1..MaxRequests
      BY <2>8
    <3> QED BY <3>1
  <2>10. \A i \in 1..asked : all[i] = i
    OBVIOUS
  <2> HIDE DEF all
  <2>11. answers \o ids = all
    BY <2>7, <2>9, <2>10, SeqEqual
  <2> QED BY <2>11 DEF ids, all
<1>3. At("body") => queue # <<>> /\ Head(queue).id = runs
  <2> SUFFICES ASSUME At("body") PROVE queue # <<>> /\ Head(queue).id = runs
    OBVIOUS
  <2>1. state = "EXECUTING" /\ Served
    BY AtFacts, BodyFacts
  <2>2. queue # <<>> /\ queue[1].id = runs
    BY <2>1 DEF Served
  <2>3. queue \in Seq(Request)
    BY <1>1 DEF TypeOK, Request
  <2> QED BY <2>2, <2>3
<1>4. Idle /\ awaits = 0 /\ returns = 0 /\ queue # <<>> => state = "COMPLETED"
  <2> SUFFICES ASSUME Idle, awaits = 0, returns = 0, queue # <<>> PROVE state = "COMPLETED"
    OBVIOUS
  <2>1. stack = <<>> /\ FuncExact /\ Served /\ state \in States
        /\ func \in {"start", "yield", "await", "running", "none"}
    BY <1>1 DEF Idle, TypeOK
  <2> QED BY <2>1 DEF FuncExact, Served, States
<1> QED BY <1>2, <1>3, <1>4 DEF AnswersInOrder

LEMMA GenResumedInTime == GenInv => ResumedInTime
<1> SUFFICES ASSUME GenInv PROVE ResumedInTime
  OBVIOUS
<1>1. ThenDefined \/ fault = "none"
  BY DEF GenInv
<1>2. TypeOK /\ (fault = "none" => FuncExact)
  BY DEF GenInv
<1> QED BY <1>1, <1>2 DEF ResumedInTime, FuncExact, At, TypeOK, States

\* js_async_generator_next, js_async_generator_resume_next and the reactions of
\* await keep the state, the queue and the activations of their kinds.
THEOREM AsyncGeneratorTypes == ASSUME BoundsAssumption PROVE Spec => []TypeOK
  BY GenInvariant, GenTypes, PTL

\* No request of next, return or throw is lost, they are answered in their
\* order, each by the run of the body it caused, and none is left over at a start
\* or a yield: for any number of requests and of awaits, and with code that runs
\* inside the answers.
THEOREM AsyncGeneratorAnswers == ASSUME BoundsAssumption PROVE Spec => []AnswersInOrder
<1>1. GenInv => AnswersInOrder
  BY GenAnswersInOrder
<1> QED BY GenInvariant, <1>1, PTL

\* The assertions of js_async_generator_resolve_function hold, and the body is
\* resumed for what the state says, when no code runs inside the answers.
THEOREM AsyncGeneratorResumedInTime == ASSUME BoundsAssumption PROVE Spec => []ResumedInTime
  BY GenInvariant, GenResumedInTime, PTL

-----------------------------------------------------------------------------
(***************************************************************************)
(* ModuleLoading: the inductive invariant                                  *)
(***************************************************************************)

\* A file needs two files that need each other.
Cyclic(x) == \E y, z \in Needs(x) : InCycle(y, z)

\* The modules whose requests are not all resolved.
Waits(cs) == {cs[k].m : k \in DOMAIN cs}

\* A request of m has led to a loaded module of the requested name.
Linked(ld, nm, en, m, i) == en[m][i] \in ld /\ nm[en[m][i]] = requests[nm[m]][i]

\* The types: n is the next module object.
LoadTypes(n, ld, nm, en, cs, us) ==
    /\ n \in 1..MaxModules + 1 /\ ld \subseteq 1..n - 1
    /\ nm \in Seq(Names) /\ Len(nm) = n - 1
    /\ en \in Seq(Seq(Objects \cup {None})) /\ Len(en) = n - 1
    /\ \A m \in 1..n - 1 : Len(en[m]) = Len(requests[nm[m]])
    /\ cs \in Seq([m : Objects, i : 1..MaxRequired + 1])
    /\ us \in BOOLEAN

\* Each name is loaded once.
Once(ld, nm) == \A m, n \in ld : nm[m] = nm[n] => m = n

\* The calls are for different loaded modules, each requested by the one
\* before it, so that each needs all that come after it.
Nested(ld, nm, en, cs) ==
    /\ \A k \in DOMAIN cs : cs[k].m \in ld /\ cs[k].i <= Len(en[cs[k].m]) + 1
    /\ \A j, k \in DOMAIN cs :
          j < k => cs[j].m # cs[k].m /\ nm[cs[k].m] \in Needs(nm[cs[j].m])
    /\ \A j, k \in DOMAIN cs :
          k = j + 1 => /\ cs[j].i <= Len(en[cs[j].m])
                       /\ requests[nm[cs[j].m]][cs[j].i] = nm[cs[k].m]

\* The requests before the one that a call is at are linked.
Begun(ld, nm, en, cs) ==
    \A k \in DOMAIN cs : \A i \in 1..cs[k].i - 1 :
        Linked(ld, nm, en, cs[k].m, i) \/ Cyclic(nm[cs[k].m])

\* All requests of other modules are linked, and one to a module that waits
\* closes a cycle.
Resolved(ld, nm, en, cs) ==
    \A m \in ld \ Waits(cs) : \A i \in DOMAIN en[m] :
        \/ /\ Linked(ld, nm, en, m, i)
           /\ en[m][i] \in Waits(cs) => nm[m] \in Needs(nm[en[m][i]])
        \/ Cyclic(nm[m])

\* Freed memory is read in a graph with a cycle.
ReadInCycle(us) == us => \E x, y \in Names : InCycle(x, y)

LoadState(n, ld, nm, en, cs, us) ==
    /\ LoadTypes(n, ld, nm, en, cs, us)
    /\ Once(ld, nm) /\ Nested(ld, nm, en, cs) /\ Begun(ld, nm, en, cs) /\ Resolved(ld, nm, en, cs)
    /\ ReadInCycle(us)

LoadInv == requests \in [Names -> Lists] /\ LoadState(next, loaded, name, entries, calls, used)

-----------------------------------------------------------------------------
\* A list of requests is a sequence of names.
LEMMA ListTypes ==
    ASSUME NEW s \in Lists
    PROVE  s \in Seq(Names) /\ Len(s) \in 0..MaxRequired /\ DOMAIN s = 1..Len(s)
<1>1. PICK n \in 0..MaxRequired : s \in [1..n -> Names]
    BY DEF Lists
<1>2. n \in Nat
    BY <1>1, LoadingAssumption
<1>3. s \in UNION {[1..k -> Names] : k \in Nat}
    BY <1>1, <1>2
<1>4. s \in Seq(Names)
    BY <1>3, SeqDef
<1>5. DOMAIN s = 1..n /\ DOMAIN s = 1..Len(s) /\ Len(s) \in Nat
    BY <1>1, <1>4
<1>6. Len(s) = n
    BY <1>2, <1>5
<1> QED BY <1>1, <1>4, <1>5, <1>6

\* The types of a state, element by element.
LEMMA LoadFields ==
    ASSUME requests \in [Names -> Lists],
           NEW n, NEW ld, NEW nm, NEW en, NEW cs, NEW us, LoadTypes(n, ld, nm, en, cs, us)
    PROVE  /\ n \in Nat /\ MaxModules \in Nat /\ n \in 1..MaxModules + 1
           /\ \A m \in 1..n - 1 :
                 /\ m \in Objects /\ nm[m] \in Names
                 /\ en[m] \in Seq(Objects \cup {None}) /\ Len(en[m]) \in 0..MaxRequired
                 /\ DOMAIN en[m] = 1..Len(en[m])
                 /\ requests[nm[m]] \in Seq(Names) /\ DOMAIN requests[nm[m]] = 1..Len(en[m])
           /\ Len(cs) \in Nat /\ DOMAIN cs = 1..Len(cs)
           /\ \A k \in DOMAIN cs : cs[k].m \in Objects /\ cs[k].i \in 1..MaxRequired + 1
<1>1. n \in Nat /\ MaxModules \in Nat /\ n \in 1..MaxModules + 1
    BY LoadingAssumption DEF LoadTypes
<1>2. ASSUME NEW m \in 1..n - 1
      PROVE  /\ m \in Objects /\ nm[m] \in Names
             /\ en[m] \in Seq(Objects \cup {None}) /\ Len(en[m]) \in 0..MaxRequired
             /\ DOMAIN en[m] = 1..Len(en[m])
             /\ requests[nm[m]] \in Seq(Names) /\ DOMAIN requests[nm[m]] = 1..Len(en[m])
  <2>1. m \in Objects
      BY <1>1, <1>2 DEF Objects
  <2>2. nm \in Seq(Names) /\ m \in 1..Len(nm)
      BY <1>2 DEF LoadTypes
  <2>3. nm[m] \in Names
      BY <2>2, ElementOfSeq
  <2>4. en \in Seq(Seq(Objects \cup {None})) /\ m \in 1..Len(en)
      BY <1>2 DEF LoadTypes
  <2>5. en[m] \in Seq(Objects \cup {None})
      BY <2>4, ElementOfSeq
  <2>6. requests[nm[m]] \in Lists /\ Len(en[m]) = Len(requests[nm[m]])
      BY <1>2, <2>3 DEF LoadTypes
  <2>7. /\ requests[nm[m]] \in Seq(Names) /\ Len(requests[nm[m]]) \in 0..MaxRequired
        /\ DOMAIN requests[nm[m]] = 1..Len(requests[nm[m]])
      BY <2>6, ListTypes
  <2>8. DOMAIN en[m] = 1..Len(en[m])
      BY <2>5
  <2> QED BY <2>1, <2>3, <2>5, <2>6, <2>7, <2>8
<1>3. PICK T : T = [m : Objects, i : 1..MaxRequired + 1]
    OBVIOUS
<1>4. cs \in Seq(T)
    BY <1>3 DEF LoadTypes
<1>5. Len(cs) \in Nat /\ DOMAIN cs = 1..Len(cs)
    BY <1>4
<1>6. ASSUME NEW k \in DOMAIN cs
      PROVE  cs[k].m \in Objects /\ cs[k].i \in 1..MaxRequired + 1
  <2>1. cs[k] \in T
      BY <1>4, <1>5, <1>6, ElementOfSeq
  <2> QED BY <1>3, <2>1
<1> QED BY <1>1, <1>2, <1>5, <1>6

-----------------------------------------------------------------------------
\* Every file needs itself and what it requests, and all that these need.
LEMMA NeedsItself ==
    ASSUME NEW x \in Names
    PROVE  x \in Needs(x)
BY DEF Needs

LEMMA NeedsRequests ==
    ASSUME NEW x \in Names, NEW i \in DOMAIN requests[x], requests[x][i] \in Names
    PROVE  requests[x][i] \in Needs(x)
BY DEF Needs, ToSet

LEMMA NeedsOfNeeds ==
    ASSUME NEW x, NEW y \in Needs(x), NEW z \in Needs(y)
    PROVE  z \in Needs(x)
BY DEF Needs

LEMMA CycleFound ==
    ASSUME NEW x \in Names, NEW y \in Needs(x), x # y, x \in Needs(y)
    PROVE  Cyclic(x)
BY NeedsItself DEF Cyclic, InCycle

-----------------------------------------------------------------------------
(***************************************************************************)
(* ModuleLoading: the steps                                                *)
(***************************************************************************)

\* A file is compiled that the innermost call requests, or an import if there
\* is no call.
Compiles(n, nm, en, cs, x, nm1, en1, cs1) ==
    /\ nm1 = Append(nm, x) /\ en1 = Append(en, [i \in 1..Len(requests[x]) |-> None])
    /\ cs1 = Append(cs, [m |-> n, i |-> 1])

\* The innermost call is at a request for x.
Requests(nm, en, cs, x) ==
    /\ cs[Len(cs)].i <= Len(en[cs[Len(cs)].m])
    /\ requests[nm[cs[Len(cs)].m]][cs[Len(cs)].i] = x

LEMMA CompiledKeeps ==
    ASSUME requests \in [Names -> Lists],
           NEW n, NEW ld, NEW nm, NEW en, NEW cs, NEW us, LoadState(n, ld, nm, en, cs, us),
           NEW x \in Names, \A m \in ld : nm[m] # x, n <= MaxModules,
           cs # <<>> => Requests(nm, en, cs, x),
           NEW nm1, NEW en1, NEW cs1, Compiles(n, nm, en, cs, x, nm1, en1, cs1)
    PROVE  LoadState(n + 1, ld \cup {n}, nm1, en1, cs1, us)
<1>1. /\ LoadTypes(n, ld, nm, en, cs, us) /\ Once(ld, nm) /\ Nested(ld, nm, en, cs)
      /\ Begun(ld, nm, en, cs) /\ Resolved(ld, nm, en, cs) /\ ReadInCycle(us)
    BY DEF LoadState
<1>2. /\ n \in Nat /\ MaxModules \in Nat /\ n \in 1..MaxModules + 1
      /\ \A m \in 1..n - 1 :
            /\ m \in Objects /\ nm[m] \in Names
            /\ en[m] \in Seq(Objects \cup {None}) /\ Len(en[m]) \in 0..MaxRequired
            /\ DOMAIN en[m] = 1..Len(en[m])
            /\ requests[nm[m]] \in Seq(Names) /\ DOMAIN requests[nm[m]] = 1..Len(en[m])
      /\ Len(cs) \in Nat /\ DOMAIN cs = 1..Len(cs)
      /\ \A k \in DOMAIN cs : cs[k].m \in Objects /\ cs[k].i \in 1..MaxRequired + 1
    BY <1>1, LoadFields
<1>3. /\ ld \subseteq 1..n - 1 /\ nm \in Seq(Names) /\ Len(nm) = n - 1
      /\ en \in Seq(Seq(Objects \cup {None})) /\ Len(en) = n - 1 /\ us \in BOOLEAN
      /\ cs \in Seq([m : Objects, i : 1..MaxRequired + 1])
      /\ \A m \in 1..n - 1 : Len(en[m]) = Len(requests[nm[m]])
    BY <1>1 DEF LoadTypes
<1>4. PICK e : e = [i \in 1..Len(requests[x]) |-> None]
    OBVIOUS
<1>5. Len(requests[x]) \in 0..MaxRequired /\ MaxRequired \in Nat
    BY ListTypes, LoadingAssumption
<1>6. e \in Seq(Objects \cup {None}) /\ Len(e) = Len(requests[x])
  <2>1. PICK k : k = Len(requests[x])
      OBVIOUS
  <2>2. k \in Nat /\ e = [i \in 1..k |-> None]
      BY <1>4, <1>5, <2>1
  <2> QED BY <2>1, <2>2
<1>7. /\ nm1 \in Seq(Names) /\ Len(nm1) = n /\ nm1[n] = x
      /\ \A m \in 1..n - 1 : nm1[m] = nm[m]
    BY <1>2, <1>3, AppendProperties DEF Compiles
<1>8. /\ en1 \in Seq(Seq(Objects \cup {None})) /\ Len(en1) = n /\ en1[n] = e
      /\ \A m \in 1..n - 1 : en1[m] = en[m]
  <2>1. en1 = Append(en, e)
      BY <1>4 DEF Compiles
  <2> QED BY <1>2, <1>3, <1>6, <2>1, AppendProperties
<1>9. PICK c : c = [m |-> n, i |-> 1]
    OBVIOUS
<1>10. n \in Objects /\ c.m = n /\ c.i = 1 /\ 1 \in 1..MaxRequired + 1
    BY <1>2, <1>5, <1>9 DEF Objects
<1>11. c \in [m : Objects, i : 1..MaxRequired + 1]
    BY <1>9, <1>10
<1>12. PICK l : l = Len(cs)
    OBVIOUS
<1>13. /\ cs1 \in Seq([m : Objects, i : 1..MaxRequired + 1]) /\ Len(cs1) = l + 1 /\ cs1[l + 1] = c
       /\ DOMAIN cs1 = 1..l + 1 /\ \A k \in 1..l : cs1[k] = cs[k]
  <2>1. PICK T : T = [m : Objects, i : 1..MaxRequired + 1]
      OBVIOUS
  <2>2. cs \in Seq(T) /\ c \in T /\ cs1 = Append(cs, c)
      BY <1>3, <1>9, <1>11, <2>1 DEF Compiles
  <2>3. /\ cs1 \in Seq(T) /\ Len(cs1) = l + 1 /\ cs1[l + 1] = c
        /\ \A k \in 1..l : cs1[k] = cs[k]
      BY <1>12, <2>2, AppendProperties
  <2>4. DOMAIN cs1 = 1..l + 1
      BY <2>3
  <2> QED BY <2>1, <2>3, <2>4
<1>14. l \in Nat /\ DOMAIN cs = 1..l
    BY <1>2, <1>12
<1>15. LoadTypes(n + 1, ld \cup {n}, nm1, en1, cs1, us)
  <2>1. ASSUME NEW m \in 1..n
        PROVE  Len(en1[m]) = Len(requests[nm1[m]])
    <3>1. CASE m = n
        BY <1>6, <1>7, <1>8, <3>1
    <3>2. CASE m # n
      <4>1. m \in 1..n - 1
          BY <1>2, <3>2
      <4> QED BY <1>3, <1>7, <1>8, <4>1
    <3> QED BY <3>1, <3>2
  <2>2. n + 1 \in 1..MaxModules + 1 /\ n = (n + 1) - 1 /\ ld \cup {n} \subseteq 1..n
      BY <1>2, <1>3
  <2> QED BY <1>3, <1>7, <1>8, <1>13, <2>1, <2>2 DEF LoadTypes
<1>16. n \notin ld /\ \A m \in ld : m \in 1..n - 1
    BY <1>2, <1>3
<1>17. Once(ld \cup {n}, nm1)
    BY <1>1, <1>7, <1>16 DEF Once
<1>18. \A k \in 1..l : cs[k].m \in ld /\ cs[k].m \in 1..n - 1
    BY <1>1, <1>14, <1>16 DEF Nested
<1>19. ASSUME NEW k \in 1..l
       PROVE  x \in Needs(nm[cs[k].m])
  <2>1. l \in 1..l /\ cs # <<>>
      BY <1>12, <1>14
  <2>2. PICK m : m = cs[l].m
      OBVIOUS
  <2>3. PICK i : i = cs[l].i
      OBVIOUS
  <2>4. i \in 1..Len(en[m]) /\ requests[nm[m]][i] = x
    <3>1. Requests(nm, en, cs, x)
        BY <2>1
    <3>2. i \in 1..MaxRequired + 1
        BY <1>2, <1>14, <2>1, <2>3
    <3> QED BY <1>5, <1>12, <2>2, <2>3, <3>1, <3>2 DEF Requests
  <2>5. x \in Needs(nm[m])
    <3>1. m \in 1..n - 1
        BY <1>18, <2>1, <2>2
    <3>2. nm[m] \in Names /\ i \in DOMAIN requests[nm[m]]
        BY <1>2, <2>4, <3>1
    <3> QED BY <2>4, <3>2, NeedsRequests
  <2>6. CASE k = l
      BY <2>2, <2>5, <2>6
  <2>7. CASE k # l
    <3>1. k < l
        BY <1>14, <2>7
    <3>2. nm[m] \in Needs(nm[cs[k].m])
        BY <1>1, <1>14, <2>1, <2>2, <3>1 DEF Nested
    <3> QED BY <2>5, <3>2, NeedsOfNeeds
  <2> QED BY <2>6, <2>7
<1>20. Nested(ld \cup {n}, nm1, en1, cs1)
  <2>1. ASSUME NEW k \in 1..l + 1
        PROVE  cs1[k].m \in ld \cup {n} /\ cs1[k].i <= Len(en1[cs1[k].m]) + 1
    <3>1. CASE k = l + 1
      <4>1. cs1[k].m = n /\ cs1[k].i = 1 /\ Len(en1[n]) \in Nat
          BY <1>5, <1>6, <1>8, <1>10, <1>13, <3>1
      <4> QED BY <4>1
    <3>2. CASE k # l + 1
      <4>1. k \in 1..l
          BY <1>14, <3>2
      <4>2. cs1[k] = cs[k] /\ en1[cs[k].m] = en[cs[k].m]
          BY <1>8, <1>13, <1>18, <4>1
      <4> QED BY <1>1, <1>14, <4>1, <4>2 DEF Nested
    <3> QED BY <3>1, <3>2
  <2>2. ASSUME NEW j \in 1..l + 1, NEW k \in 1..l + 1, j < k
        PROVE  cs1[j].m # cs1[k].m /\ nm1[cs1[k].m] \in Needs(nm1[cs1[j].m])
    <3>1. j \in 1..l
        BY <1>14, <2>2
    <3>2. cs1[j] = cs[j] /\ nm1[cs[j].m] = nm[cs[j].m] /\ cs[j].m # n
        BY <1>7, <1>13, <1>16, <1>18, <3>1
    <3>3. CASE k = l + 1
      <4>1. cs1[k].m = n /\ nm1[n] = x
          BY <1>7, <1>10, <1>13, <3>3
      <4> QED BY <1>19, <3>1, <3>2, <4>1
    <3>4. CASE k # l + 1
      <4>1. k \in 1..l
          BY <1>14, <3>4
      <4>2. cs1[k] = cs[k] /\ nm1[cs[k].m] = nm[cs[k].m]
          BY <1>7, <1>13, <1>18, <4>1
      <4> QED BY <1>1, <1>14, <2>2, <3>1, <3>2, <4>1, <4>2 DEF Nested
    <3> QED BY <3>3, <3>4
  <2>3. ASSUME NEW j \in 1..l + 1, NEW k \in 1..l + 1, k = j + 1
        PROVE  /\ cs1[j].i <= Len(en1[cs1[j].m])
               /\ requests[nm1[cs1[j].m]][cs1[j].i] = nm1[cs1[k].m]
    <3>1. j \in 1..l
        BY <1>14, <2>3
    <3>2. cs1[j] = cs[j] /\ nm1[cs[j].m] = nm[cs[j].m] /\ en1[cs[j].m] = en[cs[j].m]
        BY <1>7, <1>8, <1>13, <1>18, <3>1
    <3>3. CASE k = l + 1
      <4>1. j = l /\ cs # <<>> /\ nm1[cs1[k].m] = x
          BY <1>7, <1>10, <1>12, <1>13, <1>14, <2>3, <3>1, <3>3
      <4>2. Requests(nm, en, cs, x)
          BY <4>1
      <4> QED BY <1>12, <3>2, <4>1, <4>2 DEF Requests
    <3>4. CASE k # l + 1
      <4>1. k \in 1..l
          BY <1>14, <3>4
      <4>2. cs1[k] = cs[k] /\ nm1[cs[k].m] = nm[cs[k].m]
          BY <1>7, <1>13, <1>18, <4>1
      <4> QED BY <1>1, <1>14, <2>3, <3>1, <3>2, <4>1, <4>2 DEF Nested
    <3> QED BY <3>3, <3>4
  <2> QED BY <1>13, <2>1, <2>2, <2>3 DEF Nested
<1>21. ASSUME NEW m \in 1..n - 1, NEW i, Linked(ld, nm, en, m, i)
       PROVE  /\ Linked(ld \cup {n}, nm1, en1, m, i)
              /\ en[m][i] # n /\ nm1[en[m][i]] = nm[en[m][i]]
  <2>1. en[m][i] \in ld /\ en1[m] = en[m] /\ nm1[m] = nm[m]
      BY <1>7, <1>8, <1>21 DEF Linked
  <2>2. nm1[en[m][i]] = nm[en[m][i]] /\ en[m][i] # n
      BY <1>7, <1>16, <2>1
  <2> QED BY <1>21, <2>1, <2>2 DEF Linked
<1>22. Begun(ld \cup {n}, nm1, en1, cs1)
  <2>1. ASSUME NEW k \in 1..l + 1, NEW i \in 1..cs1[k].i - 1
        PROVE  Linked(ld \cup {n}, nm1, en1, cs1[k].m, i) \/ Cyclic(nm1[cs1[k].m])
    <3>1. k # l + 1
      <4>1. CASE k = l + 1
        <5>1. cs1[k].i = 1
            BY <1>10, <1>13, <4>1
        <5> QED BY <2>1, <5>1
      <4> QED BY <4>1
    <3>2. k \in 1..l
        BY <1>14, <3>1
    <3>3. cs1[k] = cs[k] /\ cs[k].m \in 1..n - 1 /\ nm1[cs[k].m] = nm[cs[k].m]
        BY <1>7, <1>13, <1>18, <3>2
    <3>4. Linked(ld, nm, en, cs[k].m, i) \/ Cyclic(nm[cs[k].m])
        BY <1>1, <1>14, <2>1, <3>2, <3>3 DEF Begun
    <3> QED BY <1>21, <3>3, <3>4
  <2> QED BY <1>13, <2>1 DEF Begun
<1>23. Waits(cs1) = Waits(cs) \cup {n}
  <2>1. \A k \in 1..l : cs1[k].m = cs[k].m
      BY <1>13
  <2>2. cs1[l + 1].m = n /\ l + 1 \in 1..l + 1 /\ 1..l \subseteq 1..l + 1
      BY <1>10, <1>13, <1>14
  <2>3. \A k \in 1..l + 1 : k \in 1..l \/ k = l + 1
      BY <1>14
  <2> QED BY <1>13, <1>14, <2>1, <2>2, <2>3 DEF Waits
<1>24. Resolved(ld \cup {n}, nm1, en1, cs1)
  <2>1. ASSUME NEW m \in (ld \cup {n}) \ Waits(cs1), NEW i \in DOMAIN en1[m]
        PROVE  \/ /\ Linked(ld \cup {n}, nm1, en1, m, i)
                  /\ en1[m][i] \in Waits(cs1) => nm1[m] \in Needs(nm1[en1[m][i]])
               \/ Cyclic(nm1[m])
    <3>1. m \in ld \ Waits(cs) /\ m \in 1..n - 1
        BY <1>16, <1>23, <2>1
    <3>2. en1[m] = en[m] /\ nm1[m] = nm[m]
        BY <1>7, <1>8, <3>1
    <3>3. \/ /\ Linked(ld, nm, en, m, i)
             /\ en[m][i] \in Waits(cs) => nm[m] \in Needs(nm[en[m][i]])
          \/ Cyclic(nm[m])
        BY <1>1, <2>1, <3>1, <3>2 DEF Resolved
    <3>4. CASE Linked(ld, nm, en, m, i)
      <4>1. /\ Linked(ld \cup {n}, nm1, en1, m, i)
            /\ en[m][i] # n /\ nm1[en[m][i]] = nm[en[m][i]]
          BY <1>21, <3>1, <3>4
      <4> QED BY <1>23, <3>2, <3>3, <4>1
    <3>5. CASE Cyclic(nm[m])
        BY <3>2, <3>5
    <3> QED BY <3>3, <3>4, <3>5
  <2> QED BY <2>1 DEF Resolved
<1> QED BY <1>1, <1>15, <1>17, <1>20, <1>22, <1>24 DEF LoadState

\* The innermost call returns: its module has nothing to wait for any more.
LEMMA PopKeeps ==
    ASSUME requests \in [Names -> Lists],
           NEW n, NEW ld, NEW nm, NEW en, NEW cs, NEW us, LoadState(n, ld, nm, en, cs, us),
           cs # <<>>, cs[Len(cs)].i > Len(en[cs[Len(cs)].m]),
           NEW cs1, cs1 = Front(cs)
    PROVE  LoadState(n, ld, nm, en, cs1, us)
<1>1. /\ LoadTypes(n, ld, nm, en, cs, us) /\ Once(ld, nm) /\ Nested(ld, nm, en, cs)
      /\ Begun(ld, nm, en, cs) /\ Resolved(ld, nm, en, cs) /\ ReadInCycle(us)
    BY DEF LoadState
<1>2. /\ \A m \in 1..n - 1 :
            /\ m \in Objects /\ nm[m] \in Names
            /\ en[m] \in Seq(Objects \cup {None}) /\ Len(en[m]) \in 0..MaxRequired
            /\ DOMAIN en[m] = 1..Len(en[m])
      /\ DOMAIN cs = 1..Len(cs)
      /\ \A k \in DOMAIN cs : cs[k].m \in Objects /\ cs[k].i \in 1..MaxRequired + 1
    BY <1>1, LoadFields
<1>3. ld \subseteq 1..n - 1 /\ cs \in Seq([m : Objects, i : 1..MaxRequired + 1])
    BY <1>1 DEF LoadTypes
<1>4. PICK l : l = Len(cs)
    OBVIOUS
<1>5. /\ cs1 \in Seq([m : Objects, i : 1..MaxRequired + 1])
      /\ l \in Nat /\ l >= 1 /\ DOMAIN cs = 1..l /\ DOMAIN cs1 = 1..l - 1
      /\ \A k \in 1..l - 1 : cs1[k] = cs[k]
  <2>1. PICK T : T = [m : Objects, i : 1..MaxRequired + 1]
      OBVIOUS
  <2>2. cs \in Seq(T)
      BY <1>3, <2>1
  <2>3. /\ cs1 \in Seq(T) /\ Len(cs1) = l - 1 /\ l \in Nat \ {0}
        /\ \A k \in 1..l - 1 : cs1[k] = cs[k]
      BY <1>4, <2>2, FrontFacts
  <2>4. DOMAIN cs1 = 1..l - 1
      BY <2>3
  <2> QED BY <1>2, <1>4, <2>1, <2>3, <2>4
<1>6. LoadTypes(n, ld, nm, en, cs1, us)
    BY <1>1, <1>5 DEF LoadTypes
<1>7. \A k \in 1..l - 1 : k \in 1..l /\ k < l
    BY <1>5
<1>8. Nested(ld, nm, en, cs1)
  <2>1. \A k \in 1..l - 1 : cs1[k].m \in ld /\ cs1[k].i <= Len(en[cs1[k].m]) + 1
      BY <1>1, <1>5, <1>7 DEF Nested
  <2>2. ASSUME NEW j \in 1..l - 1, NEW k \in 1..l - 1, j < k
        PROVE  cs1[j].m # cs1[k].m /\ nm[cs1[k].m] \in Needs(nm[cs1[j].m])
    <3>1. cs1[j] = cs[j] /\ cs1[k] = cs[k] /\ j \in DOMAIN cs /\ k \in DOMAIN cs
        BY <1>5, <1>7
    <3> QED BY <1>1, <2>2, <3>1 DEF Nested
  <2>3. ASSUME NEW j \in 1..l - 1, NEW k \in 1..l - 1, k = j + 1
        PROVE  /\ cs1[j].i <= Len(en[cs1[j].m])
               /\ requests[nm[cs1[j].m]][cs1[j].i] = nm[cs1[k].m]
    <3>1. cs1[j] = cs[j] /\ cs1[k] = cs[k] /\ j \in DOMAIN cs /\ k \in DOMAIN cs
        BY <1>5, <1>7
    <3> QED BY <1>1, <2>3, <3>1 DEF Nested
  <2>4. DOMAIN cs1 = 1..l - 1
      BY <1>5
  <2> QED BY <2>1, <2>2, <2>3, <2>4 DEF Nested
<1>9. Begun(ld, nm, en, cs1)
    BY <1>1, <1>5, <1>7 DEF Begun
<1>10. PICK r : r = cs[l].m
    OBVIOUS
<1>11. l \in 1..l /\ r \in ld /\ r \in 1..n - 1
  <2>1. l \in 1..l
      BY <1>5
  <2> QED BY <1>1, <1>3, <1>5, <1>10, <2>1 DEF Nested
<1>12. Waits(cs) = Waits(cs1) \cup {r}
  <2>1. \A k \in 1..l : k = l \/ k \in 1..l - 1
      BY <1>5
  <2> QED BY <1>5, <1>7, <1>10, <1>11, <2>1 DEF Waits
<1>13. ASSUME NEW m \in ld \ Waits(cs1), NEW i \in DOMAIN en[m]
       PROVE  \/ /\ Linked(ld, nm, en, m, i)
                 /\ en[m][i] \in Waits(cs1) => nm[m] \in Needs(nm[en[m][i]])
              \/ Cyclic(nm[m])
  <2>1. CASE m = r
    <3>1. i \in 1..cs[l].i - 1
      <4>1. PICK c : c = cs[l].i
          OBVIOUS
      <4>2. c \in 1..MaxRequired + 1 /\ c > Len(en[r])
          BY <1>2, <1>4, <1>5, <1>10, <1>11, <4>1
      <4>3. i \in 1..Len(en[r]) /\ Len(en[r]) \in 0..MaxRequired
          BY <1>2, <1>11, <1>13, <2>1
      <4> QED BY <4>1, <4>2, <4>3, LoadingAssumption
    <3>2. Linked(ld, nm, en, m, i) \/ Cyclic(nm[m])
        BY <1>1, <1>5, <1>10, <1>11, <2>1, <3>1 DEF Begun
    <3>3. ASSUME en[m][i] \in Waits(cs1) PROVE nm[m] \in Needs(nm[en[m][i]])
      <4>1. PICK k \in 1..l - 1 : cs[k].m = en[m][i]
          BY <1>5, <3>3 DEF Waits
      <4>2. k \in 1..l /\ k < l
          BY <1>7, <4>1
      <4> QED BY <1>1, <1>5, <1>10, <1>11, <2>1, <4>1, <4>2 DEF Nested
    <3> QED BY <3>2, <3>3
  <2>2. CASE m # r
    <3>1. m \in ld \ Waits(cs)
        BY <1>12, <1>13, <2>2
    <3> QED BY <1>1, <1>12, <1>13, <3>1 DEF Resolved
  <2> QED BY <2>1, <2>2
<1>14. Resolved(ld, nm, en, cs1)
    BY <1>13 DEF Resolved
<1> QED BY <1>1, <1>6, <1>8, <1>9, <1>14 DEF LoadState

\* A module becomes the entry of the request that the innermost call is at.
Enters(en, cs, e, en1, cs1) ==
    /\ en1 = [en EXCEPT ![cs[Len(cs)].m][cs[Len(cs)].i] = e]
    /\ cs1 = [cs EXCEPT ![Len(cs)].i = @ + 1]

\* The lists of entries afterwards.
LEMMA EnteredEntries ==
    ASSUME NEW S, NEW e \in S, NEW en \in Seq(Seq(S)),
           NEW r \in 1..Len(en), NEW i \in 1..Len(en[r]),
           NEW cs, cs[Len(cs)].m = r, cs[Len(cs)].i = i,
           NEW en1, NEW cs1, Enters(en, cs, e, en1, cs1)
    PROVE  /\ en1 \in Seq(Seq(S)) /\ Len(en1) = Len(en)
           /\ \A m \in 1..Len(en) : m # r => en1[m] = en[m]
           /\ en1[r] \in Seq(S) /\ Len(en1[r]) = Len(en[r]) /\ en1[r][i] = e
           /\ \A j \in 1..Len(en[r]) : j # i => en1[r][j] = en[r][j]
<1>1. PICK es : es = [en[r] EXCEPT ![i] = e]
    OBVIOUS
<1>2. en1 = [en EXCEPT ![r] = es]
    BY <1>1 DEF Enters
<1>3. en[r] \in Seq(S)
    BY ElementOfSeq
<1>4. PICK f : f = en[r]
    OBVIOUS
<1>5. f \in Seq(S) /\ es = [f EXCEPT ![i] = e] /\ i \in 1..Len(f)
    BY <1>1, <1>3, <1>4
<1>6. es \in Seq(S) /\ Len(es) = Len(f)
    BY <1>5, ExceptSeq
<1>7. es[i] = e /\ \A j \in 1..Len(f) : j # i => es[j] = f[j]
    BY <1>5
<1>8. en1 \in Seq(Seq(S)) /\ Len(en1) = Len(en)
    BY <1>2, <1>6, ExceptSeq
<1>9. en1[r] = es /\ \A m \in 1..Len(en) : m # r => en1[m] = en[m]
    BY <1>2
<1> QED BY <1>4, <1>6, <1>7, <1>8, <1>9

\* A call of js_resolve_module.
Call == [m : Objects, i : 1..MaxRequired + 1]

\* The calls afterwards.
LEMMA EnteredCalls ==
    ASSUME NEW cs \in Seq(Call), cs # <<>>,
           cs[Len(cs)].i <= MaxRequired,
           NEW en, NEW e, NEW en1, NEW cs1, Enters(en, cs, e, en1, cs1)
    PROVE  /\ cs1 \in Seq(Call) /\ Len(cs1) = Len(cs)
           /\ \A k \in 1..Len(cs) : k # Len(cs) => cs1[k] = cs[k]
           /\ cs1[Len(cs)].m = cs[Len(cs)].m /\ cs1[Len(cs)].i = cs[Len(cs)].i + 1
<1>1. PICK l : l = Len(cs)
    OBVIOUS
<1>2. l \in 1..Len(cs)
    BY <1>1
<1>3. PICK c : c = cs[l]
    OBVIOUS
<1>4. c \in Call /\ c.m \in Objects /\ c.i \in 1..MaxRequired + 1 /\ c.i <= MaxRequired
  <2>1. c \in Call /\ c.i <= MaxRequired
      BY <1>1, <1>2, <1>3, ElementOfSeq
  <2> QED BY <2>1 DEF Call
<1>5. PICK d : d = [c EXCEPT !.i = c.i + 1]
    OBVIOUS
<1>6. d \in Call /\ d.m = c.m /\ d.i = c.i + 1
  <2>1. c.i + 1 \in 1..MaxRequired + 1
      BY <1>4, LoadingAssumption
  <2>2. d.m = c.m /\ d.i = c.i + 1 /\ d = [m |-> c.m, i |-> c.i + 1]
      BY <1>4, <1>5 DEF Call
  <2> QED BY <1>4, <2>1, <2>2 DEF Call
<1>7. cs1 = [cs EXCEPT ![l] = d]
    BY <1>1, <1>3, <1>5 DEF Enters
<1>8. cs1 \in Seq(Call) /\ Len(cs1) = Len(cs)
    BY <1>2, <1>6, <1>7, ExceptSeq
<1>9. cs1[l] = d /\ \A k \in 1..Len(cs) : k # l => cs1[k] = cs[k]
    BY <1>2, <1>7
<1> QED BY <1>1, <1>3, <1>6, <1>8, <1>9

LEMMA EntryKeeps ==
    ASSUME requests \in [Names -> Lists],
           NEW n, NEW ld, NEW nm, NEW en, NEW cs, NEW us, LoadState(n, ld, nm, en, cs, us),
           cs # <<>>, NEW e \in ld, Requests(nm, en, cs, nm[e]),
           NEW en1, NEW cs1, Enters(en, cs, e, en1, cs1)
    PROVE  LoadState(n, ld, nm, en1, cs1, us)
<1>1. /\ LoadTypes(n, ld, nm, en, cs, us) /\ Once(ld, nm) /\ Nested(ld, nm, en, cs)
      /\ Begun(ld, nm, en, cs) /\ Resolved(ld, nm, en, cs) /\ ReadInCycle(us)
    BY DEF LoadState
<1>2. /\ \A m \in 1..n - 1 :
            /\ m \in Objects /\ nm[m] \in Names
            /\ en[m] \in Seq(Objects \cup {None}) /\ Len(en[m]) \in 0..MaxRequired
            /\ DOMAIN en[m] = 1..Len(en[m])
      /\ Len(cs) \in Nat /\ DOMAIN cs = 1..Len(cs)
      /\ \A k \in DOMAIN cs : cs[k].m \in Objects /\ cs[k].i \in 1..MaxRequired + 1
    BY <1>1, LoadFields
<1>3. /\ ld \subseteq 1..n - 1 /\ cs \in Seq([m : Objects, i : 1..MaxRequired + 1])
      /\ en \in Seq(Seq(Objects \cup {None})) /\ Len(en) = n - 1
      /\ \A m \in 1..n - 1 : Len(en[m]) = Len(requests[nm[m]])
    BY <1>1 DEF LoadTypes
<1>4. PICK l : l = Len(cs)
    OBVIOUS
<1>5. PICK r : r = cs[l].m
    OBVIOUS
<1>6. PICK i : i = cs[l].i
    OBVIOUS
<1>7. l \in Nat /\ DOMAIN cs = 1..l /\ l \in 1..l
    BY <1>2, <1>4
<1>8. /\ r \in ld /\ r \in 1..n - 1
      /\ Len(en[r]) \in 0..MaxRequired /\ i \in 1..Len(en[r]) /\ i <= MaxRequired
      /\ requests[nm[r]][i] = nm[e]
  <2>1. r \in ld
      BY <1>1, <1>5, <1>7 DEF Nested
  <2>2. r \in 1..n - 1
      BY <1>3, <2>1
  <2>3. i \in 1..MaxRequired + 1 /\ Len(en[r]) \in 0..MaxRequired
      BY <1>2, <1>6, <1>7, <2>2
  <2>4. i <= Len(en[r]) /\ requests[nm[r]][i] = nm[e]
      BY <1>4, <1>5, <1>6 DEF Requests
  <2> QED BY <2>1, <2>2, <2>3, <2>4, LoadingAssumption
<1>9. /\ en1 \in Seq(Seq(Objects \cup {None})) /\ Len(en1) = n - 1
      /\ \A m \in 1..n - 1 : m # r => en1[m] = en[m]
      /\ Len(en1[r]) = Len(en[r]) /\ en1[r][i] = e
      /\ \A j \in 1..Len(en[r]) : j # i => en1[r][j] = en[r][j]
  <2>1. e \in Objects \cup {None}
      BY <1>2, <1>3
  <2>2. r \in 1..Len(en)
      BY <1>3, <1>8
  <2>3. cs[Len(cs)].m = r /\ cs[Len(cs)].i = i
      BY <1>4, <1>5, <1>6
  <2>4. PICK S : S = Objects \cup {None}
      OBVIOUS
  <2>5. en \in Seq(Seq(S)) /\ r \in 1..Len(en) /\ i \in 1..Len(en[r]) /\ e \in S
      BY <1>3, <1>8, <2>1, <2>2, <2>4
  <2>6. /\ en1 \in Seq(Seq(S)) /\ Len(en1) = Len(en)
        /\ \A m \in 1..Len(en) : m # r => en1[m] = en[m]
        /\ en1[r] \in Seq(S) /\ Len(en1[r]) = Len(en[r]) /\ en1[r][i] = e
        /\ \A j \in 1..Len(en[r]) : j # i => en1[r][j] = en[r][j]
      BY <2>3, <2>5, EnteredEntries
  <2> QED BY <1>3, <2>4, <2>6
<1>10. /\ cs1 \in Seq([m : Objects, i : 1..MaxRequired + 1]) /\ DOMAIN cs1 = 1..l
       /\ \A k \in 1..l : k # l => cs1[k] = cs[k]
       /\ cs1[l].m = r /\ cs1[l].i = i + 1
  <2>1. cs \in Seq(Call)
      BY <1>3 DEF Call
  <2>2. cs[Len(cs)].i <= MaxRequired
      BY <1>4, <1>6, <1>8
  <2>3. /\ cs1 \in Seq(Call) /\ Len(cs1) = Len(cs)
        /\ \A k \in 1..Len(cs) : k # Len(cs) => cs1[k] = cs[k]
        /\ cs1[Len(cs)].m = cs[Len(cs)].m /\ cs1[Len(cs)].i = cs[Len(cs)].i + 1
      BY <2>1, <2>2, EnteredCalls
  <2>4. DOMAIN cs1 = 1..l
      BY <1>4, <2>3
  <2>5. cs1 \in Seq([m : Objects, i : 1..MaxRequired + 1])
      BY <2>3 DEF Call
  <2> QED BY <1>4, <1>5, <1>6, <2>3, <2>4, <2>5
<1>11. \A m \in 1..n - 1 : Len(en1[m]) = Len(en[m])
    BY <1>9
<1>12. LoadTypes(n, ld, nm, en1, cs1, us)
  <2>1. \A m \in 1..n - 1 : Len(en1[m]) = Len(requests[nm[m]])
      BY <1>3, <1>11
  <2> QED BY <1>1, <1>9, <1>10, <2>1 DEF LoadTypes
<1>13. \A k \in 1..l : cs1[k].m = cs[k].m /\ cs[k].m \in 1..n - 1 /\ (k # l => cs[k].m # r)
  <2>1. ASSUME NEW k \in 1..l
        PROVE  cs1[k].m = cs[k].m /\ cs[k].m \in 1..n - 1 /\ (k # l => cs[k].m # r)
    <3>1. cs[k].m \in ld
        BY <1>1, <1>7 DEF Nested
    <3>2. cs1[k].m = cs[k].m
        BY <1>5, <1>10
    <3>3. k # l => cs[k].m # r
      <4>1. k # l => k < l
          BY <1>7
      <4> QED BY <1>1, <1>5, <1>7, <4>1 DEF Nested
    <3> QED BY <1>3, <3>1, <3>2, <3>3
  <2> QED BY <2>1
<1>14. Nested(ld, nm, en1, cs1)
  <2>1. ASSUME NEW k \in 1..l
        PROVE  cs1[k].m \in ld /\ cs1[k].i <= Len(en1[cs1[k].m]) + 1
    <3>1. CASE k = l
      <4>1. cs1[k].m = r /\ cs1[k].i = i + 1 /\ Len(en1[r]) = Len(en[r])
          BY <1>9, <1>10, <3>1
      <4>2. i + 1 <= Len(en[r]) + 1
          BY <1>8
      <4> QED BY <1>8, <4>1, <4>2
    <3>2. CASE k # l
      <4>1. cs1[k] = cs[k] /\ Len(en1[cs[k].m]) = Len(en[cs[k].m])
          BY <1>10, <1>11, <1>13, <3>2
      <4> QED BY <1>1, <1>7, <4>1 DEF Nested
    <3> QED BY <3>1, <3>2
  <2>2. ASSUME NEW j \in 1..l, NEW k \in 1..l, j < k
        PROVE  cs1[j].m # cs1[k].m /\ nm[cs1[k].m] \in Needs(nm[cs1[j].m])
      BY <1>1, <1>7, <1>13, <2>2 DEF Nested
  <2>3. ASSUME NEW j \in 1..l, NEW k \in 1..l, k = j + 1
        PROVE  /\ cs1[j].i <= Len(en1[cs1[j].m])
               /\ requests[nm[cs1[j].m]][cs1[j].i] = nm[cs1[k].m]
    <3>1. j # l
        BY <1>7, <2>3
    <3>2. cs1[j] = cs[j] /\ cs1[k].m = cs[k].m /\ Len(en1[cs[j].m]) = Len(en[cs[j].m])
        BY <1>10, <1>11, <1>13, <3>1
    <3> QED BY <1>1, <1>7, <2>3, <3>2 DEF Nested
  <2>4. DOMAIN cs1 = 1..l
      BY <1>10
  <2> QED BY <2>1, <2>2, <2>3, <2>4 DEF Nested
<1>15. Begun(ld, nm, en1, cs1)
  <2>1. ASSUME NEW k \in 1..l, NEW j \in 1..cs1[k].i - 1
        PROVE  Linked(ld, nm, en1, cs1[k].m, j) \/ Cyclic(nm[cs1[k].m])
    <3>1. CASE k = l /\ j = i
        BY <1>8, <1>9, <1>10, <3>1 DEF Linked
    <3>2. CASE k = l /\ j # i
      <4>1. j \in 1..cs[l].i - 1 /\ j \in 1..Len(en[r])
          BY <1>6, <1>8, <1>10, <2>1, <3>2
      <4>2. Linked(ld, nm, en, r, j) \/ Cyclic(nm[r])
          BY <1>1, <1>5, <1>7, <4>1 DEF Begun
      <4>3. en1[r][j] = en[r][j]
          BY <1>9, <3>2, <4>1
      <4> QED BY <1>10, <3>2, <4>2, <4>3 DEF Linked
    <3>3. CASE k # l
      <4>1. cs1[k] = cs[k] /\ en1[cs[k].m] = en[cs[k].m]
          BY <1>9, <1>10, <1>13, <3>3
      <4>2. Linked(ld, nm, en, cs[k].m, j) \/ Cyclic(nm[cs[k].m])
          BY <1>1, <1>7, <2>1, <4>1 DEF Begun
      <4> QED BY <4>1, <4>2 DEF Linked
    <3> QED BY <3>1, <3>2, <3>3
  <2> QED BY <1>10, <2>1 DEF Begun
<1>16. Waits(cs1) = Waits(cs) /\ r \in Waits(cs)
    BY <1>5, <1>7, <1>10, <1>13 DEF Waits
<1>17. Resolved(ld, nm, en1, cs1)
  <2>1. ASSUME NEW m \in ld \ Waits(cs1), NEW j \in DOMAIN en1[m]
        PROVE  \/ /\ Linked(ld, nm, en1, m, j)
                  /\ en1[m][j] \in Waits(cs1) => nm[m] \in Needs(nm[en1[m][j]])
               \/ Cyclic(nm[m])
    <3>1. m \in ld \ Waits(cs) /\ en1[m] = en[m]
        BY <1>3, <1>9, <1>16, <2>1
    <3>2. \/ /\ Linked(ld, nm, en, m, j)
             /\ en[m][j] \in Waits(cs) => nm[m] \in Needs(nm[en[m][j]])
          \/ Cyclic(nm[m])
        BY <1>1, <2>1, <3>1 DEF Resolved
    <3> QED BY <1>16, <3>1, <3>2 DEF Linked
  <2> QED BY <2>1 DEF Resolved
<1> QED BY <1>1, <1>12, <1>14, <1>15, <1>17 DEF LoadState

\* A request fails: the modules that wait go, and where they were entries a
\* cycle is left behind.
LEMMA FailKeeps ==
    ASSUME requests \in [Names -> Lists],
           NEW n, NEW ld, NEW nm, NEW en, NEW cs, NEW us, LoadState(n, ld, nm, en, cs, us),
           NEW ld1, ld1 = ld \ Waits(cs)
    PROVE  LoadState(n, ld1, nm, en, <<>>, us)
<1>1. /\ LoadTypes(n, ld, nm, en, cs, us) /\ Once(ld, nm) /\ Nested(ld, nm, en, cs)
      /\ Resolved(ld, nm, en, cs) /\ ReadInCycle(us)
    BY DEF LoadState
<1>2. \A m \in 1..n - 1 :
            /\ nm[m] \in Names /\ DOMAIN en[m] = 1..Len(en[m])
            /\ DOMAIN requests[nm[m]] = 1..Len(en[m])
    BY <1>1, LoadFields
<1>3. ld \subseteq 1..n - 1
    BY <1>1 DEF LoadTypes
<1>4. /\ <<>> \in Seq([m : Objects, i : 1..MaxRequired + 1]) /\ DOMAIN <<>> = {}
      /\ Waits(<<>>) = {}
  <2>1. PICK T : T = [m : Objects, i : 1..MaxRequired + 1]
      OBVIOUS
  <2>2. <<>> \in Seq(T) /\ DOMAIN <<>> = {}
      OBVIOUS
  <2> QED BY <2>1, <2>2 DEF Waits
<1>5. LoadTypes(n, ld1, nm, en, <<>>, us)
    BY <1>1, <1>4 DEF LoadTypes
<1>6. Once(ld1, nm)
    BY <1>1 DEF Once
<1>7. Nested(ld1, nm, en, <<>>) /\ Begun(ld1, nm, en, <<>>)
    BY <1>4 DEF Nested, Begun
<1>8. ASSUME NEW m \in ld1, NEW i \in DOMAIN en[m]
      PROVE  Linked(ld1, nm, en, m, i) \/ Cyclic(nm[m])
  <2>1. \/ /\ Linked(ld, nm, en, m, i)
           /\ en[m][i] \in Waits(cs) => nm[m] \in Needs(nm[en[m][i]])
        \/ Cyclic(nm[m])
      BY <1>1, <1>8 DEF Resolved
  <2>2. CASE Linked(ld, nm, en, m, i) /\ en[m][i] \in Waits(cs)
    <3>1. PICK e : e = en[m][i]
        OBVIOUS
    <3>2. e \in ld /\ e # m /\ m \in ld
        BY <1>8, <2>2, <3>1 DEF Linked
    <3>3. /\ m \in 1..n - 1 /\ nm[m] \in Names /\ nm[e] \in Names
          /\ i \in DOMAIN requests[nm[m]] /\ nm[e] = requests[nm[m]][i]
        BY <1>2, <1>3, <1>8, <2>2, <3>1, <3>2 DEF Linked
    <3>4. nm[e] # nm[m]
        BY <1>1, <3>2 DEF Once
    <3>5. nm[e] \in Needs(nm[m])
        BY <3>3, NeedsRequests
    <3>6. nm[m] \in Needs(nm[e]) \/ Cyclic(nm[m])
        BY <2>1, <2>2, <3>1
    <3> QED BY <3>3, <3>4, <3>5, <3>6, CycleFound
  <2>3. CASE Linked(ld, nm, en, m, i) /\ en[m][i] \notin Waits(cs)
      BY <2>3 DEF Linked
  <2> QED BY <2>1, <2>2, <2>3
<1>9. Resolved(ld1, nm, en, <<>>)
    BY <1>4, <1>8 DEF Resolved
<1> QED BY <1>1, <1>5, <1>6, <1>7, <1>9 DEF LoadState

\* When no file loads, a module whose requests are not all linked is in need of
\* a cycle.
LEMMA CompleteOrCyclic ==
    ASSUME LoadInv, calls = <<>>, NEW m \in loaded
    PROVE  Complete(m) \/ Cyclic(name[m])
<1>1. Resolved(loaded, name, entries, calls)
    BY DEF LoadInv, LoadState
<1>2. Waits(calls) = {}
  <2>1. DOMAIN <<>> = {}
      OBVIOUS
  <2> QED BY <2>1 DEF Waits
<1> QED BY <1>1, <1>2 DEF Resolved, Linked, Complete

\* When there is no cycle, an import reads loaded modules only.
LEMMA ReadLoaded ==
    ASSUME LoadInv, calls = <<>>, NEW m \in loaded, ~Reads(m) \subseteq loaded
    PROVE  \E x, y \in Names : InCycle(x, y)
<1>1. loaded \subseteq Objects
  <2>1. LoadTypes(next, loaded, name, entries, calls, used) /\ requests \in [Names -> Lists]
      BY DEF LoadInv, LoadState
  <2>2. \A k \in 1..next - 1 : k \in Objects
      BY <2>1, LoadFields
  <2> QED BY <2>1, <2>2 DEF LoadTypes
<1>2. ~Closed(loaded)
  <2>1. loaded \in SUBSET (Objects \cup {None})
      BY <1>1
  <2> QED BY <2>1 DEF Reads
<1>3. PICK k \in loaded : ~Complete(k)
    BY <1>2 DEF Closed, Complete, ToSet
<1>4. Cyclic(name[k])
    BY <1>3, CompleteOrCyclic
<1> QED BY <1>4 DEF Cyclic, Needs

-----------------------------------------------------------------------------
\* What the files request does not change.
LEMMA SameNeeds ==
    ASSUME requests' = requests, NEW x
    PROVE  Needs(x)' = Needs(x)
BY DEF Needs

LEMMA SameCyclic ==
    ASSUME requests' = requests, NEW x
    PROVE  Cyclic(x)' <=> Cyclic(x)
BY SameNeeds DEF Cyclic, InCycle

LEMMA Steps ==
    ASSUME LoadInv, requests' = requests,
           LoadState(next', loaded', name', entries', calls', used')
    PROVE  LoadInv'
<1>1. (requests \in [Names -> Lists])'
    BY DEF LoadInv, Lists
<1>2. LoadTypes(next, loaded, name, entries, calls, used)'
    BY DEF LoadState, LoadTypes
<1>3. Once(loaded, name)'
    BY DEF LoadState, Once
<1>4. Nested(loaded, name, entries, calls)'
    BY SameNeeds DEF LoadState, Nested
<1>5. Begun(loaded, name, entries, calls)'
    BY SameCyclic DEF LoadState, Begun, Linked
<1>6. Resolved(loaded, name, entries, calls)'
    BY SameCyclic, SameNeeds DEF LoadState, Resolved, Linked, Waits
<1>7. ReadInCycle(used)'
    BY SameNeeds DEF LoadState, ReadInCycle, InCycle
<1> QED BY <1>1, <1>2, <1>3, <1>4, <1>5, <1>6, <1>7 DEF LoadInv, LoadState

LEMMA InitLoadInv ==
    ASSUME LoadingInit
    PROVE  LoadInv
<1>1. /\ requests \in [Names -> Lists] /\ loaded = {} /\ next = 1
      /\ name = <<>> /\ entries = <<>> /\ calls = <<>> /\ used = FALSE
    BY DEF LoadingInit
<1>2. DOMAIN calls = {}
    BY <1>1
<1>3. LoadTypes(next, loaded, name, entries, calls, used)
  <2>1. PICK T : T = [m : Objects, i : 1..MaxRequired + 1]
      OBVIOUS
  <2>2. calls \in Seq(T)
      BY <1>1
  <2>3. PICK S : S = Seq(Objects \cup {None})
      OBVIOUS
  <2>4. name \in Seq(Names) /\ Len(name) = 0 /\ entries \in Seq(S) /\ Len(entries) = 0
      BY <1>1
  <2>5. next \in 1..MaxModules + 1 /\ next - 1 = 0 /\ 1..next - 1 = {}
      BY <1>1, LoadingAssumption
  <2> QED BY <1>1, <2>1, <2>2, <2>3, <2>4, <2>5 DEF LoadTypes
<1>4. Once(loaded, name) /\ Resolved(loaded, name, entries, calls)
    BY <1>1 DEF Once, Resolved
<1>5. Nested(loaded, name, entries, calls) /\ Begun(loaded, name, entries, calls)
    BY <1>2 DEF Nested, Begun
<1> QED BY <1>1, <1>3, <1>4, <1>5 DEF LoadInv, LoadState, ReadInCycle

LEMMA NextLoadInv ==
    ASSUME LoadInv, [LoadingNext]_loadvars
    PROVE  LoadInv'
<1>1. requests \in [Names -> Lists] /\ LoadState(next, loaded, name, entries, calls, used)
    BY DEF LoadInv
<1>2. /\ LoadTypes(next, loaded, name, entries, calls, used)
      /\ Nested(loaded, name, entries, calls)
    BY <1>1 DEF LoadState
<1>3. /\ loaded \subseteq 1..next - 1
      /\ \A m \in 1..next - 1 : /\ m \in Objects /\ name[m] \in Names
                                /\ requests[name[m]] \in Seq(Names)
                                /\ DOMAIN requests[name[m]] = 1..Len(entries[m])
      /\ Len(calls) \in Nat /\ DOMAIN calls = 1..Len(calls)
      /\ \A k \in DOMAIN calls : calls[k].m \in Objects /\ calls[k].i \in 1..MaxRequired + 1
  <2>1. loaded \subseteq 1..next - 1
      BY <1>2 DEF LoadTypes
  <2> QED BY <1>1, <1>2, <2>1, LoadFields
<1>4. ASSUME calls # <<>>
      PROVE  /\ Frame = calls[Len(calls)] /\ Len(calls) \in DOMAIN calls
             /\ Frame.m \in loaded /\ Frame.i \in 1..MaxRequired + 1
  <2>1. Len(calls) \in DOMAIN calls
    <3>1. Len(calls) # 0
      <4>1. calls \in Seq([m : Objects, i : 1..MaxRequired + 1])
          BY <1>2 DEF LoadTypes
      <4> QED BY <1>4, <4>1, EmptySeq
    <3> QED BY <1>3, <3>1
  <2>2. Frame = calls[Len(calls)]
      BY DEF Frame, Last
  <2> QED BY <1>2, <1>3, <2>1, <2>2 DEF Nested
<1>5. ASSUME Pending
      PROVE  /\ calls # <<>> /\ Wanted \in Names
             /\ Requests(name, entries, calls, Wanted)
  <2>1. calls # <<>> /\ Frame.i <= Len(entries[Frame.m])
      BY <1>5 DEF Pending
  <2>2. Frame = calls[Len(calls)] /\ Frame.m \in loaded /\ Frame.i \in 1..MaxRequired + 1
      BY <1>4, <2>1
  <2>3. Requests(name, entries, calls, Wanted)
      BY <2>1, <2>2 DEF Requests, Wanted
  <2>4. /\ requests[name[Frame.m]] \in Seq(Names)
        /\ Frame.i \in DOMAIN requests[name[Frame.m]]
    <3>1. /\ Frame.m \in 1..next - 1
        BY <1>3, <2>2
    <3>2. Frame.i \in 1..Len(entries[Frame.m])
      <4>1. Frame.i \in Nat /\ Frame.i >= 1
          BY <2>2, LoadingAssumption
      <4>2. LoadTypes(next, loaded, name, entries, calls, used)
          BY <1>2
      <4>3. Len(entries[Frame.m]) \in Nat
          BY <1>1, <3>1, <4>2, LoadFields, LoadingAssumption
      <4> QED BY <2>1, <4>1, <4>3
    <3> QED BY <1>3, <3>1, <3>2
  <2>5. Wanted \in Names
    <3>1. PICK s : s = requests[name[Frame.m]]
        OBVIOUS
    <3>2. s \in Seq(Names) /\ Frame.i \in 1..Len(s)
        BY <2>4, <3>1
    <3> QED BY <3>1, <3>2, ElementOfSeq DEF Wanted
  <2> QED BY <2>1, <2>3, <2>5
<1>6. ASSUME NEW x \in Names, ~IsLoaded(x), Compiled(x, calls),
             calls # <<>> => Requests(name, entries, calls, x), UNCHANGED <<requests, used>>
      PROVE  LoadInv'
  <2>1. /\ next <= MaxModules /\ \A m \in loaded : name[m] # x
        /\ Compiles(next, name, entries, calls, x, name', entries', calls')
        /\ next' = next + 1 /\ loaded' = loaded \cup {next}
        /\ UNCHANGED <<requests, used>>
      BY <1>6 DEF Compiled, Compiles, IsLoaded
  <2>2. LoadState(next', loaded', name', entries', calls', used')
      BY <1>1, <1>6, <2>1, CompiledKeeps
  <2> QED BY <2>1, <2>2, Steps
<1>7. ASSUME NEW x \in Names, ImportLoaded(x)
      PROVE  LoadInv'
  <2>1. PICK m \in Objects : Found(x, m) /\ used' = (used \/ ~Reads(m) \subseteq loaded)
      BY <1>7 DEF ImportLoaded
  <2>2. calls = <<>> /\ m \in loaded
      BY <1>7, <2>1 DEF ImportLoaded, Found
  <2>3. ReadInCycle(used') /\ used' \in BOOLEAN
    <3>1. ~Reads(m) \subseteq loaded => \E y, z \in Names : InCycle(y, z)
        BY <2>2, ReadLoaded
    <3>2. ReadInCycle(used) /\ used \in BOOLEAN
        BY <1>1, <1>2 DEF LoadState, LoadTypes
    <3> QED BY <2>1, <3>1, <3>2 DEF ReadInCycle
  <2>4. UNCHANGED <<requests, loaded, next, name, entries, calls>>
      BY <1>7 DEF ImportLoaded
  <2>5. LoadTypes(next', loaded', name', entries', calls', used')
      BY <1>2, <2>3, <2>4 DEF LoadTypes
  <2>6. LoadState(next', loaded', name', entries', calls', used')
      BY <1>1, <2>3, <2>4, <2>5 DEF LoadState
  <2> QED BY <2>4, <2>6, Steps
<1>8. ASSUME NEW x \in Names, ImportFile(x)
      PROVE  LoadInv'
  <2>1. calls = <<>> /\ ~IsLoaded(x) /\ Compiled(x, calls) /\ UNCHANGED <<requests, used>>
      BY <1>8 DEF ImportFile
  <2> QED BY <1>6, <2>1
<1>9. ASSUME RequestLoaded
      PROVE  LoadInv'
  <2>1. PICK m \in Objects :
            /\ Found(Wanted, m)
            /\ entries' = [entries EXCEPT ![Frame.m][Frame.i] = m]
      BY <1>9 DEF RequestLoaded
  <2>2. /\ Pending /\ calls' = [calls EXCEPT ![Len(calls)].i = @ + 1]
        /\ UNCHANGED <<requests, loaded, next, name, used>>
      BY <1>9 DEF RequestLoaded
  <2>3. calls # <<>> /\ Requests(name, entries, calls, Wanted)
      BY <1>5, <2>2
  <2>4. m \in loaded /\ name[m] = Wanted
      BY <2>1 DEF Found
  <2>5. Requests(name, entries, calls, name[m])
      BY <2>3, <2>4
  <2>6. Enters(entries, calls, m, entries', calls')
    <3>1. Frame = calls[Len(calls)]
        BY <1>4, <2>3
    <3> QED BY <2>1, <2>2, <3>1 DEF Enters
  <2>7. LoadState(next, loaded, name, entries', calls', used)
      BY <1>1, <2>3, <2>4, <2>5, <2>6, EntryKeeps
  <2>8. LoadState(next', loaded', name', entries', calls', used')
      BY <2>2, <2>7
  <2> QED BY <2>2, <2>8, Steps
<1>10. ASSUME RequestFile
       PROVE  LoadInv'
  <2>1. Pending /\ ~IsLoaded(Wanted) /\ Compiled(Wanted, calls) /\ UNCHANGED <<requests, used>>
      BY <1>10 DEF RequestFile
  <2>2. Wanted \in Names /\ Requests(name, entries, calls, Wanted)
      BY <1>5, <2>1
  <2> QED BY <1>6, <2>1, <2>2
<1>11. ASSUME RequestFails
       PROVE  LoadInv'
  <2>1. /\ loaded' = loaded \ Waits(calls) /\ calls' = <<>>
        /\ UNCHANGED <<requests, next, name, entries, used>>
      BY <1>11 DEF RequestFails, Waiting, Waits
  <2>2. LoadState(next, loaded', name, entries, <<>>, used)
      BY <1>1, <2>1, FailKeeps
  <2>3. LoadState(next', loaded', name', entries', calls', used')
      BY <2>1, <2>2
  <2> QED BY <2>1, <2>3, Steps
<1>12. ASSUME RequestReturns
       PROVE  LoadInv'
  <2>1. /\ calls # <<>> /\ ~Pending /\ UNCHANGED <<requests, loaded, next, name, used>>
      BY <1>12 DEF RequestReturns
  <2>2. PICK l : l = Len(calls)
      OBVIOUS
  <2>3. PICK e : e = Frame.m
      OBVIOUS
  <2>4. /\ Frame = calls[l] /\ e \in loaded /\ l \in Nat /\ l >= 1 /\ DOMAIN calls = 1..l
      BY <1>3, <1>4, <2>1, <2>2, <2>3
  <2>5. Frame.i > Len(entries[Frame.m])
    <3>1. ~(Frame.i <= Len(entries[Frame.m]))
        BY <2>1 DEF Pending
    <3>2. Frame.i \in Int
        BY <1>4, <2>1, LoadingAssumption
    <3>3. Len(entries[Frame.m]) \in Int
      <4>1. Frame.m \in 1..next - 1
          BY <1>3, <2>3, <2>4
      <4> QED BY <1>1, <1>2, <4>1, LoadFields, LoadingAssumption
    <3> QED BY <3>1, <3>2, <3>3
  <2>6. PICK cs : cs = Front(calls)
      OBVIOUS
  <2>7. LoadState(next, loaded, name, entries, cs, used)
    <3>1. calls[Len(calls)].i > Len(entries[calls[Len(calls)].m])
        BY <2>2, <2>4, <2>5
    <3> QED BY <1>1, <2>1, <2>6, <3>1, PopKeeps
  <2>8. Len(cs) = l - 1 /\ \A k \in 1..l - 1 : cs[k] = calls[k]
    <3>1. calls \in Seq(Call)
        BY <1>2 DEF LoadTypes, Call
    <3> QED BY <2>1, <2>2, <2>6, <3>1, FrontFacts
  <2>9. CASE l = 1
    <3>1. calls' = <<>> /\ entries' = entries
        BY <1>12, <2>2, <2>9 DEF RequestReturns
    <3>2. cs = <<>>
      <4>1. LoadTypes(next, loaded, name, entries, cs, used)
          BY <2>7 DEF LoadState
      <4>2. cs \in Seq(Call)
          BY <4>1 DEF LoadTypes, Call
      <4> QED BY <2>8, <2>9, <4>2, EmptySeq
    <3>3. LoadState(next', loaded', name', entries', calls', used')
        BY <2>1, <2>7, <3>1, <3>2
    <3> QED BY <2>1, <3>3, Steps
  <2>10. CASE l # 1
    <3>1. l - 1 \in 1..l - 1 /\ l - 1 \in 1..l /\ l \in 1..l /\ l = (l - 1) + 1
        BY <2>4, <2>10
    <3>2. PICK f : f = calls[l - 1]
        OBVIOUS
    <3>3. f = cs[Len(cs)] /\ cs # <<>>
      <4>1. f = cs[Len(cs)] /\ Len(cs) # 0
          BY <2>4, <2>8, <2>10, <3>1, <3>2
      <4> QED BY <4>1
    <3>4. Requests(name, entries, cs, name[e])
      <4>1. f.i <= Len(entries[f.m]) /\ requests[name[f.m]][f.i] = name[e]
          BY <1>2, <2>3, <2>4, <3>1, <3>2 DEF Nested
      <4> QED BY <3>3, <4>1 DEF Requests
    <3>5. Enters(entries, cs, e, entries', calls')
      <4>1. /\ calls' = [Front(calls) EXCEPT ![Len(calls) - 1].i = @ + 1]
            /\ entries' = LET g == calls[Len(calls) - 1]
                          IN [entries EXCEPT ![g.m][g.i] = Frame.m]
          BY <1>12, <2>2, <2>10 DEF RequestReturns
      <4>2. Len(calls) - 1 = Len(cs) /\ calls[Len(calls) - 1] = cs[Len(cs)]
          BY <2>2, <2>8, <3>2, <3>3
      <4>3. /\ calls' = [cs EXCEPT ![Len(cs)].i = @ + 1]
            /\ entries' = [entries EXCEPT ![cs[Len(cs)].m][cs[Len(cs)].i] = e]
          BY <2>3, <2>6, <4>1, <4>2
      <4> QED BY <4>3 DEF Enters
    <3>6. LoadState(next, loaded, name, entries', calls', used)
        BY <1>1, <2>4, <2>7, <3>3, <3>4, <3>5, EntryKeeps
    <3>7. LoadState(next', loaded', name', entries', calls', used')
        BY <2>1, <3>6
    <3> QED BY <2>1, <3>7, Steps
  <2> QED BY <2>9, <2>10
<1>13. ASSUME UNCHANGED loadvars
       PROVE  LoadInv'
  <2>1. UNCHANGED <<requests, loaded, next, name, entries, calls, used>>
      BY <1>13 DEF loadvars
  <2>2. LoadState(next', loaded', name', entries', calls', used')
      BY <1>1, <2>1
  <2> QED BY <2>1, <2>2, Steps
<1> QED BY <1>7, <1>8, <1>9, <1>10, <1>11, <1>12, <1>13 DEF LoadingNext

LEMMA LoadInvAlways == LoadingSpec => []LoadInv
BY InitLoadInv, NextLoadInv, PTL DEF LoadingSpec

LEMMA LoadInvHolds ==
    ASSUME LoadInv
    PROVE  LoadingTypeOK /\ LoadedOnce
<1>1. /\ LoadTypes(next, loaded, name, entries, calls, used) /\ Once(loaded, name)
      /\ requests \in [Names -> Lists] /\ ReadInCycle(used)
    BY DEF LoadInv, LoadState
<1>2. LoadingTypeOK
    BY <1>1 DEF LoadTypes, LoadingTypeOK
<1>3. calls = <<>> => \A m \in loaded : ~Complete(m) => \E x, y \in Needs(name[m]) : InCycle(x, y)
    BY CompleteOrCyclic DEF Cyclic
<1> QED BY <1>1, <1>2, <1>3 DEF Once, ReadInCycle, LoadedOnce

\* The objects, lists and calls have their types in every state.
THEOREM LoadingTypes == LoadingSpec => []LoadingTypeOK
<1>1. LoadInv => LoadingTypeOK
    BY LoadInvHolds
<1> QED BY <1>1, LoadInvAlways, PTL

\* A file is loaded once, whoever requests it, and a module is left incomplete
\* only where a file of a cycle of requests did not load.
THEOREM ModulesLoadedOnce == LoadingSpec => []LoadedOnce
<1>1. LoadInv => LoadedOnce
    BY LoadInvHolds
<1> QED BY <1>1, LoadInvAlways, PTL
=============================================================================
