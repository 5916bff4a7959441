--------------------------- MODULE PromisesProofs ---------------------------
(***************************************************************************)
(* Promises for every number of promises, async functions and operations:  *)
(* the reactions are exact, promises that follow others agree with them,   *)
(* and the host hears of the rejections that nobody handles.               *)
(***************************************************************************)
EXTENDS Promises, PromiseAll, FiniteSetTheorems, TLAPS

\* Results are never objects: those are followed.
Plain == {"value", "TypeError"}

\* The states of a settled promise.
Settlements == {"fulfilled", "rejected"}

\* The job runs a reaction; the others call the then method of a thenable.
Reacts(job) == job.kind = "reaction"

\* The reactions that ran, that are queued, and that are on lists of promises.
Ran(r) == {r[i] : i \in DOMAIN r}

Queued(e) == {e.jobs[i].reaction : i \in {i \in DOMAIN e.jobs : Reacts(e.jobs[i])}}

Listed(e) ==
    UNION {{e.promise[p].reactions[i] : i \in DOMAIN e.promise[p].reactions} : p \in Promise}

Waits(e) == Queued(e) \cup Listed(e)

\* A reaction x may be at a place before that of y.
Lt(x, y) == x.id # y.id /\ (x.of = y.of => x.id < y.id)

\* The reactions of one promise are in the order of their calls at each place,
\* and run before those that are queued, which run before those on lists.
Ordered(e, r) ==
    /\ \A i, j \in DOMAIN r : i < j => Lt(r[i], r[j])
    /\ \A i, j \in DOMAIN e.jobs :
          i < j /\ Reacts(e.jobs[i]) /\ Reacts(e.jobs[j])
              => Lt(e.jobs[i].reaction, e.jobs[j].reaction)
    /\ \A p \in Promise : \A i, j \in DOMAIN e.promise[p].reactions :
          i < j => Lt(e.promise[p].reactions[i], e.promise[p].reactions[j])
    /\ \A x \in Ran(r), y \in Waits(e) : Lt(x, y)
    /\ \A x \in Queued(e), y \in Listed(e) : Lt(x, y)
    /\ \A p, q \in Promise : p # q =>
          \A i \in DOMAIN e.promise[p].reactions, j \in DOMAIN e.promise[q].reactions :
             e.promise[p].reactions[i].id # e.promise[q].reactions[j].id

\* The calls of then and await have the reactions that there are.
Numbered(e, r) == {x.id : x \in Ran(r) \cup Waits(e)} = 1..e.thens

\* A queued reaction is told the state of its promise, and the list of a
\* promise holds its own reactions while it is pending.
Truthful(e) ==
    /\ \A i \in DOMAIN e.jobs : Reacts(e.jobs[i]) =>
          LET d == e.promise[e.jobs[i].reaction.of] IN
          /\ d.state = IF e.jobs[i].rej THEN "rejected" ELSE "fulfilled"
          /\ d.result = e.jobs[i].value
    /\ \A p \in Promise :
          /\ e.promise[p].result \in Plain
          /\ e.promise[p].reactions # <<>> => e.promise[p].state = "pending"
          /\ \A i \in DOMAIN e.promise[p].reactions : e.promise[p].reactions[i].of = p

\* A thenable job is the only one of its promise, which is pending and whose
\* functions have all been called.
Asked(e) ==
    /\ \A i \in DOMAIN e.jobs : ~Reacts(e.jobs[i]) =>
          LET p == e.jobs[i].promise IN
          /\ e.promise[p].state = "pending"
          /\ [promise |-> p, n |-> e.promise[p].funs] \in e.already
          /\ e.jobs[i].thenable \in Promise => e.promise[e.jobs[i].thenable].state # "none"
    /\ \A i, j \in DOMAIN e.jobs :
          i # j /\ ~Reacts(e.jobs[i]) /\ ~Reacts(e.jobs[j]) => e.jobs[i].promise # e.jobs[j].promise

\* A resolving function that was made.
Known(e, f) == f.n <= e.promise[f.promise].funs

\* Only the last pair of a promise may be uncalled, and only while it is
\* pending.
Pairs(e) ==
    /\ \A f \in e.already : Known(e, f)
    /\ \A p \in Promise :
          LET d == e.promise[p] IN
          /\ \A n \in 1..d.funs-1 : [promise |-> p, n |-> n] \in e.already
          /\ d.state = "none" <=> d.funs = 0
          /\ d.state \in Settlements => [promise |-> p, n |-> d.funs] \in e.already

\* A promise is handled when then was called on it, and the host is told of the
\* rejected ones that are not.
Handled(e, r) ==
    \A p \in Promise :
        LET d == e.promise[p] IN
        /\ d.handled <=> \E x \in Ran(r) \cup Waits(e) : x.of = p
        /\ p \in e.unhandled <=> d.state = "rejected" /\ ~d.handled
        /\ d.state = "none" => ~d.handled

\* The reaction passes the outcome on to another promise.
Resolving(x) == x.on[TRUE].kind = "resolving"

\* The reaction continues an async function.
Resuming(x) == x.on[TRUE].kind = "resume"

\* The two handlers of a reaction belong together.
WellFormed(x) ==
    /\ x.on[TRUE].kind \in {"user", "undefined"} => x.on[FALSE].kind = "user" /\ x.cap \in Fun
    /\ Resolving(x) =>
          /\ x.on[FALSE].kind = "resolving" /\ x.on[FALSE].fun = x.on[TRUE].fun
          /\ x.on[TRUE].rej = TRUE /\ x.on[FALSE].rej = FALSE /\ x.cap = NoFun
    /\ Resuming(x) =>
          x.on[FALSE].kind = "resume" /\ x.on[FALSE].fun = x.on[TRUE].fun /\ x.cap = NoFun

\* The functions that a reaction passes the outcome to are called by nobody
\* else: they are uncalled, not among those at large (F), and no other reaction
\* that waits has them.
Sole(e, F) ==
    /\ \A f \in F : Known(e, f)
    /\ \A x \in Waits(e) :
          /\ WellFormed(x)
          /\ x.cap # NoFun => Known(e, x.cap)
          /\ Resolving(x) =>
                /\ Known(e, x.on[TRUE].fun)
                /\ x.on[TRUE].fun \notin F \cup e.already
                /\ \A y \in Waits(e) :
                      /\ y.cap # x.on[TRUE].fun
                      /\ Resolving(y) /\ y.on[TRUE].fun = x.on[TRUE].fun => y = x

\* A promise that follows another, by what was recorded, is still to call its
\* then method, or has its reaction waiting there, or has agreed with it.
FollowOK(e, fo) ==
    \A p \in Promise : fo[p] # NoFun =>
        \/ \E i \in DOMAIN e.jobs : e.jobs[i] = [kind |-> "thenable", promise |-> p, thenable |-> fo[p]]
        \/ \E x \in Waits(e) : x.of = fo[p] /\ Resolving(x) /\ x.on[TRUE].fun.promise = p
        \/ /\ e.promise[p].state \in Settlements
           /\ e.promise[p].state = e.promise[fo[p]].state
           /\ e.promise[p].result = e.promise[fo[p]].result

\* The invariant of the engine e, with the reactions r that ran, the functions
\* F at large and what promises follow.
EngineInv(e, r, F, fo) ==
    /\ e \in Engine /\ r \in Seq(Reaction) /\ F \subseteq Fun
    /\ fo \in [Promise -> Promise \cup {NoFun}]
    /\ Ordered(e, r) /\ Numbered(e, r) /\ Truthful(e) /\ Asked(e) /\ Pairs(e)
    /\ Handled(e, r) /\ Sole(e, F) /\ FollowOK(e, fo)

\* The functions that can be called: those the program holds, those of async
\* functions, and those of the frames of code that runs.
Hands(h, a, c) ==
    (h \cup {a[f].fun : f \in Async} \cup {c[i].fun : i \in {i \in DOMAIN c : c[i].kind # "async"}})
        \ {NoFun}

\* An async function has a frame only while it runs, and one reaction among W
\* resumes it while it waits.
Awaits(W, c, a) ==
    /\ \A i \in DOMAIN c : c[i].kind = "async" => a[c[i].async].state = "running"
    /\ \A i, j \in DOMAIN c :
          i # j /\ c[i].kind = "async" /\ c[j].kind = "async" => c[i].async # c[j].async
    /\ \A x \in W : Resuming(x) => a[x.on[TRUE].fun].state = "awaiting"
    /\ \A x, y \in W : Resuming(x) /\ Resuming(y) /\ x.on[TRUE].fun = y.on[TRUE].fun => x = y
    /\ \A f \in Async : a[f].state = "awaiting" => \E x \in W : Resuming(x) /\ x.on[TRUE].fun = f

\* The inductive invariant.
PromisesInv ==
    /\ TypeOK
    /\ EngineInv(eng, ran, Hands(held, async, calls), follows)
    /\ Awaits(Waits(eng), calls, async)

-----------------------------------------------------------------------------
\* The fields of the engine, one by one.
LEMMA EngineTypes ==
    ASSUME NEW e \in Engine
    PROVE  /\ e.promise \in [Promise -> PromiseData]
           /\ e.jobs \in Seq(Job) /\ e.already \subseteq Fun
           /\ e.unhandled \subseteq Promise /\ e.thens \in Nat
           /\ e = [promise |-> e.promise, jobs |-> e.jobs, already |-> e.already,
                   unhandled |-> e.unhandled, thens |-> e.thens]
BY DEF Engine

\* The fields of a promise.
LEMMA DataTypes ==
    ASSUME NEW d \in PromiseData
    PROVE  /\ d.state \in States /\ d.result \in Value /\ d.reactions \in Seq(Reaction)
           /\ d.handled \in BOOLEAN /\ d.funs \in Nat
           /\ d = [state |-> d.state, result |-> d.result, reactions |-> d.reactions,
                   handled |-> d.handled, funs |-> d.funs]
BY DEF PromiseData

\* What a job of each kind holds.
LEMMA JobTypes ==
    ASSUME NEW job \in Job
    PROVE  /\ Reacts(job) => /\ job.reaction \in Reaction /\ job.rej \in BOOLEAN
                             /\ job.value \in Value
           /\ ~Reacts(job) => /\ job.kind = "thenable" /\ job.promise \in Promise
                              /\ job.thenable \in Object
                              /\ job = [kind |-> "thenable", promise |-> job.promise,
                                        thenable |-> job.thenable]
BY DEF Job, Reacts

\* What a reaction holds, and which function its handlers call.
LEMMA ReactionTypes ==
    ASSUME NEW x \in Reaction
    PROVE  /\ x.of \in Promise /\ x.id \in Nat /\ x.cap \in Fun \cup {NoFun}
           /\ x.on \in [BOOLEAN -> Handler]
           /\ x.on[TRUE] \in Handler /\ x.on[FALSE] \in Handler
           /\ Resolving(x) => x.on[TRUE].fun \in Fun
           /\ Resuming(x) => x.on[TRUE].fun \in Async
<1>1. x.of \in Promise /\ x.id \in Nat /\ x.cap \in Fun \cup {NoFun} /\ x.on \in [BOOLEAN -> Handler]
    BY DEF Reaction
<1>2. x.on[TRUE] \in Handler /\ x.on[FALSE] \in Handler
    BY <1>1
<1>3. ASSUME NEW h \in Handler
      PROVE  (h.kind = "resolving" => h.fun \in Fun) /\ (h.kind = "resume" => h.fun \in Async)
    BY DEF Handler
<1> QED BY <1>1, <1>2, <1>3 DEF Resolving, Resuming

\* A resolving function belongs to a promise.
LEMMA FunTypes ==
    ASSUME NEW f \in Fun
    PROVE  f.promise \in Promise /\ f.n \in Nat \ {0} /\ f = [promise |-> f.promise, n |-> f.n]
BY DEF Fun

\* What it means to be queued, or on a list.
LEMMA QueuedIs ==
    ASSUME NEW e
    PROVE  /\ \A x : x \in Queued(e) <=>
                  \E i \in DOMAIN e.jobs : Reacts(e.jobs[i]) /\ x = e.jobs[i].reaction
           /\ \A x : x \in Listed(e) <=>
                  \E p \in Promise : \E i \in DOMAIN e.promise[p].reactions :
                      x = e.promise[p].reactions[i]
<1>1. \A x : x \in Queued(e) <=>
                  \E i \in DOMAIN e.jobs : Reacts(e.jobs[i]) /\ x = e.jobs[i].reaction
    BY DEF Queued
<1>2. \A x : x \in Listed(e) <=>
                  \E p \in Promise : \E i \in DOMAIN e.promise[p].reactions :
                      x = e.promise[p].reactions[i]
    BY DEF Listed
<1> QED BY <1>1, <1>2

\* All that waits is a reaction.
LEMMA WaitsTypes ==
    ASSUME NEW e \in Engine
    PROVE  /\ Queued(e) \subseteq Reaction /\ Listed(e) \subseteq Reaction
           /\ Waits(e) \subseteq Reaction
<1>1. Queued(e) \subseteq Reaction
  <2>1. \A i \in DOMAIN e.jobs : e.jobs[i] \in Job
      BY EngineTypes
  <2> QED BY <2>1, QueuedIs, JobTypes
<1>2. Listed(e) \subseteq Reaction
  <2>1. ASSUME NEW p \in Promise, NEW i \in DOMAIN e.promise[p].reactions
        PROVE  e.promise[p].reactions[i] \in Reaction
    <3>1. e.promise[p] \in PromiseData
        BY EngineTypes
    <3>2. e.promise[p].reactions \in Seq(Reaction)
        BY <3>1, DataTypes
    <3> QED BY <3>2
  <2> QED BY <2>1, QueuedIs
<1> QED BY <1>1, <1>2 DEF Waits

\* What a reaction is to a place depends on the jobs and the lists only.
LEMMA SameReactions ==
    ASSUME NEW e, NEW d, NEW r,
           d.jobs = e.jobs, d.thens = e.thens,
           \A p \in Promise : d.promise[p].reactions = e.promise[p].reactions
    PROVE  /\ Queued(d) = Queued(e) /\ Listed(d) = Listed(e) /\ Waits(d) = Waits(e)
           /\ Ordered(e, r) => Ordered(d, r)
           /\ Numbered(e, r) => Numbered(d, r)
<1>1. Queued(d) = Queued(e)
    BY DEF Queued
<1>2. Listed(d) = Listed(e)
  <2>1. \A x : x \in Listed(d) <=> x \in Listed(e)
    <3>1. \A x : x \in Listed(d) <=>
              \E p \in Promise : \E i \in DOMAIN d.promise[p].reactions :
                  x = d.promise[p].reactions[i]
        BY QueuedIs
    <3>2. \A x : x \in Listed(e) <=>
              \E p \in Promise : \E i \in DOMAIN e.promise[p].reactions :
                  x = e.promise[p].reactions[i]
        BY QueuedIs
    <3> QED BY <3>1, <3>2
  <2> QED BY <2>1
<1>3. Waits(d) = Waits(e)
    BY <1>1, <1>2 DEF Waits
<1>4. Ordered(e, r) => Ordered(d, r)
    BY <1>1, <1>2, <1>3 DEF Ordered
<1> QED BY <1>1, <1>2, <1>3, <1>4 DEF Numbered

\* A promise is made, with its first pair.
LEMMA NewEffect ==
    ASSUME NEW e \in Engine, NEW p \in Promise, NEW d, d = js_promise_constructor(e, p)
    PROVE  /\ d \in Engine
           /\ d.jobs = e.jobs /\ d.already = e.already /\ d.unhandled = e.unhandled
           /\ d.thens = e.thens
           /\ d.promise[p].state = "pending" /\ d.promise[p].result = "value"
           /\ d.promise[p].reactions = <<>> /\ ~d.promise[p].handled
           /\ d.promise[p].funs = 1
           /\ \A q \in Promise : q # p => d.promise[q] = e.promise[q]
<1>1. PICK w : w = NewPromise
    OBVIOUS
<1>2. w \in PromiseData /\ w.result = "value" /\ w.reactions = <<>> /\ w.handled = FALSE
    BY <1>1 DEF NewPromise, PromiseData, States, Value
<1>3. PICK n : n = [w EXCEPT !.state = "pending", !.funs = 1]
    OBVIOUS
<1>4. /\ n \in PromiseData /\ n.state = "pending" /\ n.result = w.result
      /\ n.reactions = w.reactions /\ n.handled = w.handled /\ n.funs = 1
    BY <1>2, <1>3 DEF PromiseData, States
<1>5. PICK P : P = [e.promise EXCEPT ![p] = n]
    OBVIOUS
<1>6. P \in [Promise -> PromiseData] /\ P[p] = n /\ \A q \in Promise : q # p => P[q] = e.promise[q]
    BY <1>4, <1>5, EngineTypes
<1>7. d = [promise |-> P, jobs |-> e.jobs, already |-> e.already, unhandled |-> e.unhandled,
           thens |-> e.thens]
    BY <1>1, <1>3, <1>5, EngineTypes DEF js_promise_constructor
<1>8. /\ d \in Engine
      /\ d.promise = P /\ d.jobs = e.jobs /\ d.already = e.already /\ d.unhandled = e.unhandled
      /\ d.thens = e.thens
  <2>1. /\ e.jobs \in Seq(Job) /\ e.already \in SUBSET Fun /\ e.unhandled \in SUBSET Promise
        /\ e.thens \in Nat
      BY EngineTypes
  <2> QED BY <1>6, <1>7, <2>1 DEF Engine
<1> QED BY <1>2, <1>4, <1>6, <1>8

\* A promise is made: its first pair of functions is at large, nothing waits
\* for it, and no other promise changes.
LEMMA NewKeeps ==
    ASSUME NEW e, NEW r, NEW F, NEW fo, EngineInv(e, r, F, fo),
           NEW p \in Promise, e.promise[p].state = "none",
           NEW d, d = js_promise_constructor(e, p)
    PROVE  /\ EngineInv(d, r, F \cup {FirstFun(p)}, fo)
           /\ Waits(d) = Waits(e)
           /\ d.promise[p].state = "pending"
           /\ \A q \in Promise : e.promise[q].state # "none" => d.promise[q] = e.promise[q]
<1>1. /\ e \in Engine /\ r \in Seq(Reaction) /\ F \subseteq Fun
      /\ fo \in [Promise -> Promise \cup {NoFun}]
    BY DEF EngineInv
<1>2. /\ Ordered(e, r) /\ Numbered(e, r) /\ Truthful(e) /\ Asked(e) /\ Pairs(e)
      /\ Handled(e, r) /\ Sole(e, F) /\ FollowOK(e, fo)
    BY DEF EngineInv
<1>3. /\ d \in Engine
      /\ d.jobs = e.jobs /\ d.already = e.already /\ d.unhandled = e.unhandled
      /\ d.thens = e.thens
      /\ d.promise[p].state = "pending" /\ d.promise[p].result = "value"
      /\ d.promise[p].reactions = <<>> /\ ~d.promise[p].handled /\ d.promise[p].funs = 1
      /\ \A q \in Promise : q # p => d.promise[q] = e.promise[q]
    BY <1>1, NewEffect
<1>4. e.promise[p].funs = 0 /\ e.promise[p].reactions = <<>> /\ ~e.promise[p].handled
    BY <1>2 DEF Pairs, Truthful, Handled
<1>5. \A q \in Promise : d.promise[q].reactions = e.promise[q].reactions
    BY <1>3, <1>4
<1>6. /\ Queued(d) = Queued(e) /\ Listed(d) = Listed(e) /\ Waits(d) = Waits(e)
      /\ Ordered(d, r) /\ Numbered(d, r)
    BY <1>2, <1>3, <1>5, SameReactions
<1>7. \A q \in Promise : e.promise[q].state # "none" => q # p /\ d.promise[q] = e.promise[q]
    BY <1>3
<1>8. ASSUME NEW f \in Fun, Known(e, f)
      PROVE  f # FirstFun(p) /\ f.promise # p /\ Known(d, f)
    BY <1>3, <1>4, <1>8, FunTypes DEF Known, FirstFun
<1>9. FirstFun(p) \in Fun /\ Known(d, FirstFun(p))
    BY <1>3 DEF Known, FirstFun, Fun
<1>10. \A i \in DOMAIN e.jobs : e.jobs[i] \in Job
    BY <1>1, EngineTypes
<1>11. Truthful(d)
  <2>1. ASSUME NEW i \in DOMAIN d.jobs, Reacts(d.jobs[i])
        PROVE  LET c == d.promise[d.jobs[i].reaction.of] IN
               /\ c.state = IF d.jobs[i].rej THEN "rejected" ELSE "fulfilled"
               /\ c.result = d.jobs[i].value
    <3>1. d.jobs[i].reaction.of \in Promise /\ i \in DOMAIN e.jobs /\ d.jobs[i] = e.jobs[i]
        BY <1>3, <1>10, <2>1, JobTypes, ReactionTypes
    <3> QED BY <1>2, <1>7, <2>1, <3>1 DEF Truthful
  <2>2. ASSUME NEW q \in Promise
        PROVE  /\ d.promise[q].result \in Plain
               /\ d.promise[q].reactions # <<>> => d.promise[q].state = "pending"
               /\ \A i \in DOMAIN d.promise[q].reactions : d.promise[q].reactions[i].of = q
      BY <1>2, <1>3 DEF Truthful, Plain
  <2> QED BY <2>1, <2>2 DEF Truthful
<1>12. Asked(d)
  <2>1. ASSUME NEW i \in DOMAIN d.jobs, ~Reacts(d.jobs[i])
        PROVE  LET q == d.jobs[i].promise IN
               /\ d.promise[q].state = "pending"
               /\ [promise |-> q, n |-> d.promise[q].funs] \in d.already
               /\ d.jobs[i].thenable \in Promise => d.promise[d.jobs[i].thenable].state # "none"
    <3>1. d.jobs[i].promise \in Promise /\ i \in DOMAIN e.jobs /\ d.jobs[i] = e.jobs[i]
        BY <1>3, <1>10, <2>1, JobTypes
    <3>2. /\ e.promise[d.jobs[i].promise].state = "pending"
          /\ [promise |-> d.jobs[i].promise, n |-> e.promise[d.jobs[i].promise].funs] \in e.already
          /\ d.jobs[i].thenable \in Promise => e.promise[d.jobs[i].thenable].state # "none"
        BY <1>2, <2>1, <3>1 DEF Asked
    <3>3. d.promise[d.jobs[i].promise] = e.promise[d.jobs[i].promise]
        BY <1>7, <3>1, <3>2
    <3> QED BY <1>3, <1>7, <3>2, <3>3
  <2> QED BY <1>2, <1>3, <2>1 DEF Asked
<1>13. Pairs(d)
  <2>1. \A f \in d.already : Known(d, f)
      BY <1>1, <1>2, <1>3, <1>8, EngineTypes DEF Pairs
  <2>2. ASSUME NEW q \in Promise
        PROVE  LET c == d.promise[q] IN
               /\ \A n \in 1..c.funs-1 : [promise |-> q, n |-> n] \in d.already
               /\ c.state = "none" <=> c.funs = 0
               /\ c.state \in Settlements => [promise |-> q, n |-> c.funs] \in d.already
    <3>1. CASE q = p
        BY <1>3, <3>1 DEF Settlements
    <3>2. CASE q # p
        BY <1>2, <1>3, <3>2 DEF Pairs
    <3> QED BY <3>1, <3>2
  <2> QED BY <2>1, <2>2 DEF Pairs
<1>14. Handled(d, r)
  <2>1. ASSUME NEW q \in Promise
        PROVE  LET c == d.promise[q] IN
               /\ c.handled <=> \E x \in Ran(r) \cup Waits(d) : x.of = q
               /\ q \in d.unhandled <=> c.state = "rejected" /\ ~c.handled
               /\ c.state = "none" => ~c.handled
    <3>1. CASE q = p
        BY <1>2, <1>3, <1>4, <1>6, <3>1 DEF Handled
    <3>2. CASE q # p
        BY <1>2, <1>3, <1>6, <3>2 DEF Handled
    <3> QED BY <3>1, <3>2
  <2> QED BY <2>1 DEF Handled
<1>15. Sole(d, F \cup {FirstFun(p)})
  <2>1. \A f \in F \cup {FirstFun(p)} : Known(d, f)
      BY <1>1, <1>2, <1>8, <1>9 DEF Sole
  <2>2. ASSUME NEW x \in Waits(d)
        PROVE  /\ WellFormed(x)
               /\ x.cap # NoFun => Known(d, x.cap)
               /\ Resolving(x) =>
                     /\ Known(d, x.on[TRUE].fun)
                     /\ x.on[TRUE].fun \notin (F \cup {FirstFun(p)}) \cup d.already
                     /\ \A y \in Waits(d) :
                           /\ y.cap # x.on[TRUE].fun
                           /\ Resolving(y) /\ y.on[TRUE].fun = x.on[TRUE].fun => y = x
    <3>1. x \in Reaction /\ x \in Waits(e)
        BY <1>1, <1>6, <2>2, WaitsTypes
    <3>2. x.cap \in Fun \cup {NoFun} /\ (Resolving(x) => x.on[TRUE].fun \in Fun)
        BY <3>1, ReactionTypes
    <3> QED BY <1>2, <1>3, <1>6, <1>8, <3>1, <3>2 DEF Sole
  <2> QED BY <2>1, <2>2 DEF Sole
<1>16. FollowOK(d, fo)
  <2>1. ASSUME NEW q \in Promise, fo[q] # NoFun
        PROVE  \/ \E i \in DOMAIN d.jobs :
                     d.jobs[i] = [kind |-> "thenable", promise |-> q, thenable |-> fo[q]]
               \/ \E x \in Waits(d) : x.of = fo[q] /\ Resolving(x) /\ x.on[TRUE].fun.promise = q
               \/ /\ d.promise[q].state \in Settlements
                  /\ d.promise[q].state = d.promise[fo[q]].state
                  /\ d.promise[q].result = d.promise[fo[q]].result
    <3>1. fo[q] \in Promise
        BY <1>1, <2>1
    <3>2. e.promise[q].state \in Settlements /\ e.promise[q].state = e.promise[fo[q]].state
              => d.promise[q] = e.promise[q] /\ d.promise[fo[q]] = e.promise[fo[q]]
        BY <1>7, <3>1 DEF Settlements
    <3>3. \/ \E i \in DOMAIN e.jobs :
                e.jobs[i] = [kind |-> "thenable", promise |-> q, thenable |-> fo[q]]
          \/ \E x \in Waits(e) : x.of = fo[q] /\ Resolving(x) /\ x.on[TRUE].fun.promise = q
          \/ /\ e.promise[q].state \in Settlements
             /\ e.promise[q].state = e.promise[fo[q]].state
             /\ e.promise[q].result = e.promise[fo[q]].result
        BY <1>2, <2>1 DEF FollowOK
    <3> QED BY <1>3, <1>6, <3>2, <3>3
  <2> QED BY <2>1 DEF FollowOK
<1>17. F \cup {FirstFun(p)} \subseteq Fun
    BY <1>1, <1>9
<1> QED BY <1>1, <1>3, <1>6, <1>7, <1>11, <1>12, <1>13, <1>14, <1>15, <1>16, <1>17 DEF EngineInv

\* A pair is marked as called.
LEMMA MarkKeeps ==
    ASSUME NEW e, NEW r, NEW F, NEW fo, EngineInv(e, r, F, fo),
           NEW f \in F, f \notin e.already,
           NEW d, d = [e EXCEPT !.already = @ \cup {f}]
    PROVE  /\ EngineInv(d, r, F, fo)
           /\ d.jobs = e.jobs /\ d.promise = e.promise /\ d.unhandled = e.unhandled
           /\ d.thens = e.thens /\ d.already = e.already \cup {f} /\ Waits(d) = Waits(e)
<1>1. /\ e \in Engine /\ r \in Seq(Reaction) /\ F \subseteq Fun
      /\ fo \in [Promise -> Promise \cup {NoFun}]
    BY DEF EngineInv
<1>2. /\ Ordered(e, r) /\ Numbered(e, r) /\ Truthful(e) /\ Asked(e) /\ Pairs(e)
      /\ Handled(e, r) /\ Sole(e, F) /\ FollowOK(e, fo)
    BY DEF EngineInv
<1>3. /\ e.promise \in [Promise -> PromiseData] /\ e.jobs \in Seq(Job)
      /\ (e.already \cup {f}) \in SUBSET Fun /\ e.unhandled \in SUBSET Promise /\ e.thens \in Nat
    BY <1>1, EngineTypes
<1>4. /\ d.jobs = e.jobs /\ d.promise = e.promise /\ d.unhandled = e.unhandled
      /\ d.thens = e.thens /\ d.already = e.already \cup {f}
    BY <1>1 DEF Engine
<1>5. d \in Engine
    BY <1>1, <1>3 DEF Engine
<1>6. /\ Queued(d) = Queued(e) /\ Listed(d) = Listed(e) /\ Waits(d) = Waits(e)
      /\ Ordered(d, r) /\ Numbered(d, r)
    BY <1>2, <1>4, SameReactions
<1>7. \A g : Known(d, g) <=> Known(e, g)
    BY <1>4 DEF Known
<1>8. Truthful(d) /\ Handled(d, r) /\ FollowOK(d, fo)
  <2>1. Truthful(d)
      BY <1>2, <1>4 DEF Truthful
  <2>2. Handled(d, r)
      BY <1>2, <1>4, <1>6 DEF Handled
  <2>3. FollowOK(d, fo)
      BY <1>2, <1>4, <1>6 DEF FollowOK
  <2> QED BY <2>1, <2>2, <2>3
<1>9. Asked(d)
    BY <1>2, <1>4 DEF Asked
<1>10. Pairs(d)
    BY <1>2, <1>4, <1>7 DEF Pairs, Sole
<1>11. Sole(d, F)
    BY <1>2, <1>4, <1>6, <1>7 DEF Sole
<1> QED BY <1>1, <1>4, <1>5, <1>6, <1>8, <1>9, <1>10, <1>11 DEF EngineInv

\* A function of a pair that was not called belongs to a pending promise, for
\* which no thenable job is queued.
LEMMA UncalledFun ==
    ASSUME NEW e, NEW r, NEW F, NEW fo, EngineInv(e, r, F, fo),
           NEW f \in Fun, Known(e, f), f \notin e.already
    PROVE  /\ f = [promise |-> f.promise, n |-> e.promise[f.promise].funs]
           /\ e.promise[f.promise].state = "pending"
           /\ \A i \in DOMAIN e.jobs : ~Reacts(e.jobs[i]) => e.jobs[i].promise # f.promise
<1>1. e \in Engine /\ Pairs(e) /\ Asked(e)
    BY DEF EngineInv
<1>2. f.promise \in Promise /\ f.n \in Nat \ {0} /\ f = [promise |-> f.promise, n |-> f.n]
    BY FunTypes
<1>3. PICK c : c = e.promise[f.promise]
    OBVIOUS
<1>4. c.state \in States /\ c.funs \in Nat
    BY <1>1, <1>2, <1>3, EngineTypes, DataTypes
<1>5. f.n <= c.funs
    BY <1>3 DEF Known
<1>6. f.n = c.funs
  <2>1. \A n \in 1..c.funs-1 : [promise |-> f.promise, n |-> n] \in e.already
      BY <1>1, <1>2, <1>3 DEF Pairs
  <2>2. f.n \notin 1..c.funs-1
      BY <1>2, <2>1
  <2> QED BY <1>2, <1>4, <1>5, <2>2
<1>7. c.state = "pending"
  <2>1. c.state # "none"
      BY <1>1, <1>2, <1>3, <1>6 DEF Pairs
  <2>2. c.state \notin Settlements
      BY <1>1, <1>2, <1>3, <1>6 DEF Pairs
  <2> QED BY <1>4, <2>1, <2>2 DEF States, Settlements
<1>8. ASSUME NEW i \in DOMAIN e.jobs, ~Reacts(e.jobs[i]), e.jobs[i].promise = f.promise
      PROVE  FALSE
  <2>1. [promise |-> f.promise, n |-> c.funs] \in e.already
      BY <1>1, <1>3, <1>8 DEF Asked
  <2> QED BY <1>2, <1>6, <2>1
<1> QED BY <1>2, <1>3, <1>6, <1>7, <1>8

\* Where the elements of two sequences are in s \o t.
LEMMA ConcatFacts ==
    ASSUME NEW S, NEW s \in Seq(S), NEW t \in Seq(S), NEW J, J = s \o t
    PROVE  /\ J \in Seq(S)
           /\ \A i \in DOMAIN s : i \in DOMAIN J /\ J[i] = s[i]
           /\ \A k \in DOMAIN t : Len(s) + k \in DOMAIN J /\ J[Len(s) + k] = t[k]
           /\ \A i \in DOMAIN J : i \in DOMAIN s \/ i - Len(s) \in DOMAIN t
<1>1. PICK m \in Nat : m = Len(s)
    OBVIOUS
<1>2. PICK n \in Nat : n = Len(t)
    OBVIOUS
<1>3. J \in Seq(S) /\ Len(J) = m + n
    BY <1>1, <1>2
<1>4. DOMAIN J = 1..m + n /\ DOMAIN s = 1..m /\ DOMAIN t = 1..n
    BY <1>1, <1>2, <1>3
<1>5. \A i \in 1..m : J[i] = s[i]
    BY <1>1
<1>6. \A k \in 1..n : J[m + k] = t[k]
    BY <1>1, <1>2
<1>7. \A i \in 1..m + n : i \in 1..m \/ i - m \in 1..n
    OBVIOUS
<1>8. \A i \in DOMAIN s : i \in DOMAIN J /\ J[i] = s[i]
    BY <1>4, <1>5
<1>9. \A k \in DOMAIN t : Len(s) + k \in DOMAIN J /\ J[Len(s) + k] = t[k]
    BY <1>1, <1>4, <1>6
<1>10. \A i \in DOMAIN J : i \in DOMAIN s \/ i - Len(s) \in DOMAIN t
    BY <1>1, <1>4, <1>7
<1> QED BY <1>3, <1>8, <1>9, <1>10

\* The engine after p is settled.
SettlesTo(e, p, v, rej, d) ==
    LET L == e.promise[p].reactions IN
    /\ d \in Engine /\ d.already = e.already /\ d.thens = e.thens
    /\ d.promise[p].state = IF rej THEN "rejected" ELSE "fulfilled"
    /\ d.promise[p].result = v /\ d.promise[p].reactions = <<>>
    /\ d.promise[p].handled <=> e.promise[p].handled
    /\ d.promise[p].funs = e.promise[p].funs
    /\ \A q \in Promise : q # p => d.promise[q] = e.promise[q]
    /\ d.unhandled = IF rej /\ ~e.promise[p].handled THEN e.unhandled \cup {p}
                     ELSE e.unhandled
    /\ \A i \in DOMAIN e.jobs : i \in DOMAIN d.jobs /\ d.jobs[i] = e.jobs[i]
    /\ \A k \in DOMAIN L : Len(e.jobs) + k \in DOMAIN d.jobs
    /\ \A k \in DOMAIN L : /\ Reacts(d.jobs[Len(e.jobs) + k])
                           /\ d.jobs[Len(e.jobs) + k].reaction = L[k]
                           /\ d.jobs[Len(e.jobs) + k].rej = rej
                           /\ d.jobs[Len(e.jobs) + k].value = v
    /\ \A i \in DOMAIN d.jobs : i \in DOMAIN e.jobs \/ i - Len(e.jobs) \in DOMAIN L

\* fulfill_or_reject_promise moves the list of the promise to the queue, tells
\* the host, and changes nothing else.
LEMMA SettleEffect ==
    ASSUME NEW e \in Engine, NEW p \in Promise, e.promise[p].state = "pending",
           NEW v \in Plain, NEW rej \in BOOLEAN,
           NEW d, d = fulfill_or_reject_promise(e, p, v, rej)
    PROVE  SettlesTo(e, p, v, rej, d)
<1>20. PICK L : L = e.promise[p].reactions
    OBVIOUS
<1>1. PICK c : c = e.promise[p]
    OBVIOUS
<1>2. /\ c \in PromiseData /\ c.state = "pending" /\ L = c.reactions /\ L \in Seq(Reaction)
      /\ e.jobs \in Seq(Job)
    BY <1>1, <1>20, EngineTypes, DataTypes
<1>3. PICK n : n = Settled(c, rej, v)
    OBVIOUS
<1>4. /\ n \in PromiseData /\ n.state = (IF rej THEN "rejected" ELSE "fulfilled")
      /\ n.result = v /\ n.reactions = <<>> /\ (n.handled <=> c.handled) /\ n.funs = c.funs
  <2>1. PICK st : st = IF rej THEN "rejected" ELSE "fulfilled"
      OBVIOUS
  <2>2. n = [c EXCEPT !.state = st, !.result = v, !.reactions = <<>>]
      BY <1>3, <2>1 DEF Settled
  <2>3. st \in States /\ v \in Value
      BY <2>1 DEF States, Value, Plain
  <2>4. n \in PromiseData
    <3>1. <<>> \in Seq(Reaction)
        OBVIOUS
    <3> QED BY <1>2, <2>2, <2>3, <3>1 DEF PromiseData
  <2>5. /\ n.state = st /\ n.result = v /\ n.reactions = <<>> /\ (n.handled <=> c.handled)
        /\ n.funs = c.funs
      BY <1>2, <2>2 DEF PromiseData
  <2> QED BY <2>1, <2>4, <2>5
<1>5. PICK R : R = ReactionJobs(c, rej, v)
    OBVIOUS
<1>6. /\ R \in Seq(Job) /\ Len(R) = Len(L)
      /\ \A k \in DOMAIN L : /\ k \in DOMAIN R /\ Reacts(R[k])
                             /\ R[k].reaction = L[k] /\ R[k].rej = rej /\ R[k].value = v
  <2>1. R = [i \in 1..Len(L) |-> [kind |-> "reaction", reaction |-> L[i], rej |-> rej, value |-> v]]
      BY <1>2, <1>5 DEF ReactionJobs
  <2>2. \A i \in 1..Len(L) : [kind |-> "reaction", reaction |-> L[i], rej |-> rej, value |-> v] \in Job
      BY <1>2 DEF Job, Value, Plain
  <2>3. R \in Seq(Job) /\ Len(R) = Len(L)
      BY <1>2, <2>1, <2>2
  <2>4. \A k \in DOMAIN L : /\ k \in DOMAIN R /\ Reacts(R[k])
                            /\ R[k].reaction = L[k] /\ R[k].rej = rej /\ R[k].value = v
      BY <1>2, <2>1 DEF Reacts
  <2> QED BY <2>3, <2>4
<1>7. PICK P : P = [e.promise EXCEPT ![p] = n]
    OBVIOUS
<1>8. P \in [Promise -> PromiseData] /\ P[p] = n /\ \A q \in Promise : q # p => P[q] = e.promise[q]
    BY <1>4, <1>7, EngineTypes
<1>9. PICK J : J = e.jobs \o R
    OBVIOUS
<1>10. J \in Seq(Job)
    BY <1>2, <1>6, <1>9
<1>11. PICK U : U = IF rej /\ ~c.handled THEN e.unhandled \cup {p} ELSE e.unhandled
    OBVIOUS
<1>12. U \in SUBSET Promise
    BY <1>11, EngineTypes
<1>13. d = [promise |-> P, jobs |-> J, already |-> e.already, unhandled |-> U, thens |-> e.thens]
  <2>1. d = [e EXCEPT !.promise[p] = n, !.jobs = J, !.unhandled = U]
      BY <1>1, <1>2, <1>3, <1>5, <1>9, <1>11 DEF fulfill_or_reject_promise
  <2> QED BY <1>7, <2>1, EngineTypes
<1>14. /\ d \in Engine /\ d.promise = P /\ d.jobs = J /\ d.already = e.already /\ d.unhandled = U
       /\ d.thens = e.thens
  <2>1. e.already \in SUBSET Fun /\ e.thens \in Nat
      BY EngineTypes
  <2> QED BY <1>8, <1>10, <1>12, <1>13, <2>1 DEF Engine
<1>15. /\ \A i \in DOMAIN e.jobs : i \in DOMAIN J /\ J[i] = e.jobs[i]
       /\ \A k \in DOMAIN L : Len(e.jobs) + k \in DOMAIN J /\ J[Len(e.jobs) + k] = R[k]
       /\ \A i \in DOMAIN J : i \in DOMAIN e.jobs \/ i - Len(e.jobs) \in DOMAIN L
  <2>1. DOMAIN R = DOMAIN L
      BY <1>2, <1>6
  <2>2. /\ \A i \in DOMAIN e.jobs : i \in DOMAIN J /\ J[i] = e.jobs[i]
        /\ \A k \in DOMAIN R : Len(e.jobs) + k \in DOMAIN J /\ J[Len(e.jobs) + k] = R[k]
        /\ \A i \in DOMAIN J : i \in DOMAIN e.jobs \/ i - Len(e.jobs) \in DOMAIN R
    <3>1. e.jobs \in Seq(Job) /\ R \in Seq(Job)
        BY <1>2, <1>6
    <3>2. \A i \in DOMAIN e.jobs : i \in DOMAIN J /\ J[i] = e.jobs[i]
        BY <1>9, <3>1, ConcatFacts
    <3>3. \A k \in DOMAIN R : Len(e.jobs) + k \in DOMAIN J /\ J[Len(e.jobs) + k] = R[k]
        BY <1>9, <3>1, ConcatFacts
    <3>4. \A i \in DOMAIN J : i \in DOMAIN e.jobs \/ i - Len(e.jobs) \in DOMAIN R
        BY <1>9, <3>1, ConcatFacts
    <3> QED BY <3>2, <3>3, <3>4
  <2> QED BY <2>1, <2>2
<1> QED BY <1>1, <1>4, <1>6, <1>8, <1>11, <1>14, <1>15, <1>20 DEF SettlesTo

\* The reactions of p are queued and no longer listed.
Passed(e, p, d) ==
    LET L == e.promise[p].reactions IN
    /\ \A x : x \in Queued(d) <=> x \in Queued(e) \/ \E k \in DOMAIN L : x = L[k]
    /\ \A x : x \in Listed(e) <=> x \in Listed(d) \/ \E k \in DOMAIN L : x = L[k]
    /\ \A q \in Promise : \A i \in DOMAIN d.promise[q].reactions :
          q # p /\ d.promise[q].reactions = e.promise[q].reactions
    /\ Waits(d) = Waits(e)

\* The reactions of a promise become jobs when it is settled.
LEMMA SettleWaits ==
    ASSUME NEW e \in Engine, NEW p \in Promise,
           NEW v, NEW rej, NEW d, SettlesTo(e, p, v, rej, d)
    PROVE  Passed(e, p, d)
<1> DEFINE L == e.promise[p].reactions
<1>1. e \in Engine
    OBVIOUS
<1>2. /\ d.promise[p].reactions = <<>>
      /\ \A q \in Promise : q # p => d.promise[q] = e.promise[q]
    BY DEF SettlesTo
<1>3. /\ \A i \in DOMAIN e.jobs : i \in DOMAIN d.jobs /\ d.jobs[i] = e.jobs[i]
      /\ \A k \in DOMAIN L : Len(e.jobs) + k \in DOMAIN d.jobs
      /\ \A k \in DOMAIN L : /\ Reacts(d.jobs[Len(e.jobs) + k])
                             /\ d.jobs[Len(e.jobs) + k].reaction = L[k]
      /\ \A i \in DOMAIN d.jobs : i \in DOMAIN e.jobs \/ i - Len(e.jobs) \in DOMAIN L
    BY DEF SettlesTo
<1>4. e.jobs \in Seq(Job) /\ Len(e.jobs) \in Nat /\ d.jobs \in Seq(Job)
  <2>1. d \in Engine
      BY DEF SettlesTo
  <2> QED BY <1>1, <2>1, EngineTypes
<1>5. ASSUME NEW x
      PROVE  x \in Queued(d) <=> x \in Queued(e) \/ \E k \in DOMAIN L : x = L[k]
  <2>1. ASSUME x \in Queued(d) PROVE x \in Queued(e) \/ \E k \in DOMAIN L : x = L[k]
    <3>1. PICK i \in DOMAIN d.jobs : Reacts(d.jobs[i]) /\ x = d.jobs[i].reaction
        BY <2>1, QueuedIs
    <3>2. CASE i \in DOMAIN e.jobs
        BY <1>3, <3>1, <3>2, QueuedIs
    <3>3. CASE i - Len(e.jobs) \in DOMAIN L
      <4>1. i = Len(e.jobs) + (i - Len(e.jobs))
          BY <1>4
      <4> QED BY <1>3, <3>1, <3>3, <4>1
    <3> QED BY <1>3, <3>2, <3>3
  <2>2. ASSUME x \in Queued(e) PROVE x \in Queued(d)
    <3>1. PICK i \in DOMAIN e.jobs : Reacts(e.jobs[i]) /\ x = e.jobs[i].reaction
        BY <2>2, QueuedIs
    <3> QED BY <1>3, <3>1, QueuedIs
  <2>3. ASSUME NEW k \in DOMAIN L, x = L[k] PROVE x \in Queued(d)
    <3>1. Len(e.jobs) + k \in DOMAIN d.jobs /\ Reacts(d.jobs[Len(e.jobs) + k])
          /\ x = d.jobs[Len(e.jobs) + k].reaction
        BY <1>3, <2>3
    <3> QED BY <3>1, QueuedIs
  <2> QED BY <2>1, <2>2, <2>3
<1>6. \A q \in Promise : \A i \in DOMAIN d.promise[q].reactions :
          q # p /\ d.promise[q].reactions = e.promise[q].reactions
    BY <1>2
<1>7. ASSUME NEW x
      PROVE  x \in Listed(e) <=> x \in Listed(d) \/ \E k \in DOMAIN L : x = L[k]
  <2>1. ASSUME x \in Listed(e) PROVE x \in Listed(d) \/ \E k \in DOMAIN L : x = L[k]
    <3>1. PICK q \in Promise : \E i \in DOMAIN e.promise[q].reactions : x = e.promise[q].reactions[i]
        BY <2>1, QueuedIs
    <3>2. CASE q = p
        BY <3>1, <3>2
    <3>3. CASE q # p
        BY <1>2, <3>1, <3>3, QueuedIs
    <3> QED BY <3>2, <3>3
  <2>2. ASSUME x \in Listed(d) PROVE x \in Listed(e)
    <3>1. PICK q \in Promise : \E i \in DOMAIN d.promise[q].reactions : x = d.promise[q].reactions[i]
        BY <2>2, QueuedIs
    <3>2. \E i \in DOMAIN e.promise[q].reactions : x = e.promise[q].reactions[i]
        BY <1>6, <3>1
    <3> QED BY <3>2, QueuedIs
  <2>3. ASSUME NEW k \in DOMAIN L, x = L[k] PROVE x \in Listed(e)
      BY <2>3, QueuedIs
  <2> QED BY <2>1, <2>2, <2>3
<1>8. Waits(d) = Waits(e)
    BY <1>5, <1>7 DEF Waits
<1> QED BY <1>5, <1>6, <1>7, <1>8 DEF Passed

\* The reactions that move from a list to the end of the queue stay in order.
LEMMA SettleOrdered ==
    ASSUME NEW e, NEW r, NEW F, NEW fo, EngineInv(e, r, F, fo),
           NEW p \in Promise, e.promise[p].state = "pending",
           NEW v, NEW rej, NEW d, SettlesTo(e, p, v, rej, d)
    PROVE  Ordered(d, r)
<1>1. e \in Engine /\ Ordered(e, r) /\ Truthful(e)
    BY DEF EngineInv
<1>2. PICK L : L = e.promise[p].reactions
    OBVIOUS
<1>3. PICK m \in Nat : m = Len(e.jobs) /\ DOMAIN e.jobs = 1..m
    BY <1>1, EngineTypes
<1>4. L \in Seq(Reaction)
    BY <1>1, <1>2, EngineTypes, DataTypes
<1>5. /\ \A x : x \in Queued(d) <=> x \in Queued(e) \/ \E k \in DOMAIN L : x = L[k]
      /\ \A x : x \in Listed(e) <=> x \in Listed(d) \/ \E k \in DOMAIN L : x = L[k]
      /\ \A q \in Promise : \A i \in DOMAIN d.promise[q].reactions :
            q # p /\ d.promise[q].reactions = e.promise[q].reactions
      /\ Waits(d) = Waits(e)
  <2>1. Passed(e, p, d)
      BY <1>1, SettleWaits
  <2> QED BY <1>2, <2>1 DEF Passed
<1>6. /\ \A i \in DOMAIN e.jobs : d.jobs[i] = e.jobs[i]
      /\ \A k \in DOMAIN L : d.jobs[m + k].reaction = L[k]
      /\ \A i \in DOMAIN d.jobs : i \in DOMAIN e.jobs \/ i - m \in DOMAIN L
    BY <1>2, <1>3 DEF SettlesTo
<1>7. DOMAIN d.jobs \subseteq Nat \ {0}
  <2>2. d \in Engine
      BY DEF SettlesTo
  <2>1. d.jobs \in Seq(Job)
      BY <2>2, EngineTypes
  <2> QED BY <2>1
<1>8. \A i, j \in DOMAIN d.jobs :
          i < j /\ Reacts(d.jobs[i]) /\ Reacts(d.jobs[j]) => Lt(d.jobs[i].reaction, d.jobs[j].reaction)
  <2>1. SUFFICES ASSUME NEW i \in DOMAIN d.jobs, NEW j \in DOMAIN d.jobs, i < j,
                        Reacts(d.jobs[i]), Reacts(d.jobs[j])
                 PROVE  Lt(d.jobs[i].reaction, d.jobs[j].reaction)
      OBVIOUS
  <2>2. CASE j \in DOMAIN e.jobs
    <3>1. i \in DOMAIN e.jobs
        BY <1>3, <1>7, <2>1, <2>2
    <3> QED BY <1>1, <1>6, <2>1, <2>2, <3>1 DEF Ordered
  <2>3. CASE j - m \in DOMAIN L
    <3>1. PICK k \in DOMAIN L : j = m + k /\ d.jobs[j].reaction = L[k]
      <4>1. j = m + (j - m)
          BY <1>3, <1>7, <2>1
      <4> QED BY <1>6, <2>3, <4>1
    <3>2. L[k] \in Listed(e)
        BY <1>5
    <3>3. CASE i \in DOMAIN e.jobs
      <4>1. e.jobs[i].reaction \in Queued(e)
          BY <1>6, <2>1, <3>3, QueuedIs
      <4>2. Lt(e.jobs[i].reaction, L[k])
          BY <1>1, <3>2, <4>1 DEF Ordered
      <4> QED BY <1>6, <3>1, <3>3, <4>2
    <3>4. CASE i - m \in DOMAIN L
      <4>1. PICK n \in DOMAIN L : i = m + n /\ d.jobs[i].reaction = L[n]
        <5>1. i = m + (i - m)
            BY <1>3, <1>7, <2>1
        <5> QED BY <1>6, <3>4, <5>1
      <4>2. n < k
          BY <1>4, <2>1, <3>1, <4>1
      <4>3. Lt(L[n], L[k])
          BY <1>1, <1>2, <4>2 DEF Ordered
      <4> QED BY <3>1, <4>1, <4>3
    <3> QED BY <1>6, <3>3, <3>4
  <2> QED BY <1>6, <2>2, <2>3
<1>9. \A x \in Queued(d), y \in Listed(d) : Lt(x, y)
  <2>1. SUFFICES ASSUME NEW x \in Queued(d), NEW y \in Listed(d) PROVE Lt(x, y)
      OBVIOUS
  <2>2. CASE x \in Queued(e)
      BY <1>1, <1>5, <2>2 DEF Ordered
  <2>3. ASSUME NEW k \in DOMAIN L, x = L[k] PROVE Lt(x, y)
    <3>1. PICK q \in Promise : \E i \in DOMAIN d.promise[q].reactions : y = d.promise[q].reactions[i]
        BY QueuedIs
    <3>2. PICK i \in DOMAIN e.promise[q].reactions : q # p /\ y = e.promise[q].reactions[i]
        BY <1>5, <3>1
    <3>3. x.id # y.id
        BY <1>1, <1>2, <2>3, <3>2 DEF Ordered
    <3>4. x.of = p /\ y.of = q
        BY <1>1, <1>2, <2>3, <3>2 DEF Truthful
    <3> QED BY <3>2, <3>3, <3>4 DEF Lt
  <2> QED BY <1>5, <2>2, <2>3
<1>10. /\ \A q \in Promise : \A i, j \in DOMAIN d.promise[q].reactions :
             i < j => Lt(d.promise[q].reactions[i], d.promise[q].reactions[j])
       /\ \A q, s \in Promise : q # s =>
             \A i \in DOMAIN d.promise[q].reactions, j \in DOMAIN d.promise[s].reactions :
                d.promise[q].reactions[i].id # d.promise[s].reactions[j].id
  <2>1. \A q \in Promise : \A i, j \in DOMAIN d.promise[q].reactions :
             i < j => Lt(d.promise[q].reactions[i], d.promise[q].reactions[j])
      BY <1>1, <1>5 DEF Ordered
  <2>2. ASSUME NEW q \in Promise, NEW s \in Promise, q # s,
               NEW i \in DOMAIN d.promise[q].reactions, NEW j \in DOMAIN d.promise[s].reactions
        PROVE  d.promise[q].reactions[i].id # d.promise[s].reactions[j].id
    <3>1. d.promise[q].reactions = e.promise[q].reactions /\ d.promise[s].reactions = e.promise[s].reactions
        BY <1>5, <2>2
    <3> QED BY <1>1, <2>2, <3>1 DEF Ordered
  <2> QED BY <2>1, <2>2
<1>11. /\ \A i, j \in DOMAIN r : i < j => Lt(r[i], r[j])
       /\ \A x \in Ran(r), y \in Waits(d) : Lt(x, y)
    BY <1>1, <1>5 DEF Ordered
<1> QED BY <1>8, <1>9, <1>10, <1>11 DEF Ordered

\* A pending promise whose functions have been called, and of which no job
\* will ask, is settled.
LEMMA SettleKeeps ==
    ASSUME NEW e, NEW r, NEW F, NEW fo, EngineInv(e, r, F, fo),
           NEW p \in Promise, e.promise[p].state = "pending",
           [promise |-> p, n |-> e.promise[p].funs] \in e.already,
           \A i \in DOMAIN e.jobs : ~Reacts(e.jobs[i]) => e.jobs[i].promise # p,
           NEW v \in Plain, NEW rej \in BOOLEAN, NEW d, SettlesTo(e, p, v, rej, d)
    PROVE  EngineInv(d, r, F, fo) /\ Waits(d) = Waits(e)
<1>1. /\ e \in Engine /\ r \in Seq(Reaction) /\ F \subseteq Fun
      /\ fo \in [Promise -> Promise \cup {NoFun}]
    BY DEF EngineInv
<1>2. /\ Ordered(e, r) /\ Numbered(e, r) /\ Truthful(e) /\ Asked(e) /\ Pairs(e)
      /\ Handled(e, r) /\ Sole(e, F) /\ FollowOK(e, fo)
    BY DEF EngineInv
<1>3. /\ d \in Engine /\ d.already = e.already /\ d.thens = e.thens
      /\ d.promise[p].state = IF rej THEN "rejected" ELSE "fulfilled"
      /\ d.promise[p].result = v /\ d.promise[p].reactions = <<>>
      /\ d.promise[p].handled <=> e.promise[p].handled
      /\ d.promise[p].funs = e.promise[p].funs
      /\ \A q \in Promise : q # p => d.promise[q] = e.promise[q]
      /\ d.unhandled = IF rej /\ ~e.promise[p].handled THEN e.unhandled \cup {p} ELSE e.unhandled
    BY DEF SettlesTo
<1>4. /\ Passed(e, p, d)
      /\ Waits(d) = Waits(e)
    BY <1>1, SettleWaits DEF Passed
<1>5. Ordered(d, r)
    BY SettleOrdered
<1>6. Numbered(d, r)
    BY <1>2, <1>3, <1>4 DEF Numbered
<1>7. \A q \in Promise : /\ d.promise[q].funs = e.promise[q].funs
                         /\ e.promise[q].state # "pending" => q # p
    BY <1>3
<1>8. \A f \in Fun : Known(d, f) <=> Known(e, f)
    BY <1>7, FunTypes DEF Known
<1>9. ASSUME NEW i \in DOMAIN d.jobs
      PROVE  \/ i \in DOMAIN e.jobs /\ d.jobs[i] = e.jobs[i] /\ d.jobs[i] \in Job
             \/ /\ Reacts(d.jobs[i]) /\ d.jobs[i].reaction.of = p
                /\ d.jobs[i].rej = rej /\ d.jobs[i].value = v
  <2>1. CASE i \in DOMAIN e.jobs
    <3>1. e.jobs[i] \in Job
        BY <1>1, <2>1, EngineTypes
    <3> QED BY <2>1, <3>1 DEF SettlesTo
  <2>2. CASE i - Len(e.jobs) \in DOMAIN e.promise[p].reactions
    <3>1. i \in Nat /\ Len(e.jobs) \in Nat
        BY <1>1, <1>3, EngineTypes
    <3>2. i = Len(e.jobs) + (i - Len(e.jobs))
        BY <3>1
    <3>3. /\ Reacts(d.jobs[i]) /\ d.jobs[i].reaction = e.promise[p].reactions[i - Len(e.jobs)]
          /\ d.jobs[i].rej = rej /\ d.jobs[i].value = v
        BY <2>2, <3>2 DEF SettlesTo
    <3> QED BY <1>2, <2>2, <3>3 DEF Truthful
  <2> QED BY <2>1, <2>2 DEF SettlesTo
<1>10. Truthful(d)
  <2>1. ASSUME NEW i \in DOMAIN d.jobs, Reacts(d.jobs[i])
        PROVE  LET c == d.promise[d.jobs[i].reaction.of] IN
               /\ c.state = IF d.jobs[i].rej THEN "rejected" ELSE "fulfilled"
               /\ c.result = d.jobs[i].value
    <3>1. CASE i \in DOMAIN e.jobs /\ d.jobs[i] = e.jobs[i] /\ d.jobs[i] \in Job
      <4>1. d.jobs[i].reaction.of \in Promise
          BY <2>1, <3>1, JobTypes, ReactionTypes
      <4>2. LET c == e.promise[d.jobs[i].reaction.of] IN
            /\ c.state = IF d.jobs[i].rej THEN "rejected" ELSE "fulfilled"
            /\ c.result = d.jobs[i].value
          BY <1>2, <2>1, <3>1 DEF Truthful
      <4>3. d.jobs[i].reaction.of # p
          BY <4>2
      <4> QED BY <1>3, <4>1, <4>2, <4>3
    <3>2. CASE /\ Reacts(d.jobs[i]) /\ d.jobs[i].reaction.of = p
               /\ d.jobs[i].rej = rej /\ d.jobs[i].value = v
        BY <1>3, <3>2
    <3> QED BY <1>9, <3>1, <3>2
  <2>2. ASSUME NEW q \in Promise
        PROVE  /\ d.promise[q].result \in Plain
               /\ d.promise[q].reactions # <<>> => d.promise[q].state = "pending"
               /\ \A i \in DOMAIN d.promise[q].reactions : d.promise[q].reactions[i].of = q
    <3>1. CASE q = p
        BY <1>3, <3>1
    <3>2. CASE q # p
        BY <1>2, <1>3, <3>2 DEF Truthful
    <3> QED BY <3>1, <3>2
  <2> QED BY <2>1, <2>2 DEF Truthful
<1>11. Asked(d)
  <2>1. \A i \in DOMAIN d.jobs : ~Reacts(d.jobs[i]) =>
           /\ i \in DOMAIN e.jobs /\ d.jobs[i] = e.jobs[i] /\ d.jobs[i].promise \in Promise \ {p}
      BY <1>9, JobTypes
  <2>2. ASSUME NEW i \in DOMAIN d.jobs, ~Reacts(d.jobs[i])
        PROVE  LET q == d.jobs[i].promise IN
               /\ d.promise[q].state = "pending"
               /\ [promise |-> q, n |-> d.promise[q].funs] \in d.already
               /\ d.jobs[i].thenable \in Promise => d.promise[d.jobs[i].thenable].state # "none"
    <3>1. LET q == d.jobs[i].promise IN
          /\ e.promise[q].state = "pending"
          /\ [promise |-> q, n |-> e.promise[q].funs] \in e.already
          /\ d.jobs[i].thenable \in Promise => e.promise[d.jobs[i].thenable].state # "none"
        BY <1>2, <2>1, <2>2 DEF Asked
    <3>2. d.promise[d.jobs[i].promise] = e.promise[d.jobs[i].promise]
        BY <1>3, <2>1, <2>2
    <3> QED BY <1>3, <3>1, <3>2
  <2> QED BY <1>2, <2>1, <2>2 DEF Asked
<1>12. Pairs(d)
  <2>1. \A f \in d.already : Known(d, f)
      BY <1>1, <1>2, <1>3, <1>8, EngineTypes DEF Pairs
  <2>2. ASSUME NEW q \in Promise
        PROVE  LET c == d.promise[q] IN
               /\ \A n \in 1..c.funs-1 : [promise |-> q, n |-> n] \in d.already
               /\ c.state = "none" <=> c.funs = 0
               /\ c.state \in Settlements => [promise |-> q, n |-> c.funs] \in d.already
    <3>1. CASE q = p
        BY <1>2, <1>3, <3>1 DEF Pairs
    <3>2. CASE q # p
        BY <1>2, <1>3, <3>2 DEF Pairs
    <3> QED BY <3>1, <3>2
  <2> QED BY <2>1, <2>2 DEF Pairs
<1>13. Handled(d, r)
  <2>1. ASSUME NEW q \in Promise
        PROVE  LET c == d.promise[q] IN
               /\ c.handled <=> \E x \in Ran(r) \cup Waits(d) : x.of = q
               /\ q \in d.unhandled <=> c.state = "rejected" /\ ~c.handled
               /\ c.state = "none" => ~c.handled
    <3>1. CASE q = p
        BY <1>2, <1>3, <1>4, <3>1 DEF Handled
    <3>2. CASE q # p
        BY <1>2, <1>3, <1>4, <3>2 DEF Handled
    <3> QED BY <3>1, <3>2
  <2> QED BY <2>1 DEF Handled
<1>14. Sole(d, F)
  <2>1. \A f \in F : Known(d, f)
      BY <1>1, <1>2, <1>8 DEF Sole
  <2>2. ASSUME NEW x \in Waits(d)
        PROVE  /\ WellFormed(x)
               /\ x.cap # NoFun => Known(d, x.cap)
               /\ Resolving(x) =>
                     /\ Known(d, x.on[TRUE].fun)
                     /\ x.on[TRUE].fun \notin F \cup d.already
                     /\ \A y \in Waits(d) :
                           /\ y.cap # x.on[TRUE].fun
                           /\ Resolving(y) /\ y.on[TRUE].fun = x.on[TRUE].fun => y = x
    <3>1. x \in Reaction /\ x \in Waits(e)
        BY <1>1, <1>4, <2>2, WaitsTypes
    <3>2. x.cap \in Fun \cup {NoFun} /\ (Resolving(x) => x.on[TRUE].fun \in Fun)
        BY <3>1, ReactionTypes
    <3> QED BY <1>2, <1>3, <1>4, <1>8, <3>1, <3>2 DEF Sole
  <2> QED BY <2>1, <2>2 DEF Sole
<1>15. FollowOK(d, fo)
  <2>1. ASSUME NEW q \in Promise, fo[q] # NoFun
        PROVE  \/ \E i \in DOMAIN d.jobs :
                     d.jobs[i] = [kind |-> "thenable", promise |-> q, thenable |-> fo[q]]
               \/ \E x \in Waits(d) : x.of = fo[q] /\ Resolving(x) /\ x.on[TRUE].fun.promise = q
               \/ /\ d.promise[q].state \in Settlements
                  /\ d.promise[q].state = d.promise[fo[q]].state
                  /\ d.promise[q].result = d.promise[fo[q]].result
    <3>1. fo[q] \in Promise
        BY <1>1, <2>1
    <3>2. e.promise[q].state \in Settlements /\ e.promise[q].state = e.promise[fo[q]].state
              => d.promise[q] = e.promise[q] /\ d.promise[fo[q]] = e.promise[fo[q]]
        BY <1>3, <3>1 DEF Settlements
    <3>3. \A i \in DOMAIN e.jobs : i \in DOMAIN d.jobs /\ d.jobs[i] = e.jobs[i]
        BY DEF SettlesTo
    <3>4. CASE \E i \in DOMAIN e.jobs :
                   e.jobs[i] = [kind |-> "thenable", promise |-> q, thenable |-> fo[q]]
        BY <3>3, <3>4
    <3>5. CASE \E x \in Waits(e) : x.of = fo[q] /\ Resolving(x) /\ x.on[TRUE].fun.promise = q
        BY <1>4, <3>5
    <3>6. CASE /\ e.promise[q].state \in Settlements
               /\ e.promise[q].state = e.promise[fo[q]].state
               /\ e.promise[q].result = e.promise[fo[q]].result
        BY <3>2, <3>6
    <3> QED BY <1>2, <2>1, <3>4, <3>5, <3>6 DEF FollowOK
  <2> QED BY <2>1 DEF FollowOK
<1> QED BY <1>1, <1>3, <1>4, <1>5, <1>6, <1>10, <1>11, <1>12, <1>13, <1>14, <1>15 DEF EngineInv

\* Where the elements of a sequence with one more are.
LEMMA AppendFacts ==
    ASSUME NEW S, NEW s \in Seq(S), NEW x \in S, NEW J, J = Append(s, x)
    PROVE  /\ J \in Seq(S) /\ Len(s) + 1 \in DOMAIN J /\ J[Len(s) + 1] = x
           /\ \A i \in DOMAIN s : i \in DOMAIN J /\ J[i] = s[i] /\ i < Len(s) + 1
           /\ \A i \in DOMAIN J : i \in DOMAIN s \/ i = Len(s) + 1
           /\ Len(s) + 1 \notin DOMAIN s /\ Len(s) \in Nat
<1>1. PICK m \in Nat : m = Len(s)
    OBVIOUS
<1>2. J \in Seq(S) /\ DOMAIN J = 1..m + 1 /\ DOMAIN s = 1..m
    BY <1>1
<1>3. J[m + 1] = x
    BY <1>1
<1>4. \A i \in 1..m : J[i] = s[i]
    BY <1>1
<1>5. \A i \in 1..m + 1 : i \in 1..m \/ i = m + 1
    OBVIOUS
<1> QED BY <1>1, <1>2, <1>3, <1>4, <1>5

\* The engine after a job is added.
Enqueued(e, job, d) ==
    /\ d \in Engine /\ d.promise = e.promise /\ d.already = e.already
    /\ d.unhandled = e.unhandled /\ d.thens = e.thens
    /\ Len(e.jobs) + 1 \in DOMAIN d.jobs /\ d.jobs[Len(e.jobs) + 1] = job
    /\ \A i \in DOMAIN e.jobs : i \in DOMAIN d.jobs /\ d.jobs[i] = e.jobs[i] /\ i < Len(e.jobs) + 1
    /\ \A i \in DOMAIN d.jobs : i \in DOMAIN e.jobs \/ i = Len(e.jobs) + 1
    /\ Len(e.jobs) + 1 \notin DOMAIN e.jobs /\ Len(e.jobs) \in Nat

\* JS_EnqueueJob adds its job after all others.
LEMMA EnqueueEffect ==
    ASSUME NEW e \in Engine, NEW job \in Job, NEW d, d = JS_EnqueueJob(e, job)
    PROVE  Enqueued(e, job, d)
<1>1. PICK J : J = Append(e.jobs, job)
    OBVIOUS
<1>2. e.jobs \in Seq(Job)
    BY EngineTypes
<1>3. J \in Seq(Job)
    BY <1>1, <1>2
<1>4. d = [e EXCEPT !.jobs = J]
    BY <1>1 DEF JS_EnqueueJob
<1>5. /\ d \in Engine /\ d.promise = e.promise /\ d.already = e.already
      /\ d.unhandled = e.unhandled /\ d.thens = e.thens /\ d.jobs = J
    BY <1>3, <1>4 DEF Engine
<1>6. /\ Len(e.jobs) + 1 \in DOMAIN J /\ J[Len(e.jobs) + 1] = job
      /\ \A i \in DOMAIN e.jobs : i \in DOMAIN J /\ J[i] = e.jobs[i] /\ i < Len(e.jobs) + 1
      /\ \A i \in DOMAIN J : i \in DOMAIN e.jobs \/ i = Len(e.jobs) + 1
      /\ Len(e.jobs) + 1 \notin DOMAIN e.jobs /\ Len(e.jobs) \in Nat
    BY <1>1, <1>2, AppendFacts
<1> QED BY <1>5, <1>6 DEF Enqueued

\* A queued job adds its reaction, if it has one, to those that wait.
LEMMA EnqueuedWaits ==
    ASSUME NEW e, NEW job, NEW d, Enqueued(e, job, d)
    PROVE  /\ Listed(d) = Listed(e)
           /\ ~Reacts(job) => Queued(d) = Queued(e) /\ Waits(d) = Waits(e)
           /\ Reacts(job) => /\ Queued(d) = Queued(e) \cup {job.reaction}
                             /\ Waits(d) = Waits(e) \cup {job.reaction}
<1>1. Listed(d) = Listed(e)
    BY DEF Listed, Enqueued
<1>2. ASSUME NEW x
      PROVE  x \in Queued(d) <=> x \in Queued(e) \/ (Reacts(job) /\ x = job.reaction)
  <2>1. ASSUME x \in Queued(d) PROVE x \in Queued(e) \/ (Reacts(job) /\ x = job.reaction)
    <3>1. PICK i \in DOMAIN d.jobs : Reacts(d.jobs[i]) /\ x = d.jobs[i].reaction
        BY <2>1, QueuedIs
    <3> QED BY <3>1, QueuedIs DEF Enqueued
  <2>2. ASSUME x \in Queued(e) PROVE x \in Queued(d)
    <3>1. PICK i \in DOMAIN e.jobs : Reacts(e.jobs[i]) /\ x = e.jobs[i].reaction
        BY <2>2, QueuedIs
    <3> QED BY <3>1, QueuedIs DEF Enqueued
  <2>3. ASSUME Reacts(job), x = job.reaction PROVE x \in Queued(d)
      BY <2>3, QueuedIs DEF Enqueued
  <2> QED BY <2>1, <2>2, <2>3
<1>3. ~Reacts(job) => Queued(d) = Queued(e)
    BY <1>2
<1>4. Reacts(job) => Queued(d) = Queued(e) \cup {job.reaction}
    BY <1>2
<1> QED BY <1>1, <1>3, <1>4 DEF Waits

\* A thenable job is queued for a promise whose functions have been called.
LEMMA AskKeeps ==
    ASSUME NEW e, NEW r, NEW F, NEW fo, EngineInv(e, r, F, fo),
           NEW p \in Promise, e.promise[p].state = "pending",
           [promise |-> p, n |-> e.promise[p].funs] \in e.already,
           \A i \in DOMAIN e.jobs : ~Reacts(e.jobs[i]) => e.jobs[i].promise # p,
           NEW t \in Object, t \in Promise => e.promise[t].state # "none",
           NEW d, d = JS_EnqueueJob(e, [kind |-> "thenable", promise |-> p, thenable |-> t]),
           NEW fp, fp = IF t \in Promise THEN [fo EXCEPT ![p] = t] ELSE fo
    PROVE  EngineInv(d, r, F, fp) /\ Waits(d) = Waits(e) /\ d.already = e.already
           /\ d.promise = e.promise
<1>1. /\ e \in Engine /\ r \in Seq(Reaction) /\ F \subseteq Fun
      /\ fo \in [Promise -> Promise \cup {NoFun}]
    BY DEF EngineInv
<1>2. /\ Ordered(e, r) /\ Numbered(e, r) /\ Truthful(e) /\ Asked(e) /\ Pairs(e)
      /\ Handled(e, r) /\ Sole(e, F) /\ FollowOK(e, fo)
    BY DEF EngineInv
<1>3. PICK job : job = [kind |-> "thenable", promise |-> p, thenable |-> t]
    OBVIOUS
<1>4. job \in Job /\ ~Reacts(job) /\ job.promise = p /\ job.thenable = t
    BY <1>3 DEF Job, Reacts
<1>5. Enqueued(e, job, d)
    BY <1>1, <1>3, <1>4, EnqueueEffect
<1>6. /\ d \in Engine /\ d.promise = e.promise /\ d.already = e.already
      /\ d.unhandled = e.unhandled /\ d.thens = e.thens
      /\ Len(e.jobs) + 1 \in DOMAIN d.jobs /\ d.jobs[Len(e.jobs) + 1] = job
      /\ \A i \in DOMAIN e.jobs : i \in DOMAIN d.jobs /\ d.jobs[i] = e.jobs[i]
      /\ \A i \in DOMAIN d.jobs : i \in DOMAIN e.jobs \/ i = Len(e.jobs) + 1
    BY <1>5 DEF Enqueued
<1>7. Listed(d) = Listed(e) /\ Queued(d) = Queued(e) /\ Waits(d) = Waits(e)
    BY <1>4, <1>5, EnqueuedWaits
<1>8. \A i \in DOMAIN d.jobs : Reacts(d.jobs[i]) => i \in DOMAIN e.jobs /\ d.jobs[i] = e.jobs[i]
    BY <1>4, <1>6
<1>9. Ordered(d, r)
  <2>1. \A i, j \in DOMAIN d.jobs : i < j /\ Reacts(d.jobs[i]) /\ Reacts(d.jobs[j])
              => Lt(d.jobs[i].reaction, d.jobs[j].reaction)
      BY <1>2, <1>8 DEF Ordered
  <2> QED BY <1>2, <1>6, <1>7, <2>1 DEF Ordered
<1>10. Numbered(d, r)
    BY <1>2, <1>6, <1>7 DEF Numbered
<1>11. Truthful(d)
    BY <1>2, <1>6, <1>8 DEF Truthful
<1>12. Asked(d)
  <2>1. \A i \in DOMAIN d.jobs : d.jobs[i] = job \/ (i \in DOMAIN e.jobs /\ d.jobs[i] = e.jobs[i])
      BY <1>6
  <2>2. \A i \in DOMAIN d.jobs : ~Reacts(d.jobs[i]) =>
          LET q == d.jobs[i].promise IN
          /\ d.promise[q].state = "pending"
          /\ [promise |-> q, n |-> d.promise[q].funs] \in d.already
          /\ d.jobs[i].thenable \in Promise => d.promise[d.jobs[i].thenable].state # "none"
      BY <1>2, <1>4, <1>6, <2>1 DEF Asked
  <2>3. ASSUME NEW i \in DOMAIN d.jobs, NEW j \in DOMAIN d.jobs, i # j,
               ~Reacts(d.jobs[i]), ~Reacts(d.jobs[j])
        PROVE  d.jobs[i].promise # d.jobs[j].promise
    <3>1. CASE i \in DOMAIN e.jobs /\ j \in DOMAIN e.jobs
        BY <1>2, <1>6, <2>3, <3>1 DEF Asked
    <3>2. CASE i \in DOMAIN e.jobs /\ j = Len(e.jobs) + 1
        BY <1>4, <1>6, <2>3, <3>2
    <3>3. CASE j \in DOMAIN e.jobs /\ i = Len(e.jobs) + 1
        BY <1>4, <1>6, <2>3, <3>3
    <3> QED BY <1>6, <2>3, <3>1, <3>2, <3>3
  <2> QED BY <2>2, <2>3 DEF Asked
<1>13. \A f : Known(d, f) <=> Known(e, f)
    BY <1>6 DEF Known
<1>14. Pairs(d)
    BY <1>2, <1>6, <1>13 DEF Pairs
<1>15. Handled(d, r)
    BY <1>2, <1>6, <1>7 DEF Handled
<1>16. Sole(d, F)
    BY <1>2, <1>6, <1>7, <1>13 DEF Sole
<1>17. FollowOK(d, fp) /\ fp \in [Promise -> Promise \cup {NoFun}]
  <2>1. fp \in [Promise -> Promise \cup {NoFun}]
      BY <1>1
  <2>2. ASSUME NEW q \in Promise, fp[q] # NoFun
        PROVE  \/ \E i \in DOMAIN d.jobs :
                     d.jobs[i] = [kind |-> "thenable", promise |-> q, thenable |-> fp[q]]
               \/ \E x \in Waits(d) : x.of = fp[q] /\ Resolving(x) /\ x.on[TRUE].fun.promise = q
               \/ /\ d.promise[q].state \in Settlements
                  /\ d.promise[q].state = d.promise[fp[q]].state
                  /\ d.promise[q].result = d.promise[fp[q]].result
    <3>1. CASE t \in Promise /\ q = p
      <4>1. fp[q] = t
          BY <1>1, <3>1
      <4> QED BY <1>3, <1>6, <3>1, <4>1
    <3>2. CASE ~(t \in Promise /\ q = p)
      <4>1. fp[q] = fo[q]
          BY <1>1, <3>2
      <4>2. CASE \E i \in DOMAIN e.jobs :
                     e.jobs[i] = [kind |-> "thenable", promise |-> q, thenable |-> fo[q]]
          BY <1>6, <4>1, <4>2
      <4>3. CASE \E x \in Waits(e) : x.of = fo[q] /\ Resolving(x) /\ x.on[TRUE].fun.promise = q
          BY <1>7, <4>1, <4>3
      <4>4. CASE /\ e.promise[q].state \in Settlements
                 /\ e.promise[q].state = e.promise[fo[q]].state
                 /\ e.promise[q].result = e.promise[fo[q]].result
          BY <1>6, <4>1, <4>4
      <4> QED BY <1>2, <2>2, <4>1, <4>2, <4>3, <4>4 DEF FollowOK
    <3> QED BY <3>1, <3>2
  <2> QED BY <2>1, <2>2 DEF FollowOK
<1> QED BY <1>1, <1>6, <1>7, <1>9, <1>10, <1>11, <1>12, <1>14, <1>15, <1>16, <1>17 DEF EngineInv

\* Values are objects or plain.
LEMMA ValueKinds ==
    /\ \A v \in Value : v \in Plain \/ v \in Object
    /\ \A v \in Plain : v \in Value /\ v \notin Object /\ v \notin Promise
    /\ "throwing" \notin Promise /\ "thenable" \notin Promise
BY PromisesAssumption DEF Value, Plain, Object

\* What promises follow after a call of a resolving function.
FollowedIn(e, f, rej, v, fo) ==
    IF f # NoFun /\ f \notin e.already /\ ~rej /\ v \in Promise \ {f.promise}
    THEN [fo EXCEPT ![f.promise] = v] ELSE fo

\* What is known after a call of a resolving function.
Called(e, f, rej, v, d) ==
    /\ Waits(d) = Waits(e)
    /\ f # NoFun /\ f \notin e.already /\ v \in Plain =>
          /\ d.promise[f.promise].state = IF rej THEN "rejected" ELSE "fulfilled"
          /\ d.promise[f.promise].result = v
    /\ \A q \in Promise : e.promise[q].state # "none" => d.promise[q].state # "none"
    /\ \A q \in Promise : e.promise[q].state \in Settlements => d.promise[q] = e.promise[q]

\* A resolving function is called.
LEMMA CallKeeps ==
    ASSUME NEW e, NEW r, NEW F, NEW fo, EngineInv(e, r, F, fo),
           NEW f \in F \cup {NoFun}, NEW v \in Value, NEW rej \in BOOLEAN,
           rej => v \in Plain, v \in Promise => e.promise[v].state # "none",
           NEW d, d = resolving_function_call(e, f, rej, v),
           NEW fp, fp = FollowedIn(e, f, rej, v, fo)
    PROVE  EngineInv(d, r, F, fp) /\ Called(e, f, rej, v, d)
<1>1. e \in Engine /\ F \subseteq Fun
    BY DEF EngineInv
<1>2. CASE f = NoFun \/ f \in e.already
  <2>1. d = e /\ fp = fo
      BY <1>2 DEF resolving_function_call, FollowedIn
  <2> QED BY <1>2, <2>1 DEF Called
<1>3. CASE f # NoFun /\ f \notin e.already
  <2>1. f \in F /\ f \in Fun
      BY <1>1, <1>3
  <2>2. PICK p \in Promise : p = f.promise
      BY <2>1, FunTypes
  <2>3. PICK c : c = [e EXCEPT !.already = @ \cup {f}]
      OBVIOUS
  <2>4. /\ EngineInv(c, r, F, fo) /\ c.jobs = e.jobs /\ c.promise = e.promise
        /\ c.already = e.already \cup {f} /\ Waits(c) = Waits(e)
      BY <1>3, <2>1, <2>3, MarkKeeps
  <2>5. Known(e, f)
      BY <2>1 DEF EngineInv, Sole
  <2>6. /\ f = [promise |-> p, n |-> e.promise[p].funs]
        /\ e.promise[p].state = "pending"
        /\ \A i \in DOMAIN e.jobs : ~Reacts(e.jobs[i]) => e.jobs[i].promise # p
      BY <1>3, <2>1, <2>2, <2>5, UncalledFun
  <2>7. /\ c.promise[p].state = "pending"
        /\ [promise |-> p, n |-> c.promise[p].funs] \in c.already
        /\ \A i \in DOMAIN c.jobs : ~Reacts(c.jobs[i]) => c.jobs[i].promise # p
      BY <2>4, <2>6
  <2>8. c \in Engine
      BY <2>4 DEF EngineInv
  <2>9. ASSUME NEW w \in Plain, NEW b \in BOOLEAN, d = fulfill_or_reject_promise(c, p, w, b)
        PROVE  /\ EngineInv(d, r, F, fo) /\ Waits(d) = Waits(e)
               /\ d.promise[p].state = IF b THEN "rejected" ELSE "fulfilled"
               /\ d.promise[p].result = w
               /\ \A q \in Promise : e.promise[q].state # "none" => d.promise[q].state # "none"
               /\ \A q \in Promise : e.promise[q].state \in Settlements => d.promise[q] = e.promise[q]
    <3>1. SettlesTo(c, p, w, b, d)
        BY <2>7, <2>8, <2>9, SettleEffect
    <3>2. EngineInv(d, r, F, fo) /\ Waits(d) = Waits(c)
        BY <2>4, <2>7, <3>1, SettleKeeps
    <3>3. /\ d.promise[p].state = IF b THEN "rejected" ELSE "fulfilled"
          /\ d.promise[p].result = w
          /\ \A q \in Promise : q # p => d.promise[q] = c.promise[q]
        BY <3>1 DEF SettlesTo
    <3> QED BY <2>4, <2>6, <3>2, <3>3 DEF Settlements
  <2>10. CASE rej \/ v \notin Object
    <3>1. v \in Plain /\ fp = fo
        BY <2>10, ValueKinds DEF FollowedIn
    <3>2. d = fulfill_or_reject_promise(c, p, v, rej)
        BY <1>3, <2>2, <2>3, <2>10 DEF resolving_function_call
    <3> QED BY <2>2, <2>9, <3>1, <3>2 DEF Called
  <2>11. CASE ~(rej \/ v \notin Object) /\ v \in {p, "throwing"}
    <3>1. fp = fo /\ v \notin Plain
        BY <2>2, <2>11, ValueKinds DEF FollowedIn
    <3>2. d = fulfill_or_reject_promise(c, p, "TypeError", TRUE)
        BY <1>3, <2>2, <2>3, <2>11 DEF resolving_function_call
    <3>3. "TypeError" \in Plain
        BY DEF Plain
    <3> QED BY <2>9, <3>1, <3>2, <3>3 DEF Called
  <2>12. CASE ~(rej \/ v \notin Object) /\ v \notin {p, "throwing"}
    <3>1. d = JS_EnqueueJob(c, [kind |-> "thenable", promise |-> p, thenable |-> v])
        BY <1>3, <2>2, <2>3, <2>12 DEF resolving_function_call
    <3>2. fp = IF v \in Promise THEN [fo EXCEPT ![p] = v] ELSE fo
        BY <1>3, <2>2, <2>12 DEF FollowedIn
    <3>3. v \in Object /\ (v \in Promise => c.promise[v].state # "none") /\ v \notin Plain
        BY <2>4, <2>12, ValueKinds
    <3>4. EngineInv(d, r, F, fp) /\ Waits(d) = Waits(c) /\ d.promise = c.promise
        BY <2>4, <2>7, <3>1, <3>2, <3>3, AskKeeps
    <3> QED BY <2>4, <3>3, <3>4 DEF Called
  <2> QED BY <2>10, <2>11, <2>12
<1> QED BY <1>2, <1>3

\* A call that the program or the engine may make.
Callable(e, F, f, rej, v) ==
    /\ f \in F \cup {NoFun} /\ v \in Value /\ rej \in BOOLEAN
    /\ rej => v \in Plain
    /\ v \in Promise => e.promise[v].state # "none"

\* A resolving function is called, in any of its cases: the invariant holds,
\* and nothing that waits is lost.
LEMMA CallLeaves ==
    ASSUME NEW e, NEW r, NEW F, NEW fo, EngineInv(e, r, F, fo),
           NEW f, NEW rej, NEW v, Callable(e, F, f, rej, v)
    PROVE  /\ EngineInv(resolving_function_call(e, f, rej, v), r, F, FollowedIn(e, f, rej, v, fo))
           /\ Called(e, f, rej, v, resolving_function_call(e, f, rej, v))
<1>1. PICK d : d = resolving_function_call(e, f, rej, v)
    OBVIOUS
<1>2. PICK fp : fp = FollowedIn(e, f, rej, v, fo)
    OBVIOUS
<1>3. /\ f \in F \cup {NoFun} /\ v \in Value /\ rej \in BOOLEAN
      /\ rej => v \in Plain
      /\ v \in Promise => e.promise[v].state # "none"
    BY DEF Callable
<1>4. EngineInv(d, r, F, fp) /\ Called(e, f, rej, v, d)
    BY <1>1, <1>2, <1>3, CallKeeps
<1> QED BY <1>1, <1>2, <1>4

\* The engine after a reaction x is added to p.
Added(e, p, x, d) ==
    /\ d \in Engine /\ d.already = e.already /\ d.thens = e.thens + 1
    /\ d.unhandled = e.unhandled \ {p}
    /\ \A q \in Promise : q # p => d.promise[q] = e.promise[q]
    /\ d.promise[p].state = e.promise[p].state /\ d.promise[p].result = e.promise[p].result
    /\ d.promise[p].funs = e.promise[p].funs /\ d.promise[p].handled

\* The promise is pending: the reaction x is the last of its list.
AddedToList(e, p, x, d) ==
    LET L == e.promise[p].reactions M == d.promise[p].reactions IN
    /\ e.promise[p].state = "pending" /\ d.jobs = e.jobs
    /\ Len(L) + 1 \in DOMAIN M /\ M[Len(L) + 1] = x
    /\ \A i \in DOMAIN L : i \in DOMAIN M /\ M[i] = L[i] /\ i < Len(L) + 1
    /\ \A i \in DOMAIN M : i \in DOMAIN L \/ i = Len(L) + 1

\* The promise is settled: the job of x is the last of the queue.
AddedToJobs(e, p, x, d) ==
    LET n == Len(e.jobs) + 1 IN
    /\ e.promise[p].state # "pending" /\ d.promise[p].reactions = e.promise[p].reactions
    /\ n \in DOMAIN d.jobs /\ Reacts(d.jobs[n]) /\ d.jobs[n].reaction = x
    /\ d.jobs[n].rej = (e.promise[p].state = "rejected") /\ d.jobs[n].value = e.promise[p].result
    /\ \A i \in DOMAIN e.jobs : i \in DOMAIN d.jobs /\ d.jobs[i] = e.jobs[i] /\ i < n
    /\ \A i \in DOMAIN d.jobs : i \in DOMAIN e.jobs \/ i = n

\* perform_promise_then puts one new reaction on the list of a pending promise,
\* or in the queue if the promise is settled.
LEMMA AddedEffect ==
    ASSUME NEW e \in Engine, NEW p \in Promise, NEW on \in [BOOLEAN -> Handler],
           NEW cap \in Fun \cup {NoFun}, NEW d, d = perform_promise_then(e, p, on, cap),
           NEW x, x = [of |-> p, id |-> e.thens + 1, on |-> on, cap |-> cap]
    PROVE  /\ x \in Reaction /\ Added(e, p, x, d)
           /\ AddedToList(e, p, x, d) \/ AddedToJobs(e, p, x, d)
<1>1. /\ e.promise \in [Promise -> PromiseData] /\ e.jobs \in Seq(Job) /\ e.thens \in Nat
      /\ e.unhandled \subseteq Promise
    BY EngineTypes
<1>2. PICK c : c = e.promise[p]
    OBVIOUS
<1>3. /\ c \in PromiseData /\ c.state \in States /\ c.result \in Value
      /\ c.reactions \in Seq(Reaction) /\ c.funs \in Nat
    BY <1>1, <1>2, DataTypes
<1>4. x \in Reaction
    BY <1>1 DEF Reaction
<1>5. PICK h : h = [c EXCEPT !.handled = TRUE]
    OBVIOUS
<1>6. /\ h \in PromiseData /\ h.state = c.state /\ h.result = c.result /\ h.funs = c.funs
      /\ h.reactions = c.reactions /\ h.handled
    BY <1>3, <1>5 DEF PromiseData
<1>7. PICK P : P = [e.promise EXCEPT ![p] = h]
    OBVIOUS
<1>8. P \in [Promise -> PromiseData] /\ P[p] = h /\ \A q \in Promise : q # p => P[q] = e.promise[q]
    BY <1>1, <1>6, <1>7
<1>9. PICK g : g = [e EXCEPT !.thens = @ + 1, !.promise = P, !.unhandled = @ \ {p}]
    OBVIOUS
<1>10. g = [e EXCEPT !.thens = @ + 1, !.promise[p].handled = TRUE, !.unhandled = @ \ {p}]
    BY <1>1, <1>2, <1>5, <1>7, <1>9
<1>11. /\ g.jobs = e.jobs /\ g.already = e.already /\ g.promise = P
       /\ g.thens = e.thens + 1 /\ g.unhandled = e.unhandled \ {p}
    BY <1>9 DEF Engine
<1>12. g \in Engine
  <2>1. e.thens + 1 \in Nat /\ e.unhandled \ {p} \in SUBSET Promise
      BY <1>1
  <2> QED BY <1>8, <1>9, <2>1 DEF Engine
<1>13. CASE c.state = "pending"
  <2>1. PICK M : M = Append(c.reactions, x)
      OBVIOUS
  <2>2. /\ M \in Seq(Reaction) /\ Len(c.reactions) + 1 \in DOMAIN M
        /\ M[Len(c.reactions) + 1] = x
        /\ \A i \in DOMAIN c.reactions : /\ i \in DOMAIN M /\ M[i] = c.reactions[i]
                                         /\ i < Len(c.reactions) + 1
        /\ \A i \in DOMAIN M : i \in DOMAIN c.reactions \/ i = Len(c.reactions) + 1
      BY <1>3, <1>4, <2>1, AppendFacts
  <2>3. PICK k : k = [h EXCEPT !.reactions = M]
      OBVIOUS
  <2>4. /\ k \in PromiseData /\ k.state = c.state /\ k.result = c.result /\ k.funs = c.funs
        /\ k.reactions = M /\ k.handled
      BY <1>6, <2>2, <2>3 DEF PromiseData
  <2>5. PICK Q : Q = [P EXCEPT ![p] = k]
      OBVIOUS
  <2>6. Q \in [Promise -> PromiseData] /\ Q[p] = k /\ \A q \in Promise : q # p => Q[q] = e.promise[q]
      BY <1>8, <2>4, <2>5
  <2>7. d = [g EXCEPT !.promise[p].reactions = Append(@, x)]
      BY <1>2, <1>10, <1>13 DEF perform_promise_then
  <2>8. d = [g EXCEPT !.promise = Q]
      BY <1>6, <1>8, <1>11, <1>12, <2>1, <2>3, <2>5, <2>7, EngineTypes
  <2>9. /\ d.jobs = e.jobs /\ d.already = e.already /\ d.promise = Q
        /\ d.thens = e.thens + 1 /\ d.unhandled = e.unhandled \ {p}
      BY <1>11, <1>12, <2>8 DEF Engine
  <2>10. d \in Engine
      BY <1>12, <2>6, <2>8 DEF Engine
  <2>11. Added(e, p, x, d)
      BY <1>2, <2>4, <2>6, <2>9, <2>10 DEF Added
  <2>12. AddedToList(e, p, x, d)
      BY <1>2, <1>13, <2>2, <2>4, <2>6, <2>9 DEF AddedToList
  <2> QED BY <1>4, <2>11, <2>12
<1>14. CASE c.state # "pending"
  <2>1. PICK job : job = [kind |-> "reaction", reaction |-> x, rej |-> (c.state = "rejected"),
                          value |-> c.result]
      OBVIOUS
  <2>2. job \in Job /\ Reacts(job)
      BY <1>3, <1>4, <2>1 DEF Job, Reacts
  <2>3. ReactionJobs([reactions |-> <<x>>], c.state = "rejected", c.result)[1] = job
      BY <2>1 DEF ReactionJobs
  <2>4. d = JS_EnqueueJob(g, job)
      BY <1>2, <1>10, <1>14, <2>3 DEF perform_promise_then
  <2>5. Enqueued(g, job, d)
      BY <1>12, <2>2, <2>4, EnqueueEffect
  <2>6. Added(e, p, x, d)
      BY <1>2, <1>6, <1>8, <1>11, <2>5 DEF Added, Enqueued
  <2>7. /\ job.reaction = x /\ job.rej = (e.promise[p].state = "rejected")
        /\ job.value = e.promise[p].result
      BY <1>2, <2>1
  <2>8. AddedToJobs(e, p, x, d)
      BY <1>2, <1>6, <1>8, <1>11, <1>14, <2>2, <2>5, <2>7 DEF AddedToJobs, Enqueued
  <2> QED BY <1>4, <2>6, <2>8
<1> QED BY <1>13, <1>14

\* The new reaction is on a list or in the queue, and no other is added.
LEMMA AddedWaits ==
    ASSUME NEW e, NEW p \in Promise, NEW x, NEW d, Added(e, p, x, d),
           AddedToList(e, p, x, d) \/ AddedToJobs(e, p, x, d)
    PROVE  /\ AddedToList(e, p, x, d) =>
                 /\ Queued(d) = Queued(e)
                 /\ \A y : y \in Listed(d) <=> y \in Listed(e) \/ y = x
           /\ AddedToJobs(e, p, x, d) =>
                 /\ Listed(d) = Listed(e)
                 /\ \A y : y \in Queued(d) <=> y \in Queued(e) \/ y = x
<1>1. ASSUME AddedToList(e, p, x, d)
      PROVE  Queued(d) = Queued(e) /\ \A y : y \in Listed(d) <=> y \in Listed(e) \/ y = x
  <2>1. Queued(d) = Queued(e)
      BY <1>1 DEF Queued, AddedToList
  <2>2. ASSUME NEW y, y \in Listed(d) PROVE y \in Listed(e) \/ y = x
    <3>1. PICK q \in Promise : \E i \in DOMAIN d.promise[q].reactions : y = d.promise[q].reactions[i]
        BY <2>2, QueuedIs
    <3>2. CASE q = p
      <4>1. PICK i \in DOMAIN d.promise[p].reactions : y = d.promise[p].reactions[i]
          BY <3>1, <3>2
      <4>2. y = x \/ (i \in DOMAIN e.promise[p].reactions /\ y = e.promise[p].reactions[i])
          BY <1>1, <4>1 DEF AddedToList
      <4> QED BY <4>2, QueuedIs
    <3>3. CASE q # p
        BY <3>1, <3>3, QueuedIs DEF Added
    <3> QED BY <3>2, <3>3
  <2>3. ASSUME NEW y, y \in Listed(e) PROVE y \in Listed(d)
    <3>1. PICK q \in Promise : \E i \in DOMAIN e.promise[q].reactions : y = e.promise[q].reactions[i]
        BY <2>3, QueuedIs
    <3>2. CASE q = p
        BY <1>1, <3>1, <3>2, QueuedIs DEF AddedToList
    <3>3. CASE q # p
        BY <3>1, <3>3, QueuedIs DEF Added
    <3> QED BY <3>2, <3>3
  <2>4. x \in Listed(d)
      BY <1>1, QueuedIs DEF AddedToList
  <2> QED BY <2>1, <2>2, <2>3, <2>4
<1>2. ASSUME AddedToJobs(e, p, x, d)
      PROVE  Listed(d) = Listed(e) /\ \A y : y \in Queued(d) <=> y \in Queued(e) \/ y = x
  <2>1. \A q \in Promise : d.promise[q].reactions = e.promise[q].reactions
      BY <1>2 DEF Added, AddedToJobs
  <2>2. Listed(d) = Listed(e)
    <3>1. \A y : y \in Listed(d) <=> \E q \in Promise : \E i \in DOMAIN d.promise[q].reactions :
                                         y = d.promise[q].reactions[i]
        BY QueuedIs
    <3>2. \A y : y \in Listed(e) <=> \E q \in Promise : \E i \in DOMAIN e.promise[q].reactions :
                                         y = e.promise[q].reactions[i]
        BY QueuedIs
    <3>3. \A y : y \in Listed(d) <=> y \in Listed(e)
        BY <2>1, <3>1, <3>2
    <3> QED BY <3>3
  <2>3. ASSUME NEW y, y \in Queued(d) PROVE y \in Queued(e) \/ y = x
    <3>1. PICK i \in DOMAIN d.jobs : Reacts(d.jobs[i]) /\ y = d.jobs[i].reaction
        BY <2>3, QueuedIs
    <3> QED BY <1>2, <3>1, QueuedIs DEF AddedToJobs
  <2>4. ASSUME NEW y, y \in Queued(e) PROVE y \in Queued(d)
    <3>1. PICK i \in DOMAIN e.jobs : Reacts(e.jobs[i]) /\ y = e.jobs[i].reaction
        BY <2>4, QueuedIs
    <3> QED BY <1>2, <3>1, QueuedIs DEF AddedToJobs
  <2>5. x \in Queued(d)
      BY <1>2, QueuedIs DEF AddedToJobs
  <2> QED BY <2>2, <2>3, <2>4, <2>5
<1> QED BY <1>1, <1>2

\* The new reaction is the only one that waits in addition.
LEMMA AddedWaitsAll ==
    ASSUME NEW e, NEW p \in Promise, NEW x, NEW d, Added(e, p, x, d),
           AddedToList(e, p, x, d) \/ AddedToJobs(e, p, x, d)
    PROVE  Waits(d) = Waits(e) \cup {x}
<1>1. CASE AddedToList(e, p, x, d)
  <2>1. Queued(d) = Queued(e) /\ \A y : y \in Listed(d) <=> y \in Listed(e) \/ y = x
      BY <1>1, AddedWaits
  <2> QED BY <2>1 DEF Waits
<1>2. CASE AddedToJobs(e, p, x, d)
  <2>1. Listed(d) = Listed(e) /\ \A y : y \in Queued(d) <=> y \in Queued(e) \/ y = x
      BY <1>2, AddedWaits
  <2> QED BY <2>1 DEF Waits
<1> QED BY <1>1, <1>2

\* The reactions there are have ids up to thens.
LEMMA IdsBelow ==
    ASSUME NEW e, NEW r, NEW F, NEW fo, EngineInv(e, r, F, fo)
    PROVE  /\ e.thens \in Nat
           /\ \A y \in Ran(r) \cup Waits(e) : y.id \in Nat /\ y.id <= e.thens /\ y \in Reaction
<1>1. e \in Engine /\ r \in Seq(Reaction) /\ Numbered(e, r)
    BY DEF EngineInv
<1>2. e.thens \in Nat
    BY <1>1, EngineTypes
<1>3. ASSUME NEW y \in Ran(r) \cup Waits(e)
      PROVE  y.id \in Nat /\ y.id <= e.thens
  <2>1. y.id \in 1..e.thens
      BY <1>1 DEF Numbered
  <2> QED BY <1>2, <2>1
<1>4. Ran(r) \subseteq Reaction
    BY <1>1 DEF Ran
<1> QED BY <1>1, <1>2, <1>3, <1>4, WaitsTypes

\* The new reaction comes last of those of its promise.
LEMMA AddedOrdered ==
    ASSUME NEW e, NEW r, NEW F, NEW fo, EngineInv(e, r, F, fo), NEW p \in Promise,
           NEW x \in Reaction, x.of = p, x.id = e.thens + 1, NEW d, Added(e, p, x, d),
           AddedToList(e, p, x, d) \/ AddedToJobs(e, p, x, d)
    PROVE  Ordered(d, r)
<1>1. e \in Engine /\ Ordered(e, r) /\ Truthful(e) /\ d \in Engine
    BY DEF EngineInv, Added
<1>2. \A y \in Ran(r) \cup Waits(e) : Lt(y, x) /\ y.id # x.id /\ (y.of # p => Lt(x, y))
    BY IdsBelow DEF Lt
<1>3. Waits(d) = Waits(e) \cup {x}
    BY AddedWaitsAll
<1>4. /\ \A i, j \in DOMAIN r : i < j => Lt(r[i], r[j])
      /\ \A y \in Ran(r), z \in Waits(d) : Lt(y, z)
    BY <1>1, <1>2, <1>3 DEF Ordered
<1>5. CASE AddedToList(e, p, x, d)
  <2>1. /\ Queued(d) = Queued(e)
        /\ \A y : y \in Listed(d) <=> y \in Listed(e) \/ y = x
      BY <1>5, AddedWaits
  <2>2. \A y \in Queued(d), z \in Listed(d) : Lt(y, z)
      BY <1>1, <1>2, <2>1 DEF Ordered, Waits
  <2>3. \A i, j \in DOMAIN d.jobs :
             i < j /\ Reacts(d.jobs[i]) /\ Reacts(d.jobs[j]) => Lt(d.jobs[i].reaction, d.jobs[j].reaction)
      BY <1>1, <1>5 DEF Ordered, AddedToList
  <2>4. ASSUME NEW q \in Promise, NEW i \in DOMAIN d.promise[q].reactions
        PROVE  \/ i \in DOMAIN e.promise[q].reactions
                     /\ d.promise[q].reactions[i] = e.promise[q].reactions[i]
                     /\ d.promise[q].reactions[i] \in Waits(e)
               \/ q = p /\ d.promise[q].reactions[i] = x /\ i = Len(e.promise[p].reactions) + 1
    <3>1. \/ i \in DOMAIN e.promise[q].reactions
                /\ d.promise[q].reactions[i] = e.promise[q].reactions[i]
          \/ q = p /\ d.promise[q].reactions[i] = x /\ i = Len(e.promise[p].reactions) + 1
      <4>1. CASE q = p
          BY <1>5, <2>4, <4>1 DEF AddedToList
      <4>2. CASE q # p
          BY <2>4, <4>2 DEF Added
      <4> QED BY <4>1, <4>2
    <3>2. i \in DOMAIN e.promise[q].reactions => e.promise[q].reactions[i] \in Waits(e)
        BY QueuedIs DEF Waits
    <3> QED BY <3>1, <3>2
  <2>5. \A i \in DOMAIN e.promise[p].reactions : i < Len(e.promise[p].reactions) + 1 /\ i \in Nat
    <3>1. e.promise[p].reactions \in Seq(Reaction)
        BY <1>1, EngineTypes, DataTypes
    <3> QED BY <3>1
  <2>6. ASSUME NEW q \in Promise, NEW i \in DOMAIN d.promise[q].reactions,
               NEW j \in DOMAIN d.promise[q].reactions, i < j
        PROVE  Lt(d.promise[q].reactions[i], d.promise[q].reactions[j])
    <3>1. CASE j \in DOMAIN e.promise[q].reactions /\ d.promise[q].reactions[j] = e.promise[q].reactions[j]
      <4>1. i \in DOMAIN e.promise[q].reactions /\ d.promise[q].reactions[i] = e.promise[q].reactions[i]
          BY <2>4, <2>5, <2>6, <3>1
      <4> QED BY <1>1, <2>6, <3>1, <4>1 DEF Ordered
    <3>2. CASE q = p /\ d.promise[q].reactions[j] = x /\ j = Len(e.promise[p].reactions) + 1
      <4>1. d.promise[q].reactions[i] \in Waits(e)
          BY <2>4, <2>5, <2>6, <3>2
      <4> QED BY <1>2, <3>2, <4>1
    <3> QED BY <2>4, <2>6, <3>1, <3>2
  <2>7. ASSUME NEW q \in Promise, NEW s \in Promise, q # s,
               NEW i \in DOMAIN d.promise[q].reactions, NEW j \in DOMAIN d.promise[s].reactions
        PROVE  d.promise[q].reactions[i].id # d.promise[s].reactions[j].id
    <3>1. CASE i \in DOMAIN e.promise[q].reactions /\ d.promise[q].reactions[i] = e.promise[q].reactions[i]
               /\ j \in DOMAIN e.promise[s].reactions /\ d.promise[s].reactions[j] = e.promise[s].reactions[j]
        BY <1>1, <2>7, <3>1 DEF Ordered
    <3>2. CASE q = p /\ d.promise[q].reactions[i] = x
      <4>1. d.promise[s].reactions[j] \in Waits(e)
          BY <2>4, <2>7, <3>2
      <4> QED BY <1>2, <3>2, <4>1
    <3>3. CASE s = p /\ d.promise[s].reactions[j] = x
      <4>1. d.promise[q].reactions[i] \in Waits(e)
          BY <2>4, <2>7, <3>3
      <4> QED BY <1>2, <3>3, <4>1
    <3> QED BY <2>4, <2>7, <3>1, <3>2, <3>3
  <2>8. \A q \in Promise : \A i, j \in DOMAIN d.promise[q].reactions :
             i < j => Lt(d.promise[q].reactions[i], d.promise[q].reactions[j])
      BY <2>6
  <2>9. \A q, s \in Promise : q # s =>
             \A i \in DOMAIN d.promise[q].reactions, j \in DOMAIN d.promise[s].reactions :
                d.promise[q].reactions[i].id # d.promise[s].reactions[j].id
      BY <2>7
  <2> QED BY <1>4, <2>2, <2>3, <2>8, <2>9 DEF Ordered
<1>6. CASE AddedToJobs(e, p, x, d)
  <2>1. /\ Listed(d) = Listed(e)
        /\ \A y : y \in Queued(d) <=> y \in Queued(e) \/ y = x
      BY <1>6, AddedWaits
  <2>2. \A q \in Promise : d.promise[q].reactions = e.promise[q].reactions
      BY <1>6 DEF Added, AddedToJobs
  <2>3. \A y \in Listed(e) : y.of # p
    <3>1. \A q \in Promise : \A i \in DOMAIN e.promise[q].reactions :
             e.promise[q].reactions[i].of = q /\ q # p
      <4>1. ASSUME NEW q \in Promise, NEW i \in DOMAIN e.promise[q].reactions
            PROVE  e.promise[q].reactions[i].of = q /\ q # p
        <5>1. e.promise[q].reactions # <<>>
            BY <4>1
        <5>2. e.promise[q].state = "pending"
            BY <1>1, <5>1 DEF Truthful
        <5> QED BY <1>1, <1>6, <4>1, <5>2 DEF Truthful, AddedToJobs
      <4> QED BY <4>1
    <3> QED BY <3>1, QueuedIs
  <2>4. \A y \in Queued(d), z \in Listed(d) : Lt(y, z)
      BY <1>1, <1>2, <2>1, <2>3 DEF Ordered, Waits
  <2>5. ASSUME NEW i \in DOMAIN d.jobs, NEW j \in DOMAIN d.jobs, i < j,
               Reacts(d.jobs[i]), Reacts(d.jobs[j])
        PROVE  Lt(d.jobs[i].reaction, d.jobs[j].reaction)
    <3>1. i \in Nat /\ j \in Nat /\ Len(e.jobs) \in Nat
        BY <1>1, EngineTypes
    <3>2. i \in DOMAIN e.jobs /\ d.jobs[i] = e.jobs[i]
      <4>1. CASE i \in DOMAIN e.jobs
          BY <1>6, <4>1 DEF AddedToJobs
      <4>2. CASE i = Len(e.jobs) + 1
        <5>1. j \notin DOMAIN e.jobs /\ j # Len(e.jobs) + 1
            BY <1>6, <2>5, <3>1, <4>2 DEF AddedToJobs
        <5> QED BY <1>6, <2>5, <5>1 DEF AddedToJobs
      <4> QED BY <1>6, <2>5, <4>1, <4>2 DEF AddedToJobs
    <3>3. CASE j \in DOMAIN e.jobs
      <4>1. d.jobs[j] = e.jobs[j]
          BY <1>6, <3>3 DEF AddedToJobs
      <4> QED BY <1>1, <2>5, <3>2, <3>3, <4>1 DEF Ordered
    <3>4. CASE j = Len(e.jobs) + 1
      <4>1. d.jobs[j].reaction = x
          BY <1>6, <3>4 DEF AddedToJobs
      <4>2. d.jobs[i].reaction \in Waits(e)
          BY <2>5, <3>2, QueuedIs DEF Waits
      <4> QED BY <1>2, <4>1, <4>2
    <3> QED BY <1>6, <2>5, <3>3, <3>4 DEF AddedToJobs
  <2> QED BY <1>1, <1>4, <2>2, <2>4, <2>5 DEF Ordered
<1> QED BY <1>5, <1>6

\* A reaction x that the program or the engine may add to p.
Addable(e, F, p, on, cap, x) ==
    /\ p \in Promise /\ e.promise[p].state # "none"
    /\ on \in [BOOLEAN -> Handler] /\ cap \in F \cup {NoFun}
    /\ x = [of |-> p, id |-> e.thens + 1, on |-> on, cap |-> cap]
    /\ WellFormed(x)
    /\ Resolving(x) => /\ x.on[TRUE].fun \notin F \cup e.already /\ Known(e, x.on[TRUE].fun)
                       /\ \A y \in Waits(e) :
                             /\ y.cap # x.on[TRUE].fun
                             /\ Resolving(y) => y.on[TRUE].fun # x.on[TRUE].fun

\* What is known after the reaction x is added.
ThenAdded(e, x, d) ==
    /\ Waits(d) = Waits(e) \cup {x}
    /\ \A q \in Promise : d.promise[q].state = e.promise[q].state

\* then is called on a promise that was made.
LEMMA ThenKeeps ==
    ASSUME NEW e, NEW r, NEW F, NEW fo, EngineInv(e, r, F, fo),
           NEW p, NEW on, NEW cap, NEW x, Addable(e, F, p, on, cap, x),
           NEW d, d = perform_promise_then(e, p, on, cap)
    PROVE  EngineInv(d, r, F, fo) /\ ThenAdded(e, x, d)
<1>21. /\ p \in Promise /\ e.promise[p].state # "none"
       /\ on \in [BOOLEAN -> Handler] /\ cap \in F \cup {NoFun}
       /\ x = [of |-> p, id |-> e.thens + 1, on |-> on, cap |-> cap]
       /\ WellFormed(x)
    BY DEF Addable
<1>22. Resolving(x) => /\ x.on[TRUE].fun \notin F \cup e.already /\ Known(e, x.on[TRUE].fun)
                       /\ \A y \in Waits(e) :
                             /\ y.cap # x.on[TRUE].fun
                             /\ Resolving(y) => y.on[TRUE].fun # x.on[TRUE].fun
    BY DEF Addable
<1>1. /\ e \in Engine /\ r \in Seq(Reaction) /\ F \subseteq Fun
      /\ fo \in [Promise -> Promise \cup {NoFun}]
    BY DEF EngineInv
<1>2. /\ Ordered(e, r) /\ Numbered(e, r) /\ Truthful(e) /\ Asked(e) /\ Pairs(e)
      /\ Handled(e, r) /\ Sole(e, F) /\ FollowOK(e, fo)
    BY DEF EngineInv
<1>3. cap \in Fun \cup {NoFun}
    BY <1>1, <1>21
<1>4. /\ x \in Reaction /\ Added(e, p, x, d)
      /\ AddedToList(e, p, x, d) \/ AddedToJobs(e, p, x, d)
    BY <1>1, <1>3, <1>21, AddedEffect
<1>5. x.of = p /\ x.id = e.thens + 1 /\ x.cap = cap
    BY <1>21
<1>6. /\ d \in Engine /\ d.already = e.already /\ d.thens = e.thens + 1
      /\ d.unhandled = e.unhandled \ {p}
      /\ \A q \in Promise : q # p => d.promise[q] = e.promise[q]
      /\ d.promise[p].state = e.promise[p].state /\ d.promise[p].result = e.promise[p].result
      /\ d.promise[p].funs = e.promise[p].funs /\ d.promise[p].handled
    BY <1>4, <1>21 DEF Added
<1>7. /\ \A q \in Promise : /\ d.promise[q].state = e.promise[q].state
                            /\ d.promise[q].result = e.promise[q].result
                            /\ d.promise[q].funs = e.promise[q].funs
    BY <1>6, <1>21
<1>8. Waits(d) = Waits(e) \cup {x}
    BY <1>4, <1>21, AddedWaitsAll
<1>9. Ordered(d, r)
    BY <1>4, <1>5, <1>21, AddedOrdered
<1>10. Numbered(d, r)
  <2>1. e.thens \in Nat
      BY <1>1, EngineTypes
  <2>2. {y.id : y \in Ran(r) \cup Waits(d)} = {y.id : y \in Ran(r) \cup Waits(e)} \cup {x.id}
      BY <1>8
  <2>3. (1..e.thens) \cup {e.thens + 1} = 1..e.thens + 1
      BY <2>1
  <2> QED BY <1>2, <1>5, <1>6, <2>2, <2>3 DEF Numbered
<1>11. \A f \in Fun : Known(d, f) <=> Known(e, f)
    BY <1>7, FunTypes DEF Known
<1>12. ASSUME NEW i \in DOMAIN d.jobs
       PROVE  \/ i \in DOMAIN e.jobs /\ d.jobs[i] = e.jobs[i] /\ d.jobs[i] \in Job
              \/ /\ Reacts(d.jobs[i]) /\ d.jobs[i].reaction = x /\ e.promise[p].state # "pending"
                 /\ d.jobs[i].rej = (e.promise[p].state = "rejected")
                 /\ d.jobs[i].value = e.promise[p].result
  <2>1. \A j \in DOMAIN e.jobs : e.jobs[j] \in Job
      BY <1>1, EngineTypes
  <2> QED BY <1>4, <2>1 DEF AddedToList, AddedToJobs
<1>13. \A i \in DOMAIN e.jobs : i \in DOMAIN d.jobs /\ d.jobs[i] = e.jobs[i]
    BY <1>4 DEF AddedToList, AddedToJobs
<1>14. e.promise[p].state \in States /\ d.jobs \in Seq(Job)
    BY <1>1, <1>6, <1>21, EngineTypes, DataTypes
<1>15. Truthful(d)
  <2>1. ASSUME NEW i \in DOMAIN d.jobs, Reacts(d.jobs[i])
        PROVE  LET c == d.promise[d.jobs[i].reaction.of] IN
               /\ c.state = IF d.jobs[i].rej THEN "rejected" ELSE "fulfilled"
               /\ c.result = d.jobs[i].value
    <3>1. CASE i \in DOMAIN e.jobs /\ d.jobs[i] = e.jobs[i] /\ d.jobs[i] \in Job
      <4>1. d.jobs[i].reaction.of \in Promise
          BY <2>1, <3>1, JobTypes, ReactionTypes
      <4> QED BY <1>2, <1>7, <2>1, <3>1, <4>1 DEF Truthful
    <3>2. CASE /\ Reacts(d.jobs[i]) /\ d.jobs[i].reaction = x /\ e.promise[p].state # "pending"
               /\ d.jobs[i].rej = (e.promise[p].state = "rejected")
               /\ d.jobs[i].value = e.promise[p].result
      <4>1. e.promise[p].state \in {"rejected", "fulfilled"}
          BY <1>14, <1>21, <3>2 DEF States
      <4> QED BY <1>5, <1>6, <3>2, <4>1
    <3> QED BY <1>12, <3>1, <3>2
  <2>2. ASSUME NEW q \in Promise
        PROVE  /\ d.promise[q].result \in Plain
               /\ d.promise[q].reactions # <<>> => d.promise[q].state = "pending"
               /\ \A i \in DOMAIN d.promise[q].reactions : d.promise[q].reactions[i].of = q
    <3>1. CASE q = p /\ AddedToList(e, p, x, d)
        BY <1>2, <1>5, <1>7, <3>1 DEF Truthful, AddedToList
    <3>2. CASE q = p /\ AddedToJobs(e, p, x, d)
        BY <1>2, <1>7, <3>2 DEF Truthful, AddedToJobs
    <3>3. CASE q # p
        BY <1>2, <1>6, <3>3 DEF Truthful
    <3> QED BY <1>4, <3>1, <3>2, <3>3
  <2> QED BY <2>1, <2>2 DEF Truthful
<1>16. Asked(d)
  <2>1. \A i \in DOMAIN d.jobs : ~Reacts(d.jobs[i]) =>
           /\ i \in DOMAIN e.jobs /\ d.jobs[i] = e.jobs[i] /\ d.jobs[i].promise \in Promise
      BY <1>12, JobTypes
  <2>2. ASSUME NEW i \in DOMAIN d.jobs, ~Reacts(d.jobs[i])
        PROVE  LET q == d.jobs[i].promise IN
               /\ d.promise[q].state = "pending"
               /\ [promise |-> q, n |-> d.promise[q].funs] \in d.already
               /\ d.jobs[i].thenable \in Promise => d.promise[d.jobs[i].thenable].state # "none"
    <3>1. LET q == d.jobs[i].promise IN
          /\ e.promise[q].state = "pending"
          /\ [promise |-> q, n |-> e.promise[q].funs] \in e.already
          /\ d.jobs[i].thenable \in Promise => e.promise[d.jobs[i].thenable].state # "none"
        BY <1>2, <2>1, <2>2 DEF Asked
    <3> QED BY <1>6, <1>7, <2>1, <2>2, <3>1
  <2> QED BY <1>2, <2>1, <2>2 DEF Asked
<1>17. Pairs(d)
  <2>1. \A f \in d.already : Known(d, f)
      BY <1>1, <1>2, <1>6, <1>11, EngineTypes DEF Pairs
  <2> QED BY <1>2, <1>6, <1>7, <2>1 DEF Pairs
<1>18. Handled(d, r)
  <2>1. ASSUME NEW q \in Promise
        PROVE  LET c == d.promise[q] IN
               /\ c.handled <=> \E y \in Ran(r) \cup Waits(d) : y.of = q
               /\ q \in d.unhandled <=> c.state = "rejected" /\ ~c.handled
               /\ c.state = "none" => ~c.handled
    <3>1. CASE q = p
        BY <1>5, <1>6, <1>8, <1>21, <3>1
    <3>2. CASE q # p
        BY <1>2, <1>5, <1>6, <1>8, <3>2 DEF Handled
    <3> QED BY <3>1, <3>2
  <2> QED BY <2>1 DEF Handled
<1>19. Sole(d, F)
  <2>1. \A f \in F : Known(d, f)
      BY <1>1, <1>2, <1>11 DEF Sole
  <2>2. \A y \in Waits(d) : /\ y \in Reaction /\ y.cap \in Fun \cup {NoFun}
                            /\ Resolving(y) => y.on[TRUE].fun \in Fun
    <3>1. Waits(d) \subseteq Reaction
        BY <1>6, WaitsTypes
    <3> QED BY <3>1, ReactionTypes
  <2>3. ASSUME NEW y \in Waits(d)
        PROVE  WellFormed(y) /\ (y.cap # NoFun => Known(d, y.cap))
    <3>1. CASE y \in Waits(e)
        BY <1>2, <1>11, <2>2, <3>1 DEF Sole
    <3>2. CASE y = x
        BY <1>1, <1>2, <1>5, <1>11, <1>21, <3>2 DEF Sole
    <3> QED BY <1>8, <3>1, <3>2
  <2>4. ASSUME NEW y \in Waits(d), Resolving(y)
        PROVE  Known(d, y.on[TRUE].fun) /\ y.on[TRUE].fun \notin F \cup d.already
    <3>1. CASE y \in Waits(e)
        BY <1>2, <1>6, <1>11, <2>2, <2>4, <3>1 DEF Sole
    <3>2. CASE y = x
        BY <1>6, <1>11, <1>22, <2>2, <2>4, <3>2
    <3> QED BY <1>8, <3>1, <3>2
  <2>5. ASSUME NEW y \in Waits(d), Resolving(y), NEW z \in Waits(d)
        PROVE  /\ z.cap # y.on[TRUE].fun
               /\ Resolving(z) /\ z.on[TRUE].fun = y.on[TRUE].fun => z = y
    <3>1. CASE y \in Waits(e) /\ z \in Waits(e)
        BY <1>2, <2>5, <3>1 DEF Sole
    <3>2. CASE y = x /\ z \in Waits(e)
        BY <1>22, <2>5, <3>2
    <3>3. CASE y \in Waits(e) /\ z = x
      <4>1. y.on[TRUE].fun \notin F /\ y.on[TRUE].fun \in Fun
          BY <1>2, <2>2, <2>5, <3>3 DEF Sole
      <4>2. y.on[TRUE].fun # NoFun
          BY <4>1, PromisesAssumption DEF Fun
      <4>3. z.cap # y.on[TRUE].fun
          BY <1>5, <1>21, <3>3, <4>1, <4>2
      <4> QED BY <1>22, <2>5, <3>3, <4>3
    <3>4. CASE y = x /\ z = x
      <4>1. x.cap = NoFun /\ x.on[TRUE].fun # NoFun
          BY <1>21, <2>2, <2>5, <3>4, PromisesAssumption DEF WellFormed, Fun
      <4> QED BY <3>4, <4>1
    <3> QED BY <1>8, <2>5, <3>1, <3>2, <3>3, <3>4
  <2> QED BY <2>1, <2>3, <2>4, <2>5 DEF Sole
<1>20. FollowOK(d, fo)
  <2>1. ASSUME NEW q \in Promise, fo[q] # NoFun
        PROVE  \/ \E i \in DOMAIN d.jobs :
                     d.jobs[i] = [kind |-> "thenable", promise |-> q, thenable |-> fo[q]]
               \/ \E y \in Waits(d) : y.of = fo[q] /\ Resolving(y) /\ y.on[TRUE].fun.promise = q
               \/ /\ d.promise[q].state \in Settlements
                  /\ d.promise[q].state = d.promise[fo[q]].state
                  /\ d.promise[q].result = d.promise[fo[q]].result
    <3>1. fo[q] \in Promise
        BY <1>1, <2>1
    <3>2. CASE \E i \in DOMAIN e.jobs :
                   e.jobs[i] = [kind |-> "thenable", promise |-> q, thenable |-> fo[q]]
        BY <1>13, <3>2
    <3>3. CASE \E y \in Waits(e) : y.of = fo[q] /\ Resolving(y) /\ y.on[TRUE].fun.promise = q
        BY <1>8, <3>3
    <3>4. CASE /\ e.promise[q].state \in Settlements
               /\ e.promise[q].state = e.promise[fo[q]].state
               /\ e.promise[q].result = e.promise[fo[q]].result
        BY <1>7, <3>1, <3>4
    <3> QED BY <1>2, <2>1, <3>2, <3>3, <3>4 DEF FollowOK
  <2> QED BY <2>1 DEF FollowOK
<1>23. EngineInv(d, r, F, fo)
    BY <1>1, <1>6, <1>9, <1>10, <1>15, <1>16, <1>17, <1>18, <1>19, <1>20 DEF EngineInv
<1> QED BY <1>7, <1>8, <1>23 DEF ThenAdded

\* Where the elements of a sequence without its first are.
LEMMA TailFacts ==
    ASSUME NEW S, NEW s \in Seq(S), s # <<>>, NEW J, J = Tail(s)
    PROVE  /\ J \in Seq(S) /\ 1 \in DOMAIN s /\ Head(s) = s[1] /\ s[1] \in S
           /\ \A i \in DOMAIN J : i \in Nat \ {0} /\ i + 1 \in DOMAIN s /\ J[i] = s[i + 1]
           /\ \A i \in DOMAIN s : i = 1 \/ (i - 1 \in DOMAIN J /\ J[i - 1] = s[i])
<1>1. PICK n \in Nat : Len(s) = n + 1
  <2>1. Len(s) \in Nat /\ Len(s) # 0
      OBVIOUS
  <2>2. Len(s) - 1 \in Nat /\ Len(s) = (Len(s) - 1) + 1
      BY <2>1
  <2> QED BY <2>2
<1>2. J \in Seq(S) /\ Len(J) = n
    BY <1>1
<1>3. DOMAIN J = 1..n /\ DOMAIN s = 1..n + 1
    BY <1>1, <1>2
<1>4. \A i \in 1..n : J[i] = s[i + 1]
    BY <1>1
<1>5. Head(s) = s[1] /\ 1 \in 1..n + 1 /\ s[1] \in S
    BY <1>1
<1>6. \A i \in 1..n : i \in Nat \ {0} /\ i + 1 \in 1..n + 1
    OBVIOUS
<1>7. ASSUME NEW i \in 1..n + 1, i # 1 PROVE i - 1 \in 1..n /\ J[i - 1] = s[i]
  <2>1. i - 1 \in 1..n /\ (i - 1) + 1 = i
      BY <1>7
  <2> QED BY <1>4, <2>1
<1> QED BY <1>2, <1>3, <1>4, <1>5, <1>6, <1>7

\* The engine after the first job is taken.
Taken(e, d) ==
    /\ d \in Engine /\ d.promise = e.promise /\ d.already = e.already
    /\ d.unhandled = e.unhandled /\ d.thens = e.thens
    /\ 1 \in DOMAIN e.jobs /\ Head(e.jobs) = e.jobs[1] /\ e.jobs[1] \in Job
    /\ \A i \in DOMAIN d.jobs : i \in Nat \ {0} /\ i + 1 \in DOMAIN e.jobs /\ d.jobs[i] = e.jobs[i + 1]
    /\ \A i \in DOMAIN e.jobs : i = 1 \/ (i - 1 \in DOMAIN d.jobs /\ d.jobs[i - 1] = e.jobs[i])

\* A job is taken from the front of the queue.
LEMMA TakenEffect ==
    ASSUME NEW e \in Engine, e.jobs # <<>>, NEW d, d = [e EXCEPT !.jobs = Tail(@)]
    PROVE  Taken(e, d)
<1>1. PICK J : J = Tail(e.jobs)
    OBVIOUS
<1>2. e.jobs \in Seq(Job)
    BY EngineTypes
<1>3. /\ J \in Seq(Job) /\ 1 \in DOMAIN e.jobs /\ Head(e.jobs) = e.jobs[1] /\ e.jobs[1] \in Job
      /\ \A i \in DOMAIN J : i \in Nat \ {0} /\ i + 1 \in DOMAIN e.jobs /\ J[i] = e.jobs[i + 1]
      /\ \A i \in DOMAIN e.jobs : i = 1 \/ (i - 1 \in DOMAIN J /\ J[i - 1] = e.jobs[i])
    BY <1>1, <1>2, TailFacts
<1>4. d = [e EXCEPT !.jobs = J]
    BY <1>1
<1>5. /\ d \in Engine /\ d.promise = e.promise /\ d.already = e.already
      /\ d.unhandled = e.unhandled /\ d.thens = e.thens /\ d.jobs = J
    BY <1>3, <1>4 DEF Engine
<1> QED BY <1>3, <1>5 DEF Taken

\* The reaction of the job taken leaves the queue, and no other does.
LEMMA TakenQueue ==
    ASSUME NEW e, NEW d, Taken(e, d)
    PROVE  /\ Listed(d) = Listed(e)
           /\ \A x : x \in Queued(e) <=> x \in Queued(d) \/ (Reacts(e.jobs[1]) /\ x = e.jobs[1].reaction)
           /\ \A x \in Queued(d) : \E i \in DOMAIN e.jobs :
                 1 < i /\ Reacts(e.jobs[i]) /\ x = e.jobs[i].reaction
<1>1. Listed(d) = Listed(e)
    BY DEF Listed, Taken
<1>2. ASSUME NEW x \in Queued(d)
      PROVE  \E i \in DOMAIN e.jobs : 1 < i /\ Reacts(e.jobs[i]) /\ x = e.jobs[i].reaction
  <2>1. PICK i \in DOMAIN d.jobs : Reacts(d.jobs[i]) /\ x = d.jobs[i].reaction
      BY QueuedIs
  <2>2. i \in Nat \ {0} /\ i + 1 \in DOMAIN e.jobs /\ d.jobs[i] = e.jobs[i + 1]
      BY DEF Taken
  <2>3. 1 < i + 1
      BY <2>2
  <2> QED BY <2>1, <2>2, <2>3
<1>3. ASSUME NEW x, x \in Queued(e)
      PROVE  x \in Queued(d) \/ (Reacts(e.jobs[1]) /\ x = e.jobs[1].reaction)
  <2>1. PICK i \in DOMAIN e.jobs : Reacts(e.jobs[i]) /\ x = e.jobs[i].reaction
      BY <1>3, QueuedIs
  <2> QED BY <2>1, QueuedIs DEF Taken
<1>4. ASSUME Reacts(e.jobs[1]) PROVE e.jobs[1].reaction \in Queued(e)
    BY <1>4, QueuedIs DEF Taken
<1>5. \A x \in Queued(d) : x \in Queued(e)
    BY <1>2, QueuedIs
<1> QED BY <1>1, <1>2, <1>3, <1>4, <1>5

\* The jobs that stay in the queue keep their order and their promises.
LEMMA TakenRest ==
    ASSUME NEW e, NEW r, NEW F, NEW fo, EngineInv(e, r, F, fo), NEW d, Taken(e, d)
    PROVE  /\ \A i, j \in DOMAIN d.jobs :
                 i < j /\ Reacts(d.jobs[i]) /\ Reacts(d.jobs[j])
                     => Lt(d.jobs[i].reaction, d.jobs[j].reaction)
           /\ Truthful(d) /\ Asked(d)
           /\ \A f : Known(d, f) <=> Known(e, f)
           /\ Pairs(d)
<1>1. /\ Ordered(e, r) /\ Truthful(e) /\ Asked(e) /\ Pairs(e)
    BY DEF EngineInv
<1>2. \A i \in DOMAIN d.jobs : i \in Nat \ {0} /\ i + 1 \in DOMAIN e.jobs /\ d.jobs[i] = e.jobs[i + 1]
    BY DEF Taken
<1>3. d.promise = e.promise /\ d.already = e.already
    BY DEF Taken
<1>4. ASSUME NEW i \in DOMAIN d.jobs, NEW j \in DOMAIN d.jobs, i < j,
             Reacts(d.jobs[i]), Reacts(d.jobs[j])
      PROVE  Lt(d.jobs[i].reaction, d.jobs[j].reaction)
  <2>1. i + 1 < j + 1
      BY <1>2, <1>4
  <2> QED BY <1>1, <1>2, <1>4, <2>1 DEF Ordered
<1>5. Truthful(d)
    BY <1>1, <1>2, <1>3 DEF Truthful
<1>6. Asked(d)
  <2>1. ASSUME NEW i \in DOMAIN d.jobs, NEW j \in DOMAIN d.jobs, i # j,
               ~Reacts(d.jobs[i]), ~Reacts(d.jobs[j])
        PROVE  d.jobs[i].promise # d.jobs[j].promise
    <3>1. i + 1 # j + 1
        BY <1>2, <2>1
    <3> QED BY <1>1, <1>2, <2>1, <3>1 DEF Asked
  <2> QED BY <1>1, <1>2, <1>3, <2>1 DEF Asked
<1>7. \A f : Known(d, f) <=> Known(e, f)
    BY <1>3 DEF Known
<1>8. Pairs(d)
    BY <1>1, <1>3, <1>7 DEF Pairs
<1> QED BY <1>4, <1>5, <1>6, <1>7, <1>8

\* Functions that nobody can call any more need not be counted.
LEMMA Fewer ==
    ASSUME NEW e, NEW r, NEW F, NEW fo, EngineInv(e, r, F, fo), NEW G \in SUBSET F
    PROVE  EngineInv(e, r, G, fo)
<1>1. Sole(e, F) /\ F \subseteq Fun
    BY DEF EngineInv
<1>2. Sole(e, G)
    BY <1>1 DEF Sole
<1> QED BY <1>1, <1>2 DEF EngineInv


\* The reactions that wait and that ran after x is run.
ReactionGone(e, r, x, d, s) ==
    /\ x \in Reaction /\ x \in Waits(e) /\ Waits(d) = Waits(e) \ {x}
    /\ s \in Seq(Reaction) /\ Ran(s) = Ran(r) \cup {x}
    /\ Ordered(d, s)

\* The reaction of the first job runs: where reactions wait and ran.
LEMMA TakenReaction ==
    ASSUME NEW e, NEW r, NEW F, NEW fo, EngineInv(e, r, F, fo), NEW d, Taken(e, d),
           Reacts(e.jobs[1]), NEW x, x = e.jobs[1].reaction, NEW s, s = Append(r, x)
    PROVE  ReactionGone(e, r, x, d, s)
<1>1. /\ e \in Engine /\ r \in Seq(Reaction) /\ Ordered(e, r)
    BY DEF EngineInv
<1>2. 1 \in DOMAIN e.jobs /\ e.jobs[1] \in Job /\ d.promise = e.promise
    BY DEF Taken
<1>3. x \in Reaction
    BY <1>2, JobTypes
<1>4. /\ Listed(d) = Listed(e)
      /\ \A y : y \in Queued(e) <=> y \in Queued(d) \/ y = x
      /\ \A y \in Queued(d) : \E i \in DOMAIN e.jobs :
            1 < i /\ Reacts(e.jobs[i]) /\ y = e.jobs[i].reaction
    BY TakenQueue
<1>5. \A y \in Queued(d) : Lt(x, y)
    BY <1>1, <1>2, <1>4 DEF Ordered
<1>6. \A y \in Listed(d) : Lt(x, y)
    BY <1>1, <1>4 DEF Ordered
<1>7. x \notin Queued(d) /\ x \notin Listed(d)
    BY <1>5, <1>6 DEF Lt
<1>8. x \in Waits(e) /\ Waits(d) = Waits(e) \ {x}
    BY <1>4, <1>7 DEF Waits
<1>9. /\ s \in Seq(Reaction) /\ Len(r) + 1 \in DOMAIN s /\ s[Len(r) + 1] = x
      /\ \A i \in DOMAIN r : i \in DOMAIN s /\ s[i] = r[i] /\ i < Len(r) + 1
      /\ \A i \in DOMAIN s : i \in DOMAIN r \/ i = Len(r) + 1
      /\ Len(r) + 1 \notin DOMAIN r /\ Len(r) \in Nat
    BY <1>1, <1>3, AppendFacts
<1>10. Ran(s) = Ran(r) \cup {x}
    BY <1>9 DEF Ran
<1>11. ASSUME NEW i \in DOMAIN s, NEW j \in DOMAIN s, i < j
       PROVE  Lt(s[i], s[j])
  <2>1. i \in DOMAIN r /\ s[i] = r[i]
    <3>1. CASE i = Len(r) + 1
      <4>1. j \in Nat
          BY <1>9
      <4> QED BY <1>9, <1>11, <3>1, <4>1
    <3> QED BY <1>9, <3>1
  <2>2. CASE j \in DOMAIN r
      BY <1>1, <1>9, <1>11, <2>1, <2>2 DEF Ordered
  <2>3. CASE j = Len(r) + 1
    <3>1. s[i] \in Ran(r)
        BY <2>1 DEF Ran
    <3> QED BY <1>1, <1>8, <1>9, <2>3, <3>1 DEF Ordered
  <2> QED BY <1>9, <2>2, <2>3
<1>12. \A y \in Ran(s), z \in Waits(d) : Lt(y, z)
    BY <1>1, <1>5, <1>6, <1>8, <1>10 DEF Ordered, Waits
<1>13. \A y \in Queued(d), z \in Listed(d) : Lt(y, z)
    BY <1>1, <1>4 DEF Ordered
<1>14. \A i, j \in DOMAIN d.jobs : i < j /\ Reacts(d.jobs[i]) /\ Reacts(d.jobs[j])
           => Lt(d.jobs[i].reaction, d.jobs[j].reaction)
    BY TakenRest
<1>15. Ordered(d, s)
    BY <1>1, <1>2, <1>11, <1>12, <1>13, <1>14 DEF Ordered
<1> QED BY <1>3, <1>8, <1>9, <1>10, <1>15 DEF ReactionGone

\* The first job is to run the reaction x.
Fires(e, x) == e.jobs # <<>> /\ Reacts(Head(e.jobs)) /\ x = Head(e.jobs).reaction

\* What is known of the reaction x when the first job is taken.
ReactionTaken(e, x, d) ==
    LET job == Head(e.jobs) IN
    /\ x \in Reaction /\ x \in Waits(e) /\ Waits(d) = Waits(e) \ {x}
    /\ d.promise = e.promise /\ d.already = e.already
    /\ WellFormed(x) /\ (Resolving(x) => x.on[TRUE].fun \notin e.already)
    /\ job.rej \in BOOLEAN /\ job.value \in Plain
    /\ e.promise[x.of].state = IF job.rej THEN "rejected" ELSE "fulfilled"
    /\ e.promise[x.of].result = job.value

\* The functions that a reaction alone knew, and what promises follow until
\* it has called them.
Freed(x) == IF Resolving(x) THEN {x.on[TRUE].fun} ELSE {x.cap} \ {NoFun}

\* The promise that x resolves follows nothing any more.
Unfollowed(x, fo) ==
    IF Resolving(x) THEN [fo EXCEPT ![x.on[TRUE].fun.promise] = NoFun] ELSE fo

\* The functions that the reaction was the only one to know are at large.
LEMMA TakeReactionKeeps ==
    ASSUME NEW e, NEW r, NEW F, NEW fo, EngineInv(e, r, F, fo),
           NEW d, Taken(e, d), NEW x, Fires(e, x)
    PROVE  /\ EngineInv(d, Append(r, x), F \cup Freed(x), Unfollowed(x, fo))
           /\ ReactionTaken(e, x, d)
<1>21. PICK s : s = Append(r, x)
    OBVIOUS
<1>22. PICK G : G = Freed(x)
    OBVIOUS
<1>23. PICK fp : fp = Unfollowed(x, fo)
    OBVIOUS
<1>1. /\ e \in Engine /\ r \in Seq(Reaction) /\ F \subseteq Fun
      /\ fo \in [Promise -> Promise \cup {NoFun}]
    BY DEF EngineInv
<1>2. /\ Numbered(e, r) /\ Truthful(e)
      /\ Handled(e, r) /\ Sole(e, F) /\ FollowOK(e, fo)
    BY DEF EngineInv
<1>3. Taken(e, d)
    OBVIOUS
<1>4. /\ d \in Engine /\ d.promise = e.promise /\ d.already = e.already
      /\ d.unhandled = e.unhandled /\ d.thens = e.thens
      /\ 1 \in DOMAIN e.jobs /\ Head(e.jobs) = e.jobs[1] /\ e.jobs[1] \in Job
    BY <1>3 DEF Taken
<1>5. Reacts(e.jobs[1]) /\ x = e.jobs[1].reaction
    BY <1>4 DEF Fires
<1>20. ReactionGone(e, r, x, d, s)
    BY <1>3, <1>5, <1>21, TakenReaction
<1>6. /\ x \in Reaction /\ x \in Waits(e) /\ Waits(d) = Waits(e) \ {x}
      /\ s \in Seq(Reaction) /\ Ran(s) = Ran(r) \cup {x}
      /\ Ordered(d, s)
    BY <1>20 DEF ReactionGone
<1>7. /\ Truthful(d) /\ Asked(d) /\ \A f : Known(d, f) <=> Known(e, f)
    BY <1>3, TakenRest
<1>8. Pairs(d)
    BY <1>3, TakenRest
<1>9. Ran(s) \cup Waits(d) = Ran(r) \cup Waits(e)
    BY <1>6
<1>10. Numbered(d, s) /\ Handled(d, s)
    BY <1>2, <1>4, <1>9 DEF Numbered, Handled
<1>11. /\ x.cap \in Fun \cup {NoFun} /\ (Resolving(x) => x.on[TRUE].fun \in Fun)
       /\ x.of \in Promise
    BY <1>6, ReactionTypes
<1>12. /\ WellFormed(x) /\ (x.cap # NoFun => Known(e, x.cap))
       /\ Resolving(x) => /\ Known(e, x.on[TRUE].fun)
                          /\ x.on[TRUE].fun \notin F \cup e.already
                          /\ \A y \in Waits(e) :
                                /\ y.cap # x.on[TRUE].fun
                                /\ Resolving(y) /\ y.on[TRUE].fun = x.on[TRUE].fun => y = x
    BY <1>2, <1>6 DEF Sole
<1>13. G \subseteq Fun /\ \A f \in G : Known(e, f)
    BY <1>11, <1>12, <1>22 DEF Freed
<1>14. Sole(d, F \cup G)
  <2>1. \A f \in F \cup G : Known(d, f)
      BY <1>2, <1>7, <1>13 DEF Sole
  <2>2. ASSUME NEW y \in Waits(d)
        PROVE  /\ WellFormed(y)
               /\ y.cap # NoFun => Known(d, y.cap)
               /\ Resolving(y) =>
                     /\ Known(d, y.on[TRUE].fun)
                     /\ y.on[TRUE].fun \notin F \cup d.already
                     /\ \A z \in Waits(d) :
                           /\ z.cap # y.on[TRUE].fun
                           /\ Resolving(z) /\ z.on[TRUE].fun = y.on[TRUE].fun => z = y
      BY <1>2, <1>4, <1>6, <1>7 DEF Sole
  <2>3. ASSUME NEW y \in Waits(d), Resolving(y)
        PROVE  y.on[TRUE].fun \notin G
    <3>1. y \in Waits(e) /\ y # x
        BY <1>6
    <3>2. CASE Resolving(x)
        BY <1>12, <1>22, <2>3, <3>1, <3>2 DEF Freed
    <3>3. CASE ~Resolving(x)
      <4>1. x.cap # y.on[TRUE].fun
          BY <1>2, <1>6, <2>3, <3>1 DEF Sole
      <4> QED BY <1>22, <3>3, <4>1 DEF Freed
    <3> QED BY <3>2, <3>3
  <2>4. ASSUME NEW y \in Waits(d)
        PROVE  /\ WellFormed(y)
               /\ y.cap # NoFun => Known(d, y.cap)
               /\ Resolving(y) =>
                     /\ Known(d, y.on[TRUE].fun)
                     /\ y.on[TRUE].fun \notin (F \cup G) \cup d.already
                     /\ \A z \in Waits(d) :
                           /\ z.cap # y.on[TRUE].fun
                           /\ Resolving(z) /\ z.on[TRUE].fun = y.on[TRUE].fun => z = y
      BY <2>2, <2>3
  <2> QED BY <2>1, <2>4 DEF Sole
<1>15. fp \in [Promise -> Promise \cup {NoFun}]
    BY <1>1, <1>23 DEF Unfollowed
<1>16. FollowOK(d, fp)
  <2>1. ASSUME NEW q \in Promise, fp[q] # NoFun
        PROVE  fp[q] = fo[q] /\ ~(Resolving(x) /\ x.on[TRUE].fun.promise = q)
    <3>1. CASE Resolving(x)
      <4>1. fp = [fo EXCEPT ![x.on[TRUE].fun.promise] = NoFun]
          BY <1>23, <3>1 DEF Unfollowed
      <4> QED BY <1>1, <2>1, <4>1
    <3>2. CASE ~Resolving(x)
        BY <1>23, <3>2 DEF Unfollowed
    <3> QED BY <3>1, <3>2
  <2>2. ASSUME NEW q \in Promise, fp[q] # NoFun
        PROVE  \/ \E i \in DOMAIN d.jobs :
                     d.jobs[i] = [kind |-> "thenable", promise |-> q, thenable |-> fp[q]]
               \/ \E y \in Waits(d) : y.of = fp[q] /\ Resolving(y) /\ y.on[TRUE].fun.promise = q
               \/ /\ d.promise[q].state \in Settlements
                  /\ d.promise[q].state = d.promise[fp[q]].state
                  /\ d.promise[q].result = d.promise[fp[q]].result
    <3>1. fp[q] = fo[q] /\ ~(Resolving(x) /\ x.on[TRUE].fun.promise = q)
        BY <2>1, <2>2
    <3>2. CASE \E i \in DOMAIN e.jobs :
                   e.jobs[i] = [kind |-> "thenable", promise |-> q, thenable |-> fo[q]]
      <4>1. PICK i \in DOMAIN e.jobs :
                e.jobs[i] = [kind |-> "thenable", promise |-> q, thenable |-> fo[q]]
          BY <3>2
      <4>2. i # 1
          BY <1>5, <4>1 DEF Reacts
      <4>3. i - 1 \in DOMAIN d.jobs /\ d.jobs[i - 1] = e.jobs[i]
          BY <1>3, <4>2 DEF Taken
      <4> QED BY <3>1, <4>1, <4>3
    <3>3. CASE \E y \in Waits(e) : y.of = fo[q] /\ Resolving(y) /\ y.on[TRUE].fun.promise = q
        BY <1>6, <3>1, <3>3
    <3>4. CASE /\ e.promise[q].state \in Settlements
               /\ e.promise[q].state = e.promise[fo[q]].state
               /\ e.promise[q].result = e.promise[fo[q]].result
        BY <1>4, <3>1, <3>4
    <3> QED BY <1>2, <2>2, <3>1, <3>2, <3>3, <3>4 DEF FollowOK
  <2> QED BY <2>2 DEF FollowOK
<1>17. /\ Head(e.jobs).rej \in BOOLEAN
       /\ e.promise[x.of].state = IF Head(e.jobs).rej THEN "rejected" ELSE "fulfilled"
       /\ e.promise[x.of].result = Head(e.jobs).value
    BY <1>2, <1>4, <1>5, JobTypes DEF Truthful
<1>18. Head(e.jobs).value \in Plain
    BY <1>2, <1>11, <1>17 DEF Truthful
<1>19. EngineInv(d, s, F \cup G, fp)
    BY <1>1, <1>4, <1>6, <1>7, <1>8, <1>10, <1>13, <1>14, <1>15, <1>16 DEF EngineInv
<1>24. ReactionTaken(e, x, d)
    BY <1>4, <1>6, <1>12, <1>17, <1>18 DEF ReactionTaken
<1> QED BY <1>19, <1>21, <1>22, <1>23, <1>24


\* The engine after the next pair is made for p.
NewPair(b, p, d) ==
    /\ d \in Engine /\ d.jobs = b.jobs /\ d.already = b.already
    /\ d.unhandled = b.unhandled /\ d.thens = b.thens
    /\ d.promise[p].funs = b.promise[p].funs + 1
    /\ d.promise[p].handled <=> b.promise[p].handled
    /\ \A q \in Promise : /\ q # p => d.promise[q] = b.promise[q]
                          /\ d.promise[q].state = b.promise[q].state
                          /\ d.promise[q].result = b.promise[q].result
                          /\ d.promise[q].reactions = b.promise[q].reactions

\* js_create_resolving_functions makes a pair that did not exist.
LEMMA NewPairEffect ==
    ASSUME NEW b \in Engine, NEW p \in Promise, NEW d, d = [b EXCEPT !.promise[p].funs = @ + 1]
    PROVE  NewPair(b, p, d)
<1>1. PICK c : c = b.promise[p]
    OBVIOUS
<1>2. c \in PromiseData
    BY <1>1, EngineTypes
<1>3. PICK n : n = [c EXCEPT !.funs = @ + 1]
    OBVIOUS
<1>4. /\ n \in PromiseData /\ n.state = c.state /\ n.result = c.result
      /\ n.reactions = c.reactions /\ n.handled = c.handled /\ n.funs = c.funs + 1
    BY <1>2, <1>3 DEF PromiseData
<1>5. PICK P : P = [b.promise EXCEPT ![p] = n]
    OBVIOUS
<1>6. /\ P \in [Promise -> PromiseData] /\ P[p] = n
      /\ \A q \in Promise : q # p => P[q] = b.promise[q]
    BY <1>4, <1>5, EngineTypes
<1>7. d = [b EXCEPT !.promise = P]
    BY <1>1, <1>3, <1>5, EngineTypes
<1>8. /\ d \in Engine /\ d.promise = P /\ d.jobs = b.jobs /\ d.already = b.already
      /\ d.unhandled = b.unhandled /\ d.thens = b.thens
    BY <1>6, <1>7 DEF Engine
<1>9. /\ d.promise[p].funs = b.promise[p].funs + 1
      /\ d.promise[p].handled = b.promise[p].handled
    BY <1>1, <1>4, <1>6, <1>8
<1>10. ASSUME NEW q \in Promise
       PROVE  /\ q # p => d.promise[q] = b.promise[q]
              /\ d.promise[q].state = b.promise[q].state
              /\ d.promise[q].result = b.promise[q].result
              /\ d.promise[q].reactions = b.promise[q].reactions
    BY <1>1, <1>4, <1>6, <1>8
<1> QED BY <1>8, <1>9, <1>10 DEF NewPair

\* The first job is to ask t for the promise p.
Asks(e, p, t) ==
    e.jobs # <<>> /\ ~Reacts(Head(e.jobs)) /\ p = Head(e.jobs).promise /\ t = Head(e.jobs).thenable

\* What is known of the new pair f when the first job is taken.
PairFacts(e, F, fo, p, t, d, f) ==
    /\ p \in Promise /\ f \in Fun /\ f.promise = p
    /\ f \notin d.already /\ Known(d, f) /\ f \notin F
    /\ Waits(d) = Waits(e)
    /\ \A y \in Waits(d) : y.cap # f /\ (Resolving(y) => y.on[TRUE].fun # f)
    /\ \A q \in Promise : d.promise[q].state = e.promise[q].state
    /\ t \in Object
    /\ t \in Promise => e.promise[t].state # "none"
    /\ fo[p] # NoFun => t = fo[p]

\* A thenable job makes the next pair of its promise, which nobody knows yet.
LEMMA TakeThenable ==
    ASSUME NEW e, NEW r, NEW F, NEW fo, EngineInv(e, r, F, fo),
           NEW b, Taken(e, b), NEW p, NEW t, Asks(e, p, t), NEW d, NewPair(b, p, d),
           NEW f, f = [promise |-> p, n |-> e.promise[p].funs + 1]
    PROVE  /\ EngineInv(d, r, F \cup {f}, [fo EXCEPT ![p] = NoFun])
           /\ PairFacts(e, F, fo, p, t, d, f)
<1>32. PICK fp : fp = [fo EXCEPT ![p] = NoFun]
    OBVIOUS
<1>1. /\ e \in Engine /\ r \in Seq(Reaction) /\ F \subseteq Fun
      /\ fo \in [Promise -> Promise \cup {NoFun}]
    BY DEF EngineInv
<1>2. /\ Ordered(e, r) /\ Numbered(e, r) /\ Truthful(e) /\ Asked(e) /\ Pairs(e)
      /\ Handled(e, r) /\ Sole(e, F) /\ FollowOK(e, fo)
    BY DEF EngineInv
<1>4. /\ b \in Engine /\ b.promise = e.promise /\ b.already = e.already
      /\ b.unhandled = e.unhandled /\ b.thens = e.thens
      /\ 1 \in DOMAIN e.jobs /\ Head(e.jobs) = e.jobs[1] /\ e.jobs[1] \in Job
      /\ \A i \in DOMAIN b.jobs : i \in Nat \ {0} /\ i + 1 \in DOMAIN e.jobs /\ b.jobs[i] = e.jobs[i + 1]
      /\ \A i \in DOMAIN e.jobs : i = 1 \/ (i - 1 \in DOMAIN b.jobs /\ b.jobs[i - 1] = e.jobs[i])
    BY DEF Taken
<1>5. ~Reacts(e.jobs[1]) /\ p = e.jobs[1].promise /\ t = e.jobs[1].thenable
    BY <1>4 DEF Asks
<1>6. p \in Promise /\ e.jobs[1].thenable \in Object
    BY <1>4, <1>5, JobTypes
<1>7. /\ e.promise[p].state = "pending"
      /\ [promise |-> p, n |-> e.promise[p].funs] \in e.already
      /\ e.jobs[1].thenable \in Promise => e.promise[e.jobs[1].thenable].state # "none"
    BY <1>2, <1>4, <1>5 DEF Asked
<1>8. /\ d \in Engine /\ d.jobs = b.jobs /\ d.already = e.already
      /\ d.unhandled = e.unhandled /\ d.thens = e.thens
      /\ d.promise[p].funs = e.promise[p].funs + 1
      /\ \A q \in Promise : /\ q # p => d.promise[q] = e.promise[q]
                            /\ d.promise[q].state = e.promise[q].state
                            /\ d.promise[q].result = e.promise[q].result
                            /\ d.promise[q].reactions = e.promise[q].reactions
    BY <1>4 DEF NewPair
<1>3. ASSUME NEW q \in Promise PROVE d.promise[q].handled <=> e.promise[q].handled
    BY <1>4 DEF NewPair
<1>9. f \in Fun /\ f.promise = p /\ f.n = e.promise[p].funs + 1 /\ e.promise[p].funs \in Nat
  <2>1. e.promise[p] \in PromiseData
      BY <1>1, <1>6, EngineTypes
  <2>2. e.promise[p].funs \in Nat
      BY <2>1, DataTypes
  <2> QED BY <1>6, <2>2 DEF Fun
<1>10. ASSUME NEW g \in Fun, Known(e, g)
       PROVE  g # f /\ Known(d, g)
  <2>1. g # f
      BY <1>9, <1>10, FunTypes DEF Known
  <2>2. g.promise \in Promise /\ g.n \in Nat
      BY FunTypes
  <2>3. CASE g.promise = p
      BY <1>8, <1>9, <1>10, <2>2, <2>3 DEF Known
  <2>4. CASE g.promise # p
      BY <1>8, <1>10, <2>2, <2>4 DEF Known
  <2> QED BY <2>1, <2>3, <2>4
<1>11. Known(d, f)
    BY <1>8, <1>9 DEF Known
<1>12. f \notin d.already /\ f \notin F
    BY <1>1, <1>2, <1>8, <1>10, EngineTypes DEF Pairs, Sole
<1>13. /\ Listed(b) = Listed(e)
       /\ \A x : x \in Queued(e) <=> x \in Queued(b)
    BY <1>5, TakenQueue
<1>14. Queued(b) = Queued(e) /\ Waits(b) = Waits(e)
    BY <1>13 DEF Waits
<1>15. Ordered(b, r) /\ Numbered(b, r)
  <2>1. \A i, j \in DOMAIN b.jobs : i < j /\ Reacts(b.jobs[i]) /\ Reacts(b.jobs[j])
            => Lt(b.jobs[i].reaction, b.jobs[j].reaction)
      BY TakenRest
  <2>2. Ordered(b, r)
      BY <1>2, <1>4, <1>13, <1>14, <2>1 DEF Ordered
  <2> QED BY <1>2, <1>4, <1>14, <2>2 DEF Numbered
<1>16. /\ Waits(d) = Waits(e) /\ Ordered(d, r) /\ Numbered(d, r)
  <2>1. \A q \in Promise : d.promise[q].reactions = b.promise[q].reactions
      BY <1>4, <1>8
  <2>2. d.jobs = b.jobs /\ d.thens = b.thens
      BY <1>4, <1>8
  <2>3. /\ Waits(d) = Waits(b)
        /\ Ordered(b, r) => Ordered(d, r)
        /\ Numbered(b, r) => Numbered(d, r)
      BY <2>1, <2>2, SameReactions
  <2> QED BY <1>14, <1>15, <2>3
<1>17. Truthful(b) /\ Asked(b)
    BY TakenRest
<1>18. \A i \in DOMAIN b.jobs : b.jobs[i] \in Job
    BY <1>4, EngineTypes
<1>19. Truthful(d)
  <2>1. ASSUME NEW i \in DOMAIN d.jobs, Reacts(d.jobs[i])
        PROVE  LET c == d.promise[d.jobs[i].reaction.of] IN
               /\ c.state = IF d.jobs[i].rej THEN "rejected" ELSE "fulfilled"
               /\ c.result = d.jobs[i].value
    <3>1. d.jobs[i].reaction.of \in Promise /\ i \in DOMAIN b.jobs /\ d.jobs[i] = b.jobs[i]
        BY <1>8, <1>18, <2>1, JobTypes, ReactionTypes
    <3> QED BY <1>4, <1>8, <1>17, <2>1, <3>1 DEF Truthful
  <2>2. ASSUME NEW q \in Promise
        PROVE  /\ d.promise[q].result \in Plain
               /\ d.promise[q].reactions # <<>> => d.promise[q].state = "pending"
               /\ \A i \in DOMAIN d.promise[q].reactions : d.promise[q].reactions[i].of = q
      BY <1>2, <1>8 DEF Truthful
  <2> QED BY <2>1, <2>2 DEF Truthful
<1>20. \A i \in DOMAIN b.jobs : ~Reacts(b.jobs[i]) => b.jobs[i].promise \in Promise \ {p}
  <2>1. ASSUME NEW i \in DOMAIN b.jobs, ~Reacts(b.jobs[i])
        PROVE  b.jobs[i].promise \in Promise \ {p}
    <3>1. i + 1 \in DOMAIN e.jobs /\ b.jobs[i] = e.jobs[i + 1] /\ i + 1 # 1
        BY <1>4
    <3> QED BY <1>2, <1>4, <1>5, <1>18, <2>1, <3>1, JobTypes DEF Asked
  <2> QED BY <2>1
<1>21. Asked(d)
  <2>1. ASSUME NEW i \in DOMAIN d.jobs, ~Reacts(d.jobs[i])
        PROVE  LET q == d.jobs[i].promise IN
               /\ d.promise[q].state = "pending"
               /\ [promise |-> q, n |-> d.promise[q].funs] \in d.already
               /\ d.jobs[i].thenable \in Promise => d.promise[d.jobs[i].thenable].state # "none"
    <3>1. i \in DOMAIN b.jobs /\ d.jobs[i] = b.jobs[i] /\ d.jobs[i].promise \in Promise \ {p}
        BY <1>8, <1>20, <2>1
    <3>2. LET q == d.jobs[i].promise IN
          /\ b.promise[q].state = "pending"
          /\ [promise |-> q, n |-> b.promise[q].funs] \in b.already
          /\ d.jobs[i].thenable \in Promise => b.promise[d.jobs[i].thenable].state # "none"
        BY <1>17, <2>1, <3>1 DEF Asked
    <3>3. d.promise[d.jobs[i].promise] = b.promise[d.jobs[i].promise]
        BY <1>4, <1>8, <3>1
    <3> QED BY <1>4, <1>8, <3>2, <3>3
  <2>2. \A i, j \in DOMAIN d.jobs :
           i # j /\ ~Reacts(d.jobs[i]) /\ ~Reacts(d.jobs[j]) => d.jobs[i].promise # d.jobs[j].promise
    <3>1. d.jobs = b.jobs
        BY <1>8
    <3> QED BY <1>17, <3>1 DEF Asked
  <2> QED BY <2>1, <2>2 DEF Asked
<1>22. Pairs(d)
  <2>1. \A g \in d.already : Known(d, g)
      BY <1>1, <1>2, <1>8, <1>10, EngineTypes DEF Pairs
  <2>2. ASSUME NEW q \in Promise
        PROVE  LET c == d.promise[q] IN
               /\ \A n \in 1..c.funs-1 : [promise |-> q, n |-> n] \in d.already
               /\ c.state = "none" <=> c.funs = 0
               /\ c.state \in Settlements => [promise |-> q, n |-> c.funs] \in d.already
    <3>1. CASE q = p
      <4>1. ASSUME NEW n \in 1..e.promise[p].funs PROVE [promise |-> p, n |-> n] \in e.already
        <5>1. n = e.promise[p].funs \/ n \in 1..e.promise[p].funs-1
            BY <1>9
        <5> QED BY <1>2, <1>6, <1>7, <5>1 DEF Pairs
      <4>2. d.promise[p].funs - 1 = e.promise[p].funs /\ d.promise[p].funs # 0
          BY <1>8, <1>9
      <4>3. d.promise[p].state = "pending"
          BY <1>6, <1>7, <1>8
      <4> QED BY <1>8, <3>1, <4>1, <4>2, <4>3 DEF Settlements
    <3>2. CASE q # p
        BY <1>2, <1>8, <3>2 DEF Pairs
    <3> QED BY <3>1, <3>2
  <2> QED BY <2>1, <2>2 DEF Pairs
<1>23. Handled(d, r)
    BY <1>2, <1>3, <1>8, <1>16 DEF Handled
<1>24. \A y \in Waits(e) : y.cap \in Fun \cup {NoFun} /\ (Resolving(y) => y.on[TRUE].fun \in Fun)
  <2>1. Waits(e) \subseteq Reaction
      BY <1>1, WaitsTypes
  <2> QED BY <2>1, ReactionTypes
<1>25. f # NoFun
    BY <1>9, PromisesAssumption DEF Fun
<1>26. \A y \in Waits(e) : y.cap # f /\ (Resolving(y) => y.on[TRUE].fun # f)
  <2>1. ASSUME NEW y \in Waits(e) PROVE y.cap # f
      BY <1>2, <1>10, <1>24, <1>25, <2>1 DEF Sole
  <2>2. ASSUME NEW y \in Waits(e), Resolving(y) PROVE y.on[TRUE].fun # f
    <3>1. y.on[TRUE].fun \in Fun /\ Known(e, y.on[TRUE].fun)
        BY <1>2, <1>24, <2>2 DEF Sole
    <3> QED BY <1>10, <3>1
  <2> QED BY <2>1, <2>2
<1>27. Sole(d, F \cup {f})
  <2>1. \A g \in F \cup {f} : Known(d, g)
      BY <1>1, <1>2, <1>10, <1>11 DEF Sole
  <2>2. ASSUME NEW y \in Waits(d)
        PROVE  /\ WellFormed(y)
               /\ y.cap # NoFun => Known(d, y.cap)
               /\ Resolving(y) =>
                     /\ Known(d, y.on[TRUE].fun)
                     /\ y.on[TRUE].fun \notin (F \cup {f}) \cup d.already
                     /\ \A z \in Waits(d) :
                           /\ z.cap # y.on[TRUE].fun
                           /\ Resolving(z) /\ z.on[TRUE].fun = y.on[TRUE].fun => z = y
      BY <1>2, <1>8, <1>10, <1>16, <1>24, <1>26 DEF Sole
  <2> QED BY <2>1, <2>2 DEF Sole
<1>28. fp \in [Promise -> Promise \cup {NoFun}]
    BY <1>1, <1>32
<1>29. FollowOK(d, fp)
  <2>1. ASSUME NEW q \in Promise, fp[q] # NoFun
        PROVE  \/ \E i \in DOMAIN d.jobs :
                     d.jobs[i] = [kind |-> "thenable", promise |-> q, thenable |-> fp[q]]
               \/ \E y \in Waits(d) : y.of = fp[q] /\ Resolving(y) /\ y.on[TRUE].fun.promise = q
               \/ /\ d.promise[q].state \in Settlements
                  /\ d.promise[q].state = d.promise[fp[q]].state
                  /\ d.promise[q].result = d.promise[fp[q]].result
    <3>1. q # p /\ fp[q] = fo[q] /\ fo[q] \in Promise
        BY <1>1, <1>6, <1>32, <2>1
    <3>2. CASE \E i \in DOMAIN e.jobs :
                   e.jobs[i] = [kind |-> "thenable", promise |-> q, thenable |-> fo[q]]
      <4>1. PICK i \in DOMAIN e.jobs :
                e.jobs[i] = [kind |-> "thenable", promise |-> q, thenable |-> fo[q]]
          BY <3>2
      <4>2. i # 1
          BY <1>5, <3>1, <4>1
      <4>3. i - 1 \in DOMAIN d.jobs /\ d.jobs[i - 1] = e.jobs[i]
          BY <1>4, <1>8, <4>2
      <4> QED BY <3>1, <4>1, <4>3
    <3>3. CASE \E y \in Waits(e) : y.of = fo[q] /\ Resolving(y) /\ y.on[TRUE].fun.promise = q
        BY <1>16, <3>1, <3>3
    <3>4. CASE /\ e.promise[q].state \in Settlements
               /\ e.promise[q].state = e.promise[fo[q]].state
               /\ e.promise[q].result = e.promise[fo[q]].result
        BY <1>8, <3>1, <3>4
    <3> QED BY <1>2, <2>1, <3>1, <3>2, <3>3, <3>4 DEF FollowOK
  <2> QED BY <2>1 DEF FollowOK
<1>30. ASSUME fo[p] # NoFun PROVE e.jobs[1].thenable = fo[p]
  <2>1. CASE \E i \in DOMAIN e.jobs :
                 e.jobs[i] = [kind |-> "thenable", promise |-> p, thenable |-> fo[p]]
    <3>1. PICK i \in DOMAIN e.jobs :
              e.jobs[i] = [kind |-> "thenable", promise |-> p, thenable |-> fo[p]]
        BY <2>1
    <3>2. e.jobs[i].promise = p /\ ~Reacts(e.jobs[i]) /\ e.jobs[i].thenable = fo[p]
        BY <3>1 DEF Reacts
    <3>3. i = 1
        BY <1>2, <1>4, <1>5, <3>2 DEF Asked
    <3> QED BY <3>2, <3>3
  <2>2. CASE \E y \in Waits(e) : y.of = fo[p] /\ Resolving(y) /\ y.on[TRUE].fun.promise = p
    <3>1. PICK y \in Waits(e) : Resolving(y) /\ y.on[TRUE].fun.promise = p
        BY <2>2
    <3>2. PICK g : g = y.on[TRUE].fun
        OBVIOUS
    <3>3. g \in Fun /\ Known(e, g) /\ g \notin e.already /\ g.promise = p
        BY <1>2, <1>24, <3>1, <3>2 DEF Sole
    <3>4. \A i \in DOMAIN e.jobs : ~Reacts(e.jobs[i]) => e.jobs[i].promise # g.promise
        BY <3>3, UncalledFun
    <3> QED BY <1>4, <1>5, <3>3, <3>4
  <2>3. CASE e.promise[p].state \in Settlements
      BY <1>7, <2>3 DEF Settlements
  <2> QED BY <1>2, <1>6, <1>30, <2>1, <2>2, <2>3 DEF FollowOK
<1>31. EngineInv(d, r, F \cup {f}, fp)
    BY <1>1, <1>8, <1>9, <1>16, <1>19, <1>21, <1>22, <1>23, <1>27, <1>28, <1>29 DEF EngineInv
<1>33. PairFacts(e, F, fo, p, t, d, f)
    BY <1>5, <1>6, <1>7, <1>8, <1>9, <1>11, <1>12, <1>16, <1>26, <1>30 DEF PairFacts
<1> QED BY <1>31, <1>32, <1>33


\* What p follows again, once it agrees with it or will.
LEMMA FollowsAgain ==
    ASSUME NEW d, NEW r, NEW F, NEW fo \in [Promise -> Promise \cup {NoFun}], NEW p \in Promise,
           EngineInv(d, r, F, [fo EXCEPT ![p] = NoFun]),
           fo[p] # NoFun =>
               \/ \E x \in Waits(d) : x.of = fo[p] /\ Resolving(x) /\ x.on[TRUE].fun.promise = p
               \/ /\ d.promise[p].state \in Settlements
                  /\ d.promise[p].state = d.promise[fo[p]].state
                  /\ d.promise[p].result = d.promise[fo[p]].result
    PROVE  EngineInv(d, r, F, fo)
<1>1. PICK fp : fp = [fo EXCEPT ![p] = NoFun]
    OBVIOUS
<1>2. EngineInv(d, r, F, fp)
    BY <1>1
<1>3. FollowOK(d, fp)
    BY <1>2 DEF EngineInv
<1>4. FollowOK(d, fo)
  <2>1. ASSUME NEW q \in Promise, fo[q] # NoFun
        PROVE  \/ \E i \in DOMAIN d.jobs :
                     d.jobs[i] = [kind |-> "thenable", promise |-> q, thenable |-> fo[q]]
               \/ \E y \in Waits(d) : y.of = fo[q] /\ Resolving(y) /\ y.on[TRUE].fun.promise = q
               \/ /\ d.promise[q].state \in Settlements
                  /\ d.promise[q].state = d.promise[fo[q]].state
                  /\ d.promise[q].result = d.promise[fo[q]].result
    <3>1. CASE q = p
        BY <2>1, <3>1
    <3>2. CASE q # p
      <4>1. fp[q] = fo[q]
          BY <1>1, <3>2
      <4> QED BY <1>3, <2>1, <4>1 DEF FollowOK
    <3> QED BY <3>1, <3>2
  <2> QED BY <2>1 DEF FollowOK
<1> QED BY <1>2, <1>4 DEF EngineInv

\* The reaction x resolves p.
Tells(x, p) == Resolving(x) /\ x.on[TRUE].fun.promise = p

\* A reaction that resolves a promise holds the last functions made for it,
\* and no thenable job of that promise is queued.
LEMMA TellsFun ==
    ASSUME NEW e, NEW r, NEW F, NEW fo, EngineInv(e, r, F, fo),
           NEW x \in Waits(e), NEW p \in Promise, Tells(x, p)
    PROVE  /\ x.on[TRUE].fun = [promise |-> p, n |-> e.promise[p].funs]
           /\ e.promise[p].state = "pending"
           /\ \A i \in DOMAIN e.jobs : ~Reacts(e.jobs[i]) => e.jobs[i].promise # p
<1>1. e \in Engine /\ Sole(e, F)
    BY DEF EngineInv
<1>2. Resolving(x) /\ x.on[TRUE].fun.promise = p
    BY DEF Tells
<1>3. x \in Reaction
    BY <1>1, WaitsTypes
<1>4. PICK f : f = x.on[TRUE].fun
    OBVIOUS
<1>5. f \in Fun /\ f.promise = p
    BY <1>2, <1>3, <1>4, ReactionTypes
<1>6. Known(e, f) /\ f \notin e.already
    BY <1>1, <1>2, <1>4 DEF Sole
<1>7. /\ f = [promise |-> f.promise, n |-> e.promise[f.promise].funs]
      /\ e.promise[f.promise].state = "pending"
      /\ \A i \in DOMAIN e.jobs : ~Reacts(e.jobs[i]) => e.jobs[i].promise # f.promise
    BY <1>5, <1>6, UncalledFun
<1> QED BY <1>4, <1>5, <1>7

\* A promise that follows another is told by one reaction of that other.
LEMMA FollowedBy ==
    ASSUME NEW e, NEW r, NEW F, NEW fo, EngineInv(e, r, F, fo),
           NEW x \in Waits(e), NEW p \in Promise, Tells(x, p), fo[p] # NoFun
    PROVE  fo[p] = x.of
<1>1. Sole(e, F) /\ FollowOK(e, fo)
    BY DEF EngineInv
<1>2. /\ x.on[TRUE].fun = [promise |-> p, n |-> e.promise[p].funs]
      /\ e.promise[p].state = "pending"
      /\ \A i \in DOMAIN e.jobs : ~Reacts(e.jobs[i]) => e.jobs[i].promise # p
    BY TellsFun
<1>3. CASE \E i \in DOMAIN e.jobs :
               e.jobs[i] = [kind |-> "thenable", promise |-> p, thenable |-> fo[p]]
  <2>1. PICK i \in DOMAIN e.jobs :
            e.jobs[i] = [kind |-> "thenable", promise |-> p, thenable |-> fo[p]]
      BY <1>3
  <2>2. e.jobs[i].promise = p /\ ~Reacts(e.jobs[i])
      BY <2>1 DEF Reacts
  <2> QED BY <1>2, <2>2
<1>4. CASE \E y \in Waits(e) : y.of = fo[p] /\ Resolving(y) /\ y.on[TRUE].fun.promise = p
  <2>1. PICK y \in Waits(e) : y.of = fo[p] /\ Resolving(y) /\ y.on[TRUE].fun.promise = p
      BY <1>4
  <2>2. Tells(y, p)
      BY <2>1 DEF Tells
  <2>3. y.on[TRUE].fun = [promise |-> p, n |-> e.promise[p].funs]
      BY <2>2, TellsFun
  <2>4. y.on[TRUE].fun = x.on[TRUE].fun
      BY <1>2, <2>3
  <2>5. Resolving(x)
      BY DEF Tells
  <2>6. y = x
      BY <1>1, <2>1, <2>4, <2>5 DEF Sole
  <2> QED BY <1>2, <2>1, <2>6
<1>5. CASE e.promise[p].state \in Settlements
    BY <1>2, <1>5 DEF Settlements
<1> QED BY <1>1, <1>2, <1>3, <1>4, <1>5 DEF FollowOK

\* The reaction x resolves its promise with the outcome of the job.
PassedOn(e, b, x, d) ==
    d = resolving_function_call(b, x.on[TRUE].fun, Head(e.jobs).rej, Head(e.jobs).value)

\* The reaction x waits no more.
Gone(e, x, d) == Waits(d) = Waits(e) \ {x}

\* A reaction that resolves another promise runs: that promise takes over
\* state and result.
LEMMA PassKeeps ==
    ASSUME NEW e, NEW r, NEW F, NEW fo, EngineInv(e, r, F, fo),
           NEW b, Taken(e, b), NEW x, Fires(e, x), Resolving(x),
           NEW d, PassedOn(e, b, x, d)
    PROVE  EngineInv(d, Append(r, x), F, fo) /\ Gone(e, x, d)
<1>1. PICK f : f = x.on[TRUE].fun
    OBVIOUS
<1>2. PICK p : p = f.promise
    OBVIOUS
<1>3. PICK fp : fp = [fo EXCEPT ![p] = NoFun]
    OBVIOUS
<1>4. PICK G : G = F \cup Freed(x)
    OBVIOUS
<1>5. PICK s : s = Append(r, x)
    OBVIOUS
<1>6. EngineInv(b, s, G, fp)
  <2>1. fp = Unfollowed(x, fo)
      BY <1>1, <1>2, <1>3 DEF Unfollowed
  <2>2. EngineInv(b, Append(r, x), F \cup Freed(x), Unfollowed(x, fo))
      BY TakeReactionKeeps
  <2> QED BY <1>4, <1>5, <2>1, <2>2
<1>7. ReactionTaken(e, x, b)
    BY TakeReactionKeeps
<1>8. PICK v : v = Head(e.jobs).value
    OBVIOUS
<1>9. PICK rej : rej = Head(e.jobs).rej
    OBVIOUS
<1>10. /\ x \in Reaction /\ x \in Waits(e) /\ Waits(b) = Waits(e) \ {x}
       /\ b.promise = e.promise /\ b.already = e.already
       /\ f \notin e.already /\ rej \in BOOLEAN /\ v \in Plain
       /\ e.promise[x.of].state = IF rej THEN "rejected" ELSE "fulfilled"
       /\ e.promise[x.of].result = v
    BY <1>1, <1>7, <1>8, <1>9 DEF ReactionTaken
<1>11. v \in Value /\ v \notin Promise
    BY <1>10, ValueKinds
<1>12. f \in G /\ f \in Fun /\ p \in Promise /\ f # NoFun /\ x.of \in Promise
  <2>1. f \in Fun /\ x.of \in Promise
      BY <1>1, <1>10, ReactionTypes
  <2>2. p \in Promise
      BY <1>2, <2>1, FunTypes
  <2>3. f # NoFun
      BY <2>1, PromisesAssumption DEF Fun
  <2> QED BY <1>1, <1>4, <2>1, <2>2, <2>3 DEF Freed
<1>13. EngineInv(d, s, G, fp) /\ Called(b, f, rej, v, d)
  <2>1. fp = FollowedIn(b, f, rej, v, fp)
      BY <1>11 DEF FollowedIn
  <2>2. d = resolving_function_call(b, f, rej, v)
      BY <1>1, <1>8, <1>9 DEF PassedOn
  <2>3. f \in G \cup {NoFun}
      BY <1>12
  <2>4. v \in Promise => b.promise[v].state # "none"
      BY <1>11
  <2>5. Callable(b, G, f, rej, v)
      BY <1>10, <1>11, <2>3, <2>4 DEF Callable
  <2> QED BY <1>6, <2>1, <2>2, <2>5, CallLeaves
<1>14. EngineInv(d, s, F, fp)
  <2>1. F \in SUBSET G
      BY <1>4
  <2> QED BY <1>13, <2>1, Fewer
<1>15. /\ Waits(d) = Waits(b)
       /\ d.promise[p].state = IF rej THEN "rejected" ELSE "fulfilled"
       /\ d.promise[p].result = v
       /\ \A q \in Promise : b.promise[q].state \in Settlements => d.promise[q] = b.promise[q]
    BY <1>2, <1>10, <1>12, <1>13 DEF Called
<1>16. d.promise[x.of] = e.promise[x.of]
    BY <1>10, <1>12, <1>15 DEF Settlements
<1>17. /\ d.promise[p].state = d.promise[x.of].state /\ d.promise[p].result = d.promise[x.of].result
       /\ d.promise[p].state \in Settlements
    BY <1>10, <1>15, <1>16 DEF Settlements
<1>18. ASSUME fo[p] # NoFun PROVE fo[p] = x.of
  <2>1. Tells(x, p) /\ x \in Waits(e)
      BY <1>1, <1>2, <1>10 DEF Tells
  <2> QED BY <1>12, <1>18, <2>1, FollowedBy
<1>19. fo \in [Promise -> Promise \cup {NoFun}]
    BY DEF EngineInv
<1>20. EngineInv(d, s, F, fo)
  <2>1. EngineInv(d, s, F, [fo EXCEPT ![p] = NoFun])
      BY <1>3, <1>14
  <2>2. fo[p] # NoFun => /\ d.promise[p].state \in Settlements
                         /\ d.promise[p].state = d.promise[fo[p]].state
                         /\ d.promise[p].result = d.promise[fo[p]].result
      BY <1>17, <1>18
  <2> QED BY <1>12, <1>19, <2>1, <2>2, FollowsAgain
<1> QED BY <1>5, <1>10, <1>15, <1>20 DEF Gone


\* The handlers that resolve a promise with what another one becomes.
Handlers(f) == [rej \in BOOLEAN |-> [kind |-> "resolving", fun |-> f, rej |-> rej]]

\* The handlers that a thenable job passes to then.
LEMMA HandlersTypes ==
    ASSUME NEW f \in Fun
    PROVE  /\ Handlers(f) \in [BOOLEAN -> Handler]
           /\ Handlers(f)[TRUE].kind = "resolving" /\ Handlers(f)[FALSE].kind = "resolving"
           /\ Handlers(f)[TRUE].fun = f /\ Handlers(f)[FALSE].fun = f
           /\ Handlers(f)[TRUE].rej = TRUE /\ Handlers(f)[FALSE].rej = FALSE
<1>1. \A b \in BOOLEAN : [kind |-> "resolving", fun |-> f, rej |-> b] \in Handler
    BY DEF Handler
<1>2. Handlers(f) \in [BOOLEAN -> Handler]
    BY <1>1 DEF Handlers
<1>3. /\ Handlers(f)[TRUE] = [kind |-> "resolving", fun |-> f, rej |-> TRUE]
      /\ Handlers(f)[FALSE] = [kind |-> "resolving", fun |-> f, rej |-> FALSE]
    BY DEF Handlers
<1> QED BY <1>2, <1>3

\* A promise is asked: its reaction resolves p later.
LEMMA AdoptKeeps ==
    ASSUME NEW e, NEW r, NEW F, NEW fo, EngineInv(e, r, F, fo),
           NEW b, Taken(e, b), NEW p, NEW t \in Promise, Asks(e, p, t), NEW c, NewPair(b, p, c),
           NEW f, f = [promise |-> p, n |-> e.promise[p].funs + 1],
           NEW d, d = perform_promise_then(c, t, Handlers(f), NoFun)
    PROVE  /\ EngineInv(d, r, F, fo)
           /\ \E x : Resolving(x) /\ Waits(d) = Waits(e) \cup {x}
<1>1. PICK fp : fp = [fo EXCEPT ![p] = NoFun]
    OBVIOUS
<1>2. EngineInv(c, r, F \cup {f}, fp) /\ PairFacts(e, F, fo, p, t, c, f)
    BY <1>1, TakeThenable
<1>3. /\ p \in Promise /\ f \in Fun /\ f.promise = p
      /\ f \notin c.already /\ Known(c, f) /\ f \notin F
      /\ Waits(c) = Waits(e)
      /\ \A y \in Waits(c) : y.cap # f /\ (Resolving(y) => y.on[TRUE].fun # f)
      /\ \A q \in Promise : c.promise[q].state = e.promise[q].state
      /\ t \in Object
      /\ t \in Promise => e.promise[t].state # "none"
      /\ fo[p] # NoFun => t = fo[p]
    BY <1>2 DEF PairFacts
<1>4. EngineInv(c, r, F, fp)
  <2>1. PICK G : G = F \cup {f}
      OBVIOUS
  <2>2. EngineInv(c, r, G, fp) /\ F \in SUBSET G
      BY <1>2, <2>1
  <2> QED BY <2>2, Fewer
<1>5. PICK on : on = Handlers(f)
    OBVIOUS
<1>6. /\ on \in [BOOLEAN -> Handler] /\ on[TRUE].kind = "resolving" /\ on[FALSE].kind = "resolving"
      /\ on[TRUE].fun = f /\ on[FALSE].fun = f /\ on[TRUE].rej = TRUE /\ on[FALSE].rej = FALSE
    BY <1>3, <1>5, HandlersTypes
<1>7. PICK x : x = [of |-> t, id |-> c.thens + 1, on |-> on, cap |-> NoFun]
    OBVIOUS
<1>8. x.of = t /\ x.on = on /\ x.cap = NoFun
    BY <1>7
<1>9. WellFormed(x) /\ Resolving(x) /\ x.on[TRUE].fun = f
    BY <1>6, <1>8 DEF WellFormed, Resolving, Resuming
<1>10. /\ x.on[TRUE].fun \notin F \cup c.already /\ Known(c, x.on[TRUE].fun)
       /\ \A y \in Waits(c) :
             /\ y.cap # x.on[TRUE].fun
             /\ Resolving(y) => y.on[TRUE].fun # x.on[TRUE].fun
    BY <1>3, <1>9
<1>11. /\ EngineInv(d, r, F, fp) /\ Waits(d) = Waits(c) \cup {x}
  <2>1. c.promise[t].state # "none"
      BY <1>3
  <2>2. d = perform_promise_then(c, t, on, NoFun)
      BY <1>5
  <2>3. NoFun \in F \cup {NoFun}
      OBVIOUS
  <2>4. Addable(c, F, t, on, NoFun, x)
      BY <1>6, <1>7, <1>9, <1>10, <2>1, <2>3 DEF Addable
  <2>5. EngineInv(d, r, F, fp) /\ ThenAdded(c, x, d)
      BY <1>4, <2>2, <2>4, ThenKeeps
  <2> QED BY <2>5 DEF ThenAdded
<1>12. fo \in [Promise -> Promise \cup {NoFun}]
    BY DEF EngineInv
<1>13. EngineInv(d, r, F, fo)
  <2>1. EngineInv(d, r, F, [fo EXCEPT ![p] = NoFun])
      BY <1>1, <1>11
  <2>2. fo[p] # NoFun =>
            \E y \in Waits(d) : y.of = fo[p] /\ Resolving(y) /\ y.on[TRUE].fun.promise = p
      BY <1>3, <1>8, <1>9, <1>11
  <2> QED BY <1>3, <1>12, <2>1, <2>2, FollowsAgain
<1> QED BY <1>3, <1>9, <1>11, <1>13

\* An object with a then function of its own is asked: p follows no promise.
LEMMA AskedObject ==
    ASSUME NEW e, NEW r, NEW F, NEW fo, EngineInv(e, r, F, fo),
           NEW b, Taken(e, b), NEW p, NEW t, Asks(e, p, t), t \notin Promise,
           NEW d, NewPair(b, p, d),
           NEW f, f = [promise |-> p, n |-> e.promise[p].funs + 1]
    PROVE  EngineInv(d, r, F \cup {f}, fo) /\ f \in Fun /\ Waits(d) = Waits(e)
<1>1. EngineInv(d, r, F \cup {f}, [fo EXCEPT ![p] = NoFun]) /\ PairFacts(e, F, fo, p, t, d, f)
    BY TakeThenable
<1>2. p \in Promise /\ f \in Fun /\ Waits(d) = Waits(e) /\ (fo[p] # NoFun => t = fo[p])
    BY <1>1 DEF PairFacts
<1>3. fo \in [Promise -> Promise \cup {NoFun}]
    BY DEF EngineInv
<1>4. fo[p] = NoFun
    BY <1>2, <1>3
<1>5. [fo EXCEPT ![p] = NoFun] = fo
    BY <1>2, <1>3, <1>4
<1> QED BY <1>1, <1>2, <1>5


-----------------------------------------------------------------------------
\* What the program holds and what waits, from one state to the next.

\* The states of the async functions.
AsyncState ==
    [Async -> [state : {"none", "running", "awaiting", "done"},
               fun : Fun \cup {NoFun}, on : Promise \cup {NoFun}]]

\* The functions at large grow by those of G.
LEMMA HandsGrow ==
    ASSUME NEW h, NEW a, NEW c, NEW k, NEW b, NEW d, NEW G, k \subseteq h \cup G,
           \A f \in Async : b[f].fun \in {NoFun, a[f].fun} \cup G,
           \A i \in DOMAIN d : d[i].kind # "async" =>
               d[i].fun \in {NoFun} \cup G \/ (i \in DOMAIN c /\ d[i] = c[i])
    PROVE  Hands(k, b, d) \subseteq Hands(h, a, c) \cup G
<1>1. ASSUME NEW g \in Hands(k, b, d), g \notin G
      PROVE  g \in Hands(h, a, c)
  <2>1. g # NoFun
      BY DEF Hands
  <2>2. CASE g \in k
      BY <1>1, <2>1, <2>2 DEF Hands
  <2>3. CASE \E f \in Async : g = b[f].fun
    <3>1. PICK f \in Async : g = b[f].fun
        BY <2>3
    <3>2. g = a[f].fun
        BY <1>1, <2>1, <3>1
    <3> QED BY <2>1, <3>2 DEF Hands
  <2>4. CASE \E i \in DOMAIN d : d[i].kind # "async" /\ g = d[i].fun
    <3>1. PICK i \in DOMAIN d : d[i].kind # "async" /\ g = d[i].fun
        BY <2>4
    <3>2. i \in DOMAIN c /\ d[i] = c[i]
        BY <1>1, <2>1, <3>1
    <3> QED BY <2>1, <3>1, <3>2 DEF Hands
  <2> QED BY <2>2, <2>3, <2>4 DEF Hands
<1> QED BY <1>1

\* The innermost frame, and what is left without it.
LEMMA PopFacts ==
    ASSUME NEW c \in Seq(Frame), c # <<>>, NEW d, d = SubSeq(c, 1, Len(c) - 1)
    PROVE  /\ d \in Seq(Frame) /\ Len(c) \in DOMAIN c /\ c[Len(c)] \in Frame
           /\ \A i \in DOMAIN d : i \in DOMAIN c /\ d[i] = c[i] /\ i # Len(c)
<1>1. PICK n \in Nat : Len(c) = n + 1
  <2>1. Len(c) \in Nat /\ Len(c) # 0
      OBVIOUS
  <2>2. Len(c) - 1 \in Nat /\ Len(c) = (Len(c) - 1) + 1
      BY <2>1
  <2> QED BY <2>2
<1>2. Len(c) - 1 = n
    BY <1>1
<1>3. d \in Seq(Frame) /\ Len(d) = n /\ \A i \in 1..n : d[i] = c[i]
    BY <1>1, <1>2
<1>4. DOMAIN d = 1..n /\ DOMAIN c = 1..n + 1
    BY <1>1, <1>3
<1> QED BY <1>1, <1>3, <1>4

\* The frames of the call stack.
LEMMA FrameTypes ==
    ASSUME NEW x \in Frame
    PROVE  /\ x.kind \in {"script", "handler", "then", "async"}
           /\ x.kind = "async" => x.async \in Async
           /\ x.kind # "async" => x.fun \in Fun \cup {NoFun}
BY DEF Frame

\* One frame on an empty stack.
LEMMA OneFrame ==
    ASSUME NEW x \in Frame, NEW c, c = <<x>>
    PROVE  c \in Seq(Frame) /\ \A i \in DOMAIN c : c[i] = x /\ i = 1
BY DEF Frame

\* The parts of the invariant in the next state.
LEMMA Preserved ==
    ASSUME calls' \in Seq(Frame), async' \in AsyncState, held' \subseteq Fun, ops' \in Nat,
           NEW F, EngineInv(eng', ran', F, follows'), Hands(held', async', calls') \subseteq F,
           Awaits(Waits(eng'), calls', async')
    PROVE  PromisesInv'
<1>1. EngineInv(eng', ran', Hands(held', async', calls'), follows')
    BY Fewer
<1>2. /\ eng' \in Engine /\ ran' \in Seq(Reaction)
      /\ follows' \in [Promise -> Promise \cup {NoFun}]
    BY <1>1 DEF EngineInv
<1>3. TypeOK'
    BY <1>2 DEF TypeOK, AsyncState
<1> QED BY <1>1, <1>3 DEF PromisesInv

\* The parts of the invariant.
LEMMA Parts ==
    ASSUME PromisesInv
    PROVE  /\ calls \in Seq(Frame) /\ async \in AsyncState /\ held \subseteq Fun /\ ops \in Nat
           /\ EngineInv(eng, ran, Hands(held, async, calls), follows)
           /\ Awaits(Waits(eng), calls, async)
BY DEF PromisesInv, TypeOK, AsyncState

\* The functions an async function was given.
LEMMA AsyncTypes ==
    ASSUME NEW a \in AsyncState, NEW f \in Async
    PROVE  a[f].fun \in Fun \cup {NoFun}
BY DEF AsyncState

\* The promise that is made next was not made.
LEMMA Next1Facts ==
    ASSUME NEW e, Unused(e) # {}
    PROVE  Next1(e) \in Promise /\ e.promise[Next1(e)].state = "none"
<1>1. Next1(e) \in Unused(e)
    BY DEF Next1
<1> QED BY <1>1 DEF Unused

\* What runs while nothing else resumes stays as it is.
LEMMA AwaitsSame ==
    ASSUME NEW W, NEW c, NEW a, Awaits(W, c, a), NEW d, \A i \in DOMAIN d : d[i].kind # "async",
           NEW V, \A x : Resuming(x) => (x \in V <=> x \in W)
    PROVE  Awaits(V, d, a) /\ Awaits(V, c, a)
BY DEF Awaits

\* Only the reactions that continue async functions matter for those that wait.
LEMMA AwaitsMoved ==
    ASSUME NEW W, NEW c, NEW a, Awaits(W, c, a),
           NEW V, \A x : Resuming(x) => (x \in V <=> x \in W)
    PROVE  Awaits(V, c, a)
BY DEF Awaits

\* A script starts: it has no functions.
LEMMA StartScriptKeeps ==
    ASSUME PromisesInv, StartScript
    PROVE  PromisesInv'
<1>1. /\ calls \in Seq(Frame) /\ async \in AsyncState /\ held \subseteq Fun /\ ops \in Nat
      /\ EngineInv(eng, ran, Hands(held, async, calls), follows)
      /\ Awaits(Waits(eng), calls, async)
    BY Parts
<1>2. /\ calls' = <<[kind |-> "script", fun |-> NoFun]>> /\ ops' = ops + 1
      /\ eng' = eng /\ async' = async /\ held' = held /\ ran' = ran /\ follows' = follows
    BY DEF StartScript, Op
<1>3. [kind |-> "script", fun |-> NoFun] \in Frame
    BY DEF Frame
<1>4. /\ calls' \in Seq(Frame)
      /\ \A i \in DOMAIN calls' : calls'[i] = [kind |-> "script", fun |-> NoFun]
    BY <1>2, <1>3, OneFrame
<1>5. Hands(held', async', calls') \subseteq Hands(held, async, calls) \cup {}
  <2>1. held' \subseteq held \cup {}
      BY <1>2
  <2>2. \A f \in Async : async'[f].fun \in {NoFun, async[f].fun} \cup {}
      BY <1>2
  <2>3. \A i \in DOMAIN calls' : calls'[i].kind # "async" =>
            calls'[i].fun \in {NoFun} \cup {} \/ (i \in DOMAIN calls /\ calls'[i] = calls[i])
      BY <1>4
  <2> QED BY <2>1, <2>2, <2>3, HandsGrow
<1>6. \A i \in DOMAIN calls' : calls'[i].kind # "async"
    BY <1>4
<1>7. Awaits(Waits(eng'), calls', async')
    BY <1>1, <1>2, <1>6, AwaitsSame
<1>8. /\ async' \in AsyncState /\ held' \subseteq Fun /\ ops' \in Nat
      /\ EngineInv(eng', ran', Hands(held, async, calls), follows')
      /\ Hands(held', async', calls') \subseteq Hands(held, async, calls)
    BY <1>1, <1>2, <1>5
<1> QED BY <1>4, <1>7, <1>8, Preserved

\* A promise is made: its first function is in the hands of the program.
LEMMA NewActionKeeps ==
    ASSUME PromisesInv, New
    PROVE  PromisesInv'
<1>1. /\ calls \in Seq(Frame) /\ async \in AsyncState /\ held \subseteq Fun /\ ops \in Nat
      /\ EngineInv(eng, ran, Hands(held, async, calls), follows)
      /\ Awaits(Waits(eng), calls, async)
    BY Parts
<1>2. PICK p : p = Next1(eng)
    OBVIOUS
<1>3. /\ eng' = js_promise_constructor(eng, p) /\ held' = held \cup {FirstFun(p)}
      /\ ops' = ops + 1 /\ Unused(eng) # {}
      /\ calls' = calls /\ async' = async /\ ran' = ran /\ follows' = follows
    BY <1>2 DEF New, Op
<1>4. p \in Promise /\ eng.promise[p].state = "none"
    BY <1>2, <1>3, Next1Facts
<1>5. PICK F : F = Hands(held, async, calls) \cup {FirstFun(p)}
    OBVIOUS
<1>6. EngineInv(eng', ran, F, follows) /\ Waits(eng') = Waits(eng)
  <2>1. /\ EngineInv(js_promise_constructor(eng, p), ran, Hands(held, async, calls) \cup {FirstFun(p)},
                     follows)
        /\ Waits(js_promise_constructor(eng, p)) = Waits(eng)
    BY <1>1, <1>4, NewKeeps
  <2> QED BY <1>3, <1>5, <2>1
<1>7. FirstFun(p) \in Fun
    BY <1>4 DEF FirstFun, Fun
<1>8. Hands(held', async', calls') \subseteq F
  <2>1. held' \subseteq held \cup {FirstFun(p)}
      BY <1>3
  <2>2. \A f \in Async : async'[f].fun \in {NoFun, async[f].fun} \cup {FirstFun(p)}
      BY <1>3
  <2>3. \A i \in DOMAIN calls' : calls'[i].kind # "async" =>
            calls'[i].fun \in {NoFun} \cup {FirstFun(p)} \/ (i \in DOMAIN calls /\ calls'[i] = calls[i])
      BY <1>3
  <2> QED BY <1>5, <2>1, <2>2, <2>3, HandsGrow
<1>9. /\ calls' \in Seq(Frame) /\ async' \in AsyncState /\ held' \subseteq Fun /\ ops' \in Nat
      /\ EngineInv(eng', ran', F, follows') /\ Awaits(Waits(eng'), calls', async')
    BY <1>1, <1>3, <1>6, <1>7
<1> QED BY <1>8, <1>9, Preserved


\* What code may pass on: promises that were made, and other values.
LEMMA ValuesFacts ==
    ASSUME NEW v \in Values
    PROVE  v \in Value /\ (v \in Promise => eng.promise[v].state # "none")
BY PromisesAssumption DEF Values, Value, Object

\* A resolving function that the program holds is called.
LEMMA CallActionKeeps ==
    ASSUME PromisesInv, NEW f \in held, NEW rej \in BOOLEAN, NEW v \in Values, Call(f, rej, v)
    PROVE  PromisesInv'
<1>1. /\ calls \in Seq(Frame) /\ async \in AsyncState /\ held \subseteq Fun /\ ops \in Nat
      /\ EngineInv(eng, ran, Hands(held, async, calls), follows)
      /\ Awaits(Waits(eng), calls, async)
    BY Parts
<1>2. /\ eng' = resolving_function_call(eng, f, rej, v)
      /\ follows' = FollowedIn(eng, f, rej, v, follows)
      /\ ops' = ops + 1 /\ calls' = calls /\ async' = async /\ held' = held /\ ran' = ran
      /\ rej => v = "value"
    BY DEF Call, Op, Followed, FollowedIn
<1>3. PICK F : F = Hands(held, async, calls)
    OBVIOUS
<1>4. Callable(eng, F, f, rej, v)
  <2>1. f \in Fun /\ f # NoFun
      BY <1>1, PromisesAssumption DEF Fun
  <2>2. f \in F
      BY <1>3, <2>1 DEF Hands
  <2>3. rej => v \in Plain
      BY <1>2 DEF Plain
  <2> QED BY <2>2, <2>3, ValuesFacts DEF Callable
<1>5. EngineInv(eng', ran, F, follows') /\ Called(eng, f, rej, v, eng')
    BY <1>1, <1>2, <1>3, <1>4, CallLeaves
<1>6. Waits(eng') = Waits(eng)
    BY <1>5 DEF Called
<1>7. /\ calls' \in Seq(Frame) /\ async' \in AsyncState /\ held' \subseteq Fun /\ ops' \in Nat
      /\ EngineInv(eng', ran', F, follows') /\ Hands(held', async', calls') \subseteq F
      /\ Awaits(Waits(eng'), calls', async')
    BY <1>1, <1>2, <1>3, <1>5, <1>6
<1> QED BY <1>7, Preserved

\* then: the reaction knows the function of the derived promise.
LEMMA ThenActionKeeps ==
    ASSUME PromisesInv, NEW p \in Promise, NEW k \in {"user", "undefined"}, Then(p, [kind |-> k])
    PROVE  PromisesInv'
<1>1. /\ calls \in Seq(Frame) /\ async \in AsyncState /\ held \subseteq Fun /\ ops \in Nat
      /\ EngineInv(eng, ran, Hands(held, async, calls), follows)
      /\ Awaits(Waits(eng), calls, async)
    BY Parts
<1>2. PICK q : q = Next1(eng)
    OBVIOUS
<1>3. PICK c : c = js_promise_constructor(eng, q)
    OBVIOUS
<1>4. PICK h : h = [kind |-> k]
    OBVIOUS
<1>5. PICK on : on = [rej \in BOOLEAN |-> IF rej THEN h ELSE [kind |-> "user"]]
    OBVIOUS
<1>6. /\ eng' = perform_promise_then(c, p, on, FirstFun(q))
      /\ ops' = ops + 1 /\ Unused(eng) # {} /\ eng.promise[p].state # "none"
      /\ calls' = calls /\ async' = async /\ held' = held /\ ran' = ran /\ follows' = follows
    BY <1>2, <1>3, <1>4, <1>5 DEF Then, Op
<1>7. q \in Promise /\ eng.promise[q].state = "none"
    BY <1>2, <1>6, Next1Facts
<1>8. PICK F : F = Hands(held, async, calls) \cup {FirstFun(q)}
    OBVIOUS
<1>9. /\ EngineInv(c, ran, F, follows) /\ Waits(c) = Waits(eng)
      /\ \A w \in Promise : eng.promise[w].state # "none" => c.promise[w] = eng.promise[w]
    BY <1>1, <1>3, <1>7, <1>8, NewKeeps
<1>10. /\ on \in [BOOLEAN -> Handler] /\ on[TRUE].kind = k /\ on[FALSE].kind = "user"
  <2>1. h \in Handler /\ [kind |-> "user"] \in Handler /\ h.kind = k
      BY <1>4 DEF Handler
  <2>2. on \in [BOOLEAN -> Handler]
      BY <1>5, <2>1
  <2>3. on[TRUE] = h /\ on[FALSE] = [kind |-> "user"]
      BY <1>5
  <2> QED BY <2>1, <2>2, <2>3
<1>11. PICK x : x = [of |-> p, id |-> c.thens + 1, on |-> on, cap |-> FirstFun(q)]
    OBVIOUS
<1>12. x.on = on /\ x.cap = FirstFun(q)
    BY <1>11
<1>13. FirstFun(q) \in Fun /\ FirstFun(q) \in F
    BY <1>7, <1>8 DEF FirstFun, Fun
<1>14. WellFormed(x) /\ ~Resolving(x) /\ ~Resuming(x)
    BY <1>10, <1>12, <1>13 DEF WellFormed, Resolving, Resuming
<1>15. Addable(c, F, p, on, FirstFun(q), x)
  <2>1. c.promise[p].state # "none"
      BY <1>6, <1>9
  <2> QED BY <1>10, <1>11, <1>13, <1>14, <2>1 DEF Addable
<1>16. EngineInv(eng', ran, F, follows) /\ ThenAdded(c, x, eng')
    BY <1>6, <1>9, <1>15, ThenKeeps
<1>17. Waits(eng') = Waits(eng) \cup {x}
    BY <1>9, <1>16 DEF ThenAdded
<1>18. Awaits(Waits(eng'), calls, async)
  <2>1. \A y : Resuming(y) => (y \in Waits(eng') <=> y \in Waits(eng))
      BY <1>14, <1>17
  <2> QED BY <1>1, <2>1 DEF Awaits
<1>19. /\ calls' \in Seq(Frame) /\ async' \in AsyncState /\ held' \subseteq Fun /\ ops' \in Nat
       /\ EngineInv(eng', ran', F, follows') /\ Hands(held', async', calls') \subseteq F
       /\ Awaits(Waits(eng'), calls', async')
    BY <1>1, <1>6, <1>8, <1>16, <1>18
<1> QED BY <1>19, Preserved

\* An async function is called: it runs on top of its caller.
LEMMA CallAsyncKeeps ==
    ASSUME PromisesInv, NEW f \in Async, CallAsync(f)
    PROVE  PromisesInv'
<1>1. /\ calls \in Seq(Frame) /\ async \in AsyncState /\ held \subseteq Fun /\ ops \in Nat
      /\ EngineInv(eng, ran, Hands(held, async, calls), follows)
      /\ Awaits(Waits(eng), calls, async)
    BY Parts
<1>2. PICK p : p = Next1(eng)
    OBVIOUS
<1>3. PICK x : x = [kind |-> "async", async |-> f]
    OBVIOUS
<1>4. /\ eng' = js_promise_constructor(eng, p) /\ Unused(eng) # {} /\ async[f].state = "none"
      /\ async' = [async EXCEPT ![f] = [@ EXCEPT !.state = "running", !.fun = FirstFun(p)]]
      /\ calls' = Append(calls, x) /\ ops' = ops + 1
      /\ held' = held /\ ran' = ran /\ follows' = follows
    BY <1>2, <1>3 DEF CallAsync, Op
<1>5. p \in Promise /\ eng.promise[p].state = "none"
    BY <1>2, <1>4, Next1Facts
<1>6. PICK F : F = Hands(held, async, calls) \cup {FirstFun(p)}
    OBVIOUS
<1>7. EngineInv(eng', ran, F, follows) /\ Waits(eng') = Waits(eng)
    BY <1>1, <1>4, <1>5, <1>6, NewKeeps
<1>8. FirstFun(p) \in Fun
    BY <1>5 DEF FirstFun, Fun
<1>9. x \in Frame /\ x.kind = "async" /\ x.async = f
    BY <1>3 DEF Frame
<1>10. /\ calls' \in Seq(Frame) /\ Len(calls) + 1 \in DOMAIN calls' /\ calls'[Len(calls) + 1] = x
       /\ \A i \in DOMAIN calls : i \in DOMAIN calls' /\ calls'[i] = calls[i] /\ i < Len(calls) + 1
       /\ \A i \in DOMAIN calls' : i \in DOMAIN calls \/ i = Len(calls) + 1
    BY <1>1, <1>4, <1>9, AppendFacts
<1>11. PICK b : b = async'
    OBVIOUS
<1>12. /\ b \in AsyncState /\ b[f].state = "running" /\ b[f].fun = FirstFun(p)
       /\ \A g \in Async : g # f => b[g] = async[g]
  <2>1. PICK s : s = async[f]
      OBVIOUS
  <2>2. PICK t : t = [s EXCEPT !.state = "running", !.fun = FirstFun(p)]
      OBVIOUS
  <2>3. b = [async EXCEPT ![f] = t]
      BY <1>4, <1>11, <2>1, <2>2
  <2>4. /\ t \in [state : {"none", "running", "awaiting", "done"},
                  fun : Fun \cup {NoFun}, on : Promise \cup {NoFun}]
        /\ t.state = "running" /\ t.fun = FirstFun(p)
      BY <1>1, <1>8, <2>1, <2>2 DEF AsyncState
  <2> QED BY <1>1, <2>3, <2>4 DEF AsyncState
<1>13. Hands(held', b, calls') \subseteq F
  <2>1. held' \subseteq held \cup {FirstFun(p)}
      BY <1>4
  <2>2. \A g \in Async : b[g].fun \in {NoFun, async[g].fun} \cup {FirstFun(p)}
      BY <1>12
  <2>3. \A i \in DOMAIN calls' : calls'[i].kind # "async" =>
            calls'[i].fun \in {NoFun} \cup {FirstFun(p)} \/ (i \in DOMAIN calls /\ calls'[i] = calls[i])
      BY <1>9, <1>10
  <2> QED BY <1>6, <2>1, <2>2, <2>3, HandsGrow
<1>14. Awaits(Waits(eng), calls', b)
  <2>1. \A i \in DOMAIN calls : calls[i].kind = "async" => calls[i].async \in Async /\ calls[i].async # f
    <3>1. \A i \in DOMAIN calls : calls[i] \in Frame
        BY <1>1
    <3> QED BY <1>1, <1>4, <3>1, FrameTypes DEF Awaits
  <2>2. \A i \in DOMAIN calls' : calls'[i].kind = "async" => b[calls'[i].async].state = "running"
      BY <1>1, <1>9, <1>10, <1>12, <2>1 DEF Awaits
  <2>3. \A i, j \in DOMAIN calls' :
            i # j /\ calls'[i].kind = "async" /\ calls'[j].kind = "async"
                => calls'[i].async # calls'[j].async
      BY <1>1, <1>9, <1>10, <2>1 DEF Awaits
  <2>4. \A y \in Waits(eng) : Resuming(y) => y.on[TRUE].fun \in Async
    <3>1. Waits(eng) \subseteq Reaction
        BY <1>1, WaitsTypes DEF EngineInv
    <3> QED BY <3>1, ReactionTypes
  <2>5. ASSUME NEW y \in Waits(eng), Resuming(y)
        PROVE  b[y.on[TRUE].fun].state = "awaiting"
    <3>1. PICK g \in Async : g = y.on[TRUE].fun
        BY <2>4, <2>5
    <3>2. async[g].state = "awaiting"
        BY <1>1, <2>5, <3>1 DEF Awaits
    <3>3. b[g] = async[g]
        BY <1>4, <1>12, <3>2
    <3> QED BY <3>1, <3>2, <3>3
  <2>6. \A g \in Async : b[g].state = "awaiting" => async[g].state = "awaiting"
      BY <1>12
  <2> QED BY <1>1, <2>2, <2>3, <2>5, <2>6 DEF Awaits
<1>15. async' \in AsyncState /\ held' \subseteq Fun /\ ops' \in Nat
    BY <1>1, <1>4, <1>11, <1>12
<1>16. EngineInv(eng', ran', F, follows')
    BY <1>4, <1>7
<1>17. Hands(held', async', calls') \subseteq F /\ Awaits(Waits(eng'), calls', async')
    BY <1>7, <1>11, <1>13, <1>14
<1> QED BY <1>10, <1>15, <1>16, <1>17, Preserved


\* The frames of async functions, and what resumes those that wait.
FramesRun(c, a) ==
    /\ \A i \in DOMAIN c : c[i].kind = "async" => a[c[i].async].state = "running"
    /\ \A i, j \in DOMAIN c :
          i # j /\ c[i].kind = "async" /\ c[j].kind = "async" => c[i].async # c[j].async

\* What is known when f stops.
Stopped(W, d, a, b, f) ==
    /\ f \in Async /\ a[f].state = "running"
    /\ FramesRun(d, b)
    /\ \A y \in W : Resuming(y) =>
          /\ y.on[TRUE].fun \in Async /\ y.on[TRUE].fun # f
          /\ b[y.on[TRUE].fun].state = "awaiting"

\* An async function that stops running, because it waits or is done: its
\* frame was the only one, and nothing resumes it yet.
LEMMA AsyncStops ==
    ASSUME NEW W \in SUBSET Reaction, NEW c \in Seq(Frame), NEW a, Awaits(W, c, a), c # <<>>,
           c[Len(c)].kind = "async", NEW f, f = c[Len(c)].async,
           NEW d, d = SubSeq(c, 1, Len(c) - 1), NEW b, \A g \in Async : g # f => b[g] = a[g]
    PROVE  Stopped(W, d, a, b, f)
<1>1. /\ d \in Seq(Frame) /\ Len(c) \in DOMAIN c /\ c[Len(c)] \in Frame
      /\ \A i \in DOMAIN d : i \in DOMAIN c /\ d[i] = c[i] /\ i # Len(c)
    BY PopFacts
<1>2. f \in Async
    BY <1>1, FrameTypes
<1>3. a[f].state = "running"
    BY <1>1 DEF Awaits
<1>4. ASSUME NEW i \in DOMAIN d, d[i].kind = "async"
      PROVE  d[i].async \in Async /\ d[i].async # f /\ a[d[i].async].state = "running"
  <2>1. i \in DOMAIN c /\ d[i] = c[i] /\ i # Len(c) /\ d[i] \in Frame
      BY <1>1
  <2>2. d[i].async \in Async
      BY <1>4, <2>1, FrameTypes
  <2>3. c[i].async # c[Len(c)].async
      BY <1>1, <1>4, <2>1 DEF Awaits
  <2> QED BY <1>4, <2>1, <2>2, <2>3 DEF Awaits
<1>5. ASSUME NEW i \in DOMAIN d, NEW j \in DOMAIN d, i # j, d[i].kind = "async", d[j].kind = "async"
      PROVE  d[i].async # d[j].async
    BY <1>1, <1>5 DEF Awaits
<1>6. FramesRun(d, b)
    BY <1>4, <1>5 DEF FramesRun
<1>7. ASSUME NEW y \in W, Resuming(y)
      PROVE  /\ y.on[TRUE].fun \in Async /\ y.on[TRUE].fun # f
             /\ b[y.on[TRUE].fun].state = "awaiting"
  <2>1. PICK g \in Async : g = y.on[TRUE].fun
      BY <1>7, ReactionTypes
  <2>2. a[g].state = "awaiting"
      BY <1>7, <2>1 DEF Awaits
  <2>3. g # f
      BY <1>3, <2>2
  <2> QED BY <2>1, <2>2, <2>3
<1> QED BY <1>2, <1>3, <1>6, <1>7 DEF Stopped

\* The handlers that resume f.
Resumers(f) == [rej \in BOOLEAN |-> [kind |-> "resume", fun |-> f, rej |-> rej]]

\* The handlers that continue an async function.
LEMMA ResumersTypes ==
    ASSUME NEW f \in Async
    PROVE  /\ Resumers(f) \in [BOOLEAN -> Handler]
           /\ Resumers(f)[TRUE].kind = "resume" /\ Resumers(f)[FALSE].kind = "resume"
           /\ Resumers(f)[TRUE].fun = f /\ Resumers(f)[FALSE].fun = f
<1>1. \A b \in BOOLEAN : [kind |-> "resume", fun |-> f, rej |-> b] \in Handler
    BY DEF Handler
<1>2. Resumers(f) \in [BOOLEAN -> Handler]
    BY <1>1 DEF Resumers
<1>3. /\ Resumers(f)[TRUE] = [kind |-> "resume", fun |-> f, rej |-> TRUE]
      /\ Resumers(f)[FALSE] = [kind |-> "resume", fun |-> f, rej |-> FALSE]
    BY DEF Resumers
<1> QED BY <1>2, <1>3

\* The promise that is awaited, and the engine when it is there.
Awaited(v) == IF v \in Promise THEN v ELSE Next1(eng)

\* The engine when await has made a promise of its operand.
AwaitedIn(v) ==
    IF v \in Promise THEN eng
    ELSE resolving_function_call(js_promise_constructor(eng, Awaited(v)), FirstFun(Awaited(v)), FALSE, v)

\* What await may rely on when it adds its reaction.
AwaitReady(e, r, F, fo, p) ==
    /\ EngineInv(e, r, F, fo) /\ Waits(e) = Waits(eng)
    /\ p \in Promise /\ e.promise[p].state # "none"

\* The operand of await is a promise, or is made into one.
LEMMA AwaitedKeeps ==
    ASSUME NEW r, NEW F, NEW fo, EngineInv(eng, r, F, fo), NEW v \in Values,
           v \in Promise \/ Unused(eng) # {}
    PROVE  AwaitReady(AwaitedIn(v), r, F, fo, Awaited(v))
<1>3. PICK p : p = Awaited(v)
    OBVIOUS
<1>4. PICK e : e = AwaitedIn(v)
    OBVIOUS
<1>1. CASE v \in Promise
  <2>1. p = v /\ e = eng
      BY <1>1, <1>3, <1>4 DEF Awaited, AwaitedIn
  <2> QED BY <1>1, <1>3, <1>4, <2>1, ValuesFacts DEF AwaitReady
<1>2. CASE v \notin Promise
  <2>1. p = Next1(eng) /\ Unused(eng) # {}
      BY <1>2, <1>3 DEF Awaited
  <2>2. p \in Promise /\ eng.promise[p].state = "none"
      BY <2>1, Next1Facts
  <2>3. PICK c : c = js_promise_constructor(eng, p)
      OBVIOUS
  <2>4. PICK G : G = F \cup {FirstFun(p)}
      OBVIOUS
  <2>5. EngineInv(c, r, G, fo) /\ Waits(c) = Waits(eng) /\ c.promise[p].state = "pending"
      BY <2>2, <2>3, <2>4, NewKeeps
  <2>6. e = resolving_function_call(c, FirstFun(p), FALSE, v)
      BY <1>2, <1>3, <1>4, <2>3 DEF AwaitedIn
  <2>7. Callable(c, G, FirstFun(p), FALSE, v)
      BY <1>2, <2>4, ValuesFacts DEF Callable
  <2>8. FollowedIn(c, FirstFun(p), FALSE, v, fo) = fo
      BY <1>2 DEF FollowedIn
  <2>9. EngineInv(e, r, G, fo) /\ Called(c, FirstFun(p), FALSE, v, e)
    <3>1. /\ EngineInv(resolving_function_call(c, FirstFun(p), FALSE, v), r, G,
                       FollowedIn(c, FirstFun(p), FALSE, v, fo))
          /\ Called(c, FirstFun(p), FALSE, v, resolving_function_call(c, FirstFun(p), FALSE, v))
        BY <2>5, <2>7, CallLeaves
    <3> QED BY <2>6, <2>8, <3>1
  <2>10. Waits(e) = Waits(eng) /\ e.promise[p].state # "none"
      BY <2>2, <2>5, <2>9 DEF Called
  <2>11. F \in SUBSET G
      BY <2>4
  <2>12. EngineInv(e, r, F, fo)
      BY <2>9, <2>11, Fewer
  <2> QED BY <1>3, <1>4, <2>2, <2>10, <2>12 DEF AwaitReady
<1> QED BY <1>1, <1>2

\* await: one reaction resumes the function, whose frame is gone.
LEMMA AwaitKeeps ==
    ASSUME PromisesInv, NEW v \in Values, Await(v)
    PROVE  PromisesInv'
<1>1. /\ calls \in Seq(Frame) /\ async \in AsyncState /\ held \subseteq Fun /\ ops \in Nat
      /\ EngineInv(eng, ran, Hands(held, async, calls), follows)
      /\ Awaits(Waits(eng), calls, async)
    BY Parts
<1>2. PICK p : p = Awaited(v)
    OBVIOUS
<1>3. PICK e : e = AwaitedIn(v)
    OBVIOUS
<1>4. PICK f : f = calls[Len(calls)].async
    OBVIOUS
<1>5. PICK on : on = Resumers(f)
    OBVIOUS
<1>6. /\ eng' = perform_promise_then(e, p, on, NoFun)
      /\ async' = [async EXCEPT ![f].state = "awaiting", ![f].on = p]
    BY <1>2, <1>3, <1>4, <1>5 DEF Await, Innermost, Resumers, Awaited, AwaitedIn
<1>7. /\ calls # <<>> /\ calls[Len(calls)].kind = "async"
      /\ v \in Promise \/ Unused(eng) # {}
      /\ calls' = SubSeq(calls, 1, Len(calls) - 1) /\ ops' = ops + 1
      /\ held' = held /\ ran' = ran /\ follows' = follows
    BY DEF Await, Running, Op, Pop, Innermost
<1>8. PICK F : F = Hands(held, async, calls)
    OBVIOUS
<1>9. /\ EngineInv(e, ran, F, follows) /\ Waits(e) = Waits(eng)
      /\ p \in Promise /\ e.promise[p].state # "none"
  <2>1. AwaitReady(e, ran, F, follows, p)
      BY <1>1, <1>2, <1>3, <1>7, <1>8, AwaitedKeeps
  <2> QED BY <2>1 DEF AwaitReady
<1>10. PICK b : b = async'
    OBVIOUS
<1>11. Waits(eng) \in SUBSET Reaction
    BY <1>1, WaitsTypes DEF EngineInv
<1>12. \A g \in Async : g # f => b[g] = async[g]
    BY <1>1, <1>6, <1>10 DEF AsyncState
<1>13. /\ f \in Async /\ async[f].state = "running" /\ FramesRun(calls', b)
       /\ \A y \in Waits(eng) : Resuming(y) =>
             /\ y.on[TRUE].fun \in Async /\ y.on[TRUE].fun # f
             /\ b[y.on[TRUE].fun].state = "awaiting"
  <2>1. PICK W : W = Waits(eng)
      OBVIOUS
  <2>2. Stopped(W, calls', async, b, f)
      BY <1>1, <1>4, <1>7, <1>11, <1>12, <2>1, AsyncStops
  <2> QED BY <2>1, <2>2 DEF Stopped
<1>14. b \in AsyncState /\ b[f].state = "awaiting" /\ b[f].fun = async[f].fun
  <2>1. PICK s : s = async[f]
      OBVIOUS
  <2>2. PICK t : t = [s EXCEPT !.state = "awaiting", !.on = p]
      OBVIOUS
  <2>3. b = [async EXCEPT ![f] = t]
      BY <1>1, <1>6, <1>10, <1>13, <2>1, <2>2 DEF AsyncState
  <2>4. /\ t \in [state : {"none", "running", "awaiting", "done"},
                  fun : Fun \cup {NoFun}, on : Promise \cup {NoFun}]
        /\ t.state = "awaiting" /\ t.fun = s.fun
      BY <1>1, <1>9, <1>13, <2>1, <2>2 DEF AsyncState
  <2> QED BY <1>1, <1>13, <2>1, <2>3, <2>4 DEF AsyncState
<1>15. /\ on \in [BOOLEAN -> Handler] /\ on[TRUE].kind = "resume" /\ on[FALSE].kind = "resume"
       /\ on[TRUE].fun = f /\ on[FALSE].fun = f
    BY <1>5, <1>13, ResumersTypes
<1>16. PICK x : x = [of |-> p, id |-> e.thens + 1, on |-> on, cap |-> NoFun]
    OBVIOUS
<1>17. x.on = on /\ x.cap = NoFun
    BY <1>16
<1>18. WellFormed(x) /\ ~Resolving(x) /\ Resuming(x) /\ x.on[TRUE].fun = f
    BY <1>15, <1>17 DEF WellFormed, Resolving, Resuming
<1>19. Addable(e, F, p, on, NoFun, x)
    BY <1>9, <1>15, <1>16, <1>18 DEF Addable
<1>20. EngineInv(eng', ran, F, follows) /\ ThenAdded(e, x, eng')
    BY <1>6, <1>9, <1>19, ThenKeeps
<1>21. Waits(eng') = Waits(eng) \cup {x}
    BY <1>9, <1>20 DEF ThenAdded
<1>22. Awaits(Waits(eng'), calls', b)
  <2>1. \A y \in Waits(eng') : Resuming(y) => b[y.on[TRUE].fun].state = "awaiting"
      BY <1>13, <1>14, <1>18, <1>21
  <2>2. ASSUME NEW y \in Waits(eng'), NEW z \in Waits(eng'), Resuming(y), Resuming(z),
               y.on[TRUE].fun = z.on[TRUE].fun
        PROVE  y = z
    <3>1. CASE y \in Waits(eng) /\ z \in Waits(eng)
        BY <1>1, <2>2, <3>1 DEF Awaits
    <3>2. CASE y = x \/ z = x
        BY <1>13, <1>18, <1>21, <2>2, <3>2
    <3> QED BY <1>21, <3>1, <3>2
  <2>3. ASSUME NEW g \in Async, b[g].state = "awaiting"
        PROVE  \E y \in Waits(eng') : Resuming(y) /\ y.on[TRUE].fun = g
    <3>1. CASE g = f
        BY <1>18, <1>21, <3>1
    <3>2. CASE g # f
      <4>1. async[g].state = "awaiting"
          BY <1>12, <2>3, <3>2
      <4> QED BY <1>1, <1>21, <4>1 DEF Awaits
    <3> QED BY <3>1, <3>2
  <2> QED BY <1>13, <2>1, <2>2, <2>3 DEF Awaits, FramesRun
<1>23. /\ calls' \in Seq(Frame)
       /\ \A i \in DOMAIN calls' : i \in DOMAIN calls /\ calls'[i] = calls[i]
    BY <1>1, <1>7, PopFacts
<1>24. Hands(held', b, calls') \subseteq F
  <2>1. held' \subseteq held \cup {}
      BY <1>7
  <2>2. \A g \in Async : b[g].fun \in {NoFun, async[g].fun} \cup {}
      BY <1>12, <1>14
  <2>3. \A i \in DOMAIN calls' : calls'[i].kind # "async" =>
            calls'[i].fun \in {NoFun} \cup {} \/ (i \in DOMAIN calls /\ calls'[i] = calls[i])
      BY <1>23
  <2>4. Hands(held', b, calls') \subseteq Hands(held, async, calls) \cup {}
      BY <2>1, <2>2, <2>3, HandsGrow
  <2> QED BY <1>8, <2>4
<1>25. async' \in AsyncState /\ held' \subseteq Fun /\ ops' \in Nat
    BY <1>1, <1>7, <1>10, <1>14
<1>26. EngineInv(eng', ran', F, follows')
    BY <1>7, <1>20
<1>27. Hands(held', async', calls') \subseteq F /\ Awaits(Waits(eng'), calls', async')
    BY <1>10, <1>22, <1>24
<1> QED BY <1>23, <1>25, <1>26, <1>27, Preserved


\* Some of the innermost frames are gone.
Popped(c, d) == \A i \in DOMAIN d : i \in DOMAIN c /\ d[i] = c[i]

\* What holds of the async functions that wait holds also without the last frame.
LEMMA AwaitsPop ==
    ASSUME NEW W, NEW c, NEW a, Awaits(W, c, a), NEW d, Popped(c, d)
    PROVE  Awaits(W, d, a)
<1>1. \A i \in DOMAIN d : d[i].kind = "async" => a[d[i].async].state = "running"
    BY DEF Awaits, Popped
<1>2. ASSUME NEW i \in DOMAIN d, NEW j \in DOMAIN d, i # j, d[i].kind = "async", d[j].kind = "async"
      PROVE  d[i].async # d[j].async
    BY <1>2 DEF Awaits, Popped
<1>3. /\ \A x \in W : Resuming(x) => a[x.on[TRUE].fun].state = "awaiting"
      /\ \A x, y \in W : Resuming(x) /\ Resuming(y) /\ x.on[TRUE].fun = y.on[TRUE].fun => x = y
      /\ \A f \in Async : a[f].state = "awaiting" => \E x \in W : Resuming(x) /\ x.on[TRUE].fun = f
    BY DEF Awaits
<1> QED BY <1>1, <1>2, <1>3 DEF Awaits

\* The functions at large without the innermost frame.
LEMMA HandsPop ==
    ASSUME NEW h, NEW a, NEW b, NEW c, NEW d, Popped(c, d), \A g \in Async : b[g].fun = a[g].fun
    PROVE  Hands(h, b, d) \subseteq Hands(h, a, c)
<1>1. Hands(h, b, d) \subseteq Hands(h, a, c) \cup {}
  <2>1. h \subseteq h \cup {}
      OBVIOUS
  <2>2. \A g \in Async : b[g].fun \in {NoFun, a[g].fun} \cup {}
      OBVIOUS
  <2>3. \A i \in DOMAIN d : d[i].kind # "async" =>
            d[i].fun \in {NoFun} \cup {} \/ (i \in DOMAIN c /\ d[i] = c[i])
      BY DEF Popped
  <2> QED BY <2>1, <2>2, <2>3, HandsGrow
<1> QED BY <1>1

\* Code returns: its result goes to the function of its frame, if it has one.
LEMMA ReturnKeeps ==
    ASSUME PromisesInv, NEW v \in Values, NEW throws \in BOOLEAN, Return(v, throws)
    PROVE  PromisesInv'
<1>1. /\ calls \in Seq(Frame) /\ async \in AsyncState /\ held \subseteq Fun /\ ops \in Nat
      /\ EngineInv(eng, ran, Hands(held, async, calls), follows)
      /\ Awaits(Waits(eng), calls, async)
    BY Parts
<1>2. PICK x : x = calls[Len(calls)]
    OBVIOUS
<1>3. PICK f : f = IF x.kind = "async" THEN async[x.async].fun ELSE x.fun
    OBVIOUS
<1>4. /\ calls # <<>> /\ (throws => v = "value")
      /\ calls' = SubSeq(calls, 1, Len(calls) - 1) /\ ops' = ops
      /\ held' = held /\ ran' = ran
      /\ async' = IF x.kind = "async" THEN [async EXCEPT ![x.async].state = "done"] ELSE async
      /\ \/ /\ eng' = resolving_function_call(eng, f, throws, v)
            /\ follows' = FollowedIn(eng, f, throws, v, follows)
         \/ eng' = eng /\ follows' = follows
    BY <1>2, <1>3 DEF Return, Pop, Innermost, Followed, FollowedIn
<1>5. /\ calls' \in Seq(Frame) /\ Len(calls) \in DOMAIN calls /\ x \in Frame
      /\ \A i \in DOMAIN calls' : i \in DOMAIN calls /\ calls'[i] = calls[i] /\ i # Len(calls)
    BY <1>1, <1>2, <1>4, PopFacts
<1>6. PICK F : F = Hands(held, async, calls)
    OBVIOUS
<1>7. f \in F \cup {NoFun}
  <2>1. CASE x.kind = "async"
    <3>1. x.async \in Async /\ f = async[x.async].fun
        BY <1>3, <1>5, <2>1, FrameTypes
    <3> QED BY <1>6, <3>1 DEF Hands
  <2>2. CASE x.kind # "async"
    <3>1. f = calls[Len(calls)].fun /\ calls[Len(calls)].kind # "async"
        BY <1>2, <1>3, <2>2
    <3> QED BY <1>5, <1>6, <3>1 DEF Hands
  <2> QED BY <2>1, <2>2
<1>8. Callable(eng, F, f, throws, v)
  <2>1. throws => v \in Plain
      BY <1>4 DEF Plain
  <2> QED BY <1>7, <2>1, ValuesFacts DEF Callable
<1>9. EngineInv(eng', ran, F, follows') /\ Waits(eng') = Waits(eng)
  <2>1. CASE eng' = eng /\ follows' = follows
      BY <1>1, <1>6, <2>1
  <2>2. CASE /\ eng' = resolving_function_call(eng, f, throws, v)
             /\ follows' = FollowedIn(eng, f, throws, v, follows)
    <3>1. EngineInv(eng', ran, F, follows') /\ Called(eng, f, throws, v, eng')
        BY <1>1, <1>6, <1>8, <2>2, CallLeaves
    <3> QED BY <3>1 DEF Called
  <2> QED BY <1>4, <2>1, <2>2
<1>10. PICK b : b = async'
    OBVIOUS
<1>11. /\ b \in AsyncState /\ \A g \in Async : b[g].fun = async[g].fun
       /\ Awaits(Waits(eng), calls', b)
  <2>1. CASE x.kind = "async"
    <3>1. PICK a : a = x.async
        OBVIOUS
    <3>2. a \in Async /\ b = [async EXCEPT ![a].state = "done"]
        BY <1>4, <1>5, <1>10, <2>1, <3>1, FrameTypes
    <3>3. PICK s : s = async[a]
        OBVIOUS
    <3>4. PICK t : t = [s EXCEPT !.state = "done"]
        OBVIOUS
    <3>5. b = [async EXCEPT ![a] = t]
        BY <1>1, <3>2, <3>3, <3>4 DEF AsyncState
    <3>6. /\ t \in [state : {"none", "running", "awaiting", "done"},
                    fun : Fun \cup {NoFun}, on : Promise \cup {NoFun}]
          /\ t.state = "done" /\ t.fun = s.fun
        BY <1>1, <3>2, <3>3, <3>4 DEF AsyncState
    <3>7. /\ b \in AsyncState /\ b[a] = t /\ \A g \in Async : g # a => b[g] = async[g]
        BY <1>1, <3>2, <3>5, <3>6 DEF AsyncState
    <3>8. PICK W : W = Waits(eng)
        OBVIOUS
    <3>9. W \in SUBSET Reaction
        BY <1>1, <3>8, WaitsTypes DEF EngineInv
    <3>10. Stopped(W, calls', async, b, a)
        BY <1>1, <1>2, <1>4, <2>1, <3>1, <3>7, <3>8, <3>9, AsyncStops
    <3>11. \A g \in Async : b[g].state = "awaiting" => async[g].state = "awaiting"
        BY <3>6, <3>7
    <3>12. Awaits(W, calls', b)
        BY <1>1, <3>8, <3>10, <3>11 DEF Awaits, Stopped, FramesRun
    <3> QED BY <3>3, <3>6, <3>7, <3>8, <3>12
  <2>2. CASE x.kind # "async"
    <3>1. b = async
        BY <1>4, <1>10, <2>2
    <3>2. Awaits(Waits(eng), calls', async)
        BY <1>1, <1>5, AwaitsPop DEF Popped
    <3> QED BY <1>1, <3>1, <3>2
  <2> QED BY <2>1, <2>2
<1>12. Hands(held', async', calls') \subseteq F
  <2>1. Popped(calls, calls')
      BY <1>5 DEF Popped
  <2>2. Hands(held, b, calls') \subseteq Hands(held, async, calls)
      BY <1>11, <2>1, HandsPop
  <2> QED BY <1>4, <1>6, <1>10, <2>2
<1>13. async' \in AsyncState /\ held' \subseteq Fun /\ ops' \in Nat
    BY <1>1, <1>4, <1>10, <1>11
<1>14. EngineInv(eng', ran', F, follows')
    BY <1>4, <1>9
<1>15. Awaits(Waits(eng'), calls', async')
    BY <1>9, <1>10, <1>11
<1> QED BY <1>5, <1>12, <1>13, <1>14, <1>15, Preserved


\* What the outcome of a promise does with a reaction of it.
LEMMA HandlerKinds ==
    ASSUME NEW x \in Reaction, WellFormed(x), NEW rej \in BOOLEAN
    PROVE  /\ x.on[rej].kind = "resolving" <=> Resolving(x)
           /\ x.on[rej].kind = "resume" <=> Resuming(x)
           /\ x.on[rej].kind \in {"user", "undefined", "resolving", "resume"}
           /\ Resolving(x) => x.on[rej].fun = x.on[TRUE].fun /\ x.on[rej].rej = rej
           /\ Resuming(x) => x.on[rej].fun = x.on[TRUE].fun
<1>1. x.on[TRUE].kind \in {"user", "undefined", "resolving", "resume"}
  <2>1. x.on[TRUE] \in Handler
      BY ReactionTypes
  <2> QED BY <2>1 DEF Handler
<1>2. CASE rej = TRUE
    BY <1>1, <1>2 DEF WellFormed, Resolving, Resuming
<1>3. CASE rej = FALSE
    BY <1>1, <1>3 DEF WellFormed, Resolving, Resuming
<1> QED BY <1>2, <1>3

\* What is known when the reaction x of the first job is run: what the step
\* does, by what x does.
Ran1(x, rej, v, b) ==
    LET h == x.on[rej] IN
    /\ calls = <<>> /\ Fires(eng, x) /\ rej = Head(eng.jobs).rej /\ v = Head(eng.jobs).value
    /\ Taken(eng, b) /\ ran' = Append(ran, x) /\ held' = held /\ ops' = ops
    /\ IF h.kind \in {"undefined", "resolving"}
       THEN LET f == IF h.kind = "resolving" THEN h.fun ELSE x.cap
                w == IF h.kind = "resolving" THEN h.rej ELSE rej
            IN  /\ eng' = resolving_function_call(b, f, w, v)
                /\ follows' = FollowedIn(eng, f, w, v, follows)
                /\ calls' = calls
       ELSE /\ eng' = b /\ follows' = follows
            /\ calls' = IF h.kind = "user" THEN <<[kind |-> "handler", fun |-> x.cap]>>
                        ELSE <<[kind |-> "async", async |-> h.fun]>>
    /\ async' = IF h.kind = "resume" THEN [async EXCEPT ![h.fun].state = "running"] ELSE async

\* A reaction step is one of a reaction at the front of the queue.
LEMMA ReactionRuns ==
    ASSUME PromisesInv, ReactionStep
    PROVE  \E x, rej, v, b : Ran1(x, rej, v, b)
<1>1. PICK b : b = Dequeued
    OBVIOUS
<1>2. PICK x : x = Head(eng.jobs).reaction
    OBVIOUS
<1>3. PICK rej : rej = Head(eng.jobs).rej
    OBVIOUS
<1>4. PICK v : v = Head(eng.jobs).value
    OBVIOUS
<1>5. calls = <<>> /\ Fires(eng, x)
    BY <1>2 DEF ReactionStep, Fires, Reacts
<1>6. Taken(eng, b)
    BY <1>1, <1>5, TakenEffect DEF PromisesInv, TypeOK, Dequeued, Fires
<1>7. /\ ran' = Append(ran, x) /\ held' = held /\ ops' = ops
    BY <1>2 DEF ReactionStep
<1>8. async' = IF x.on[rej].kind = "resume" THEN [async EXCEPT ![x.on[rej].fun].state = "running"]
               ELSE async
    BY <1>2, <1>3 DEF ReactionStep
<1>9. CASE x.on[rej].kind \in {"undefined", "resolving"}
  <2>1. PICK f : f = IF x.on[rej].kind = "resolving" THEN x.on[rej].fun ELSE x.cap
      OBVIOUS
  <2>2. PICK w : w = IF x.on[rej].kind = "resolving" THEN x.on[rej].rej ELSE rej
      OBVIOUS
  <2>3. /\ eng' = resolving_function_call(b, f, w, v)
        /\ follows' = FollowedIn(eng, f, w, v, follows)
        /\ calls' = calls
      BY <1>1, <1>2, <1>3, <1>4, <1>9, <2>1, <2>2 DEF ReactionStep, Followed, FollowedIn
  <2> QED BY <1>3, <1>4, <1>5, <1>6, <1>7, <1>8, <1>9, <2>1, <2>2, <2>3 DEF Ran1
<1>10. CASE x.on[rej].kind \notin {"undefined", "resolving"}
  <2>1. /\ eng' = b /\ follows' = follows
        /\ calls' = IF x.on[rej].kind = "user" THEN <<[kind |-> "handler", fun |-> x.cap]>>
                    ELSE <<[kind |-> "async", async |-> x.on[rej].fun]>>
      BY <1>1, <1>2, <1>3, <1>10 DEF ReactionStep
  <2> QED BY <1>3, <1>4, <1>5, <1>6, <1>7, <1>8, <1>10, <2>1 DEF Ran1
<1> QED BY <1>9, <1>10

\* A reaction runs: its outcome goes on, its handler or its async function runs.
LEMMA ReactionStepKeeps ==
    ASSUME PromisesInv, ReactionStep
    PROVE  PromisesInv'
<1>1. /\ calls \in Seq(Frame) /\ async \in AsyncState /\ held \subseteq Fun /\ ops \in Nat
      /\ EngineInv(eng, ran, Hands(held, async, calls), follows)
      /\ Awaits(Waits(eng), calls, async)
    BY Parts
<1>2. PICK x, rej, v, b : Ran1(x, rej, v, b)
    BY ReactionRuns
<1>3. /\ calls = <<>> /\ Fires(eng, x) /\ rej = Head(eng.jobs).rej /\ v = Head(eng.jobs).value
      /\ Taken(eng, b) /\ ran' = Append(ran, x) /\ held' = held /\ ops' = ops
      /\ async' = IF x.on[rej].kind = "resume" THEN [async EXCEPT ![x.on[rej].fun].state = "running"]
                  ELSE async
    BY <1>2 DEF Ran1
<1>4. PICK H : H = Hands(held, async, calls)
    OBVIOUS
<1>5. PICK F : F = H \cup Freed(x)
    OBVIOUS
<1>6. PICK s : s = Append(ran, x)
    OBVIOUS
<1>7. EngineInv(b, s, F, Unfollowed(x, follows)) /\ ReactionTaken(eng, x, b)
  <2>1. EngineInv(eng, ran, H, follows)
      BY <1>1, <1>4
  <2>2. /\ EngineInv(b, Append(ran, x), H \cup Freed(x), Unfollowed(x, follows))
        /\ ReactionTaken(eng, x, b)
      BY <1>3, <2>1, TakeReactionKeeps
  <2> QED BY <1>5, <1>6, <2>2
<1>8. /\ x \in Reaction /\ x \in Waits(eng) /\ Waits(b) = Waits(eng) \ {x}
      /\ b.already = eng.already
      /\ WellFormed(x) /\ rej \in BOOLEAN /\ v \in Plain
    BY <1>3, <1>7 DEF ReactionTaken
<1>9. /\ x.on[rej].kind = "resolving" <=> Resolving(x)
      /\ x.on[rej].kind = "resume" <=> Resuming(x)
      /\ x.on[rej].kind \in {"user", "undefined", "resolving", "resume"}
      /\ Resolving(x) => x.on[rej].fun = x.on[TRUE].fun /\ x.on[rej].rej = rej
      /\ Resuming(x) => x.on[rej].fun = x.on[TRUE].fun
    BY <1>8, HandlerKinds
<1>10. v \in Value /\ v \notin Promise
    BY <1>8, ValueKinds
<1>11. x.cap \in Fun \cup {NoFun} /\ (Resuming(x) => x.on[TRUE].fun \in Async)
    BY <1>8, ReactionTypes
<1>12. \A f, w : FollowedIn(eng, f, w, v, follows) = follows /\ FollowedIn(b, f, w, v, follows) = follows
    BY <1>10 DEF FollowedIn
<1>13. CASE Resolving(x)
  <2>1. PICK f : f = x.on[TRUE].fun
      OBVIOUS
  <2>2. x.on[rej].kind = "resolving" /\ x.on[rej].fun = f /\ x.on[rej].rej = rej
      BY <1>9, <1>13, <2>1
  <2>3. /\ eng' = resolving_function_call(b, f, rej, v)
        /\ follows' = FollowedIn(eng, f, rej, v, follows)
        /\ calls' = calls /\ async' = async
      BY <1>2, <1>3, <2>2 DEF Ran1
  <2>4. EngineInv(eng', Append(ran, x), H, follows) /\ Waits(eng') = Waits(eng) \ {x}
    <3>1. EngineInv(eng, ran, H, follows)
        BY <1>1, <1>4
    <3>2. PassedOn(eng, b, x, eng')
        BY <1>3, <2>1, <2>3 DEF PassedOn
    <3>3. EngineInv(eng', Append(ran, x), H, follows) /\ Gone(eng, x, eng')
        BY <1>3, <1>13, <3>1, <3>2, PassKeeps
    <3> QED BY <3>3 DEF Gone
  <2>5. \A y : Resuming(y) => (y \in Waits(eng') <=> y \in Waits(eng))
    <3>1. ~Resuming(x)
        BY <1>13 DEF Resuming, Resolving
    <3> QED BY <2>4, <3>1
  <2>6. Awaits(Waits(eng'), calls', async')
    <3>1. Awaits(Waits(eng), calls, async)
        BY <1>1
    <3>2. Awaits(Waits(eng'), calls, async)
        BY <2>5, <3>1, AwaitsMoved
    <3> QED BY <2>3, <3>2
  <2>7. EngineInv(eng', ran', H, follows')
      BY <1>3, <1>12, <2>3, <2>4
  <2>8. /\ calls' \in Seq(Frame) /\ async' \in AsyncState /\ held' \subseteq Fun /\ ops' \in Nat
        /\ Hands(held', async', calls') \subseteq H
      BY <1>1, <1>3, <1>4, <2>3
  <2> QED BY <2>6, <2>7, <2>8, Preserved
<1>14. CASE ~Resolving(x)
  <2>1. EngineInv(b, s, F, follows) /\ F = H \cup ({x.cap} \ {NoFun})
      BY <1>5, <1>7, <1>14 DEF Unfollowed, Freed
  <2>2. CASE x.on[rej].kind = "undefined"
    <3>1. /\ eng' = resolving_function_call(b, x.cap, rej, v)
          /\ follows' = FollowedIn(eng, x.cap, rej, v, follows)
          /\ calls' = calls /\ async' = async
        BY <1>2, <1>3, <2>2 DEF Ran1
    <3>2. Callable(b, F, x.cap, rej, v)
        BY <1>8, <1>10, <2>1 DEF Callable
    <3>3. EngineInv(eng', s, F, follows) /\ Called(b, x.cap, rej, v, eng')
      <4>1. /\ EngineInv(resolving_function_call(b, x.cap, rej, v), s, F,
                         FollowedIn(b, x.cap, rej, v, follows))
            /\ Called(b, x.cap, rej, v, resolving_function_call(b, x.cap, rej, v))
          BY <2>1, <3>2, CallLeaves
      <4> QED BY <1>12, <3>1, <4>1
    <3>4. Waits(eng') = Waits(eng) \ {x}
        BY <1>8, <3>3 DEF Called
    <3>5. \A y : Resuming(y) => (y \in Waits(eng') <=> y \in Waits(eng))
        BY <1>9, <2>2, <3>4
    <3>6. Awaits(Waits(eng'), calls', async')
      <4>1. Awaits(Waits(eng), calls, async)
          BY <1>1
      <4>2. Awaits(Waits(eng'), calls, async)
          BY <3>5, <4>1, AwaitsMoved
      <4> QED BY <3>1, <4>2
    <3>7. EngineInv(eng', ran', F, follows')
        BY <1>3, <1>6, <1>12, <3>1, <3>3
    <3>8. /\ calls' \in Seq(Frame) /\ async' \in AsyncState /\ held' \subseteq Fun /\ ops' \in Nat
          /\ Hands(held', async', calls') \subseteq F
        BY <1>1, <1>3, <1>4, <2>1, <3>1
    <3> QED BY <3>6, <3>7, <3>8, Preserved
  <2>3. CASE x.on[rej].kind = "user"
    <3>1. PICK z : z = [kind |-> "handler", fun |-> x.cap]
        OBVIOUS
    <3>2. /\ eng' = b /\ follows' = follows /\ calls' = <<z>> /\ async' = async
        BY <1>2, <1>3, <2>3, <3>1 DEF Ran1
    <3>3. z \in Frame /\ z.kind = "handler" /\ z.fun = x.cap
        BY <1>11, <3>1 DEF Frame
    <3>4. calls' \in Seq(Frame) /\ \A i \in DOMAIN calls' : calls'[i] = z
        BY <3>2, <3>3, OneFrame
    <3>5. Hands(held', async', calls') \subseteq F
      <4>1. PICK G : G = {x.cap} \ {NoFun}
          OBVIOUS
      <4>2. held' \subseteq held \cup G
          BY <1>3
      <4>3. \A g \in Async : async'[g].fun \in {NoFun, async[g].fun} \cup G
          BY <3>2
      <4>4. \A i \in DOMAIN calls' : calls'[i].kind # "async" =>
                calls'[i].fun \in {NoFun} \cup G \/ (i \in DOMAIN calls /\ calls'[i] = calls[i])
          BY <3>3, <3>4, <4>1
      <4> QED BY <1>4, <2>1, <4>1, <4>2, <4>3, <4>4, HandsGrow
    <3>6. Awaits(Waits(eng'), calls', async')
      <4>1. \A i \in DOMAIN calls' : calls'[i].kind # "async"
          BY <3>3, <3>4
      <4>2. \A y : Resuming(y) => (y \in Waits(eng') <=> y \in Waits(eng))
          BY <1>8, <1>9, <2>3, <3>2
      <4> QED BY <1>1, <3>2, <4>1, <4>2, AwaitsSame
    <3>7. EngineInv(eng', ran', F, follows')
        BY <1>3, <1>6, <2>1, <3>2
    <3>8. async' \in AsyncState /\ held' \subseteq Fun /\ ops' \in Nat
        BY <1>1, <1>3, <3>2
    <3> QED BY <3>4, <3>5, <3>6, <3>7, <3>8, Preserved
  <2>4. CASE x.on[rej].kind = "resume"
    <3>1. PICK f \in Async : f = x.on[TRUE].fun /\ f = x.on[rej].fun
        BY <1>9, <1>11, <2>4
    <3>2. PICK z : z = [kind |-> "async", async |-> f]
        OBVIOUS
    <3>3. PICK a : a = async'
        OBVIOUS
    <3>4. /\ eng' = b /\ follows' = follows /\ calls' = <<z>>
          /\ a = [async EXCEPT ![f].state = "running"]
        BY <1>2, <1>3, <2>4, <3>1, <3>2, <3>3 DEF Ran1
    <3>5. z \in Frame /\ z.kind = "async" /\ z.async = f
        BY <3>2 DEF Frame
    <3>6. calls' \in Seq(Frame) /\ \A i \in DOMAIN calls' : calls'[i] = z /\ i = 1
        BY <3>4, <3>5, OneFrame
    <3>7. /\ a \in AsyncState /\ a[f].state = "running" /\ a[f].fun = async[f].fun
          /\ \A g \in Async : g # f => a[g] = async[g]
      <4>1. PICK t : t = async[f]
          OBVIOUS
      <4>2. PICK u : u = [t EXCEPT !.state = "running"]
          OBVIOUS
      <4>3. a = [async EXCEPT ![f] = u]
          BY <1>1, <3>4, <4>1, <4>2 DEF AsyncState
      <4>4. /\ u \in [state : {"none", "running", "awaiting", "done"},
                      fun : Fun \cup {NoFun}, on : Promise \cup {NoFun}]
            /\ u.state = "running" /\ u.fun = t.fun
          BY <1>1, <4>1, <4>2 DEF AsyncState
      <4> QED BY <1>1, <4>1, <4>3, <4>4 DEF AsyncState
    <3>8. Hands(held', a, calls') \subseteq F
      <4>1. held' \subseteq held \cup {}
          BY <1>3
      <4>2. \A g \in Async : a[g].fun \in {NoFun, async[g].fun} \cup {}
          BY <3>7
      <4>3. \A i \in DOMAIN calls' : calls'[i].kind # "async" =>
                calls'[i].fun \in {NoFun} \cup {} \/ (i \in DOMAIN calls /\ calls'[i] = calls[i])
          BY <3>5, <3>6
      <4>4. Hands(held', a, calls') \subseteq Hands(held, async, calls) \cup {}
          BY <4>1, <4>2, <4>3, HandsGrow
      <4> QED BY <1>4, <2>1, <4>4
    <3>9. Resuming(x) /\ Waits(eng') = Waits(eng) \ {x} /\ Waits(eng) \subseteq Reaction
        BY <1>1, <1>8, <1>9, <2>4, <3>4, WaitsTypes DEF EngineInv
    <3>10. Awaits(Waits(eng'), calls', a)
      <4>1. \A i \in DOMAIN calls' : calls'[i].kind = "async" => a[calls'[i].async].state = "running"
          BY <3>5, <3>6, <3>7
      <4>2. \A i, j \in DOMAIN calls' : i = j
          BY <3>6
      <4>3. ASSUME NEW y \in Waits(eng'), Resuming(y)
            PROVE  a[y.on[TRUE].fun].state = "awaiting"
        <5>1. PICK g \in Async : g = y.on[TRUE].fun
            BY <3>9, <4>3, ReactionTypes
        <5>2. g # f
            BY <1>1, <1>8, <3>1, <3>9, <4>3, <5>1 DEF Awaits
        <5>3. async[g].state = "awaiting"
            BY <1>1, <3>9, <4>3, <5>1 DEF Awaits
        <5> QED BY <3>7, <5>1, <5>2, <5>3
      <4>4. \A y, u \in Waits(eng') :
                Resuming(y) /\ Resuming(u) /\ y.on[TRUE].fun = u.on[TRUE].fun => y = u
          BY <1>1, <3>9 DEF Awaits
      <4>5. ASSUME NEW g \in Async, a[g].state = "awaiting"
            PROVE  \E y \in Waits(eng') : Resuming(y) /\ y.on[TRUE].fun = g
        <5>1. g # f /\ async[g].state = "awaiting"
            BY <3>7, <4>5
        <5>2. PICK y \in Waits(eng) : Resuming(y) /\ y.on[TRUE].fun = g
            BY <1>1, <5>1 DEF Awaits
        <5> QED BY <3>1, <3>9, <5>1, <5>2
      <4> QED BY <4>1, <4>2, <4>3, <4>4, <4>5 DEF Awaits
    <3>11. EngineInv(eng', ran', F, follows')
        BY <1>3, <1>6, <2>1, <3>4
    <3>12. async' \in AsyncState /\ held' \subseteq Fun /\ ops' \in Nat
        BY <1>1, <1>3, <3>3, <3>7
    <3>13. Hands(held', async', calls') \subseteq F /\ Awaits(Waits(eng'), calls', async')
        BY <3>3, <3>8, <3>10
    <3> QED BY <3>6, <3>11, <3>12, <3>13, Preserved
  <2> QED BY <1>9, <1>14, <2>2, <2>3, <2>4
<1> QED BY <1>13, <1>14


\* A thenable job runs: a promise gets a reaction, another object is called.
LEMMA ThenableStepKeeps ==
    ASSUME PromisesInv, ThenableStep
    PROVE  PromisesInv'
<1>1. /\ calls \in Seq(Frame) /\ async \in AsyncState /\ held \subseteq Fun /\ ops \in Nat
      /\ EngineInv(eng, ran, Hands(held, async, calls), follows)
      /\ Awaits(Waits(eng), calls, async)
    BY Parts
<1>2. PICK b : b = Dequeued
    OBVIOUS
<1>3. PICK p : p = Head(eng.jobs).promise
    OBVIOUS
<1>4. PICK t : t = Head(eng.jobs).thenable
    OBVIOUS
<1>5. PICK f : f = [promise |-> p, n |-> eng.promise[p].funs + 1]
    OBVIOUS
<1>6. PICK c : c = [b EXCEPT !.promise[p].funs = @ + 1]
    OBVIOUS
<1>7. /\ calls = <<>> /\ eng.jobs # <<>> /\ ~Reacts(Head(eng.jobs))
      /\ async' = async /\ ops' = ops /\ ran' = ran /\ follows' = follows
    BY DEF ThenableStep, Reacts
<1>8. IF t \in Promise
      THEN eng' = perform_promise_then(c, t, Handlers(f), NoFun) /\ calls' = calls /\ held' = held
      ELSE /\ eng' = c /\ calls' = <<[kind |-> "then", fun |-> f]>>
           /\ held' = held \cup {f}
    BY <1>2, <1>3, <1>4, <1>5, <1>6 DEF ThenableStep, Handlers
<1>9. eng \in Engine
    BY <1>1 DEF EngineInv
<1>10. Taken(eng, b)
    BY <1>2, <1>7, <1>9, TakenEffect DEF Dequeued
<1>11. Asks(eng, p, t)
    BY <1>3, <1>4, <1>7 DEF Asks
<1>12. NewPair(b, p, c)
  <2>1. b \in Engine /\ 1 \in DOMAIN eng.jobs /\ Head(eng.jobs) = eng.jobs[1] /\ eng.jobs[1] \in Job
      BY <1>10 DEF Taken
  <2>2. p \in Promise
      BY <1>3, <1>7, <2>1, JobTypes
  <2> QED BY <1>6, <2>1, <2>2, NewPairEffect
<1>13. PICK H : H = Hands(held, async, calls)
    OBVIOUS
<1>14. EngineInv(eng, ran, H, follows)
    BY <1>1, <1>13
<1>15. CASE t \in Promise
  <2>1. PICK d : d = eng'
      OBVIOUS
  <2>2. d = perform_promise_then(c, t, Handlers(f), NoFun)
      BY <1>8, <1>15, <2>1
  <2>3. EngineInv(d, ran, H, follows) /\ \E x : Resolving(x) /\ Waits(d) = Waits(eng) \cup {x}
      BY <1>5, <1>10, <1>11, <1>12, <1>14, <1>15, <2>2, AdoptKeeps
  <2>4. \A y : Resuming(y) => (y \in Waits(d) <=> y \in Waits(eng))
      BY <2>3 DEF Resolving, Resuming
  <2>5. Awaits(Waits(d), calls, async)
      BY <1>1, <2>4 DEF Awaits
  <2>6. /\ calls' \in Seq(Frame) /\ async' \in AsyncState /\ held' \subseteq Fun /\ ops' \in Nat
        /\ Hands(held', async', calls') \subseteq H
      BY <1>1, <1>7, <1>8, <1>13, <1>15
  <2>7. EngineInv(eng', ran', H, follows') /\ Awaits(Waits(eng'), calls', async')
      BY <1>7, <1>8, <1>15, <2>1, <2>3, <2>5
  <2> QED BY <2>6, <2>7, Preserved
<1>16. CASE t \notin Promise
  <2>1. EngineInv(c, ran, H \cup {f}, follows) /\ f \in Fun /\ Waits(c) = Waits(eng)
      BY <1>5, <1>10, <1>11, <1>12, <1>14, <1>16, AskedObject
  <2>2. PICK z : z = [kind |-> "then", fun |-> f]
      OBVIOUS
  <2>3. eng' = c /\ calls' = <<z>> /\ held' = held \cup {f}
      BY <1>8, <1>16, <2>2
  <2>4. z \in Frame /\ z.kind = "then" /\ z.fun = f
      BY <2>1, <2>2 DEF Frame
  <2>5. calls' \in Seq(Frame) /\ \A i \in DOMAIN calls' : calls'[i] = z
      BY <2>3, <2>4, OneFrame
  <2>6. Hands(held', async', calls') \subseteq H \cup {f}
    <3>1. held' \subseteq held \cup {f}
        BY <2>3
    <3>2. \A g \in Async : async'[g].fun \in {NoFun, async[g].fun} \cup {f}
        BY <1>7
    <3>3. \A i \in DOMAIN calls' : calls'[i].kind # "async" =>
              calls'[i].fun \in {NoFun} \cup {f} \/ (i \in DOMAIN calls /\ calls'[i] = calls[i])
        BY <2>4, <2>5
    <3> QED BY <1>13, <3>1, <3>2, <3>3, HandsGrow
  <2>7. Awaits(Waits(eng'), calls', async')
    <3>1. \A i \in DOMAIN calls' : calls'[i].kind # "async"
        BY <2>4, <2>5
    <3>2. \A y : Resuming(y) => (y \in Waits(eng') <=> y \in Waits(eng))
        BY <2>1, <2>3
    <3> QED BY <1>1, <1>7, <3>1, <3>2, AwaitsSame
  <2>8. EngineInv(eng', ran', H \cup {f}, follows')
      BY <1>7, <2>1, <2>3
  <2>9. async' \in AsyncState /\ held' \subseteq Fun /\ ops' \in Nat
      BY <1>1, <1>7, <2>1, <2>3
  <2> QED BY <2>5, <2>6, <2>7, <2>8, <2>9, Preserved
<1> QED BY <1>15, <1>16

\* Nothing is there at first.
LEMMA InitHolds ==
    ASSUME Init
    PROVE  PromisesInv
<1>1. PICK w : w = NewPromise
    OBVIOUS
<1>2. /\ w \in PromiseData /\ w.state = "none" /\ w.result = "value" /\ w.reactions = <<>>
      /\ w.handled = FALSE /\ w.funs = 0
    BY <1>1 DEF NewPromise, PromiseData, States, Value
<1>3. PICK P : P = [p \in Promise |-> w]
    OBVIOUS
<1>4. eng = [promise |-> P, jobs |-> <<>>, already |-> {}, unhandled |-> {}, thens |-> 0]
    BY <1>1, <1>3 DEF Init
<1>5. P \in [Promise -> PromiseData] /\ \A p \in Promise : P[p] = w
    BY <1>2, <1>3
<1>6. <<>> \in Seq(Job) /\ <<>> \in Seq(Reaction) /\ <<>> \in Seq(Frame)
    OBVIOUS
<1>7. /\ eng \in Engine /\ eng.promise = P /\ eng.jobs = <<>> /\ eng.already = {}
      /\ eng.unhandled = {} /\ eng.thens = 0
    BY <1>4, <1>5, <1>6 DEF Engine
<1>8. /\ calls = <<>> /\ held = {} /\ ops = 0 /\ ran = <<>>
      /\ async = [f \in Async |-> [state |-> "none", fun |-> NoFun, on |-> NoFun]]
      /\ follows = [p \in Promise |-> NoFun]
    BY DEF Init
<1>9. /\ async \in AsyncState
      /\ \A f \in Async : async[f].state = "none" /\ async[f].fun = NoFun
    BY <1>8 DEF AsyncState
<1>10. Queued(eng) = {} /\ Listed(eng) = {} /\ Waits(eng) = {} /\ Ran(ran) = {}
  <2>1. Queued(eng) = {}
      BY <1>7 DEF Queued
  <2>2. Listed(eng) = {}
      BY <1>2, <1>5, <1>7 DEF Listed
  <2>3. Ran(ran) = {}
      BY <1>8 DEF Ran
  <2> QED BY <2>1, <2>2, <2>3 DEF Waits
<1>11. Hands(held, async, calls) = {}
    BY <1>8, <1>9 DEF Hands
<1>12. \A p \in Promise : eng.promise[p] = w
    BY <1>5, <1>7
<1>13. Ordered(eng, ran)
    BY <1>2, <1>7, <1>8, <1>10, <1>12 DEF Ordered
<1>14. Numbered(eng, ran)
  <2>1. {x.id : x \in Ran(ran) \cup Waits(eng)} = {}
      BY <1>10
  <2>2. 1..0 = {}
      OBVIOUS
  <2> QED BY <1>7, <2>1, <2>2 DEF Numbered
<1>15. Truthful(eng) /\ Asked(eng)
    BY <1>2, <1>7, <1>12 DEF Truthful, Asked, Plain
<1>16. Pairs(eng)
    BY <1>2, <1>7, <1>12 DEF Pairs, Settlements
<1>17. Handled(eng, ran)
    BY <1>2, <1>7, <1>10, <1>12 DEF Handled
<1>18. Sole(eng, {})
    BY <1>10 DEF Sole
<1>19. FollowOK(eng, follows)
    BY <1>8 DEF FollowOK
<1>20. EngineInv(eng, ran, {}, follows)
  <2>1. follows \in [Promise -> Promise \cup {NoFun}]
      BY <1>8
  <2> QED BY <1>6, <1>7, <1>8, <1>13, <1>14, <1>15, <1>16, <1>17, <1>18, <1>19, <2>1 DEF EngineInv
<1>21. Awaits(Waits(eng), calls, async)
    BY <1>8, <1>9, <1>10 DEF Awaits
<1>22. TypeOK
    BY <1>6, <1>8, <1>9, <1>20 DEF TypeOK, EngineInv, AsyncState
<1> QED BY <1>11, <1>20, <1>21, <1>22 DEF PromisesInv

\* Every step keeps the invariant.
LEMMA NextKeeps ==
    ASSUME PromisesInv, [Next]_vars
    PROVE  PromisesInv'
<1>1. CASE StartScript
    BY <1>1, StartScriptKeeps
<1>2. CASE New
    BY <1>2, NewActionKeeps
<1>3. ASSUME NEW f \in held, NEW rej \in BOOLEAN, NEW v \in Values, Call(f, rej, v)
      PROVE  PromisesInv'
    BY <1>3, CallActionKeeps
<1>4. ASSUME NEW p \in Promise, NEW k \in {"user", "undefined"}, Then(p, [kind |-> k])
      PROVE  PromisesInv'
    BY <1>4, ThenActionKeeps
<1>5. ASSUME NEW f \in Async, CallAsync(f)
      PROVE  PromisesInv'
    BY <1>5, CallAsyncKeeps
<1>6. ASSUME NEW v \in Values, Await(v)
      PROVE  PromisesInv'
    BY <1>6, AwaitKeeps
<1>7. ASSUME NEW v \in Values, NEW throws \in BOOLEAN, Return(v, throws)
      PROVE  PromisesInv'
    BY <1>7, ReturnKeeps
<1>8. CASE ReactionStep
    BY <1>8, ReactionStepKeeps
<1>9. CASE ThenableStep
    BY <1>9, ThenableStepKeeps
<1>10. CASE UNCHANGED vars
    BY <1>10 DEF vars, PromisesInv, TypeOK
<1>11. CASE Program
    BY <1>2, <1>3, <1>4, <1>5, <1>6, <1>11 DEF Program
<1>12. CASE Returns
    BY <1>7, <1>12 DEF Returns
<1>13. CASE ExecutePendingJob
    BY <1>8, <1>9, <1>13 DEF ExecutePendingJob
<1> QED BY <1>1, <1>10, <1>11, <1>12, <1>13 DEF Next

\* Promises, whatever code does with them, keep the inductive invariant.
THEOREM PromisesInvariant == Spec => []PromisesInv
<1>1. Init => PromisesInv
    BY InitHolds
<1>2. PromisesInv /\ [Next]_vars => PromisesInv'
    BY NextKeeps
<1> QED BY <1>1, <1>2, PTL DEF Spec


-----------------------------------------------------------------------------
\* What the inductive invariant says of the places of reactions.

\* The places: among the reactions that ran, in the queue, on a list.
AtRan(x, r) == x.stage = 0 /\ x.list = NoFun /\ x.at \in DOMAIN r /\ x.reaction = r[x.at]

AtJob(x, e) ==
    /\ x.stage = 1 /\ x.list = NoFun /\ x.at \in DOMAIN e.jobs /\ Reacts(e.jobs[x.at])
    /\ x.reaction = e.jobs[x.at].reaction

AtList(x, e) ==
    /\ x.stage = 2 /\ x.list \in Promise /\ x.at \in DOMAIN e.promise[x.list].reactions
    /\ x.reaction = e.promise[x.list].reactions[x.at]

\* A place of a reaction is among those that ran, in the queue or on a list.
LEMMA PlaceCases ==
    ASSUME NEW e, NEW r, NEW x \in Places(e, r)
    PROVE  /\ AtRan(x, r) \/ AtJob(x, e) \/ AtList(x, e)
           /\ x = [stage |-> x.stage, list |-> x.list, at |-> x.at, reaction |-> x.reaction]
<1>1. CASE x \in {[stage |-> 0, list |-> NoFun, at |-> i, reaction |-> r[i]] : i \in DOMAIN r}
    BY <1>1 DEF AtRan
<1>2. CASE x \in {[stage |-> 1, list |-> NoFun, at |-> i, reaction |-> e.jobs[i].reaction] :
                     i \in {i \in DOMAIN e.jobs : e.jobs[i].kind = "reaction"}}
    BY <1>2 DEF AtJob, Reacts
<1>3. CASE \E p \in Promise : \E i \in DOMAIN e.promise[p].reactions :
               x = [stage |-> 2, list |-> p, at |-> i, reaction |-> e.promise[p].reactions[i]]
    BY <1>3 DEF AtList
<1> QED BY <1>1, <1>2, <1>3 DEF Places

\* Every reaction that ran, or waits, has its place.
LEMMA PlaceOf ==
    ASSUME NEW e, NEW r, NEW w
    PROVE  /\ w \in Ran(r) => \E x \in Places(e, r) : x.reaction = w
           /\ w \in Waits(e) => \E x \in Places(e, r) : x.reaction = w /\ x.stage > 0
<1>1. ASSUME w \in Ran(r) PROVE \E x \in Places(e, r) : x.reaction = w
  <2>1. PICK i \in DOMAIN r : w = r[i]
      BY <1>1 DEF Ran
  <2>2. [stage |-> 0, list |-> NoFun, at |-> i, reaction |-> r[i]] \in Places(e, r)
      BY DEF Places
  <2> QED BY <2>1, <2>2
<1>2. ASSUME w \in Queued(e) PROVE \E x \in Places(e, r) : x.reaction = w /\ x.stage > 0
  <2>1. PICK i \in DOMAIN e.jobs : Reacts(e.jobs[i]) /\ w = e.jobs[i].reaction
      BY <1>2, QueuedIs
  <2>2. [stage |-> 1, list |-> NoFun, at |-> i, reaction |-> e.jobs[i].reaction] \in Places(e, r)
      BY <2>1 DEF Places, Reacts
  <2> QED BY <2>1, <2>2
<1>3. ASSUME w \in Listed(e) PROVE \E x \in Places(e, r) : x.reaction = w /\ x.stage > 0
  <2>1. PICK p \in Promise : \E i \in DOMAIN e.promise[p].reactions : w = e.promise[p].reactions[i]
      BY <1>3, QueuedIs
  <2>2. PICK i \in DOMAIN e.promise[p].reactions : w = e.promise[p].reactions[i]
      BY <2>1
  <2>3. [stage |-> 2, list |-> p, at |-> i, reaction |-> e.promise[p].reactions[i]] \in Places(e, r)
      BY DEF Places
  <2> QED BY <2>2, <2>3
<1> QED BY <1>1, <1>2, <1>3 DEF Waits

\* Where the reaction of a place is.
LEMMA PlaceReaction ==
    ASSUME NEW e, NEW r, NEW x \in Places(e, r)
    PROVE  /\ AtRan(x, r) => x.reaction \in Ran(r)
           /\ AtJob(x, e) => x.reaction \in Queued(e)
           /\ AtList(x, e) => x.reaction \in Listed(e)
           /\ x.reaction \in Ran(r) \cup Waits(e)
           /\ x.stage > 0 => x.reaction \in Waits(e)
<1>1. AtRan(x, r) => x.reaction \in Ran(r) /\ ~(x.stage > 0)
    BY DEF AtRan, Ran
<1>2. AtJob(x, e) => x.reaction \in Queued(e)
    BY QueuedIs DEF AtJob
<1>3. AtList(x, e) => x.reaction \in Listed(e)
    BY QueuedIs DEF AtList
<1> QED BY <1>1, <1>2, <1>3, PlaceCases DEF Waits

\* The number of a reaction tells its place.
LEMMA OnePlace ==
    ASSUME NEW e, NEW r, NEW F, NEW fo, EngineInv(e, r, F, fo),
           NEW x \in Places(e, r), NEW y \in Places(e, r), x.reaction.id = y.reaction.id
    PROVE  x = y
<1>1. e \in Engine /\ r \in Seq(Reaction) /\ Ordered(e, r)
    BY DEF EngineInv
<1>2. /\ AtRan(x, r) \/ AtJob(x, e) \/ AtList(x, e)
      /\ AtRan(y, r) \/ AtJob(y, e) \/ AtList(y, e)
    BY PlaceCases
<1>3. \A a, b : Lt(a, b) => a.id # b.id
    BY DEF Lt
<1>4. CASE AtRan(x, r) /\ AtRan(y, r)
  <2>1. x.at \in Nat /\ y.at \in Nat
      BY <1>1, <1>4 DEF AtRan
  <2>2. x.at = y.at
      BY <1>1, <1>3, <1>4, <2>1 DEF AtRan, Ordered
  <2> QED BY <1>4, <2>2, PlaceCases DEF AtRan
<1>5. CASE AtJob(x, e) /\ AtJob(y, e)
  <2>1. e.jobs \in Seq(Job)
      BY <1>1, EngineTypes
  <2>2. x.at \in Nat /\ y.at \in Nat
      BY <1>5, <2>1 DEF AtJob
  <2>3. x.at = y.at
      BY <1>1, <1>3, <1>5, <2>2 DEF AtJob, Ordered
  <2> QED BY <1>5, <2>3, PlaceCases DEF AtJob
<1>6. CASE AtList(x, e) /\ AtList(y, e)
  <2>1. x.list = y.list
      BY <1>1, <1>6 DEF AtList, Ordered
  <2>2. PICK p \in Promise : p = x.list
      BY <1>6 DEF AtList
  <2>3. e.promise[p] \in PromiseData
      BY <1>1, EngineTypes
  <2>4. e.promise[p].reactions \in Seq(Reaction)
      BY <2>3, DataTypes
  <2>5. x.at \in Nat /\ y.at \in Nat
      BY <1>6, <2>1, <2>2, <2>4 DEF AtList
  <2>6. x.at = y.at
      BY <1>1, <1>3, <1>6, <2>1, <2>2, <2>5 DEF AtList, Ordered
  <2> QED BY <1>6, <2>1, <2>6, PlaceCases DEF AtList
<1>7. CASE AtRan(x, r) /\ ~AtRan(y, r)
  <2>1. x.reaction \in Ran(r) /\ y.reaction \in Waits(e)
      BY <1>2, <1>7, PlaceReaction DEF Waits
  <2> QED BY <1>1, <1>3, <2>1 DEF Ordered
<1>8. CASE AtRan(y, r) /\ ~AtRan(x, r)
  <2>1. y.reaction \in Ran(r) /\ x.reaction \in Waits(e)
      BY <1>2, <1>8, PlaceReaction DEF Waits
  <2> QED BY <1>1, <1>3, <2>1 DEF Ordered
<1>9. CASE AtJob(x, e) /\ AtList(y, e)
  <2>1. x.reaction \in Queued(e) /\ y.reaction \in Listed(e)
      BY <1>9, PlaceReaction
  <2> QED BY <1>1, <1>3, <2>1 DEF Ordered
<1>10. CASE AtJob(y, e) /\ AtList(x, e)
  <2>1. y.reaction \in Queued(e) /\ x.reaction \in Listed(e)
      BY <1>10, PlaceReaction
  <2> QED BY <1>1, <1>3, <2>1 DEF Ordered
<1> QED BY <1>2, <1>4, <1>5, <1>6, <1>7, <1>8, <1>9, <1>10

\* Reactions of one promise run in the order of their numbers.
LEMMA PlacesOrdered ==
    ASSUME NEW e, NEW r, NEW F, NEW fo, EngineInv(e, r, F, fo),
           NEW x \in Places(e, r), NEW y \in Places(e, r),
           x.reaction.of = y.reaction.of, Earlier(x, y)
    PROVE  x.reaction.id < y.reaction.id
<1>1. e \in Engine /\ Ordered(e, r) /\ Truthful(e)
    BY DEF EngineInv
<1>2. /\ AtRan(x, r) \/ AtJob(x, e) \/ AtList(x, e)
      /\ AtRan(y, r) \/ AtJob(y, e) \/ AtList(y, e)
    BY PlaceCases
<1>3. SUFFICES Lt(x.reaction, y.reaction)
    BY DEF Lt
<1>4. CASE AtRan(x, r) /\ AtRan(y, r)
    BY <1>1, <1>4 DEF AtRan, Earlier, Ordered
<1>5. CASE AtRan(x, r) /\ ~AtRan(y, r)
  <2>1. x.reaction \in Ran(r) /\ y.reaction \in Waits(e)
      BY <1>2, <1>5, PlaceReaction DEF Waits
  <2> QED BY <1>1, <2>1 DEF Ordered
<1>6. CASE AtJob(x, e) /\ AtJob(y, e)
    BY <1>1, <1>6 DEF AtJob, Earlier, Ordered
<1>7. CASE AtJob(x, e) /\ AtList(y, e)
  <2>1. x.reaction \in Queued(e) /\ y.reaction \in Listed(e)
      BY <1>7, PlaceReaction
  <2> QED BY <1>1, <2>1 DEF Ordered
<1>8. CASE AtList(x, e) /\ AtList(y, e)
  <2>1. x.list = y.list
    <3>1. \A p \in Promise : \A i \in DOMAIN e.promise[p].reactions : e.promise[p].reactions[i].of = p
        BY <1>1 DEF Truthful
    <3>2. /\ x.list \in Promise /\ x.at \in DOMAIN e.promise[x.list].reactions
          /\ x.reaction = e.promise[x.list].reactions[x.at]
        BY <1>8 DEF AtList
    <3>3. /\ y.list \in Promise /\ y.at \in DOMAIN e.promise[y.list].reactions
          /\ y.reaction = e.promise[y.list].reactions[y.at]
        BY <1>8 DEF AtList
    <3>4. e.promise[x.list].reactions[x.at].of = x.list /\ e.promise[y.list].reactions[y.at].of = y.list
        BY <3>1, <3>2, <3>3
    <3> QED BY <3>2, <3>3, <3>4
  <2>2. x.at < y.at
      BY <1>8 DEF AtList, Earlier
  <2> QED BY <1>1, <1>8, <2>1, <2>2 DEF AtList, Ordered
<1>9. ~(AtJob(x, e) /\ AtRan(y, r)) /\ ~(AtList(x, e) /\ AtRan(y, r)) /\ ~(AtList(x, e) /\ AtJob(y, e))
    BY DEF AtRan, AtJob, AtList, Earlier
<1> QED BY <1>2, <1>4, <1>5, <1>6, <1>7, <1>8, <1>9

\* InOrder: the reactions are at one place each, in the order of their calls.
LEMMA InOrderHolds ==
    ASSUME PromisesInv
    PROVE  InOrder
<1>1. PICK F : F = Hands(held, async, calls)
    OBVIOUS
<1>2. EngineInv(eng, ran, F, follows)
    BY <1>1 DEF PromisesInv
<1>3. ASSUME NEW id \in 1..eng.thens
      PROVE  Cardinality({x \in Places(eng, ran) : x.reaction.id = id}) = 1
  <2>1. PICK w \in Ran(ran) \cup Waits(eng) : w.id = id
      BY <1>2 DEF EngineInv, Numbered
  <2>2. PICK x \in Places(eng, ran) : x.reaction = w
      BY PlaceOf
  <2>3. \A y \in Places(eng, ran) : y.reaction.id = id => y = x
      BY <1>2, <2>1, <2>2, OnePlace
  <2>4. {y \in Places(eng, ran) : y.reaction.id = id} = {x}
      BY <2>1, <2>2, <2>3
  <2>5. Cardinality({x}) = 1
      BY FS_Singleton
  <2> QED BY <2>4, <2>5
<1>4. \A x, y \in Places(eng, ran) :
          x.reaction.of = y.reaction.of /\ Earlier(x, y) => x.reaction.id < y.reaction.id
    BY <1>2, PlacesOrdered
<1> QED BY <1>3, <1>4 DEF InOrder

\* HostHears: the host knows of the rejections that nobody handles.
LEMMA HostHearsHolds ==
    ASSUME PromisesInv
    PROVE  HostHears
<1>1. PICK F : F = Hands(held, async, calls)
    OBVIOUS
<1>2. EngineInv(eng, ran, F, follows)
    BY <1>1 DEF PromisesInv
<1>3. Handled(eng, ran) /\ eng \in Engine
    BY <1>2 DEF EngineInv
<1>4. eng.unhandled \subseteq Promise
    BY <1>3, EngineTypes
<1>5. ASSUME NEW p \in Promise
      PROVE  p \in eng.unhandled <=> /\ eng.promise[p].state = "rejected"
                                     /\ \A x \in Places(eng, ran) : x.reaction.of # p
  <2>1. (\E x \in Places(eng, ran) : x.reaction.of = p)
            <=> \E w \in Ran(ran) \cup Waits(eng) : w.of = p
      BY PlaceOf, PlaceReaction
  <2> QED BY <1>3, <2>1 DEF Handled
<1> QED BY <1>4, <1>5 DEF HostHears

\* Follows: a promise that follows another agrees with it once both are settled.
LEMMA FollowsHolds ==
    ASSUME PromisesInv
    PROVE  Follows
<1>1. PICK F : F = Hands(held, async, calls)
    OBVIOUS
<1>2. EngineInv(eng, ran, F, follows)
    BY <1>1 DEF PromisesInv
<1>3. eng \in Engine /\ Asked(eng) /\ Sole(eng, F) /\ FollowOK(eng, follows)
    BY <1>2 DEF EngineInv
<1>4. ASSUME NEW p \in Promise, eng.promise[p].state \in {"fulfilled", "rejected"},
             follows[p] # NoFun
      PROVE  /\ eng.promise[p].state = eng.promise[follows[p]].state
             /\ eng.promise[p].result = eng.promise[follows[p]].result
  <2>1. eng.promise[p].state # "pending"
      BY <1>4
  <2>2. CASE \E i \in DOMAIN eng.jobs :
                 eng.jobs[i] = [kind |-> "thenable", promise |-> p, thenable |-> follows[p]]
    <3>1. PICK i \in DOMAIN eng.jobs :
              eng.jobs[i] = [kind |-> "thenable", promise |-> p, thenable |-> follows[p]]
        BY <2>2
    <3>2. ~Reacts(eng.jobs[i]) /\ eng.jobs[i].promise = p
        BY <3>1 DEF Reacts
    <3> QED BY <1>3, <2>1, <3>2 DEF Asked
  <2>3. CASE \E x \in Waits(eng) :
                 x.of = follows[p] /\ Resolving(x) /\ x.on[TRUE].fun.promise = p
    <3>1. PICK x \in Waits(eng) : Resolving(x) /\ x.on[TRUE].fun.promise = p
        BY <2>3
    <3>2. PICK f : f = x.on[TRUE].fun
        OBVIOUS
    <3>3. x \in Reaction
        BY <1>3, WaitsTypes
    <3>4. f \in Fun /\ Known(eng, f) /\ f \notin eng.already
        BY <1>3, <3>1, <3>2, <3>3, ReactionTypes DEF Sole
    <3>5. eng.promise[f.promise].state = "pending"
        BY <1>2, <3>4, UncalledFun
    <3> QED BY <2>1, <3>1, <3>2, <3>5
  <2> QED BY <1>3, <1>4, <2>2, <2>3 DEF FollowOK
<1> QED BY <1>4 DEF Follows

\* ResumedOnce: one reaction waits for each async function that waits.
LEMMA ResumedOnceHolds ==
    ASSUME PromisesInv
    PROVE  ResumedOnce
<1>1. PICK F : F = Hands(held, async, calls)
    OBVIOUS
<1>2. EngineInv(eng, ran, F, follows)
    BY <1>1 DEF PromisesInv
<1>3. Awaits(Waits(eng), calls, async)
    BY DEF PromisesInv
<1>4. ASSUME NEW f \in Async
      PROVE  Cardinality({x \in Places(eng, ran) : x.stage > 0 /\ Resumes(x, f)})
                 = IF async[f].state = "awaiting" THEN 1 ELSE 0
  <2>1. \A x : Resumes(x, f) <=> Resuming(x.reaction) /\ x.reaction.on[TRUE].fun = f
      BY DEF Resumes, Resuming
  <2>2. CASE async[f].state = "awaiting"
    <3>1. PICK w \in Waits(eng) : Resuming(w) /\ w.on[TRUE].fun = f
        BY <1>3, <2>2 DEF Awaits
    <3>2. PICK x \in Places(eng, ran) : x.reaction = w /\ x.stage > 0
        BY PlaceOf
    <3>3. ASSUME NEW y \in Places(eng, ran), y.stage > 0, Resumes(y, f)
          PROVE  y = x
      <4>1. y.reaction \in Waits(eng)
          BY <3>3, PlaceReaction
      <4>2. y.reaction = w
          BY <1>3, <2>1, <3>1, <3>3, <4>1 DEF Awaits
      <4>3. y.reaction.id = x.reaction.id
          BY <3>2, <4>2
      <4> QED BY <1>2, <4>3, OnePlace
    <3>4. {y \in Places(eng, ran) : y.stage > 0 /\ Resumes(y, f)} = {x}
        BY <2>1, <3>1, <3>2, <3>3
    <3>5. Cardinality({x}) = 1
        BY FS_Singleton
    <3> QED BY <2>2, <3>4, <3>5
  <2>3. CASE async[f].state # "awaiting"
    <3>1. ASSUME NEW y \in Places(eng, ran), y.stage > 0, Resumes(y, f)
          PROVE  FALSE
      <4>1. y.reaction \in Waits(eng)
          BY <3>1, PlaceReaction
      <4>2. Resuming(y.reaction) /\ y.reaction.on[TRUE].fun = f
          BY <2>1, <3>1
      <4>3. async[y.reaction.on[TRUE].fun].state = "awaiting"
          BY <1>3, <4>1, <4>2 DEF Awaits
      <4> QED BY <2>3, <4>2, <4>3
    <3>2. {y \in Places(eng, ran) : y.stage > 0 /\ Resumes(y, f)} = {}
        BY <3>1
    <3>3. Cardinality({}) = 0
        BY FS_EmptySet
    <3> QED BY <2>3, <3>2, <3>3
  <2> QED BY <2>2, <2>3
<1> QED BY <1>4 DEF ResumedOnce

\* Each call of then and await leads to one run of its reaction, the reactions
\* of one promise run in order, a promise that follows another agrees with it,
\* and an async function that waits is resumed once: for any number of
\* promises, async functions and operations.
THEOREM PromisesJobsExact == Spec => []JobsExact
<1>1. PromisesInv => JobsExact
    BY InOrderHolds, FollowsHolds, ResumedOnceHolds DEF JobsExact, PromisesInv
<1> QED BY <1>1, PromisesInvariant, PTL

\* The host hears of the rejected promises that nobody handles, and only of
\* those, also when a handler comes late.
THEOREM PromisesHostHears == Spec => []HostHears
<1>1. PromisesInv => HostHears
    BY HostHearsHolds
<1> QED BY <1>1, PromisesInvariant, PTL

-----------------------------------------------------------------------------
(***************************************************************************)
(* Promise.all for every number of elements: the count of the elements     *)
(* that remain is exact, so that the promise of all of them is settled     *)
(* when the last one called a function, and not before.                    *)
(***************************************************************************)

\* The elements that called a function of their own, and those that called
\* both of allSettled.
Answered == {i \in Element : first[i] # None}
Twice == {i \in Element : \A o \in Outcome : called[i][o]}

\* The loop over the iterator counts as one element until it ends.
LoopCount == IF loop = "ended" THEN 0 ELSE 1

\* Functions are called by elements that were taken, and what an element
\* passed is on record.
Recorded ==
    /\ loop = "ended" => index = Length
    /\ loop = "failed" => result # None
    /\ Answered \subseteq 0..index-1
    /\ \A i \in Element : first[i] = None <=> \A o \in Outcome : ~called[i][o]
    /\ \A i \in Element : i \notin Twice => values[i] = first[i]

Counted == remaining = LoopCount + index - Cardinality(Answered) - Cardinality(Twice)

\* What the result is, as long as no element was counted twice.
Exact ==
    Twice = {} =>
        /\ result # None /\ result.kind = "complete" =>
              loop = "ended" /\ Answered = Element /\ result.values = first
        /\ loop = "ended" /\ remaining = 0 => result # None

AllInv == AllTypeOK /\ Recorded /\ Counted /\ Exact

-----------------------------------------------------------------------------
\* The subsets of an interval from 0 are no larger than it.
LEMMA IntervalFacts ==
    ASSUME NEW n \in Nat, NEW S \in SUBSET (0..n-1)
    PROVE  /\ IsFiniteSet(S)
           /\ Cardinality(S) \in 0..n
           /\ Cardinality(S) = n => S = 0..n-1
<1>1. IsFiniteSet(0..n-1) /\ Cardinality(0..n-1) = n
    BY FS_Interval
<1>2. IsFiniteSet(S) /\ Cardinality(S) <= n /\ (Cardinality(S) = n => S = 0..n-1)
    BY <1>1, FS_Subset
<1>3. Cardinality(S) \in Nat
    BY <1>2, FS_CardinalityType
<1> QED BY <1>2, <1>3

\* Settlements are none of them None, and tell their kinds apart.
LEMMA SettlementFacts ==
    /\ Failed \in Settlement /\ Failed # None /\ Failed.kind = "failed"
    /\ \A e \in Entry : Short(e) \in Settlement /\ Short(e) # None /\ Short(e).kind = "short"
    /\ \A v \in [Element -> Entry \cup {None}] :
          /\ Complete(v) \in Settlement /\ Complete(v) # None
          /\ Complete(v).kind = "complete" /\ Complete(v).values = v
<1>1. \A r \in Settlement : r # None
    BY AllAssumption
<1> QED BY <1>1 DEF Settlement, Failed, Short, Complete

\* The sets that are counted, with their bounds.
LEMMA CountFacts ==
    ASSUME AllInv
    PROVE  /\ IsFiniteSet(Answered) /\ IsFiniteSet(Twice)
           /\ Cardinality(Answered) \in 0..index /\ Cardinality(Twice) \in 0..index
           /\ index \in 0..Length /\ Length \in Nat
           /\ Twice \subseteq Answered
           /\ Cardinality(Answered) = index => Answered = 0..index-1
           /\ Twice = {} <=> Cardinality(Twice) = 0
<1>1. index \in 0..Length /\ Length \in Nat /\ index \in Nat
    BY AllAssumption DEF AllInv, AllTypeOK
<1>2. Twice \subseteq Answered
    BY DEF AllInv, Recorded, Twice, Answered, Outcome
<1>3. Answered \in SUBSET (0..index-1) /\ Twice \in SUBSET (0..index-1)
    BY <1>2 DEF AllInv, Recorded
<1>4. Twice = {} <=> Cardinality(Twice) = 0
    BY <1>1, <1>3, IntervalFacts, FS_EmptySet
<1> QED BY <1>1, <1>2, <1>3, <1>4, IntervalFacts

\* No element was taken: the loop alone counts.
LEMMA InitAll == AllInit => AllInv
<1> SUFFICES ASSUME AllInit PROVE AllInv
    OBVIOUS
<1> USE AllAssumption DEF AllInit
<1>1. AllTypeOK
    BY DEF AllTypeOK, FirstCount
<1>2. Answered = {} /\ Twice = {}
    BY DEF Answered, Twice, Outcome
<1>3. Cardinality(Answered) = 0 /\ Cardinality(Twice) = 0
    BY <1>2, FS_EmptySet
<1>4. Recorded
    BY <1>2 DEF Recorded
<1>5. Counted
    BY <1>3 DEF Counted, LoopCount, FirstCount
<1>6. Exact
    BY DEF Exact
<1> QED BY <1>1, <1>4, <1>5, <1>6 DEF AllInv

\* An element is taken, and counted.
LEMMA NextElementAll == AllInv /\ NextElement => AllInv'
<1> SUFFICES ASSUME AllInv, NextElement PROVE AllInv'
    OBVIOUS
<1> USE DEF AllInv, NextElement
<1>1. index \in 0..Length /\ Length \in Nat /\ remaining \in Int
      /\ Cardinality(Answered) \in 0..index /\ Cardinality(Twice) \in 0..index
    BY CountFacts DEF AllTypeOK
<1>2. Answered' = Answered /\ Twice' = Twice /\ LoopCount' = LoopCount /\ LoopCount \in {0, 1}
    BY DEF Answered, Twice, LoopCount
<1>3. Counted'
    BY <1>1, <1>2 DEF Counted
<1>4. remaining' \in -Length..Length+1
    BY <1>1, <1>2 DEF Counted, LoopCount
<1>5. AllTypeOK'
    BY <1>1, <1>4 DEF AllTypeOK
<1>6. Recorded'
    BY <1>1, <1>2 DEF Recorded
<1>7. Exact'
    BY <1>2 DEF Exact
<1> QED BY <1>3, <1>5, <1>6, <1>7

\* The loop fails: the promise of all is rejected.
LEMMA IterationFailsAll == AllInv /\ IterationFails => AllInv'
<1> SUFFICES ASSUME AllInv, IterationFails PROVE AllInv'
    OBVIOUS
<1> USE DEF AllInv, IterationFails
<1>1. result' \in Settlement /\ result' # None
      /\ (result'.kind = "complete" => result # None /\ result' = result)
    BY SettlementFacts, AllAssumption DEF Settle, AllTypeOK
<1>2. Answered' = Answered /\ Twice' = Twice /\ LoopCount' = LoopCount
    BY DEF Answered, Twice, LoopCount
<1>3. AllTypeOK'
    BY <1>1 DEF AllTypeOK
<1>4. Recorded'
    BY <1>1, <1>2 DEF Recorded
<1>5. Counted'
    BY <1>2 DEF Counted
<1>6. Exact'
    BY <1>1, <1>2 DEF Exact
<1> QED BY <1>3, <1>4, <1>5, <1>6

\* The loop ends: it settles the promise of all if every element has answered.
LEMMA LoopEndsAll == AllInv /\ LoopEnds => AllInv'
<1> SUFFICES ASSUME AllInv, LoopEnds PROVE AllInv'
    OBVIOUS
<1> USE DEF AllInv, LoopEnds, CountDown
<1>1. index = Length /\ Length \in Nat /\ remaining \in Int
      /\ Cardinality(Answered) \in 0..index /\ Cardinality(Twice) \in 0..index
      /\ (Cardinality(Answered) = index => Answered = 0..index-1)
      /\ (Twice = {} <=> Cardinality(Twice) = 0)
    BY CountFacts DEF AllTypeOK
<1>2. Answered' = Answered /\ Twice' = Twice
    BY DEF Answered, Twice
<1>3. LoopCount = 1 /\ LoopCount' = 0
    BY DEF LoopCount
<1>4. remaining = 1 + index - Cardinality(Answered) - Cardinality(Twice)
    BY <1>3 DEF Counted
<1>5. Counted'
    BY <1>1, <1>2, <1>3, <1>4 DEF Counted
<1>6. values \in [Element -> Entry \cup {None}] /\ first \in [Element -> Entry \cup {None}]
    BY DEF AllTypeOK
<1>7. result' = IF remaining = 1 /\ result = None THEN Complete(values) ELSE result
    BY DEF Settle
<1>8. AllTypeOK'
  <2>1. remaining' \in -Length..Length+1
    <3>1. remaining' = Length - Cardinality(Answered) - Cardinality(Twice)
      BY <1>1, <1>4
    <3>2. Cardinality(Answered) \in 0..Length /\ Cardinality(Twice) \in 0..Length /\ Length \in Nat
      BY <1>1
    <3> HIDE DEF AllInv, LoopEnds, CountDown
    <3> QED BY <3>1, <3>2
  <2>2. result' \in Settlement \cup {None}
    BY <1>6, <1>7, SettlementFacts DEF AllTypeOK
  <2> QED BY <2>1, <2>2 DEF AllTypeOK
<1>9. Recorded'
    BY <1>2 DEF Recorded
<1>10. Exact'
  <2> SUFFICES ASSUME Twice = {}
               PROVE  /\ result' # None /\ result'.kind = "complete" =>
                            loop' = "ended" /\ Answered' = Element /\ result'.values = first'
                      /\ loop' = "ended" /\ remaining' = 0 => result' # None
    BY <1>2 DEF Exact
  <2>1. CASE remaining = 1 /\ result = None
    <3>1. Cardinality(Answered) = index
      <4>1. Cardinality(Twice) = 0
        BY <1>1
      <4>2. remaining = 1 + index - Cardinality(Answered) - Cardinality(Twice) /\ remaining = 1
        BY <1>4, <2>1
      <4>3. index \in Nat /\ Cardinality(Answered) \in Nat
        BY <1>1
      <4> HIDE DEF AllInv, LoopEnds, CountDown
      <4> QED BY <4>1, <4>2, <4>3
    <3>4. Answered = Element
      BY <1>1, <3>1 DEF Element
    <3>2. values = first
      BY <1>6 DEF Recorded
    <3>3. result' = Complete(first)
      BY <1>7, <2>1, <3>2
    <3> QED BY <1>2, <1>6, <3>3, <3>4, SettlementFacts
  <2>2. CASE ~(remaining = 1 /\ result = None)
    <3>1. result' = result
      BY <1>7, <2>2
    <3>2. ~(result # None /\ result.kind = "complete")
      BY DEF Exact
    <3>3. remaining' = 0 => result # None
      BY <1>1, <2>2
    <3> QED BY <3>1, <3>2, <3>3
  <2> QED BY <2>1, <2>2
<1> QED BY <1>5, <1>8, <1>9, <1>10

\* A function of result_promise was called.
LEMMA ShortAll ==
    ASSUME AllInv, NEW i \in Element, NEW e \in Entry, CallFunction(i, e), e.status \notin OwnFunction
    PROVE  AllInv'
<1> USE DEF AllInv
<1>1. /\ Settle(Short(e))
      /\ UNCHANGED <<magic, index, loop, called, values, remaining, first>>
    BY DEF CallFunction
<1> USE <1>1
<1>2. result' \in Settlement /\ result' # None
      /\ (result'.kind = "complete" => result # None /\ result' = result)
    BY SettlementFacts, AllAssumption DEF Settle, AllTypeOK
<1>3. Answered' = Answered /\ Twice' = Twice /\ LoopCount' = LoopCount
    BY DEF Answered, Twice, LoopCount
<1>4. AllTypeOK'
    BY <1>2 DEF AllTypeOK
<1>5. Recorded'
    BY <1>2, <1>3 DEF Recorded
<1>6. Counted'
    BY <1>3 DEF Counted
<1>7. Exact'
    BY <1>2, <1>3 DEF Exact
<1> QED BY <1>4, <1>5, <1>6, <1>7

\* A function of the element was called: for the first time, or the other one
\* of allSettled before it.
LEMMA ElementAll ==
    ASSUME AllInv, NEW i \in Element, NEW e \in Entry, CallFunction(i, e), e.status \in OwnFunction
    PROVE  AllInv'
<1> USE DEF AllInv
<1>1. /\ i \in 0..index-1 /\ ~called[i][e.status] /\ e.status \in Outcome
      /\ called' = [called EXCEPT ![i][e.status] = TRUE]
      /\ values' = [values EXCEPT ![i] = e]
      /\ remaining' = remaining - 1
      /\ IF remaining = 1 THEN Settle(Complete(values')) ELSE UNCHANGED result
      /\ first' = [first EXCEPT ![i] = IF @ = None THEN e ELSE @]
      /\ UNCHANGED <<magic, index, loop>>
    BY AllAssumption DEF CallFunction, ElementFunction, CountDown, AlreadyCalled, Entry, Element, AllTypeOK
<1>2. /\ called \in [Element -> [Outcome -> BOOLEAN]]
      /\ values \in [Element -> Entry \cup {None}]
      /\ first \in [Element -> Entry \cup {None}]
      /\ index \in 0..Length /\ Length \in Nat /\ e # None
    BY AllAssumption DEF AllTypeOK
<1>3. /\ called' \in [Element -> [Outcome -> BOOLEAN]]
      /\ values' \in [Element -> Entry \cup {None}]
      /\ first' \in [Element -> Entry \cup {None}]
    BY <1>1, <1>2
<1>4. \A j \in Element : j # i => called'[j] = called[j] /\ values'[j] = values[j] /\ first'[j] = first[j]
    BY <1>1, <1>2
<1>5. /\ called'[i][e.status] /\ values'[i] = e
      /\ first'[i] = IF first[i] = None THEN e ELSE first[i]
      /\ \A o \in Outcome : o # e.status => called'[i][o] = called[i][o]
    BY <1>1, <1>2
<1>6. \A j \in Element : first'[j] = None <=> \A o \in Outcome : ~called'[j][o]
  <2>1. \A j \in Element \ {i} : first'[j] = None <=> \A o \in Outcome : ~called'[j][o]
    BY <1>4 DEF Recorded
  <2>2. first'[i] # None
    BY <1>2, <1>5
  <2> QED BY <1>1, <1>5, <2>1, <2>2
<1>7. /\ IsFiniteSet(Answered) /\ IsFiniteSet(Twice)
      /\ Cardinality(Answered) \in 0..index /\ Cardinality(Twice) \in 0..index
      /\ Twice \subseteq Answered /\ i \notin Twice
      /\ (Twice = {} <=> Cardinality(Twice) = 0)
  <2>1. i \notin Twice
    BY <1>1 DEF Twice
  <2> QED BY <2>1, CountFacts
<1>nats. index \in Nat /\ Cardinality(Answered) \in Nat /\ Cardinality(Twice) \in Nat
  <2> HIDE DEF AllInv
  <2> QED BY <1>2, <1>7
<1>8. \/ /\ i \notin Answered /\ Answered' = Answered \cup {i} /\ Twice' = Twice
      \/ /\ i \in Answered /\ Answered' = Answered /\ Twice' = Twice \cup {i}
  <2>1. CASE first[i] = None
    <3>1. i \notin Answered /\ Answered' = Answered \cup {i}
      BY <1>2, <1>4, <1>5, <2>1 DEF Answered
    <3>2. \E o \in Outcome : ~called'[i][o]
      <4>1. \A o \in Outcome : ~called[i][o]
        BY <2>1 DEF Recorded
      <4>2. \E o \in Outcome : o # e.status
        BY DEF Outcome
      <4> QED BY <1>5, <4>1, <4>2
    <3>3. Twice' = Twice
      BY <1>4, <1>7, <3>2 DEF Twice
    <3> QED BY <3>1, <3>3
  <2>2. CASE first[i] # None
    <3>1. i \in Answered /\ Answered' = Answered
      BY <1>4, <1>5, <2>2 DEF Answered
    <3>2. \A o \in Outcome : called'[i][o]
      <4>1. \E o \in Outcome : called[i][o]
        BY <2>2 DEF Recorded
      <4>2. \A o, p \in Outcome : o # e.status /\ p # e.status => o = p
        BY <1>1 DEF Outcome
      <4> QED BY <1>1, <1>5, <4>1, <4>2
    <3>3. Twice' = Twice \cup {i}
      BY <1>4, <3>2 DEF Twice
    <3> QED BY <3>1, <3>3
  <2> QED BY <2>1, <2>2
<1>9. /\ Cardinality(Answered') \in Nat /\ Cardinality(Twice') \in Nat
      /\ Cardinality(Answered') + Cardinality(Twice') = Cardinality(Answered) + Cardinality(Twice) + 1
  <2>1. CASE i \notin Answered /\ Answered' = Answered \cup {i} /\ Twice' = Twice
    <3>1. Cardinality(Answered') = Cardinality(Answered) + 1
      BY <1>7, <2>1, FS_AddElement
    <3>2. Cardinality(Twice') = Cardinality(Twice)
      BY <2>1
    <3> HIDE DEF AllInv
    <3> QED BY <1>nats, <3>1, <3>2
  <2>2. CASE i \in Answered /\ Answered' = Answered /\ Twice' = Twice \cup {i}
    <3>1. Cardinality(Twice') = Cardinality(Twice) + 1
      BY <1>7, <2>2, FS_AddElement
    <3>2. Cardinality(Answered') = Cardinality(Answered)
      BY <2>2
    <3> HIDE DEF AllInv
    <3> QED BY <1>nats, <3>1, <3>2
  <2> QED BY <1>8, <2>1, <2>2
<1>10. LoopCount' = LoopCount /\ LoopCount \in {0, 1} /\ remaining \in Int
    BY <1>1, AllAssumption DEF LoopCount, AllTypeOK
<1>11. Counted'
  <2>1. remaining = LoopCount + index - Cardinality(Answered) - Cardinality(Twice)
    BY DEF Counted
  <2>2. remaining' = remaining - 1 /\ index' = index
    BY <1>1
  <2>3. remaining' = LoopCount' + index' - Cardinality(Answered') - Cardinality(Twice')
    <3> HIDE DEF AllInv
    <3> QED BY <1>nats, <1>9, <1>10, <2>1, <2>2
  <2> QED BY <2>3 DEF Counted
<1>12. Answered' \subseteq 0..index-1 /\ Twice' \subseteq 0..index-1
  <2>1. Answered \subseteq 0..index-1
    BY DEF Recorded
  <2> QED BY <1>1, <1>7, <1>8, <2>1
<1>13. /\ Cardinality(Answered') \in 0..index /\ Cardinality(Twice') \in 0..index
       /\ Cardinality(Answered') = index => Answered' = 0..index-1
  <2>1. index \in Nat
    BY <1>2
  <2> QED BY <1>12, <2>1, IntervalFacts
<1>14. remaining' \in -Length..Length+1
  <2>1. remaining' = LoopCount + index - Cardinality(Answered') - Cardinality(Twice')
    BY <1>1, <1>10, <1>11 DEF Counted
  <2>2. loop = "ended" => index = Length
    BY DEF Recorded
  <2>3. LoopCount = 0 => index = Length
    BY <2>2 DEF LoopCount
  <2> HIDE DEF AllInv
  <2> QED BY <1>2, <1>10, <1>13, <2>1, <2>3
<1>15. result' \in Settlement \cup {None}
       /\ (result # None => result' = result)
       /\ (result' # result => remaining = 1 /\ result' = Complete(values') /\ result' # None)
       /\ (remaining = 1 => result' # None)
  <2>1. Complete(values') \in Settlement /\ Complete(values') # None
    BY <1>3, SettlementFacts
  <2> QED BY <1>1, <2>1 DEF Settle, AllTypeOK
<1>16. AllTypeOK'
    BY <1>1, <1>3, <1>14, <1>15 DEF AllTypeOK
<1>17. Recorded'
  <2>1. \A j \in Element : j \notin Twice' => values'[j] = first'[j]
    <3>1. \A j \in Element \ {i} : j \notin Twice' => values'[j] = first'[j]
      BY <1>4, <1>8 DEF Recorded
    <3>2. i \notin Twice' => values'[i] = first'[i]
      BY <1>5, <1>8 DEF Answered
    <3> QED BY <3>1, <3>2
  <2>2. (loop' = "ended" => index' = Length) /\ (loop' = "failed" => result' # None)
    BY <1>1, <1>15 DEF Recorded
  <2>3. Answered' \subseteq 0..index'-1
    BY <1>1, <1>12
  <2> QED BY <1>6, <2>1, <2>2, <2>3 DEF Recorded
<1>18. Exact'
  <2> SUFFICES ASSUME Twice' = {}
               PROVE  /\ result' # None /\ result'.kind = "complete" =>
                            loop' = "ended" /\ Answered' = Element /\ result'.values = first'
                      /\ loop' = "ended" /\ remaining' = 0 => result' # None
    BY DEF Exact
  <2>1. /\ i \notin Answered /\ Answered' = Answered \cup {i} /\ Twice = {}
        /\ Cardinality(Twice') = 0
    BY <1>8, FS_EmptySet
  <2>2. ~(result # None /\ result.kind = "complete")
    BY <2>1 DEF Exact
  <2>3. CASE result' = result
    BY <1>1, <1>2, <1>15, <1>10, <2>2, <2>3
  <2>4. CASE result' # result
    <3>1. remaining = 1 /\ result' = Complete(values') /\ result = None
      BY <1>15, <2>4
    <3>2. remaining' = 0
      BY <1>1, <3>1
    <3>3. LoopCount + index = Cardinality(Answered')
      <4>1. remaining' = LoopCount + index - Cardinality(Answered') - Cardinality(Twice')
        BY <1>1, <1>10, <1>11 DEF Counted
      <4> HIDE DEF AllInv
      <4> QED BY <1>9, <1>10, <1>nats, <2>1, <3>2, <4>1
    <3>4. LoopCount = 0 /\ Answered' = 0..index-1
      <4> HIDE DEF AllInv
      <4> QED BY <1>2, <1>10, <1>13, <3>3
    <3>5. loop = "ended" /\ index = Length
      BY <3>4 DEF LoopCount, Recorded
    <3>6. Answered' = Element
      BY <3>4, <3>5 DEF Element
    <3>7. values' = first'
      <4>1. \A j \in Element : values'[j] = first'[j]
        BY <1>17 DEF Recorded
      <4> QED BY <1>3, <4>1
    <3>8. result'.values = first'
      BY <1>3, <3>1, <3>7, SettlementFacts
    <3> QED BY <1>1, <1>15, <3>1, <3>5, <3>6, <3>8
  <2> QED BY <2>3, <2>4
<1> QED BY <1>11, <1>16, <1>17, <1>18

-----------------------------------------------------------------------------
\* Each step keeps the count exact.
LEMMA AllInvariant == AllSpec => []AllInv
<1>1. AllInv /\ [AllNext]_allvars => AllInv'
  <2> SUFFICES ASSUME AllInv, [AllNext]_allvars PROVE AllInv'
    OBVIOUS
  <2>1. CASE NextElement
    BY <2>1, NextElementAll
  <2>2. CASE IterationFails
    BY <2>2, IterationFailsAll
  <2>3. CASE LoopEnds
    BY <2>3, LoopEndsAll
  <2>4. ASSUME NEW i \in Element, NEW e \in Entry, CallFunction(i, e)
        PROVE  AllInv'
    BY <2>4, ShortAll, ElementAll
  <2>5. CASE UNCHANGED allvars
    BY <2>5 DEF allvars, AllInv, AllTypeOK, Recorded, Counted, Exact, Answered, Twice, LoopCount
  <2> QED BY <2>1, <2>2, <2>3, <2>4, <2>5 DEF AllNext
<1> QED BY <1>1, InitAll, PTL DEF AllSpec

\* The state of Promise.all has its type, with any number of elements that
\* call the functions they get in any order: remainingElementsCount stays
\* between -Length and Length + 1, also when elements of allSettled are counted twice.
THEOREM PromiseAllTypes == AllSpec => []AllTypeOK
<1>1. AllInv => AllTypeOK
    BY DEF AllInv
<1> QED BY <1>1, AllInvariant, PTL

\* CompleteMeansAll: the promise of all is settled with the values when every
\* element has called its function and never before, and each value is what
\* its element passed first.
THEOREM PromiseAllComplete == AllSpec => []CompleteMeansAll
<1>1. AllInv => CompleteMeansAll
  <2> SUFFICES ASSUME AllInv, ~CalledBoth PROVE
        /\ result # None /\ result.kind = "complete" =>
              index = Length /\ \A i \in Element : first[i] # None /\ result.values[i] = first[i]
        /\ loop = "ended" /\ (\A i \in Element : first[i] # None) => result # None
    BY DEF CompleteMeansAll
  <2>1. Twice = {}
    BY DEF CalledBoth, Twice
  <2>2. ASSUME result # None, result.kind = "complete"
        PROVE  index = Length /\ \A i \in Element : first[i] # None /\ result.values[i] = first[i]
    <3>1. loop = "ended" /\ Answered = Element /\ result.values = first
      BY <2>1, <2>2 DEF AllInv, Exact
    <3> QED BY <3>1 DEF AllInv, Recorded, Answered
  <2>3. ASSUME loop = "ended", \A i \in Element : first[i] # None
        PROVE  result # None
    <3>1. Answered = Element
      BY <2>3 DEF Answered
    <3>2. Cardinality(Answered) = Length /\ Cardinality(Twice) = 0
      BY <2>1, <3>1, FS_EmptySet, FS_Interval, AllAssumption DEF Element
    <3>3. index = Length /\ LoopCount = 0
      BY <2>3 DEF AllInv, Recorded, LoopCount
    <3>4. remaining = 0
      BY <3>2, <3>3, AllAssumption DEF AllInv, Counted
    <3> QED BY <2>1, <2>3, <3>4 DEF AllInv, Exact
  <2> QED BY <2>2, <2>3
<1> QED BY <1>1, AllInvariant, PTL

=============================================================================
