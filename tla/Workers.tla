------------------------------ MODULE Workers ------------------------------
(***************************************************************************)
(* The workers of the os module (quickjs-libc.c): threads with a runtime   *)
(* of their own that send each other copies of values and share the memory *)
(* of SharedArrayBuffers.  The main thread makes the workers; each has two *)
(* message pipes, one in each direction, with a mutex, a queue and a waker *)
(* (a system pipe that select can wait for).  WorkersState declares the    *)
(* variables.  What else a thread waits for is in EventLoop.               *)
(***************************************************************************)
EXTENDS WorkersState, Integers

CONSTANTS
    Workers,   \* workers that are made
    Nobody,    \* no thread
    Sabs,      \* blocks of shared memory
    MaxSent    \* bound: messages posted to a pipe

WorkersAssumption ==
    /\ IsFiniteSet(Workers) /\ "main" \notin Workers
    /\ Nobody \notin Workers \cup {"main"}
    /\ MaxSent \in Nat

pipes == <<counts, queue, waker, lock>>
history == <<posted, taken>>
vars == <<thread, arg, objects, wanted, ports, pipes, sabRefs, held, history>>

AllThreads == Workers \cup {"main"}
Ends == Workers \X {"main", "worker"}
EndsOf(t) == {e \in Ends : ThreadOf(e) = t}

Message == [id : 1..MaxSent, sabs : SUBSET Sabs]

\* A thread runs a script, or is in js_worker_postMessage before the lock and
\* before list_add_tail, in js_os_poll, in handle_posted_message before the
\* lock, before JS_ReadObject and before js_free_message, or ends.
Points == {"none", "start", "run", "lock", "append", "poll", "take", "read", "free",
           "handlers", "runtime", "done"}

NoArg == <<>>

TypeOK ==
    /\ thread \in [AllThreads -> Points]
    /\ arg \in [AllThreads -> {NoArg} \cup (Ends \X (Message \cup {NoArg}))]
    /\ objects \subseteq Ends
    /\ wanted \subseteq Ends
    /\ ports \in [AllThreads -> Seq(Ends)]
    /\ \A t \in AllThreads : IsInjective(ports[t]) /\ ToSet(ports[t]) \subseteq EndsOf(t)
    /\ counts \in [Ends -> 0..4]
    /\ queue \in [Ends -> Seq(Message)]
    /\ waker \in [Ends -> 0..1]
    /\ lock \in [Ends -> AllThreads \cup {Nobody}]
    /\ sabRefs \in [Sabs -> Nat]
    /\ held \in [AllThreads -> [Sabs -> Nat]]
    /\ posted \in [Ends -> 0..MaxSent] /\ taken \in [Ends -> 0..MaxSent]

\* Each block was allocated by the main thread (js_sab_alloc).
Init ==
    /\ thread = [t \in AllThreads |-> IF t = "main" THEN "run" ELSE "none"]
    /\ arg = [t \in AllThreads |-> NoArg]
    /\ objects = {} /\ wanted = {}
    /\ ports = [t \in AllThreads |-> <<>>]
    /\ counts = [e \in Ends |-> 0]
    /\ queue = [e \in Ends |-> <<>>]
    /\ waker = [e \in Ends |-> 0]
    /\ lock = [e \in Ends |-> Nobody]
    /\ sabRefs = [s \in Sabs |-> 1]
    /\ held = [t \in AllThreads |-> [s \in Sabs |-> IF t = "main" THEN 1 ELSE 0]]
    /\ posted = [e \in Ends |-> 0] /\ taken = [e \in Ends |-> 0]

Goto(t, p) == thread' = [thread EXCEPT ![t] = p]

\* The process lives until the main thread ends.
Alive == thread["main"] # "done"

Running(t) == Alive /\ thread[t] = "run"

-----------------------------------------------------------------------------
(***************************************************************************)
(* References                                                              *)
(***************************************************************************)

\* js_worker_finalizer of the ends S: the two pipes of each, and that of its
\* port (js_free_port).
FinalizerRefs(S, x) == ObjectRefs(S, x) + OneIf(x \in S /\ HasPort(x))

\* js_free_message_pipe: released[e] references of the pipe of e go; the last
\* one takes the messages with it, and theirs of the blocks.  dropped[s] more
\* references of block s go, those of SharedArrayBuffers.
FreePipes(released, dropped) ==
    LET left == [e \in Ends |-> counts[e] - released[e]]
        dead == {e \in Ends : left[e] = 0 /\ released[e] > 0}
    IN /\ counts' = left
       /\ queue' = [e \in Ends |-> IF e \in dead THEN <<>> ELSE queue[e]]
       /\ waker' = [e \in Ends |-> IF e \in dead THEN 0 ELSE waker[e]]
       /\ sabRefs' = [s \in Sabs |-> sabRefs[s] - dropped[s]
                                     - Cardinality({m \in Queued(s) : m[1] \in dead})]
       /\ UNCHANGED lock

\* The port of e leaves the list of its thread, if there is one.
FreePort(e) ==
    LET t == ThreadOf(e) IN
    IF HasPort(e)
    THEN \E i \in DOMAIN ports[t] :
            ports[t][i] = e /\ ports' = [ports EXCEPT ![t] = RemoveAt(@, i)]
    ELSE UNCHANGED ports

-----------------------------------------------------------------------------
(***************************************************************************)
(* Making a worker                                                         *)
(***************************************************************************)

\* new Worker(): two pipes, one reference of each in the arguments of the
\* thread, one in the object; pthread_create.  When it fails, both go again.
Create(w) ==
    /\ Running("main") /\ thread[w] = "none"
    /\ \/ /\ Goto(w, "start")
          /\ objects' = objects \cup {<<w, "main">>}
          /\ counts' = [e \in Ends |-> IF e[1] = w THEN 1 + 1 ELSE counts[e]]
       \/ /\ Goto(w, "done")
          /\ UNCHANGED <<objects, counts>>
    /\ UNCHANGED <<arg, wanted, ports, queue, waker, lock, sabRefs, held, history>>

\* worker_func: the thread state takes the references of the arguments, and
\* the os module makes Worker.parent; then the module of the worker runs.
Start(w) ==
    /\ Alive /\ thread[w] = "start"
    /\ Goto(w, "run")
    /\ objects' = objects \cup {<<w, "worker">>}
    /\ counts' = [e \in Ends |-> IF e[1] = w THEN counts[e] + 1 ELSE counts[e]]
    /\ UNCHANGED <<arg, wanted, ports, queue, waker, lock, sabRefs, held, history>>

-----------------------------------------------------------------------------
(***************************************************************************)
(* postMessage                                                             *)
(***************************************************************************)

\* The value is written, and the references of its blocks are counted.
Post(e, sabs) ==
    LET t == ThreadOf(e) IN
    /\ Running(t) /\ e \in objects
    /\ posted[Peer(e)] < MaxSent
    /\ \A s \in sabs : held[t][s] > 0
    /\ arg' = [arg EXCEPT ![t] = <<e, [id |-> posted[Peer(e)] + 1, sabs |-> sabs]>>]
    /\ sabRefs' = [s \in Sabs |-> IF s \in sabs THEN sabRefs[s] + 1 ELSE sabRefs[s]]
    /\ Goto(t, "lock")
    /\ UNCHANGED <<objects, wanted, ports, pipes, held, history>>

\* The first message of the queue is signalled, before it is there.
PostLock(t) ==
    /\ Alive /\ thread[t] = "lock"
    /\ LET p == Peer(arg[t][1]) IN
          /\ lock[p] = Nobody
          /\ lock' = [lock EXCEPT ![p] = t]
          /\ waker' = [waker EXCEPT ![p] = IF queue[p] = <<>> THEN @ + 1 ELSE @]
    /\ Goto(t, "append")
    /\ UNCHANGED <<arg, objects, wanted, ports, counts, queue, sabRefs, held, history>>

PostAppend(t) ==
    /\ Alive /\ thread[t] = "append"
    /\ LET p == Peer(arg[t][1]) IN
          /\ queue' = [queue EXCEPT ![p] = Append(@, arg[t][2])]
          /\ lock' = [lock EXCEPT ![p] = Nobody]
          /\ posted' = [posted EXCEPT ![p] = @ + 1]
    /\ arg' = [arg EXCEPT ![t] = NoArg]
    /\ Goto(t, "run")
    /\ UNCHANGED <<objects, wanted, ports, counts, waker, sabRefs, held, taken>>

-----------------------------------------------------------------------------
(***************************************************************************)
(* onmessage, and the end of a Worker object                               *)
(***************************************************************************)

\* A function: the port of the end, a new one with a reference of the pipe.
SetOnMessage(e) ==
    LET t == ThreadOf(e) IN
    /\ Running(t) /\ e \in objects
    /\ wanted' = wanted \cup {e}
    /\ IF HasPort(e)
       THEN UNCHANGED <<ports, counts>>
       ELSE /\ ports' = [ports EXCEPT ![t] = Append(@, e)]
            /\ counts' = [counts EXCEPT ![e] = @ + 1]
    /\ UNCHANGED <<thread, arg, objects, queue, waker, lock, sabRefs, held, history>>

\* Without the reference of the port, those of the object keep the pipe.
UnsetOnMessage(e) ==
    LET t == ThreadOf(e) IN
    /\ Running(t) /\ e \in objects
    /\ wanted' = wanted \ {e}
    /\ FreePort(e)
    /\ counts' = [counts EXCEPT ![e] = @ - OneIf(HasPort(e))]
    /\ UNCHANGED <<thread, arg, objects, queue, waker, lock, sabRefs, held, history>>

\* js_worker_finalizer: the script of the main thread has lost its reference
\* of the object; a port keeps its function alive, not its object.
Finalize(e) ==
    LET t == ThreadOf(e) IN
    /\ Running(t) /\ t = "main" /\ e \in objects
    /\ objects' = objects \ {e}
    /\ FreePort(e)
    /\ FreePipes([x \in Ends |-> FinalizerRefs({e}, x)], [s \in Sabs |-> 0])
    /\ UNCHANGED <<thread, arg, wanted, held, history>>

\* js_array_buffer_free: a SharedArrayBuffer of block s is collected.
DropSab(t, s) ==
    /\ Running(t) /\ held[t][s] > 0
    /\ held' = [held EXCEPT ![t][s] = @ - 1]
    /\ sabRefs' = [sabRefs EXCEPT ![s] = @ - 1]
    /\ UNCHANGED <<thread, arg, objects, wanted, ports, pipes, history>>

EndScript(t) ==
    /\ Running(t)
    /\ Goto(t, "poll")
    /\ UNCHANGED <<arg, objects, wanted, ports, pipes, sabRefs, held, history>>

-----------------------------------------------------------------------------
(***************************************************************************)
(* js_os_poll, handle_posted_message                                       *)
(***************************************************************************)

\* select reports wakers; the first port of the list is served.
Select(t) ==
    /\ Alive /\ thread[t] = "poll"
    /\ \E i \in DOMAIN ports[t] :
          /\ waker[ports[t][i]] > 0
          /\ \A j \in 1..i-1 : waker[ports[t][j]] = 0
          /\ arg' = [arg EXCEPT ![t] = <<ports[t][i], NoArg>>]
    /\ Goto(t, "take")
    /\ UNCHANGED <<objects, wanted, ports, pipes, sabRefs, held, history>>

\* Mutant of Take: the waker is cleared with every message.
TakeClears(t) ==
    /\ Alive /\ thread[t] = "take"
    /\ LET e == arg[t][1] IN
          /\ lock[e] = Nobody
          /\ queue[e] # <<>>
          /\ queue' = [queue EXCEPT ![e] = Tail(@)]
          /\ waker' = [waker EXCEPT ![e] = 0]
          /\ taken' = [taken EXCEPT ![e] = @ + 1]
          /\ arg' = [arg EXCEPT ![t] = <<e, Head(queue[e])>>]
    /\ Goto(t, "read")
    /\ UNCHANGED <<objects, wanted, ports, counts, lock, sabRefs, held, posted>>

\* The critical section; the waker is cleared with the last message.
Take(t) ==
    /\ Alive /\ thread[t] = "take"
    /\ LET e == arg[t][1] IN
          /\ lock[e] = Nobody
          /\ queue[e] # <<>>
          /\ queue' = [queue EXCEPT ![e] = Tail(@)]
          /\ waker' = [waker EXCEPT ![e] = IF Len(queue[e]) = 1 THEN 0 ELSE @]
          /\ taken' = [taken EXCEPT ![e] = @ + 1]
          /\ arg' = [arg EXCEPT ![t] = <<e, Head(queue[e])>>]
    /\ Goto(t, "read")
    /\ UNCHANGED <<objects, wanted, ports, counts, lock, sabRefs, held, posted>>

\* JS_ReadObject makes SharedArrayBuffers, or fails and makes none.
Read(t) ==
    /\ Alive /\ thread[t] = "read"
    /\ \/ /\ held' = [held EXCEPT ![t] =
                        [s \in Sabs |-> IF s \in arg[t][2].sabs THEN @[s] + 1 ELSE @[s]]]
          /\ sabRefs' = [s \in Sabs |->
                            IF s \in arg[t][2].sabs THEN sabRefs[s] + 1 ELSE sabRefs[s]]
       \/ UNCHANGED <<held, sabRefs>>
    /\ Goto(t, "free")
    /\ UNCHANGED <<arg, objects, wanted, ports, pipes, history>>

\* js_free_message; then the handler runs.
FreeMessage(t) ==
    /\ Alive /\ thread[t] = "free"
    /\ sabRefs' = [s \in Sabs |-> IF s \in arg[t][2].sabs THEN sabRefs[s] - 1 ELSE sabRefs[s]]
    /\ arg' = [arg EXCEPT ![t] = NoArg]
    /\ Goto(t, "run")
    /\ UNCHANGED <<objects, wanted, ports, pipes, held, history>>

-----------------------------------------------------------------------------
(***************************************************************************)
(* The end of a thread                                                     *)
(***************************************************************************)

\* No port, no more events: js_std_loop returns.
Leave(t) ==
    /\ Alive /\ thread[t] = "poll"
    /\ ports[t] = <<>>
    /\ Goto(t, "handlers")
    /\ UNCHANGED <<arg, objects, wanted, ports, pipes, sabRefs, held, history>>

\* js_std_free_handlers: the references of the state of a worker thread.
FreeHandlers(t) ==
    /\ Alive /\ thread[t] = "handlers"
    /\ Goto(t, "runtime")
    /\ FreePipes([x \in Ends |-> OneIf(x[1] = t)], [s \in Sabs |-> 0])
    /\ UNCHANGED <<arg, objects, wanted, ports, held, history>>

\* JS_FreeRuntime: the objects of the thread are finalized.
FreeRuntime(t) ==
    LET mine == objects \cap EndsOf(t) IN
    /\ Alive /\ thread[t] = "runtime"
    /\ Goto(t, "done")
    /\ objects' = objects \ mine
    /\ ports' = [ports EXCEPT ![t] = <<>>]
    /\ held' = [held EXCEPT ![t] = [s \in Sabs |-> 0]]
    /\ FreePipes([x \in Ends |-> FinalizerRefs(mine, x)], held[t])
    /\ UNCHANGED <<arg, wanted, history>>

-----------------------------------------------------------------------------
Script ==
    \/ \E w \in Workers : Create(w)
    \/ \E e \in Ends : \/ SetOnMessage(e) \/ UnsetOnMessage(e) \/ Finalize(e)
                       \/ \E sabs \in SUBSET Sabs : Post(e, sabs)
    \/ \E t \in AllThreads, s \in Sabs : DropSab(t, s)

Thread(t) ==
    \/ t \in Workers /\ Start(t)
    \/ PostLock(t) \/ PostAppend(t) \/ EndScript(t)
    \/ Select(t) \/ Take(t) \/ Read(t) \/ FreeMessage(t)
    \/ Leave(t) \/ FreeHandlers(t) \/ FreeRuntime(t)

Next == Script \/ \E t \in AllThreads : Thread(t)

\* AllThreads go on and scripts return.
Spec == Init /\ [][Next]_vars /\ \A t \in AllThreads : WF_vars(Thread(t))

-----------------------------------------------------------------------------
\* A message in the pipe of an end with a handler reaches its thread, unless
\* the handler goes or the process ends first.
Delivered ==
    \A e \in Ends, n \in 1..MaxSent :
        (posted[e] >= n /\ HasPort(e)) ~> (taken[e] >= n \/ ~HasPort(e) \/ ~Alive)

\* The code does not keep this: a Worker object that is collected takes its
\* handler with it.
\* A thread does not end while an end of it has a handler.
HandlerKeepsThread ==
    \A e \in Ends : thread[ThreadOf(e)] \in {"handlers", "runtime", "done"} => e \notin wanted
=============================================================================
