------------------------------ MODULE EventLoop ------------------------------
(***************************************************************************)
(* The main loop of a thread (quickjs-libc.c): js_std_await for the main   *)
(* module, then js_std_loop, with the jobs of the engine, the timers, the  *)
(* read and write handlers, the signals and the rejected promises.  The    *)
(* message ports of workers are in Workers.                                *)
(*                                                                         *)
(* Scripts are any sequence of the operations that the os module and the   *)
(* promises offer; between two events they perform a bounded number of     *)
(* them.  A job is one that waits on the queue of the runtime, its order   *)
(* there is the subject of Promises.                                       *)
(***************************************************************************)
EXTENDS EventLoopState, Integers, SequencesExt, FiniteSetsExt

CONSTANTS
    TimerIds,   \* handles of timers
    Fds,        \* file descriptors
    Signals,    \* signals a handler can be set for
    Promises,   \* promises that may be rejected
    MaxJobs,    \* bound: jobs on the queue
    MaxDelay,   \* bound: delay of a timer
    Fuel,       \* bound: operations of the program between two events
    JobsThrow   \* TRUE if the function of a job may throw

LoopAssumption ==
    /\ MaxJobs \in Nat /\ MaxDelay \in Nat /\ Fuel \in Nat
    /\ JobsThrow \in BOOLEAN

registered == <<timers, handlers, sigs, rejected>>
system == <<pending, clearing, ready>>
vars == <<at, waiting, settled, jobs, registered, system, calling, owed, cut, fuel>>

Directions == {"read", "write"}

\* The thread runs a job, an event callback, or is in the loop: at its top,
\* before the rejection check, in js_os_poll, between its read and its write
\* of os_pending_signals, or in select.
Points == {"job", "event", "jobs", "check", "poll", "clear", "select", "done", "exit"}

Ended == at \in {"done", "exit"}

None == <<"none">>
TimerEvent(id) == <<"timer", id>>
FdEvent(fd, dir) == <<"fd", fd, dir>>
SignalEvent(s) == <<"signal", s>>

Events ==
    {None} \cup {TimerEvent(id) : id \in TimerIds} \cup {SignalEvent(s) : s \in Signals}
        \cup {FdEvent(fd, dir) : fd \in Fds, dir \in Directions}

TypeOK ==
    /\ at \in Points
    /\ waiting \in BOOLEAN /\ settled \in BOOLEAN
    /\ jobs \in 0..MaxJobs
    /\ timers \in Seq([id : TimerIds, left : 0..MaxDelay])
    /\ \A i, j \in DOMAIN timers : timers[i].id = timers[j].id => i = j
    /\ handlers \in Seq([fd : Fds, funcs : (SUBSET Directions) \ {{}}])
    /\ \A i, j \in DOMAIN handlers : handlers[i].fd = handlers[j].fd => i = j
    /\ sigs \in Seq(Signals) /\ IsInjective(sigs)
    /\ rejected \subseteq Promises
    /\ pending \subseteq Signals
    /\ ready \subseteq Fds \X Directions
    /\ calling \in Events
    /\ owed \subseteq Signals
    /\ cut \in BOOLEAN
    /\ fuel \in 0..Fuel

Init ==
    /\ at = "job"
    /\ waiting = TRUE /\ settled = FALSE
    /\ jobs = 0
    /\ timers = <<>> /\ handlers = <<>> /\ sigs = <<>> /\ rejected = {}
    /\ pending = {} /\ clearing = <<>> /\ ready = {}
    /\ calling = None /\ owed = {} /\ cut = FALSE
    /\ fuel = Fuel

\* The places on the lists of a timer, of a descriptor and of a signal.
TimersOf(id) == {i \in DOMAIN timers : timers[i].id = id}
HandlersOf(fd) == {i \in DOMAIN handlers : handlers[i].fd = fd}
HandlersOfSignal(s) == {i \in DOMAIN sigs : sigs[i] = s}

HasTimer(id) == TimersOf(id) # {}
HasHandler(fd, dir) == \E i \in HandlersOf(fd) : dir \in handlers[i].funcs

\* list_del: a list without the first of its entries at the places I.
Without(entries, I) == IF I = {} THEN entries ELSE RemoveAt(entries, Min(I))

-----------------------------------------------------------------------------
(***************************************************************************)
(* What scripts do: inside a job or an event callback                      *)
(***************************************************************************)

Operation ==
    /\ at \in {"job", "event"}
    /\ fuel > 0
    /\ fuel' = fuel - 1
    /\ UNCHANGED <<at, waiting, system, calling, owed, cut>>

\* JS_EnqueueJob
Enqueue ==
    /\ Operation
    /\ jobs < MaxJobs
    /\ jobs' = jobs + 1
    /\ UNCHANGED <<settled, registered>>

\* Mutant of SetTimer: the new timer comes first.
SetTimerFirst(id, delay) ==
    /\ Operation
    /\ ~HasTimer(id)
    /\ timers' = <<[id |-> id, left |-> delay]>> \o timers
    /\ UNCHANGED <<settled, jobs, handlers, sigs, rejected>>

\* setTimeout; its handle is not in use.
SetTimer(id, delay) ==
    /\ Operation
    /\ ~HasTimer(id)
    /\ timers' = Append(timers, [id |-> id, left |-> delay])
    /\ UNCHANGED <<settled, jobs, handlers, sigs, rejected>>

\* clearTimeout
ClearTimer(id) ==
    /\ Operation
    /\ timers' = Without(timers, TimersOf(id))
    /\ UNCHANGED <<settled, jobs, handlers, sigs, rejected>>

\* setReadHandler and setWriteHandler with a function: the entry of the
\* descriptor, or a new one at the end.
SetHandler(fd, dir) ==
    /\ Operation
    /\ handlers' =
          IF HandlersOf(fd) = {}
          THEN Append(handlers, [fd |-> fd, funcs |-> {dir}])
          ELSE [i \in DOMAIN handlers |->
                  IF i \in HandlersOf(fd)
                  THEN [handlers[i] EXCEPT !.funcs = @ \cup {dir}] ELSE handlers[i]]
    /\ UNCHANGED <<settled, jobs, timers, sigs, rejected>>

\* The same with null: an entry without functions is removed.
UnsetHandler(fd, dir) ==
    LET unset == [i \in DOMAIN handlers |->
                    IF i \in HandlersOf(fd)
                    THEN [handlers[i] EXCEPT !.funcs = @ \ {dir}] ELSE handlers[i]]
    IN /\ Operation
       /\ handlers' = Without(unset, {i \in HandlersOf(fd) : unset[i].funcs = {}})
       /\ UNCHANGED <<settled, jobs, timers, sigs, rejected>>

\* os.signal, with a function and with null.
SetSignal(s) ==
    /\ Operation
    /\ sigs' = IF HandlersOfSignal(s) = {} THEN Append(sigs, s) ELSE sigs
    /\ UNCHANGED <<settled, jobs, timers, handlers, rejected>>

UnsetSignal(s) ==
    /\ Operation
    /\ sigs' = Without(sigs, HandlersOfSignal(s))
    /\ UNCHANGED <<settled, jobs, timers, handlers, rejected>>

\* js_std_promise_rejection_tracker: a promise without a handler is rejected,
\* and gets a handler after all.
Reject(p) ==
    /\ Operation
    /\ rejected' = rejected \cup {p}
    /\ UNCHANGED <<settled, jobs, timers, handlers, sigs>>

HandleRejection(p) ==
    /\ Operation
    /\ p \in rejected
    /\ rejected' = rejected \ {p}
    /\ UNCHANGED <<settled, jobs, timers, handlers, sigs>>

\* The promise of the main module is settled.
Settle ==
    /\ Operation
    /\ settled' = TRUE
    /\ UNCHANGED <<jobs, registered>>

\* The job or the callback returns; an exception of a callback is printed.
Return ==
    /\ at \in {"job", "event"}
    /\ at' = "jobs"
    /\ UNCHANGED <<waiting, settled, jobs, registered, system, calling, owed, cut, fuel>>

\* JS_ExecutePendingJob says -1: js_std_loop leaves its loop over the jobs,
\* js_std_await goes on.
Throw ==
    /\ JobsThrow
    /\ at = "job"
    /\ at' = IF waiting THEN "jobs" ELSE "check"
    /\ cut' = ~waiting
    /\ UNCHANGED <<waiting, settled, jobs, registered, system, calling, owed, fuel>>

-----------------------------------------------------------------------------
(***************************************************************************)
(* js_std_await, js_std_loop                                               *)
(***************************************************************************)

\* js_std_await returns and js_std_loop begins.
Awaited ==
    /\ at = "jobs" /\ waiting /\ settled
    /\ waiting' = FALSE
    /\ UNCHANGED <<at, settled, jobs, registered, system, calling, owed, cut, fuel>>

\* Mutant of RunJob: the thread may go to sleep with jobs on the queue.
RunJobOnce ==
    /\ at = "jobs" /\ ~(waiting /\ settled)
    /\ jobs > 0
    /\ jobs' = jobs - 1
    /\ at' \in {"job", "check"}
    /\ cut' = FALSE
    /\ UNCHANGED <<waiting, settled, registered, system, calling, owed, fuel>>

\* JS_ExecutePendingJob
RunJob ==
    /\ at = "jobs" /\ ~(waiting /\ settled)
    /\ jobs > 0
    /\ jobs' = jobs - 1
    /\ at' = "job"
    /\ cut' = FALSE
    /\ UNCHANGED <<waiting, settled, registered, system, calling, owed, fuel>>

NoMoreJobs ==
    /\ at = "jobs" /\ ~(waiting /\ settled)
    /\ jobs = 0
    /\ at' = "check" /\ cut' = FALSE
    /\ UNCHANGED <<waiting, settled, jobs, registered, system, calling, owed, fuel>>

\* js_std_promise_rejection_check, before the thread sleeps.
Check ==
    /\ at = "check"
    /\ at' = IF rejected = {} THEN "poll" ELSE "exit"
    /\ UNCHANGED <<waiting, settled, jobs, registered, system, calling, owed, cut, fuel>>

-----------------------------------------------------------------------------
(***************************************************************************)
(* js_os_poll                                                              *)
(***************************************************************************)

\* The callback of event e begins.
Call(e) ==
    /\ at' = "event"
    /\ calling' = e
    /\ fuel' = Fuel

\* A signal with a handler has come, the first on the list: js_os_poll reads
\* os_pending_signals ...
Due == {i \in DOMAIN sigs : sigs[i] \in pending}

ReadSignals ==
    /\ at = "poll" /\ Due # {}
    /\ clearing' = <<pending, sigs[Min(Due)]>>
    /\ at' = "clear"
    /\ UNCHANGED <<waiting, settled, jobs, registered, pending, ready, calling, owed, cut, fuel>>

\* ... and writes it without the signal, in two instructions where the
\* processor has none that does both; then the handler is called.
WriteSignals ==
    /\ at = "clear"
    /\ pending' = clearing[1] \ {clearing[2]}
    /\ clearing' = <<>>
    /\ Call(SignalEvent(clearing[2]))
    /\ owed' = owed \ {clearing[2]}
    /\ UNCHANGED <<waiting, settled, jobs, registered, ready, cut>>

\* Nothing to wait for: js_std_loop ends, js_std_await does not.
NoMoreEvents ==
    /\ at = "poll" /\ Due = {}
    /\ handlers = <<>> /\ timers = <<>>
    /\ at' = IF waiting THEN "jobs" ELSE "done"
    /\ UNCHANGED <<waiting, settled, jobs, registered, system, calling, owed, cut, fuel>>

\* The first timer on the list whose time has come.
Expired == {i \in DOMAIN timers : timers[i].left = 0}

TimerFires ==
    /\ at = "poll" /\ Due = {}
    /\ Expired # {}
    /\ timers' = Without(timers, Expired)
    /\ Call(TimerEvent(timers[Min(Expired)].id))
    /\ UNCHANGED <<waiting, settled, jobs, handlers, sigs, rejected, system, owed, cut>>

Select ==
    /\ at = "poll" /\ Due = {}
    /\ Expired = {} /\ (timers # <<>> \/ handlers # <<>>)
    /\ at' = "select"
    /\ UNCHANGED <<waiting, settled, jobs, registered, system, calling, owed, cut, fuel>>

\* select reports descriptors: the first handler on the list is called, the
\* one that reads before the one that writes.  It may leave data behind.
Reported ==
    {i \in DOMAIN handlers : \E dir \in handlers[i].funcs : <<handlers[i].fd, dir>> \in ready}

Selected ==
    /\ at = "select" /\ Reported # {}
    /\ LET rh == handlers[Min(Reported)]
           dir == IF "read" \in rh.funcs /\ <<rh.fd, "read">> \in ready
                  THEN "read" ELSE "write"
       IN /\ Call(FdEvent(rh.fd, dir))
          /\ ready' \in {ready, ready \ {<<rh.fd, dir>>}}
    /\ UNCHANGED <<waiting, settled, jobs, registered, pending, clearing, owed, cut>>

\* The shortest delay is over.
SelectTimeout ==
    /\ at = "select" /\ Expired # {}
    /\ at' = "jobs"
    /\ UNCHANGED <<waiting, settled, jobs, registered, system, calling, owed, cut, fuel>>

-----------------------------------------------------------------------------
(***************************************************************************)
(* The system                                                              *)
(***************************************************************************)

\* A millisecond passes.
Tick ==
    /\ ~Ended
    /\ \E i \in DOMAIN timers : timers[i].left > 0
    /\ timers' = [i \in DOMAIN timers |->
                    [timers[i] EXCEPT !.left = IF @ > 0 THEN @ - 1 ELSE 0]]
    /\ UNCHANGED <<at, waiting, settled, jobs, handlers, sigs, rejected, system, calling,
                   owed, cut, fuel>>

BecomeReady(fd, dir) ==
    /\ ~Ended
    /\ ready' = ready \cup {<<fd, dir>>}
    /\ ready' # ready
    /\ UNCHANGED <<at, waiting, settled, jobs, registered, pending, clearing, calling, owed, cut,
                   fuel>>

\* os_signal_handler runs, at any instruction; a select that waits fails
\* with EINTR.
Raise(s) ==
    /\ ~Ended
    /\ HandlersOfSignal(s) # {} /\ s \notin owed
    /\ pending' = pending \cup {s}
    /\ owed' = owed \cup {s}
    /\ at' = IF at = "select" THEN "jobs" ELSE at
    /\ UNCHANGED <<waiting, settled, jobs, registered, clearing, ready, calling, cut, fuel>>

-----------------------------------------------------------------------------
Script ==
    \/ Enqueue \/ Settle
    \/ \E id \in TimerIds : ClearTimer(id) \/ \E d \in 0..MaxDelay : SetTimer(id, d)
    \/ \E fd \in Fds, dir \in Directions : SetHandler(fd, dir) \/ UnsetHandler(fd, dir)
    \/ \E s \in Signals : SetSignal(s) \/ UnsetSignal(s)
    \/ \E p \in Promises : Reject(p) \/ HandleRejection(p)

Loop ==
    \/ Awaited \/ RunJob \/ NoMoreJobs \/ Check
    \/ ReadSignals \/ WriteSignals \/ NoMoreEvents \/ TimerFires
    \/ Select \/ Selected \/ SelectTimeout

Environment ==
    \/ \E fd \in Fds, dir \in Directions : BecomeReady(fd, dir)
    \/ \E s \in Signals : Raise(s)

Next == Script \/ Return \/ Throw \/ Loop \/ Tick \/ Environment

\* The thread goes on, scripts return, and time passes.
Spec == Init /\ [][Next]_vars /\ WF_vars(Loop) /\ WF_vars(Return \/ Throw) /\ WF_vars(Tick)

\* Every timer fires or is cleared, whatever timers the callbacks set.
TimersFire == \A id \in TimerIds : HasTimer(id) ~> (Ended \/ ~HasTimer(id))

\* The code does not keep the others.  A job that throws leaves the jobs behind
\* it on the queue; a signal that comes between the read and the write of
\* os_pending_signals is lost; and timers go before descriptors.
NoJobLeft == at = "done" => jobs = 0
SignalNotLost ==
    \A s \in owed : s \in pending \/ (at = "clear" /\ clearing[2] = s)
HandlersCalled ==
    \A fd \in Fds, dir \in Directions :
        (<<fd, dir>> \in ready /\ HasHandler(fd, dir)) ~>
            (\/ Ended \/ ~HasHandler(fd, dir)
             \/ at = "event" /\ calling = FdEvent(fd, dir))

=============================================================================
