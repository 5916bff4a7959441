------------------------------- MODULE Atomics -------------------------------
(***************************************************************************)
(* Atomics.wait and Atomics.notify (quickjs.c): threads that share memory, *)
(* the list of waiters behind one mutex, and a condition variable for each *)
(* waiter.  A waiter is a structure on the stack of the thread that waits. *)
(* Stores do not take the mutex, so the memory can change between the      *)
(* comparison of wait and its sleep.                                       *)
(*                                                                         *)
(* The program is one that uses the two calls as intended: it announces    *)
(* each store with a notify.  Pthread calls are modelled from POSIX: a     *)
(* wait gives up the mutex and sleeps in one step, returns with the mutex  *)
(* held, may time out at any time, and may wake up by itself.              *)
(***************************************************************************)
EXTENDS Integers, Sequences, SequencesExt, FiniteSets

CONSTANTS
    Threads,   \* one runtime each
    Main,      \* the threads whose runtime must not block (can_block is FALSE)
    Free,      \* holder of a mutex that no thread holds
    Words,     \* addresses in a shared buffer
    Values,    \* what a word can hold
    Counts,    \* how many waiters a notify asks for
    MaxCalls,  \* bound: calls of wait and store
    Timeouts,  \* TRUE if some waits are timed
    Spurious   \* TRUE if condition variables may wake up by themselves

AtomicsAssumption ==
    /\ IsFiniteSet(Threads) /\ Main \subseteq Threads /\ Free \notin Threads
    /\ Counts \subseteq Nat \ {0} /\ MaxCalls \in Nat
    /\ Timeouts \in BOOLEAN /\ Spurious \in BOOLEAN

VARIABLES
    mem,     \* the shared memory
    mutex,   \* who holds js_atomics_mutex
    list,    \* js_atomics_waiter_list: the threads whose waiter is on it
    batch,   \* the list of waiters the running notify has taken
    pc,      \* where each thread is
    call,    \* the arguments of its call
    linked,  \* linked[t]: the field of the waiter of t
    last,    \* history: what the last wait of each thread returned
    calls    \* number of calls made

vars == <<mem, mutex, list, batch, pc, call, linked, last, calls>>

\* In wait: before the mutex, before the list, asleep, and back from
\* pthread_cond_wait by a signal or pthread_cond_timedwait by the clock.
\* In notify: before the mutex, taking waiters off the list, and signalling.
Points == {"idle", "wait", "link", "sleep", "woken", "expired", "notify", "take", "signal"}

\* The waiter of t exists, on the stack of t.
Waiting(t) == pc[t] \in {"sleep", "woken", "expired"}

\* The mutex is held exactly where the code is between lock and unlock.
TypeOK ==
    /\ mem \in [Words -> Values]
    /\ mutex \in Threads \cup {Free}
    /\ list \in Seq(Threads) /\ batch \in Seq(Threads)
    /\ pc \in [Threads -> Points]
    /\ call \in [Threads -> [word : Words, value : Values, timed : BOOLEAN, count : Nat]]
    /\ linked \in [Threads -> BOOLEAN]
    /\ last \in [Threads -> {"none", "not_equal", "ok", "timed_out"} \X BOOLEAN]
    /\ calls \in 0..MaxCalls
    /\ \A t \in Threads : mutex = t <=> pc[t] \in {"link", "take", "signal"}

Init ==
    \E w \in Words, v \in Values :
    /\ mem = [x \in Words |-> v]
    /\ mutex = Free
    /\ list = <<>> /\ batch = <<>>
    /\ pc = [t \in Threads |-> "idle"]
    /\ call = [t \in Threads |-> [word |-> w, value |-> v, timed |-> FALSE, count |-> 0]]
    /\ linked = [t \in Threads |-> FALSE]
    /\ last = [t \in Threads |-> <<"none", FALSE>>]
    /\ calls = 0

Goto(t, p) == pc' = [pc EXCEPT ![t] = p]

Begin(t, p, c) ==
    /\ pc[t] = "idle"
    /\ calls < MaxCalls
    /\ calls' = calls + 1
    /\ call' = [call EXCEPT ![t] = c]
    /\ Goto(t, p)

-----------------------------------------------------------------------------
(***************************************************************************)
(* Atomics.wait                                                            *)
(***************************************************************************)

\* A call of a thread that may block.
Wait(t, w, v, timed) ==
    /\ t \notin Main
    /\ timed => Timeouts
    /\ Begin(t, "wait", [word |-> w, value |-> v, timed |-> timed, count |-> 0])
    /\ UNCHANGED <<mem, mutex, list, batch, linked, last>>

\* The mutex is taken and the word is read.
Compare(t) ==
    /\ pc[t] = "wait" /\ mutex = Free
    /\ IF mem[call[t].word] # call[t].value
       THEN /\ last' = [last EXCEPT ![t] = <<"not_equal", FALSE>>]
            /\ Goto(t, "idle")
            /\ UNCHANGED mutex
       ELSE /\ mutex' = t
            /\ Goto(t, "link")
            /\ UNCHANGED last
    /\ UNCHANGED <<mem, list, batch, call, linked, calls>>

\* The waiter goes on the list; pthread_cond_wait gives the mutex up.
Sleep(t) ==
    /\ pc[t] = "link"
    /\ list' = Append(list, t)
    /\ linked' = [linked EXCEPT ![t] = TRUE]
    /\ mutex' = Free
    /\ Goto(t, "sleep")
    /\ UNCHANGED <<mem, batch, call, last, calls>>

\* The time of a timed wait is over.
Expire(t) ==
    /\ pc[t] = "sleep" /\ call[t].timed
    /\ Goto(t, "expired")
    /\ UNCHANGED <<mem, mutex, list, batch, call, linked, last, calls>>

\* POSIX: "Spurious wakeups from pthread_cond_wait may occur".
WakeUp(t) ==
    /\ Spurious
    /\ pc[t] = "sleep"
    /\ Goto(t, "woken")
    /\ UNCHANGED <<mem, mutex, list, batch, call, linked, last, calls>>

\* Mutant of Return: a waiter whose time is over stays on the list.
ReturnListed(t) ==
    /\ pc[t] \in {"woken", "expired"} /\ mutex = Free
    /\ linked' = [linked EXCEPT ![t] = FALSE]
    /\ last' = [last EXCEPT ![t] =
                  <<IF pc[t] = "expired" THEN "timed_out" ELSE "ok", ~linked[t]>>]
    /\ Goto(t, "idle")
    /\ UNCHANGED <<mem, mutex, list, batch, call, calls>>

\* With the mutex again: the waiter leaves the list if it is still on it, and
\* ceases to exist.  The result is the one of the condition variable.
Return(t) ==
    /\ pc[t] \in {"woken", "expired"} /\ mutex = Free
    /\ IF linked[t] THEN \E i \in DOMAIN list : list[i] = t /\ list' = RemoveAt(list, i)
       ELSE UNCHANGED list
    /\ linked' = [linked EXCEPT ![t] = FALSE]
    /\ last' = [last EXCEPT ![t] =
                  <<IF pc[t] = "expired" THEN "timed_out" ELSE "ok", ~linked[t]>>]
    /\ Goto(t, "idle")
    /\ UNCHANGED <<mem, mutex, batch, call, calls>>

-----------------------------------------------------------------------------
(***************************************************************************)
(* Atomics.store and Atomics.notify                                        *)
(***************************************************************************)

\* The program changes a word, without the mutex, and goes on to notify.
Store(t, w, v, n) ==
    /\ Begin(t, "notify", [word |-> w, value |-> v, timed |-> FALSE, count |-> n])
    /\ mem' = [mem EXCEPT ![w] = v]
    /\ UNCHANGED <<mutex, list, batch, linked, last>>

\* The mutex is taken, and waiter_list is empty.
Lock(t) ==
    /\ pc[t] = "notify" /\ mutex = Free
    /\ mutex' = t
    /\ batch' = <<>>
    /\ Goto(t, "take")
    /\ UNCHANGED <<mem, list, call, linked, last, calls>>

\* The places on the list of the waiters for word w.
Here(w) == {i \in DOMAIN list : call[list[i]].word = w}

\* The next waiter for the word moves to the list of the call, until it has as
\* many as asked for.
Take(t) ==
    /\ pc[t] = "take" /\ Len(batch) < call[t].count
    /\ \E i \in Here(call[t].word) :
          /\ \A j \in Here(call[t].word) : i <= j
          /\ list' = RemoveAt(list, i)
          /\ batch' = Append(batch, list[i])
          /\ linked' = [linked EXCEPT ![list[i]] = FALSE]
    /\ UNCHANGED <<mem, mutex, pc, call, last, calls>>

Taken(t) ==
    /\ pc[t] = "take"
    /\ Len(batch) = call[t].count \/ Here(call[t].word) = {}
    /\ Goto(t, "signal")
    /\ UNCHANGED <<mem, mutex, list, batch, call, linked, last, calls>>

\* pthread_cond_signal wakes the waiter, if it is still asleep.
Signal(t) ==
    /\ pc[t] = "signal" /\ batch # <<>>
    /\ batch' = Tail(batch)
    /\ IF pc[Head(batch)] = "sleep" THEN Goto(Head(batch), "woken") ELSE UNCHANGED pc
    /\ UNCHANGED <<mem, mutex, list, call, linked, last, calls>>

\* Mutant of Signalled: the last waiter is not signalled.
SignalledShort(t) ==
    /\ pc[t] = "signal" /\ Len(batch) <= 1
    /\ batch' = <<>>
    /\ mutex' = Free
    /\ Goto(t, "idle")
    /\ UNCHANGED <<mem, list, call, linked, last, calls>>

Signalled(t) ==
    /\ pc[t] = "signal" /\ batch = <<>>
    /\ mutex' = Free
    /\ Goto(t, "idle")
    /\ UNCHANGED <<mem, list, batch, call, linked, last, calls>>

-----------------------------------------------------------------------------
\* A thread is inside one of the calls.
Step(t) ==
    \/ Compare(t) \/ Sleep(t) \/ Return(t)
    \/ Lock(t) \/ Take(t) \/ Taken(t) \/ Signal(t) \/ Signalled(t)

Next ==
    \E t \in Threads :
        \/ \E w \in Words, v \in Values :
              \/ \E timed \in BOOLEAN : Wait(t, w, v, timed)
              \/ \E n \in Counts : Store(t, w, v, n)
        \/ Step(t) \/ Expire(t) \/ WakeUp(t)

\* A thread that can go on does, and the clock of a timed wait runs; the
\* program need not make a call and nothing need wake up by itself.
Spec ==
    /\ Init /\ [][Next]_vars
    /\ \A t \in Threads : WF_vars(Step(t)) /\ WF_vars(Expire(t))

-----------------------------------------------------------------------------
\* The lists hold exactly the waiters that exist: the list of waiters, each
\* once, those with linked set, and the list of a notify those it still has to
\* signal, never the waiter of a wait that has returned.
WaitersListed ==
    /\ IsInjective(list)
    /\ \A t \in Threads : linked[t] <=> t \in ToSet(list)
    /\ \A t \in ToSet(list) \cup ToSet(batch) : Waiting(t)
    /\ ToSet(list) \cap ToSet(batch) = {}

\* No store goes unnoticed: a thread that sleeps on a word that no longer holds
\* the value it was compared with returns, if every store is followed by a
\* notify of all waiters.
StoreWakes ==
    \A t \in Threads :
        (pc[t] = "sleep" /\ mem[call[t].word] # call[t].value) ~> pc[t] = "idle"

\* Refuted, by a spurious wakeup: a wait that says "ok" was counted by a notify.
OkMeansNotified == \A t \in Threads : last[t][1] = "ok" => last[t][2]

\* Refuted, by a waiter whose time expires while a notify has it on its list: a
\* waiter that a notify counted says "ok".
NotifiedMeansOk == \A t \in Threads : last[t][2] => last[t][1] = "ok"
=============================================================================
