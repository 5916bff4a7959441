---------------------------- MODULE WorkersState ----------------------------
(***************************************************************************)
(* The state that the threads of the os module share, and what must hold   *)
(* of it.  Workers says how the state changes.                             *)
(*                                                                         *)
(* An end is a Worker object: <<w, "main">> is what new Worker() returns,  *)
(* <<w, "worker">> is Worker.parent in the thread of w.  A message pipe is *)
(* named after the end that receives from it.                              *)
(***************************************************************************)
EXTENDS Naturals, Sequences, SequencesExt, FiniteSets

VARIABLES
    thread,   \* where a thread is
    arg,      \* the end it works for, and the message it has in hand
    objects,  \* ends whose Worker object exists
    wanted,   \* history: ends whose onmessage a script set and did not unset
    ports,    \* ts->port_list of each thread: ends with a handler
    counts,   \* ps->ref_count of the pipe of an end
    queue,    \* ps->msg_queue
    waker,    \* bytes in the waker of the pipe
    lock,     \* the thread that holds ps->mutex
    sabRefs,  \* ref_count of a block of shared memory
    held,     \* number of SharedArrayBuffers of a thread with this block
    posted,   \* history: number of messages put into the pipe of an end
    taken     \* history: number of messages taken out of it

Peer(e) == <<e[1], IF e[2] = "main" THEN "worker" ELSE "main">>
ThreadOf(e) == IF e[2] = "main" THEN "main" ELSE e[1]
HasPort(e) == e \in ToSet(ports[ThreadOf(e)])

\* One reference if there is such a user, and none otherwise.
OneIf(user) == IF user THEN 1 ELSE 0

\* The Worker objects of both sides have the pipe of e, each of them one.
ObjectRefs(S, e) == OneIf(e \in S) + OneIf(Peer(e) \in S)

\* The messages with block s that are in pipes, and the threads with one in hand.
Queued(s) ==
    UNION {{<<e, queue[e][i].id>> : i \in {i \in DOMAIN queue[e] : s \in queue[e][i].sabs}} :
               e \in DOMAIN queue}
InHand(s) ==
    {t \in DOMAIN thread : thread[t] \in {"lock", "append", "read", "free"} /\ s \in arg[t][2].sabs}

\* The SharedArrayBuffers of all threads with block s.
Buffers(s) == UNION {{<<t, n>> : n \in 1..held[t][s]} : t \in DOMAIN held}

-----------------------------------------------------------------------------
\* The waker of a pipe is readable exactly when the queue has messages,
\* outside of the critical sections: no message is left without a wakeup and
\* no thread goes round for a message that is not there.
WakerExact ==
    \A e \in DOMAIN queue :
        lock[e] \notin DOMAIN thread => waker[e] = OneIf(queue[e] # <<>>)

\* The count of a pipe is the number of its users: the Worker objects of both
\* sides, the port, and the arguments or the state of the worker thread.
RefsExact ==
    \A e \in DOMAIN counts :
        counts[e] = ObjectRefs(objects, e) + OneIf(HasPort(e))
                    + OneIf(thread[e[1]] \notin {"none", "runtime", "done"})

\* The count of a block is the number of SharedArrayBuffers of all threads
\* and of messages on their way that have it: none is freed while in use, and
\* none is left over.
SabsExact ==
    \A s \in DOMAIN sabRefs :
        sabRefs[s] = Cardinality(Queued(s)) + Cardinality(InHand(s)) + Cardinality(Buffers(s))

\* Messages are taken in the order in which they were posted, each one once.
InOrder ==
    \A e \in DOMAIN queue :
        /\ \A i \in DOMAIN queue[e] : queue[e][i].id = taken[e] + i
        /\ counts[e] > 0 => posted[e] = taken[e] + Len(queue[e])

\* The list of ports is empty when the state it belongs to is freed, so that
\* no port is unlinked from freed memory later.
NoPortLeft == \A t \in DOMAIN thread : thread[t] \in {"runtime", "done"} => ports[t] = <<>>

\* A pipe that a thread posts to or takes from has not been freed.
InUse ==
    \A t \in DOMAIN thread :
        /\ thread[t] \in {"lock", "append"} => counts[Peer(arg[t][1])] > 0
        /\ thread[t] = "take" => counts[arg[t][1]] > 0

\* What threads share is exact at every step of each of them: wakers, counts
\* of pipes and of blocks, the order of messages, and the lists of ports.
PipesExact == WakerExact /\ RefsExact /\ SabsExact /\ InOrder /\ NoPortLeft /\ InUse
=============================================================================
