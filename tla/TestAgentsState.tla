--------------------------- MODULE TestAgentsState ---------------------------
(***************************************************************************)
(* The agents of a test and what is promised to it.  TestAgents says what  *)
(* the threads do.                                                         *)
(***************************************************************************)
EXTENDS Integers, Sequences

CONSTANTS
    Agents,
    Tester     \* the main thread

VARIABLES
    agent,              \* where an agent is
    registered,         \* agent->broadcast_func is set
    asked,              \* how often the agent has called receiveBroadcast
    broadcast_pending,  \* agent->broadcast_pending
    sab,                \* agent->broadcast_sab and its fields: the broadcast, or 0
    refs,               \* references of agents to the buffer of a broadcast
    main,               \* "run", "broadcast", "join", "ended"
    sent,               \* number of broadcasts
    blocked,            \* threads in pthread_cond_wait
    received            \* history: the broadcasts that the callbacks of an agent got

\* is_broadcast_pending
Pending == \E a \in Agents : broadcast_pending[a]

\* How many broadcasts an agent has taken.
TakenBy(a) == Len(received[a]) + (IF agent[a] = "taken" THEN 1 ELSE 0)

\* Every agent takes every broadcast once, the last of them before the call of
\* broadcast returns; an agent that uses a buffer has a reference to it until
\* it is joined; and no agent sleeps beside a broadcast for it.  The main thread
\* sleeps for a broadcast that is not taken, or beside an agent that waits for
\* the next one, which may have got its signal: this is a deadlock of the code
\* (BroadcastReturns), allowed here.
BroadcastTaken ==
    /\ \A a \in Agents :
          /\ TakenBy(a) = sent - (IF broadcast_pending[a] THEN 1 ELSE 0)
          /\ main # "broadcast" => TakenBy(a) = sent
          /\ agent[a] \in {"taken", "callback"} => refs[sab[a]] > 0
          /\ a \in blocked => ~broadcast_pending[a]
    /\ Tester \in blocked => Pending \/ \E a \in Agents : agent[a] = "wait"
==============================================================================
