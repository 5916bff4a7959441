----------------------------- MODULE TestAgents -----------------------------
(***************************************************************************)
(* The agents of run-test262: threads with a runtime each, to which the    *)
(* main thread of a test broadcasts shared array buffers.  One mutex and   *)
(* one condition variable serve the agents, which wait for a broadcast,    *)
(* and the main thread, which waits until all of them have taken it.       *)
(*                                                                         *)
(* The test is a well formed one: the main thread starts all agents, then  *)
(* broadcasts Rounds times, and every agent asks for Rounds broadcasts,    *)
(* with its script and then with a job after each callback.  What a thread *)
(* does with the mutex held is one step.  Pthread calls are modelled from  *)
(* POSIX.                                                                  *)
(***************************************************************************)
EXTENDS TestAgentsState, Integers, FiniteSets

CONSTANTS
    Rounds,            \* bound: broadcasts
    SpuriousWakeups    \* TRUE if a wait may return by itself

\* A test with agents has one at least: without, broadcast does not wait.
AgentsAssumption ==
    /\ IsFiniteSet(Agents) /\ Agents # {} /\ Tester \notin Agents
    /\ Rounds \in Nat \ {0} /\ SpuriousWakeups \in BOOLEAN

agentvars ==
    <<agent, registered, asked, broadcast_pending, sab, refs, main, sent, blocked, received>>

Broadcasts == 1..Rounds

AgentsTypeOK ==
    /\ agent \in [Agents -> {"new", "script", "jobs", "wait", "taken", "callback",
                          "exited", "joined"}]
    /\ registered \in [Agents -> BOOLEAN]
    /\ asked \in [Agents -> 0..Rounds]
    /\ broadcast_pending \in [Agents -> BOOLEAN]
    /\ sab \in [Agents -> 0..Rounds]
    /\ refs \in [Broadcasts -> 0..Cardinality(Agents)]
    /\ main \in {"run", "broadcast", "join", "ended"}
    /\ sent \in 0..Rounds
    /\ blocked \subseteq Agents \cup {Tester}
    /\ received \in [Agents -> Seq(Broadcasts)]
    /\ \A a \in Agents : Len(received[a]) <= Rounds

AgentsInit ==
    /\ agent = [a \in Agents |-> "new"]
    /\ registered = [a \in Agents |-> FALSE]
    /\ asked = [a \in Agents |-> 0]
    /\ broadcast_pending = [a \in Agents |-> FALSE]
    /\ sab = [a \in Agents |-> 0]
    /\ refs = [b \in Broadcasts |-> 0]
    /\ main = "run" /\ sent = 0
    /\ blocked = {}
    /\ received = [a \in Agents |-> <<>>]

-----------------------------------------------------------------------------
(***************************************************************************)
(* An agent                                                                *)
(***************************************************************************)

Register(a) ==
    /\ asked[a] < Rounds /\ ~registered[a]
    /\ registered' = [registered EXCEPT ![a] = TRUE]
    /\ asked' = [asked EXCEPT ![a] = @ + 1]
    /\ UNCHANGED <<broadcast_pending, sab, refs, main, sent, blocked, received>>

\* The script of the agent; later, a job.
Script(a) ==
    /\ agent[a] = "script" /\ agent' = [agent EXCEPT ![a] = "jobs"]
    /\ Register(a)
Job(a) == agent[a] = "jobs" /\ Register(a) /\ UNCHANGED agent

\* There are no more jobs and no function to call.
Exit(a) ==
    /\ agent[a] = "jobs" /\ ~registered[a] /\ asked[a] = Rounds
    /\ agent' = [agent EXCEPT ![a] = "exited"]
    /\ UNCHANGED <<registered, asked, broadcast_pending, sab, refs, main, sent, blocked, received>>

HasMutex(a) ==
    \/ agent[a] = "jobs" /\ registered[a]
    \/ agent[a] = "wait" /\ a \notin blocked

\* pthread_cond_wait
AwaitBroadcast(a) ==
    /\ HasMutex(a) /\ ~broadcast_pending[a]
    /\ agent' = [agent EXCEPT ![a] = "wait"]
    /\ blocked' = blocked \cup {a}
    /\ UNCHANGED <<registered, asked, broadcast_pending, sab, refs, main, sent, received>>

\* pthread_cond_signal wakes one of the threads that wait, if any.
CondSignal ==
    IF blocked = {} THEN UNCHANGED blocked
    ELSE \E t \in blocked : blocked' = blocked \ {t}

TakeBroadcast(a) ==
    /\ HasMutex(a) /\ broadcast_pending[a]
    /\ broadcast_pending' = [broadcast_pending EXCEPT ![a] = FALSE]
    /\ CondSignal
    /\ agent' = [agent EXCEPT ![a] = "taken"]
    /\ UNCHANGED <<registered, asked, sab, refs, main, sent, received>>

\* The callback is called with the fields of the agent, after the mutex.
Call(a) ==
    /\ agent[a] = "taken"
    /\ agent' = [agent EXCEPT ![a] = "callback"]
    /\ received' = [received EXCEPT ![a] = Append(@, sab[a])]
    /\ UNCHANGED <<registered, asked, broadcast_pending, sab, refs, main, sent, blocked>>

EndCallback(a) ==
    /\ agent[a] = "callback"
    /\ agent' = [agent EXCEPT ![a] = "jobs"]
    /\ registered' = [registered EXCEPT ![a] = FALSE]
    /\ UNCHANGED <<asked, broadcast_pending, sab, refs, main, sent, blocked, received>>

-----------------------------------------------------------------------------
(***************************************************************************)
(* The main thread                                                         *)
(***************************************************************************)

Start(a) ==
    /\ main = "run" /\ agent[a] = "new"
    /\ agent' = [agent EXCEPT ![a] = "script"]
    /\ UNCHANGED <<registered, asked, broadcast_pending, sab, refs, main, sent, blocked, received>>

\* References that the agents get.
Referenced == Cardinality(Agents)

\* Mutant of Broadcast: only the agents that wait.
BroadcastWaiting ==
    /\ main = "run" /\ sent < Rounds
    /\ \A a \in Agents : agent[a] # "new"
    /\ sent' = sent + 1
    /\ broadcast_pending' = [a \in Agents |-> broadcast_pending[a] \/ a \in blocked]
    /\ sab' = [a \in Agents |-> sent + 1]
    /\ refs' = [refs EXCEPT ![sent + 1] = Referenced]
    /\ blocked' = {Tester}
    /\ main' = "broadcast"
    /\ UNCHANGED <<agent, registered, asked, received>>

\* js_agent_broadcast: every agent gets a reference in place of the one it
\* had; all threads that wait wake up, and the main thread waits.
Broadcast ==
    /\ main = "run" /\ sent < Rounds
    /\ \A a \in Agents : agent[a] # "new"
    /\ sent' = sent + 1
    /\ broadcast_pending' = [a \in Agents |-> TRUE]
    /\ sab' = [a \in Agents |-> sent + 1]
    /\ refs' = [refs EXCEPT ![sent + 1] = Referenced]
    /\ blocked' = {Tester}
    /\ main' = "broadcast"
    /\ UNCHANGED <<agent, registered, asked, received>>

\* It has woken up: is_broadcast_pending.
MainWakes ==
    /\ main = "broadcast" /\ Tester \notin blocked
    /\ IF Pending THEN blocked' = blocked \cup {Tester} /\ UNCHANGED main
       ELSE main' = "run" /\ UNCHANGED blocked
    /\ UNCHANGED <<agent, registered, asked, broadcast_pending, sab, refs, sent, received>>

\* The test is over: js_agent_free.
Leave ==
    /\ main = "run" /\ sent = Rounds
    /\ main' = "join"
    /\ UNCHANGED <<agent, registered, asked, broadcast_pending, sab, refs, sent, blocked, received>>

Join(a) ==
    /\ main = "join" /\ agent[a] = "exited"
    /\ agent' = [agent EXCEPT ![a] = "joined"]
    /\ refs' = [refs EXCEPT ![sab[a]] = @ - 1]
    /\ UNCHANGED <<registered, asked, broadcast_pending, sab, main, sent, blocked, received>>

FreeRuntime ==
    /\ main = "join" /\ \A a \in Agents : agent[a] = "joined"
    /\ main' = "ended"
    /\ UNCHANGED <<agent, registered, asked, broadcast_pending, sab, refs, sent, blocked, received>>

WakesBySelf ==
    /\ SpuriousWakeups
    /\ \E t \in blocked : blocked' = blocked \ {t}
    /\ UNCHANGED <<agent, registered, asked, broadcast_pending, sab, refs, main, sent, received>>

Ended == main = "ended" /\ UNCHANGED agentvars

Agent(a) ==
    \/ Script(a) \/ Job(a) \/ Exit(a)
    \/ AwaitBroadcast(a) \/ TakeBroadcast(a) \/ Call(a) \/ EndCallback(a)
Thread == Broadcast \/ MainWakes \/ Leave \/ FreeRuntime \/ \E a \in Agents : Start(a) \/ Join(a)

AgentsNext == Thread \/ WakesBySelf \/ Ended \/ \E a \in Agents : Agent(a)

\* Threads that can go on do.
AgentsSpec ==
    /\ AgentsInit /\ [][AgentsNext]_agentvars
    /\ WF_agentvars(Thread) /\ \A a \in Agents : WF_agentvars(Agent(a))

-----------------------------------------------------------------------------
\* The code does not keep the others.  A callback may get the values of a later
\* broadcast; buffers of broadcasts that were replaced are left; and a signal
\* for the main thread may wake up an agent.
ReceivedAsSent == \A a \in Agents : \A n \in DOMAIN received[a] : received[a][n] = n
NoBufferLeft == main = "ended" => \A b \in Broadcasts : refs[b] = 0
BroadcastReturns == main = "broadcast" ~> main = "run"
=============================================================================
