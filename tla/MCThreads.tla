------------------------------ MODULE MCThreads ------------------------------
(***************************************************************************)
(* Atomics, Workers, TestAgents and EventLoop on small instances.  A       *)
(* behaviour is one of one instance, and part says of which, so that their *)
(* state spaces add up.  Part all is the instance of Atomics whose         *)
(* constants the configuration gives.                                      *)
(***************************************************************************)
EXTENDS Atomics, EventLoopState, TestAgentsState, WorkersState, TLC

CONSTANTS
    Parts,             \* the instances to check
    w1, w2, block,     \* worker threads, a shared block
    x, y, fd, int, hup, job    \* timers, a descriptor, signals, a promise

VARIABLE part

wvars == <<thread, arg, objects, wanted, ports, counts, queue, waker, lock, sabRefs, held, posted,
           taken>>
gvars == <<agent, registered, asked, broadcast_pending, sab, refs, main, sent, blocked, received>>
lvars == <<at, waiting, settled, jobs, timers, handlers, sigs, rejected, pending, clearing,
           ready, calling, owed, cut, fuel>>

\* Two words, notifies of one and two waiters, spurious wakeups.
Some == INSTANCE Atomics WITH
    Words <- {1, 2}, Counts <- {1, 2}, MaxCalls <- 3, Spurious <- TRUE

\* One worker and a shared block, two messages each way.
One == INSTANCE Workers WITH
    Workers <- {w1}, Nobody <- Free, Sabs <- {block}, MaxSent <- 2

\* Two workers.
Two == INSTANCE Workers WITH
    Workers <- {w1, w2}, Nobody <- Free, Sabs <- {}, MaxSent <- 1

\* One worker without shared blocks, for liveness.
Lone == INSTANCE Workers WITH
    Workers <- {w1}, Nobody <- Free, Sabs <- {}, MaxSent <- 2

\* Three agents and two broadcasts.
Test == INSTANCE TestAgents WITH Rounds <- 2, SpuriousWakeups <- TRUE

\* Timers, a descriptor and rejections; signals; timers alone, for liveness.
Ready == INSTANCE EventLoop WITH
    TimerIds <- {x, y}, Fds <- {fd}, Signals <- {}, Promises <- {job}, MaxJobs <- 2,
    MaxDelay <- 1, Fuel <- 2, JobsThrow <- FALSE
Raised == INSTANCE EventLoop WITH
    TimerIds <- {}, Fds <- {fd}, Signals <- {int, hup}, Promises <- {}, MaxJobs <- 1,
    MaxDelay <- 1, Fuel <- 2, JobsThrow <- TRUE
Timed == INSTANCE EventLoop WITH
    TimerIds <- {x, y}, Fds <- {}, Signals <- {}, Promises <- {}, MaxJobs <- 1,
    MaxDelay <- 1, Fuel <- 2, JobsThrow <- TRUE

ASSUME ThreadsAssumption ==
    /\ AtomicsAssumption /\ Some!AtomicsAssumption
    /\ One!WorkersAssumption /\ Two!WorkersAssumption
    /\ Test!AgentsAssumption
    /\ Ready!LoopAssumption /\ Raised!LoopAssumption

\* Initial states for the modules that a behaviour is not one of.
NoCalls == Init /\ mem = [w \in Words |-> 0]
NoWorkers == Lone!Init
NoAgents == Test!AgentsInit
NoLoop == Timed!Init

MCInit ==
    /\ part \in Parts
    /\ CASE part = "all" -> Init [] part = "some" -> Some!Init [] OTHER -> NoCalls
    /\ CASE part = "one" -> One!Init [] part = "two" -> Two!Init [] OTHER -> NoWorkers
    /\ NoAgents
    /\ NoLoop

MCNext ==
    /\ UNCHANGED part
    /\ \/ /\ \/ part = "all" /\ Next
             \/ part = "some" /\ Some!Next
          /\ UNCHANGED <<wvars, gvars, lvars>>
       \/ /\ \/ part = "one" /\ One!Next
             \/ part = "two" /\ Two!Next
             \/ part = "lone" /\ Lone!Next
          /\ UNCHANGED <<vars, gvars, lvars>>
       \/ /\ part = "agents" /\ Test!AgentsNext
          /\ UNCHANGED <<vars, wvars, lvars>>
       \/ /\ \/ part = "loop" /\ Ready!Next
             \/ part = "signals" /\ Raised!Next
             \/ part = "timers" /\ Timed!Next
          /\ UNCHANGED <<vars, wvars, gvars>>

state == <<part, vars, wvars, gvars, lvars>>

\* The fairness of the modules.
ThreadsFair ==
    /\ \A t \in Threads :
          /\ WF_state(part = "all" /\ Step(t) /\ UNCHANGED <<part, wvars, gvars, lvars>>)
          /\ WF_state(part = "all" /\ Expire(t) /\ UNCHANGED <<part, wvars, gvars, lvars>>)
    /\ \A t \in {w1, "main"} :
          WF_state(part = "lone" /\ Lone!Thread(t) /\ UNCHANGED <<part, vars, gvars, lvars>>)
LoopFair ==
    /\ WF_state(part = "timers" /\ Timed!Loop /\ UNCHANGED <<part, vars, wvars, gvars>>)
    /\ WF_state(part = "timers" /\ (Timed!Return \/ Timed!Throw)
                  /\ UNCHANGED <<part, vars, wvars, gvars>>)
    /\ WF_state(part = "timers" /\ Timed!Tick /\ UNCHANGED <<part, vars, wvars, gvars>>)

MCSpec == MCInit /\ [][MCNext]_state /\ ThreadsFair /\ LoopFair

Symmetric == Permutations(Threads)

-----------------------------------------------------------------------------
\* The liveness properties, under the names of the modules they are stated in.
Delivered == part = "lone" => Lone!Delivered
TimersFire == part = "timers" => Timed!TimersFire
=============================================================================
