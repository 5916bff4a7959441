-------------------------------- MODULE MCJobs --------------------------------
(***************************************************************************)
(* Promises, PromiseAll, AsyncGenerator and, for liveness, Modules on      *)
(* small instances.  They share no state: a behaviour is one of theirs,    *)
(* and part says whose, so that their state spaces add up.                 *)
(***************************************************************************)
EXTENDS Promises, PromiseAll, AsyncGeneratorState

CONSTANTS MaxRequests, MaxAwaits, a, b, c

VARIABLES
    part,
    requests, tla, broken, alias, failures, bound, exported, uses, status, dfs, ancestor,
    waits, stamp, pending, parents, root, error, promise, reason, phase, frames, search,
    visits, list, clock, body, starts

\* Generators in a program whose answers run no code, and one in which they do.
G == INSTANCE AsyncGenerator WITH ThenDefined <- FALSE
T == INSTANCE AsyncGenerator WITH ThenDefined <- TRUE

\* Every graph of three modules that request at most one, of which one may
\* have a top level await and each may throw.
M == INSTANCE Modules WITH
    Modules <- {a, b, c}, MaxRequests <- 1, MaxFailures <- 2, TlaModules <- {c},
    Throwing <- {a, b, c}, Broken <- {}, Aliases <- {},
    async <- waits, stack <- search, index <- visits, runs <- starts

ASSUME JobsAssumption == G!BoundsAssumption /\ M!ModulesAssumption

gvars == <<state, queue, stack, func, awaits, returns, asked, paused, answers, runs, fault>>

mvars == <<requests, tla, broken, alias, failures, bound, exported, uses, status, dfs,
           ancestor, waits, stamp, pending, parents, root, error, promise, reason, phase,
           frames, search, visits, list, clock, body, starts>>

Parts == {"promises", "all", "generator", "then", "modules"}

MCInit ==
    /\ part \in Parts
    /\ Init /\ G!Init
    /\ AllInit /\ (part # "all" => magic = "all")
    /\ M!Init /\ (part # "modules" => requests = [m \in {a, b, c} |-> <<>>] /\ tla = {})

MCNext ==
    /\ UNCHANGED part
    /\ \/ part = "promises" /\ Next /\ UNCHANGED <<allvars, gvars, mvars>>
       \/ part = "all" /\ AllNext /\ UNCHANGED <<vars, gvars, mvars>>
       \/ part = "generator" /\ G!Next /\ UNCHANGED <<vars, allvars, mvars>>
       \/ part = "then" /\ T!Next /\ UNCHANGED <<vars, allvars, mvars>>
       \/ part = "modules" /\ M!Next /\ UNCHANGED <<vars, allvars, gvars>>

mcvars == <<part, vars, allvars, gvars, mvars>>

MCSpec ==
    /\ MCInit /\ [][MCNext]_mcvars
    /\ WF_mcvars(part = "promises" /\ Returns /\ UNCHANGED <<part, allvars, gvars, mvars>>)
    /\ WF_mcvars(part = "promises" /\ ExecutePendingJob /\ UNCHANGED <<part, allvars, gvars, mvars>>)
    /\ WF_mcvars(part = "generator" /\ G!Engine /\ UNCHANGED <<part, vars, allvars, mvars>>)
    /\ WF_mcvars(part = "modules" /\ M!Search /\ UNCHANGED <<part, vars, allvars, gvars>>)
    /\ \A m \in {a, b, c} :
          SF_mcvars(part = "modules" /\ (M!Fulfilled(m) \/ M!Rejected(m))
                      /\ UNCHANGED <<part, vars, allvars, gvars>>)

\* JobsExact, HostHears, CompleteMeansAll and AnswersInOrder are stated in the
\* modules of the components.  What is awaited is settled in the end, by
\* promises and by generators, whose type invariants and ResumedInTime are
\* checked along with it.
AwaitEnds ==
    /\ AwaitGoesOn
    /\ part = "generator" => G!Progress
    /\ [](AllTypeOK /\ G!TypeOK)
    /\ [](IF part = "then" THEN T!ResumedInTime ELSE G!ResumedInTime)

ImportsSettle == part = "modules" => M!ImportsSettle
=============================================================================
