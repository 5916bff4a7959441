------------------------------ MODULE MCModules ------------------------------
(***************************************************************************)
(* ModuleExports, ModuleLoading and Modules on small instances.  A         *)
(* behaviour is one of one instance, and part says of which, so that their *)
(* state spaces add up.  The configuration gives the constants of          *)
(* ModuleLoading: every graph of three files, each of which may fail to    *)
(* load.                                                                   *)
(***************************************************************************)
EXTENDS ModuleLoading, TLC

CONSTANTS
    a, b, c, z,                 \* modules
    w, default, u, v            \* names of exports, and local variables

VARIABLES
    part,
    imports, tla, broken, alias, failures, bound, exported, uses, status, dfs, ancestor,
    async, stamp, pending, parents, root, error, promise, reason, phase, frames, stack,
    index, list, clock, body, runs,
    exports, stars, answer

mvars == <<imports, tla, broken, alias, failures, bound, exported, uses, status, dfs,
           ancestor, async, stamp, pending, parents, root, error, promise, reason, phase,
           frames, stack, index, list, clock, body, runs>>
evars == <<exports, stars, answer>>

ABC == {a, b, c}

\* Every graph of three modules with at most two requests each, with a top
\* level await and an error in some of them, imported in every order.
Async == INSTANCE Modules WITH
    Modules <- ABC, MaxRequests <- 2, MaxFailures <- 2, TlaModules <- ABC,
    Throwing <- ABC, Broken <- {}, Aliases <- {}, requests <- imports

\* Some of them do not link.
Link == INSTANCE Modules WITH
    Modules <- ABC, MaxRequests <- 2, MaxFailures <- 2, TlaModules <- {},
    Throwing <- {}, Broken <- ABC, Aliases <- {}, requests <- imports

\* Some of them export a variable they import.
Alias == INSTANCE Modules WITH
    Modules <- ABC, MaxRequests <- 2, MaxFailures <- 2, TlaModules <- {},
    Throwing <- {}, Broken <- {}, Aliases <- ABC, requests <- imports

\* Four modules, three of which wait for the fourth.
Order == INSTANCE Modules WITH
    Modules <- ABC \cup {z}, MaxRequests <- 1, MaxFailures <- 2, TlaModules <- {z},
    Throwing <- {}, Broken <- {}, Aliases <- {}, requests <- imports

\* Every graph of three modules with one name, exported directly, indirectly
\* or over at most two stars.
Graphs == INSTANCE ModuleExports WITH
    Modules <- ABC, Names <- {w}, Locals <- {u}, Default <- default, Kinds <- {}, MaxStars <- 2,
    entries <- exports

\* Two modules, two names one of which is the default, two variables.
Pairs == INSTANCE ModuleExports WITH
    Modules <- {a, b}, Names <- {w, default}, Locals <- {u, v}, Default <- default,
    Kinds <- {}, MaxStars <- 2, entries <- exports

ASSUME ModulesAssumption == Async!ModulesAssumption /\ Order!ModulesAssumption
ASSUME ExportsAssumption == Graphs!ExportsAssumption /\ Pairs!ExportsAssumption

\* One initial state of each module, for the behaviours of the others.
NoModules == imports = [m \in ABC |-> <<>>] /\ Link!Init /\ broken = [m \in ABC |-> 0]
NoFiles == requests = [m \in ABC |-> <<>>] /\ LoadingInit
NoExports ==
    exports = [m \in {a, b} |-> [n \in {w, default} |-> Pairs!NoEntry]]
        /\ stars = [m \in {a, b} |-> <<>>] /\ Pairs!Init

Init ==
    /\ part \in {"async", "link", "alias", "order", "load", "graphs", "names"}
    /\ CASE part = "async" -> Async!Init /\ NoFiles /\ NoExports
         [] part = "link" -> Link!Init /\ NoFiles /\ NoExports
         [] part = "alias" -> Alias!Init /\ NoFiles /\ NoExports
         [] part = "order" -> Order!Init /\ NoFiles /\ NoExports
         [] part = "load" -> NoModules /\ LoadingInit /\ NoExports
         [] part = "graphs" -> NoModules /\ NoFiles /\ Graphs!Init
         [] part = "names" -> NoModules /\ NoFiles /\ Pairs!Init

Evaluation ==
    \/ part = "async" /\ Async!Next
    \/ part = "link" /\ Link!Next
    \/ part = "alias" /\ Alias!Next
    \/ part = "order" /\ Order!Next

Next ==
    /\ UNCHANGED part
    /\ \/ Evaluation /\ UNCHANGED <<loadvars, evars>>
       \/ part = "load" /\ LoadingNext /\ UNCHANGED <<mvars, evars>>
       \/ part = "graphs" /\ Graphs!Next /\ UNCHANGED <<mvars, loadvars>>
       \/ part = "names" /\ Pairs!Next /\ UNCHANGED <<mvars, loadvars>>

vars == <<part, mvars, loadvars, evars>>
Spec == Init /\ [][Next]_vars

Symmetric == Permutations(ABC)

-----------------------------------------------------------------------------
\* The properties, under the names of the modules they are stated in; LoadedOnce
\* is stated in ModuleLoading, and its type is a theorem.  The type invariant of
\* another module is checked along with one of its properties.
LinkedWhole ==
    CASE part = "order" -> Order!LinkedWhole
      [] part \in {"load", "graphs", "names"} -> TRUE
      [] OTHER -> Async!LinkedWhole
DependenciesFirst ==
    CASE part = "order" -> Order!DependenciesFirst /\ Order!PendingExact
      [] part = "async" -> Async!TypeOK /\ Async!DependenciesFirst /\ Async!PendingExact
      [] part \in {"link", "alias"} -> Async!DependenciesFirst
      [] OTHER -> TRUE
OldestFirst ==
    [][/\ part = "order" => Order!Oldest
       /\ part = "async" => Async!Oldest]_vars
SearchFinds ==
    CASE part = "graphs" -> Graphs!TypeOK /\ Graphs!SearchFinds
      [] part = "names" -> Pairs!TypeOK /\ Pairs!SearchFinds
      [] OTHER -> TRUE
=============================================================================
