------------------------------ MODULE Modules ------------------------------
(***************************************************************************)
(* Linking and evaluation of ES modules (quickjs.c): an import() or a main *)
(* module links the graph of a module, depth first, and evaluates it; a    *)
(* module that awaits at its top level, and those that need it, go on in   *)
(* jobs.  The modules are loaded; loading is the subject of ModuleLoading. *)
(*                                                                         *)
(* The two depth first searches are recursive in the code; here their call *)
(* stack is a variable.  Nothing runs between their steps: an import()     *)
(* only queues a job.                                                      *)
(***************************************************************************)
EXTENDS Integers, Sequences, SequencesExt, FiniteSets

CONSTANTS
    Modules,
    MaxRequests,  \* bound: modules that a module requests
    TlaModules,   \* modules that may have a top level await
    Broken,       \* modules that may import a name that cannot be resolved
    Aliases,      \* modules that may export a variable they import
    MaxFailures,  \* bound: imports that fail to link
    Throwing,     \* modules that may throw
    None          \* no module

ModulesAssumption == MaxRequests \in Nat /\ MaxFailures \in Nat /\ None \notin Modules

VARIABLES
    requests,     \* m->req_module_entries
    tla,          \* m->has_tla
    broken,       \* the import that js_resolve_export does not find, or 0
    alias,        \* the import whose variable m exports, or 0
    failures,     \* number of imports that did not link
    bound,        \* the variables bound in var_refs: the module of each
    exported,     \* modules whose export entry has its var_ref
    uses,         \* reference count of the variable of m
    status,       \* m->status
    dfs,          \* m->dfs_index
    ancestor,     \* m->dfs_ancestor_index
    async,        \* m->async_evaluation
    stamp,        \* m->async_evaluation_timestamp
    pending,      \* m->pending_async_dependencies
    parents,      \* m->async_parent_modules
    root,         \* m->cycle_root
    error,        \* m->eval_exception: the module that threw it
    promise,      \* m->promise, "none" before Evaluate
    reason,       \* with which it was rejected
    phase,        \* "idle", "link", "evaluate", "execute", "crash"
    frames,       \* the calls of the search: module and next request
    stack,        \* the stack of the search
    index,        \* number of modules it has visited
    list,         \* modules that js_async_module_execution_fulfilled executes
    clock,        \* rt->module_async_evaluation_next_timestamp
    body,         \* history: how far the code of a module is
    runs          \* history: how often it was started

graph == <<requests, tla, broken, alias>>
binding == <<failures, bound, exported, uses>>
search == <<phase, frames, stack, index>>
evaluation == <<async, stamp, pending, parents, root, error, promise, reason, list, clock>>
execution == <<body, runs>>
vars == <<graph, binding, status, dfs, ancestor, evaluation, search, execution>>

Statuses == {"unlinked", "linking", "linked", "evaluating", "evaluating_async", "evaluated"}

Lists == {s \in UNION {[1..n -> Modules] : n \in 0..MaxRequests} : IsInjective(s)}

Errors == Modules \cup {None}

TypeOK ==
    /\ requests \in [Modules -> Lists]
    /\ tla \subseteq TlaModules
    /\ broken \in [Modules -> 0..MaxRequests]
    /\ failures \in 0..MaxFailures
    /\ alias \in [Modules -> 0..MaxRequests]
    /\ \A m \in Modules : bound[m] \in Seq(Errors) /\ Len(bound[m]) <= MaxRequests
    /\ exported \subseteq Modules
    /\ uses \in [Modules -> Nat]
    /\ status \in [Modules -> Statuses]
    /\ dfs \in [Modules -> 0..Cardinality(Modules)]
    /\ ancestor \in [Modules -> 0..Cardinality(Modules)]
    /\ async \subseteq Modules
    /\ stamp \in [Modules -> 0..Cardinality(Modules)]
    /\ pending \in [Modules -> Nat]
    /\ parents \in [Modules -> Seq(Modules)]
    /\ root \in [Modules -> Errors]
    /\ error \in [Modules -> Errors]
    /\ promise \in [Modules -> {"none", "pending", "fulfilled", "rejected"}]
    /\ reason \in [Modules -> Errors]
    /\ phase \in {"idle", "link", "evaluate", "execute", "crash"}
    /\ frames \in Seq([m : Modules, i : 1..MaxRequests + 1])
    /\ stack \in Seq(Modules) /\ IsInjective(stack)
    /\ index \in 0..Cardinality(Modules)
    /\ list \in Seq(Modules)
    /\ clock \in 0..Cardinality(Modules)
    /\ body \in [Modules -> {"none", "running", "done", "threw"}]

Init ==
    /\ requests \in [Modules -> Lists]
    /\ tla \in SUBSET TlaModules
    /\ broken \in {f \in [Modules -> 0..MaxRequests] :
                     \A m \in Modules : f[m] <= Len(requests[m]) /\ (m \notin Broken => f[m] = 0)}
    /\ alias \in {f \in [Modules -> 0..1] :
                    \A m \in Modules : f[m] <= Len(requests[m]) /\ (m \notin Aliases => f[m] = 0)}
    /\ failures = 0
    /\ bound = [m \in Modules |-> <<>>] /\ exported = {}
    /\ uses = [m \in Modules |-> 1]
    /\ status = [m \in Modules |-> "unlinked"]
    /\ dfs = [m \in Modules |-> 0] /\ ancestor = [m \in Modules |-> 0]
    /\ async = {} /\ stamp = [m \in Modules |-> 0]
    /\ pending = [m \in Modules |-> 0]
    /\ parents = [m \in Modules |-> <<>>]
    /\ root = [m \in Modules |-> None]
    /\ error = [m \in Modules |-> None]
    /\ promise = [m \in Modules |-> "none"]
    /\ reason = [m \in Modules |-> None]
    /\ phase = "idle" /\ frames = <<>> /\ stack = <<>> /\ index = 0
    /\ list = <<>> /\ clock = 0
    /\ body = [m \in Modules |-> "none"]
    /\ runs = [m \in Modules |-> 0]

Top == Last(frames)
Requested == requests[Top.m][Top.i]
HasRequest == Top.i <= Len(requests[Top.m])
NextRequest == [frames EXCEPT ![Len(frames)].i = @ + 1]
MinOf(a, b) == IF a < b THEN a ELSE b

Evaluating == {"evaluating_async", "evaluated"}

\* js_inner_module_linking and js_inner_module_evaluation begin with m.
Visit(m, entered, calls) ==
    /\ status' = [status EXCEPT ![m] = entered]
    /\ LET next == IF calls = <<>> THEN 0 ELSE index
       IN /\ dfs' = [dfs EXCEPT ![m] = next]
          /\ ancestor' = [ancestor EXCEPT ![m] = next]
          /\ index' = next + 1
    /\ frames' = Append(calls, [m |-> m, i |-> 1])
    /\ stack' = Append(stack, m)

\* The modules of stack from m on: the cycles that m is the root of.
PoppedWith(m) == {n \in ToSet(stack) : \E i, j \in DOMAIN stack :
                                          stack[i] = m /\ stack[j] = n /\ i <= j}
StackBelow(m) == SelectSeq(stack, LAMBDA n : n \notin PoppedWith(m))
IsRoot(m) == dfs[m] = ancestor[m]

-----------------------------------------------------------------------------
(***************************************************************************)
(* js_link_module                                                          *)
(***************************************************************************)

\* JS_EvalFunctionInternal for module m: a dynamic import, or the main module.
Import(m) ==
    /\ phase = "idle" /\ failures < MaxFailures
    /\ phase' = "link"
    /\ IF status[m] = "unlinked"
       THEN Visit(m, "linking", <<>>)
       ELSE /\ frames' = <<[m |-> m, i |-> Len(requests[m]) + 1]>>
            /\ UNCHANGED <<status, dfs, ancestor, stack, index>>
    /\ UNCHANGED <<graph, binding, evaluation, execution>>

LinkVisit ==
    /\ phase = "link" /\ HasRequest
    /\ status[Requested] = "unlinked"
    /\ Visit(Requested, "linking", frames)
    /\ UNCHANGED <<graph, binding, phase, evaluation, execution>>

LinkRequest ==
    /\ phase = "link" /\ HasRequest
    /\ status[Requested] # "unlinked"
    /\ ancestor' = IF status[Requested] = "linking"
                   THEN [ancestor EXCEPT ![Top.m] = MinOf(@, ancestor[Requested])]
                   ELSE ancestor
    /\ frames' = NextRequest
    /\ UNCHANGED <<graph, binding, status, dfs, phase, stack, index, evaluation, execution>>

\* The variable that n exports, while slots are those of m: an import of n
\* that is not bound yet is a null pointer.
VarRef(n, m, slots) ==
    LET its == IF n = m THEN slots ELSE bound[n]
    IN IF alias[n] = 0 THEN n
       ELSE IF alias[n] <= Len(its) THEN its[alias[n]] ELSE None

\* The first n imports of m, resolved in order.
Resolved(m, n) ==
    FoldLeft(LAMBDA slots, x : Append(slots, VarRef(x, m, slots)), <<>>,
             SubSeq(requests[m], 1, n))

\* Mutant of Bind: the export entry does not count its reference.
BindUncounted(m, n) ==
    LET slots == Resolved(m, n) IN
    /\ bound' = [bound EXCEPT ![m] = slots \o SubSeq(@, n + 1, Len(@))]
    /\ uses' = [x \in Modules |-> uses[x] + Cardinality({i \in 1..n : slots[i] = x})]
    /\ exported' = IF broken[m] = 0 THEN exported \cup {m} ELSE exported

\* The first n imports of m share the variables of other modules, and what was
\* bound before is overwritten; then the export entry keeps the variable.
Bind(m, n) ==
    LET slots == Resolved(m, n)
        own == IF broken[m] = 0 THEN {m} ELSE {}
    IN /\ bound' = [bound EXCEPT ![m] = slots \o SubSeq(@, n + 1, Len(@))]
       /\ uses' = [x \in Modules |->
                     uses[x] + Cardinality({i \in 1..n : slots[i] = x})
                             + Cardinality({e \in own : VarRef(e, m, slots) = x})]
       /\ exported' = exported \cup own

Imported == IF broken[Top.m] = 0 THEN Len(requests[Top.m]) ELSE broken[Top.m] - 1
NullImport == \E i \in 1..Imported : Resolved(Top.m, Imported)[i] = None

\* The reference of an import that is not bound is counted.
LinkCrash ==
    /\ phase = "link" /\ ~HasRequest
    /\ status[Top.m] = "linking" /\ NullImport
    /\ phase' = "crash"
    /\ UNCHANGED <<graph, binding, status, dfs, ancestor, frames, stack, index, evaluation,
                   execution>>

\* The modules of the stack.
Unlinked == ToSet(stack)

\* A name cannot be resolved: the modules of the stack become unlinked, with
\* the variables they have bound.
LinkFail ==
    /\ phase = "link" /\ ~HasRequest
    /\ status[Top.m] = "linking" /\ broken[Top.m] > 0 /\ ~NullImport
    /\ status' = [m \in Modules |-> IF m \in Unlinked THEN "unlinked" ELSE status[m]]
    /\ phase' = "idle" /\ frames' = <<>> /\ stack' = <<>> /\ index' = 0
    /\ failures' = failures + 1
    /\ Bind(Top.m, Imported)
    /\ UNCHANGED <<graph, dfs, ancestor, evaluation, execution>>

\* The variables are bound; the root of cycles takes them off the stack.
LinkFinish ==
    /\ phase = "link" /\ ~HasRequest
    /\ status[Top.m] = "linking" /\ broken[Top.m] = 0 /\ ~NullImport
    /\ IF IsRoot(Top.m)
       THEN /\ status' = [m \in Modules |->
                            IF m \in PoppedWith(Top.m) THEN "linked" ELSE status[m]]
            /\ stack' = StackBelow(Top.m)
       ELSE UNCHANGED <<status, stack>>
    /\ Bind(Top.m, Imported)
    /\ frames' = IF Len(frames) > 1 THEN Front(frames) ELSE frames
    /\ UNCHANGED <<graph, failures, dfs, ancestor, phase, index, evaluation, execution>>

-----------------------------------------------------------------------------
(***************************************************************************)
(* js_evaluate_module                                                      *)
(***************************************************************************)

\* js_link_module is done.  The cycle root evaluates, unless it has a promise
\* already.
Linked ==
    LET m == Top.m
        r == IF status[m] \in Evaluating THEN root[m] ELSE m
        visited == status[r] = "linked"
    IN /\ phase = "link" /\ Len(frames) = 1 /\ ~HasRequest
       /\ status[m] # "linking"
       /\ promise' = [promise EXCEPT ![r] =
                        IF @ # "none" THEN @
                        ELSE IF visited THEN "pending"
                        ELSE IF error[r] # None THEN "rejected"
                        ELSE IF r \in async THEN "pending" ELSE "fulfilled"]
       /\ reason' = [reason EXCEPT ![r] = IF promise[r] = "none" THEN error[r] ELSE @]
       /\ IF promise[r] = "none" /\ visited
          THEN /\ phase' = "evaluate"
               /\ Visit(r, "evaluating", <<>>)
          ELSE /\ phase' = "idle" /\ frames' = <<>> /\ stack' = <<>> /\ index' = 0
               /\ UNCHANGED <<status, dfs, ancestor>>
       /\ UNCHANGED <<graph, binding, async, stamp, pending, parents, root, error, list, clock,
                      execution>>

EvalVisit ==
    /\ phase = "evaluate" /\ HasRequest
    /\ status[Requested] = "linked"
    /\ Visit(Requested, "evaluating", frames)
    /\ pending' = [pending EXCEPT ![Requested] = 0]
    /\ UNCHANGED <<graph, binding, phase, async, stamp, parents, root, error, promise, reason, list,
                   clock, execution>>

\* The module whose evaluation that of m1 belongs to.
Whole(m1) == IF status[m1] = "evaluating" THEN m1 ELSE root[m1]

\* A requested module is on the stack or evaluated, or waits for another one.
EvalRequest ==
    /\ phase = "evaluate" /\ HasRequest
    /\ status[Requested] # "linked"
    /\ error[Requested] = None /\ error[Whole(Requested)] = None
    /\ ancestor' = IF status[Requested] = "evaluating"
                   THEN [ancestor EXCEPT ![Top.m] = MinOf(@, ancestor[Requested])]
                   ELSE ancestor
    /\ LET d == Whole(Requested) IN
          IF d \in async
          THEN /\ pending' = [pending EXCEPT ![Top.m] = @ + 1]
               /\ parents' = [parents EXCEPT ![d] = Append(@, Top.m)]
          ELSE UNCHANGED <<pending, parents>>
    /\ frames' = NextRequest
    /\ UNCHANGED <<graph, binding, status, dfs, phase, stack, index, async, stamp, root, error, promise, reason,
                   list, clock, execution>>

\* The search fails with error e: the modules of the stack and the promise.
Fail(e) ==
    LET first == Head(frames).m IN
    /\ status' = [m \in Modules |-> IF m \in ToSet(stack) THEN "evaluated" ELSE status[m]]
    /\ error' = [m \in Modules |-> IF m \in ToSet(stack) THEN e ELSE error[m]]
    /\ root' = [m \in Modules |-> IF m \in ToSet(stack) THEN first ELSE root[m]]
    /\ promise' = [promise EXCEPT ![first] = "rejected"]
    /\ reason' = [reason EXCEPT ![first] = e]
    /\ phase' = "idle" /\ frames' = <<>> /\ stack' = <<>> /\ index' = 0
    /\ UNCHANGED <<graph, binding, dfs, ancestor, async, stamp, pending, parents, list, clock>>

EvalFailed ==
    /\ phase = "evaluate" /\ HasRequest
    /\ status[Requested] # "linked"
    /\ \E e \in {error[Requested], error[Whole(Requested)]} :
          /\ e # None
          /\ error[Requested] # None => e = error[Requested]
          /\ Fail(e)
    /\ UNCHANGED execution

Start(m, state) ==
    /\ body' = [body EXCEPT ![m] = state]
    /\ runs' = [runs EXCEPT ![m] = @ + 1]

\* js_execute_sync_module throws.
EvalThrow ==
    /\ phase = "evaluate" /\ ~HasRequest
    /\ pending[Top.m] = 0 /\ Top.m \notin tla /\ Top.m \in Throwing
    /\ Start(Top.m, "threw")
    /\ Fail(Top.m)

\* Mutant of EvalFinish: a module runs although it waits for another one.
EvalFinishEager ==
    LET m == Top.m
        waits == m \in tla
        async1 == IF waits THEN async \cup {m} ELSE async
        popped == IF IsRoot(m) THEN PoppedWith(m) ELSE {}
    IN /\ phase = "evaluate" /\ ~HasRequest
       /\ Start(m, IF m \in tla THEN "running" ELSE "done")
       /\ async' = async1
       /\ stamp' = IF waits THEN [stamp EXCEPT ![m] = clock] ELSE stamp
       /\ clock' = IF waits THEN clock + 1 ELSE clock
       /\ status' = [n \in Modules |->
                       IF n \notin popped THEN status[n]
                       ELSE IF n \in async1 THEN "evaluating_async" ELSE "evaluated"]
       /\ root' = [n \in Modules |-> IF n \in popped THEN m ELSE root[n]]
       /\ stack' = IF IsRoot(m) THEN StackBelow(m) ELSE stack
       /\ frames' = Front(frames)
       /\ index' = IF Len(frames) = 1 THEN 0 ELSE index
       /\ IF Len(frames) = 1
          THEN /\ phase' = "idle"
               /\ promise' = [promise EXCEPT ![m] = IF m \in async1 THEN @ ELSE "fulfilled"]
          ELSE UNCHANGED <<phase, promise>>
       /\ UNCHANGED <<graph, binding, dfs, ancestor, pending, parents, error, reason, list>>

\* The requests of a module are done: it waits, or it runs.  The root of
\* cycles takes them off the stack; the search ends with its first module.
EvalFinish ==
    LET m == Top.m
        waits == pending[m] > 0 \/ m \in tla
        async1 == IF waits THEN async \cup {m} ELSE async
        popped == IF IsRoot(m) THEN PoppedWith(m) ELSE {}
    IN /\ phase = "evaluate" /\ ~HasRequest
       /\ IF pending[m] > 0 THEN UNCHANGED execution
          ELSE Start(m, IF m \in tla THEN "running" ELSE "done")
       /\ async' = async1
       /\ stamp' = IF waits THEN [stamp EXCEPT ![m] = clock] ELSE stamp
       /\ clock' = IF waits THEN clock + 1 ELSE clock
       /\ status' = [n \in Modules |->
                       IF n \notin popped THEN status[n]
                       ELSE IF n \in async1 THEN "evaluating_async" ELSE "evaluated"]
       /\ root' = [n \in Modules |-> IF n \in popped THEN m ELSE root[n]]
       /\ stack' = IF IsRoot(m) THEN StackBelow(m) ELSE stack
       /\ frames' = Front(frames)
       /\ index' = IF Len(frames) = 1 THEN 0 ELSE index
       /\ IF Len(frames) = 1
          THEN /\ phase' = "idle"
               /\ promise' = [promise EXCEPT ![m] = IF m \in async1 THEN @ ELSE "fulfilled"]
          ELSE UNCHANGED <<phase, promise>>
       /\ UNCHANGED <<graph, binding, dfs, ancestor, pending, parents, error, reason, list>>

-----------------------------------------------------------------------------
(***************************************************************************)
(* The end of a top level await                                            *)
(***************************************************************************)

\* Mutant of Available: a module that becomes ready does not release those
\* that wait for it.
AvailableOnce(state, ps) ==
    FoldLeft(LAMBDA s, p :
                IF p \in ToSet(s.list) \/ error[root[p]] # None THEN s
                ELSE [pending |-> [s.pending EXCEPT ![p] = @ - 1],
                      list |-> IF s.pending[p] = 1 THEN Append(s.list, p) ELSE s.list],
             state, ps)

RECURSIVE Available(_, _)

\* gather_available_ancestors over the parents ps.
Available(state, ps) ==
    IF ps = <<>> THEN state
    ELSE LET p == Head(ps)
             left == state.pending[p] - 1
             counted == [state EXCEPT !.pending[p] = left]
             ready == [counted EXCEPT !.list = Append(@, p)]
         IN Available(
                IF p \in ToSet(state.list) \/ error[root[p]] # None THEN state
                ELSE IF left # 0 THEN counted
                ELSE IF p \in tla THEN ready ELSE Available(ready, parents[p]),
                Tail(ps))


RECURSIVE Upwards(_, _)

\* js_async_module_execution_rejected: the modules it reaches over their
\* parents.
Upwards(seen, todo) ==
    IF todo = {} THEN seen
    ELSE LET more == UNION {ToSet(parents[m]) : m \in todo} \ (seen \cup todo)
         IN Upwards(seen \cup todo, {m \in more : status[m] # "evaluated"})

Reject(m, e) ==
    LET all == Upwards({}, {m}) IN
    /\ status' = [n \in Modules |-> IF n \in all THEN "evaluated" ELSE status[n]]
    /\ error' = [n \in Modules |-> IF n \in all THEN e ELSE error[n]]
    /\ async' = async \ all
    /\ promise' = [n \in Modules |->
                     IF n \in all /\ promise[n] # "none" THEN "rejected" ELSE promise[n]]
    /\ reason' = [n \in Modules |-> IF n \in all /\ promise[n] # "none" THEN e ELSE reason[n]]

\* js_set_module_evaluated
Evaluated(m) ==
    /\ status' = [status EXCEPT ![m] = "evaluated"]
    /\ async' = async \ {m}
    /\ promise' = [promise EXCEPT ![m] = IF @ # "none" THEN "fulfilled" ELSE @]
    /\ UNCHANGED <<error, reason>>

\* Mutant of ByStamp: the order in which they became ready.
ByStampGathered(modules) == modules

\* rqsort with exec_module_list_cmp
ByStamp(modules) == SortSeq(modules, LAMBDA a, b : stamp[a] < stamp[b])

\* js_async_module_execution_fulfilled: the code of m is done; a module that
\* has failed already is left alone.
Fulfilled(m) ==
    /\ phase = "idle" /\ body[m] = "running"
    /\ body' = [body EXCEPT ![m] = "done"]
    /\ IF status[m] = "evaluated"
       THEN UNCHANGED <<status, async, promise, error, reason, pending, list, phase>>
       ELSE /\ Evaluated(m)
            /\ LET s == Available([pending |-> pending, list |-> <<>>], parents[m])
               IN pending' = s.pending /\ list' = ByStamp(s.list)
            /\ phase' = "execute"
    /\ UNCHANGED <<graph, binding, dfs, ancestor, stamp, parents, root, clock, frames, stack,
                   index, runs>>

\* js_async_module_execution_rejected
Rejected(m) ==
    /\ phase = "idle" /\ body[m] = "running" /\ m \in Throwing
    /\ body' = [body EXCEPT ![m] = "threw"]
    /\ IF status[m] = "evaluated"
       THEN UNCHANGED <<status, async, promise, error, reason>>
       ELSE Reject(m, m)
    /\ UNCHANGED <<graph, binding, dfs, ancestor, stamp, pending, parents, root, list, clock, search,
                   runs>>

Executed == UNCHANGED <<graph, binding, dfs, ancestor, stamp, pending, parents, root, clock, frames,
                      stack, index>>

\* The next module of the list.
Execute ==
    LET m == Head(list) IN
    /\ phase = "execute" /\ list # <<>>
    /\ list' = Tail(list)
    /\ UNCHANGED phase
    /\ \/ /\ status[m] = "evaluated"
          /\ UNCHANGED <<status, async, promise, error, reason, execution>>
       \/ /\ status[m] # "evaluated" /\ m \in tla
          /\ Start(m, "running")
          /\ UNCHANGED <<status, async, promise, error, reason>>
       \/ /\ status[m] # "evaluated" /\ m \notin tla
          /\ Start(m, "done")
          /\ Evaluated(m)
       \/ /\ status[m] # "evaluated" /\ m \notin tla /\ m \in Throwing
          /\ Start(m, "threw")
          /\ Reject(m, m)
    /\ Executed

AllExecuted ==
    /\ phase = "execute" /\ list = <<>>
    /\ phase' = "idle"
    /\ UNCHANGED <<status, async, promise, error, reason, list, execution>>
    /\ Executed

-----------------------------------------------------------------------------
Search ==
    \/ LinkVisit \/ LinkRequest \/ LinkCrash \/ LinkFail \/ LinkFinish \/ Linked
    \/ EvalVisit \/ EvalRequest \/ EvalFailed \/ EvalThrow \/ EvalFinish
    \/ Execute \/ AllExecuted

Settle == \E m \in Modules : Fulfilled(m) \/ Rejected(m)

Next == Search \/ Settle \/ \E m \in Modules : Import(m)

\* The engine goes on, and what modules await for is settled.
Spec == Init /\ [][Next]_vars /\ WF_vars(Search)
             /\ \A m \in Modules : SF_vars(Fulfilled(m) \/ Rejected(m))

-----------------------------------------------------------------------------
RECURSIVE Closure(_, _)
Closure(seen, todo) ==
    IF todo = {} THEN seen
    ELSE Closure(seen \cup todo,
                 UNION {ToSet(requests[m]) : m \in todo} \ (seen \cup todo))

\* The modules that m needs, and those of its cycles.
Needs(m) == Closure({}, {m})
Cycle(m) == {n \in Needs(m) : m \in Needs(n)}

\* The variable that a module exports is counted by its own var_refs, by its
\* export entry, and by the imports bound to it: at the end of the runtime no
\* variable is left.
VarRefsExact ==
    \A m \in Modules :
        uses[m] = 1 + Cardinality({n \in exported : VarRef(n, n, bound[n]) = m})
                  + Cardinality({<<n, i>> \in Modules \X (1..MaxRequests) :
                                    i \in DOMAIN bound[n] /\ bound[n][i] = m})

\* Linking is all or nothing.  Outside of a search no module is half linked or
\* half evaluated, and a linked module needs linked modules only; references are
\* exact until the first import that does not link, whose modules the next one
\* links again; and an import that is not bound yet is needed in a cycle of
\* modules only, where the module that exports it has not been linked.
LinkedWhole ==
    /\ phase \in {"idle", "execute"} =>
          /\ stack = <<>>
          /\ \A m \in Modules :
                /\ status[m] \notin {"linking", "evaluating"}
                /\ status[m] # "unlinked" => \A n \in Needs(m) : status[n] # "unlinked"
    /\ failures = 0 => VarRefsExact
    /\ phase = "crash" =>
          \E d \in ToSet(requests[Top.m]) : alias[d] > 0 /\ Top.m \in Needs(d)

\* The code of a module runs once, and only after each module it requests, if
\* that is not of its own cycle, and all that this one needs, have run to
\* their end without an error.  The promise of an evaluation tells the truth
\* about the whole graph.
DependenciesFirst ==
    \A m \in Modules :
        /\ runs[m] <= 1
        /\ body[m] # "none" =>
              \A d \in ToSet(requests[m]) \ Cycle(m) : \A n \in Needs(d) : body[n] = "done"
        /\ promise[m] = "fulfilled" => \A n \in Needs(m) : body[n] = "done"
        /\ promise[m] = "rejected" => reason[m] \in Needs(m) /\ body[reason[m]] = "threw"

\* A module that waits counts the times it is on the lists of modules that
\* are not done, so that the last of them starts it, and only the last; and
\* what gather_available_ancestors and the other handlers assert holds.
PendingExact ==
    /\ \A m \in Modules :
          phase # "execute" /\ m \in async /\ error[m] = None =>
              pending[m] = Cardinality({<<d, i>> \in async \X (1..4) :
                                           i \in DOMAIN parents[d] /\ parents[d][i] = m})
    /\ \A d \in async : \A m \in ToSet(parents[d]) :
          phase = "idle" /\ error[root[m]] = None =>
              status[m] = "evaluating_async" /\ error[m] = None /\ m \in async /\ pending[m] > 0
    /\ \A m \in Modules :
          phase = "idle" /\ promise[m] # "none" => root[m] = m
    /\ \A m \in Modules :
          body[m] = "running" =>
              \/ status[m] = "evaluated" /\ error[m] # None
              \/ status[m] \in {"evaluating_async", "evaluating"} /\ m \in async

\* Modules that wait start in the order in which the search left them: none
\* starts before an older one that is ready too.  A settled promise stays as it
\* is.
Oldest ==
    /\ phase = "execute" =>
          \A m, n \in Modules :
              /\ body[m] = "none" /\ body'[m] # "none"
              /\ n \in ToSet(list) /\ status'[n] # "evaluated" /\ body'[n] = "none"
              => stamp[m] < stamp[n]
    /\ \A m \in Modules :
          promise[m] \in {"fulfilled", "rejected"} =>
              promise'[m] = promise[m] /\ reason'[m] = reason[m]

OldestFirst == [][Oldest]_vars

\* Every import is answered.
ImportsSettle ==
    \A m \in Modules : promise[m] = "pending" ~> promise[m] \in {"fulfilled", "rejected"}

=============================================================================
