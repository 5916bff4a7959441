--------------------------- MODULE ModuleLoading ---------------------------
(***************************************************************************)
(* Loading of ES modules (quickjs.c, js_module_loader of quickjs-libc.c):  *)
(* an import() finds its module on the list of loaded modules, or compiles *)
(* its file, which loads, one inside the other, all that it requests.  A   *)
(* file may be missing or not compile at one time and load at another.     *)
(*                                                                         *)
(* A module object is a number, never used twice.  New ones come to the    *)
(* end of the list of loaded modules and none moves, so the list is the    *)
(* set of its objects, in their order.  Linking is the subject of Modules. *)
(***************************************************************************)
EXTENDS Integers, Sequences, SequencesExt

CONSTANTS
    Names,        \* names of files
    MaxRequired,  \* bound: modules that a file requests
    MaxModules,   \* bound: module objects made
    None          \* a null pointer

ASSUME LoadingAssumption ==
    MaxRequired \in Nat /\ MaxModules \in Nat /\ None \notin 1..MaxModules

VARIABLES
    requests,  \* the names that the file requests
    loaded,    \* ctx->loaded_modules
    next,      \* the next module object
    name,      \* m->module_name
    entries,   \* m->req_module_entries[].module
    calls,     \* the calls of js_resolve_module: module and request
    used       \* history: a request of a loaded module was read after it was freed

loadvars == <<requests, loaded, next, name, entries, calls, used>>

Objects == 1..MaxModules
Lists == {s \in UNION {[1..n -> Names] : n \in 0..MaxRequired} : IsInjective(s)}

LoadingTypeOK ==
    /\ requests \in [Names -> Lists]
    /\ next \in 1..MaxModules + 1
    /\ loaded \subseteq 1..next - 1
    /\ name \in Seq(Names) /\ Len(name) = next - 1
    /\ entries \in Seq(Seq(Objects \cup {None})) /\ Len(entries) = next - 1
    /\ \A m \in 1..next - 1 : Len(entries[m]) = Len(requests[name[m]])
    /\ calls \in Seq([m : Objects, i : 1..MaxRequired + 1])
    /\ used \in BOOLEAN

LoadingInit ==
    /\ requests \in [Names -> Lists]
    /\ loaded = {} /\ next = 1
    /\ name = <<>> /\ entries = <<>>
    /\ calls = <<>>
    /\ used = FALSE

\* The innermost call.
Frame == Last(calls)

\* js_find_loaded_module: the first module of name x on the list.  It is resolved
\* already, and js_resolve_module returns: a module is marked (m->resolved) when
\* it joins the list.
Found(x, m) ==
    /\ m \in loaded /\ name[m] = x
    /\ \A n \in loaded : name[n] = x => m <= n
IsLoaded(x) == \E m \in loaded : name[m] = x

\* The file of x is compiled: js_new_module_def, and js_resolve_module for it,
\* which marks it resolved before it is.
Compiled(x, outer) ==
    /\ next <= MaxModules
    /\ next' = next + 1
    /\ name' = Append(name, x)
    /\ entries' = Append(entries, [i \in 1..Len(requests[x]) |-> None])
    /\ loaded' = loaded \cup {next}
    /\ calls' = Append(outer, [m |-> next, i |-> 1])

\* What m requests, and what that requests, and so on: linking and evaluation
\* read it.  It is in every set that has m and the requests of its members.
Closed(S) == \A n \in S \cap (1..next - 1) : ToSet(entries[n]) \subseteq S
Reads(m) ==
    {n \in Objects \cup {None} :
        \A S \in SUBSET (Objects \cup {None}) : m \in S /\ Closed(S) => n \in S}

\* import() of a name that is loaded: its modules are linked and evaluated.
ImportLoaded(x) ==
    /\ calls = <<>>
    /\ \E m \in Objects :
          /\ Found(x, m)
          /\ used' = (used \/ ~Reads(m) \subseteq loaded)
    /\ UNCHANGED <<requests, loaded, next, name, entries, calls>>

\* import() of another one; when the file does not load, nothing happens.
ImportFile(x) ==
    /\ calls = <<>> /\ ~IsLoaded(x)
    /\ Compiled(x, <<>>)
    /\ UNCHANGED <<requests, used>>

Pending == calls # <<>> /\ Frame.i <= Len(entries[Frame.m])
Wanted == requests[name[Frame.m]][Frame.i]

\* js_host_resolve_imported_module returns a module of the list, resolved or
\* on its way: the entry gets it.
RequestLoaded ==
    /\ Pending
    /\ \E m \in Objects :
          /\ Found(Wanted, m)
          /\ entries' = [entries EXCEPT ![Frame.m][Frame.i] = m]
    /\ calls' = [calls EXCEPT ![Len(calls)].i = @ + 1]
    /\ UNCHANGED <<requests, loaded, next, name, used>>

\* Mutant of RequestFile: the file is compiled although it is on the list.
RequestFileAgain ==
    /\ Pending
    /\ Compiled(Wanted, calls)
    /\ UNCHANGED <<requests, used>>

RequestFile ==
    /\ Pending /\ ~IsLoaded(Wanted)
    /\ Compiled(Wanted, calls)
    /\ UNCHANGED <<requests, used>>

\* The modules whose compilation fails with that of a request.
Waiting == {calls[i].m : i \in DOMAIN calls}

\* The file of a request does not load: __JS_EvalInternal frees every module
\* that waits for it.  Others that were loaded on the way stay.
RequestFails ==
    /\ Pending /\ ~IsLoaded(Wanted)
    /\ loaded' = loaded \ Waiting
    /\ calls' = <<>>
    /\ UNCHANGED <<requests, next, name, entries, used>>

\* All requests of a file are there: the entry of the one that requested it.
RequestReturns ==
    /\ calls # <<>> /\ ~Pending
    /\ calls' = IF Len(calls) = 1 THEN <<>>
                ELSE [Front(calls) EXCEPT ![Len(calls) - 1].i = @ + 1]
    /\ entries' = IF Len(calls) = 1 THEN entries
                  ELSE LET f == calls[Len(calls) - 1]
                       IN [entries EXCEPT ![f.m][f.i] = Frame.m]
    /\ UNCHANGED <<requests, loaded, next, name, used>>

LoadingNext ==
    \/ \E x \in Names : ImportLoaded(x) \/ ImportFile(x)
    \/ RequestLoaded \/ RequestFile \/ RequestFails \/ RequestReturns

LoadingSpec == LoadingInit /\ [][LoadingNext]_loadvars

-----------------------------------------------------------------------------
\* The names that the file of x needs: x, what it requests, and so on.
Needs(x) ==
    {y \in Names :
        \A S \in SUBSET Names : x \in S /\ (\A z \in S : ToSet(requests[z]) \subseteq S) => y \in S}

\* Two files need each other.
InCycle(x, y) == x # y /\ x \in Needs(y) /\ y \in Needs(x)

\* All the requests of a module are loaded modules of the requested names.
Complete(m) ==
    \A i \in DOMAIN entries[m] :
        entries[m][i] \in loaded /\ name[entries[m][i]] = requests[name[m]][i]

\* A name is loaded once, so that all who import it share its module; and an
\* incomplete module, or one that was freed and is read by an import, is found
\* only where a file of a cycle did not load.
LoadedOnce ==
    /\ \A m, n \in loaded : name[m] = name[n] => m = n
    /\ calls = <<>> =>
          \A m \in loaded : ~Complete(m) => \E x, y \in Needs(name[m]) : InCycle(x, y)
    /\ used => \E x, y \in Names : InCycle(x, y)
=============================================================================
