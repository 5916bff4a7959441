------------------------------ MODULE PromiseAll ------------------------------
(***************************************************************************)
(* Promise.all, Promise.allSettled and Promise.any (js_promise_all and     *)
(* js_promise_all_resolve_element of quickjs.c): one loop over the         *)
(* elements, a count of those that remain, and for each element functions  *)
(* that the element's then method gets.                                    *)
(*                                                                         *)
(* The elements are thenables of the program: they call the functions they *)
(* got when they like, during the loop or after it, more than once, or     *)
(* never.                                                                  *)
(***************************************************************************)
EXTENDS Integers, FiniteSets

CONSTANTS
    Length,        \* number of elements
    Data,       \* what thenables pass to the functions
    None        \* a hole in values, or no result yet

VARIABLES
    magic,      \* the function that was called
    index,      \* the number of elements taken from the iterator
    loop,       \* the loop over the iterator is running, has ended or failed
    remaining,  \* remainingElementsCount, in resolve_element_env
    called,     \* alreadyCalled of each element function
    values,     \* values[i], with the outcome for allSettled
    result,     \* what result_promise was settled with
    first       \* history: the first call of a function of element i

allvars == <<magic, index, loop, remaining, called, values, result, first>>

Magic == {"all", "allSettled", "any"}

Element == 0..Length-1

Outcome == {"fulfilled", "rejected"}

Entry == [status : Outcome, data : Data]

Complete(v) == [kind |-> "complete", values |-> v]
Short(e) == [kind |-> "short", entry |-> e]
Failed == [kind |-> "failed"]

Settlement ==
    {Complete(v) : v \in [Element -> Entry \cup {None}]} \cup {Short(e) : e \in Entry} \cup {Failed}

\* None is neither an entry nor a settlement.
ASSUME AllAssumption == Length \in Nat /\ None \notin Entry \cup Settlement

AllTypeOK ==
    /\ magic \in Magic
    /\ index \in 0..Length /\ loop \in {"running", "ended", "failed"}
    /\ remaining \in -Length..Length+1
    /\ called \in [Element -> [Outcome -> BOOLEAN]]
    /\ values \in [Element -> Entry \cup {None}]
    /\ result \in Settlement \cup {None}
    /\ first \in [Element -> Entry \cup {None}]

\* Mutant of FirstCount: the loop itself is not counted.
ZeroCount == 0

FirstCount == 1

AllInit ==
    /\ magic \in Magic
    /\ index = 0
    /\ loop = "running"
    /\ remaining = FirstCount
    /\ called = [i \in Element |-> [o \in Outcome |-> FALSE]]
    /\ values = [i \in Element |-> None]
    /\ result = None
    /\ first = [i \in Element |-> None]

\* The first of the calls of resolving_funcs settles result_promise.
Settle(r) == result' = IF result = None THEN r ELSE result

\* The iterator gives the next element, whose then method is called.
NextElement ==
    /\ loop = "running" /\ index < Length
    /\ index' = index + 1
    /\ remaining' = remaining + 1
    /\ UNCHANGED <<magic, loop, called, values, result, first>>

\* The iterator, or a then method, throws: result_promise is rejected.
IterationFails ==
    /\ loop = "running"
    /\ loop' = "failed"
    /\ Settle(Failed)
    /\ UNCHANGED <<magic, index, remaining, called, values, first>>

\* remainingElementsCount_add(-1): the last one settles result_promise with
\* values.
CountDown(v) ==
    /\ remaining' = remaining - 1
    /\ IF remaining = 1 THEN Settle(Complete(v)) ELSE UNCHANGED result

\* The iterator is done.
LoopEnds ==
    /\ loop = "running" /\ index = Length
    /\ loop' = "ended"
    /\ CountDown(values)
    /\ UNCHANGED <<magic, index, called, values, first>>

\* The outcomes for which an element gets a function of its own; for the other
\* outcome it gets the function of result_promise.
OwnFunction ==
    CASE magic = "all" -> {"fulfilled"}
      [] magic = "any" -> {"rejected"}
      [] magic = "allSettled" -> Outcome

\* JS_NewCFunctionData copies alreadyCalled: each function has its own.
AlreadyCalled(i, o) == called[i][o]

\* js_promise_all_resolve_element
ElementFunction(i, e) ==
    /\ ~AlreadyCalled(i, e.status)
    /\ called' = [called EXCEPT ![i][e.status] = TRUE]
    /\ values' = [values EXCEPT ![i] = e]
    /\ CountDown(values')

\* Element i calls a function it got.
CallFunction(i, e) ==
    /\ i < index
    /\ IF e.status \in OwnFunction
       THEN /\ ElementFunction(i, e)
            /\ first' = [first EXCEPT ![i] = IF @ = None THEN e ELSE @]
       ELSE Settle(Short(e)) /\ UNCHANGED <<called, values, remaining, first>>
    /\ UNCHANGED <<magic, index, loop>>

AllNext ==
    \/ NextElement \/ IterationFails \/ LoopEnds
    \/ \E i \in Element, e \in Entry : CallFunction(i, e)

AllSpec == AllInit /\ [][AllNext]_allvars

-----------------------------------------------------------------------------
\* An element of allSettled has called both functions it got.
CalledBoth == \E i \in Element : \A o \in Outcome : called[i][o]

\* The result is complete when each element has called a function and not
\* before, also if all elements so far did so before the next was reached, and
\* it holds what each passed first, at its place.  (An element that calls both
\* functions of allSettled is counted twice.)
CompleteMeansAll ==
    ~CalledBoth =>
        /\ result # None /\ result.kind = "complete" =>
              index = Length /\ \A i \in Element : first[i] # None /\ result.values[i] = first[i]
        /\ loop = "ended" /\ (\A i \in Element : first[i] # None) => result # None

=============================================================================
