----------------------------- MODULE OrderedMap -----------------------------
(***************************************************************************)
(* What a Map or a Set promises to those who walk over it, without saying  *)
(* how: entries are appended to a log and never move, an entry that is     *)
(* deleted leaves a gap, and a walk goes to the next entry that is there   *)
(* now.  MapIterators is shown to implement this specification.            *)
(***************************************************************************)
EXTENDS Integers, Sequences

CONSTANTS Keys, Iters, Gap, Ended

VARIABLES
    log,   \* the keys in the order of insertion, or Gap
    pos,   \* the entry an iterator has returned last, 0 before the first
    walks  \* the same for the calls of forEach, the innermost last

vars == <<log, pos, walks>>

Init ==
    /\ log = <<>>
    /\ pos = [i \in Iters |-> 0]
    /\ walks = <<>>

Ahead(p) == {e \in DOMAIN log : e > p /\ log[e] # Gap}
IsNext(e, p) == e \in Ahead(p) /\ \A f \in Ahead(p) : e <= f

Add(k) ==
    /\ \A e \in DOMAIN log : log[e] # k
    /\ log' = Append(log, k)
    /\ UNCHANGED <<pos, walks>>

\* delete removes one entry, clear all; a map that nobody can reach loses its
\* entries.
Remove ==
    /\ \E S \in SUBSET DOMAIN log : log' = [e \in DOMAIN log |-> IF e \in S THEN Gap ELSE log[e]]
    /\ UNCHANGED <<pos, walks>>

\* An iterator comes to its end once, and stays there; it may have been the
\* last to reach the map.
Step(i) ==
    /\ pos[i] # Ended
    /\ \/ \E e \in Ahead(pos[i]) : IsNext(e, pos[i]) /\ pos' = [pos EXCEPT ![i] = e]
       \/ Ahead(pos[i]) = {} /\ pos' = [pos EXCEPT ![i] = Ended]
    /\ UNCHANGED walks
    /\ \/ UNCHANGED log
       \/ pos'[i] = Ended /\ log' = [e \in DOMAIN log |-> Gap]

Enter ==
    /\ \E e \in Ahead(0) : IsNext(e, 0) /\ walks' = Append(walks, e)
    /\ UNCHANGED <<log, pos>>

Walk ==
    /\ walks # <<>>
    /\ LET n == Len(walks) IN
       \/ \E e \in Ahead(walks[n]) : IsNext(e, walks[n]) /\ walks' = [walks EXCEPT ![n] = e]
       \/ Ahead(walks[n]) = {} /\ walks' = SubSeq(walks, 1, n - 1)
    /\ UNCHANGED <<log, pos>>

\* The callback throws.
Abandon ==
    /\ walks # <<>>
    /\ walks' = SubSeq(walks, 1, Len(walks) - 1)
    /\ UNCHANGED <<log, pos>>

Next ==
    \/ \E k \in Keys : Add(k)
    \/ \E i \in Iters : Step(i)
    \/ Remove \/ Enter \/ Walk \/ Abandon

Spec == Init /\ [][Next]_vars
=============================================================================
