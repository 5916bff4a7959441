------------------------------- MODULE MCJSHeap -------------------------------
(***************************************************************************)
(* Instances of JSHeap for TLC.                                            *)
(***************************************************************************)
EXTENDS JSHeap, TLC

\* Neither the cells nor the places are distinguished by the specification.
Symmetry == Permutations(Addr) \cup Permutations(Ref)

=============================================================================
