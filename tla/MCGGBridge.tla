------------------------------ MODULE MCGGBridge ------------------------------
(***************************************************************************)
(* Instances of GGBridge for TLC.                                          *)
(***************************************************************************)
EXTENDS GGBridge, TLC

\* Addresses are not distinguished by the specification.
Symmetry == Permutations(Addr)

=============================================================================
