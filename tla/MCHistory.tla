------------------------------ MODULE MCHistory ------------------------------
(***************************************************************************)
(* Model checking of History: every history of adding, deleting, pinning   *)
(* and unpinning on a small ring, with the abstract list as a property.    *)
(***************************************************************************)
EXTENDS History, TLC

Symmetry == Permutations(Name)
=============================================================================
