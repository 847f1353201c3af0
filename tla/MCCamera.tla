------------------------------ MODULE MCCamera ------------------------------
(***************************************************************************)
(* Instance of Camera for TLC.                                             *)
(***************************************************************************)
EXTENDS Camera, TLC

Symmetry == Permutations(Files)
=============================================================================
