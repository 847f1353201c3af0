------------------------------ MODULE MCGroups ------------------------------
(* Groups on small instances.                                              *)
EXTENDS Groups, TLC

MCSymmetry == Permutations(Users) \cup Permutations(Requests)
=============================================================================
