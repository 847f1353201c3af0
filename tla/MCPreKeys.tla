----------------------------- MODULE MCPreKeys ------------------------------
(* PreKeys on small instances. *)
EXTENDS PreKeys, TLC

MCSymmetry == Permutations(Fetches) \cup Permutations(Tabs)
=============================================================================
