--------------------------- MODULE MCClientTokens ---------------------------
(* Small instances of ClientTokens for TLC. *)
EXTENDS ClientTokens
=============================================================================
