--------------------------- MODULE MCAuthSessions ---------------------------
(* Small instances of AuthSessions for TLC. *)
EXTENDS AuthSessions, TLC

MCSymmetry == Permutations(Sessions) \cup Permutations(Requests)
=============================================================================
