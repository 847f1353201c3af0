----------------------------- MODULE MCRealtime -----------------------------
(* Realtime on small instances.  Without symmetry: a run checks liveness. *)
EXTENDS Realtime
=============================================================================
