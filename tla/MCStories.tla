----------------------------- MODULE MCStories -----------------------------
(* Small instances of Stories for TLC. *)
EXTENDS Stories
=============================================================================
