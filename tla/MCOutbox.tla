------------------------------ MODULE MCOutbox ------------------------------
(***************************************************************************)
(* Instance of Outbox for TLC.                                             *)
(***************************************************************************)
EXTENDS Outbox
=============================================================================
