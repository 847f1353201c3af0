---------------------------- MODULE MCClientView ----------------------------
(* ClientView on small instances.                                          *)
EXTENDS ClientView

MCMsgs == {"m1"}
=============================================================================
