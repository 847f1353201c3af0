------------------------------ MODULE MCTyping ------------------------------
(***************************************************************************)
(* Instance of Typing for TLC.                                             *)
(***************************************************************************)
EXTENDS Typing

MCLimit == [start |-> 2, stop |-> 1]
=============================================================================
