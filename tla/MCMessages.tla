----------------------------- MODULE MCMessages -----------------------------
(* Messages on small instances: one conversation, every message by alice.  *)
EXTENDS Messages, TLC

CONSTANTS alice, bob, v1

MCAuthor == [c \in ClientIds |-> alice]
MCTarget == [c \in ClientIds |-> v1]
MCMembers == [v \in Convs |-> Users]

MCSymmetry == Permutations(Msgs) \cup Permutations(Texts) \cup Permutations(Requests)
=============================================================================
