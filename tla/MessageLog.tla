----------------------------- MODULE MessageLog -----------------------------
(***************************************************************************)
(* What the server promises of composed messages, in single steps: each is *)
(* stored under one id, its text is replaced by edits until it is deleted, *)
(* its sender is told that id and no other, and it is enqueued for fan-out *)
(* at most once, after it was stored.  Messages implements this.           *)
(***************************************************************************)
EXTENDS Naturals

CONSTANTS
    Msgs,       \* ids the server gives
    ClientIds,  \* composed messages
    Texts,
    NoText,     \* the content of a message not stored yet, or deleted
    Nobody      \* no id

VARIABLES
    id,         \* the id of a composed message
    content,    \* its ciphertext
    told,       \* the ids its sender was told
    queued      \* its fan-out jobs

logVars == <<id, content, told, queued>>

LogInit ==
    /\ id = [c \in ClientIds |-> Nobody]
    /\ content = [c \in ClientIds |-> NoText]
    /\ told = [c \in ClientIds |-> {}]
    /\ queued = [c \in ClientIds |-> 0]

Compose(c, m, t) ==
    /\ id[c] = Nobody
    /\ \A d \in ClientIds : id[d] # m
    /\ id' = [id EXCEPT ![c] = m]
    /\ content' = [content EXCEPT ![c] = t]
    /\ UNCHANGED <<told, queued>>

Edit(c, t) ==
    /\ content[c] # NoText
    /\ content' = [content EXCEPT ![c] = t]
    /\ UNCHANGED <<id, told, queued>>

Delete(c) ==
    /\ content[c] # NoText
    /\ content' = [content EXCEPT ![c] = NoText]
    /\ UNCHANGED <<id, told, queued>>

Tell(c) ==
    /\ id[c] # Nobody
    /\ told' = [told EXCEPT ![c] = {id[c]}]
    /\ UNCHANGED <<id, content, queued>>

Enqueue(c) ==
    /\ id[c] # Nobody /\ queued[c] = 0
    /\ queued' = [queued EXCEPT ![c] = 1]
    /\ UNCHANGED <<id, content, told>>

LogNext ==
    \E c \in ClientIds :
        \/ \E m \in Msgs, t \in Texts : Compose(c, m, t)
        \/ \E t \in Texts : Edit(c, t)
        \/ Delete(c) \/ Tell(c) \/ Enqueue(c)

LogSpec == LogInit /\ [][LogNext]_logVars
=============================================================================
