----------------------------- MODULE ClientView -----------------------------
(***************************************************************************)
(* What one tab of the web client knows of the messages a peer sends in    *)
(* one conversation: the list and the unread count of chatStore.ts, the    *)
(* search index of search.ts, and the socket handlers and loadHistory of   *)
(* useMessages.ts, which await a decryption between an event and its       *)
(* effect.                                                                 *)
(*                                                                         *)
(* The hook useMessages is mounted by the page and, while the conversation *)
(* is open, by its ChatView too; each instance handles every event, and on *)
(* a screen without messages, settings say, nobody does.  The environment  *)
(* is the server: its rows and its events.  A handler of the server awaits *)
(* the write of a row before it emits the event, so that the events of two *)
(* handlers may be emitted in the other order; the REST endpoints that the *)
(* client uses to edit and delete emit none at all.  One socket delivers   *)
(* what is emitted in order.  A reconnected client asks for what it missed *)
(* with message ids where the server takes dates, gets an error and learns *)
(* nothing, so reconnecting has no further step.  The second message:new   *)
(* of a retried send, and an edit that is written over a deletion, belong  *)
(* to the server and are in Messages.                                      *)
(***************************************************************************)
EXTENDS Integers, Sequences, FiniteSets

CONSTANTS
    Msgs,
    Hooks,      \* the instances of useMessages
    PageHook,   \* the one that is mounted while the conversation is closed
    MaxVersion, \* bound: versions of the text of one message
    MaxPending, \* bound: changes that are written and not announced yet
    MaxWire,    \* bound: events on their way to the client
    MaxUnread   \* bound: the unread count is counted up to here

ASSUME PageHookAssumption == PageHook \in Hooks
ASSUME BoundAssumption ==
    /\ MaxVersion \in Nat \ {0}
    /\ MaxPending \in Nat /\ MaxWire \in Nat /\ MaxUnread \in Nat

VARIABLES
    row,      \* the server's messages table
    online,   \* the socket is connected
    pending,  \* the events of changes that are written and not announced
    wire,     \* events emitted to the socket and not received yet
    overtaken,\* history: events that a newer change of their message overtook
    screen,   \* what is shown: the conversation, the list of chats, or settings
    entry,    \* the list of the conversation in the store
    unread,
    index,    \* the search index
    arriving, \* per hook and message: the text of a message:new being decrypted
    editing,  \* per hook and message: the texts of edits being decrypted
    load,     \* per hook: its loadHistory
    stale,    \* history: messages with a change that did not reach the list
    stained   \* history: messages deleted while their text was being indexed

server == <<row, online, pending, wire, overtaken>>
store == <<entry, unread, index>>
tasks == <<arriving, editing, load>>
vars == <<server, screen, store, tasks, stale, stained>>

-----------------------------------------------------------------------------
\* Every text is a ciphertext of its own: the versions of a message are numbered.
Texts == 1..MaxVersion
NoText == 0

\* Contents: no message, a text, or the tombstone of a deleted message.
None == [kind |-> "none", text |-> NoText]
Live(t) == [kind |-> "live", text |-> t]
Tombstone == [kind |-> "deleted", text |-> NoText]

Event == [event : {"new", "edited", "deleted"}, m : Msgs, text : Texts \cup {NoText}]

\* a tells of a later change of a message than b does.
Newer(a, b) ==
    /\ a.m = b.m
    /\ b.event # "deleted"
    /\ a.event = "deleted" \/ a.text > b.text

\* A load: the rows it has fetched, those it still has to put into the index, and
\* the messages with an event that was received or lost since the server answered.
Idle == [pc |-> "idle", rows |-> [m \in Msgs |-> None], todo |-> {}, behind |-> {}]

\* A load whose rows are in the list, at its next row for the index or done.
Shown(l) == IF l.todo = {} THEN Idle ELSE [l EXCEPT !.pc = "index", !.behind = {}]

Screens == {"conversation", "list", "settings"}
open == screen = "conversation"

\* The instances of useMessages: none on a screen without messages.
Mounted == CASE open -> Hooks [] screen = "list" -> {PageHook} [] OTHER -> {}
Min2(a, b) == IF a < b THEN a ELSE b

\* Every load that holds rows is now behind on m.
Behind(m) == [h \in Hooks |-> IF load[h].pc = "decrypt"
                THEN [load[h] EXCEPT !.behind = @ \cup {m}] ELSE load[h]]

Init ==
    /\ row = [m \in Msgs |-> None]
    /\ online = TRUE
    /\ pending = {}
    /\ wire = <<>>
    /\ overtaken = {}
    /\ screen = "list"
    /\ entry = [m \in Msgs |-> None]
    /\ unread = 0
    /\ index = [m \in Msgs |-> NoText]
    /\ arriving = [h \in Hooks |-> [m \in Msgs |-> NoText]]
    /\ editing = [h \in Hooks |-> [m \in Msgs |-> {}]]
    /\ load = [h \in Hooks |-> Idle]
    /\ stale = {}
    /\ stained = {}

-----------------------------------------------------------------------------
(* The environment: the peer's changes, and the socket                     *)

\* A row is written; its event is the handler's to emit when the write returns.
Change(m, content, event) ==
    /\ Cardinality(pending) < MaxPending
    /\ row' = [row EXCEPT ![m] = content]
    /\ pending' = pending \cup {[event |-> event, m |-> m, text |-> content.text]}
    /\ UNCHANGED <<online, wire, overtaken, screen, store, tasks, stale, stained>>

PeerSends(m) == row[m] = None /\ Change(m, Live(1), "new")
PeerEdits(m) ==
    /\ row[m].kind = "live" /\ row[m].text < MaxVersion
    /\ Change(m, Live(row[m].text + 1), "edited")
PeerDeletes(m) == row[m].kind = "live" /\ Change(m, Tombstone, "deleted")

\* The event of a change that the client will not hear of.
Missed(m) ==
    /\ stale' = stale \cup {m}
    /\ load' = Behind(m)
    /\ UNCHANGED wire

\* The handler emits the event, ahead of older ones that are still to be emitted;
\* a client that is away misses it.
Announce(e) ==
    /\ pending' = pending \ {e}
    /\ overtaken' = overtaken \cup {o \in pending : Newer(e, o)}
    /\ IF online
       THEN /\ Len(wire) < MaxWire
            /\ wire' = Append(wire, e)
            /\ UNCHANGED <<load, stale>>
       ELSE Missed(e.m)
    /\ UNCHANGED <<row, online, screen, store, arriving, editing, stained>>

\* The change came by a REST endpoint, which emits nothing, or the instance stops.
Silent(e) ==
    /\ pending' = pending \ {e}
    /\ overtaken' = overtaken \cup
          {o \in pending \cup {wire[i] : i \in DOMAIN wire} : Newer(e, o)}
    /\ Missed(e.m)
    /\ UNCHANGED <<row, online, screen, store, arriving, editing, stained>>

\* The connection is lost with the events on it.
Drop ==
    LET lost == {wire[i].m : i \in DOMAIN wire}
    IN  /\ online
        /\ online' = FALSE
        /\ wire' = <<>>
        /\ stale' = stale \cup lost
        /\ load' = [h \in Hooks |-> IF load[h].pc = "decrypt"
                      THEN [load[h] EXCEPT !.behind = @ \cup lost] ELSE load[h]]
        /\ UNCHANGED <<row, pending, overtaken, screen, store, arriving, editing, stained>>

Reconnect ==
    /\ ~online
    /\ online' = TRUE
    /\ UNCHANGED <<row, pending, wire, overtaken, screen, store, tasks, stale, stained>>

-----------------------------------------------------------------------------
(* The store                                                               *)

\* Mutant: the unread count is left as it is.
OpenKeepsUnread ==
    /\ ~open
    /\ screen' = "conversation"
    /\ UNCHANGED <<server, store, tasks, stale, stained>>

\* setActiveConversation; loads follow, and may be repeated while it is open.
Open ==
    /\ ~open
    /\ screen' = "conversation"
    /\ unread' = 0
    /\ UNCHANGED <<server, entry, index, tasks, stale, stained>>

Leave ==
    /\ \E s \in Screens \ {"conversation", screen} : screen' = s
    /\ UNCHANGED <<server, store, tasks, stale, stained>>

\* The event at the head of the wire, and what receiving it does to the rest.
Received(event) ==
    /\ wire # <<>>
    /\ Head(wire).event = event
    /\ wire' = Tail(wire)
    /\ load' = Behind(Head(wire).m)
    /\ UNCHANGED <<row, online, pending, overtaken, screen>>

\* What is stale once the event at the head has been handled: its message is, if
\* the event was passed over or tells of an older change than has been told of.
StaleIf(passedOver) ==
    stale \cup {m \in Msgs : m = Head(wire).m /\ (passedOver \/ Head(wire) \in overtaken)}

\* handleNewMessage, up to the decryption of the text.
ReceiveNew ==
    LET e == Head(wire)
    IN  /\ Received("new")
        /\ arriving' = [h \in Hooks |-> IF h \in Mounted
                          THEN [arriving[h] EXCEPT ![e.m] = e.text] ELSE arriving[h]]
        /\ stale' = StaleIf(Mounted = {})
        /\ UNCHANGED <<store, editing, stained>>

\* The rest of handleNewMessage: addMessage, which leaves a list that has the
\* message alone and otherwise counts it as unread when the conversation is
\* not open; incrementUnread, which counts it once more; and the index.
AddMessage(h, m) ==
    LET t == arriving[h][m]
        counts == IF open THEN 0 ELSE IF entry[m] = None THEN 2 ELSE 1
    IN  /\ t # NoText
        /\ entry' = IF entry[m] = None THEN [entry EXCEPT ![m] = Live(t)] ELSE entry
        /\ unread' = Min2(MaxUnread, unread + counts)
        /\ index' = [index EXCEPT ![m] = t]
        /\ arriving' = [arriving EXCEPT ![h][m] = NoText]
        /\ load' = Behind(m)
        /\ stained' = IF entry[m].kind = "deleted" THEN stained \cup {m} ELSE stained
        /\ UNCHANGED <<server, screen, editing, stale>>

\* handleEditedMessage: a message that is in the list gets the text, a tombstone
\* too; every hook then decrypts it.  One that is not in the list is passed over.
ReceiveEdited ==
    LET e == Head(wire)
    IN  /\ Received("edited")
        /\ IF Mounted = {} \/ entry[e.m] = None
           THEN UNCHANGED <<entry, editing>>
           ELSE /\ entry' = [entry EXCEPT ![e.m].text = e.text]
                /\ editing' = [h \in Hooks |->
                     IF h \in Mounted /\ entry[e.m].kind = "live"
                     THEN [editing[h] EXCEPT ![e.m] = @ \cup {e.text}] ELSE editing[h]]
        /\ stale' = StaleIf(Mounted = {} \/ entry[e.m] = None)
        /\ UNCHANGED <<unread, index, arriving, stained>>

\* The rest of handleEditedMessage: the index.
IndexEdited(h, m) ==
    /\ \E t \in editing[h][m] :
          /\ index' = [index EXCEPT ![m] = t]
          /\ editing' = [editing EXCEPT ![h][m] = @ \ {t}]
    /\ UNCHANGED <<server, screen, entry, unread, arriving, load, stale, stained>>

\* Text of m that some handler or load is still to put into the index.
Indexing(m) ==
    \/ \E h \in Hooks : editing[h][m] # {} \/ arriving[h][m] # NoText
    \/ \E h \in Hooks : m \in load[h].todo

\* Mutant: the message leaves the list and stays in the index.
ReceiveDeletedListOnly ==
    LET m == Head(wire).m
    IN  /\ Received("deleted")
        /\ entry' = IF Mounted = {} \/ entry[m] = None
                    THEN entry ELSE [entry EXCEPT ![m] = Tombstone]
        /\ stale' = StaleIf(Mounted = {} \/ entry[m] = None)
        /\ stained' = IF Indexing(m) THEN stained \cup {m} ELSE stained
        /\ UNCHANGED <<unread, index, arriving, editing>>

\* Mutant: the text of the message is cleared and the message not marked.
ReceiveDeletedUnmarked ==
    LET m == Head(wire).m
    IN  /\ Received("deleted")
        /\ entry' = IF Mounted = {} \/ entry[m] = None
                    THEN entry ELSE [entry EXCEPT ![m].text = NoText]
        /\ stale' = StaleIf(Mounted = {} \/ entry[m] = None)
        /\ index' = [index EXCEPT ![m] = NoText]
        /\ UNCHANGED <<unread, arriving, editing, stained>>

\* handleDeletedMessage: the list if it has the message, and the index.
ReceiveDeleted ==
    LET m == Head(wire).m
    IN  /\ Received("deleted")
        /\ entry' = IF Mounted = {} \/ entry[m] = None
                    THEN entry ELSE [entry EXCEPT ![m] = Tombstone]
        /\ stale' = StaleIf(Mounted = {} \/ entry[m] = None)
        /\ IF Mounted = {} THEN UNCHANGED <<index, stained>>
           ELSE /\ index' = [index EXCEPT ![m] = NoText]
                /\ stained' = IF Indexing(m) THEN stained \cup {m} ELSE stained
        /\ UNCHANGED <<unread, arriving, editing>>

-----------------------------------------------------------------------------
(* loadHistory without a cursor, the only way it is called                 *)

LoadStart(h) ==
    /\ open
    /\ load[h].pc = "idle"
    /\ load' = [load EXCEPT ![h].pc = "fetch"]
    /\ UNCHANGED <<server, screen, store, arriving, editing, stale, stained>>

\* The server answers with its rows, which are decrypted one after the other and
\* will be put into the index, tombstones excepted.
LoadFetch(h) ==
    /\ load[h].pc = "fetch"
    /\ load' = [load EXCEPT ![h].pc = "decrypt", ![h].rows = row,
                            ![h].todo = {m \in Msgs : row[m].kind = "live"}]
    /\ UNCHANGED <<server, screen, store, arriving, editing, stale, stained>>

LoadFails(h) ==
    /\ load[h].pc = "fetch"
    /\ load' = [load EXCEPT ![h] = Idle]
    /\ UNCHANGED <<server, screen, store, arriving, editing, stale, stained>>

\* Mutant: the rows are merged into the list, the list winning.
LoadApplyKeeps(h) ==
    /\ load[h].pc = "decrypt"
    /\ entry' = [m \in Msgs |-> IF entry[m] = None THEN load[h].rows[m] ELSE entry[m]]
    /\ load' = [load EXCEPT ![h] = Shown(@)]
    /\ stale' = load[h].behind
    /\ UNCHANGED <<server, screen, unread, index, arriving, editing, stained>>

\* setMessages: the rows replace the list.  The text of a row that is a tombstone
\* by now is left in the index.
LoadApply(h) ==
    /\ load[h].pc = "decrypt"
    /\ entry' = load[h].rows
    /\ stale' = load[h].behind
    /\ stained' = stained \cup
          {m \in Msgs : load[h].rows[m].kind = "deleted"
                           /\ (index[m] # NoText \/ Indexing(m))}
    /\ load' = [load EXCEPT ![h] = Shown(@)]
    /\ UNCHANGED <<server, screen, unread, index, arriving, editing>>

\* The rows are put into the index one after the other.
LoadIndex(h) ==
    /\ load[h].pc = "index"
    /\ \E m \in load[h].todo :
          /\ index' = [index EXCEPT ![m] = load[h].rows[m].text]
          /\ load' = [load EXCEPT ![h] = Shown([load[h] EXCEPT !.todo = @ \ {m}])]
    /\ UNCHANGED <<server, screen, entry, unread, arriving, editing, stale, stained>>

Peer ==
    \/ \E m \in Msgs : PeerSends(m) \/ PeerEdits(m) \/ PeerDeletes(m)
    \/ \E e \in pending : Announce(e) \/ Silent(e)

Hook(h) ==
    \/ \E m \in Msgs : AddMessage(h, m) \/ IndexEdited(h, m)
    \/ LoadStart(h) \/ LoadFetch(h) \/ LoadFails(h) \/ LoadApply(h) \/ LoadIndex(h)

Next ==
    \/ Peer \/ Drop \/ Reconnect
    \/ Open \/ Leave
    \/ ReceiveNew \/ ReceiveEdited \/ ReceiveDeleted
    \/ \E h \in Hooks : Hook(h)

Spec == Init /\ [][Next]_vars

-----------------------------------------------------------------------------
Contents == {None, Tombstone} \cup {Live(t) : t \in Texts}

TypeOK ==
    /\ row \in [Msgs -> Contents]
    /\ online \in BOOLEAN /\ screen \in Screens
    /\ pending \subseteq Event /\ overtaken \subseteq Event
    /\ \A i \in DOMAIN wire : wire[i] \in Event
    /\ Len(wire) <= MaxWire
    /\ entry \in [Msgs -> Contents \cup [kind : {"deleted"}, text : Texts]]
    /\ unread \in 0..MaxUnread
    /\ index \in [Msgs -> Texts \cup {NoText}]
    /\ arriving \in [Hooks -> [Msgs -> Texts \cup {NoText}]]
    /\ editing \in [Hooks -> [Msgs -> SUBSET Texts]]
    /\ load \in [Hooks -> [pc : {"idle", "fetch", "decrypt", "index"},
                           rows : [Msgs -> Contents], todo : SUBSET Msgs,
                           behind : SUBSET Msgs]]
    /\ stale \subseteq Msgs /\ stained \subseteq Msgs

\* A conversation that is open has nothing unread, whatever was being decrypted
\* when it was opened.
OpenHasNoUnread == open => unread = 0

\* Nothing about m is on its way to the list.
Quiet(m) ==
    /\ \A e \in pending : e.m # m
    /\ \A i \in DOMAIN wire : wire[i].m # m
    /\ \A h \in Hooks : arriving[h][m] = NoText
    /\ \A h \in Hooks : load[h].pc # "decrypt"

\* Once everything has arrived, the list shows what the server stores, over any
\* order of events, decryptions and loads, save for a message with a change whose
\* event was never made, was lost, came after that of a newer change, found the
\* list without the message, or was undone by a load that had been answered before.
ListIsRows == \A m \in Msgs \ stale : Quiet(m) => entry[m] = row[m]

\* What is found by searching is what is shown: a message that is deleted is no
\* longer in the index, unless its text was being indexed when it was deleted.
SearchForgetsDeleted ==
    \A m \in Msgs : entry[m].kind = "deleted" /\ m \notin stained => index[m] = NoText

-----------------------------------------------------------------------------
(* What the documents say and the code does not do                         *)

\* A deleted message is not found by searching once all is quiet.
DeletedIsNotFound ==
    \A m \in Msgs : row[m].kind = "deleted" /\ entry[m].kind = "deleted"
                       /\ Quiet(m) /\ ~Indexing(m) => index[m] = NoText
=============================================================================
