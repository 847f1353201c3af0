------------------------------ MODULE Outbox ------------------------------
(***************************************************************************)
(* A user's own messages, from the composer of a tab to the server and     *)
(* back: the optimistic entry of the message list, the acknowledgement and *)
(* the status events on a socket that may drop, history loads that replace *)
(* the list, and the edit and the deletion that a long press sends over    *)
(* REST.                                                                   *)
(*                                                                         *)
(* A draft is named by its clientMessageId, which is what the store tells  *)
(* duplicates apart by, so the list maps drafts to entries.  One ChatView  *)
(* is open; the conversation fits on one page of history.                  *)
(***************************************************************************)
EXTENDS Naturals, Sequences

CONSTANTS
    Drafts,     \* client message ids
    MaxText,    \* bound: versions of a text, the composed one included
    MaxWire     \* bound: events on their way to the tab

ASSUME OutboxAssumption == MaxText \in Nat \ {0} /\ MaxWire \in Nat \ {0}

VARIABLES
    row,        \* messages, with the aggregate of its message_statuses
    send,       \* where the send of a draft stands
    told,       \* the receipts of the recipient that were written
    untold,     \* ... and are not broadcast yet
    sock,       \* whether the tab's socket is connected
    mine,       \* the drafts that were sent over the connection of now
    wire,       \* events on their way to the tab, in order
    list,       \* messages of chatStore: the entries of drafts
    load,       \* loadHistory
    edit,       \* editMessage, by draft
    del,        \* deleteMessage, by draft
    unacked,    \* history: no acknowledgement of the draft reached the tab
    behind,     \* history: the list was replaced by one without the draft
    stale       \* history: the entry missed a change of its row

server == <<row, told, untold>>
socket == <<sock, mine, wire>>
rest == <<edit, del>>
history == <<unacked, behind, stale>>
vars == <<server, send, socket, list, load, rest, history>>

Rank == [SENT |-> 0, DELIVERED |-> 1, READ |-> 2]
Statuses == DOMAIN Rank
Receipts == {"DELIVERED", "READ"}

NoRow == [state |-> "none", text |-> 0, status |-> "SENT"]
NoCall == [pc |-> "idle", text |-> 0]
NoLoad == [pc |-> "idle", rows |-> <<>>, late |-> {}]

Init ==
    /\ row = [d \in Drafts |-> NoRow]
    /\ send = [d \in Drafts |-> "new"]
    /\ told = [d \in Drafts |-> {}] /\ untold = {}
    /\ sock = TRUE /\ mine = {} /\ wire = <<>>
    /\ list = <<>>
    /\ load = NoLoad
    /\ edit = [d \in Drafts |-> NoCall] /\ del = [d \in Drafts |-> NoCall]
    /\ unacked = {} /\ behind = {} /\ stale = {}

Stored == {d \in Drafts : row[d].state # "none"}
Listed == DOMAIN list

\* An event reaches the tab if its socket is the one it was for.
Push(e, up) ==
    /\ Len(wire) < MaxWire
    /\ wire' = IF up THEN Append(wire, e) ELSE wire

\* The tab did not, or will not, apply a change of the row of d: a load that
\* was answered before the change does not make up for it.
Miss(D) ==
    /\ stale' = stale \cup D
    /\ load' = IF load.pc = "answered" THEN [load EXCEPT !.late = @ \cup D] ELSE load

\* The tab applies a change of d; a load that was answered before undoes it.
Apply(d) ==
    load' = IF load.pc = "answered" THEN [load EXCEPT !.late = @ \cup {d}] ELSE load

-----------------------------------------------------------------------------
(* Sending                                                                 *)

\* sendMessage, up to the encryption: it wants a connected socket.
Compose(d) ==
    /\ send[d] = "new" /\ sock
    /\ send' = [send EXCEPT ![d] = "encrypting"]
    /\ UNCHANGED <<server, socket, list, load, rest, history>>

Optimistic == [id |-> "client", text |-> 1, status |-> "SENT", deleted |-> FALSE]

\* The store's addMessage: an entry with the same client id wins.
AddMessage(d, entry) ==
    list' = IF d \in Listed THEN list
            ELSE [x \in Listed \cup {d} |-> IF x = d THEN entry ELSE list[x]]

\* Mutant: the optimistic entry comes before the emission.
EmitOptimisticFirst(d) ==
    /\ send[d] = "encrypting"
    /\ send' = [send EXCEPT ![d] = IF sock THEN "out" ELSE "unsent"]
    /\ mine' = IF sock THEN mine \cup {d} ELSE mine
    /\ AddMessage(d, Optimistic)
    /\ UNCHANGED <<server, sock, wire, load, rest, history>>

\* Mutant: the list waits for the acknowledgement.
EmitWithoutEntry(d) ==
    /\ send[d] = "encrypting" /\ sock
    /\ send' = [send EXCEPT ![d] = "out"]
    /\ mine' = mine \cup {d}
    /\ UNCHANGED <<server, sock, wire, list, load, rest, history>>

\* The rest of sendMessage: emitEvent throws if the socket has gone meanwhile.
Emit(d) ==
    /\ send[d] = "encrypting"
    /\ \/ /\ sock
          /\ send' = [send EXCEPT ![d] = "out"]
          /\ mine' = mine \cup {d}
          /\ AddMessage(d, Optimistic)
       \/ /\ ~sock
          /\ send' = [send EXCEPT ![d] = "unsent"]
          /\ UNCHANGED <<mine, list>>
    /\ UNCHANGED <<server, sock, wire, load, rest, history>>

\* The handler of message:send: the row is committed,
Store(d) ==
    /\ send[d] = "out"
    /\ row' = [row EXCEPT ![d] = [state |-> "live", text |-> 1, status |-> "SENT"]]
    /\ send' = [send EXCEPT ![d] = "stored"]
    /\ UNCHANGED <<told, untold, socket, list, load, rest, history>>

\* and acknowledged over the socket the frame came from.
Acknowledge(d) ==
    /\ send[d] = "stored"
    /\ Push([type |-> "ack", d |-> d, status |-> "SENT"], d \in mine)
    /\ send' = [send EXCEPT ![d] = IF d \in mine THEN "acked" ELSE "over"]
    /\ UNCHANGED <<server, sock, mine, list, load, rest, history>>

\* A call fails, before or after the commit: the error acknowledgement changes
\* nothing in the tab.
Refuse(d) ==
    /\ send[d] \in {"out", "stored"}
    /\ send' = [send EXCEPT ![d] = "over"]
    /\ unacked' = unacked \cup {d}
    /\ UNCHANGED <<server, socket, list, load, rest, behind, stale>>

\* The acknowledgement as an entry: the server's id is called messageId in it,
\* and all it shares with a message are the client id and the timestamp.
AckEntry == [id |-> "none", text |-> 0, status |-> "SENT", deleted |-> FALSE]

TakeAck(d) == AddMessage(d, AckEntry)

-----------------------------------------------------------------------------
(* Status                                                                  *)

\* Mutant: the upsert needs no message.
WriteReceiptUnchecked(d, s) ==
    /\ s \notin told[d]
    /\ row' = [row EXCEPT ![d].status = s]
    /\ told' = [told EXCEPT ![d] = @ \cup {s}]
    /\ untold' = untold \cup {<<d, s>>}
    /\ UNCHANGED <<send, socket, list, load, rest, history>>

\* message:delivered and message:read of the recipient, in either order (bound: one
\* of each): the status is overwritten,
WriteReceipt(d, s) ==
    /\ d \in Stored
    /\ s \notin told[d]
    /\ row' = [row EXCEPT ![d].status = s]
    /\ told' = [told EXCEPT ![d] = @ \cup {s}]
    /\ untold' = untold \cup {<<d, s>>}
    /\ UNCHANGED <<send, socket, list, load, rest, history>>

\* and then broadcast to the room.
TellReceipt(d, s) ==
    /\ <<d, s>> \in untold
    /\ untold' = untold \ {<<d, s>>}
    /\ Push([type |-> "status", d |-> d, status |-> s], sock)
    /\ IF sock THEN UNCHANGED <<stale, load>> ELSE Miss({d})
    /\ UNCHANGED <<row, told, send, sock, mine, list, rest, unacked, behind>>

\* Mutant: the status is taken over as it comes.
TakeStatusLast(d, s) ==
    list' = IF d \in Listed /\ list[d].id = "server"
            THEN [list EXCEPT ![d].status = s] ELSE list

\* updateMessageStatus: by the server's id, upwards only.
TakeStatus(d, s) ==
    list' = IF d \in Listed /\ list[d].id = "server" /\ Rank[s] > Rank[list[d].status]
            THEN [list EXCEPT ![d].status = s] ELSE list

\* The next event reaches the tab.
Receive ==
    /\ wire # <<>>
    /\ wire' = Tail(wire)
    /\ LET e == Head(wire)
       IN  \/ /\ e.type = "ack"
              /\ TakeAck(e.d)
              /\ send' = [send EXCEPT ![e.d] = "over"]
              /\ UNCHANGED load
           \/ /\ e.type = "status"
              /\ TakeStatus(e.d, e.status)
              /\ Apply(e.d)
              /\ UNCHANGED send
    /\ UNCHANGED <<server, sock, mine, rest, history>>

-----------------------------------------------------------------------------
(* The socket                                                              *)

OnWire(type) == {d \in Drafts : \E i \in DOMAIN wire : wire[i].type = type /\ wire[i].d = d}

\* The connection drops.  What was on its way to the tab is gone; of the frames
\* on their way to the server, L.  Nothing is kept for a later attempt.
Drop(L) ==
    /\ sock
    /\ L \subseteq {d \in mine : send[d] = "out"}
    /\ sock' = FALSE /\ mine' = {} /\ wire' = <<>>
    /\ send' = [d \in Drafts |-> IF d \in L \cup OnWire("ack") THEN "over" ELSE send[d]]
    /\ unacked' = unacked \cup {d \in mine : send[d] \in {"out", "stored", "acked"}}
    /\ Miss(OnWire("status"))
    /\ UNCHANGED <<server, list, rest, behind>>

\* The socket comes back and asks for what was missed since the ids of the last
\* entries.  The server makes dates of the ids; no query is answered for a date
\* that is none, so that the tab learns nothing.
Reconnect ==
    /\ ~sock
    /\ sock' = TRUE
    /\ UNCHANGED <<server, send, mine, wire, list, load, rest, history>>

-----------------------------------------------------------------------------
(* History                                                                 *)

\* loadHistory, one at a time.
LoadAsk ==
    /\ load.pc = "idle"
    /\ load' = [NoLoad EXCEPT !.pc = "asked"]
    /\ UNCHANGED <<server, send, socket, list, rest, history>>

Fetched(d) == [id |-> "server", text |-> row[d].text, status |-> row[d].status,
               deleted |-> row[d].state = "deleted"]

\* The server reads the page.
LoadAnswer ==
    /\ load.pc = "asked"
    /\ load' = [pc |-> "answered", rows |-> [d \in Stored |-> Fetched(d)], late |-> {}]
    /\ UNCHANGED <<server, send, socket, list, rest, history>>

\* After the decryptions setMessages replaces the list.
LoadApply ==
    /\ load.pc = "answered"
    /\ list' = load.rows
    /\ behind' = (behind \cup Listed) \ DOMAIN load.rows
    /\ stale' = load.late
    /\ load' = NoLoad
    /\ UNCHANGED <<server, send, socket, rest, unacked>>

LoadFails ==
    /\ load.pc # "idle"
    /\ load' = NoLoad
    /\ UNCHANGED <<server, send, socket, list, rest, history>>

-----------------------------------------------------------------------------
(* A long press on an own message                                          *)

\* The press edits the message to its own text if it is young enough, and it
\* deletes it.  With the id of an optimistic entry both are answered by 404, and
\* an entry made of an acknowledgement has no sender: nothing changes.
Press(d) ==
    /\ d \in Listed /\ list[d].id = "server" /\ ~list[d].deleted
    /\ edit[d].pc = "idle" /\ del[d].pc = "idle"    \* bound: one press at a time
    /\ \/ edit' = [edit EXCEPT ![d].pc = "asked"]
       \/ UNCHANGED edit
    /\ del' = [del EXCEPT ![d].pc = "asked"]
    /\ UNCHANGED <<server, send, socket, list, load, history>>

\* MessageService.editMessage: the check, and the write by id.
EditFind(d) ==
    /\ edit[d].pc = "asked"
    /\ row[d].state # "deleted" /\ row[d].text < MaxText
    /\ edit' = [edit EXCEPT ![d].pc = "found"]
    /\ UNCHANGED <<server, send, socket, list, load, del, history>>

EditWrite(d) ==
    /\ edit[d].pc = "found"
    /\ row' = [row EXCEPT ![d].text = @ + 1]
    /\ edit' = [edit EXCEPT ![d] = [pc |-> "written", text |-> row[d].text + 1]]
    /\ UNCHANGED <<told, untold, send, socket, list, load, del, history>>

\* The response reaches the tab: the store's editMessage.
EditAnswer(d) ==
    /\ edit[d].pc = "written"
    /\ list' = [list EXCEPT ![d].text = edit[d].text]
    /\ edit' = [edit EXCEPT ![d] = NoCall]
    /\ Apply(d)
    /\ UNCHANGED <<server, send, socket, del, history>>

EditFails(d) ==
    /\ edit[d].pc # "idle"
    /\ IF edit[d].pc = "written" THEN Miss({d}) ELSE UNCHANGED <<stale, load>>
    /\ edit' = [edit EXCEPT ![d] = NoCall]
    /\ UNCHANGED <<server, send, socket, list, del, unacked, behind>>

DeleteFind(d) ==
    /\ del[d].pc = "asked"
    /\ del' = [del EXCEPT ![d].pc = IF row[d].state = "deleted" THEN "written" ELSE "found"]
    /\ UNCHANGED <<server, send, socket, list, load, edit, history>>

DeleteWrite(d) ==
    /\ del[d].pc = "found"
    /\ row' = [row EXCEPT ![d].state = "deleted", ![d].text = 0]
    /\ del' = [del EXCEPT ![d].pc = "written"]
    /\ UNCHANGED <<told, untold, send, socket, list, load, edit, history>>

DeleteAnswer(d) ==
    /\ del[d].pc = "written"
    /\ list' = [list EXCEPT ![d].deleted = TRUE, ![d].text = 0]
    /\ del' = [del EXCEPT ![d] = NoCall]
    /\ Apply(d)
    /\ UNCHANGED <<server, send, socket, edit, history>>

DeleteFails(d) ==
    /\ del[d].pc # "idle"
    /\ IF del[d].pc = "written" THEN Miss({d}) ELSE UNCHANGED <<stale, load>>
    /\ del' = [del EXCEPT ![d] = NoCall]
    /\ UNCHANGED <<server, send, socket, list, edit, unacked, behind>>

-----------------------------------------------------------------------------
Next ==
    \/ \E d \in Drafts :
          \/ Compose(d) \/ Emit(d) \/ Store(d) \/ Acknowledge(d) \/ Refuse(d)
          \/ \E s \in Receipts : WriteReceipt(d, s) \/ TellReceipt(d, s)
          \/ Press(d)
          \/ EditFind(d) \/ EditWrite(d) \/ EditAnswer(d) \/ EditFails(d)
          \/ DeleteFind(d) \/ DeleteWrite(d) \/ DeleteAnswer(d) \/ DeleteFails(d)
    \/ Receive
    \/ \E L \in SUBSET Drafts : Drop(L)
    \/ Reconnect
    \/ LoadAsk \/ LoadAnswer \/ LoadApply \/ LoadFails

Spec == Init /\ [][Next]_vars

-----------------------------------------------------------------------------
Entries == [id : {"client", "server", "none"}, text : 0 .. MaxText,
            status : Statuses, deleted : BOOLEAN]

\* Types; in particular a message that is not stored has no status.
TypeOK ==
    /\ row \in [Drafts -> {NoRow} \cup [state : {"live", "deleted"}, text : 0 .. MaxText,
                                        status : Statuses]]
    /\ send \in [Drafts -> {"new", "encrypting", "unsent", "out", "stored", "acked", "over"}]
    /\ told \in [Drafts -> SUBSET Receipts] /\ untold \subseteq Drafts \X Receipts
    /\ sock \in BOOLEAN
    /\ wire \in Seq([type : {"ack", "status"}, d : Drafts, status : Statuses])
    /\ Listed \subseteq Drafts /\ \A d \in Listed : list[d] \in Entries
    /\ load.pc \in {"idle", "asked", "answered"} /\ load.late \subseteq Drafts
    /\ \A d \in DOMAIN load.rows : load.rows[d] \in Entries
    /\ \A call \in {edit, del} :
          call \in [Drafts -> [pc : {"idle", "asked", "found", "written"}, text : 0 .. MaxText]]
    /\ \A S \in {mine, unacked, behind, stale} : S \subseteq Drafts

Over(d) == send[d] \in {"unsent", "over"} /\ load.pc = "idle"

\* A message that the server has is in the list, and whole, unless a load that was
\* answered before the message was stored took its optimistic entry away; the entry
\* is then gone, or what the acknowledgement makes of it, until the next load.
StoredIsShown ==
    \A d \in Stored \ behind : Over(d) => d \in Listed /\ list[d].id # "none"

\* The list shows no message as sent that the server does not have, unless the
\* connection dropped, or a call failed, before the acknowledgement: a message
\* that could not be emitted leaves no trace.
UnstoredIsUnacked ==
    \A d \in Listed \ Stored : Over(d) => d \in unacked

\* What the sender sees of a send that is over is how it ended.
SendOutcomeIsShown == StoredIsShown /\ UnstoredIsUnacked

\* No receipt, event or request of d is on its way.
Quiet(d) ==
    /\ load.pc = "idle"
    /\ edit[d].pc = "idle" /\ del[d].pc = "idle"
    /\ d \notin OnWire("status") /\ \A s \in Receipts : <<d, s>> \notin untold

\* An entry that has the server's id becomes what the row holds, whatever the order
\* of receipts, responses and loads, unless an event was lost with the connection, a
\* response failed, or a load had been answered before the change; its status is
\* never below that of the row.
SettledEntryIsRow ==
    \A d \in Listed : list[d].id = "server" /\ Quiet(d) /\ d \notin stale =>
        /\ list[d].deleted <=> row[d].state = "deleted"
        /\ ~list[d].deleted => list[d].text = row[d].text
        /\ Rank[list[d].status] >= Rank[row[d].status]

-----------------------------------------------------------------------------
(* What the documents say and the code does not do                         *)

\* "Temporary - replaced when server ack arrives" (the id of the optimistic entry).
AckGivesServerId ==
    \A d \in Listed : send[d] = "over" /\ d \notin unacked => list[d].id = "server"

\* A deleted message shows no text (message.ts: "`ciphertext` is null").
DeletedShowsNoText == \A d \in Listed : list[d].deleted => list[d].text = 0

\* The list of the one who sent a message holds it, whatever else was loaded.
SentStaysShown == \A d \in Stored : Over(d) => d \in Listed

\* "Zero message loss": what the list shows as sent gets to the server.
ShownIsStored == \A d \in Listed : Over(d) => d \in Stored
=============================================================================
