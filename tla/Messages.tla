------------------------------ MODULE Messages ------------------------------
(***************************************************************************)
(* The life of a message on the server: MessageService over                *)
(* MessageRepository and ConversationRepository (PostgreSQL) and the       *)
(* message-fanout queue, called by the socket handlers of                  *)
(* message-handler.ts and by MessageController.                            *)
(*                                                                         *)
(* One action is one awaited call with the synchronous code after it.  The *)
(* read before a write, the write and the broadcast after it are separate  *)
(* steps, and requests on any connection and API instance run in between.  *)
(* Who is a member of a conversation does not change here.                 *)
(***************************************************************************)
EXTENDS Integers, FiniteSets

CONSTANTS
    Msgs,             \* server-side message ids
    ClientIds,        \* clientMessageIds, one per message a client composes
    Convs,
    Users,
    Texts,            \* ciphertexts
    Requests,         \* the requests in flight at one time
    NoText,           \* a null ciphertext column
    Nobody,           \* no identifier
    Author,           \* the user who composed the message of a clientMessageId
    Target,           \* and the conversation it is for
    Members,          \* the participants of each conversation
    FanOutThreshold,
    EditWindow,       \* EDIT_WINDOW_MS, in ticks
    MaxNow            \* bound: the last tick the clock reaches

ASSUME AuthorAssumption == Author \in [ClientIds -> Users]
ASSUME TargetAssumption == Target \in [ClientIds -> Convs]
ASSUME MembersAssumption == Members \in [Convs -> SUBSET Users]
ASSUME NumbersAssumption ==
    FanOutThreshold \in Nat /\ EditWindow \in Nat /\ MaxNow \in Nat
ASSUME SentinelAssumption ==
    /\ NoText \notin Texts
    /\ Nobody \notin Msgs \cup ClientIds \cup Users

VARIABLES
    now,
    row,         \* the messages table
    receipt,     \* the message_statuses table, per message and user
    lastReadAt,  \* conversation_participants.lastReadAt, per user and conversation
    jobs,        \* message-fanout jobs enqueued for each message
    acked,       \* history: the messages that success acks of a clientMessageId named
    announced,   \* history: message:new broadcasts of each message, capped
    shown,       \* what a connected recipient that applies every event displays
    opened,      \* history: conversations each user reported as read
    refused,     \* history: clientMessageIds with a send refused as a duplicate
    overtaken,   \* history: messages deleted while a checked edit was pending
    disturbed,   \* history: content events that overlapped, or that never left
    silent,      \* history: messages changed through REST, which broadcasts nothing
    req          \* the requests in flight

tables == <<row, receipt, lastReadAt, jobs>>
history == <<acked, opened, refused, overtaken, disturbed, silent>>
events == <<announced, shown>>
vars == <<now, tables, events, history, req>>

-----------------------------------------------------------------------------
Never == -1
MaxAnnounced == 2    \* bound: broadcasts of one message are counted up to here
Unseen == Nobody     \* the recipient has not received the message

NoRow == [state |-> "none", cid |-> Nobody, text |-> NoText,
          ts |-> Never, editedAt |-> Never]

\* A request slot; text and at are the ciphertext and the timestamp the next
\* write will store, ids the messages of a read report.
Idle == [pc |-> "idle", user |-> Nobody, rest |-> FALSE, cid |-> Nobody,
         m |-> Nobody, text |-> NoText, at |-> Never, ids |-> {}]

Pcs == {"idle", "dedup", "create", "enqueue", "editWrite", "deleteWrite",
        "sendPublish", "resendPublish", "editPublish", "deletePublish", "reset"}

\* Between a content write and the broadcast of its outcome.
Unpublished == {"enqueue", "sendPublish", "resendPublish", "editPublish",
                "deletePublish"}

Stored == {m \in Msgs : row[m].state # "none"}
Conv(m) == Target[row[m].cid]
Sender(m) == Author[row[m].cid]

Recipient(m, u) == u \in Members[Conv(m)] \ {Sender(m)}

Goto(r, pc) == req' = [req EXCEPT ![r].pc = pc]
Finish(r) == req' = [req EXCEPT ![r] = Idle]
Free(r) == req[r].pc = "idle"

Init ==
    /\ now = 0
    /\ row = [m \in Msgs |-> NoRow]
    /\ receipt = [m \in Msgs |-> [u \in Users |->
                    [status |-> "SENT", readAt |-> FALSE]]]
    /\ lastReadAt = [u \in Users |-> [v \in Convs |-> Never]]
    /\ jobs = [m \in Msgs |-> 0]
    /\ acked = [c \in ClientIds |-> {}]
    /\ announced = [m \in Msgs |-> 0]
    /\ shown = [m \in Msgs |-> Unseen]
    /\ opened = [u \in Users |-> {}]
    /\ refused = {}
    /\ overtaken = {}
    /\ disturbed = {}
    /\ silent = {}
    /\ req = [r \in Requests |-> Idle]

-----------------------------------------------------------------------------
(* Sending: message:send, or POST .../messages when rest is TRUE           *)

\* isParticipant; a sender who is not one gets an error and changes nothing.
SendStart(r, c, t, rest) ==
    /\ Free(r)
    /\ Author[c] \in Members[Target[c]]
    /\ req' = [req EXCEPT ![r].pc = "dedup", ![r].user = Author[c],
                          ![r].cid = c, ![r].text = t, ![r].rest = rest]
    /\ UNCHANGED <<now, tables, events, history>>

\* Mutant: a duplicate goes on to the fan-out decision.
SendFindRequeues(r) ==
    /\ req[r].pc = "dedup"
    /\ \/ \E m \in Stored :
            /\ row[m].cid = req[r].cid
            /\ req' = [req EXCEPT ![r].pc = "enqueue", ![r].m = m,
                                  ![r].text = row[m].text]
       \/ /\ \A m \in Stored : row[m].cid # req[r].cid
          /\ req' = [req EXCEPT ![r].pc = "create", ![r].at = now]
    /\ UNCHANGED <<now, tables, events, history>>

\* findByClientMessageId: an existing row ends the service call; otherwise
\* create() stamps the row with its instance's clock before the insert.
SendFind(r) ==
    /\ req[r].pc = "dedup"
    /\ \/ \E m \in Stored :
            /\ row[m].cid = req[r].cid
            /\ req' = [req EXCEPT ![r].pc = "resendPublish", ![r].m = m,
                                  ![r].text = row[m].text]
       \/ /\ \A m \in Stored : row[m].cid # req[r].cid
          /\ req' = [req EXCEPT ![r].pc = "create", ![r].at = now]
    /\ UNCHANGED <<now, tables, events, history>>

\* Mutant: clientMessageId without its unique index.
SendCreateNotUnique(r) ==
    /\ req[r].pc = "create"
    /\ \E m \in Msgs \ Stored :
         /\ row' = [row EXCEPT ![m] =
               [state |-> "live", cid |-> req[r].cid, text |-> req[r].text,
                ts |-> req[r].at, editedAt |-> Never]]
         /\ req' = [req EXCEPT ![r].pc = "sendPublish", ![r].m = m]
    /\ UNCHANGED <<now, receipt, lastReadAt, jobs, events, history>>

\* The insert.  The unique index on clientMessageId refuses a second row for
\* one clientMessageId, and the error is what the sender is answered with.
\* incrementUnreadCount and the participant lookup follow.
SendCreate(r) ==
    /\ req[r].pc = "create"
    /\ \/ /\ \A m \in Stored : row[m].cid # req[r].cid
          /\ \E m \in Msgs \ Stored :
               /\ row' = [row EXCEPT ![m] =
                     [state |-> "live", cid |-> req[r].cid, text |-> req[r].text,
                      ts |-> req[r].at, editedAt |-> Never]]
               /\ LET group == Cardinality(Members[Target[req[r].cid]])
                                 >= FanOutThreshold
                  IN  req' = [req EXCEPT
                        ![r].pc = IF group THEN "enqueue" ELSE "sendPublish",
                        ![r].m = m]
          /\ UNCHANGED refused
       \/ /\ \E m \in Stored : row[m].cid = req[r].cid
          /\ refused' = refused \cup {req[r].cid}
          /\ Finish(r)
          /\ UNCHANGED row
    /\ UNCHANGED <<now, receipt, lastReadAt, jobs, events,
                   acked, opened, overtaken, disturbed, silent>>

SendEnqueue(r) ==
    /\ req[r].pc = "enqueue"
    /\ jobs' = [jobs EXCEPT ![req[r].m] = @ + 1]
    /\ Goto(r, "sendPublish")
    /\ UNCHANGED <<now, row, receipt, lastReadAt, events, history>>

\* A recipient keeps the first message:new of a message and ignores the others.
Announce(m, t) ==
    /\ announced' = [announced EXCEPT ![m] =
                        IF @ < MaxAnnounced THEN @ + 1 ELSE @]
    /\ shown' = [shown EXCEPT ![m] = IF @ = Unseen THEN t ELSE @]

\* The ack, and message:new to the room of the conversation, for a new message
\* and for a duplicate alike.  The REST controller answers and emits nothing.
SendPublish(r) ==
    LET m == req[r].m
    IN  /\ req[r].pc \in {"sendPublish", "resendPublish"}
        /\ acked' = [acked EXCEPT ![req[r].cid] = @ \cup {m}]
        /\ IF req[r].rest THEN UNCHANGED events ELSE Announce(m, req[r].text)
        /\ Finish(r)
        /\ UNCHANGED <<now, tables, opened, refused, overtaken, disturbed, silent>>

-----------------------------------------------------------------------------
(* Editing: message:edit, or PATCH /messages/:id                           *)

\* A content event of m has been written and not broadcast yet.
Pending(r, m) ==
    \E q \in Requests \ {r} : req[q].pc \in Unpublished /\ req[q].m = m

\* Mutant: the edit is broadcast before it is written.
EditFindEager(r, u, m, t, rest) ==
    /\ Free(r)
    /\ row[m].state = "live"
    /\ Sender(m) = u
    /\ now - row[m].ts <= EditWindow
    /\ req' = [req EXCEPT ![r].pc = "editWrite", ![r].user = u, ![r].m = m,
                          ![r].text = t, ![r].at = now, ![r].rest = rest]
    /\ shown' = [shown EXCEPT ![m] = IF @ = Unseen THEN @ ELSE t]
    /\ UNCHANGED <<now, tables, announced, history>>

\* findById and the checks of the service; a failed check changes nothing.
EditFind(r, u, m, t, rest) ==
    /\ Free(r)
    /\ row[m].state = "live"
    /\ Sender(m) = u
    /\ now - row[m].ts <= EditWindow
    /\ req' = [req EXCEPT ![r].pc = "editWrite", ![r].user = u, ![r].m = m,
                          ![r].text = t, ![r].at = now, ![r].rest = rest]
    /\ UNCHANGED <<now, tables, events, history>>

\* Mutant: the whole row that was read is written back.
EditWriteWhole(r) ==
    LET m == req[r].m
    IN  /\ req[r].pc = "editWrite"
        /\ row' = [row EXCEPT ![m].state = "live", ![m].text = req[r].text,
                              ![m].editedAt = req[r].at]
        /\ disturbed' = IF Pending(r, m) THEN disturbed \cup {m} ELSE disturbed
        /\ silent' = IF req[r].rest THEN silent \cup {m} ELSE silent
        /\ Goto(r, "editPublish")
        /\ UNCHANGED <<now, receipt, lastReadAt, jobs, events,
                       acked, opened, refused, overtaken>>

\* update: by id, whatever the row has become.
EditWrite(r) ==
    LET m == req[r].m
    IN  /\ req[r].pc = "editWrite"
        /\ row' = [row EXCEPT ![m].text = req[r].text, ![m].editedAt = req[r].at]
        /\ disturbed' = IF Pending(r, m) THEN disturbed \cup {m} ELSE disturbed
        /\ silent' = IF req[r].rest THEN silent \cup {m} ELSE silent
        /\ Goto(r, "editPublish")
        /\ UNCHANGED <<now, receipt, lastReadAt, jobs, events,
                       acked, opened, refused, overtaken>>

\* A recipient that has the message shows the new text, on a tombstone too.
Display(m, t) == shown' = [shown EXCEPT ![m] = IF @ = Unseen THEN @ ELSE t]

\* message:edited and the ack.
EditPublish(r) ==
    /\ req[r].pc = "editPublish"
    /\ IF req[r].rest THEN UNCHANGED shown ELSE Display(req[r].m, req[r].text)
    /\ Finish(r)
    /\ UNCHANGED <<now, tables, announced, history>>

-----------------------------------------------------------------------------
(* Deleting: message:delete, or DELETE /messages/:id                       *)

\* findById and the checks; a message already deleted is answered as it is.
DeleteFind(r, u, m, rest) ==
    /\ Free(r)
    /\ m \in Stored
    /\ Sender(m) = u
    /\ req' = [req EXCEPT
          ![r].pc = IF row[m].state = "deleted" THEN "deletePublish" ELSE "deleteWrite",
          ![r].user = u, ![r].m = m, ![r].rest = rest]
    /\ UNCHANGED <<now, tables, events, history>>

\* Mutant: the ciphertext is blanked and not nulled.
DeleteWriteBlank(r) ==
    /\ req[r].pc = "deleteWrite"
    /\ row' = [row EXCEPT ![req[r].m].state = "deleted", ![req[r].m].text = Unseen]
    /\ Goto(r, "deletePublish")
    /\ UNCHANGED <<now, receipt, lastReadAt, jobs, events, history>>

\* softDelete: by id, whatever the row has become.
DeleteWrite(r) ==
    LET m == req[r].m
    IN  /\ req[r].pc = "deleteWrite"
        /\ row' = [row EXCEPT ![m].state = "deleted", ![m].text = NoText]
        /\ overtaken' = IF \E q \in Requests : req[q].pc = "editWrite" /\ req[q].m = m
                        THEN overtaken \cup {m} ELSE overtaken
        /\ disturbed' = IF Pending(r, m) THEN disturbed \cup {m} ELSE disturbed
        /\ silent' = IF req[r].rest THEN silent \cup {m} ELSE silent
        /\ Goto(r, "deletePublish")
        /\ UNCHANGED <<now, receipt, lastReadAt, jobs, events, acked, opened, refused>>

\* message:deleted and the ack.
DeletePublish(r) ==
    /\ req[r].pc = "deletePublish"
    /\ IF req[r].rest THEN UNCHANGED shown ELSE Display(req[r].m, NoText)
    /\ Finish(r)
    /\ UNCHANGED <<now, tables, announced, history>>

-----------------------------------------------------------------------------
(* Receipts: message:delivered and message:read                            *)

\* updateStatus: an upsert that looks at no previous status.
Deliver(m, u) ==
    /\ m \in Stored /\ Recipient(m, u)
    /\ receipt' = [receipt EXCEPT ![m][u].status = "DELIVERED"]
    /\ UNCHANGED <<now, row, lastReadAt, jobs, events, history, req>>

\* batchMarkRead: one transaction of upserts; it fails as a whole if a message
\* does not exist.  The client reports messages of the conversation it shows.
ReadBatch(r, u, v, ids) ==
    /\ Free(r)
    /\ ids # {}
    /\ \A m \in ids : m \in Stored /\ Conv(m) = v /\ Recipient(m, u)
    /\ receipt' = [m \in Msgs |-> IF m \in ids
          THEN [receipt[m] EXCEPT ![u] = [status |-> "READ", readAt |-> TRUE]]
          ELSE receipt[m]]
    /\ opened' = [opened EXCEPT ![u] = @ \cup {v}]
    /\ req' = [req EXCEPT ![r].pc = "reset", ![r].user = u, ![r].ids = ids,
                          ![r].at = now]
    /\ UNCHANGED <<now, row, lastReadAt, jobs, events,
                   acked, refused, overtaken, disturbed, silent>>

\* resetUnreadCount: the handler passes no conversationId, and a where clause
\* whose conversationId is undefined matches every conversation of the user.
ReadReset(r) ==
    /\ req[r].pc = "reset"
    /\ lastReadAt' = [lastReadAt EXCEPT ![req[r].user] =
          [v \in Convs |-> IF req[r].user \in Members[v] THEN req[r].at ELSE @[v]]]
    /\ Finish(r)
    /\ UNCHANGED <<now, row, receipt, jobs, events, history>>

-----------------------------------------------------------------------------
\* An awaited call rejects, or the instance stops: the request ends here, and
\* what it wrote stays written.
Abort(r) ==
    /\ ~Free(r)
    /\ disturbed' = IF req[r].pc \in Unpublished
                    THEN disturbed \cup {req[r].m} ELSE disturbed
    /\ Finish(r)
    /\ UNCHANGED <<now, tables, events, acked, opened, refused, overtaken, silent>>

Tick ==
    /\ now < MaxNow
    /\ now' = now + 1
    /\ UNCHANGED <<tables, events, history, req>>

Next ==
    \/ Tick
    \/ \E r \in Requests :
         \/ \E c \in ClientIds, t \in Texts, rest \in BOOLEAN : SendStart(r, c, t, rest)
         \/ SendFind(r)
         \/ SendCreate(r)
         \/ SendEnqueue(r)
         \/ SendPublish(r)
         \/ \E u \in Users, m \in Msgs, t \in Texts, rest \in BOOLEAN :
              EditFind(r, u, m, t, rest)
         \/ EditWrite(r)
         \/ EditPublish(r)
         \/ \E u \in Users, m \in Msgs, rest \in BOOLEAN : DeleteFind(r, u, m, rest)
         \/ DeleteWrite(r)
         \/ DeletePublish(r)
         \/ \E u \in Users, v \in Convs : \E ids \in SUBSET Stored : ReadBatch(r, u, v, ids)
         \/ ReadReset(r)
         \/ Abort(r)
    \/ \E m \in Msgs, u \in Users : Deliver(m, u)

Spec == Init /\ [][Next]_vars

-----------------------------------------------------------------------------
TypeOK ==
    /\ now \in 0..MaxNow
    /\ row \in [Msgs -> [state : {"none", "live", "deleted"},
                         cid : ClientIds \cup {Nobody}, text : Texts \cup {NoText},
                         ts : {Never} \cup 0..MaxNow,
                         editedAt : {Never} \cup 0..MaxNow]]
    /\ receipt \in [Msgs -> [Users ->
          [status : {"SENT", "DELIVERED", "READ"}, readAt : BOOLEAN]]]
    /\ lastReadAt \in [Users -> [Convs -> {Never} \cup 0..MaxNow]]
    /\ jobs \in [Msgs -> Nat]
    /\ acked \in [ClientIds -> SUBSET Msgs]
    /\ announced \in [Msgs -> 0..MaxAnnounced]
    /\ shown \in [Msgs -> Texts \cup {NoText, Unseen}]
    /\ opened \in [Users -> SUBSET Convs]
    /\ refused \subseteq ClientIds
    /\ overtaken \subseteq Msgs /\ disturbed \subseteq Msgs /\ silent \subseteq Msgs
    /\ req \in [Requests ->
          [pc : Pcs, user : Users \cup {Nobody}, rest : BOOLEAN,
           cid : ClientIds \cup {Nobody}, m : Msgs \cup {Nobody},
           text : Texts \cup {NoText}, at : {Never} \cup 0..MaxNow,
           ids : SUBSET Msgs]]

\* However the retries of a send interleave, over however many instances, one
\* clientMessageId gets at most one row, and every success ack names a row that
\* is stored and has this id: the lookup of sendMessage and the unique index
\* behind it.
OneMessagePerClientId ==
    /\ \A m, n \in Stored : row[n].cid = row[m].cid => n = m
    /\ \A c \in ClientIds : \A m \in acked[c] : m \in Stored /\ row[m].cid = c

\* A group message is enqueued for fan-out at most once and only once its row
\* exists, whatever is retried.
FanOutOncePerMessage ==
    \A m \in Msgs : jobs[m] # 0 => jobs[m] = 1 /\ m \in Stored

\* Together: however a composed message is retried, it is stored at most once,
\* acknowledged under the id of its row, and enqueued for fan-out at most once, after
\* the insert.  A job may be missing (AckedGroupSendIsQueued), and an announcement
\* repeated (AnnouncedOnce).
SendsHappenOnce == OneMessagePerClientId /\ FanOutOncePerMessage

\* No content event of the message is about to be broadcast.
Settled(m) == \A r \in Requests : req[r].m = m => req[r].pc \notin Unpublished

\* Once the events are out, what a connected recipient displays is what the row
\* holds, provided the events of the message did not overlap, none was cut off
\* by a failure and all of them came through the socket.
SettledViewIsRow ==
    \A m \in Msgs : /\ shown[m] # Unseen
                     /\ Settled(m)
                     /\ m \notin disturbed \cup overtaken \cup silent
                    => shown[m] = row[m].text

\* Deletion is final: no later write brings a deleted message back.
DeletionIsFinal ==
    [][\A m \in Msgs : row[m].state = "deleted" => row'[m].state = "deleted"]_vars

\* The row of a composed message, and the ciphertext it shows.
RowOf(c) ==
    IF \E m \in Stored : row[m].cid = c
    THEN CHOOSE m \in Stored : row[m].cid = c
    ELSE Nobody
TextOf(c) ==
    IF RowOf(c) # Nobody /\ row[RowOf(c)].state = "live"
    THEN row[RowOf(c)].text ELSE NoText
JobsOf(c) == IF RowOf(c) = Nobody THEN 0 ELSE jobs[RowOf(c)]

Log == INSTANCE MessageLog WITH
    id <- [c \in ClientIds |-> RowOf(c)],
    content <- [c \in ClientIds |-> TextOf(c)],
    told <- acked,
    queued <- [c \in ClientIds |-> JobsOf(c)]

\* All these calls, overlapping, retried and cut off anywhere, amount to a log in
\* which a message is composed once, edited until it is deleted, confirmed under its
\* one id and enqueued at most once.  An edit that passed its checks before a deletion and
\* writes after it is no step of the log: it writes under a tombstone.
ImplementsLog == Log!LogSpec

-----------------------------------------------------------------------------
(* What the documents say and the code does not do                         *)

\* The status of a message only advances, SENT to DELIVERED to READ.
Rank(status) == CASE status = "SENT" -> 0 [] status = "DELIVERED" -> 1
                  [] status = "READ" -> 2
StatusIsMonotonic ==
    [][\A m \in Msgs, u \in Users :
          Rank(receipt[m][u].status) <= Rank(receipt'[m][u].status)]_vars

\* A deleted message has no ciphertext.
TombstoneHasNoText ==
    \A m \in Msgs : row[m].state = "deleted" => row[m].text = NoText

\* A send that is already stored is answered with the stored message.
DuplicateIsNotRefused == refused = {}

\* One message is delivered to the conversation once.
AnnouncedOnce == \A m \in Msgs : announced[m] <= 1

\* A group message whose sender was acked has its fan-out job.
AckedGroupSendIsQueued ==
    \A c \in ClientIds : \A m \in acked[c] :
        Cardinality(Members[Target[c]]) >= FanOutThreshold => jobs[m] # 0

\* Participants see every edit and deletion, through whichever interface.
EveryChangeIsBroadcast ==
    \A m \in Msgs : /\ shown[m] # Unseen
                     /\ Settled(m)
                     /\ m \notin disturbed \cup overtaken
                    => shown[m] = row[m].text

\* A read report moves the read mark of the conversation it names only.
ReadMarksItsConversation ==
    \A u \in Users, v \in Convs : lastReadAt[u][v] # Never => v \in opened[u]
=============================================================================
