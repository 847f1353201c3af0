--------------------------- MODULE MessagesProofs ---------------------------
(***************************************************************************)
(* Proofs about Messages, for any number of messages, senders, retries and *)
(* requests in flight: type correctness, that a composed message is stored *)
(* and enqueued at most once, that a deletion is final, what a connected   *)
(* recipient displays once the events of a message are out (its row), and  *)
(* that all of it implements MessageLog.                                   *)
(***************************************************************************)
EXTENDS Messages, TLAPS

-----------------------------------------------------------------------------
(* The inductive invariant                                                 *)

\* Requests that hold the id of a stored message.
MessagePcs == {"enqueue", "sendPublish", "resendPublish", "editWrite",
               "editPublish", "deleteWrite", "deletePublish"}
ComposedPcs == {"dedup", "create", "enqueue", "sendPublish", "resendPublish"}

\* What the code between two awaits may rely on.
HandlerOK(r) ==
    /\ req[r].pc \in ComposedPcs => req[r].cid \in ClientIds
    /\ req[r].pc \in MessagePcs => req[r].m \in Stored
    /\ req[r].pc \in MessagePcs \cap ComposedPcs => row[req[r].m].cid = req[r].cid
    /\ req[r].pc = "reset" => req[r].user \in Users

\* Only the request that inserted a message enqueues its job, and has not yet.
JobOK(r) ==
    req[r].pc = "enqueue" =>
        /\ jobs[req[r].m] = 0
        /\ \A q \in Requests \ {r} : req[q].pc = "enqueue" => req[q].m # req[r].m

RowOK(m) ==
    /\ m \in Stored => row[m].cid \in ClientIds
    /\ m \notin Stored => jobs[m] = 0 /\ shown[m] = Unseen
    /\ jobs[m] \in {0, 1}
    /\ \A n \in Stored : m \in Stored /\ row[n].cid = row[m].cid => n = m
    /\ \A c \in ClientIds : m \in acked[c] => m \in Stored /\ row[m].cid = c

IInv ==
    /\ TypeOK
    /\ \A r \in Requests : HandlerOK(r) /\ JobOK(r)
    /\ \A m \in Msgs : RowOK(m)

\* No event of the message was overlapped, cut off or kept from the socket.
Clean(m) == m \notin disturbed \cup overtaken \cup silent

\* The text a pending broadcast will put on the screens.
Carried(r) == IF req[r].pc = "deletePublish" THEN NoText ELSE req[r].text

Correcting(r, m) ==
    /\ req[r].pc \in {"editPublish", "deletePublish"}
    /\ req[r].m = m
    /\ ~req[r].rest

\* Every pending broadcast carries the text of the row, and a display that is
\* behind the row has a broadcast coming.
ViewOK(m) ==
    Clean(m) =>
        /\ shown[m] # Unseen /\ shown[m] # row[m].text =>
              \E r \in Requests : Correcting(r, m)
        /\ \A r \in Requests : req[r].m = m /\ req[r].pc \in Unpublished
              => Carried(r) = row[m].text

\* A deleted message that no pending edit has overtaken is a tombstone.
TombstoneOK(m) ==
    row[m].state = "deleted" /\ m \notin overtaken =>
        /\ row[m].text = NoText
        /\ \A r \in Requests : req[r].m = m => req[r].pc # "editWrite"

VInv ==
    /\ IInv
    /\ \A m \in Msgs : ViewOK(m) /\ TombstoneOK(m)

-----------------------------------------------------------------------------
(* Types                                                                   *)

RequestStates ==
    [pc : Pcs, user : Users \cup {Nobody}, rest : BOOLEAN,
     cid : ClientIds \cup {Nobody}, m : Msgs \cup {Nobody},
     text : Texts \cup {NoText}, at : {Never} \cup 0..MaxNow, ids : SUBSET Msgs]
Rows == [state : {"none", "live", "deleted"}, cid : ClientIds \cup {Nobody},
         text : Texts \cup {NoText}, ts : {Never} \cup 0..MaxNow,
         editedAt : {Never} \cup 0..MaxNow]

\* The types of the slots and of the rows, by name.
LEMMA SlotType ==
    ASSUME TypeOK
    PROVE  /\ req \in [Requests -> RequestStates]
           /\ row \in [Msgs -> Rows]
           /\ now \in 0..MaxNow
BY DEF TypeOK, RequestStates, Rows

\* A free slot is typed.
LEMMA IdleType == Idle \in RequestStates /\ Idle.pc = "idle" /\ Idle.m = Nobody
BY DEF Idle, RequestStates, Pcs

\* A read report marks the messages it names as read.
LEMMA ReadBatchType ==
    ASSUME TypeOK, NEW r \in Requests, NEW u \in Users, NEW v \in Convs,
           NEW ids \in SUBSET Stored, ReadBatch(r, u, v, ids)
    PROVE  TypeOK'
<1>1. ids \in SUBSET Msgs
  BY DEF Stored
<1>2. req' \in [Requests -> RequestStates]
  <2>1. [req[r] EXCEPT !.pc = "reset", !.user = u, !.ids = ids, !.at = now]
           \in RequestStates
    BY ZenonT(60), <1>1, SlotType DEF RequestStates, Pcs
  <2>. QED  BY <2>1, SlotType DEF ReadBatch
<1>3. receipt' \in [Msgs -> [Users ->
         [status : {"SENT", "DELIVERED", "READ"}, readAt : BOOLEAN]]]
  <2>1. ASSUME NEW m \in Msgs
        PROVE  [receipt[m] EXCEPT ![u] = [status |-> "READ", readAt |-> TRUE]]
                  \in [Users -> [status : {"SENT", "DELIVERED", "READ"},
                                 readAt : BOOLEAN]]
    BY DEF TypeOK
  <2>. QED  BY <2>1 DEF ReadBatch, TypeOK
<1>4. opened' \in [Users -> SUBSET Convs]
  BY DEF ReadBatch, TypeOK
<1>. QED  BY <1>2, <1>3, <1>4 DEF ReadBatch, TypeOK, events, RequestStates

\* A write of the read marks keeps their type.
LEMMA ReadResetType ==
    ASSUME TypeOK, NEW r \in Requests, HandlerOK(r), ReadReset(r)
    PROVE  TypeOK'
<1>1. req' \in [Requests -> RequestStates]
  BY SlotType, IdleType DEF ReadReset, Finish
<1>2. req[r].user \in Users /\ req[r].at \in {Never} \cup 0..MaxNow
  BY SlotType DEF ReadReset, HandlerOK, RequestStates
<1>3. lastReadAt' \in [Users -> [Convs -> {Never} \cup 0..MaxNow]]
  BY <1>2 DEF ReadReset, TypeOK
<1>. QED
  BY <1>1, <1>3 DEF ReadReset, TypeOK, RequestStates, events, history

\* The steps of a send keep the types.
LEMMA SendType ==
    ASSUME TypeOK, NEW r \in Requests, HandlerOK(r),
           \/ \E c \in ClientIds, t \in Texts, rest \in BOOLEAN :
                 SendStart(r, c, t, rest)
           \/ SendFind(r) \/ SendCreate(r) \/ SendEnqueue(r) \/ SendPublish(r)
    PROVE  TypeOK'
<1>1. ASSUME NEW c \in ClientIds, NEW t \in Texts, NEW rest \in BOOLEAN,
             SendStart(r, c, t, rest)
      PROVE  TypeOK'
  <2>1. [req[r] EXCEPT !.pc = "dedup", !.user = Author[c], !.cid = c, !.text = t,
                       !.rest = rest] \in RequestStates
    BY ZenonT(60), SlotType, AuthorAssumption DEF RequestStates, Pcs
  <2>2. req' \in [Requests -> RequestStates]
    BY <1>1, <2>1, SlotType DEF SendStart
  <2>. QED
    BY <1>1, <2>2 DEF SendStart, TypeOK, RequestStates, tables, events, history
<1>2. CASE SendFind(r)
  <2>1. ASSUME NEW m \in Stored
        PROVE  [req[r] EXCEPT !.pc = "resendPublish", !.m = m, !.text = row[m].text]
                  \in RequestStates
    BY ZenonT(60), SlotType DEF Stored, RequestStates, Pcs, Rows
  <2>2. [req[r] EXCEPT !.pc = "create", !.at = now] \in RequestStates
    BY SlotType DEF RequestStates, Pcs
  <2>3. req' \in [Requests -> RequestStates]
    BY <1>2, <2>1, <2>2, SlotType DEF SendFind
  <2>. QED
    BY <1>2, <2>3 DEF SendFind, TypeOK, RequestStates, tables, events, history
<1>3. CASE SendCreate(r)
  <2>1. req[r].cid \in ClientIds
    BY <1>3 DEF SendCreate, HandlerOK, ComposedPcs
  <2>2. ASSUME NEW m \in Msgs \ Stored, NEW pc \in {"enqueue", "sendPublish"},
               row' = [row EXCEPT ![m] =
                   [state |-> "live", cid |-> req[r].cid, text |-> req[r].text,
                    ts |-> req[r].at, editedAt |-> Never]],
               req' = [req EXCEPT ![r].pc = pc, ![r].m = m]
        PROVE  row' \in [Msgs -> Rows] /\ req' \in [Requests -> RequestStates]
    <3>1. [state |-> "live", cid |-> req[r].cid, text |-> req[r].text,
           ts |-> req[r].at, editedAt |-> Never] \in Rows
      BY <2>1, SlotType DEF RequestStates, Rows
    <3>2. [req[r] EXCEPT !.pc = pc, !.m = m] \in RequestStates
      BY ZenonT(60), SlotType DEF RequestStates, Pcs
    <3>. QED  BY <2>2, <3>1, <3>2, SlotType
  <2>3. ASSUME Finish(r), row' = row
        PROVE  row' \in [Msgs -> Rows] /\ req' \in [Requests -> RequestStates]
    BY <2>3, SlotType, IdleType DEF Finish
  <2>4. row' \in [Msgs -> Rows] /\ req' \in [Requests -> RequestStates]
    BY <1>3, <2>2, <2>3 DEF SendCreate
  <2>5. refused' \subseteq ClientIds
    BY <1>3, <2>1 DEF SendCreate, TypeOK
  <2>. QED
    BY <1>3, <2>4, <2>5 DEF SendCreate, TypeOK, RequestStates, Rows, events
<1>4. CASE SendEnqueue(r)
  <2>1. req' \in [Requests -> RequestStates]
    BY <1>4, SlotType DEF SendEnqueue, Goto, RequestStates, Pcs
  <2>2. jobs' \in [Msgs -> Nat]
    <3>1. jobs \in [Msgs -> Nat] /\ req[r].m \in Msgs
      BY <1>4 DEF SendEnqueue, HandlerOK, MessagePcs, Stored, TypeOK
    <3>2. jobs[req[r].m] + 1 \in Nat
      BY <3>1
    <3>. QED  BY <1>4, <3>1, <3>2 DEF SendEnqueue
  <2>. QED
    BY <1>4, <2>1, <2>2 DEF SendEnqueue, TypeOK, RequestStates, events, history
<1>5. CASE SendPublish(r)
  <2>1. /\ req[r].m \in Msgs /\ req[r].cid \in ClientIds
        /\ req[r].text \in Texts \cup {NoText}
    BY <1>5, SlotType DEF SendPublish, HandlerOK, MessagePcs, ComposedPcs, Stored,
       RequestStates
  <2>2. acked' \in [ClientIds -> SUBSET Msgs]
    BY <1>5, <2>1 DEF SendPublish, TypeOK
  <2>3. /\ announced' \in [Msgs -> 0..MaxAnnounced]
        /\ shown' \in [Msgs -> Texts \cup {NoText, Unseen}]
    <3>1. /\ announced \in [Msgs -> 0..MaxAnnounced]
          /\ shown \in [Msgs -> Texts \cup {NoText, Unseen}]
      BY DEF TypeOK
    <3>2. CASE UNCHANGED events
      BY <3>1, <3>2 DEF events
    <3>3. CASE Announce(req[r].m, req[r].text)
      <4>1. (IF announced[req[r].m] < MaxAnnounced THEN announced[req[r].m] + 1
             ELSE announced[req[r].m]) \in 0..MaxAnnounced
        BY <2>1, <3>1 DEF MaxAnnounced
      <4>2. announced' \in [Msgs -> 0..MaxAnnounced]
        BY <3>1, <3>3, <4>1 DEF Announce
      <4>3. shown' \in [Msgs -> Texts \cup {NoText, Unseen}]
        BY <2>1, <3>1, <3>3 DEF Announce
      <4>. QED  BY <4>2, <4>3
    <3>. QED  BY <1>5, <3>2, <3>3 DEF SendPublish
  <2>4. req' \in [Requests -> RequestStates]
    BY <1>5, SlotType, IdleType DEF SendPublish, Finish
  <2>. QED
    BY <1>5, <2>2, <2>3, <2>4 DEF SendPublish, TypeOK, RequestStates, tables
<1>. QED  BY <1>1, <1>2, <1>3, <1>4, <1>5

\* The steps of an edit and of a deletion keep the types.
LEMMA ChangeType ==
    ASSUME TypeOK, NEW r \in Requests, HandlerOK(r),
           \/ \E u \in Users, m \in Msgs, t \in Texts, rest \in BOOLEAN :
                 EditFind(r, u, m, t, rest)
           \/ EditWrite(r) \/ EditPublish(r)
           \/ \E u \in Users, m \in Msgs, rest \in BOOLEAN : DeleteFind(r, u, m, rest)
           \/ DeleteWrite(r) \/ DeletePublish(r)
    PROVE  TypeOK'
<1>a. req[r].pc \in MessagePcs => /\ req[r].m \in Msgs
                                  /\ row[req[r].m] \in Rows
  BY SlotType DEF HandlerOK, Stored
<1>b. req[r] \in RequestStates
  BY SlotType
<1>1. ASSUME NEW u \in Users, NEW m \in Msgs, NEW t \in Texts, NEW rest \in BOOLEAN,
             EditFind(r, u, m, t, rest)
      PROVE  TypeOK'
  <2>1. [req[r] EXCEPT !.pc = "editWrite", !.user = u, !.m = m, !.text = t,
                       !.at = now, !.rest = rest] \in RequestStates
    BY <1>b, SlotType DEF RequestStates, Pcs
  <2>2. req' \in [Requests -> RequestStates]
    BY <1>1, <2>1, SlotType DEF EditFind
  <2>. QED
    BY <1>1, <2>2 DEF EditFind, TypeOK, RequestStates, tables, events, history
<1>2. ASSUME NEW u \in Users, NEW m \in Msgs, NEW rest \in BOOLEAN,
             DeleteFind(r, u, m, rest)
      PROVE  TypeOK'
  <2>1. ASSUME NEW pc \in {"deletePublish", "deleteWrite"}
        PROVE  [req[r] EXCEPT !.pc = pc, !.user = u, !.m = m, !.rest = rest]
                  \in RequestStates
    BY <1>b DEF RequestStates, Pcs
  <2>2. req' \in [Requests -> RequestStates]
    BY <1>2, <2>1, SlotType DEF DeleteFind
  <2>. QED
    BY <1>2, <2>2 DEF DeleteFind, TypeOK, RequestStates, tables, events, history
<1>3. ASSUME EditWrite(r) \/ DeleteWrite(r)
      PROVE  TypeOK'
  <2>1. req[r].m \in Msgs /\ row[req[r].m] \in Rows
    BY <1>a, <1>3 DEF EditWrite, DeleteWrite, MessagePcs
  <2>2. /\ [row[req[r].m] EXCEPT !.text = req[r].text, !.editedAt = req[r].at] \in Rows
        /\ [row[req[r].m] EXCEPT !.state = "deleted", !.text = NoText] \in Rows
    BY <1>b, <2>1 DEF RequestStates, Rows
  <2>3. row' \in [Msgs -> Rows]
    BY <1>3, <2>1, <2>2, SlotType DEF EditWrite, DeleteWrite
  <2>4. req' \in [Requests -> RequestStates]
    BY <1>3, <1>b, SlotType DEF EditWrite, DeleteWrite, Goto, RequestStates, Pcs
  <2>5. /\ disturbed' \in SUBSET (disturbed \cup {req[r].m})
        /\ silent' \in SUBSET (silent \cup {req[r].m})
        /\ overtaken' \in SUBSET (overtaken \cup {req[r].m})
    BY <1>3 DEF EditWrite, DeleteWrite
  <2>6. UNCHANGED <<now, receipt, lastReadAt, jobs, events, acked, opened, refused>>
    BY <1>3 DEF EditWrite, DeleteWrite
  <2>. QED
    BY <2>1, <2>3, <2>4, <2>5, <2>6 DEF TypeOK, RequestStates, Rows, events
<1>4. ASSUME EditPublish(r) \/ DeletePublish(r)
      PROVE  TypeOK'
  <2>1. req[r].m \in Msgs /\ req[r].text \in Texts \cup {NoText}
    BY <1>a, <1>b, <1>4 DEF EditPublish, DeletePublish, MessagePcs, RequestStates
  <2>2. shown' \in [Msgs -> Texts \cup {NoText, Unseen}]
    BY <1>4, <2>1 DEF EditPublish, DeletePublish, Display, TypeOK
  <2>3. req' \in [Requests -> RequestStates]
    BY <1>4, SlotType, IdleType DEF EditPublish, DeletePublish, Finish
  <2>4. UNCHANGED <<now, tables, announced, history>>
    BY <1>4 DEF EditPublish, DeletePublish
  <2>. QED
    BY <2>2, <2>3, <2>4 DEF TypeOK, RequestStates, tables, history
<1>. QED  BY <1>1, <1>2, <1>3, <1>4

\* Every step keeps the types.
LEMMA TypeNext == IInv /\ [Next]_vars => TypeOK'
<1>. SUFFICES ASSUME IInv, [Next]_vars PROVE TypeOK'
  OBVIOUS
<1>a. TypeOK /\ \A r \in Requests : HandlerOK(r)
  BY DEF IInv
<1>1. CASE Tick
  <2>1. now' \in 0..MaxNow
    BY <1>1, <1>a, NumbersAssumption DEF Tick, TypeOK
  <2>. QED  BY <1>1, <1>a, <2>1 DEF Tick, TypeOK, tables, events, history
<1>2. ASSUME NEW m \in Msgs, NEW u \in Users, Deliver(m, u)
      PROVE  TypeOK'
  <2>1. receipt' \in [Msgs -> [Users ->
           [status : {"SENT", "DELIVERED", "READ"}, readAt : BOOLEAN]]]
    <3>1. receipt[m][u] \in [status : {"SENT", "DELIVERED", "READ"}, readAt : BOOLEAN]
      BY <1>a DEF TypeOK
    <3>2. [receipt[m] EXCEPT ![u].status = "DELIVERED"]
             \in [Users -> [status : {"SENT", "DELIVERED", "READ"}, readAt : BOOLEAN]]
      BY <1>a, <3>1 DEF TypeOK
    <3>. QED  BY <1>2, <1>a, <3>2 DEF Deliver, TypeOK
  <2>. QED  BY <1>2, <1>a, <2>1 DEF Deliver, TypeOK, events, history
<1>3. ASSUME NEW r \in Requests, Abort(r)
      PROVE  TypeOK'
  <2>1. req' \in [Requests -> RequestStates]
    BY <1>a, <1>3, SlotType, IdleType DEF Abort, Finish
  <2>2. disturbed' \subseteq Msgs
    <3>1. req[r].pc \in Unpublished => req[r].m \in Msgs
      BY <1>a DEF HandlerOK, Unpublished, MessagePcs, Stored
    <3>. QED  BY <1>a, <1>3, <3>1 DEF Abort, TypeOK
  <2>. QED
    BY <1>a, <1>3, <2>1, <2>2 DEF Abort, TypeOK, RequestStates, tables, events
<1>4. CASE UNCHANGED vars
  BY <1>a, <1>4 DEF vars, TypeOK, tables, events, history
<1>. QED
  BY <1>a, <1>1, <1>2, <1>3, <1>4, SendType, ChangeType, ReadBatchType, ReadResetType
     DEF Next

-----------------------------------------------------------------------------
(* A composed message is stored and enqueued at most once                  *)

\* What no step does: take a stored message away, or give it another author.
Grow == \A m \in Stored : m \in Stored' /\ row'[m].cid = row[m].cid

\* The initial state satisfies the invariant: no row, no request.
LEMMA IInvInit == Init => IInv
<1>. SUFFICES ASSUME Init PROVE IInv
  OBVIOUS
<1>1. TypeOK
  <2>1. NoRow \in Rows
    BY DEF NoRow, Rows
  <2>2. /\ row \in [Msgs -> Rows] /\ req \in [Requests -> RequestStates]
        /\ now \in 0..MaxNow
    BY <2>1, IdleType, NumbersAssumption DEF Init
  <2>3. /\ receipt \in [Msgs -> [Users ->
              [status : {"SENT", "DELIVERED", "READ"}, readAt : BOOLEAN]]]
        /\ lastReadAt \in [Users -> [Convs -> {Never} \cup 0..MaxNow]]
        /\ jobs \in [Msgs -> Nat] /\ acked \in [ClientIds -> SUBSET Msgs]
        /\ announced \in [Msgs -> 0..MaxAnnounced]
        /\ shown \in [Msgs -> Texts \cup {NoText, Unseen}]
        /\ opened \in [Users -> SUBSET Convs]
    BY DEF Init, MaxAnnounced
  <2>. QED  BY <2>2, <2>3 DEF Init, TypeOK, Rows, RequestStates
<1>2. \A r \in Requests : HandlerOK(r) /\ JobOK(r)
  BY IdleType DEF Init, HandlerOK, JobOK, ComposedPcs, MessagePcs
<1>3. \A m \in Msgs : RowOK(m)
  BY DEF Init, RowOK, Stored, NoRow
<1>. QED  BY <1>1, <1>2, <1>3 DEF IInv

\* The steps of a request that read and check, and change only its slot.
Looks(r) ==
    \/ \E c \in ClientIds, t \in Texts, rest \in BOOLEAN : SendStart(r, c, t, rest)
    \/ SendFind(r)
    \/ \E u \in Users, m \in Msgs, t \in Texts, rest \in BOOLEAN :
          EditFind(r, u, m, t, rest)
    \/ \E u \in Users, m \in Msgs, rest \in BOOLEAN : DeleteFind(r, u, m, rest)

\* They leave the tables, the screens and the histories as they are.
LEMMA LooksChangeNothing ==
    ASSUME NEW r \in Requests, Looks(r)
    PROVE  UNCHANGED <<tables, events, history>>
<1>1. ASSUME NEW c, NEW t, NEW rest, SendStart(r, c, t, rest)
      PROVE  UNCHANGED <<tables, events, history>>
  BY <1>1 DEF SendStart
<1>2. CASE SendFind(r)
  BY <1>2 DEF SendFind
<1>3. ASSUME NEW u, NEW m, NEW t, NEW rest, EditFind(r, u, m, t, rest)
      PROVE  UNCHANGED <<tables, events, history>>
  BY <1>3 DEF EditFind
<1>4. ASSUME NEW u, NEW m, NEW rest, DeleteFind(r, u, m, rest)
      PROVE  UNCHANGED <<tables, events, history>>
  BY <1>4 DEF DeleteFind
<1>. QED  BY <1>1, <1>2, <1>3, <1>4 DEF Looks

\* The steps of a request that report or set read marks.
Reads(r) ==
    \/ \E u \in Users, v \in Convs : \E ids \in SUBSET Stored : ReadBatch(r, u, v, ids)
    \/ ReadReset(r)

\* They leave the messages, their jobs, acks and screens as they are.
LEMMA ReadsKeepMessages ==
    ASSUME NEW r \in Requests, Reads(r)
    PROVE  UNCHANGED <<row, jobs, events, acked, refused, overtaken, disturbed, silent>>
<1>1. ASSUME NEW u, NEW v, NEW ids, ReadBatch(r, u, v, ids)
      PROVE  UNCHANGED <<row, jobs, events, acked, refused, overtaken, disturbed, silent>>
  BY <1>1 DEF ReadBatch
<1>2. CASE ReadReset(r)
  BY <1>2 DEF ReadReset, history
<1>. QED  BY <1>1, <1>2 DEF Reads

\* The next-state relation, by what its steps do.
LEMMA NextCases ==
    ASSUME [Next]_vars
    PROVE  \/ \E r \in Requests :
                 \/ Looks(r) \/ Reads(r) \/ Abort(r)
                 \/ SendCreate(r) \/ SendEnqueue(r) \/ SendPublish(r)
                 \/ EditWrite(r) \/ EditPublish(r)
                 \/ DeleteWrite(r) \/ DeletePublish(r)
           \/ Tick
           \/ \E m \in Msgs, u \in Users : Deliver(m, u)
           \/ UNCHANGED vars
BY Zenon DEF Next, Looks, Reads

\* Rows are written by the insert, the edit and the deletion only.
LEMMA RowWriters ==
    ASSUME [Next]_vars
    PROVE  row' = row \/ \E r \in Requests : SendCreate(r) \/ EditWrite(r) \/ DeleteWrite(r)
<1>1. ASSUME NEW r \in Requests, Looks(r) \/ Reads(r) PROVE row' = row
  BY <1>1, LooksChangeNothing, ReadsKeepMessages DEF tables
<1>2. ASSUME NEW r \in Requests,
             Abort(r) \/ SendEnqueue(r) \/ SendPublish(r) \/ EditPublish(r)
             \/ DeletePublish(r)
      PROVE  row' = row
  BY <1>2 DEF Abort, SendEnqueue, SendPublish, EditPublish, DeletePublish, tables
<1>3. ASSUME NEW m, NEW u, Deliver(m, u) PROVE row' = row
  BY <1>3 DEF Deliver
<1>4. CASE Tick \/ UNCHANGED vars
  BY <1>4 DEF Tick, vars, tables
<1>. QED  BY <1>1, <1>2, <1>3, <1>4, NextCases

\* Every write of a row keeps its message and author.
LEMMA GrowNext == IInv /\ [Next]_vars => Grow
<1>. SUFFICES ASSUME IInv, [Next]_vars PROVE Grow
  OBVIOUS
<1>a. row \in [Msgs -> Rows] /\ req \in [Requests -> RequestStates]
  BY SlotType DEF IInv
<1>1. ASSUME row' = row PROVE Grow
  BY <1>1 DEF Grow, Stored
<1>2. ASSUME NEW r \in Requests, SendCreate(r)
      PROVE  Grow
  <2>1. ASSUME NEW m \in Msgs \ Stored, NEW new, row' = [row EXCEPT ![m] = new]
        PROVE  Grow
    BY <1>a, <2>1 DEF Grow, Stored
  <2>. QED  BY <1>1, <1>2, <2>1 DEF SendCreate
<1>3. ASSUME NEW r \in Requests, EditWrite(r) \/ DeleteWrite(r)
      PROVE  Grow
  <2>1. ASSUME NEW m \in Msgs
        PROVE  /\ row'[m].cid = row[m].cid
               /\ row[m].state # "none" => row'[m].state # "none"
    <3>1. row[m] \in Rows
      BY <1>a
    <3>2. CASE EditWrite(r)
      BY <1>a, <3>1, <3>2 DEF EditWrite, Rows
    <3>3. CASE DeleteWrite(r)
      BY <1>a, <3>1, <3>3 DEF DeleteWrite, Rows
    <3>. QED  BY <1>3, <3>2, <3>3
  <2>. QED  BY <2>1 DEF Grow, Stored
<1>. QED  BY <1>1, <1>2, <1>3, RowWriters

\* Every step keeps what each request relies on.
LEMMA HandlersNext == IInv /\ [Next]_vars => \A q \in Requests : HandlerOK(q)'
<1>. SUFFICES ASSUME IInv, [Next]_vars PROVE \A q \in Requests : HandlerOK(q)'
  OBVIOUS
<1>a. /\ row \in [Msgs -> Rows] /\ req \in [Requests -> RequestStates]
      /\ Grow /\ \A q \in Requests : HandlerOK(q)
  BY SlotType, GrowNext DEF IInv
<1>b. ASSUME NEW q \in Requests, req'[q] = req[q]
      PROVE  HandlerOK(q)'
  BY <1>a, <1>b DEF HandlerOK, Grow
\* A request that goes on with the same message and composition.
<1>d. ASSUME NEW r \in Requests, NEW pc, Goto(r, pc),
             pc \in ComposedPcs => req[r].pc \in ComposedPcs,
             pc \in MessagePcs => req[r].pc \in MessagePcs,
             pc # "reset"
      PROVE  \A q \in Requests : HandlerOK(q)'
  <2>1. /\ req'[r].pc = pc /\ req'[r].cid = req[r].cid /\ req'[r].m = req[r].m
        /\ \A q \in Requests \ {r} : req'[q] = req[q]
    BY <1>a, <1>d DEF Goto, RequestStates
  <2>2. HandlerOK(r)'
    BY <1>a, <1>d, <2>1 DEF HandlerOK, Grow
  <2>. QED  BY <1>b, <2>1, <2>2
<1>e. ASSUME NEW r \in Requests, Finish(r)
      PROVE  \A q \in Requests : HandlerOK(q)'
  <2>1. req'[r] = Idle /\ \A q \in Requests \ {r} : req'[q] = req[q]
    BY <1>a, <1>e DEF Finish
  <2>2. HandlerOK(r)'
    BY <2>1, IdleType DEF HandlerOK, ComposedPcs, MessagePcs
  <2>. QED  BY <1>b, <2>1, <2>2
<1>1. ASSUME NEW r \in Requests, NEW c \in ClientIds, NEW t \in Texts,
             NEW rest \in BOOLEAN, SendStart(r, c, t, rest)
      PROVE  \A q \in Requests : HandlerOK(q)'
  <2>1. /\ req'[r].pc = "dedup" /\ req'[r].cid = c
        /\ \A q \in Requests \ {r} : req'[q] = req[q]
    BY <1>a, <1>1 DEF SendStart, RequestStates
  <2>2. HandlerOK(r)'
    BY <2>1 DEF HandlerOK, ComposedPcs, MessagePcs
  <2>. QED  BY <1>b, <2>1, <2>2
<1>2. ASSUME NEW r \in Requests, SendFind(r)
      PROVE  \A q \in Requests : HandlerOK(q)'
  <2>0. req[r].cid \in ClientIds
    BY <1>a, <1>2 DEF SendFind, HandlerOK, ComposedPcs
  <2>1. CASE \E m \in Stored : /\ row[m].cid = req[r].cid
                               /\ req' = [req EXCEPT ![r].pc = "resendPublish",
                                             ![r].m = m, ![r].text = row[m].text]
    <3>1. PICK m \in Stored : /\ row[m].cid = req[r].cid
                              /\ req' = [req EXCEPT ![r].pc = "resendPublish",
                                             ![r].m = m, ![r].text = row[m].text]
      BY <2>1
    <3>2. /\ req'[r].pc = "resendPublish" /\ req'[r].cid = req[r].cid
          /\ req'[r].m = m
          /\ \A q \in Requests \ {r} : req'[q] = req[q]
      BY <1>a, <3>1 DEF RequestStates
    <3>3. HandlerOK(r)'
      BY <1>a, <2>0, <3>1, <3>2 DEF HandlerOK, Grow
    <3>. QED  BY <1>b, <3>2, <3>3
  <2>2. CASE req' = [req EXCEPT ![r].pc = "create", ![r].at = now]
    <3>1. /\ req'[r].pc = "create" /\ req'[r].cid = req[r].cid
          /\ \A q \in Requests \ {r} : req'[q] = req[q]
      BY <1>a, <2>2 DEF RequestStates
    <3>2. HandlerOK(r)'
      BY <2>0, <3>1 DEF HandlerOK, MessagePcs
    <3>. QED  BY <1>b, <3>1, <3>2
  <2>. QED  BY <1>2, <2>1, <2>2 DEF SendFind
<1>3. ASSUME NEW r \in Requests, SendCreate(r)
      PROVE  \A q \in Requests : HandlerOK(q)'
  <2>0. req[r].cid \in ClientIds
    BY <1>a, <1>3 DEF SendCreate, HandlerOK, ComposedPcs
  <2>1. ASSUME NEW m \in Msgs \ Stored, NEW pc \in {"enqueue", "sendPublish"},
               row' = [row EXCEPT ![m] =
                   [state |-> "live", cid |-> req[r].cid, text |-> req[r].text,
                    ts |-> req[r].at, editedAt |-> Never]],
               req' = [req EXCEPT ![r].pc = pc, ![r].m = m]
        PROVE  \A q \in Requests : HandlerOK(q)'
    <3>1. /\ req'[r].pc = pc /\ req'[r].cid = req[r].cid /\ req'[r].m = m
          /\ \A q \in Requests \ {r} : req'[q] = req[q]
      BY <1>a, <2>1 DEF RequestStates
    <3>2. m \in Stored' /\ row'[m].cid = req[r].cid
      BY <1>a, <2>1 DEF Stored
    <3>3. HandlerOK(r)'
      BY <2>0, <3>1, <3>2 DEF HandlerOK
    <3>. QED  BY <1>b, <3>1, <3>3
  <2>. QED  BY <1>3, <1>e, <2>1 DEF SendCreate
<1>4. ASSUME NEW r \in Requests, SendEnqueue(r) \/ EditWrite(r) \/ DeleteWrite(r)
      PROVE  \A q \in Requests : HandlerOK(q)'
  BY <1>4, <1>d DEF SendEnqueue, EditWrite, DeleteWrite, ComposedPcs, MessagePcs
<1>5. ASSUME NEW r \in Requests,
             SendPublish(r) \/ EditPublish(r) \/ DeletePublish(r) \/ ReadReset(r)
             \/ Abort(r)
      PROVE  \A q \in Requests : HandlerOK(q)'
  BY <1>5, <1>e DEF SendPublish, EditPublish, DeletePublish, ReadReset, Abort
<1>6. ASSUME NEW r \in Requests, NEW u \in Users, NEW m \in Msgs, NEW rest \in BOOLEAN,
             (\E t \in Texts : EditFind(r, u, m, t, rest)) \/ DeleteFind(r, u, m, rest)
      PROVE  \A q \in Requests : HandlerOK(q)'
  <2>1. /\ req'[r].pc \in {"editWrite", "deleteWrite", "deletePublish"}
        /\ req'[r].m = m
        /\ \A q \in Requests \ {r} : req'[q] = req[q]
    <3>1. CASE \E t \in Texts : EditFind(r, u, m, t, rest)
      BY <1>a, <3>1 DEF EditFind, RequestStates
    <3>2. CASE DeleteFind(r, u, m, rest)
      BY <1>a, <3>2 DEF DeleteFind, RequestStates
    <3>. QED  BY <1>6, <3>1, <3>2
  <2>2. m \in Stored
    BY <1>6 DEF EditFind, DeleteFind, Stored
  <2>3. HandlerOK(r)'
    BY <1>a, <2>1, <2>2 DEF HandlerOK, Grow, ComposedPcs, MessagePcs
  <2>. QED  BY <1>b, <2>1, <2>3
<1>7. ASSUME NEW r \in Requests, NEW u \in Users, NEW v \in Convs,
             NEW ids \in SUBSET Stored, ReadBatch(r, u, v, ids)
      PROVE  \A q \in Requests : HandlerOK(q)'
  <2>1. /\ req'[r].pc = "reset" /\ req'[r].user = u
        /\ \A q \in Requests \ {r} : req'[q] = req[q]
    BY <1>a, <1>7 DEF ReadBatch, RequestStates
  <2>2. HandlerOK(r)'
    BY <2>1 DEF HandlerOK, ComposedPcs, MessagePcs
  <2>. QED  BY <1>b, <2>1, <2>2
<1>8. CASE Tick \/ UNCHANGED vars \/ \E m \in Msgs, u \in Users : Deliver(m, u)
  BY <1>b, <1>8 DEF Tick, vars, Deliver
<1>. QED
  BY <1>1, <1>2, <1>3, <1>4, <1>5, <1>6, <1>7, <1>8 DEF Next

\* Every step keeps that only the request that inserted a message enqueues it.
LEMMA JobsNext == IInv /\ [Next]_vars => \A q \in Requests : JobOK(q)'
<1>. SUFFICES ASSUME IInv, [Next]_vars PROVE \A q \in Requests : JobOK(q)'
  OBVIOUS
<1>a. /\ row \in [Msgs -> Rows] /\ req \in [Requests -> RequestStates]
      /\ jobs \in [Msgs -> Nat]
      /\ \A q \in Requests : HandlerOK(q) /\ JobOK(q)
      /\ \A m \in Msgs : RowOK(m)
  BY SlotType DEF IInv, TypeOK
<1>b. ASSUME NEW r \in Requests, jobs' = jobs, req'[r].pc # "enqueue",
             \A q \in Requests \ {r} : req'[q] = req[q]
      PROVE  \A q \in Requests : JobOK(q)'
  BY <1>a, <1>b DEF JobOK
<1>1. ASSUME NEW r \in Requests, SendCreate(r)
      PROVE  \A q \in Requests : JobOK(q)'
  <2>1. ASSUME NEW m \in Msgs \ Stored, NEW pc \in {"enqueue", "sendPublish"},
               req' = [req EXCEPT ![r].pc = pc, ![r].m = m]
        PROVE  \A q \in Requests : JobOK(q)'
    <3>1. /\ req'[r].pc = pc /\ req'[r].m = m
          /\ \A q \in Requests \ {r} : req'[q] = req[q]
          /\ jobs' = jobs
      BY <1>a, <1>1, <2>1 DEF SendCreate, RequestStates
    <3>2. jobs[m] = 0
      BY <1>a DEF RowOK
    <3>3. \A q \in Requests \ {r} : req[q].pc = "enqueue" => req[q].m # m
      BY <1>a, <2>1 DEF HandlerOK, MessagePcs
    <3>4. JobOK(r)'
      BY <3>1, <3>2, <3>3 DEF JobOK
    <3>5. ASSUME NEW q \in Requests \ {r} PROVE JobOK(q)'
      BY <1>a, <3>1, <3>3 DEF JobOK
    <3>. QED  BY <3>4, <3>5
  <2>2. ASSUME Finish(r)
        PROVE  \A q \in Requests : JobOK(q)'
    BY <1>a, <1>b, <1>1, <2>2, IdleType DEF SendCreate, Finish
  <2>. QED  BY <1>1, <2>1, <2>2 DEF SendCreate
<1>2. ASSUME NEW r \in Requests, SendEnqueue(r)
      PROVE  \A q \in Requests : JobOK(q)'
  <2>1. /\ req'[r].pc = "sendPublish"
        /\ \A q \in Requests \ {r} : req'[q] = req[q]
        /\ \A m \in Msgs \ {req[r].m} : jobs'[m] = jobs[m]
    BY <1>a, <1>2 DEF SendEnqueue, Goto, RequestStates
  <2>2. ASSUME NEW q \in Requests \ {r} PROVE JobOK(q)'
    <3>1. req[q].pc = "enqueue" => req[q].m # req[r].m /\ req[q].m \in Msgs
      BY <1>a, <1>2 DEF SendEnqueue, JobOK, HandlerOK, MessagePcs, Stored
    <3>. QED  BY <1>a, <2>1, <3>1 DEF JobOK
  <2>3. JobOK(r)'
    BY <2>1 DEF JobOK
  <2>. QED  BY <2>2, <2>3
<1>3. ASSUME NEW r \in Requests,
             SendPublish(r) \/ EditPublish(r) \/ DeletePublish(r) \/ Abort(r)
      PROVE  \A q \in Requests : JobOK(q)'
  <2>1. jobs' = jobs /\ Finish(r)
    BY <1>3 DEF SendPublish, EditPublish, DeletePublish, Abort, tables
  <2>. QED  BY <1>a, <1>b, <2>1, IdleType DEF Finish
<1>4. ASSUME NEW r \in Requests, Looks(r)
      PROVE  \A q \in Requests : JobOK(q)'
  <2>1. jobs' = jobs
    BY <1>4, LooksChangeNothing DEF tables
  <2>2. req'[r].pc # "enqueue" /\ \A q \in Requests \ {r} : req'[q] = req[q]
    <3>1. ASSUME NEW c, NEW t, NEW rest, SendStart(r, c, t, rest)
          PROVE  req'[r].pc = "dedup" /\ \A q \in Requests \ {r} : req'[q] = req[q]
      BY <1>a, <3>1 DEF SendStart, RequestStates
    <3>2. CASE SendFind(r)
      BY ZenonT(60), <1>a, <3>2 DEF SendFind, RequestStates
    <3>3. ASSUME NEW u, NEW m, NEW t, NEW rest, EditFind(r, u, m, t, rest)
          PROVE  req'[r].pc = "editWrite" /\ \A q \in Requests \ {r} : req'[q] = req[q]
      BY <1>a, <3>3 DEF EditFind, RequestStates
    <3>4. ASSUME NEW u, NEW m, NEW rest, DeleteFind(r, u, m, rest)
          PROVE  /\ req'[r].pc \in {"deleteWrite", "deletePublish"}
                 /\ \A q \in Requests \ {r} : req'[q] = req[q]
      BY <1>a, <3>4 DEF DeleteFind, RequestStates
    <3>. QED  BY <1>4, <3>1, <3>2, <3>3, <3>4 DEF Looks
  <2>. QED  BY <1>b, <2>1, <2>2
<1>4b. ASSUME NEW r \in Requests, EditWrite(r) \/ DeleteWrite(r)
       PROVE  \A q \in Requests : JobOK(q)'
  <2>1. /\ jobs' = jobs /\ req'[r].pc # "enqueue"
        /\ \A q \in Requests \ {r} : req'[q] = req[q]
    BY <1>a, <1>4b DEF EditWrite, DeleteWrite, Goto, RequestStates
  <2>. QED  BY <1>b, <2>1
<1>4c. ASSUME NEW r \in Requests, Reads(r)
       PROVE  \A q \in Requests : JobOK(q)'
  <2>1. jobs' = jobs
    BY <1>4c, ReadsKeepMessages
  <2>2. ASSUME NEW u, NEW v, NEW ids, ReadBatch(r, u, v, ids)
        PROVE  req'[r].pc = "reset" /\ \A q \in Requests \ {r} : req'[q] = req[q]
    BY <1>a, <2>2 DEF ReadBatch, RequestStates
  <2>3. CASE ReadReset(r)
    BY <1>a, <1>b, <2>1, <2>3, IdleType DEF ReadReset, Finish
  <2>. QED  BY <1>4c, <1>b, <2>1, <2>2, <2>3 DEF Reads
<1>5. CASE Tick \/ UNCHANGED vars \/ \E m \in Msgs, u \in Users : Deliver(m, u)
  <2>1. req' = req /\ jobs' = jobs
    BY <1>5 DEF Tick, vars, tables, Deliver
  <2>. QED  BY <1>a, <2>1 DEF JobOK
<1>. QED  BY <1>1, <1>2, <1>3, <1>4, <1>4b, <1>4c, <1>5, NextCases

\* Every step keeps that a clientMessageId has one row, and that acks name it.
LEMMA RowsNext == IInv /\ [Next]_vars => \A m \in Msgs : RowOK(m)'
<1>. SUFFICES ASSUME IInv, [Next]_vars, NEW m \in Msgs PROVE RowOK(m)'
  OBVIOUS
<1>a. /\ row \in [Msgs -> Rows] /\ req \in [Requests -> RequestStates]
      /\ Grow /\ jobs \in [Msgs -> Nat] /\ acked \in [ClientIds -> SUBSET Msgs]
      /\ shown \in [Msgs -> Texts \cup {NoText, Unseen}]
      /\ \A q \in Requests : HandlerOK(q) /\ JobOK(q)
      /\ \A n \in Msgs : RowOK(n)
  BY SlotType, GrowNext DEF IInv, TypeOK
\* Steps that insert no row.
<1>b. ASSUME \A n \in Msgs : /\ row'[n].cid = row[n].cid
                             /\ row'[n].state = "none" <=> row[n].state = "none",
             jobs'[m] \in {0, 1}, m \notin Stored => jobs'[m] = 0 /\ shown'[m] = Unseen,
             \A c \in ClientIds : m \in acked'[c] =>
                m \in acked[c] \/ (m \in Stored /\ row[m].cid = c)
      PROVE  RowOK(m)'
  <2>1. Stored' = Stored
    BY <1>b DEF Stored
  <2>. QED  BY <1>a, <1>b, <2>1 DEF RowOK, Stored
<1>c. ASSUME row' = row, jobs' = jobs, acked' = acked, shown' = shown
      PROVE  RowOK(m)'
  BY <1>a, <1>c DEF RowOK, Stored
<1>1. ASSUME NEW r \in Requests, SendCreate(r)
      PROVE  RowOK(m)'
  <2>1. UNCHANGED <<jobs, acked, shown>>
    BY <1>1 DEF SendCreate, events
  <2>2. ASSUME NEW n \in Msgs \ Stored, \A k \in Stored : row[k].cid # req[r].cid,
               row' = [row EXCEPT ![n] =
                   [state |-> "live", cid |-> req[r].cid, text |-> req[r].text,
                    ts |-> req[r].at, editedAt |-> Never]]
        PROVE  RowOK(m)'
    <3>1. /\ Stored' = Stored \cup {n}
          /\ row'[n].cid = req[r].cid
          /\ \A k \in Stored : row'[k] = row[k]
      BY <1>a, <2>2 DEF Stored
    <3>2. req[r].cid \in ClientIds
      BY <1>a, <1>1 DEF SendCreate, HandlerOK, ComposedPcs
    <3>. QED  BY <1>a, <2>1, <2>2, <3>1, <3>2 DEF RowOK
  <2>. QED  BY <1>1, <1>c, <2>1, <2>2 DEF SendCreate
<1>2. ASSUME NEW r \in Requests, SendEnqueue(r)
      PROVE  RowOK(m)'
  <2>1. /\ jobs[req[r].m] = 0 /\ req[r].m \in Stored
        /\ UNCHANGED <<row, acked, shown>>
    BY <1>a, <1>2 DEF SendEnqueue, JobOK, HandlerOK, MessagePcs, history, events
  <2>2. jobs'[m] = IF m = req[r].m THEN 1 ELSE jobs[m]
    BY <1>a, <1>2, <2>1 DEF SendEnqueue, Stored
  <2>. QED  BY <1>a, <1>b, <2>1, <2>2 DEF RowOK
<1>3. ASSUME NEW r \in Requests, SendPublish(r)
      PROVE  RowOK(m)'
  <2>1. /\ req[r].m \in Stored /\ row[req[r].m].cid = req[r].cid
        /\ req[r].cid \in ClientIds /\ UNCHANGED <<row, jobs>>
    BY <1>a, <1>3 DEF SendPublish, HandlerOK, MessagePcs, ComposedPcs, tables
  <2>2. \A c \in ClientIds : m \in acked'[c] =>
           m \in acked[c] \/ (m \in Stored /\ row[m].cid = c)
    BY <1>a, <1>3, <2>1 DEF SendPublish
  <2>3. m \notin Stored => shown'[m] = Unseen
    BY <1>a, <1>3, <2>1 DEF SendPublish, Announce, events, RowOK
  <2>. QED  BY <1>a, <1>b, <2>1, <2>2, <2>3 DEF RowOK
<1>4. ASSUME NEW r \in Requests, EditWrite(r) \/ DeleteWrite(r)
      PROVE  RowOK(m)'
  <2>1. UNCHANGED <<jobs, acked, shown>> /\ req[r].m \in Stored
    BY <1>a, <1>4 DEF EditWrite, DeleteWrite, events, HandlerOK, MessagePcs
  <2>2. ASSUME NEW n \in Msgs
        PROVE  /\ row'[n].cid = row[n].cid
               /\ row'[n].state = "none" <=> row[n].state = "none"
    <3>1. row[n] \in Rows
      BY <1>a
    <3>2. CASE EditWrite(r)
      BY <1>a, <3>1, <3>2 DEF EditWrite, Rows
    <3>3. CASE DeleteWrite(r)
      BY <1>a, <2>1, <3>1, <3>3 DEF DeleteWrite, Rows, Stored
    <3>. QED  BY <1>4, <3>2, <3>3
  <2>. QED  BY <1>a, <1>b, <2>1, <2>2 DEF RowOK
<1>5. ASSUME NEW r \in Requests, EditPublish(r) \/ DeletePublish(r)
      PROVE  RowOK(m)'
  <2>1. req[r].m \in Stored /\ UNCHANGED <<row, jobs, acked>>
    BY <1>a, <1>5 DEF EditPublish, DeletePublish, HandlerOK, MessagePcs, tables, history
  <2>2. m \notin Stored => shown'[m] = Unseen
    BY <1>a, <1>5, <2>1 DEF EditPublish, DeletePublish, Display, RowOK
  <2>. QED  BY <1>a, <1>b, <2>1, <2>2 DEF RowOK
<1>6. ASSUME NEW r \in Requests, Looks(r) \/ Reads(r) \/ Abort(r)
      PROVE  RowOK(m)'
  <2>1. CASE Looks(r)
    BY <1>c, <2>1, LooksChangeNothing DEF tables, events, history
  <2>2. CASE Reads(r)
    BY <1>c, <2>2, ReadsKeepMessages DEF events
  <2>3. CASE Abort(r)
    BY <1>c, <2>3 DEF Abort, tables, events
  <2>. QED  BY <1>6, <2>1, <2>2, <2>3
<1>7. ASSUME NEW n, NEW u, Deliver(n, u)
      PROVE  RowOK(m)'
  BY <1>c, <1>7 DEF Deliver, events, history
<1>8. CASE Tick \/ UNCHANGED vars
  BY <1>c, <1>8 DEF Tick, vars, tables, events, history
<1>. QED
  BY <1>1, <1>2, <1>3, <1>4, <1>5, <1>6, <1>7, <1>8, NextCases

\* Every reachable state satisfies the invariant.
LEMMA Invariance == Spec => []IInv
<1>1. IInv /\ [Next]_vars => IInv'
  BY TypeNext, HandlersNext, JobsNext, RowsNext DEF IInv
<1>. QED  BY IInvInit, <1>1, PTL DEF Spec

\* Every reachable state has its type.
THEOREM TypeCorrect == Spec => []TypeOK
<1>1. IInv => TypeOK
  BY DEF IInv
<1>. QED  BY Invariance, <1>1, PTL

\* However the retries of a send interleave, over any number of connections and
\* instances, the message gets at most one row and at most one fan-out job, and every
\* acknowledgement names its row.
THEOREM SendsHappenAtMostOnce == Spec => []SendsHappenOnce
<1>1. IInv => OneMessagePerClientId
  <2>. SUFFICES ASSUME IInv PROVE OneMessagePerClientId
    OBVIOUS
  <2>1. \A m, n \in Stored : row[n].cid = row[m].cid => n = m
    BY DEF IInv, RowOK, Stored
  <2>2. ASSUME NEW c \in ClientIds, NEW m \in acked[c]
        PROVE  m \in Stored /\ row[m].cid = c
    <3>1. m \in Msgs
      BY <2>2 DEF IInv, TypeOK
    <3>. QED  BY <2>2, <3>1 DEF IInv, RowOK
  <2>. QED  BY <2>1, <2>2 DEF OneMessagePerClientId
<1>2. IInv => FanOutOncePerMessage
  BY DEF IInv, RowOK, FanOutOncePerMessage
<1>3. IInv => SendsHappenOnce
  BY <1>1, <1>2 DEF SendsHappenOnce
<1>. QED  BY Invariance, <1>3, PTL

\* No write brings a deleted message back: not a retried send, whose insert takes
\* an unused row, and not an edit that was checked before the deletion.
THEOREM DeletedStaysDeleted == Spec => DeletionIsFinal
<1>1. IInv /\ [Next]_vars
         => [\A m \in Msgs : row[m].state = "deleted" => row'[m].state = "deleted"]_vars
  <2>. SUFFICES ASSUME IInv, [Next]_vars, NEW m \in Msgs, row[m].state = "deleted"
                PROVE  row'[m].state = "deleted"
    OBVIOUS
  <2>a. row \in [Msgs -> Rows]
    BY SlotType DEF IInv
  <2>1. CASE row' = row
    BY <2>1
  <2>2. ASSUME NEW r \in Requests, SendCreate(r)
        PROVE  row'[m].state = "deleted"
    BY <2>a, <2>2 DEF SendCreate, Stored
  <2>3. ASSUME NEW r \in Requests, EditWrite(r)
        PROVE  row'[m].state = "deleted"
    BY <2>a, <2>3 DEF EditWrite, Rows
  <2>4. ASSUME NEW r \in Requests, DeleteWrite(r)
        PROVE  row'[m].state = "deleted"
    BY <2>a, <2>4 DEF DeleteWrite, Rows
  <2>. QED  BY <2>1, <2>2, <2>3, <2>4, RowWriters
<1>. QED  BY Invariance, <1>1, PTL DEF Spec, DeletionIsFinal

-----------------------------------------------------------------------------
(* What a connected recipient displays                                     *)

\* The initial state satisfies the invariant of the view: nothing is displayed.
LEMMA VInvInit == Init => VInv
<1>. SUFFICES ASSUME Init PROVE VInv
  OBVIOUS
<1>1. \A m \in Msgs : ViewOK(m)
  BY IdleType DEF Init, ViewOK, Unpublished, Idle
<1>2. \A m \in Msgs : TombstoneOK(m)
  BY DEF Init, TombstoneOK, NoRow
<1>. QED  BY <1>1, <1>2, IInvInit DEF VInv

\* A message that was overlapped, cut off or changed through REST stays so.
LEMMA HistoryGrows ==
    ASSUME [Next]_vars
    PROVE  /\ disturbed \subseteq disturbed'
           /\ overtaken \subseteq overtaken'
           /\ silent \subseteq silent'
<1>1. ASSUME NEW r \in Requests, Looks(r) \/ Reads(r)
      PROVE  UNCHANGED <<disturbed, overtaken, silent>>
  BY <1>1, LooksChangeNothing, ReadsKeepMessages DEF history
<1>2. ASSUME NEW r \in Requests, EditWrite(r) \/ DeleteWrite(r) \/ Abort(r)
      PROVE  /\ disturbed \subseteq disturbed'
             /\ overtaken \subseteq overtaken'
             /\ silent \subseteq silent'
  BY <1>2 DEF EditWrite, DeleteWrite, Abort
<1>3. ASSUME NEW r \in Requests,
             SendCreate(r) \/ SendEnqueue(r) \/ SendPublish(r) \/ EditPublish(r)
             \/ DeletePublish(r)
      PROVE  UNCHANGED <<disturbed, overtaken, silent>>
  BY <1>3 DEF SendCreate, SendEnqueue, SendPublish, EditPublish, DeletePublish, history
<1>4. ASSUME NEW m, NEW u, Deliver(m, u)
      PROVE  UNCHANGED <<disturbed, overtaken, silent>>
  BY <1>4 DEF Deliver, history
<1>5. CASE Tick \/ UNCHANGED vars
  BY <1>5 DEF Tick, vars, history
<1>. QED  BY <1>1, <1>2, <1>3, <1>4, <1>5, NextCases

\* Every step keeps that a deleted message no edit overtook is a tombstone.
LEMMA TombstoneNext == VInv /\ [Next]_vars => \A m \in Msgs : TombstoneOK(m)'
<1>. SUFFICES ASSUME VInv, [Next]_vars, NEW m \in Msgs PROVE TombstoneOK(m)'
  OBVIOUS
<1>a. /\ row \in [Msgs -> Rows] /\ req \in [Requests -> RequestStates]
      /\ overtaken \subseteq overtaken'
      /\ TombstoneOK(m)
      /\ \A q \in Requests : HandlerOK(q)
  BY SlotType, HistoryGrows DEF VInv, IInv
<1>b. ASSUME row'[m].state = row[m].state, row'[m].text = row[m].text,
             \A q \in Requests : req'[q].m = m /\ req'[q].pc = "editWrite" =>
                \/ req[q].m = m /\ req[q].pc = "editWrite"
                \/ row[m].state # "deleted"
      PROVE  TombstoneOK(m)'
  BY <1>a, <1>b DEF TombstoneOK
<1>c. ASSUME NEW r \in Requests, Finish(r), row' = row
      PROVE  TombstoneOK(m)'
  BY <1>a, <1>b, <1>c, IdleType DEF Finish
<1>1. ASSUME NEW r \in Requests, Looks(r)
      PROVE  TombstoneOK(m)'
  <2>1. row' = row
    BY <1>1, LooksChangeNothing DEF tables
  <2>2. ASSUME NEW c, NEW t, NEW rest, SendStart(r, c, t, rest)
        PROVE  TombstoneOK(m)'
    BY <1>a, <1>b, <2>1, <2>2 DEF SendStart, RequestStates
  <2>3. CASE SendFind(r)
    BY ZenonT(60), <1>a, <1>b, <2>1, <2>3 DEF SendFind, RequestStates
  <2>4. ASSUME NEW u, NEW n, NEW t, NEW rest, EditFind(r, u, n, t, rest)
        PROVE  TombstoneOK(m)'
    BY <1>a, <1>b, <2>1, <2>4 DEF EditFind, RequestStates
  <2>5. ASSUME NEW u, NEW n, NEW rest, DeleteFind(r, u, n, rest)
        PROVE  TombstoneOK(m)'
    BY <1>a, <1>b, <2>1, <2>5 DEF DeleteFind, RequestStates
  <2>. QED  BY <1>1, <2>2, <2>3, <2>4, <2>5 DEF Looks
<1>2. ASSUME NEW r \in Requests, Reads(r)
      PROVE  TombstoneOK(m)'
  <2>1. row' = row
    BY <1>2, ReadsKeepMessages
  <2>2. ASSUME NEW u, NEW v, NEW ids, ReadBatch(r, u, v, ids)
        PROVE  TombstoneOK(m)'
    BY <1>a, <1>b, <2>1, <2>2 DEF ReadBatch, RequestStates
  <2>3. CASE ReadReset(r)
    BY <1>c, <2>1, <2>3 DEF ReadReset
  <2>. QED  BY <1>2, <2>2, <2>3 DEF Reads
<1>3. ASSUME NEW r \in Requests, SendCreate(r)
      PROVE  TombstoneOK(m)'
  <2>1. ASSUME NEW n \in Msgs \ Stored, NEW pc \in {"enqueue", "sendPublish"},
               row' = [row EXCEPT ![n] =
                   [state |-> "live", cid |-> req[r].cid, text |-> req[r].text,
                    ts |-> req[r].at, editedAt |-> Never]],
               req' = [req EXCEPT ![r].pc = pc, ![r].m = n]
        PROVE  TombstoneOK(m)'
    <3>1. CASE m = n
      BY <1>a, <2>1, <3>1 DEF TombstoneOK
    <3>2. CASE m # n
      BY <1>a, <1>b, <2>1, <3>2 DEF RequestStates
    <3>. QED  BY <3>1, <3>2
  <2>. QED  BY <1>3, <1>c, <2>1 DEF SendCreate
<1>4. ASSUME NEW r \in Requests, SendEnqueue(r)
      PROVE  TombstoneOK(m)'
  BY <1>a, <1>b, <1>4 DEF SendEnqueue, Goto, RequestStates
<1>5. ASSUME NEW r \in Requests,
             SendPublish(r) \/ EditPublish(r) \/ DeletePublish(r) \/ Abort(r)
      PROVE  TombstoneOK(m)'
  BY <1>c, <1>5 DEF SendPublish, EditPublish, DeletePublish, Abort, tables
<1>6. ASSUME NEW r \in Requests, EditWrite(r)
      PROVE  TombstoneOK(m)'
  <2>1. \A q \in Requests : req'[q].m = req[q].m /\ (q # r => req'[q] = req[q])
    BY <1>a, <1>6 DEF EditWrite, Goto, RequestStates
  <2>2. req'[r].pc = "editPublish"
    BY <1>a, <1>6 DEF EditWrite, Goto, RequestStates
  <2>3. row'[m].state = row[m].state
    BY <1>a, <1>6 DEF EditWrite, Rows
  <2>4. CASE req[r].m = m
    BY <1>a, <1>6, <2>3, <2>4 DEF EditWrite, TombstoneOK
  <2>5. CASE req[r].m # m
    <3>1. row'[m] = row[m]
      BY <1>a, <1>6, <2>5 DEF EditWrite
    <3>. QED  BY <1>b, <2>1, <2>2, <3>1
  <2>. QED  BY <2>4, <2>5
<1>7. ASSUME NEW r \in Requests, DeleteWrite(r)
      PROVE  TombstoneOK(m)'
  <2>1. \A q \in Requests : req'[q].m = req[q].m /\ (q # r => req'[q] = req[q])
    BY <1>a, <1>7 DEF DeleteWrite, Goto, RequestStates
  <2>2. req'[r].pc = "deletePublish"
    BY <1>a, <1>7 DEF DeleteWrite, Goto, RequestStates
  <2>3. CASE req[r].m = m
    <3>1. row'[m].text = NoText
      BY <1>a, <1>7, <2>3 DEF DeleteWrite, Rows
    <3>2. m \notin overtaken' => \A q \in Requests : req[q].m = m
                                                    => req[q].pc # "editWrite"
      BY <1>7, <2>3 DEF DeleteWrite
    <3>. QED  BY <2>1, <2>2, <3>1, <3>2 DEF TombstoneOK
  <2>4. CASE req[r].m # m
    <3>1. row'[m] = row[m]
      BY <1>a, <1>7, <2>4 DEF DeleteWrite
    <3>. QED  BY <1>b, <2>1, <2>2, <3>1
  <2>. QED  BY <2>3, <2>4
<1>8. ASSUME NEW n, NEW u, Deliver(n, u)
      PROVE  TombstoneOK(m)'
  BY <1>b, <1>8 DEF Deliver
<1>9. CASE Tick \/ UNCHANGED vars
  BY <1>b, <1>9 DEF Tick, vars, tables
<1>. QED
  BY <1>1, <1>2, <1>3, <1>4, <1>5, <1>6, <1>7, <1>8, <1>9, NextCases

\* Every step keeps that a pending broadcast carries the text of the row, and
\* that a display which is behind the row has a correction coming.
LEMMA ViewNext == VInv /\ [Next]_vars => \A m \in Msgs : ViewOK(m)'
<1>. SUFFICES ASSUME VInv, [Next]_vars, NEW m \in Msgs, Clean(m)'
              PROVE  /\ shown'[m] # Unseen /\ shown'[m] # row'[m].text =>
                           \E q \in Requests : Correcting(q, m)'
                     /\ \A q \in Requests : req'[q].m = m /\ req'[q].pc \in Unpublished
                           => Carried(q)' = row'[m].text
  BY DEF ViewOK
<1>a. /\ row \in [Msgs -> Rows] /\ req \in [Requests -> RequestStates]
      /\ shown \in [Msgs -> Texts \cup {NoText, Unseen}]
      /\ Clean(m) /\ TombstoneOK(m)
      /\ \A q \in Requests : HandlerOK(q)
      /\ RowOK(m)
  BY SlotType, HistoryGrows DEF VInv, IInv, TypeOK, Clean
<1>v. /\ shown[m] # Unseen /\ shown[m] # row[m].text =>
            \E q \in Requests : Correcting(q, m)
      /\ \A q \in Requests : req[q].m = m /\ req[q].pc \in Unpublished
            => Carried(q) = row[m].text
  BY <1>a DEF VInv, ViewOK
<1>. DEFINE Goal == ViewOK(m)'
<1>g. SUFFICES Goal
  BY DEF ViewOK
\* A step of r that leaves the text and the display of m.
<1>b. ASSUME NEW r \in Requests, \A q \in Requests \ {r} : req'[q] = req[q],
             row'[m].text = row[m].text, shown'[m] = shown[m], ~Correcting(r, m),
             req'[r].m = m /\ req'[r].pc \in Unpublished => Carried(r)' = row[m].text
      PROVE  Goal
  BY <1>v, <1>b DEF ViewOK, Correcting, Carried
<1>c. ASSUME NEW r \in Requests, Finish(r), row' = row, shown'[m] = shown[m],
             ~Correcting(r, m)
      PROVE  Goal
  <2>1. req'[r].pc = "idle" /\ \A q \in Requests \ {r} : req'[q] = req[q]
    BY <1>a, <1>c, IdleType DEF Finish
  <2>. QED  BY <1>b, <1>c, <2>1 DEF Unpublished
<1>1. ASSUME NEW r \in Requests, Looks(r)
      PROVE  Goal
  <2>1. row' = row /\ shown' = shown
    BY <1>1, LooksChangeNothing DEF tables, events
  <2>2. ASSUME NEW c, NEW t, NEW rest, SendStart(r, c, t, rest)
        PROVE  Goal
    <3>1. /\ req'[r].pc = "dedup" /\ req[r].pc = "idle"
          /\ \A q \in Requests \ {r} : req'[q] = req[q]
      BY <1>a, <2>2 DEF SendStart, Free, RequestStates
    <3>. QED  BY <1>b, <2>1, <3>1 DEF Unpublished, Correcting
  <2>3. CASE SendFind(r)
    <3>1. CASE \E n \in Stored : req' = [req EXCEPT ![r].pc = "resendPublish",
                                             ![r].m = n, ![r].text = row[n].text]
      <4>1. PICK n \in Stored : req' = [req EXCEPT ![r].pc = "resendPublish",
                                             ![r].m = n, ![r].text = row[n].text]
        BY <3>1
      <4>2. /\ req'[r].pc = "resendPublish" /\ req'[r].m = n
            /\ req'[r].text = row[n].text
            /\ \A q \in Requests \ {r} : req'[q] = req[q]
        BY <1>a, <4>1 DEF RequestStates
      <4>3. req[r].pc = "dedup"
        BY <2>3 DEF SendFind
      <4>. QED  BY <1>b, <2>1, <4>2, <4>3 DEF Correcting, Carried
    <3>2. CASE req' = [req EXCEPT ![r].pc = "create", ![r].at = now]
      <4>1. /\ req'[r].pc = "create" /\ req[r].pc = "dedup"
            /\ \A q \in Requests \ {r} : req'[q] = req[q]
        BY <1>a, <2>3, <3>2 DEF SendFind, RequestStates
      <4>. QED  BY <1>b, <2>1, <4>1 DEF Unpublished, Correcting
    <3>. QED  BY <2>3, <3>1, <3>2 DEF SendFind
  <2>4. ASSUME NEW u, NEW n, NEW t, NEW rest, EditFind(r, u, n, t, rest)
        PROVE  Goal
    <3>1. /\ req'[r].pc = "editWrite" /\ req[r].pc = "idle"
          /\ \A q \in Requests \ {r} : req'[q] = req[q]
      BY <1>a, <2>4 DEF EditFind, Free, RequestStates
    <3>. QED  BY <1>b, <2>1, <3>1 DEF Unpublished, Correcting
  <2>5. ASSUME NEW u, NEW n, NEW rest, DeleteFind(r, u, n, rest)
        PROVE  Goal
    <3>1. /\ req'[r].m = n /\ req[r].pc = "idle"
          /\ req'[r].pc = IF row[n].state = "deleted" THEN "deletePublish"
                                                      ELSE "deleteWrite"
          /\ \A q \in Requests \ {r} : req'[q] = req[q]
      BY <1>a, <2>5 DEF DeleteFind, Free, RequestStates
    <3>2. req'[r].m = m /\ req'[r].pc \in Unpublished => Carried(r)' = row[m].text
      BY <1>a, <3>1 DEF Unpublished, Carried, TombstoneOK, Clean
    <3>. QED  BY <1>b, <2>1, <3>1, <3>2 DEF Correcting
  <2>. QED  BY <1>1, <2>2, <2>3, <2>4, <2>5 DEF Looks
<1>2. ASSUME NEW r \in Requests, Reads(r)
      PROVE  Goal
  <2>1. row' = row /\ shown' = shown
    BY <1>2, ReadsKeepMessages DEF events
  <2>2. ASSUME NEW u, NEW v, NEW ids, ReadBatch(r, u, v, ids)
        PROVE  Goal
    <3>1. /\ req'[r].pc = "reset" /\ req[r].pc = "idle"
          /\ \A q \in Requests \ {r} : req'[q] = req[q]
      BY <1>a, <2>2 DEF ReadBatch, Free, RequestStates
    <3>. QED  BY <1>b, <2>1, <3>1 DEF Unpublished, Correcting
  <2>3. CASE ReadReset(r)
    BY <1>c, <2>1, <2>3 DEF ReadReset, Correcting
  <2>. QED  BY <1>2, <2>2, <2>3 DEF Reads
<1>3. ASSUME NEW r \in Requests, SendCreate(r)
      PROVE  Goal
  <2>1. shown' = shown /\ ~Correcting(r, m)
    BY <1>3 DEF SendCreate, events, Correcting
  <2>2. ASSUME NEW n \in Msgs \ Stored, NEW pc \in {"enqueue", "sendPublish"},
               row' = [row EXCEPT ![n] =
                   [state |-> "live", cid |-> req[r].cid, text |-> req[r].text,
                    ts |-> req[r].at, editedAt |-> Never]],
               req' = [req EXCEPT ![r].pc = pc, ![r].m = n]
        PROVE  Goal
    <3>1. /\ req'[r].pc = pc /\ req'[r].m = n /\ req'[r].text = req[r].text
          /\ \A q \in Requests \ {r} : req'[q] = req[q]
      BY <1>a, <2>2 DEF RequestStates
    <3>2. CASE m = n
      <4>1. row'[m].text = req[r].text /\ shown[m] = Unseen
        BY <1>a, <2>2, <3>2 DEF RowOK
      <4>2. \A q \in Requests \ {r} : req[q].pc \in Unpublished => req[q].m # m
        BY <1>a, <2>2, <3>2 DEF HandlerOK, Unpublished, MessagePcs
      <4>. QED  BY <2>1, <3>1, <4>1, <4>2 DEF ViewOK, Carried
    <3>3. CASE m # n
      BY <1>a, <1>b, <2>1, <2>2, <3>1, <3>3
    <3>. QED  BY <3>2, <3>3
  <2>. QED  BY <1>3, <1>c, <2>1, <2>2 DEF SendCreate
<1>4. ASSUME NEW r \in Requests, SendEnqueue(r)
      PROVE  Goal
  <2>1. /\ req[r].pc = "enqueue" /\ req'[r].pc = "sendPublish"
        /\ req'[r].m = req[r].m /\ req'[r].text = req[r].text
        /\ row' = row /\ shown' = shown
        /\ \A q \in Requests \ {r} : req'[q] = req[q]
    BY <1>a, <1>4 DEF SendEnqueue, Goto, RequestStates, events
  <2>2. req[r].m = m => req[r].text = row[m].text
    BY <1>v, <2>1 DEF Carried, Unpublished
  <2>. QED  BY <1>b, <2>1, <2>2 DEF Correcting, Carried
<1>5. ASSUME NEW r \in Requests, SendPublish(r)
      PROVE  Goal
  <2>1. row' = row /\ Finish(r) /\ ~Correcting(r, m)
    BY <1>5 DEF SendPublish, tables, Correcting
  <2>2. CASE shown'[m] = shown[m]
    BY <1>c, <2>1, <2>2
  <2>3. CASE shown'[m] # shown[m]
    <3>1. req[r].m = m /\ shown'[m] = req[r].text
      BY <1>a, <1>5, <2>3 DEF SendPublish, Announce, events
    <3>2. shown'[m] = row'[m].text
      BY <1>5, <1>v, <2>1, <3>1 DEF SendPublish, Carried, Unpublished
    <3>3. req'[r].pc = "idle" /\ \A q \in Requests \ {r} : req'[q] = req[q]
      BY <1>a, <2>1, IdleType DEF Finish
    <3>. QED  BY <1>v, <2>1, <3>2, <3>3 DEF ViewOK, Carried, Unpublished
  <2>. QED  BY <2>2, <2>3
<1>6. ASSUME NEW r \in Requests, EditWrite(r) \/ DeleteWrite(r)
      PROVE  Goal
  <2>1. /\ req[r].pc \in {"editWrite", "deleteWrite"}
        /\ req'[r].pc = IF req[r].pc = "editWrite" THEN "editPublish"
                                                   ELSE "deletePublish"
        /\ req'[r].m = req[r].m /\ req'[r].text = req[r].text
        /\ req'[r].rest = req[r].rest
        /\ shown' = shown
        /\ \A q \in Requests \ {r} : req'[q] = req[q]
    BY <1>a, <1>6 DEF EditWrite, DeleteWrite, Goto, RequestStates, events
  <2>2. CASE req[r].m = m
    <3>1. ~Pending(r, m) /\ ~req[r].rest
      BY <1>6, <2>2 DEF EditWrite, DeleteWrite, Clean
    <3>2. Carried(r)' = row'[m].text
      <4>1. CASE EditWrite(r)
        BY <1>a, <2>1, <2>2, <4>1 DEF EditWrite, Carried, Rows
      <4>2. CASE DeleteWrite(r)
        BY <1>a, <2>1, <2>2, <4>2 DEF DeleteWrite, Carried, Rows
      <4>. QED  BY <1>6, <4>1, <4>2
    <3>3. Correcting(r, m)'
      BY <2>1, <2>2, <3>1 DEF Correcting
    <3>. QED  BY <2>1, <3>1, <3>2, <3>3 DEF ViewOK, Pending, Carried
  <2>3. CASE req[r].m # m
    <3>1. row'[m] = row[m]
      BY <1>a, <1>6, <2>3 DEF EditWrite, DeleteWrite
    <3>. QED  BY <1>b, <2>1, <2>3, <3>1 DEF Correcting
  <2>. QED  BY <2>2, <2>3
<1>7. ASSUME NEW r \in Requests, EditPublish(r) \/ DeletePublish(r)
      PROVE  Goal
  <2>1. row' = row /\ Finish(r)
    BY <1>7 DEF EditPublish, DeletePublish, tables
  <2>2. CASE req[r].m = m /\ ~req[r].rest
    <3>1. shown'[m] = IF shown[m] = Unseen THEN shown[m] ELSE Carried(r)
      BY <1>a, <1>7, <2>2 DEF EditPublish, DeletePublish, Display, Carried
    <3>2. Carried(r) = row[m].text
      BY <1>7, <1>v, <2>2 DEF EditPublish, DeletePublish, Unpublished
    <3>3. req'[r].pc = "idle" /\ \A q \in Requests \ {r} : req'[q] = req[q]
      BY <1>a, <2>1, IdleType DEF Finish
    <3>. QED  BY <1>v, <2>1, <3>1, <3>2, <3>3 DEF ViewOK, Carried, Unpublished
  <2>3. CASE req[r].m # m \/ req[r].rest
    <3>1. shown'[m] = shown[m]
      BY <1>a, <1>7, <2>3 DEF EditPublish, DeletePublish, Display
    <3>. QED  BY <1>c, <2>1, <2>3, <3>1 DEF Correcting
  <2>. QED  BY <2>2, <2>3
<1>8. ASSUME NEW r \in Requests, Abort(r)
      PROVE  Goal
  <2>1. row' = row /\ shown' = shown /\ Finish(r)
    BY <1>8 DEF Abort, tables, events
  <2>2. ~Correcting(r, m)
    BY <1>8 DEF Abort, Clean, Correcting, Unpublished
  <2>. QED  BY <1>c, <2>1, <2>2
<1>9. CASE Tick \/ UNCHANGED vars \/ \E n \in Msgs, u \in Users : Deliver(n, u)
  <2>1. row' = row /\ shown' = shown /\ req' = req
    BY <1>9 DEF Tick, vars, tables, events, Deliver
  <2>. QED  BY <1>v, <2>1 DEF ViewOK, Correcting, Carried
<1>. QED
  BY <1>1, <1>2, <1>3, <1>4, <1>5, <1>6, <1>7, <1>8, <1>9, NextCases

\* Every reachable state satisfies the invariant of the view.
LEMMA ViewInvariance == Spec => []VInv
<1>1. VInv /\ [Next]_vars => VInv'
  BY TypeNext, HandlersNext, JobsNext, RowsNext, ViewNext, TombstoneNext DEF VInv, IInv
<1>. QED  BY VInvInit, <1>1, PTL DEF Spec

\* Once the events of a message are out, a connected recipient displays the row,
\* for any number of edits, deletions and retries before that.
THEOREM SettledViewMatchesRow == Spec => []SettledViewIsRow
<1>1. VInv => SettledViewIsRow
  <2>. SUFFICES ASSUME VInv, NEW m \in Msgs, shown[m] # Unseen, Settled(m), Clean(m)
                PROVE  shown[m] = row[m].text
    BY DEF SettledViewIsRow, Clean
  <2>1. \A r \in Requests : ~Correcting(r, m)
    BY DEF Settled, Correcting, Unpublished
  <2>. QED  BY <2>1 DEF VInv, ViewOK
<1>. QED  BY ViewInvariance, <1>1, PTL

-----------------------------------------------------------------------------
(* Messages implements MessageLog                                          *)

\* What is about to be stored, and what a message that is not deleted holds, is a
\* ciphertext.
TextOK ==
    /\ \A r \in Requests :
          req[r].pc \in {"dedup", "create", "editWrite"} => req[r].text \in Texts
    /\ \A m \in Msgs : row[m].state = "live" => row[m].text \in Texts

LInv == IInv /\ TextOK

\* The initial state satisfies the invariant of the log: nothing is stored.
LEMMA LInvInit == Init => LInv
<1>. SUFFICES ASSUME Init PROVE LInv
  OBVIOUS
<1>1. TextOK
  BY IdleType DEF Init, TextOK, NoRow
<1>. QED  BY <1>1, IInvInit DEF LInv

\* Every step keeps this: a slot gets its text from the client, and loses it with its
\* request.
LEMMA TextNext == LInv /\ [Next]_vars => TextOK'
<1>. SUFFICES ASSUME LInv, [Next]_vars PROVE TextOK'
  OBVIOUS
<1>a. row \in [Msgs -> Rows] /\ req \in [Requests -> RequestStates] /\ TextOK
  BY SlotType DEF LInv, IInv
<1>1. ASSUME NEW q \in Requests,
             req'[q].pc \in {"dedup", "create", "editWrite"}
      PROVE  req'[q].text \in Texts
  <2>1. ASSUME NEW r \in Requests, NEW new, req' = [req EXCEPT ![r] = new],
               new.pc \in {"dedup", "create", "editWrite"} => new.text \in Texts
        PROVE  req'[q].text \in Texts
    BY <1>a, <1>1, <2>1 DEF TextOK
  <2>2. ASSUME NEW r \in Requests, Looks(r)
        PROVE  req'[q].text \in Texts
    <3>1. ASSUME NEW c \in ClientIds, NEW t \in Texts, NEW rest \in BOOLEAN,
                 SendStart(r, c, t, rest)
          PROVE  req'[q].text \in Texts
      BY <1>a, <1>1, <3>1 DEF SendStart, TextOK, RequestStates
    <3>2. CASE SendFind(r)
      <4>1. ASSUME NEW m, req' = [req EXCEPT ![r].pc = "resendPublish", ![r].m = m,
                                            ![r].text = row[m].text]
            PROVE  req'[q].text \in Texts
        <5>. DEFINE new == [req[r] EXCEPT !.pc = "resendPublish", !.m = m,
                                          !.text = row[m].text]
        <5>1. req' = [req EXCEPT ![r] = new] /\ new.pc = "resendPublish"
          BY <1>a, <4>1 DEF RequestStates
        <5>. QED  BY <5>1, <2>1
      <4>2. CASE req[r].pc = "dedup"
                 /\ req' = [req EXCEPT ![r].pc = "create", ![r].at = now]
        BY <1>a, <1>1, <4>2 DEF TextOK, RequestStates
      <4>. QED  BY <3>2, <4>1, <4>2 DEF SendFind
    <3>3. ASSUME NEW u \in Users, NEW m \in Msgs, NEW t \in Texts, NEW rest \in BOOLEAN,
                 EditFind(r, u, m, t, rest)
          PROVE  req'[q].text \in Texts
      BY <1>a, <1>1, <3>3 DEF EditFind, TextOK, RequestStates
    <3>4. ASSUME NEW u \in Users, NEW m \in Msgs, NEW rest \in BOOLEAN,
                 DeleteFind(r, u, m, rest)
          PROVE  req'[q].text \in Texts
      BY <1>a, <1>1, <3>4 DEF DeleteFind, TextOK, RequestStates
    <3>. QED  BY <2>2, <3>1, <3>2, <3>3, <3>4 DEF Looks
  <2>3. ASSUME NEW r \in Requests, Reads(r)
        PROVE  req'[q].text \in Texts
    <3>1. ASSUME NEW u \in Users, NEW v \in Convs, NEW ids \in SUBSET Stored,
                 ReadBatch(r, u, v, ids)
          PROVE  req'[q].text \in Texts
      BY <1>a, <1>1, <3>1 DEF ReadBatch, TextOK, RequestStates
    <3>2. CASE ReadReset(r)
      BY <1>a, <1>1, <3>2, IdleType DEF ReadReset, Finish, TextOK
    <3>. QED  BY <2>3, <3>1, <3>2 DEF Reads
  <2>4. ASSUME NEW r \in Requests,
               Abort(r) \/ SendPublish(r) \/ EditPublish(r) \/ DeletePublish(r)
        PROVE  req'[q].text \in Texts
    BY <1>a, <1>1, <2>4, IdleType
       DEF Abort, SendPublish, EditPublish, DeletePublish, Finish, TextOK
  <2>5. ASSUME NEW r \in Requests, SendCreate(r)
        PROVE  req'[q].text \in Texts
    BY <1>a, <1>1, <2>5, IdleType DEF SendCreate, Finish, TextOK, RequestStates
  <2>6. ASSUME NEW r \in Requests, SendEnqueue(r) \/ EditWrite(r) \/ DeleteWrite(r)
        PROVE  req'[q].text \in Texts
    BY <1>a, <1>1, <2>6 DEF SendEnqueue, EditWrite, DeleteWrite, Goto, TextOK,
       RequestStates
  <2>7. CASE req' = req
    BY <1>a, <1>1, <2>7 DEF TextOK
  <2>8. Tick \/ UNCHANGED vars \/ (\E m \in Msgs, u \in Users : Deliver(m, u))
           => req' = req
    BY DEF Tick, vars, Deliver
  <2>. QED  BY <2>2, <2>3, <2>4, <2>5, <2>6, <2>7, <2>8, NextCases
<1>2. ASSUME NEW m \in Msgs, row'[m].state = "live"
      PROVE  row'[m].text \in Texts
  <2>1. CASE row' = row
    BY <1>a, <1>2, <2>1 DEF TextOK
  <2>2. ASSUME NEW r \in Requests, SendCreate(r)
        PROVE  row'[m].text \in Texts
    BY <1>a, <1>2, <2>2 DEF SendCreate, TextOK
  <2>3. ASSUME NEW r \in Requests, EditWrite(r)
        PROVE  row'[m].text \in Texts
    BY <1>a, <1>2, <2>3 DEF EditWrite, TextOK, Rows
  <2>4. ASSUME NEW r \in Requests, DeleteWrite(r)
        PROVE  row'[m].text \in Texts
    BY <1>a, <1>2, <2>4 DEF DeleteWrite, TextOK, Rows
  <2>. QED  BY <2>1, <2>2, <2>3, <2>4, RowWriters
<1>. QED  BY <1>1, <1>2 DEF TextOK

\* Every reachable state satisfies the invariant of the log.
LEMMA LogInvariance == Spec => []LInv
<1>1. LInv /\ [Next]_vars => LInv'
  BY TypeNext, HandlersNext, JobsNext, RowsNext, TextNext DEF LInv, IInv
<1>. QED  BY LInvInit, <1>1, PTL DEF Spec

\* A composed message has at most one row, the one that RowOf chooses.
LEMMA RowOfIs ==
    ASSUME IInv, NEW c \in ClientIds
    PROVE  /\ \A m \in Stored : row[m].cid = c => RowOf(c) = m
           /\ RowOf(c) # Nobody => RowOf(c) \in Stored /\ row[RowOf(c)].cid = c
           /\ Nobody \notin Stored
<1>1. ASSUME NEW m \in Stored, row[m].cid = c PROVE RowOf(c) = m
  BY <1>1 DEF RowOf, IInv, RowOK, Stored
<1>2. ASSUME RowOf(c) # Nobody PROVE RowOf(c) \in Stored /\ row[RowOf(c)].cid = c
  BY <1>2 DEF RowOf
<1>. QED  BY <1>1, <1>2, SentinelAssumption DEF Stored

\* A step that writes no row that was not there leaves every message its row.
LEMMA RowsStay ==
    ASSUME IInv, IInv', Stored' = Stored, NEW c \in ClientIds,
           \A m \in Msgs : row'[m].cid = row[m].cid
    PROVE  RowOf(c)' = RowOf(c)
<1>1. CASE \E m \in Stored : row[m].cid = c
  <2>1. PICK m \in Stored : row[m].cid = c
    BY <1>1
  <2>2. m \in Stored' /\ row'[m].cid = c
    BY <2>1 DEF Stored
  <2>3. RowOf(c) = m
    BY <2>1, RowOfIs
  <2>4. RowOf(c)' = m
    BY <2>2 DEF RowOf, IInv, RowOK, Stored
  <2>. QED  BY <2>3, <2>4
<1>2. CASE ~\E m \in Stored : row[m].cid = c
  BY <1>2 DEF RowOf, Stored
<1>. QED  BY <1>1, <1>2

\* A step that changes no row, job or ack is none of the log.
LEMMA LogStutters ==
    ASSUME UNCHANGED <<row, jobs, acked>>
    PROVE  UNCHANGED Log!logVars
BY DEF Log!logVars, RowOf, TextOf, JobsOf, Stored

\* The insert composes a message.
LEMMA CreateComposes ==
    ASSUME LInv, LInv', NEW r \in Requests, SendCreate(r), row' # row
    PROVE  Log!LogNext
<1>a. IInv /\ IInv' /\ row \in [Msgs -> Rows]
  BY SlotType DEF LInv, IInv
<1>1. PICK c \in ClientIds : c = req[r].cid
  BY <1>a DEF SendCreate, IInv, HandlerOK, ComposedPcs
<1>2. PICK t \in Texts : t = req[r].text
  BY DEF SendCreate, LInv, TextOK
<1>3. PICK m \in Msgs \ Stored :
         /\ \A n \in Stored : row[n].cid # c
         /\ row' = [row EXCEPT ![m] =
               [state |-> "live", cid |-> c, text |-> t,
                ts |-> req[r].at, editedAt |-> Never]]
  BY <1>1, <1>2 DEF SendCreate
<1>4. /\ Stored' = Stored \cup {m} /\ row'[m].cid = c
      /\ row'[m].state = "live" /\ row'[m].text = t
      /\ \A n \in Stored : row'[n] = row[n]
      /\ jobs' = jobs /\ acked' = acked
  BY <1>a, <1>3 DEF Stored, SendCreate
<1>5. RowOf(c) = Nobody /\ RowOf(c)' = m /\ m # Nobody
  <2>1. RowOf(c) = Nobody
    BY <1>3 DEF RowOf
  <2>2. RowOf(c)' = m
    BY <1>a, <1>4 DEF RowOf, IInv, RowOK, Stored
  <2>. QED  BY <2>1, <2>2, SentinelAssumption
<1>6. ASSUME NEW d \in ClientIds, d # c
      PROVE  RowOf(d)' = RowOf(d) /\ RowOf(d) # m
  <2>1. CASE \E n \in Stored : row[n].cid = d
    <3>1. PICK n \in Stored : row[n].cid = d
      BY <2>1
    <3>2. n \in Stored' /\ row'[n].cid = d /\ n # m
      BY <1>3, <1>4, <3>1
    <3>3. RowOf(d) = n
      BY <1>a, <3>1, RowOfIs
    <3>4. RowOf(d)' = n
      BY <1>a, <3>2 DEF RowOf, IInv, RowOK, Stored
    <3>. QED  BY <3>2, <3>3, <3>4
  <2>2. CASE ~\E n \in Stored : row[n].cid = d
    <3>1. RowOf(d) = Nobody
      BY <2>2 DEF RowOf
    <3>2. RowOf(d)' = Nobody
      BY <1>4, <1>6, <2>2 DEF RowOf
    <3>. QED  BY <1>5, <3>1, <3>2
  <2>. QED  BY <2>1, <2>2
<1>7. TextOf(c) = NoText /\ TextOf(c)' = t /\ JobsOf(c) = 0 /\ JobsOf(c)' = 0
  <2>1. jobs[m] = 0
    BY <1>a DEF IInv, RowOK
  <2>. QED  BY <1>4, <1>5, <2>1 DEF TextOf, JobsOf
<1>8. ASSUME NEW d \in ClientIds, d # c
      PROVE  TextOf(d)' = TextOf(d) /\ JobsOf(d)' = JobsOf(d)
  <2>1. RowOf(d) # Nobody => RowOf(d) \in Stored
    BY <1>a, RowOfIs
  <2>. QED  BY <1>4, <1>6, <1>8, <2>1 DEF TextOf, JobsOf
<1>9. Log!Compose(c, m, t)
  BY <1>4, <1>5, <1>6, <1>7, <1>8 DEF Log!Compose
<1>. QED  BY <1>9 DEF Log!LogNext

\* The enqueueing and the answer of a send are those of the message of its row.
LEMMA SendContinues ==
    ASSUME LInv, LInv', NEW r \in Requests, SendEnqueue(r) \/ SendPublish(r)
    PROVE  Log!LogNext
<1>a. IInv /\ row' = row
  BY DEF LInv, SendEnqueue, SendPublish, tables
<1>1. PICK c \in ClientIds : c = req[r].cid
  BY <1>a DEF SendEnqueue, SendPublish, IInv, HandlerOK, ComposedPcs
<1>2. PICK m \in Stored : m = req[r].m
  BY <1>a DEF SendEnqueue, SendPublish, IInv, HandlerOK, MessagePcs
<1>3. row[m].cid = c
  BY <1>a, <1>1, <1>2
     DEF SendEnqueue, SendPublish, IInv, HandlerOK, MessagePcs, ComposedPcs
<1>4. RowOf(c) = m /\ m # Nobody /\ m \in Msgs
  BY <1>a, <1>3, RowOfIs DEF Stored
<1>5. \A d \in ClientIds : RowOf(d)' = RowOf(d) /\ TextOf(d)' = TextOf(d)
  BY <1>a DEF RowOf, TextOf, Stored
<1>6. CASE SendEnqueue(r)
  <2>1. jobs \in [Msgs -> Nat] /\ jobs[m] = 0
    BY <1>a, <1>2, <1>6 DEF SendEnqueue, IInv, TypeOK, JobOK
  <2>2. jobs' = [jobs EXCEPT ![m] = 1] /\ acked' = acked
    BY <1>2, <1>6, <2>1 DEF SendEnqueue, history
  <2>3. JobsOf(c) = 0 /\ JobsOf(c)' = 1
    BY <1>4, <1>5, <2>1, <2>2 DEF JobsOf
  <2>4. ASSUME NEW d \in ClientIds, d # c PROVE JobsOf(d)' = JobsOf(d)
    <3>1. RowOf(d) # m
      BY <1>a, <1>3, <1>4, <2>4, RowOfIs
    <3>. QED  BY <1>5, <2>1, <2>2, <3>1, RowOfIs, <1>a DEF JobsOf
  <2>5. Log!Enqueue(c)
    BY <1>4, <1>5, <2>2, <2>3, <2>4 DEF Log!Enqueue
  <2>. QED  BY <2>5 DEF Log!LogNext
<1>7. CASE SendPublish(r)
  <2>1. acked \in [ClientIds -> SUBSET Msgs] /\ jobs' = jobs
    BY <1>a, <1>7 DEF SendPublish, IInv, TypeOK, tables
  <2>2. acked[c] \subseteq {m}
    BY <1>a, <1>2, <1>3, <2>1 DEF IInv, RowOK, Stored
  <2>3. acked' = [acked EXCEPT ![c] = {m}]
    BY <1>1, <1>2, <1>7, <2>1, <2>2 DEF SendPublish
  <2>4. \A d \in ClientIds : JobsOf(d)' = JobsOf(d)
    BY <1>5, <2>1 DEF JobsOf
  <2>5. Log!Tell(c)
    BY <1>4, <1>5, <2>3, <2>4 DEF Log!Tell
  <2>. QED  BY <2>5 DEF Log!LogNext
<1>. QED  BY <1>6, <1>7

\* An edit or a deletion of a message that is not deleted is one of the log; a later
\* one writes under its tombstone, which the log does not show.
LEMMA WritesChange ==
    ASSUME LInv, LInv', NEW r \in Requests, EditWrite(r) \/ DeleteWrite(r)
    PROVE  Log!LogNext \/ UNCHANGED Log!logVars
<1>a. /\ IInv /\ IInv' /\ row \in [Msgs -> Rows] /\ TextOK
      /\ jobs' = jobs /\ acked' = acked
  BY SlotType DEF LInv, IInv, EditWrite, DeleteWrite
<1>1. PICK m \in Stored : m = req[r].m
  BY <1>a DEF EditWrite, DeleteWrite, IInv, HandlerOK, MessagePcs
<1>2. PICK c \in ClientIds : c = row[m].cid
  BY <1>a DEF IInv, RowOK, Stored
<1>3. /\ \A n \in Msgs \ {m} : row'[n] = row[n]
      /\ row'[m].cid = row[m].cid
      /\ EditWrite(r) => row'[m].state = row[m].state /\ row'[m].text = req[r].text
      /\ DeleteWrite(r) => row'[m].state = "deleted"
  BY <1>a, <1>1 DEF EditWrite, DeleteWrite, Rows, Stored
<1>4. Stored' = Stored
  BY <1>1, <1>3 DEF Stored, EditWrite, DeleteWrite
<1>5. \A d \in ClientIds : RowOf(d)' = RowOf(d)
  BY <1>a, <1>3, <1>4, RowsStay
<1>6. RowOf(c) = m /\ m # Nobody /\ m \in Msgs
  BY <1>a, <1>2, RowOfIs DEF Stored
<1>7. ASSUME NEW d \in ClientIds, d # c
      PROVE  TextOf(d)' = TextOf(d)
  <2>1. RowOf(d) # Nobody => RowOf(d) \in Msgs /\ RowOf(d) # m
    BY <1>a, <1>2, <1>7, RowOfIs DEF Stored
  <2>. QED  BY <1>3, <1>5, <2>1 DEF TextOf
<1>8. \A d \in ClientIds : JobsOf(d)' = JobsOf(d)
  BY <1>a, <1>5 DEF JobsOf
<1>9. CASE row[m].state = "live"
  <2>1. TextOf(c) # NoText
    BY <1>a, <1>6, <1>9, SentinelAssumption DEF TextOf, TextOK
  <2>2. CASE EditWrite(r)
    <3>1. PICK t \in Texts : t = req[r].text
      BY <1>a, <2>2 DEF EditWrite, TextOK
    <3>2. TextOf(c)' = t
      BY <1>3, <1>5, <1>6, <1>9, <2>2, <3>1 DEF TextOf
    <3>3. Log!Edit(c, t)
      BY <1>a, <1>5, <1>7, <1>8, <2>1, <3>2 DEF Log!Edit
    <3>. QED  BY <3>3 DEF Log!LogNext
  <2>3. CASE DeleteWrite(r)
    <3>1. TextOf(c)' = NoText
      BY <1>3, <1>5, <1>6, <2>3 DEF TextOf
    <3>2. Log!Delete(c)
      BY <1>a, <1>5, <1>7, <1>8, <2>1, <3>1 DEF Log!Delete
    <3>. QED  BY <3>2 DEF Log!LogNext
  <2>. QED  BY <2>2, <2>3
<1>10. CASE row[m].state # "live"
  <2>1. row'[m].state # "live"
    BY <1>3, <1>10
  <2>2. TextOf(c)' = TextOf(c)
    BY <1>5, <1>6, <1>10, <2>1 DEF TextOf
  <2>. QED  BY <1>a, <1>5, <1>7, <1>8, <2>2 DEF Log!logVars
<1>. QED  BY <1>9, <1>10

\* Whatever overlaps, is retried or cut off, the tables and the answers tell of each
\* composed message what a log written in single steps would: one id, edits until the
\* deletion, one id confirmed, one fan-out job.
THEOREM ServiceImplementsLog == Spec => ImplementsLog
<1>1. Init => Log!LogInit
  <2>. SUFFICES ASSUME Init PROVE Log!LogInit
    OBVIOUS
  <2>1. Stored = {}
    BY DEF Init, Stored, NoRow
  <2>2. \A c \in ClientIds : RowOf(c) = Nobody
    BY <2>1 DEF RowOf
  <2>. QED  BY <2>2 DEF Init, Log!LogInit, TextOf, JobsOf
<1>2. LInv /\ LInv' /\ [Next]_vars => [Log!LogNext]_(Log!logVars)
  <2>. SUFFICES ASSUME LInv, LInv', [Next]_vars
                PROVE  Log!LogNext \/ UNCHANGED Log!logVars
    OBVIOUS
  <2>1. ASSUME NEW r \in Requests, Looks(r) \/ Reads(r)
        PROVE  UNCHANGED Log!logVars
    BY <2>1, LooksChangeNothing, ReadsKeepMessages, LogStutters DEF tables, history
  <2>2. ASSUME NEW r \in Requests, Abort(r) \/ EditPublish(r) \/ DeletePublish(r)
        PROVE  UNCHANGED Log!logVars
    BY <2>2, LogStutters DEF Abort, EditPublish, DeletePublish, tables, history
  <2>3. ASSUME NEW r \in Requests, SendCreate(r)
        PROVE  Log!LogNext \/ UNCHANGED Log!logVars
    <3>1. jobs' = jobs /\ acked' = acked
      BY <2>3 DEF SendCreate
    <3>. QED  BY <2>3, <3>1, CreateComposes, LogStutters
  <2>4. CASE Tick \/ UNCHANGED vars \/ \E m \in Msgs, u \in Users : Deliver(m, u)
    BY <2>4, LogStutters DEF Tick, vars, Deliver, tables, history
  <2>. QED
    BY <2>1, <2>2, <2>3, <2>4, SendContinues, WritesChange, NextCases
<1>. QED
  BY LogInvariance, <1>1, <1>2, PTL DEF Spec, ImplementsLog, Log!LogSpec

=============================================================================
