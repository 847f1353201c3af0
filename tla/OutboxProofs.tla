---------------------------- MODULE OutboxProofs ----------------------------
(***************************************************************************)
(* Proofs about a user's own messages in a tab: its types, that the list   *)
(* shows how a send ended, and that an entry with the server's id settles  *)
(* to its row, for any number of messages, edits and events.               *)
(*                                                                         *)
(* The first rests on where a send stands: every step of it is matched by  *)
(* the row, the entry and the acknowledgement (SendOK).  The second rests  *)
(* on one relation between an entry and its row (Follows): wherever they   *)
(* differ, something that will make up for it is still on its way, or the  *)
(* change has been missed.  The rows of a load that was answered are so    *)
(* related too, with the changes since the answer as the missed ones,      *)
(* which is why they may replace the list whenever they are decrypted.     *)
(***************************************************************************)
EXTENDS Outbox, SequenceTheorems, TLAPS

Event == [type : {"ack", "status"}, d : Drafts, status : Statuses]
Row == [state : {"none", "live", "deleted"}, text : 0 .. MaxText, status : Statuses]
Call == [pc : {"idle", "asked", "found", "written"}, text : 0 .. MaxText]

Sent == {"out", "stored", "acked", "over"}

\* A load has its three fields, and rows of drafts.
LoadOK ==
    /\ load = [pc |-> load.pc, rows |-> load.rows, late |-> load.late]
    /\ DOMAIN load.rows \subseteq Drafts
    /\ \A d \in DOMAIN load.rows : d \in Stored /\ load.rows[d].id = "server"

\* Where the send of a draft stands, in the row, the list and the wire.
SendOK ==
    \A d \in Drafts :
        /\ d \in Stored => send[d] \in {"stored", "acked", "over"}
        /\ send[d] \in {"stored", "acked"} => d \in Stored
        /\ send[d] \notin Sent => d \notin Listed
        /\ send[d] = "over" /\ d \notin Stored => d \in unacked
        /\ send[d] \in Sent /\ d \notin behind => d \in Listed /\ list[d].id # "none"
        /\ d \in Listed /\ list[d].id = "server" => d \in Stored
        /\ d \in OnWire("ack") => d \in Stored

\* Calls are about messages that are stored, and what they have written is there.
CallsOK ==
    \A d \in Drafts :
        /\ edit[d].pc # "idle" \/ del[d].pc # "idle" => d \in Stored
        /\ edit[d].pc = "found" => row[d].text < MaxText
        /\ edit[d].pc = "written" /\ row[d].state = "live" => edit[d].text = row[d].text
        /\ del[d].pc = "written" => row[d].state = "deleted"

\* The status of the row of d is still to be told, or on its way to the tab.
Telling(d) ==
    \/ <<d, row[d].status>> \in untold
    \/ \E i \in 1 .. Len(wire) :
          wire[i].type = "status" /\ wire[i].d = d /\ wire[i].status = row[d].status

\* An entry e against its row r: where they differ the change was missed, or the
\* response of the deletion or of the edit, or a receipt, is still to come.
Follows(e, missed, r, delpc, editpc, telling) ==
    /\ e.deleted => r.state = "deleted"
    /\ ~missed =>
          /\ r.state = "deleted" => e.deleted \/ delpc = "written"
          /\ r.state = "live" => e.text = r.text \/ editpc = "written"
          /\ Rank[e.status] >= Rank[r.status] \/ telling

ListFollows(d) ==
    d \in Listed /\ list[d].id = "server" =>
       Follows(list[d], d \in stale, row[d], del[d].pc, edit[d].pc, Telling(d))
LoadFollows(d) ==
    load.pc = "answered" /\ d \in DOMAIN load.rows =>
       Follows(load.rows[d], d \in load.late, row[d], del[d].pc, edit[d].pc, Telling(d))

FollowsOK == \A d \in Drafts : ListFollows(d) /\ LoadFollows(d)

IInv == TypeOK /\ LoadOK /\ SendOK /\ CallsOK /\ FollowsOK

-----------------------------------------------------------------------------
(* Rows, statuses and the wire                                             *)

LEMMA RankIs ==
    /\ Statuses = {"SENT", "DELIVERED", "READ"}
    /\ \A s \in Statuses : Rank[s] \in Nat
    /\ \A s \in Statuses : Rank["SENT"] <= Rank[s]
  BY DEF Rank, Statuses

LEMMA RowsAre ==
    ASSUME TypeOK
    PROVE  /\ row \in [Drafts -> Row]
           /\ \A d \in Drafts : d \in Stored <=> row[d].state \in {"live", "deleted"}
           /\ \A d \in Drafts : d \notin Stored => row[d] = NoRow
<1>1. NoRow \in Row
  BY RankIs, OutboxAssumption DEF NoRow, Row
<1>2. row \in [Drafts -> Row]
  BY <1>1 DEF TypeOK, Row
<1>3. ASSUME NEW d \in Drafts
      PROVE  /\ d \in Stored <=> row[d].state \in {"live", "deleted"}
             /\ d \notin Stored => row[d] = NoRow
  BY <1>2 DEF Row, TypeOK, Stored, NoRow
<1> QED
  BY <1>2, <1>3

\* A row that is written stays one of the rows of the type.
LEMMA RowTyped ==
    ASSUME NEW r \in Row, r.state # "none"
    PROVE  r \in {NoRow} \cup [state : {"live", "deleted"}, text : 0 .. MaxText, status : Statuses]
  BY DEF Row

LEMMA WireIs ==
    ASSUME TypeOK
    PROVE  /\ wire \in Seq(Event) /\ DOMAIN wire = 1 .. Len(wire) /\ Len(wire) \in Nat
           /\ \A i \in 1 .. Len(wire) : wire[i] \in Event
           /\ \A type, d : d \in OnWire(type) <=>
                 d \in Drafts /\ \E i \in 1 .. Len(wire) : wire[i].type = type /\ wire[i].d = d
<1>1. wire \in Seq(Event) /\ DOMAIN wire = 1 .. Len(wire) /\ Len(wire) \in Nat
  BY LenProperties DEF TypeOK, Event
<1> QED
  BY <1>1, ElementOfSeq DEF OnWire

LEMMA PushIs ==
    ASSUME TypeOK, NEW e \in Event, NEW up, Push(e, up)
    PROVE  /\ wire' \in Seq(Event)
           /\ ~up => wire' = wire
           /\ up => /\ Len(wire') = Len(wire) + 1
                    /\ \A i \in 1 .. Len(wire) : wire'[i] = wire[i]
                    /\ wire'[Len(wire) + 1] = e
<1>1. wire \in Seq(Event)
  BY WireIs
<1>2. wire' = IF up THEN Append(wire, e) ELSE wire
  BY DEF Push
<1> QED
  BY <1>1, <1>2, AppendProperties

\* Receiving takes the head off.
LEMMA TailIs ==
    ASSUME TypeOK, wire # <<>>, wire' = Tail(wire)
    PROVE  /\ Head(wire) \in Event /\ Head(wire) = wire[1]
           /\ wire' \in Seq(Event)
           /\ Len(wire) \in Nat \ {0} /\ Len(wire') = Len(wire) - 1
           /\ \A i \in 1 .. Len(wire') : i + 1 \in 1 .. Len(wire) /\ wire'[i] = wire[i + 1]
<1>1. wire \in Seq(Event)
  BY WireIs
<1> QED
  BY <1>1, HeadTailProperties, EmptySeq, LenProperties

\* The types, from those of the variables one by one.
LEMMA Typing ==
    ASSUME row' \in [Drafts -> Row], \A d \in Drafts : row'[d].state = "none" => row'[d] = NoRow,
           send' \in [Drafts -> {"new", "encrypting", "unsent", "out", "stored", "acked", "over"}],
           told' \in [Drafts -> SUBSET Receipts], untold' \subseteq Drafts \X Receipts,
           sock' \in BOOLEAN, wire' \in Seq(Event),
           DOMAIN list' \subseteq Drafts, \A d \in DOMAIN list' : list'[d] \in Entries,
           load'.pc \in {"idle", "asked", "answered"}, load'.late \subseteq Drafts,
           \A d \in DOMAIN load'.rows : load'.rows[d] \in Entries,
           edit' \in [Drafts -> Call], del' \in [Drafts -> Call],
           mine' \subseteq Drafts, unacked' \subseteq Drafts, behind' \subseteq Drafts,
           stale' \subseteq Drafts
    PROVE  TypeOK'
<1>1. \A d \in Drafts : row'[d] \in {NoRow} \cup [state : {"live", "deleted"}, text : 0 .. MaxText,
                                                  status : Statuses]
  BY RowTyped
<1>2. \A call \in {edit', del'} :
          call \in [Drafts -> [pc : {"idle", "asked", "found", "written"}, text : 0 .. MaxText]]
  BY DEF Call
<1>3. \A S \in {mine', unacked', behind', stale'} : S \subseteq Drafts
  OBVIOUS
<1>4. row' \in [Drafts -> {NoRow} \cup [state : {"live", "deleted"}, text : 0 .. MaxText,
                                        status : Statuses]]
  BY <1>1
<1> QED
  BY <1>2, <1>3, <1>4 DEF TypeOK, Event, Listed

LEMMA TypesAre ==
    ASSUME TypeOK, LoadOK
    PROVE  /\ \A d \in Drafts : row[d].state = "none" => row[d] = NoRow
           /\ send \in [Drafts -> {"new", "encrypting", "unsent", "out", "stored", "acked", "over"}]
           /\ told \in [Drafts -> SUBSET Receipts] /\ untold \subseteq Drafts \X Receipts
           /\ sock \in BOOLEAN
           /\ Listed \subseteq Drafts /\ \A d \in Listed : list[d] \in Entries
           /\ load.pc \in {"idle", "asked", "answered"} /\ load.late \subseteq Drafts
           /\ DOMAIN load.rows \subseteq Drafts
           /\ \A d \in DOMAIN load.rows : load.rows[d] \in Entries
           /\ edit \in [Drafts -> Call] /\ del \in [Drafts -> Call]
           /\ mine \subseteq Drafts /\ unacked \subseteq Drafts /\ behind \subseteq Drafts
           /\ stale \subseteq Drafts
<1>1. \A call \in {edit, del} : call \in [Drafts -> Call]
  BY DEF TypeOK, Call
<1>2. \A S \in {mine, unacked, behind, stale} : S \subseteq Drafts
  BY DEF TypeOK
<1>3. \A d \in Drafts : row[d].state = "none" => row[d] = NoRow
  BY RowsAre DEF Stored
<1> QED
  BY <1>1, <1>2, <1>3 DEF TypeOK, LoadOK

\* Missing or applying a change leaves the load as it is, but for what it is behind on.
LEMMA LateIs ==
    ASSUME TypeOK, LoadOK, NEW D \in SUBSET Drafts,
           load' = IF load.pc = "answered" THEN [load EXCEPT !.late = @ \cup D] ELSE load
    PROVE  /\ load' = [pc |-> load.pc, rows |-> load.rows, late |-> load'.late]
           /\ load'.pc = load.pc /\ load'.rows = load.rows
           /\ load.late \subseteq load'.late /\ load'.late \subseteq Drafts
           /\ load.pc = "answered" => D \subseteq load'.late
<1>1. load = [pc |-> load.pc, rows |-> load.rows, late |-> load.late] /\ load.late \subseteq Drafts
  BY DEF LoadOK, TypeOK
<1>2. CASE load.pc = "answered"
  <2>1. load' = [pc |-> load.pc, rows |-> load.rows, late |-> load.late \cup D]
    BY <1>1, <1>2
  <2> QED
    BY <1>1, <2>1
<1>3. CASE load.pc # "answered"
  BY <1>1, <1>3
<1> QED
  BY <1>2, <1>3

-----------------------------------------------------------------------------
(* Types                                                                   *)

LEMMA EntriesAre ==
    /\ Optimistic \in Entries /\ AckEntry \in Entries
    /\ Optimistic.id = "client" /\ AckEntry.id = "none"
  BY RankIs, OutboxAssumption DEF Optimistic, AckEntry, Entries

\* What addMessage makes of the list.
LEMMA AddMessageIs ==
    ASSUME NEW d, NEW e, AddMessage(d, e)
    PROVE  /\ d \in Listed => list' = list
           /\ d \notin Listed => /\ DOMAIN list' = Listed \cup {d} /\ list'[d] = e
                                 /\ \A x \in Listed : list'[x] = list[x]
  BY DEF AddMessage, Listed

LEMMA AddedElsewhere ==
    ASSUME NEW d, NEW e, AddMessage(d, e), NEW x, x # d
    PROVE  /\ x \in Listed <=> x \in DOMAIN list'
           /\ x \in Listed => list'[x] = list[x]
<1>1. CASE d \in Listed
  BY <1>1, AddMessageIs DEF Listed
<1>2. CASE d \notin Listed
  <2>1. DOMAIN list' = Listed \cup {d} /\ \A y \in Listed : list'[y] = list[y]
    BY <1>2, AddMessageIs
  <2> QED
    BY <2>1
<1> QED
  BY <1>1, <1>2

LEMMA AddedTyped ==
    ASSUME TypeOK, NEW d \in Drafts, NEW e \in Entries, AddMessage(d, e)
    PROVE  DOMAIN list' \subseteq Drafts /\ \A x \in DOMAIN list' : list'[x] \in Entries
<1>1. Listed \subseteq Drafts /\ \A x \in Listed : list[x] \in Entries
  BY DEF TypeOK
<1>2. CASE d \in Listed
  BY <1>1, <1>2, AddMessageIs DEF Listed
<1>3. CASE d \notin Listed
  <2>1. /\ DOMAIN list' = Listed \cup {d} /\ list'[d] = e
        /\ \A x \in Listed : list'[x] = list[x]
    BY <1>3, AddMessageIs
  <2> QED
    BY <1>1, <2>1
<1> QED
  BY <1>2, <1>3

\* The entry that a response is for becomes e, if it is there.
LEMMA EntryBecomes ==
    ASSUME NEW d, NEW e, list' = [list EXCEPT ![d] = e]
    PROVE  /\ DOMAIN list' = DOMAIN list
           /\ \A x \in DOMAIN list : list'[x] = IF x = d THEN e ELSE list[x]
  OBVIOUS

LEMMA TakeStatusIs ==
    ASSUME TypeOK, NEW d, NEW s \in Statuses, TakeStatus(d, s)
    PROVE  /\ DOMAIN list' = Listed
           /\ \A x \in Listed : x # d => list'[x] = list[x]
           /\ d \in Listed => /\ list'[d] \in Entries
                              /\ list'[d].id = list[d].id /\ list'[d].deleted = list[d].deleted
                              /\ list'[d].text = list[d].text
                              /\ list[d].id = "server" => Rank[list'[d].status] >= Rank[s]
                              /\ Rank[list'[d].status] >= Rank[list[d].status]
<1>1. CASE d \in Listed /\ list[d].id = "server" /\ Rank[s] > Rank[list[d].status]
  <2>1. list' = [list EXCEPT ![d] = [list[d] EXCEPT !.status = s]]
    BY <1>1 DEF TakeStatus
  <2>2. list[d] \in Entries
    BY <1>1 DEF TypeOK
  <2>3. [list[d] EXCEPT !.status = s] =
           [id |-> list[d].id, text |-> list[d].text, status |-> s, deleted |-> list[d].deleted]
    BY <2>2 DEF Entries
  <2> QED
    BY <1>1, <2>1, <2>2, <2>3, EntryBecomes, RankIs DEF Entries, Listed
<1>2. CASE ~(d \in Listed /\ list[d].id = "server" /\ Rank[s] > Rank[list[d].status])
  <2>1. list' = list
    BY <1>2 DEF TakeStatus
  <2>2. d \in Listed => list[d] \in Entries /\ list[d].status \in Statuses
    BY DEF TypeOK, Entries
  <2> QED
    BY <1>2, <2>1, <2>2, RankIs DEF Listed
<1> QED
  BY <1>1, <1>2

LEMMA FetchedIs ==
    ASSUME TypeOK, NEW d \in Stored
    PROVE  /\ Fetched(d) \in Entries /\ Fetched(d).id = "server"
           /\ Fetched(d).text = row[d].text /\ Fetched(d).status = row[d].status
           /\ Fetched(d).deleted <=> row[d].state = "deleted"
<1>1. row[d] \in Row
  BY RowsAre DEF Stored
<1> QED
  BY <1>1 DEF Fetched, Entries, Row

\* A message that is stored stays stored: the rows of a load are rows.
LEMMA LoadStays ==
    ASSUME LoadOK, TypeOK, row' \in [Drafts -> Row], Stored \subseteq Stored',
           load' = [pc |-> load'.pc, rows |-> load'.rows, late |-> load'.late],
           load'.rows = load.rows
    PROVE  LoadOK'
  BY DEF LoadOK

LEMMA InitTyped == Init => TypeOK /\ LoadOK
<1> SUFFICES ASSUME Init PROVE TypeOK /\ LoadOK
  OBVIOUS
<1>1. list = <<>> /\ wire = <<>> /\ NoLoad.rows = <<>>
  BY DEF Init, NoLoad
<1>2. DOMAIN list = {} /\ DOMAIN NoLoad.rows = {}
  BY <1>1
<1>3. load = [pc |-> "idle", rows |-> <<>>, late |-> {}]
  BY DEF Init, NoLoad
<1>4. NoCall \in [pc : {"idle", "asked", "found", "written"}, text : 0 .. MaxText]
  BY OutboxAssumption DEF NoCall
<1>5. LoadOK
  BY <1>2, <1>3 DEF LoadOK, NoLoad
<1> QED
  BY <1>1, <1>2, <1>3, <1>4, <1>5, RankIs DEF Init, TypeOK, Listed

LEMMA SendTyped ==
    ASSUME TypeOK, LoadOK, SendOK, NEW d \in Drafts,
           Compose(d) \/ Emit(d) \/ Store(d) \/ Acknowledge(d) \/ Refuse(d)
    PROVE  TypeOK' /\ LoadOK'
<1>1. load' = load /\ UNCHANGED <<told, untold, sock, edit, del, behind, stale>>
  BY DEF Compose, Emit, Store, Acknowledge, Refuse, server, socket, rest, history
<1>2. row' \in [Drafts -> Row] /\ Stored \subseteq Stored'
      /\ \A x \in Drafts : row'[x].state = "none" => row'[x] = NoRow
  <2>1. CASE row' = row
    BY <2>1, RowsAre, TypesAre DEF Stored
  <2>2. CASE Store(d)
    <3> DEFINE r == [state |-> "live", text |-> 1, status |-> "SENT"]
    <3>1. r \in Row /\ r.state = "live" /\ row' = [row EXCEPT ![d] = r]
      BY <2>2, RankIs, OutboxAssumption DEF Store, Row
    <3> HIDE DEF r
    <3> QED
      BY <3>1, RowsAre, TypesAre DEF Stored
  <2> QED
    BY <2>1, <2>2 DEF Compose, Emit, Acknowledge, Refuse, server
<1>3. send' \in [Drafts -> {"new", "encrypting", "unsent", "out", "stored", "acked", "over"}]
      /\ mine' \subseteq Drafts /\ unacked' \subseteq Drafts
  BY TypesAre DEF Compose, Emit, Store, Acknowledge, Refuse, socket, history
<1>4. wire' \in Seq(Event)
  <2>1. CASE wire' = wire
    BY <2>1, WireIs
  <2>2. CASE Acknowledge(d)
    <3> DEFINE e == [type |-> "ack", d |-> d, status |-> "SENT"]
    <3>1. e \in Event /\ Push(e, d \in mine)
      BY <2>2, RankIs DEF Acknowledge, Event
    <3> HIDE DEF e
    <3> QED
      BY <3>1, PushIs
  <2> QED
    BY <2>1, <2>2 DEF Compose, Emit, Store, Refuse, socket
<1>5. DOMAIN list' \subseteq Drafts /\ \A x \in DOMAIN list' : list'[x] \in Entries
  <2>1. CASE list' = list
    BY <2>1, TypesAre DEF Listed
  <2>2. CASE AddMessage(d, Optimistic)
    BY <2>2, AddedTyped, EntriesAre
  <2> QED
    BY <2>1, <2>2 DEF Compose, Emit, Store, Acknowledge, Refuse
<1>6. TypeOK'
  BY <1>1, <1>2, <1>3, <1>4, <1>5, TypesAre, Typing DEF LoadOK
<1> QED
  BY <1>1, <1>2, <1>6, LoadStays DEF LoadOK

LEMMA ReceiptTyped ==
    ASSUME TypeOK, LoadOK, NEW d \in Drafts, NEW s \in Receipts,
           WriteReceipt(d, s) \/ TellReceipt(d, s)
    PROVE  TypeOK' /\ LoadOK'
<1>0. s \in Statuses
  BY RankIs DEF Receipts
<1>1. UNCHANGED <<send, sock, mine, list, edit, del, unacked, behind>>
  BY DEF WriteReceipt, TellReceipt, socket, rest, history
<1>2. row' \in [Drafts -> Row] /\ Stored \subseteq Stored'
      /\ \A x \in Drafts : row'[x].state = "none" => row'[x] = NoRow
  <2>1. CASE row' = row
    BY <2>1, RowsAre, TypesAre DEF Stored
  <2>2. CASE WriteReceipt(d, s)
    <3> DEFINE r == [row[d] EXCEPT !.status = s]
    <3>1. row' = [row EXCEPT ![d] = r] /\ d \in Stored
      BY <2>2 DEF WriteReceipt
    <3>2. r \in Row /\ r.state = row[d].state
      BY <1>0, RowsAre DEF Row
    <3>3. r.state # "none"
      BY <3>1, <3>2 DEF Stored
    <3> HIDE DEF r
    <3> QED
      BY <3>1, <3>2, <3>3, RowsAre, TypesAre DEF Stored
  <2> QED
    BY <2>1, <2>2 DEF TellReceipt
<1>3. told' \in [Drafts -> SUBSET Receipts] /\ untold' \subseteq Drafts \X Receipts
  BY TypesAre DEF WriteReceipt, TellReceipt
<1>4. wire' \in Seq(Event)
  <2>1. CASE wire' = wire
    BY <2>1, WireIs
  <2>2. CASE TellReceipt(d, s)
    <3> DEFINE e == [type |-> "status", d |-> d, status |-> s]
    <3>1. e \in Event /\ Push(e, sock)
      BY <1>0, <2>2 DEF TellReceipt, Event
    <3> HIDE DEF e
    <3> QED
      BY <3>1, PushIs
  <2> QED
    BY <2>1, <2>2 DEF WriteReceipt, socket
<1>5. /\ load' = load \/ load' = IF load.pc = "answered" THEN [load EXCEPT !.late = @ \cup {d}] ELSE load
      /\ stale' \subseteq Drafts
  BY TypesAre DEF WriteReceipt, TellReceipt, Miss, history
<1>6. /\ load' = [pc |-> load'.pc, rows |-> load'.rows, late |-> load'.late]
      /\ load'.pc = load.pc /\ load'.rows = load.rows /\ load'.late \subseteq Drafts
  BY <1>5, LateIs, TypesAre DEF LoadOK
<1>7. TypeOK'
  BY <1>1, <1>2, <1>3, <1>4, <1>5, <1>6, TypesAre, Typing DEF Listed
<1> QED
  BY <1>2, <1>6, <1>7, LoadStays

LEMMA ReceiveTyped ==
    ASSUME TypeOK, LoadOK, Receive
    PROVE  TypeOK' /\ LoadOK'
<1> DEFINE e == Head(wire)
<1>1. e \in Event /\ wire' \in Seq(Event)
  BY TailIs DEF Receive
<1>2. UNCHANGED <<row, told, untold, sock, mine, edit, del, unacked, behind, stale>>
  BY DEF Receive, server, rest, history
<1>3. \/ TakeAck(e.d) /\ send' = [send EXCEPT ![e.d] = "over"] /\ load' = load
      \/ TakeStatus(e.d, e.status) /\ send' = send /\ Apply(e.d)
  BY DEF Receive
<1>4. e.d \in Drafts /\ e.status \in Statuses
  BY <1>1 DEF Event
<1> HIDE DEF e
<1>5. DOMAIN list' \subseteq Drafts /\ \A x \in DOMAIN list' : list'[x] \in Entries
  <2>1. CASE TakeAck(e.d)
    BY <1>4, <2>1, AddedTyped, EntriesAre DEF TakeAck
  <2>2. CASE TakeStatus(e.d, e.status)
    <3>1. \A x \in Listed : list'[x] \in Entries
      BY <1>4, <2>2, TypesAre, TakeStatusIs
    <3> QED
      BY <1>4, <2>2, <3>1, TypesAre, TakeStatusIs
  <2> QED
    BY <1>3, <2>1, <2>2
<1>6. send' \in [Drafts -> {"new", "encrypting", "unsent", "out", "stored", "acked", "over"}]
  BY <1>3, TypesAre
<1>7. /\ load' = [pc |-> load'.pc, rows |-> load'.rows, late |-> load'.late]
      /\ load'.pc = load.pc /\ load'.rows = load.rows /\ load'.late \subseteq Drafts
  BY <1>3, <1>4, LateIs, TypesAre DEF LoadOK, Apply
<1>8. row' \in [Drafts -> Row] /\ Stored \subseteq Stored'
  BY <1>2, RowsAre DEF Stored
<1>9. TypeOK'
  BY <1>1, <1>2, <1>5, <1>6, <1>7, RowsAre, TypesAre, Typing
<1> QED
  BY <1>7, <1>8, <1>9, LoadStays

LEMMA SocketTyped ==
    ASSUME TypeOK, LoadOK, (\E L \in SUBSET Drafts : Drop(L)) \/ Reconnect
    PROVE  TypeOK' /\ LoadOK'
<1>1. UNCHANGED <<row, told, untold, list, edit, del, behind>> /\ sock' \in BOOLEAN
  BY DEF Drop, Reconnect, server, rest, history
<1>2. wire' \in Seq(Event)
  <2>1. wire' = <<>> \/ wire' = wire
    BY DEF Drop, Reconnect
  <2>2. wire \in Seq(Event) /\ <<>> \in Seq(Event)
    BY WireIs, EmptySeq
  <2> QED
    BY <2>1, <2>2
<1>3. mine' \subseteq Drafts /\ unacked' \subseteq Drafts /\ stale' \subseteq Drafts
  BY TypesAre DEF Drop, Reconnect, Miss, OnWire, history
<1>4. send' \in [Drafts -> {"new", "encrypting", "unsent", "out", "stored", "acked", "over"}]
  BY TypesAre DEF Drop, Reconnect
<1>5. /\ load' = [pc |-> load'.pc, rows |-> load'.rows, late |-> load'.late]
      /\ load'.pc = load.pc /\ load'.rows = load.rows /\ load'.late \subseteq Drafts
  <2>1. OnWire("status") \in SUBSET Drafts
    BY DEF OnWire
  <2>2. \/ load' = load
        \/ load' = IF load.pc = "answered"
                   THEN [load EXCEPT !.late = @ \cup OnWire("status")] ELSE load
    BY DEF Drop, Reconnect, Miss
  <2> QED
    BY <2>1, <2>2, LateIs, TypesAre DEF LoadOK
<1>6. row' \in [Drafts -> Row] /\ Stored \subseteq Stored'
  BY <1>1, RowsAre DEF Stored
<1>7. TypeOK'
  BY <1>1, <1>2, <1>3, <1>4, <1>5, RowsAre, TypesAre, Typing DEF Listed
<1> QED
  BY <1>5, <1>6, <1>7, LoadStays

LEMMA HistoryTyped ==
    ASSUME TypeOK, LoadOK, LoadAsk \/ LoadAnswer \/ LoadApply \/ LoadFails
    PROVE  TypeOK' /\ LoadOK'
<1>1. UNCHANGED <<row, told, untold, send, sock, mine, wire, edit, del, unacked>>
  BY DEF LoadAsk, LoadAnswer, LoadApply, LoadFails, server, socket, rest, history
<1>2. row' \in [Drafts -> Row] /\ Stored' = Stored
  BY <1>1, RowsAre DEF Stored
<1>3. /\ load' = [pc |-> load'.pc, rows |-> load'.rows, late |-> load'.late]
      /\ load'.pc \in {"idle", "asked", "answered"} /\ load'.late \subseteq Drafts
      /\ DOMAIN load'.rows \subseteq Drafts
      /\ \A d \in DOMAIN load'.rows : /\ load'.rows[d] \in Entries
                                      /\ d \in Stored /\ load'.rows[d].id = "server"
  <2>1. CASE LoadAnswer
    <3>1. load' = [pc |-> "answered", rows |-> [d \in Stored |-> Fetched(d)], late |-> {}]
      BY <2>1 DEF LoadAnswer
    <3>2. Stored \subseteq Drafts
      BY DEF Stored
    <3>3. /\ load'.pc = "answered" /\ load'.late = {}
          /\ DOMAIN load'.rows = Stored /\ \A d \in Stored : load'.rows[d] = Fetched(d)
      BY <3>1
    <3> QED
      BY <3>1, <3>2, <3>3, FetchedIs
  <2>2. CASE LoadAsk \/ LoadApply \/ LoadFails
    <3>1. /\ load' = [pc |-> load'.pc, rows |-> <<>>, late |-> {}]
          /\ load'.pc \in {"idle", "asked"} /\ load'.rows = <<>> /\ load'.late = {}
      BY <2>2 DEF LoadAsk, LoadApply, LoadFails, NoLoad
    <3>2. DOMAIN load'.rows = {}
      BY <3>1
    <3> QED
      BY <3>1, <3>2
  <2> QED
    BY <2>1, <2>2
<1>4. DOMAIN list' \subseteq Drafts /\ \A d \in DOMAIN list' : list'[d] \in Entries
  <2>1. list' = list \/ list' = load.rows
    BY DEF LoadAsk, LoadAnswer, LoadApply, LoadFails
  <2> QED
    BY <2>1, TypesAre DEF Listed
<1>5. behind' \subseteq Drafts /\ stale' \subseteq Drafts
  BY TypesAre DEF LoadAsk, LoadAnswer, LoadApply, LoadFails, history
<1>6. TypeOK'
  BY <1>1, <1>2, <1>3, <1>4, <1>5, RowsAre, TypesAre, WireIs, Typing
<1> QED
  BY <1>2, <1>3, <1>6 DEF LoadOK

\* A call keeps to the type, whatever its step.
LEMMA CallStep ==
    ASSUME NEW c \in Call, NEW pc \in {"idle", "asked", "found", "written"}
    PROVE  /\ [c EXCEPT !.pc = pc] \in Call
           /\ [c EXCEPT !.pc = pc].pc = pc /\ [c EXCEPT !.pc = pc].text = c.text
  BY DEF Call

LEMMA NoCallIs == NoCall \in Call /\ NoCall.pc = "idle"
  BY OutboxAssumption DEF Call, NoCall

\* The steps of the calls of d, as the changes they make: to the row, the calls,
\* the list and what is missed.
LEMMA CallSteps ==
    ASSUME TypeOK, LoadOK, CallsOK, NEW d \in Drafts
    PROVE  /\ Press(d) =>
                 /\ d \in Listed /\ list[d].id = "server"
                 /\ edit[d].pc = "idle" /\ del[d].pc = "idle"
                 /\ edit' = edit \/ edit' = [edit EXCEPT ![d] = [edit[d] EXCEPT !.pc = "asked"]]
                 /\ del' = [del EXCEPT ![d] = [del[d] EXCEPT !.pc = "asked"]]
                 /\ UNCHANGED <<row, list, load, stale>>
           /\ EditFind(d) =>
                 /\ edit[d].pc = "asked" /\ row[d].text < MaxText
                 /\ edit' = [edit EXCEPT ![d] = [edit[d] EXCEPT !.pc = "found"]]
                 /\ UNCHANGED <<row, del, list, load, stale>>
           /\ EditWrite(d) =>
                 /\ edit[d].pc = "found"
                 /\ row' = [row EXCEPT ![d] = [row[d] EXCEPT !.text = row[d].text + 1]]
                 /\ edit' = [edit EXCEPT ![d] = [pc |-> "written", text |-> row[d].text + 1]]
                 /\ UNCHANGED <<del, list, load, stale>>
           /\ EditAnswer(d) =>
                 /\ edit[d].pc = "written"
                 /\ list' = [list EXCEPT ![d] = [list[d] EXCEPT !.text = edit[d].text]]
                 /\ edit' = [edit EXCEPT ![d] = NoCall]
                 /\ Apply(d)
                 /\ UNCHANGED <<row, del, stale>>
           /\ EditFails(d) =>
                 /\ edit' = [edit EXCEPT ![d] = NoCall]
                 /\ edit[d].pc = "written" => Miss({d})
                 /\ edit[d].pc # "written" => UNCHANGED <<load, stale>>
                 /\ UNCHANGED <<row, del, list>>
           /\ DeleteFind(d) =>
                 /\ del[d].pc = "asked"
                 /\ \/ /\ row[d].state = "deleted"
                       /\ del' = [del EXCEPT ![d] = [del[d] EXCEPT !.pc = "written"]]
                    \/ del' = [del EXCEPT ![d] = [del[d] EXCEPT !.pc = "found"]]
                 /\ UNCHANGED <<row, edit, list, load, stale>>
           /\ DeleteWrite(d) =>
                 /\ del[d].pc = "found"
                 /\ row' = [row EXCEPT ![d] = [row[d] EXCEPT !.state = "deleted", !.text = 0]]
                 /\ del' = [del EXCEPT ![d] = [del[d] EXCEPT !.pc = "written"]]
                 /\ UNCHANGED <<edit, list, load, stale>>
           /\ DeleteAnswer(d) =>
                 /\ del[d].pc = "written"
                 /\ list' = [list EXCEPT ![d] = [list[d] EXCEPT !.deleted = TRUE, !.text = 0]]
                 /\ del' = [del EXCEPT ![d] = NoCall]
                 /\ Apply(d)
                 /\ UNCHANGED <<row, edit, stale>>
           /\ DeleteFails(d) =>
                 /\ del' = [del EXCEPT ![d] = NoCall]
                 /\ del[d].pc = "written" => Miss({d})
                 /\ del[d].pc # "written" => UNCHANGED <<load, stale>>
                 /\ UNCHANGED <<row, edit, list>>
<1>1. row[d] \in Row
  BY RowsAre
<1>2. DeleteFind(d) =>
         \/ /\ row[d].state = "deleted"
            /\ del' = [del EXCEPT ![d] = [del[d] EXCEPT !.pc = "written"]]
         \/ del' = [del EXCEPT ![d] = [del[d] EXCEPT !.pc = "found"]]
  <2>1. CASE row[d].state = "deleted"
    BY <2>1 DEF DeleteFind
  <2>2. CASE row[d].state # "deleted"
    BY <2>2 DEF DeleteFind
  <2> QED
    BY <2>1, <2>2
<1>3. DeleteAnswer(d) =>
         list' = [list EXCEPT ![d] = [list[d] EXCEPT !.deleted = TRUE, !.text = 0]]
  <2>1. DeleteAnswer(d) => list' = [list EXCEPT ![d].deleted = TRUE, ![d].text = 0]
    BY DEF DeleteAnswer
  <2> QED
    BY <2>1
<1>4. DeleteWrite(d) =>
         row' = [row EXCEPT ![d] = [row[d] EXCEPT !.state = "deleted", !.text = 0]]
  BY <1>1 DEF DeleteWrite, Row
<1> QED
  BY <1>2, <1>3, <1>4 DEF Press, EditFind, EditWrite, EditAnswer, EditFails, DeleteFind, DeleteWrite,
                          DeleteAnswer, DeleteFails, server, history

CallAction(d) ==
    \/ Press(d)
    \/ EditFind(d) \/ EditWrite(d) \/ EditAnswer(d) \/ EditFails(d)
    \/ DeleteFind(d) \/ DeleteWrite(d) \/ DeleteAnswer(d) \/ DeleteFails(d)

\* Deleting a row, and an entry: two fields at once.
LEMMA RowDeleted ==
    ASSUME NEW r \in Row
    PROVE  /\ [r EXCEPT !.state = "deleted", !.text = 0] \in Row
           /\ [r EXCEPT !.state = "deleted", !.text = 0].state = "deleted"
           /\ [r EXCEPT !.state = "deleted", !.text = 0].text = 0
           /\ [r EXCEPT !.state = "deleted", !.text = 0].status = r.status
<1> DEFINE q == [r EXCEPT !.state = "deleted"]
<1>1. q \in Row /\ q.state = "deleted" /\ q.status = r.status
  BY DEF Row
<1> HIDE DEF q
<1>2. /\ [q EXCEPT !.text = 0] \in Row
      /\ [q EXCEPT !.text = 0].state = q.state /\ [q EXCEPT !.text = 0].status = q.status
      /\ [q EXCEPT !.text = 0].text = 0
  BY <1>1, OutboxAssumption DEF Row
<1> QED
  BY <1>1, <1>2 DEF q

LEMMA EntryDeleted ==
    ASSUME NEW e \in Entries
    PROVE  /\ [e EXCEPT !.deleted = TRUE, !.text = 0] \in Entries
           /\ [e EXCEPT !.deleted = TRUE, !.text = 0].deleted
           /\ [e EXCEPT !.deleted = TRUE, !.text = 0].status = e.status
           /\ [e EXCEPT !.deleted = TRUE, !.text = 0].id = e.id
<1> DEFINE q == [e EXCEPT !.deleted = TRUE]
<1>1. q \in Entries /\ q.deleted /\ q.status = e.status /\ q.id = e.id
  BY DEF Entries
<1> HIDE DEF q
<1>2. 0 \in 0 .. MaxText
  BY OutboxAssumption
<1>3. [q EXCEPT !.text = 0] \in Entries
  BY <1>1, <1>2 DEF Entries
<1>4. /\ [q EXCEPT !.text = 0].deleted = q.deleted /\ [q EXCEPT !.text = 0].status = q.status
      /\ [q EXCEPT !.text = 0].id = q.id
  BY <1>1 DEF Entries
<1> QED
  BY <1>1, <1>3, <1>4 DEF q

\* The row of d under its calls.
LEMMA CallRow ==
    ASSUME TypeOK, LoadOK, CallsOK, NEW d \in Drafts, CallAction(d)
    PROVE  /\ row' \in [Drafts -> Row] /\ Stored' = Stored
           /\ \A x \in Drafts : /\ x # d => row'[x] = row[x]
                                /\ row'[x].state = "none" => row'[x] = NoRow
                                /\ row[x].state = "deleted" => row'[x].state = "deleted"
<1>1. row \in [Drafts -> Row] /\ row[d] \in Row
  BY RowsAre
<1>2. CASE row' = row
  BY <1>1, <1>2, TypesAre DEF Stored
<1>3. CASE EditWrite(d)
  <2> DEFINE r == [row[d] EXCEPT !.text = row[d].text + 1]
  <2>1. row' = [row EXCEPT ![d] = r] /\ edit[d].pc = "found"
    BY <1>3, CallSteps
  <2>2. d \in Stored /\ row[d].text < MaxText
    BY <2>1 DEF CallsOK
  <2>3. r \in Row /\ r.state = row[d].state
    BY <1>1, <2>2, OutboxAssumption DEF Row
  <2>4. r.state # "none"
    BY <2>2, <2>3, RowsAre
  <2> HIDE DEF r
  <2> QED
    BY <1>1, <2>1, <2>3, <2>4, TypesAre DEF Stored
<1>4. CASE DeleteWrite(d)
  <2> DEFINE r == [row[d] EXCEPT !.state = "deleted", !.text = 0]
  <2>1. row' = [row EXCEPT ![d] = r] /\ del[d].pc = "found"
    BY <1>4, CallSteps
  <2>2. d \in Stored
    BY <2>1 DEF CallsOK
  <2>3. r \in Row /\ r.state = "deleted"
    BY <1>1, RowDeleted
  <2> HIDE DEF r
  <2> QED
    BY <1>1, <2>1, <2>2, <2>3, TypesAre DEF Stored
<1> QED
  BY <1>2, <1>3, <1>4, CallSteps DEF CallAction

\* The list under the calls of d: no entry comes, goes or changes its id.
LEMMA CallList ==
    ASSUME TypeOK, LoadOK, CallsOK, NEW d \in Drafts, CallAction(d)
    PROVE  /\ DOMAIN list' = Listed
           /\ \A x \in Listed : /\ list'[x] \in Entries /\ list'[x].id = list[x].id
                                /\ x # d => list'[x] = list[x]
           /\ d \in Listed /\ EditAnswer(d) =>
                 /\ list'[d].text = edit[d].text
                 /\ list'[d].deleted = list[d].deleted /\ list'[d].status = list[d].status
           /\ d \in Listed /\ DeleteAnswer(d) =>
                 list'[d].deleted /\ list'[d].status = list[d].status
<1>1. list' = list => DOMAIN list' = Listed /\ \A x \in Listed : list'[x] \in Entries
  BY TypesAre DEF Listed
<1>2. ASSUME EditAnswer(d)
      PROVE  /\ DOMAIN list' = Listed
             /\ \A x \in Listed : x # d => list'[x] = list[x]
             /\ d \in Listed =>
                   /\ list'[d] \in Entries /\ list'[d].id = list[d].id
                   /\ list'[d].text = edit[d].text
                   /\ list'[d].deleted = list[d].deleted /\ list'[d].status = list[d].status
  <2> DEFINE e == [list[d] EXCEPT !.text = edit[d].text]
  <2>1. list' = [list EXCEPT ![d] = e]
    BY <1>2, CallSteps
  <2>2. edit[d].text \in 0 .. MaxText
    BY TypesAre DEF Call
  <2>3. d \in Listed =>
           /\ e \in Entries /\ e.id = list[d].id /\ e.text = edit[d].text
           /\ e.deleted = list[d].deleted /\ e.status = list[d].status
    BY <2>2, TypesAre DEF Entries
  <2> HIDE DEF e
  <2> QED
    BY <2>1, <2>3, EntryBecomes DEF Listed
<1>3. ASSUME DeleteAnswer(d)
      PROVE  /\ DOMAIN list' = Listed
             /\ \A x \in Listed : x # d => list'[x] = list[x]
             /\ d \in Listed =>
                   /\ list'[d] \in Entries /\ list'[d].id = list[d].id
                   /\ list'[d].deleted /\ list'[d].status = list[d].status
  <2> DEFINE e == [list[d] EXCEPT !.deleted = TRUE, !.text = 0]
  <2>1. list' = [list EXCEPT ![d] = e]
    BY <1>3, CallSteps
  <2>2. d \in Listed =>
           /\ e \in Entries /\ e.id = list[d].id /\ e.deleted /\ e.status = list[d].status
    BY TypesAre, EntryDeleted
  <2> HIDE DEF e
  <2> QED
    BY <2>1, <2>2, EntryBecomes DEF Listed
<1>4. EditAnswer(d) \/ DeleteAnswer(d) \/ list' = list
  BY CallSteps DEF CallAction
<1>5. \A x \in Listed : list[x] \in Entries
  BY TypesAre
<1>6. CASE list' = list /\ ~EditAnswer(d) /\ ~DeleteAnswer(d)
  BY <1>1, <1>6
<1>7. EditAnswer(d) => edit[d].pc = "written" /\ edit' = [edit EXCEPT ![d] = NoCall] /\ del' = del
  BY CallSteps
<1>8. ~(EditAnswer(d) /\ DeleteAnswer(d))
  <2>1. DeleteAnswer(d) => edit' = edit
    BY CallSteps
  <2>2. edit[d] = NoCall => edit[d].pc = "idle"
    BY NoCallIs
  <2> QED
    BY <1>7, <2>1, <2>2, TypesAre
<1>9. CASE EditAnswer(d)
  BY <1>2, <1>5, <1>8, <1>9
<1>10. CASE DeleteAnswer(d)
  BY <1>3, <1>5, <1>8, <1>10
<1> QED
  BY <1>4, <1>6, <1>9, <1>10

\* What a call has missed or applied, the load of now is behind on.
LEMMA CallLoad ==
    ASSUME TypeOK, LoadOK, CallsOK, NEW d \in Drafts, CallAction(d)
    PROVE  /\ load' = [pc |-> load.pc, rows |-> load.rows, late |-> load'.late]
           /\ load'.pc = load.pc /\ load'.rows = load.rows
           /\ load.late \subseteq load'.late /\ load'.late \subseteq Drafts
           /\ stale \subseteq stale' /\ stale' \subseteq Drafts
           /\ EditAnswer(d) \/ DeleteAnswer(d) =>
                 (load.pc = "answered" => d \in load'.late)
           /\ EditFails(d) /\ edit[d].pc = "written" =>
                 /\ d \in stale'
                 /\ load.pc = "answered" => d \in load'.late
           /\ DeleteFails(d) /\ del[d].pc = "written" =>
                 /\ d \in stale'
                 /\ load.pc = "answered" => d \in load'.late
<1>1. /\ stale \subseteq Drafts /\ load.late \subseteq Drafts
      /\ load = [pc |-> load.pc, rows |-> load.rows, late |-> load.late]
  BY TypesAre DEF LoadOK
<1>2. CASE UNCHANGED <<load, stale>> /\ ~EditAnswer(d) /\ ~DeleteAnswer(d)
  <2>1. ~(EditFails(d) /\ edit[d].pc = "written") \/ Miss({d})
    BY CallSteps
  <2>2. ~(DeleteFails(d) /\ del[d].pc = "written") \/ Miss({d})
    BY CallSteps
  <2>3. Miss({d}) => d \in stale' /\ (load.pc = "answered" => d \in load'.late)
    BY <1>1 DEF Miss
  <2> QED
    BY <1>1, <1>2, <2>1, <2>2, <2>3
<1>3. CASE Apply(d) /\ stale' = stale
  <2>1. load' = IF load.pc = "answered" THEN [load EXCEPT !.late = @ \cup {d}] ELSE load
    BY <1>3 DEF Apply
  <2>2. EditFails(d) /\ edit[d].pc = "written" => d \in stale'
    BY CallSteps DEF Miss
  <2>3. DeleteFails(d) /\ del[d].pc = "written" => d \in stale'
    BY CallSteps DEF Miss
  <2>4. {d} \in SUBSET Drafts
    OBVIOUS
  <2> QED
    BY <1>1, <1>3, <2>1, <2>2, <2>3, <2>4, LateIs
<1>4. CASE Miss({d})
  <2>1. /\ load' = IF load.pc = "answered" THEN [load EXCEPT !.late = @ \cup {d}] ELSE load
        /\ stale' = stale \cup {d}
    BY <1>4 DEF Miss
  <2>2. {d} \in SUBSET Drafts
    OBVIOUS
  <2> QED
    BY <1>1, <2>1, <2>2, LateIs
<1>5. EditAnswer(d) \/ DeleteAnswer(d) => Apply(d) /\ stale' = stale
  BY CallSteps
<1> QED
  BY <1>2, <1>3, <1>4, <1>5, CallSteps DEF CallAction

LEMMA CallTyped ==
    ASSUME TypeOK, LoadOK, CallsOK, NEW d \in Drafts, CallAction(d)
    PROVE  TypeOK' /\ LoadOK'
<1>1. UNCHANGED <<told, untold, send, sock, mine, wire, unacked, behind>>
  BY DEF CallAction, Press, EditFind, EditWrite, EditAnswer, EditFails, DeleteFind, DeleteWrite,
         DeleteAnswer, DeleteFails, server, socket, history
<1>2. edit[d] \in Call /\ del[d] \in Call /\ edit \in [Drafts -> Call] /\ del \in [Drafts -> Call]
  BY TypesAre
<1>3. edit' \in [Drafts -> Call]
  <2>1. CASE EditWrite(d)
    <3>1. edit[d].pc = "found"
      BY <2>1, CallSteps
    <3>2. row[d].text + 1 \in 0 .. MaxText
      BY <3>1, RowsAre, OutboxAssumption DEF CallsOK, Row
    <3>3. [pc |-> "written", text |-> row[d].text + 1] \in Call
      BY <3>2 DEF Call
    <3> QED
      BY <1>2, <2>1, <3>3, CallSteps
  <2>2. CASE ~EditWrite(d)
    <3>1. \/ edit' = edit \/ edit' = [edit EXCEPT ![d] = NoCall]
          \/ edit' = [edit EXCEPT ![d] = [edit[d] EXCEPT !.pc = "asked"]]
          \/ edit' = [edit EXCEPT ![d] = [edit[d] EXCEPT !.pc = "found"]]
      BY <2>2, CallSteps DEF CallAction
    <3>2. [edit[d] EXCEPT !.pc = "asked"] \in Call /\ [edit[d] EXCEPT !.pc = "found"] \in Call
      BY <1>2, CallStep
    <3> QED
      BY <1>2, <3>1, <3>2, NoCallIs
  <2> QED
    BY <2>1, <2>2
<1>4. del' \in [Drafts -> Call]
  <2>1. \/ del' = del \/ del' = [del EXCEPT ![d] = NoCall]
        \/ del' = [del EXCEPT ![d] = [del[d] EXCEPT !.pc = "asked"]]
        \/ del' = [del EXCEPT ![d] = [del[d] EXCEPT !.pc = "found"]]
        \/ del' = [del EXCEPT ![d] = [del[d] EXCEPT !.pc = "written"]]
    BY CallSteps DEF CallAction
  <2>2. /\ [del[d] EXCEPT !.pc = "asked"] \in Call /\ [del[d] EXCEPT !.pc = "found"] \in Call
        /\ [del[d] EXCEPT !.pc = "written"] \in Call
    BY <1>2, CallStep
  <2> QED
    BY <1>2, <2>1, <2>2, NoCallIs
<1>5. DOMAIN list' \subseteq Drafts /\ \A x \in DOMAIN list' : list'[x] \in Entries
  BY CallList, TypesAre
<1>6. /\ load'.pc \in {"idle", "asked", "answered"} /\ load'.late \subseteq Drafts
      /\ \A x \in DOMAIN load'.rows : load'.rows[x] \in Entries
  BY CallLoad, TypesAre
<1>7. TypeOK'
  BY <1>1, <1>3, <1>4, <1>5, <1>6, CallRow, CallLoad, TypesAre, WireIs, Typing
<1>8. load' = [pc |-> load'.pc, rows |-> load'.rows, late |-> load'.late]
  BY CallLoad
<1> QED
  BY <1>7, <1>8, CallRow, CallLoad, LoadStays

LEMMA NextTyped ==
    TypeOK /\ LoadOK /\ SendOK /\ CallsOK /\ [Next]_vars => TypeOK' /\ LoadOK'
<1> SUFFICES ASSUME TypeOK, LoadOK, SendOK, CallsOK, [Next]_vars PROVE TypeOK' /\ LoadOK'
  OBVIOUS
<1>1. CASE \E d \in Drafts : Compose(d) \/ Emit(d) \/ Store(d) \/ Acknowledge(d) \/ Refuse(d)
  BY <1>1, SendTyped
<1>2. CASE \E d \in Drafts, s \in Receipts : WriteReceipt(d, s) \/ TellReceipt(d, s)
  BY <1>2, ReceiptTyped
<1>3. CASE \E d \in Drafts : CallAction(d)
  BY <1>3, CallTyped
<1>4. CASE Receive
  BY <1>4, ReceiveTyped
<1>5. CASE (\E L \in SUBSET Drafts : Drop(L)) \/ Reconnect
  BY <1>5, SocketTyped
<1>6. CASE LoadAsk \/ LoadAnswer \/ LoadApply \/ LoadFails
  BY <1>6, HistoryTyped
<1>7. CASE UNCHANGED vars
  <2>1. UNCHANGED <<row, told, untold, send, sock, mine, wire, list, load, edit, del,
                    unacked, behind, stale>>
    BY <1>7 DEF vars, server, socket, rest, history
  <2>2. TypeOK'
    BY <2>1 DEF TypeOK, Listed
  <2>3. LoadOK'
    BY <2>1 DEF LoadOK, Stored
  <2> QED
    BY <2>2, <2>3
<1> QED
  BY <1>1, <1>2, <1>3, <1>4, <1>5, <1>6, <1>7 DEF Next, CallAction

-----------------------------------------------------------------------------
(* The calls, and where the sends stand                                    *)

LEMMA CallsStay ==
    TypeOK /\ LoadOK /\ SendOK /\ CallsOK /\ [Next]_vars => CallsOK'
<1> SUFFICES ASSUME TypeOK, LoadOK, SendOK, CallsOK, [Next]_vars PROVE CallsOK'
  OBVIOUS
<1>0. /\ row \in [Drafts -> Row] /\ edit \in [Drafts -> Call] /\ del \in [Drafts -> Call]
  BY RowsAre, TypesAre
<1>1. CASE UNCHANGED <<row, edit, del>>
  BY <1>1 DEF CallsOK, Stored
<1>2. ASSUME NEW d \in Drafts, Store(d)
      PROVE  CallsOK'
  <2> DEFINE r == [state |-> "live", text |-> 1, status |-> "SENT"]
  <2>1. row' = [row EXCEPT ![d] = r] /\ send[d] = "out" /\ UNCHANGED <<edit, del>>
    BY <1>2 DEF Store, rest
  <2> HIDE DEF r
  <2>2. edit[d].pc = "idle" /\ del[d].pc = "idle"
    BY <2>1 DEF CallsOK, SendOK
  <2>3. \A x \in Drafts : x # d => row'[x] = row[x]
    BY <1>0, <2>1
  <2> QED
    BY <2>1, <2>2, <2>3 DEF CallsOK, Stored
<1>3. ASSUME NEW d \in Drafts, NEW s \in Receipts, WriteReceipt(d, s)
      PROVE  CallsOK'
  <2>1. row' = [row EXCEPT ![d] = [row[d] EXCEPT !.status = s]] /\ UNCHANGED <<edit, del>>
    BY <1>3 DEF WriteReceipt, rest
  <2>2. \A x \in Drafts : row'[x].state = row[x].state /\ row'[x].text = row[x].text
    BY <1>0, <2>1 DEF Row
  <2> QED
    BY <2>1, <2>2 DEF CallsOK, Stored
<1>4. ASSUME NEW d \in Drafts, CallAction(d)
      PROVE  CallsOK'
  <2>1. \A x \in Drafts : x # d => /\ row'[x] = row[x] /\ edit'[x] = edit[x] /\ del'[x] = del[x]
                                   /\ x \in Stored <=> x \in Stored'
    <3>1. \A x \in Drafts : x # d => edit'[x] = edit[x] /\ del'[x] = del[x]
      <4>1. \/ edit' = edit
            \/ \E q : edit' = [edit EXCEPT ![d] = q]
        BY <1>4, CallSteps DEF CallAction
      <4>2. \/ del' = del
            \/ \E q : del' = [del EXCEPT ![d] = q]
        BY <1>4, CallSteps DEF CallAction
      <4> QED
        BY <1>0, <4>1, <4>2
    <3> QED
      BY <1>4, <3>1, CallRow
  <2>2. /\ edit'[d].pc # "idle" \/ del'[d].pc # "idle" => d \in Stored'
        /\ edit'[d].pc = "found" => row'[d].text < MaxText
        /\ edit'[d].pc = "written" /\ row'[d].state = "live" => edit'[d].text = row'[d].text
        /\ del'[d].pc = "written" => row'[d].state = "deleted"
    <3>0. /\ edit[d].pc # "idle" \/ del[d].pc # "idle" => d \in Stored
          /\ edit[d].pc = "found" => row[d].text < MaxText
          /\ edit[d].pc = "written" /\ row[d].state = "live" => edit[d].text = row[d].text
          /\ del[d].pc = "written" => row[d].state = "deleted"
          /\ edit[d] \in Call /\ del[d] \in Call /\ row[d] \in Row
          /\ Stored' = Stored
      BY <1>0, <1>4, CallRow DEF CallsOK
    <3>1. CASE Press(d)
      <4>1. d \in Stored
        BY <3>1, CallSteps DEF SendOK
      <4>2. /\ edit[d].pc = "idle" /\ row' = row
            /\ edit' = edit \/ edit' = [edit EXCEPT ![d] = [edit[d] EXCEPT !.pc = "asked"]]
            /\ del' = [del EXCEPT ![d] = [del[d] EXCEPT !.pc = "asked"]]
        BY <3>1, CallSteps
      <4>3. edit'[d].pc \in {"idle", "asked"} /\ del'[d].pc = "asked"
        <5>1. [edit[d] EXCEPT !.pc = "asked"].pc = "asked" /\ [del[d] EXCEPT !.pc = "asked"].pc = "asked"
          BY <3>0, CallStep
        <5> QED
          BY <1>0, <4>2, <5>1
      <4> QED
        BY <3>0, <4>1, <4>2, <4>3
    <3>2. CASE EditFind(d)
      <4>1. /\ row[d].text < MaxText /\ row' = row /\ del' = del /\ edit[d].pc = "asked"
            /\ edit' = [edit EXCEPT ![d] = [edit[d] EXCEPT !.pc = "found"]]
        BY <3>2, CallSteps
      <4>2. edit'[d].pc = "found"
        BY <1>0, <3>0, <4>1, CallStep
      <4> QED
        BY <3>0, <4>1, <4>2
    <3>3. CASE EditWrite(d)
      <4>1. /\ edit[d].pc = "found" /\ del' = del
            /\ row' = [row EXCEPT ![d] = [row[d] EXCEPT !.text = row[d].text + 1]]
            /\ edit' = [edit EXCEPT ![d] = [pc |-> "written", text |-> row[d].text + 1]]
        BY <3>3, CallSteps
      <4>2. edit'[d].pc = "written" /\ edit'[d].text = row[d].text + 1
        BY <1>0, <4>1
      <4>3. row'[d].text = row[d].text + 1 /\ row'[d].state = row[d].state
        BY <1>0, <3>0, <4>1 DEF Row
      <4> QED
        BY <3>0, <4>1, <4>2, <4>3
    <3>4. CASE EditAnswer(d) \/ EditFails(d)
      <4>1. edit'[d] = NoCall /\ row' = row /\ del' = del
        BY <1>0, <3>4, CallSteps
      <4> QED
        BY <3>0, <4>1, NoCallIs
    <3>5. CASE DeleteFind(d)
      <4>1. /\ del'[d].pc = "found" \/ (del'[d].pc = "written" /\ row[d].state = "deleted")
            /\ row' = row /\ edit' = edit /\ del[d].pc = "asked"
        <5>1. /\ [del[d] EXCEPT !.pc = "found"].pc = "found"
              /\ [del[d] EXCEPT !.pc = "written"].pc = "written"
          BY <3>0, CallStep
        <5> QED
          BY <1>0, <3>5, <5>1, CallSteps
      <4> QED
        BY <3>0, <4>1
    <3>6. CASE DeleteWrite(d)
      <4>1. /\ edit' = edit /\ del[d].pc = "found"
            /\ row' = [row EXCEPT ![d] = [row[d] EXCEPT !.state = "deleted", !.text = 0]]
            /\ del' = [del EXCEPT ![d] = [del[d] EXCEPT !.pc = "written"]]
        BY <3>6, CallSteps
      <4>2. row'[d].state = "deleted" /\ row'[d].text = 0
        BY <1>0, <3>0, <4>1, RowDeleted
      <4>3. del'[d].pc = "written" /\ 0 < MaxText
        BY <1>0, <3>0, <4>1, CallStep, OutboxAssumption
      <4> QED
        BY <3>0, <4>1, <4>2, <4>3
    <3>7. CASE DeleteAnswer(d) \/ DeleteFails(d)
      <4>1. del'[d] = NoCall /\ row' = row /\ edit' = edit
        BY <1>0, <3>7, CallSteps
      <4> QED
        BY <3>0, <4>1, NoCallIs
    <3> QED
      BY <1>4, <3>1, <3>2, <3>3, <3>4, <3>5, <3>6, <3>7 DEF CallAction
  <2> QED
    BY <2>1, <2>2 DEF CallsOK
<1> QED
  BY <1>1, <1>2, <1>3, <1>4
  DEF Next, CallAction, Compose, Emit, Acknowledge, Refuse, TellReceipt, Receive, Drop, Reconnect,
      LoadAsk, LoadAnswer, LoadApply, LoadFails, server, rest, vars

LEMMA PushOnWire ==
    ASSUME TypeOK, NEW e \in Event, NEW up, Push(e, up), NEW x, NEW type, x \in OnWire(type)'
    PROVE  x \in OnWire(type) \/ (e.type = type /\ e.d = x)
<1>1. wire' \in Seq(Event) /\ DOMAIN wire' = 1 .. Len(wire') /\ Len(wire) \in Nat
  BY PushIs, WireIs, LenProperties
<1>2. PICK i \in 1 .. Len(wire') : wire'[i].type = type /\ wire'[i].d = x
  BY <1>1 DEF OnWire
<1>3. wire'[i] = e \/ (i \in 1 .. Len(wire) /\ wire'[i] = wire[i])
  <2>1. CASE ~up
    BY <1>2, <2>1, PushIs
  <2>2. CASE up
    <3>1. /\ Len(wire') = Len(wire) + 1
          /\ \A j \in 1 .. Len(wire) : wire'[j] = wire[j]
          /\ wire'[Len(wire) + 1] = e
      BY <2>2, PushIs
    <3>2. i = Len(wire) + 1 \/ i \in 1 .. Len(wire)
      BY <1>1, <3>1
    <3> QED
      BY <3>1, <3>2
  <2> QED
    BY <2>1, <2>2
<1> QED
  BY <1>2, <1>3, WireIs DEF OnWire

LEMMA TailOnWire ==
    ASSUME TypeOK, wire # <<>>, wire' = Tail(wire), NEW x, NEW type, x \in OnWire(type)'
    PROVE  x \in OnWire(type)
<1>1. wire' \in Seq(Event) /\ DOMAIN wire' = 1 .. Len(wire')
  BY TailIs, LenProperties
<1>2. PICK i \in 1 .. Len(wire') : wire'[i].type = type /\ wire'[i].d = x
  BY <1>1 DEF OnWire
<1> QED
  BY <1>2, TailIs, WireIs DEF OnWire

\* Where the send of d stands.
Standing(d) ==
    /\ d \in Stored => send[d] \in {"stored", "acked", "over"}
    /\ send[d] \in {"stored", "acked"} => d \in Stored
    /\ send[d] \notin Sent => d \notin Listed
    /\ send[d] = "over" /\ d \notin Stored => d \in unacked
    /\ send[d] \in Sent /\ d \notin behind => d \in Listed /\ list[d].id # "none"
    /\ d \in Listed /\ list[d].id = "server" => d \in Stored
    /\ d \in OnWire("ack") => d \in Stored

LEMMA SendParts == SendOK <=> \A d \in Drafts : Standing(d)
  BY DEF SendOK, Standing

LEMMA StandingStays ==
    ASSUME SendOK, NEW d \in Drafts,
           d \in Stored <=> d \in Stored', send'[d] = send[d],
           d \in Listed <=> d \in Listed',
           d \in Listed => list'[d].id = list[d].id,
           d \in unacked => d \in unacked', d \in behind => d \in behind',
           d \in OnWire("ack")' => d \in OnWire("ack")
    PROVE  Standing(d)'
  BY DEF SendOK, Standing

LEMMA SendOfSend ==
    ASSUME TypeOK, LoadOK, SendOK, NEW d \in Drafts,
           Compose(d) \/ Emit(d) \/ Store(d) \/ Acknowledge(d) \/ Refuse(d)
    PROVE  \A x \in Drafts : Standing(x)'
<1>0. /\ send \in [Drafts -> {"new", "encrypting", "unsent", "out", "stored", "acked", "over"}]
      /\ row \in [Drafts -> Row] /\ Standing(d) /\ Listed \subseteq Drafts
  BY TypesAre, RowsAre, SendParts
<1>1. ASSUME NEW x \in Drafts, x # d
      PROVE  Standing(x)'
  <2>1. /\ send'[x] = send[x] /\ row'[x] = row[x] /\ behind' = behind
        /\ x \in unacked => x \in unacked'
    BY <1>0, <1>1 DEF Compose, Emit, Store, Acknowledge, Refuse, server, history
  <2>2. list' = list \/ AddMessage(d, Optimistic)
    BY DEF Compose, Emit, Store, Acknowledge, Refuse
  <2>3. (x \in Listed <=> x \in Listed') /\ (x \in Listed => list'[x] = list[x])
    BY <1>1, <2>2, AddedElsewhere DEF Listed
  <2>4. x \in OnWire("ack")' => x \in OnWire("ack")
    <3>1. CASE wire' = wire
      BY <3>1 DEF OnWire
    <3>2. CASE Acknowledge(d)
      <4> DEFINE e == [type |-> "ack", d |-> d, status |-> "SENT"]
      <4>1. e \in Event /\ Push(e, d \in mine) /\ e.d = d
        BY <3>2, RankIs DEF Acknowledge, Event
      <4> HIDE DEF e
      <4> QED
        BY <1>1, <4>1, PushOnWire
    <3> QED
      BY <3>1, <3>2 DEF Compose, Emit, Store, Refuse, socket
  <2>5. x \in Stored <=> x \in Stored'
    BY <2>1 DEF Stored
  <2> QED
    BY <2>1, <2>3, <2>4, <2>5, StandingStays
<1>2. Standing(d)'
  <2>1. CASE Compose(d)
    <3>1. /\ send[d] = "new" /\ send'[d] = "encrypting"
          /\ UNCHANGED <<row, list, unacked, behind, wire>>
      BY <1>0, <2>1 DEF Compose, server, socket, history
    <3> QED
      BY <1>0, <3>1 DEF Standing, Stored, Listed, OnWire, Sent
  <2>2. CASE Emit(d)
    <3>1. /\ send[d] = "encrypting" /\ UNCHANGED <<row, unacked, behind, wire>>
          /\ \/ send'[d] = "out" /\ AddMessage(d, Optimistic)
             \/ send'[d] = "unsent" /\ list' = list
      BY <1>0, <2>2 DEF Emit, server, history
    <3>2. d \notin Listed /\ d \notin Stored
      BY <1>0, <3>1 DEF Standing, Sent
    <3>3. CASE send'[d] = "out" /\ AddMessage(d, Optimistic)
      <4>1. d \in Listed' /\ list'[d].id = "client"
        BY <3>2, <3>3, AddMessageIs, EntriesAre DEF Listed
      <4> QED
        BY <1>0, <3>1, <3>2, <3>3, <4>1 DEF Standing, Stored, OnWire, Sent
    <3>4. CASE send'[d] = "unsent" /\ list' = list
      BY <1>0, <3>1, <3>2, <3>4 DEF Standing, Stored, Listed, OnWire, Sent
    <3> QED
      BY <3>1, <3>3, <3>4
  <2>3. CASE Store(d)
    <3> DEFINE r == [state |-> "live", text |-> 1, status |-> "SENT"]
    <3>1. /\ send[d] = "out" /\ send'[d] = "stored" /\ row'[d] = r /\ r.state = "live"
          /\ UNCHANGED <<list, unacked, behind, wire>>
      BY <1>0, <2>3 DEF Store, socket, history
    <3> HIDE DEF r
    <3>2. d \in Stored'
      BY <3>1 DEF Stored
    <3> QED
      BY <1>0, <3>1, <3>2 DEF Standing, Listed, OnWire, Sent
  <2>4. CASE Acknowledge(d)
    <3>1. /\ send[d] = "stored" /\ send'[d] \in {"acked", "over"}
          /\ UNCHANGED <<row, list, unacked, behind>>
      BY <1>0, <2>4 DEF Acknowledge, server, history
    <3>2. d \in Stored /\ d \in Stored'
      BY <1>0, <3>1 DEF Standing, Stored
    <3> QED
      BY <1>0, <3>1, <3>2 DEF Standing, Listed, Sent
  <2>5. CASE Refuse(d)
    <3>1. /\ send[d] \in {"out", "stored"} /\ send'[d] = "over" /\ d \in unacked'
          /\ UNCHANGED <<row, list, behind, wire>>
      BY <1>0, <2>5 DEF Refuse, server, socket
    <3> QED
      BY <1>0, <3>1 DEF Standing, Stored, Listed, OnWire, Sent
  <2> QED
    BY <2>1, <2>2, <2>3, <2>4, <2>5
<1> QED
  BY <1>1, <1>2

LEMMA SendOfReceive ==
    ASSUME TypeOK, LoadOK, SendOK, Receive, NEW x \in Drafts
    PROVE  Standing(x)'
<1> DEFINE e == Head(wire)
<1>1. e \in Event /\ wire # <<>> /\ wire' = Tail(wire)
  BY TailIs DEF Receive
<1>2. UNCHANGED <<row, unacked, behind>>
  BY DEF Receive, server, history
<1>3. \/ /\ e.type = "ack" /\ TakeAck(e.d) /\ send' = [send EXCEPT ![e.d] = "over"]
      \/ TakeStatus(e.d, e.status) /\ send' = send
  BY DEF Receive
<1>4. e.d \in Drafts /\ e.status \in Statuses
  BY <1>1 DEF Event
<1>5. e.type = "ack" => e.d \in OnWire("ack")
  <2>1. 1 \in 1 .. Len(wire) /\ wire[1] = e
    BY <1>1, TailIs
  <2> QED
    BY <1>4, <2>1, WireIs
<1> HIDE DEF e
<1>6. x \in OnWire("ack")' => x \in OnWire("ack")
  BY <1>1, TailOnWire
<1>7. x \in Stored <=> x \in Stored'
  BY <1>2 DEF Stored
<1>8. send \in [Drafts -> {"new", "encrypting", "unsent", "out", "stored", "acked", "over"}]
  BY TypesAre
<1>9. CASE e.type = "ack" /\ TakeAck(e.d) /\ send' = [send EXCEPT ![e.d] = "over"]
  <2>1. AddMessage(e.d, AckEntry)
    BY <1>9 DEF TakeAck
  <2>2. CASE x # e.d
    <3>1. (x \in Listed <=> x \in Listed') /\ (x \in Listed => list'[x] = list[x])
      BY <2>1, <2>2, AddedElsewhere DEF Listed
    <3> QED
      BY <1>2, <1>6, <1>7, <1>8, <1>9, <2>2, <3>1, StandingStays
  <2>3. CASE x = e.d
    <3>1. Standing(x) /\ x \in Stored /\ send[x] \in Sent /\ send'[x] = "over"
      BY <1>5, <1>8, <1>9, <2>3, SendParts DEF Standing, Sent
    <3>2. CASE x \in Listed
      BY <1>2, <1>7, <2>1, <2>3, <3>1, <3>2, AddMessageIs DEF Standing, Listed, Sent
    <3>3. CASE x \notin Listed
      <4>1. x \in Listed' /\ list'[x].id = "none" /\ x \in behind
        BY <2>1, <2>3, <3>1, <3>3, AddMessageIs, EntriesAre DEF Standing, Listed
      <4> QED
        BY <1>2, <1>7, <3>1, <4>1 DEF Standing, Sent
    <3> QED
      BY <3>2, <3>3
  <2> QED
    BY <2>2, <2>3
<1>10. CASE TakeStatus(e.d, e.status) /\ send' = send
  <2>1. (x \in Listed <=> x \in Listed') /\ (x \in Listed => list'[x].id = list[x].id)
    BY <1>4, <1>10, TakeStatusIs DEF Listed
  <2> QED
    BY <1>2, <1>6, <1>7, <1>10, <2>1, StandingStays
<1> QED
  BY <1>3, <1>9, <1>10

LEMMA SendOfDrop ==
    ASSUME TypeOK, LoadOK, SendOK, NEW L, Drop(L), NEW x \in Drafts
    PROVE  Standing(x)'
<1>1. /\ wire' = <<>> /\ DOMAIN wire' = {}
      /\ L \subseteq {d \in mine : send[d] = "out"}
      /\ send'[x] = IF x \in L \cup OnWire("ack") THEN "over" ELSE send[x]
      /\ unacked' = unacked \cup {d \in mine : send[d] \in {"out", "stored", "acked"}}
      /\ UNCHANGED <<row, list, behind>>
  BY DEF Drop, server
<1>2. x \notin OnWire("ack")'
  BY <1>1 DEF OnWire
<1>3. (x \in Stored <=> x \in Stored') /\ (x \in Listed <=> x \in Listed')
  BY <1>1 DEF Stored, Listed
<1>4. CASE x \notin L \cup OnWire("ack")
  BY <1>1, <1>2, <1>3, <1>4, StandingStays
<1>5. CASE x \in L \cup OnWire("ack")
  <2>1. Standing(x) /\ send'[x] = "over" /\ (x \in Stored \/ x \in unacked') /\ send[x] \in Sent
    BY <1>1, <1>5, SendParts DEF Standing, Sent
  <2> QED
    BY <1>1, <1>2, <1>3, <2>1 DEF Standing, Sent
<1> QED
  BY <1>4, <1>5

LEMMA SendOfApply ==
    ASSUME TypeOK, LoadOK, SendOK, LoadApply, NEW x \in Drafts
    PROVE  Standing(x)'
<1>1. /\ list' = load.rows /\ behind' = (behind \cup Listed) \ DOMAIN load.rows
      /\ UNCHANGED <<row, send, wire, unacked>>
  BY DEF LoadApply, server, socket
<1>2. x \in DOMAIN load.rows => x \in Stored /\ load.rows[x].id = "server"
  BY DEF LoadOK
<1>3. Standing(x) /\ (x \in Stored <=> x \in Stored') /\ OnWire("ack")' = OnWire("ack")
  BY <1>1, SendParts DEF Stored, OnWire
<1> QED
  BY <1>1, <1>2, <1>3 DEF Standing, Listed, Sent

LEMMA SendStays == TypeOK /\ LoadOK /\ SendOK /\ CallsOK /\ [Next]_vars => SendOK'
<1> SUFFICES ASSUME TypeOK, LoadOK, SendOK, CallsOK, [Next]_vars, NEW x \in Drafts
             PROVE  Standing(x)'
  BY DEF SendOK, Standing
<1>1. CASE \E d \in Drafts : Compose(d) \/ Emit(d) \/ Store(d) \/ Acknowledge(d) \/ Refuse(d)
  BY <1>1, SendOfSend
<1>2. ASSUME NEW d \in Drafts, NEW s \in Receipts, WriteReceipt(d, s)
      PROVE  Standing(x)'
  <2>1. /\ row' = [row EXCEPT ![d] = [row[d] EXCEPT !.status = s]]
        /\ UNCHANGED <<send, list, wire, unacked, behind>>
    BY <1>2 DEF WriteReceipt, socket, history
  <2>2. row'[x].state = row[x].state
    BY <2>1, RowsAre DEF Row
  <2> QED
    BY <2>1, <2>2, StandingStays DEF Stored, Listed, OnWire
<1>3. ASSUME NEW d \in Drafts, NEW s \in Receipts, TellReceipt(d, s)
      PROVE  Standing(x)'
  <2> DEFINE e == [type |-> "status", d |-> d, status |-> s]
  <2>1. /\ e \in Event /\ e.type = "status" /\ Push(e, sock)
        /\ UNCHANGED <<row, send, list, unacked, behind>>
    BY <1>3, RankIs DEF TellReceipt, Event, Receipts
  <2> HIDE DEF e
  <2>2. x \in OnWire("ack")' => x \in OnWire("ack")
    BY <2>1, PushOnWire
  <2> QED
    BY <2>1, <2>2, StandingStays DEF Stored, Listed
<1>4. ASSUME NEW d \in Drafts, CallAction(d)
      PROVE  Standing(x)'
  <2>1. UNCHANGED <<send, wire, unacked, behind>>
    BY <1>4 DEF CallAction, Press, EditFind, EditWrite, EditAnswer, EditFails, DeleteFind, DeleteWrite,
                DeleteAnswer, DeleteFails, server, socket, history
  <2>2. /\ Stored' = Stored /\ (x \in Listed <=> x \in Listed')
        /\ x \in Listed => list'[x].id = list[x].id
    BY <1>4, CallRow, CallList DEF Listed
  <2> QED
    BY <2>1, <2>2, StandingStays DEF OnWire
<1>5. CASE Receive
  BY <1>5, SendOfReceive
<1>6. CASE \E L \in SUBSET Drafts : Drop(L)
  BY <1>6, SendOfDrop
<1>7. CASE LoadApply
  BY <1>7, SendOfApply
<1>8. CASE UNCHANGED <<row, send, list, wire, unacked, behind>>
  BY <1>8, StandingStays DEF Stored, Listed, OnWire
<1> QED
  BY <1>1, <1>2, <1>3, <1>4, <1>5, <1>6, <1>7, <1>8
  DEF Next, CallAction, Reconnect, LoadAsk, LoadAnswer, LoadFails, server, socket, history, vars

-----------------------------------------------------------------------------
(* Entries and rows                                                        *)

LEMMA FollowsParts == FollowsOK <=> \A d \in Drafts : ListFollows(d) /\ LoadFollows(d)
  BY DEF FollowsOK

\* What is to be told stays so, as long as the wire only grows.
LEMMA TellingStays ==
    ASSUME TypeOK, NEW d \in Drafts, row'[d].status = row[d].status,
           <<d, row[d].status>> \in untold => <<d, row[d].status>> \in untold',
           wire' = wire \/ \E e \in Event : \E up : Push(e, up),
           Telling(d)
    PROVE  Telling(d)'
<1>1. CASE <<d, row[d].status>> \in untold
  BY <1>1 DEF Telling
<1>2. CASE \E i \in 1 .. Len(wire) : /\ wire[i].type = "status" /\ wire[i].d = d
                                     /\ wire[i].status = row[d].status
  <2>1. PICK i \in 1 .. Len(wire) : /\ wire[i].type = "status" /\ wire[i].d = d
                                    /\ wire[i].status = row[d].status
    BY <1>2
  <2>2. i \in 1 .. Len(wire') /\ wire'[i] = wire[i]
    <3>1. CASE wire' = wire
      BY <3>1
    <3>2. ASSUME NEW e \in Event, NEW up, Push(e, up)
          PROVE  i \in 1 .. Len(wire') /\ wire'[i] = wire[i]
      <4>1. Len(wire) \in Nat
        BY WireIs
      <4>2. CASE up
        BY <3>2, <4>1, <4>2, PushIs
      <4>3. CASE ~up
        BY <3>2, <4>3, PushIs
      <4> QED
        BY <4>2, <4>3
    <3> QED
      BY <3>1, <3>2
  <2> QED
    BY <2>1, <2>2 DEF Telling
<1> QED
  BY <1>1, <1>2 DEF Telling

\* Nothing of d changes but that more may have been missed, or be on its way.
LEMMA ListKeeps ==
    ASSUME FollowsOK, NEW d \in Drafts, row'[d] = row[d],
           d \in Listed' /\ list'[d].id = "server" => d \in Listed /\ list'[d] = list[d],
           d \in stale => d \in stale',
           d \notin stale' => /\ del[d].pc = "written" => del'[d].pc = "written"
                              /\ edit[d].pc = "written" => edit'[d].pc = "written"
                              /\ Telling(d) => Telling(d)'
    PROVE  ListFollows(d)'
<1> SUFFICES ASSUME d \in Listed', list'[d].id = "server"
             PROVE  Follows(list'[d], d \in stale', row'[d], del'[d].pc, edit'[d].pc, Telling(d)')
  BY DEF ListFollows
<1>1. Follows(list[d], d \in stale, row[d], del[d].pc, edit[d].pc, Telling(d)) /\ list'[d] = list[d]
  BY DEF FollowsOK, ListFollows
<1> QED
  BY <1>1 DEF Follows

LEMMA LoadKeeps ==
    ASSUME FollowsOK, NEW d \in Drafts, row'[d] = row[d],
           load'.pc = load.pc, load'.rows = load.rows, load.late \subseteq load'.late,
           load.pc = "answered" /\ d \notin load'.late =>
              /\ del[d].pc = "written" => del'[d].pc = "written"
              /\ edit[d].pc = "written" => edit'[d].pc = "written"
              /\ Telling(d) => Telling(d)'
    PROVE  LoadFollows(d)'
<1> SUFFICES ASSUME load.pc = "answered", d \in DOMAIN load.rows
             PROVE  Follows(load.rows[d], d \in load'.late, row'[d], del'[d].pc, edit'[d].pc,
                            Telling(d)')
  BY DEF LoadFollows
<1>1. Follows(load.rows[d], d \in load.late, row[d], del[d].pc, edit[d].pc, Telling(d))
  BY DEF FollowsOK, LoadFollows
<1> QED
  BY <1>1 DEF Follows

\* The two together, for a draft of which nothing changes.
LEMMA BothKeep ==
    ASSUME FollowsOK, NEW d \in Drafts, row'[d] = row[d],
           d \in Listed' /\ list'[d].id = "server" => d \in Listed /\ list'[d] = list[d],
           stale \subseteq stale',
           load'.pc = load.pc, load'.rows = load.rows, load.late \subseteq load'.late,
           del'[d].pc = del[d].pc, edit'[d].pc = edit[d].pc, Telling(d) => Telling(d)'
    PROVE  ListFollows(d)' /\ LoadFollows(d)'
<1>1. ListFollows(d)'
  BY ListKeeps
<1>2. LoadFollows(d)'
  BY LoadKeeps
<1> QED
  BY <1>1, <1>2

LEMMA FollowsOfSend ==
    ASSUME TypeOK, LoadOK, SendOK, FollowsOK, NEW d \in Drafts,
           Compose(d) \/ Emit(d) \/ Store(d) \/ Acknowledge(d) \/ Refuse(d), NEW x \in Drafts
    PROVE  ListFollows(x)' /\ LoadFollows(x)'
<1>1. UNCHANGED <<untold, edit, del, load, stale>>
  BY DEF Compose, Emit, Store, Acknowledge, Refuse, server, rest, history
<1>2. x \in Listed' /\ list'[x].id = "server" => x \in Listed /\ list'[x] = list[x]
  <2>1. CASE list' = list
    BY <2>1 DEF Listed
  <2>2. CASE AddMessage(d, Optimistic)
    <3>1. CASE x = d
      BY <2>2, <3>1, AddMessageIs, EntriesAre DEF Listed
    <3>2. CASE x # d
      BY <2>2, <3>2, AddedElsewhere DEF Listed
    <3> QED
      BY <3>1, <3>2
  <2> QED
    BY <2>1, <2>2 DEF Compose, Emit, Store, Acknowledge, Refuse
<1>3. wire' = wire \/ \E e \in Event : \E up : Push(e, up)
  <2>1. CASE Acknowledge(d)
    <3>1. [type |-> "ack", d |-> d, status |-> "SENT"] \in Event
      BY RankIs DEF Event
    <3> QED
      BY <2>1, <3>1 DEF Acknowledge
  <2> QED
    BY <2>1 DEF Compose, Emit, Store, Refuse, socket
<1>4. CASE row'[x] = row[x]
  <2>1. Telling(x) => Telling(x)'
    BY <1>1, <1>3, <1>4, TellingStays
  <2> QED
    BY <1>1, <1>2, <1>4, <2>1, BothKeep
<1>5. CASE row'[x] # row[x]
  <2>1. x = d /\ Store(d)
    BY <1>5, RowsAre DEF Compose, Emit, Store, Acknowledge, Refuse, server
  <2>2. send[x] = "out" /\ list' = list
    BY <2>1 DEF Store
  <2>3. x \notin Stored
    BY <2>2 DEF SendOK
  <2>4. ~(x \in Listed /\ list[x].id = "server") /\ x \notin DOMAIN load.rows
    BY <2>3 DEF SendOK, LoadOK
  <2> QED
    BY <1>1, <2>2, <2>4 DEF ListFollows, LoadFollows, Listed
<1> QED
  BY <1>4, <1>5

LEMMA FollowsOfWrite ==
    ASSUME TypeOK, LoadOK, FollowsOK, NEW d \in Drafts, NEW s \in Receipts, WriteReceipt(d, s),
           NEW x \in Drafts
    PROVE  ListFollows(x)' /\ LoadFollows(x)'
<1>1. /\ row' = [row EXCEPT ![d] = [row[d] EXCEPT !.status = s]]
      /\ untold' = untold \cup {<<d, s>>}
      /\ UNCHANGED <<wire, list, edit, del, load, stale>>
  BY DEF WriteReceipt, socket, rest, history
<1>2. row \in [Drafts -> Row]
  BY RowsAre
<1>3. CASE x # d
  <2>1. row'[x] = row[x]
    BY <1>1, <1>2, <1>3
  <2>2. Telling(x) => Telling(x)'
    BY <1>1, <2>1, TellingStays
  <2> QED
    BY <1>1, <2>1, <2>2, BothKeep DEF Listed
<1>4. CASE x = d
  <2>1. row'[x].status = s /\ row'[x].state = row[x].state /\ row'[x].text = row[x].text
    BY <1>1, <1>2, <1>4 DEF Row
  <2>2. Telling(x)'
    BY <1>1, <1>4, <2>1 DEF Telling
  <2>3. ListFollows(x) /\ LoadFollows(x)
    BY DEF FollowsOK
  <2> QED
    BY <1>1, <2>1, <2>2, <2>3 DEF ListFollows, LoadFollows, Listed, Follows
<1> QED
  BY <1>3, <1>4

LEMMA FollowsOfTell ==
    ASSUME TypeOK, LoadOK, FollowsOK, NEW d \in Drafts, NEW s \in Receipts, TellReceipt(d, s),
           NEW x \in Drafts
    PROVE  ListFollows(x)' /\ LoadFollows(x)'
<1> DEFINE e == [type |-> "status", d |-> d, status |-> s]
<1>1. /\ e \in Event /\ e.type = "status" /\ e.d = d /\ e.status = s
      /\ Push(e, sock) /\ untold' = untold \ {<<d, s>>}
      /\ sock => UNCHANGED <<stale, load>>
      /\ ~sock => Miss({d})
      /\ UNCHANGED <<row, list, edit, del>>
  BY RankIs DEF TellReceipt, Event, Receipts, rest
<1> HIDE DEF e
<1>2. /\ load'.pc = load.pc /\ load'.rows = load.rows /\ load.late \subseteq load'.late
      /\ stale \subseteq stale'
      /\ ~sock => d \in stale' /\ (load.pc = "answered" => d \in load'.late)
  <2>1. CASE sock
    BY <1>1, <2>1
  <2>2. CASE ~sock
    <3>1. /\ stale' = stale \cup {d}
          /\ load' = IF load.pc = "answered" THEN [load EXCEPT !.late = @ \cup {d}] ELSE load
      BY <1>1, <2>2 DEF Miss
    <3>2. {d} \in SUBSET Drafts
      OBVIOUS
    <3>3. /\ load'.pc = load.pc /\ load'.rows = load.rows /\ load.late \subseteq load'.late
          /\ load.pc = "answered" => {d} \subseteq load'.late
      BY <3>1, <3>2, LateIs
    <3> QED
      BY <2>2, <3>1, <3>3
  <2> QED
    BY <2>1, <2>2
<1>3. CASE x = d /\ ~sock
  <2>1. ListFollows(x)'
    BY <1>1, <1>2, <1>3, ListKeeps DEF Listed
  <2>2. LoadFollows(x)'
    BY <1>1, <1>2, <1>3, LoadKeeps
  <2> QED
    BY <2>1, <2>2
<1>4. CASE x # d \/ sock
  <2>1. ASSUME Telling(x)
        PROVE  Telling(x)'
    <3>1. CASE <<x, row[x].status>> = <<d, s>> /\ sock
      <4>1. Len(wire') = Len(wire) + 1 /\ wire'[Len(wire) + 1] = e /\ Len(wire) \in Nat
        BY <1>1, <3>1, PushIs, WireIs
      <4>2. Len(wire) + 1 \in 1 .. Len(wire')
        BY <4>1
      <4> QED
        BY <1>1, <3>1, <4>1, <4>2 DEF Telling
    <3>2. CASE <<x, row[x].status>> # <<d, s>>
      BY <1>1, <2>1, <3>2, TellingStays
    <3> QED
      BY <1>4, <3>1, <3>2
  <2> QED
    BY <1>1, <1>2, <2>1, BothKeep DEF Listed
<1> QED
  BY <1>3, <1>4

LEMMA FollowsOfReceive ==
    ASSUME TypeOK, LoadOK, FollowsOK, Receive, NEW x \in Drafts
    PROVE  ListFollows(x)' /\ LoadFollows(x)'
<1> DEFINE e == Head(wire)
<1>1. e \in Event /\ wire # <<>> /\ wire' = Tail(wire) /\ e.d \in Drafts /\ e.status \in Statuses
  BY TailIs DEF Receive, Event
<1>2. UNCHANGED <<row, untold, edit, del, stale>>
  BY DEF Receive, server, rest, history
<1>3. \/ e.type = "ack" /\ TakeAck(e.d) /\ load' = load
      \/ e.type = "status" /\ TakeStatus(e.d, e.status) /\ Apply(e.d)
  BY DEF Receive
<1>4. Telling(x) => \/ Telling(x)'
                    \/ e.type = "status" /\ e.d = x /\ e.status = row[x].status
  <2> SUFFICES ASSUME NEW i \in 1 .. Len(wire), wire[i].type = "status", wire[i].d = x,
                      wire[i].status = row[x].status
               PROVE  \/ Telling(x)'
                      \/ e.type = "status" /\ e.d = x /\ e.status = row[x].status
    BY <1>2 DEF Telling
  <2>1. CASE i = 1
    BY <1>1, <2>1, TailIs
  <2>2. CASE i # 1
    <3>1. i - 1 \in 1 .. Len(wire') /\ (i - 1) + 1 = i
      BY <1>1, <2>2, TailIs
    <3>2. wire'[i - 1] = wire[i]
      BY <1>1, <3>1, TailIs
    <3> QED
      BY <1>2, <3>1, <3>2 DEF Telling
  <2> QED
    BY <2>1, <2>2
<1> HIDE DEF e
<1>5. CASE e.type = "ack" /\ TakeAck(e.d) /\ load' = load
  <2>1. x \in Listed' /\ list'[x].id = "server" => x \in Listed /\ list'[x] = list[x]
    <3>1. CASE x = e.d
      BY <1>5, <3>1, AddMessageIs, EntriesAre DEF Listed, TakeAck
    <3>2. CASE x # e.d
      BY <1>5, <3>2, AddedElsewhere DEF Listed, TakeAck
    <3> QED
      BY <3>1, <3>2
  <2> QED
    BY <1>2, <1>4, <1>5, <2>1, BothKeep
<1>6. CASE e.type = "status" /\ TakeStatus(e.d, e.status) /\ Apply(e.d)
  <2>1. /\ load'.pc = load.pc /\ load'.rows = load.rows /\ load.late \subseteq load'.late
        /\ load.pc = "answered" => e.d \in load'.late
    <3>1. {e.d} \in SUBSET Drafts
      BY <1>1
    <3> QED
      BY <1>6, <3>1, LateIs DEF Apply
  <2>2. CASE x # e.d
    <3>1. x \in Listed' /\ list'[x].id = "server" => x \in Listed /\ list'[x] = list[x]
      BY <1>1, <1>6, <2>2, TakeStatusIs DEF Listed
    <3> QED
      BY <1>2, <1>4, <2>1, <2>2, <3>1, BothKeep
  <2>3. CASE x = e.d
    <3>1. LoadFollows(x)'
      BY <1>2, <2>1, <2>3, LoadKeeps
    <3>2. ListFollows(x)'
      <4> SUFFICES ASSUME x \in Listed', list'[x].id = "server"
                   PROVE  Follows(list'[x], x \in stale', row'[x], del'[x].pc, edit'[x].pc,
                                  Telling(x)')
        BY DEF ListFollows
      <4>1. /\ x \in Listed /\ list[x].id = "server" /\ list'[x] \in Entries /\ list[x] \in Entries
            /\ list'[x].deleted = list[x].deleted /\ list'[x].text = list[x].text
            /\ Rank[list'[x].status] >= Rank[e.status]
            /\ Rank[list'[x].status] >= Rank[list[x].status]
        BY <1>1, <1>6, <2>3, TakeStatusIs, TypesAre DEF Listed
      <4>2. Follows(list[x], x \in stale, row[x], del[x].pc, edit[x].pc, Telling(x))
        BY <4>1 DEF FollowsOK, ListFollows
      <4>3. /\ Rank[list'[x].status] \in Nat /\ Rank[list[x].status] \in Nat
            /\ Rank[row[x].status] \in Nat
        BY <4>1, RankIs, RowsAre DEF Entries, Row
      <4>4. x \notin stale' => Rank[list'[x].status] >= Rank[row'[x].status] \/ Telling(x)'
        BY <1>2, <1>4, <4>1, <4>2, <4>3 DEF Follows
      <4> QED
        BY <1>2, <4>1, <4>2, <4>4 DEF Follows
    <3> QED
      BY <3>1, <3>2
  <2> QED
    BY <2>2, <2>3
<1> QED
  BY <1>3, <1>5, <1>6

LEMMA FollowsOfDrop ==
    ASSUME TypeOK, LoadOK, FollowsOK, NEW L, Drop(L), NEW x \in Drafts
    PROVE  ListFollows(x)' /\ LoadFollows(x)'
<1>1. UNCHANGED <<row, untold, list, edit, del>> /\ Miss(OnWire("status"))
  BY DEF Drop, server, rest
<1>2. /\ load'.pc = load.pc /\ load'.rows = load.rows /\ load.late \subseteq load'.late
      /\ stale' = stale \cup OnWire("status")
      /\ load.pc = "answered" => OnWire("status") \subseteq load'.late
  <2>1. OnWire("status") \in SUBSET Drafts
    BY DEF OnWire
  <2> QED
    BY <1>1, <2>1, LateIs DEF Miss
<1>3. x \notin OnWire("status") => (Telling(x) => Telling(x)')
  BY <1>1, WireIs DEF Telling
<1>4. ListFollows(x)'
  BY <1>1, <1>2, <1>3, ListKeeps DEF Listed
<1>5. LoadFollows(x)'
  BY <1>1, <1>2, <1>3, LoadKeeps
<1> QED
  BY <1>4, <1>5

LEMMA FollowsOfLoad ==
    ASSUME TypeOK, LoadOK, FollowsOK, LoadAsk \/ LoadAnswer \/ LoadApply \/ LoadFails,
           NEW x \in Drafts
    PROVE  ListFollows(x)' /\ LoadFollows(x)'
<1>1. UNCHANGED <<row, untold, wire, edit, del>>
  BY DEF LoadAsk, LoadAnswer, LoadApply, LoadFails, server, socket, rest
<1>2. Telling(x)' <=> Telling(x)
  BY <1>1 DEF Telling
<1>3. ListFollows(x) /\ LoadFollows(x)
  BY DEF FollowsOK
<1>4. ListFollows(x)'
  <2>1. CASE LoadApply
    <3>1. list' = load.rows /\ stale' = load.late /\ load.pc = "answered"
      BY <2>1 DEF LoadApply
    <3>2. ASSUME x \in DOMAIN load.rows
          PROVE  Follows(load.rows[x], x \in load.late, row[x], del[x].pc, edit[x].pc, Telling(x))
      BY <1>3, <3>1, <3>2 DEF LoadFollows
    <3>3. ASSUME x \in DOMAIN load.rows
          PROVE  Follows(list'[x], x \in stale', row'[x], del'[x].pc, edit'[x].pc, Telling(x)')
      BY <1>1, <1>2, <3>1, <3>2, <3>3 DEF Follows
    <3> QED
      BY <3>1, <3>3 DEF ListFollows, Listed
  <2>2. CASE LoadAsk \/ LoadAnswer \/ LoadFails
    <3>1. list' = list /\ stale' = stale
      BY <2>2 DEF LoadAsk, LoadAnswer, LoadFails, history
    <3> QED
      BY <1>1, <1>2, <3>1, ListKeeps DEF Listed
  <2> QED
    BY <2>1, <2>2
<1>5. LoadFollows(x)'
  <2>1. CASE LoadAnswer
    <3>1. load' = [pc |-> "answered", rows |-> [d \in Stored |-> Fetched(d)], late |-> {}]
      BY <2>1 DEF LoadAnswer
    <3>2. /\ load'.pc = "answered" /\ load'.late = {}
          /\ DOMAIN load'.rows = Stored /\ \A d \in Stored : load'.rows[d] = Fetched(d)
      BY <3>1
    <3>3. ASSUME x \in Stored
          PROVE  Follows(Fetched(x), x \in load'.late, row'[x], del'[x].pc, edit'[x].pc, Telling(x)')
      <4>1. /\ Fetched(x).text = row[x].text /\ Fetched(x).status = row[x].status
            /\ Fetched(x).deleted <=> row[x].state = "deleted"
            /\ Rank[row[x].status] \in Nat
        BY <3>3, FetchedIs, RankIs, RowsAre DEF Row
      <4> QED
        BY <1>1, <4>1 DEF Follows
    <3> QED
      BY <3>2, <3>3 DEF LoadFollows
  <2>2. CASE LoadAsk \/ LoadApply \/ LoadFails
    BY <2>2 DEF LoadAsk, LoadApply, LoadFails, NoLoad, LoadFollows
  <2> QED
    BY <2>1, <2>2
<1> QED
  BY <1>4, <1>5

LEMMA FollowsOfCall ==
    ASSUME TypeOK, LoadOK, CallsOK, FollowsOK, NEW d \in Drafts, CallAction(d), NEW x \in Drafts
    PROVE  ListFollows(x)' /\ LoadFollows(x)'
<1>0. /\ edit \in [Drafts -> Call] /\ del \in [Drafts -> Call] /\ row \in [Drafts -> Row]
      /\ edit[d] \in Call /\ del[d] \in Call /\ row[d] \in Row
  BY TypesAre, RowsAre
<1>1. UNCHANGED <<untold, wire>>
  BY DEF CallAction, Press, EditFind, EditWrite, EditAnswer, EditFails, DeleteFind, DeleteWrite,
         DeleteAnswer, DeleteFails, server, socket
<1>2. /\ load'.pc = load.pc /\ load'.rows = load.rows /\ load.late \subseteq load'.late
      /\ stale \subseteq stale'
  BY CallLoad
<1>3. CASE x # d
  <2>1. row'[x] = row[x]
    BY <1>3, CallRow
  <2>2. edit'[x] = edit[x] /\ del'[x] = del[x]
    BY <1>0, <1>3, CallSteps DEF CallAction
  <2>3. x \in Listed' /\ list'[x].id = "server" => x \in Listed /\ list'[x] = list[x]
    BY <1>3, CallList DEF Listed
  <2>4. Telling(x) => Telling(x)'
    BY <1>1, <2>1, TellingStays
  <2> QED
    BY <1>2, <2>1, <2>2, <2>3, <2>4, BothKeep
<1>4. CASE x = d
  <2>1. row'[d].status = row[d].status
    <3>1. CASE EditWrite(d)
      <4>1. row' = [row EXCEPT ![d] = [row[d] EXCEPT !.text = row[d].text + 1]]
        BY <3>1, CallSteps
      <4> QED
        BY <1>0, <4>1 DEF Row
    <3>2. CASE DeleteWrite(d)
      <4>1. row' = [row EXCEPT ![d] = [row[d] EXCEPT !.state = "deleted", !.text = 0]]
        BY <3>2, CallSteps
      <4> QED
        BY <1>0, <4>1, RowDeleted
    <3> QED
      BY <3>1, <3>2, CallSteps DEF CallAction
  <2>2. Telling(d) => Telling(d)'
    BY <1>1, <2>1, TellingStays
  <2>3. d \in Listed' /\ list'[d].id = "server" => d \in Listed /\ list[d].id = "server"
    BY CallList DEF Listed
  <2>4. ListFollows(d) /\ LoadFollows(d)
    BY DEF FollowsOK
  \* A step that changes neither the row nor the entry, and ends no call it should not.
  <2>5. ASSUME row' = row, list' = list,
               d \notin stale' => /\ del[d].pc = "written" => del'[d].pc = "written"
                                  /\ edit[d].pc = "written" => edit'[d].pc = "written",
               load.pc = "answered" /\ d \notin load'.late =>
                  /\ del[d].pc = "written" => del'[d].pc = "written"
                  /\ edit[d].pc = "written" => edit'[d].pc = "written"
        PROVE  ListFollows(d)' /\ LoadFollows(d)'
    <3>1. ListFollows(d)'
      BY <1>2, <2>2, <2>5, ListKeeps DEF Listed
    <3>2. LoadFollows(d)'
      BY <1>2, <2>2, <2>5, LoadKeeps
    <3> QED
      BY <3>1, <3>2
  <2>6. CASE Press(d)
    <3>1. row' = row /\ list' = list /\ edit[d].pc = "idle" /\ del[d].pc = "idle"
      BY <2>6, CallSteps
    <3> QED
      BY <1>4, <2>5, <3>1
  <2>7. CASE EditFind(d)
    <3>1. row' = row /\ list' = list /\ edit[d].pc = "asked" /\ del' = del
      BY <2>7, CallSteps
    <3> QED
      BY <1>4, <2>5, <3>1
  <2>8. CASE EditWrite(d)
    <3>1. /\ row' = [row EXCEPT ![d] = [row[d] EXCEPT !.text = row[d].text + 1]]
          /\ edit' = [edit EXCEPT ![d] = [pc |-> "written", text |-> row[d].text + 1]]
          /\ UNCHANGED <<del, list, load, stale>>
      BY <2>8, CallSteps
    <3>2. row'[d].state = row[d].state /\ edit'[d].pc = "written"
      BY <1>0, <3>1 DEF Row
    <3> QED
      BY <1>4, <2>1, <2>2, <2>4, <3>1, <3>2 DEF ListFollows, LoadFollows, Listed, Follows
  <2>9. CASE EditAnswer(d)
    <3>1. /\ UNCHANGED <<row, del, stale>> /\ edit[d].pc = "written"
          /\ load.pc = "answered" => d \in load'.late
      BY <2>9, CallSteps, CallLoad
    <3>2. LoadFollows(d)'
      BY <1>2, <3>1, LoadKeeps
    <3>3. ListFollows(d)'
      <4> SUFFICES ASSUME d \in Listed', list'[d].id = "server"
                   PROVE  Follows(list'[d], d \in stale', row'[d], del'[d].pc, edit'[d].pc,
                                  Telling(d)')
        BY DEF ListFollows
      <4>1. /\ d \in Listed /\ list'[d].text = edit[d].text
            /\ list'[d].deleted = list[d].deleted /\ list'[d].status = list[d].status
        BY <2>3, <2>9, CallList
      <4>2. row[d].state = "live" => edit[d].text = row[d].text
        BY <3>1 DEF CallsOK
      <4> QED
        BY <2>2, <2>3, <2>4, <3>1, <4>1, <4>2 DEF ListFollows, Follows
    <3> QED
      BY <1>4, <3>2, <3>3
  <2>10. CASE EditFails(d)
    <3>1. row' = row /\ list' = list /\ del' = del
      BY <2>10, CallSteps
    <3>2. edit[d].pc = "written" => d \in stale' /\ (load.pc = "answered" => d \in load'.late)
      BY <2>10, CallLoad
    <3> QED
      BY <1>4, <2>5, <3>1, <3>2
  <2>11. CASE DeleteFind(d)
    <3>1. row' = row /\ list' = list /\ edit' = edit /\ del[d].pc = "asked"
      BY <2>11, CallSteps
    <3> QED
      BY <1>4, <2>5, <3>1
  <2>12. CASE DeleteWrite(d)
    <3>1. /\ row' = [row EXCEPT ![d] = [row[d] EXCEPT !.state = "deleted", !.text = 0]]
          /\ del' = [del EXCEPT ![d] = [del[d] EXCEPT !.pc = "written"]]
          /\ UNCHANGED <<edit, list, load, stale>>
      BY <2>12, CallSteps
    <3>2. row'[d].state = "deleted" /\ del'[d].pc = "written"
      BY <1>0, <3>1, RowDeleted, CallStep
    <3> QED
      BY <1>4, <2>1, <2>2, <2>4, <3>1, <3>2 DEF ListFollows, LoadFollows, Listed, Follows
  <2>13. CASE DeleteAnswer(d)
    <3>1. /\ UNCHANGED <<row, edit, stale>> /\ del[d].pc = "written"
          /\ load.pc = "answered" => d \in load'.late
      BY <2>13, CallSteps, CallLoad
    <3>2. LoadFollows(d)'
      BY <1>2, <3>1, LoadKeeps
    <3>3. ListFollows(d)'
      <4> SUFFICES ASSUME d \in Listed', list'[d].id = "server"
                   PROVE  Follows(list'[d], d \in stale', row'[d], del'[d].pc, edit'[d].pc,
                                  Telling(d)')
        BY DEF ListFollows
      <4>1. d \in Listed /\ list'[d].deleted /\ list'[d].status = list[d].status
        BY <2>3, <2>13, CallList
      <4>2. row[d].state = "deleted"
        BY <3>1 DEF CallsOK
      <4> QED
        BY <2>2, <2>3, <2>4, <3>1, <4>1, <4>2 DEF ListFollows, Follows
    <3> QED
      BY <1>4, <3>2, <3>3
  <2>14. CASE DeleteFails(d)
    <3>1. row' = row /\ list' = list /\ edit' = edit
      BY <2>14, CallSteps
    <3>2. del[d].pc = "written" => d \in stale' /\ (load.pc = "answered" => d \in load'.late)
      BY <2>14, CallLoad
    <3> QED
      BY <1>4, <2>5, <3>1, <3>2
  <2> QED
    BY <2>6, <2>7, <2>8, <2>9, <2>10, <2>11, <2>12, <2>13, <2>14 DEF CallAction
<1> QED
  BY <1>3, <1>4

LEMMA FollowsStay == IInv /\ [Next]_vars => FollowsOK'
<1> SUFFICES ASSUME IInv, [Next]_vars, NEW x \in Drafts
             PROVE  ListFollows(x)' /\ LoadFollows(x)'
  BY DEF FollowsOK
<1> USE DEF IInv
<1>1. CASE \E d \in Drafts : Compose(d) \/ Emit(d) \/ Store(d) \/ Acknowledge(d) \/ Refuse(d)
  BY <1>1, FollowsOfSend
<1>2. CASE \E d \in Drafts, s \in Receipts : WriteReceipt(d, s) \/ TellReceipt(d, s)
  BY <1>2, FollowsOfWrite, FollowsOfTell
<1>3. CASE \E d \in Drafts : CallAction(d)
  BY <1>3, FollowsOfCall
<1>4. CASE Receive
  BY <1>4, FollowsOfReceive
<1>5. CASE \E L \in SUBSET Drafts : Drop(L)
  BY <1>5, FollowsOfDrop
<1>6. CASE LoadAsk \/ LoadAnswer \/ LoadApply \/ LoadFails
  BY <1>6, FollowsOfLoad
<1>7. CASE UNCHANGED <<row, untold, wire, list, edit, del, load, stale>>
  <2>1. ListFollows(x) /\ LoadFollows(x)
    BY DEF FollowsOK
  <2> QED
    BY <1>7, <2>1 DEF ListFollows, LoadFollows, Listed, Telling
<1> QED
  BY <1>1, <1>2, <1>3, <1>4, <1>5, <1>6, <1>7
  DEF Next, CallAction, Reconnect, server, socket, rest, history, vars

-----------------------------------------------------------------------------
(* The theorems                                                            *)

LEMMA InitIInv == Init => IInv
<1> SUFFICES ASSUME Init PROVE IInv
  OBVIOUS
<1>1. TypeOK /\ LoadOK
  BY InitTyped
<1>2. /\ list = <<>> /\ wire = <<>> /\ DOMAIN list = {} /\ DOMAIN wire = {}
      /\ load.pc = "idle" /\ NoCall.pc = "idle" /\ Stored = {}
  BY NoCallIs DEF Init, NoLoad, Stored, NoRow
<1>3. SendOK
  BY <1>2 DEF Init, SendOK, Listed, OnWire, Sent
<1>4. CallsOK
  BY <1>2 DEF Init, CallsOK
<1>5. FollowsOK
  BY <1>2 DEF FollowsOK, ListFollows, LoadFollows, Listed
<1> QED
  BY <1>1, <1>3, <1>4, <1>5 DEF IInv

LEMMA NextIInv == IInv /\ [Next]_vars => IInv'
<1>1. IInv /\ [Next]_vars => FollowsOK'
  BY FollowsStay
<1> QED
  BY <1>1, NextTyped, SendStays, CallsStay DEF IInv

LEMMA SpecIInv == Spec => []IInv
<1>1. Init => IInv
  BY InitIInv
<1>2. IInv /\ [Next]_vars => IInv'
  BY NextIInv
<1> QED
  BY <1>1, <1>2, PTL DEF Spec

\* The types of rows, sends, events, entries and calls; a message has a status and
\* a text only once it is stored (message-handler.ts, MessageService.ts).
THEOREM TypeCorrect == Spec => []TypeOK
<1>1. IInv => TypeOK
  BY DEF IInv
<1> QED
  BY <1>1, SpecIInv, PTL

\* When a send is over its message is in the list and whole if the server has it,
\* unless a history load took it away, and is in the list without being stored only
\* if the connection dropped or a call failed before the acknowledgement
\* (sendMessage, addMessage, loadHistory).
THEOREM SendsShowHowTheyEnded == Spec => []SendOutcomeIsShown
<1>1. IInv => SendOutcomeIsShown
  <2> SUFFICES ASSUME IInv PROVE SendOutcomeIsShown
    OBVIOUS
  <2>1. StoredIsShown
    <3> SUFFICES ASSUME NEW d \in Stored \ behind, Over(d)
                 PROVE  d \in Listed /\ list[d].id # "none"
      BY DEF StoredIsShown
    <3>1. d \in Drafts
      BY DEF Stored
    <3> QED
      BY <3>1 DEF IInv, SendOK, Over, Sent
  <2>2. UnstoredIsUnacked
    <3> SUFFICES ASSUME NEW d \in Listed \ Stored, Over(d)
                 PROVE  d \in unacked
      BY DEF UnstoredIsUnacked
    <3>1. d \in Drafts
      BY TypesAre DEF IInv
    <3> QED
      BY <3>1 DEF IInv, SendOK, Over, Sent
  <2> QED
    BY <2>1, <2>2 DEF SendOutcomeIsShown
<1> QED
  BY <1>1, SpecIInv, PTL

\* When nothing about a message is on its way, an entry with the server's id shows
\* the deletion, the text and at least the status of its row, for any order of
\* receipts, edits, deletions and history loads (updateMessageStatus, editMessage,
\* deleteMessage, setMessages).
THEOREM SettledEntriesAreRows == Spec => []SettledEntryIsRow
<1>1. IInv => SettledEntryIsRow
  <2> SUFFICES ASSUME IInv, NEW d \in Listed, list[d].id = "server", Quiet(d), d \notin stale
               PROVE  /\ list[d].deleted <=> row[d].state = "deleted"
                      /\ ~list[d].deleted => list[d].text = row[d].text
                      /\ Rank[list[d].status] >= Rank[row[d].status]
    BY DEF SettledEntryIsRow
  <2>1. d \in Drafts /\ row[d] \in Row /\ d \in Stored
    BY TypesAre, RowsAre DEF IInv, SendOK
  <2>2. Follows(list[d], d \in stale, row[d], del[d].pc, edit[d].pc, Telling(d))
    BY <2>1 DEF IInv, FollowsOK, ListFollows
  <2>3. row[d].state \in {"live", "deleted"}
    BY <2>1, RowsAre DEF IInv
  <2>4. ~Telling(d)
    <3>1. d \notin OnWire("status") /\ \A s \in Receipts : <<d, s>> \notin untold
      BY DEF Quiet
    <3>2. <<d, row[d].status>> \notin untold
      BY <3>1, TypesAre DEF IInv
    <3> QED
      BY <2>1, <3>1, <3>2, WireIs DEF Telling, IInv
  <2> QED
    BY <2>2, <2>3, <2>4 DEF Follows, Quiet
<1> QED
  BY <1>1, SpecIInv, PTL
=============================================================================
