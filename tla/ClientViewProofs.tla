-------------------------- MODULE ClientViewProofs --------------------------
(***************************************************************************)
(* Proofs about one tab of the web client: its types, the unread count of  *)
(* an open conversation, the list against the server's rows, and the       *)
(* search index against the list, for any number of messages, versions,    *)
(* instances of the hook, changes being announced and events on the wire.  *)
(*                                                                         *)
(* The list is compared with the rows through the events between them.     *)
(* Whatever the tab holds of a message - an entry, a row of a load, an     *)
(* event, a text being decrypted - is something its row is or was (Past),  *)
(* so that nothing the tab holds can run ahead of the row; and an event    *)
(* that is not how its row stands has been overtaken, or the event of a    *)
(* newer change is still to be announced or behind it on the wire.         *)
(* Receiving the last event of a message therefore leaves the entry equal  *)
(* to the row or the message stale, or, when it is a new message, leaves a *)
(* decryption behind that will make it so.                                 *)
(***************************************************************************)
EXTENDS ClientView, SequenceTheorems, TLAPS

Entry == Contents \cup [kind : {"deleted"}, text : Texts]
Load == [pc : {"idle", "fetch", "decrypt", "index"}, rows : [Msgs -> Contents],
         todo : SUBSET Msgs, behind : SUBSET Msgs]

\* How the row stands when e is emitted.
Outcome(e) == IF e.event = "deleted" THEN Tombstone ELSE Live(e.text)

\* A row that is r now is or was c, tombstones with a text aside.
Past(c, r) ==
    /\ c.kind = "deleted" => r = Tombstone
    /\ c.kind = "live" => /\ r # None
                          /\ r.kind = "live" => c.text <= r.text

\* What an event says is of the past of its row.
FromRow(e) ==
    /\ e.event = "new" => e.text = 1
    /\ e.event = "edited" => e.text \in Texts
    /\ Past(Outcome(e), row[e.m])

Newest(e) == row[e.m] = Outcome(e)
ToBeOvertaken(e) == \E n \in pending : Newer(n, e)
Followed(i) == \E j \in 1..Len(wire) : j > i /\ Newer(wire[j], wire[i])

\* An event that is not how its row stands has been or will be overtaken, or is
\* followed by that of a newer change.
WireOK ==
    /\ ~online => wire = <<>>
    /\ \A e \in pending : FromRow(e) /\ (Newest(e) \/ e \in overtaken \/ ToBeOvertaken(e))
    /\ \A i \in 1..Len(wire) :
          /\ FromRow(wire[i])
          /\ \/ Newest(wire[i]) \/ wire[i] \in overtaken
             \/ ToBeOvertaken(wire[i]) \/ Followed(i)

OnWire(m) == \E i \in 1..Len(wire) : wire[i].m = m
OnItsWay(m) == OnWire(m) \/ \E e \in pending : e.m = m

\* What the tab holds of a message is of the past.
PastOK ==
    \A m \in Msgs :
        /\ Past(entry[m], row[m])
        /\ \A h \in Hooks : /\ Past(load[h].rows[m], row[m])
                            /\ arriving[h][m] # NoText => arriving[h][m] = 1 /\ row[m] # None

\* A message without events on their way is as its row, or is new and being decrypted;
\* in a load that is not behind on it, it is as its row.
ListOK ==
    \A m \in Msgs : ~OnItsWay(m) =>
        /\ m \notin stale =>
              \/ entry[m] = row[m]
              \/ /\ entry[m] = None /\ row[m] = Live(1)
                 /\ \E h \in Hooks : arriving[h][m] # NoText
        /\ \A h \in Hooks :
              load[h].pc = "decrypt" /\ m \notin load[h].behind => load[h].rows[m] = row[m]

\* A tombstone that is not stained is out of the index, and nothing will put it there.
IndexOK ==
    \A m \in Msgs : entry[m].kind = "deleted" /\ m \notin stained =>
        /\ index[m] = NoText
        /\ \A h \in Hooks : /\ editing[h][m] = {}
                            /\ load[h].pc = "index" => m \notin load[h].todo

Typed == TypeOK /\ wire \in Seq(Event)

IInv == Typed /\ OpenHasNoUnread /\ WireOK /\ PastOK /\ ListOK /\ IndexOK

-----------------------------------------------------------------------------
(* Contents and events                                                     *)

LEMMA ContentsAre ==
    /\ 1 \in Texts /\ Texts \subseteq Nat /\ NoText \notin Texts
    /\ \A c \in Entry : /\ c = [kind |-> c.kind, text |-> c.text]
                        /\ c.kind \in {"none", "live", "deleted"}
                        /\ c.text \in Texts \cup {NoText}
                        /\ c.kind = "none" => c = None
                        /\ c.kind = "live" => c = Live(c.text) /\ c.text \in Texts
    /\ Contents \subseteq Entry
    /\ \A c \in Contents : c.kind = "deleted" => c = Tombstone
    /\ None \in Contents /\ Tombstone \in Contents /\ \A t \in Texts : Live(t) \in Contents
<1>1. 1 \in Texts /\ Texts \subseteq Nat /\ NoText \notin Texts
  BY BoundAssumption DEF Texts, NoText
<1>2. ASSUME NEW c \in Entry
      PROVE  /\ c = [kind |-> c.kind, text |-> c.text]
             /\ c.kind \in {"none", "live", "deleted"}
             /\ c.text \in Texts \cup {NoText}
             /\ c.kind = "none" => c = None
             /\ c.kind = "live" => c = Live(c.text) /\ c.text \in Texts
  <2>1. CASE c = None
    BY <2>1 DEF None
  <2>2. CASE c = Tombstone
    BY <2>2 DEF Tombstone
  <2>3. CASE \E t \in Texts : c = Live(t)
    BY <2>3 DEF Live
  <2>4. CASE c \in [kind : {"deleted"}, text : Texts]
    BY <2>4
  <2> QED
    BY <2>1, <2>2, <2>3, <2>4 DEF Entry, Contents
<1>3. Contents \subseteq Entry
  BY DEF Entry
<1>4. ASSUME NEW c \in Contents, c.kind = "deleted"
      PROVE  c = Tombstone
  BY <1>4 DEF Contents, None, Live
<1>5. None \in Contents /\ Tombstone \in Contents /\ \A t \in Texts : Live(t) \in Contents
  BY DEF Contents
<1> QED
  BY <1>1, <1>2, <1>3, <1>4, <1>5

LEMMA KindsDiffer ==
    /\ None.kind = "none" /\ None.text = NoText
    /\ Tombstone.kind = "deleted" /\ Tombstone.text = NoText
    /\ \A t : Live(t).kind = "live" /\ Live(t).text = t
  BY DEF None, Live, Tombstone

\* What was of the past stays of the past, whatever the row becomes next.
LEMMA PastStays ==
    ASSUME NEW c \in Entry, NEW r \in Contents, NEW s \in Contents, Past(c, r), Past(r, s)
    PROVE  Past(c, s)
<1>1. CASE c.kind = "deleted"
  BY <1>1, KindsDiffer DEF Past
<1>2. CASE c.kind = "live" /\ r.kind = "deleted"
  BY <1>2, KindsDiffer DEF Past
<1>3. CASE c.kind = "live" /\ r.kind = "live"
  BY <1>3, ContentsAre, KindsDiffer DEF Past
<1>4. c.kind = "live" => r.kind \in {"live", "deleted"}
  BY ContentsAre DEF Past
<1> QED
  BY <1>1, <1>2, <1>3, <1>4 DEF Past

LEMMA PastSelf == \A c \in Contents : Past(c, c)
  BY ContentsAre, KindsDiffer DEF Past

LEMMA AppendWire ==
    ASSUME NEW w \in Seq(Event), NEW e \in Event
    PROVE  /\ Append(w, e) \in Seq(Event)
           /\ Len(w) \in Nat /\ Len(Append(w, e)) = Len(w) + 1
           /\ \A i \in 1..Len(w) : Append(w, e)[i] = w[i] /\ w[i] \in Event
           /\ Append(w, e)[Len(w) + 1] = e
  BY AppendProperties, ElementOfSeq

LEMMA TailWire ==
    ASSUME NEW w \in Seq(Event), w # <<>>
    PROVE  /\ Tail(w) \in Seq(Event)
           /\ Len(w) \in Nat \ {0} /\ Len(Tail(w)) = Len(w) - 1
           /\ \A i \in 1..Len(Tail(w)) : i + 1 \in 1..Len(w) /\ Tail(w)[i] = w[i + 1]
           /\ Head(w) = w[1] /\ Head(w) \in Event
  BY HeadTailProperties, EmptySeq, LenProperties

-----------------------------------------------------------------------------
(* Types                                                                   *)

LEMMA LoadsAre ==
    ASSUME TypeOK
    PROVE  /\ load \in [Hooks -> Load]
           /\ \A m \in Msgs : Behind(m) \in [Hooks -> Load]
           /\ Idle \in Load
<1>1. load \in [Hooks -> Load]
  BY DEF TypeOK, Load
<1>2. ASSUME NEW m \in Msgs
      PROVE  Behind(m) \in [Hooks -> Load]
  BY <1>1 DEF Load, Behind
<1>3. Idle \in Load
  BY ContentsAre DEF Load, Idle
<1> QED
  BY <1>1, <1>2, <1>3

LEMMA ShownIs ==
    ASSUME NEW l \in Load
    PROVE  /\ Shown(l) \in Load
           /\ l.todo = {} => Shown(l) = Idle
           /\ l.todo # {} => Shown(l) = [l EXCEPT !.pc = "index", !.behind = {}]
           /\ Shown(l).pc \in {"idle", "index"}
           /\ Shown(l).pc = "index" => Shown(l).rows = l.rows /\ Shown(l).todo = l.todo
           /\ Shown(l).rows = l.rows \/ Shown(l).rows = [m \in Msgs |-> None]
<1>1. Idle \in Load
  BY ContentsAre DEF Load, Idle
<1>2. CASE l.todo = {}
  BY <1>1, <1>2 DEF Shown, Idle
<1>3. CASE l.todo # {}
  <2>1. Shown(l) = [l EXCEPT !.pc = "index", !.behind = {}]
    BY <1>3 DEF Shown
  <2> QED
    BY <1>3, <2>1 DEF Load
<1> QED
  BY <1>2, <1>3

\* The part of Received that all three handlers share.
LEMMA ReceivedIs ==
    ASSUME Typed, NEW event, Received(event)
    PROVE  /\ Head(wire) \in Event /\ Head(wire).event = event /\ Head(wire) = wire[1]
           /\ wire' = Tail(wire) /\ wire' \in Seq(Event) /\ Len(wire') = Len(wire) - 1
           /\ Len(wire) \in Nat \ {0}
           /\ \A i \in 1..Len(wire') : i + 1 \in 1..Len(wire) /\ wire'[i] = wire[i + 1]
           /\ load' = Behind(Head(wire).m) /\ load' \in [Hooks -> Load]
           /\ UNCHANGED <<row, online, pending, overtaken, screen>>
<1>1. wire \in Seq(Event) /\ wire # <<>> /\ wire' = Tail(wire)
  BY DEF Typed, Received
<1>2. Head(wire).m \in Msgs
  BY <1>1, TailWire DEF Event
<1> QED
  BY <1>1, <1>2, TailWire, LoadsAre DEF Typed, Received

LEMMA InitTyped == Init => Typed
<1> SUFFICES ASSUME Init PROVE Typed
  OBVIOUS
<1>1. wire = <<>> /\ wire \in Seq(Event) /\ Len(wire) = 0
  BY DEF Init
<1>2. load \in [Hooks -> Load]
  BY ContentsAre DEF Init, Load, Idle
<1>3. unread \in 0..MaxUnread
  BY BoundAssumption DEF Init
<1> QED
  BY <1>1, <1>2, <1>3, ContentsAre, BoundAssumption DEF Init, Typed, TypeOK, Load, Screens

\* The types, from those of the variables one by one.
LEMMA RestTyped ==
    ASSUME Typed, row' \in [Msgs -> Contents], online' \in BOOLEAN, screen' \in Screens,
           pending' \subseteq Event, overtaken' \subseteq Event,
           wire' \in Seq(Event), Len(wire') <= MaxWire,
           entry' \in [Msgs -> Entry], unread' \in 0..MaxUnread,
           index' \in [Msgs -> Texts \cup {NoText}],
           arriving' \in [Hooks -> [Msgs -> Texts \cup {NoText}]],
           editing' \in [Hooks -> [Msgs -> SUBSET Texts]],
           load' \in [Hooks -> Load], stale' \subseteq Msgs, stained' \subseteq Msgs
    PROVE  Typed'
<1>1. \A i \in DOMAIN wire' : wire'[i] \in Event
  BY ElementOfSeq
<1> QED
  BY <1>1 DEF Typed, TypeOK, Load, Entry

\* A change of a row and its event.
LEMMA ChangeTyped ==
    ASSUME Typed, NEW m \in Msgs, NEW c \in Contents,
           NEW event \in {"new", "edited", "deleted"}, Change(m, c, event)
    PROVE  Typed'
<1>1. [event |-> event, m |-> m, text |-> c.text] \in Event
  BY ContentsAre DEF Event
<1>2. row' \in [Msgs -> Contents] /\ pending' \subseteq Event
  BY <1>1 DEF Typed, TypeOK, Change
<1>3. UNCHANGED <<online, wire, overtaken, screen, store, tasks, stale, stained>>
  BY DEF Change
<1> QED
  BY <1>2, <1>3, LoadsAre, RestTyped DEF store, tasks, Typed, TypeOK, Entry

LEMMA PeerTyped ==
    ASSUME Typed, NEW m \in Msgs, PeerSends(m) \/ PeerEdits(m) \/ PeerDeletes(m)
    PROVE  Typed'
<1>1. CASE PeerSends(m)
  BY <1>1, ContentsAre, ChangeTyped DEF PeerSends
<1>2. CASE PeerEdits(m)
  <2>1. row[m] \in Entry /\ row[m].kind = "live" /\ row[m].text < MaxVersion
    BY <1>2, ContentsAre DEF PeerEdits, Typed, TypeOK
  <2>2. row[m].text + 1 \in Texts
    BY <2>1, ContentsAre, BoundAssumption DEF Texts
  <2> QED
    BY <1>2, <2>2, ContentsAre, ChangeTyped DEF PeerEdits
<1>3. CASE PeerDeletes(m)
  BY <1>3, ContentsAre, ChangeTyped DEF PeerDeletes
<1> QED
  BY <1>1, <1>2, <1>3

\* What announcing an event, or not announcing it, does.
LEMMA AnnounceIs ==
    ASSUME Typed, NEW e \in pending, Announce(e) \/ Silent(e)
    PROVE  /\ e \in Event /\ e.m \in Msgs
           /\ pending' = pending \ {e}
           /\ overtaken \subseteq overtaken' /\ overtaken' \subseteq Event
           /\ \A o \in pending : Newer(e, o) => o \in overtaken'
           /\ \/ /\ online /\ Len(wire) < MaxWire
                 /\ wire' = Append(wire, e) /\ UNCHANGED <<load, stale>>
              \/ /\ wire' = wire
                 /\ stale' = stale \cup {e.m} /\ load' = Behind(e.m)
                 /\ \/ ~online
                    \/ \A i \in 1..Len(wire) : Newer(e, wire[i]) => wire[i] \in overtaken'
           /\ UNCHANGED <<row, online, screen, store, arriving, editing, stained>>
<1>1. e \in Event /\ e.m \in Msgs /\ pending \subseteq Event /\ overtaken \subseteq Event
  BY DEF Typed, TypeOK, Event
<1>2. CASE Announce(e)
  BY <1>1, <1>2 DEF Announce, Missed
<1>3. CASE Silent(e)
  <2>1. \A i \in 1..Len(wire) : wire[i] \in Event /\ i \in DOMAIN wire
    BY ElementOfSeq DEF Typed
  <2>2. {wire[i] : i \in DOMAIN wire} \subseteq Event
    BY DEF Typed, TypeOK
  <2> QED
    BY <1>1, <1>3, <2>1, <2>2 DEF Silent, Missed
<1> QED
  BY <1>2, <1>3

LEMMA AnnounceTyped ==
    ASSUME Typed, NEW e \in pending, Announce(e) \/ Silent(e)
    PROVE  Typed'
<1>1. e \in Event /\ e.m \in Msgs /\ pending' \subseteq Event /\ overtaken' \subseteq Event
  BY AnnounceIs DEF Typed, TypeOK
<1>2. wire' \in Seq(Event) /\ Len(wire') <= MaxWire
  <2>1. wire' = wire \/ (wire' = Append(wire, e) /\ Len(wire) < MaxWire)
    BY AnnounceIs
  <2>2. wire \in Seq(Event) /\ Len(wire) <= MaxWire
    BY DEF Typed, TypeOK
  <2> QED
    BY <1>1, <2>1, <2>2, AppendWire, BoundAssumption
<1>3. load' \in [Hooks -> Load] /\ stale' \subseteq Msgs
  BY <1>1, AnnounceIs, LoadsAre DEF Typed, TypeOK
<1>4. UNCHANGED <<row, online, screen, store, arriving, editing, stained>>
  BY AnnounceIs
<1> QED
  BY <1>1, <1>2, <1>3, <1>4, RestTyped DEF store, Typed, TypeOK, Entry

LEMMA DropTyped == Typed /\ Drop => Typed'
<1> SUFFICES ASSUME Typed, Drop PROVE Typed'
  OBVIOUS
<1> DEFINE lost == {wire[i].m : i \in DOMAIN wire}
<1>1. lost \subseteq Msgs
  BY DEF Typed, TypeOK, Event
<1>2. wire' = <<>> /\ wire' \in Seq(Event) /\ Len(wire') = 0 /\ DOMAIN wire' = {}
  BY DEF Drop
<1>3. stale' = stale \cup lost
  BY DEF Drop
<1>4. load' = [h \in Hooks |-> IF load[h].pc = "decrypt"
                 THEN [load[h] EXCEPT !.behind = @ \cup lost] ELSE load[h]]
  BY DEF Drop
<1> HIDE DEF lost
<1>5. load' \in [Hooks -> Load]
  BY <1>1, <1>4, LoadsAre DEF Load, Typed
<1>6. /\ UNCHANGED <<row, pending, overtaken, screen, entry, unread, index, arriving, editing, stained>>
      /\ online' \in BOOLEAN /\ stale' \subseteq Msgs
  BY <1>1, <1>3 DEF Drop, Typed, TypeOK, store
<1> QED
  BY <1>2, <1>5, <1>6, BoundAssumption, RestTyped DEF Typed, TypeOK, Entry

LEMMA ShorterWire ==
    ASSUME Typed, NEW event, Received(event)
    PROVE  Len(wire') <= MaxWire
  BY ReceivedIs, BoundAssumption DEF Typed, TypeOK

LEMMA ReceiveNewTyped == Typed /\ ReceiveNew => Typed'
<1> SUFFICES ASSUME Typed, ReceiveNew PROVE Typed'
  OBVIOUS
<1> DEFINE e == Head(wire)
<1>1. Received("new")
  BY DEF ReceiveNew
<1>2. e.m \in Msgs /\ e.text \in Texts \cup {NoText}
  BY <1>1, ReceivedIs DEF Event
<1>3. arriving' \in [Hooks -> [Msgs -> Texts \cup {NoText}]] /\ stale' \subseteq Msgs
  BY <1>2 DEF ReceiveNew, StaleIf, Typed, TypeOK
<1> QED
  BY <1>1, <1>3, ReceivedIs, ShorterWire, RestTyped DEF ReceiveNew, store, Typed, TypeOK, Entry

LEMMA ReceiveEditedTyped == Typed /\ WireOK /\ ReceiveEdited => Typed'
<1> SUFFICES ASSUME Typed, WireOK, ReceiveEdited PROVE Typed'
  OBVIOUS
<1> DEFINE e == Head(wire)
<1>1. Received("edited")
  BY DEF ReceiveEdited
<1>2. e.m \in Msgs /\ e.text \in Texts
  BY <1>1, ReceivedIs DEF Event, WireOK, FromRow
<1>3. stale' \subseteq Msgs
  BY <1>2 DEF ReceiveEdited, StaleIf, Typed, TypeOK
<1>4. entry' \in [Msgs -> Entry]
  <2>1. entry \in [Msgs -> Entry]
    BY DEF Typed, TypeOK, Entry
  <2>2. CASE entry[e.m] = None
    BY <2>1, <2>2 DEF ReceiveEdited
  <2>3. CASE entry[e.m] # None
    <3>1. entry[e.m].kind \in {"live", "deleted"}
      BY <1>2, <2>1, <2>3, ContentsAre
    <3>2. [entry[e.m] EXCEPT !.text = e.text] \in Entry
      <4>1. [entry[e.m] EXCEPT !.text = e.text] = [kind |-> entry[e.m].kind, text |-> e.text]
        BY <1>2, <2>1, ContentsAre
      <4> QED
        BY <1>2, <3>1, <4>1 DEF Entry, Contents, Live
    <3>3. entry' = entry \/ entry' = [entry EXCEPT ![e.m] = [entry[e.m] EXCEPT !.text = e.text]]
      BY DEF ReceiveEdited
    <3> QED
      BY <2>1, <3>2, <3>3
  <2> QED
    BY <2>2, <2>3
<1>5. editing' \in [Hooks -> [Msgs -> SUBSET Texts]]
  <2>1. editing \in [Hooks -> [Msgs -> SUBSET Texts]]
    BY DEF Typed, TypeOK
  <2>2. CASE UNCHANGED editing
    BY <2>1, <2>2
  <2>3. CASE editing' = [h \in Hooks |->
               IF h \in Mounted /\ entry[e.m].kind = "live"
               THEN [editing[h] EXCEPT ![e.m] = @ \cup {e.text}] ELSE editing[h]]
    <3> HIDE DEF e
    <3> QED
      BY <1>2, <2>1, <2>3
  <2> QED
    BY <2>2, <2>3 DEF ReceiveEdited
<1> QED
  BY <1>1, <1>3, <1>4, <1>5, ReceivedIs, ShorterWire, RestTyped DEF ReceiveEdited, Typed, TypeOK

LEMMA ReceiveDeletedTyped == Typed /\ ReceiveDeleted => Typed'
<1> SUFFICES ASSUME Typed, ReceiveDeleted PROVE Typed'
  OBVIOUS
<1> DEFINE m == Head(wire).m
<1>1. Received("deleted")
  BY DEF ReceiveDeleted
<1>2. m \in Msgs
  BY <1>1, ReceivedIs DEF Event
<1>3. entry' \in [Msgs -> Entry]
  <2>1. entry \in [Msgs -> Entry] /\ Tombstone \in Entry
    BY ContentsAre DEF Typed, TypeOK, Entry
  <2>2. entry' = entry \/ entry' = [entry EXCEPT ![m] = Tombstone]
    BY DEF ReceiveDeleted
  <2> QED
    BY <2>1, <2>2
<1>4. stale' \subseteq Msgs /\ stained' \subseteq Msgs /\ index' \in [Msgs -> Texts \cup {NoText}]
  <2>1. /\ stale' \subseteq stale \cup {m}
        /\ stained' = stained \/ stained' = stained \cup {m}
        /\ index' = index \/ index' = [index EXCEPT ![m] = NoText]
    BY DEF ReceiveDeleted, StaleIf
  <2>2. stale \subseteq Msgs /\ stained \subseteq Msgs /\ index \in [Msgs -> Texts \cup {NoText}]
    BY DEF Typed, TypeOK
  <2> QED
    BY <1>2, <2>1, <2>2
<1> QED
  BY <1>1, <1>3, <1>4, ReceivedIs, ShorterWire, RestTyped DEF ReceiveDeleted, Typed, TypeOK

LEMMA AddMessageTyped ==
    ASSUME Typed, NEW h \in Hooks, NEW m \in Msgs, AddMessage(h, m)
    PROVE  Typed'
<1> DEFINE t == arriving[h][m]
<1>1. t \in Texts
  BY DEF AddMessage, Typed, TypeOK
<1>2. entry' \in [Msgs -> Entry]
  BY <1>1, ContentsAre DEF AddMessage, Typed, TypeOK, Entry
<1>3. unread' \in 0..MaxUnread
  BY BoundAssumption DEF AddMessage, Min2, Typed, TypeOK
<1>4. index' \in [Msgs -> Texts \cup {NoText}] /\ stained' \subseteq Msgs
  BY <1>1 DEF AddMessage, Typed, TypeOK
<1>5. arriving' \in [Hooks -> [Msgs -> Texts \cup {NoText}]]
  BY DEF AddMessage, Typed, TypeOK
<1>6. load' \in [Hooks -> Load]
  BY LoadsAre DEF AddMessage, Typed
<1> QED
  BY <1>2, <1>3, <1>4, <1>5, <1>6, RestTyped DEF AddMessage, server, Typed, TypeOK

LEMMA LoadTyped ==
    ASSUME Typed, NEW h \in Hooks,
           \/ LoadStart(h) \/ LoadFetch(h) \/ LoadFails(h) \/ LoadApply(h) \/ LoadIndex(h)
    PROVE  Typed'
<1>1. load \in [Hooks -> Load] /\ Idle \in Load /\ load[h] \in Load
  BY LoadsAre DEF Typed
<1>2. ASSUME LoadStart(h)
      PROVE  load' \in [Hooks -> Load]
  BY <1>1, <1>2 DEF LoadStart, Load
<1>3. ASSUME LoadFetch(h)
      PROVE  load' \in [Hooks -> Load]
  <2> DEFINE l == [load[h] EXCEPT !.pc = "decrypt", !.rows = row,
                                  !.todo = {m \in Msgs : row[m].kind = "live"}]
  <2>1. l \in Load
    BY <1>1 DEF Load, Typed, TypeOK
  <2>2. load' = [load EXCEPT ![h] = l]
    BY <1>1, <1>3 DEF LoadFetch
  <2> QED
    BY <1>1, <2>1, <2>2
<1>4. ASSUME LoadApply(h)
      PROVE  /\ load' \in [Hooks -> Load]
             /\ entry' \in [Msgs -> Entry] /\ stale' \subseteq Msgs /\ stained' \subseteq Msgs
  <2>1. load' = [load EXCEPT ![h] = Shown(load[h])] /\ Shown(load[h]) \in Load
    BY <1>1, <1>4, ShownIs DEF LoadApply
  <2>2. load[h].rows \in [Msgs -> Entry] /\ load[h].behind \subseteq Msgs
    BY <1>1, ContentsAre DEF Load
  <2> QED
    BY <1>1, <1>4, <2>1, <2>2 DEF LoadApply, Typed, TypeOK
<1>5. ASSUME LoadIndex(h)
      PROVE  load' \in [Hooks -> Load] /\ index' \in [Msgs -> Texts \cup {NoText}]
  <2>1. PICK m \in load[h].todo :
           /\ index' = [index EXCEPT ![m] = load[h].rows[m].text]
           /\ load' = [load EXCEPT ![h] = Shown([load[h] EXCEPT !.todo = load[h].todo \ {m}])]
    BY <1>5, <1>1 DEF LoadIndex
  <2> DEFINE l == [load[h] EXCEPT !.todo = load[h].todo \ {m}]
  <2>2. l \in Load /\ m \in Msgs
    BY <1>1 DEF Load
  <2>3. load' = [load EXCEPT ![h] = Shown(l)]
    BY <1>1, <2>1
  <2>4. load[h].rows[m].text \in Texts \cup {NoText}
    BY <1>1, ContentsAre DEF Load
  <2> HIDE DEF l
  <2>5. index' \in [Msgs -> Texts \cup {NoText}]
    BY <2>1, <2>4 DEF Typed, TypeOK
  <2>6. Shown(l) \in Load
    BY <2>2, ShownIs
  <2> QED
    BY <1>1, <2>3, <2>5, <2>6
<1>6. ASSUME LoadFails(h)
      PROVE  load' \in [Hooks -> Load]
  BY <1>1, <1>6 DEF LoadFails
<1> QED
  BY <1>2, <1>3, <1>4, <1>5, <1>6, RestTyped
  DEF LoadStart, LoadFetch, LoadFails, LoadApply, LoadIndex, server, store, Typed, TypeOK, Entry

LEMMA NextTyped == Typed /\ WireOK /\ [Next]_vars => Typed'
<1> SUFFICES ASSUME Typed, WireOK, [Next]_vars PROVE Typed'
  OBVIOUS
<1>1. CASE Peer
  BY <1>1, PeerTyped, AnnounceTyped DEF Peer
<1>2. CASE Drop
  BY <1>2, DropTyped
<1>3. CASE Reconnect \/ Open \/ Leave
  <2>1. entry \in [Msgs -> Entry] /\ load \in [Hooks -> Load]
    BY LoadsAre DEF Typed, TypeOK, Entry
  <2>2. 0 \in 0..MaxUnread /\ unread' \in 0..MaxUnread
    BY <1>3, BoundAssumption DEF Reconnect, Open, Leave, store, Typed, TypeOK
  <2>3. screen' \in Screens /\ online' \in BOOLEAN
    BY <1>3 DEF Reconnect, Open, Leave, server, Screens, Typed, TypeOK
  <2>4. UNCHANGED <<row, pending, wire, overtaken, entry, index, arriving, editing, load,
                     stale, stained>>
    BY <1>3 DEF Reconnect, Open, Leave, server, store, tasks
  <2> QED
    BY <2>1, <2>2, <2>3, <2>4, RestTyped DEF Typed, TypeOK
<1>4. CASE ReceiveNew \/ ReceiveEdited \/ ReceiveDeleted
  BY <1>4, ReceiveNewTyped, ReceiveEditedTyped, ReceiveDeletedTyped
<1>5. ASSUME NEW h \in Hooks, NEW m \in Msgs, AddMessage(h, m)
      PROVE  Typed'
  BY <1>5, AddMessageTyped
<1>6. ASSUME NEW h \in Hooks, NEW m \in Msgs, IndexEdited(h, m)
      PROVE  Typed'
  <2>1. entry \in [Msgs -> Entry] /\ load \in [Hooks -> Load]
    BY LoadsAre DEF Typed, TypeOK, Entry
  <2>2. index' \in [Msgs -> Texts \cup {NoText}] /\ editing' \in [Hooks -> [Msgs -> SUBSET Texts]]
    BY <1>6 DEF IndexEdited, Typed, TypeOK
  <2> QED
    BY <1>6, <2>1, <2>2, RestTyped DEF IndexEdited, server, Typed, TypeOK
<1>7. CASE \E h \in Hooks : \/ LoadStart(h) \/ LoadFetch(h) \/ LoadFails(h)
                            \/ LoadApply(h) \/ LoadIndex(h)
  BY <1>7, LoadTyped
<1>8. CASE UNCHANGED vars
  BY <1>8 DEF vars, server, store, tasks, Typed, TypeOK
<1> QED
  BY <1>1, <1>2, <1>3, <1>4, <1>5, <1>6, <1>7, <1>8 DEF Next, Hook

-----------------------------------------------------------------------------
(* The wire and the past                                                   *)

\* A row becomes the outcome of an event that is newer than all of its message.
LEMMA ChangeIs ==
    ASSUME Typed, NEW m \in Msgs, PeerSends(m) \/ PeerEdits(m) \/ PeerDeletes(m)
    PROVE  \E e \in Event :
              /\ e.m = m
              /\ e.event = "new" => e.text = 1
              /\ e.event = "edited" => e.text \in Texts
              /\ Outcome(e) \in Contents /\ Past(row[m], Outcome(e))
              /\ \A o \in Event : FromRow(o) /\ o.m = m => Newer(e, o)
              /\ row' = [row EXCEPT ![m] = Outcome(e)]
              /\ pending' = pending \cup {e}
              /\ UNCHANGED <<online, wire, overtaken, screen, store, tasks, stale, stained>>
<1>1. row[m] \in Contents /\ row[m] \in Entry
  BY ContentsAre DEF Typed, TypeOK
<1>0. ASSUME NEW o \in Event, FromRow(o), o.m = m, row[m].kind # "deleted"
      PROVE  /\ row[m].kind = "live" /\ o.event # "deleted"
             /\ o.text \in Nat /\ o.text <= row[m].text
  <2>1. o.event # "deleted"
    BY <1>0, KindsDiffer DEF FromRow, Past, Outcome
  <2>2. o.text \in Texts
    BY <1>0, <2>1, ContentsAre DEF FromRow, Event
  <2>3. Past(Live(o.text), row[m])
    BY <1>0, <2>1 DEF FromRow, Outcome
  <2>4. row[m] # None /\ (row[m].kind = "live" => o.text <= row[m].text)
    BY <2>3, KindsDiffer DEF Past
  <2> QED
    BY <1>0, <1>1, <2>1, <2>2, <2>4, ContentsAre
<1>2. CASE PeerSends(m)
  <2> DEFINE e == [event |-> "new", m |-> m, text |-> 1]
  <2>1. e \in Event /\ Outcome(e) = Live(1) /\ Live(1) \in Contents
    BY ContentsAre DEF Event, Outcome
  <2>2. Past(row[m], Live(1))
    BY <1>2, KindsDiffer DEF PeerSends, Past
  <2>3. \A o \in Event : ~(FromRow(o) /\ o.m = m)
    BY <1>0, <1>2, KindsDiffer DEF PeerSends
  <2>4. Change(m, Live(1), "new") /\ Live(1).text = 1
    BY <1>2, KindsDiffer DEF PeerSends
  <2>5. /\ row' = [row EXCEPT ![m] = Live(1)] /\ pending' = pending \cup {e}
        /\ UNCHANGED <<online, wire, overtaken, screen, store, tasks, stale, stained>>
    BY <2>4 DEF Change
  <2> QED
    BY <2>1, <2>2, <2>3, <2>5
<1>3. CASE PeerEdits(m)
  <2> DEFINE t == row[m].text + 1
             e == [event |-> "edited", m |-> m, text |-> t]
  <2>1. t \in Texts /\ t \in Nat /\ row[m].text \in Nat /\ row[m].kind = "live"
    BY <1>1, <1>3, ContentsAre, BoundAssumption DEF PeerEdits, Texts, NoText
  <2>2. e \in Event /\ Outcome(e) = Live(t) /\ Live(t) \in Contents
    BY <2>1, ContentsAre DEF Event, Outcome
  <2>3. Past(row[m], Live(t))
    BY <1>3, <2>1, KindsDiffer DEF Past, PeerEdits
  <2>4. ASSUME NEW o \in Event, FromRow(o), o.m = m
        PROVE  Newer(e, o)
    <3>1. o.event # "deleted" /\ o.text \in Nat /\ o.text <= row[m].text
      BY <1>0, <2>1, <2>4
    <3>2. t > o.text
      BY <2>1, <3>1
    <3> QED
      BY <2>4, <3>1, <3>2 DEF Newer
  <2>5. Change(m, Live(t), "edited") /\ Live(t).text = t
    BY <1>3, KindsDiffer DEF PeerEdits
  <2>6. /\ row' = [row EXCEPT ![m] = Live(t)] /\ pending' = pending \cup {e}
        /\ UNCHANGED <<online, wire, overtaken, screen, store, tasks, stale, stained>>
    BY <2>5 DEF Change
  <2> QED
    BY <2>1, <2>2, <2>3, <2>4, <2>6
<1>4. CASE PeerDeletes(m)
  <2> DEFINE e == [event |-> "deleted", m |-> m, text |-> NoText]
  <2>1. e \in Event /\ Outcome(e) = Tombstone /\ Tombstone \in Contents
    BY ContentsAre DEF Event, Outcome
  <2>2. Past(row[m], Tombstone)
    BY <1>1, <1>4, KindsDiffer DEF Past, PeerDeletes
  <2>3. \A o \in Event : FromRow(o) /\ o.m = m => Newer(e, o)
    BY <1>0, <1>4 DEF PeerDeletes, Newer
  <2>4. Change(m, Tombstone, "deleted") /\ Tombstone.text = NoText
    BY <1>4, KindsDiffer DEF PeerDeletes
  <2>5. /\ row' = [row EXCEPT ![m] = Tombstone] /\ pending' = pending \cup {e}
        /\ UNCHANGED <<online, wire, overtaken, screen, store, tasks, stale, stained>>
    BY <2>4 DEF Change
  <2> QED
    BY <2>1, <2>2, <2>3, <2>5
<1> QED
  BY <1>2, <1>3, <1>4

\* What a step of the peer leaves alone.
LEMMA PeerIs ==
    ASSUME Typed, Peer
    PROVE  /\ \E m \in Msgs : load' = load \/ load' = Behind(m)
           /\ UNCHANGED <<screen, store, arriving, editing, stained>>
<1>1. ASSUME NEW m \in Msgs, PeerSends(m) \/ PeerEdits(m) \/ PeerDeletes(m)
      PROVE  load' = load /\ UNCHANGED <<screen, store, arriving, editing, stained>>
  BY <1>1, ChangeIs DEF tasks
<1>2. ASSUME NEW e \in pending, Announce(e) \/ Silent(e)
      PROVE  /\ e.m \in Msgs /\ (load' = load \/ load' = Behind(e.m))
             /\ UNCHANGED <<screen, store, arriving, editing, stained>>
  BY <1>2, AnnounceIs
<1> QED
  BY <1>1, <1>2 DEF Peer

\* Rows only move forward.
LEMMA RowsAdvance ==
    ASSUME Typed, Next
    PROVE  /\ row' \in [Msgs -> Contents]
           /\ \A m \in Msgs : Past(row[m], row'[m])
<1>1. row \in [Msgs -> Contents]
  BY DEF Typed, TypeOK
<1>2. CASE \E m \in Msgs : PeerSends(m) \/ PeerEdits(m) \/ PeerDeletes(m)
  <2>1. PICK m \in Msgs, e \in Event :
           /\ Outcome(e) \in Contents /\ Past(row[m], Outcome(e))
           /\ row' = [row EXCEPT ![m] = Outcome(e)]
    BY <1>2, ChangeIs
  <2> QED
    BY <1>1, <2>1, PastSelf
<1>4. CASE \E e \in pending : Announce(e) \/ Silent(e)
  <2>1. row' = row
    BY <1>4, AnnounceIs
  <2> QED
    BY <1>1, <2>1, PastSelf
<1>3. CASE ~Peer
  <2>1. row' = row
    BY <1>3 DEF Next, Hook, Drop, Reconnect, Open, Leave, ReceiveNew, ReceiveEdited, ReceiveDeleted,
                Received, AddMessage, IndexEdited, LoadStart, LoadFetch, LoadFails, LoadApply,
                LoadIndex, server
  <2> QED
    BY <1>1, <2>1, PastSelf
<1> QED
  BY <1>2, <1>3, <1>4 DEF Peer

\* So does what the events say of them.
LEMMA FromRowStays ==
    ASSUME Typed, Next, NEW e \in Event, FromRow(e)
    PROVE  FromRow(e)'
<1>1. e.m \in Msgs /\ Outcome(e) \in Entry
  BY ContentsAre DEF FromRow, Outcome, Event
<1>2. row[e.m] \in Contents /\ row'[e.m] \in Contents /\ Past(row[e.m], row'[e.m])
  BY <1>1, RowsAdvance DEF Typed, TypeOK
<1>3. Past(Outcome(e), row'[e.m])
  BY <1>1, <1>2, PastStays DEF FromRow
<1> QED
  BY <1>3 DEF FromRow

LEMMA WireOfChange ==
    ASSUME Typed, WireOK, Next,
           NEW m \in Msgs, PeerSends(m) \/ PeerEdits(m) \/ PeerDeletes(m)
    PROVE  WireOK'
<1>1. PICK e \in Event :
         /\ e.m = m
         /\ e.event = "new" => e.text = 1
         /\ e.event = "edited" => e.text \in Texts
         /\ Outcome(e) \in Contents
         /\ \A o \in Event : FromRow(o) /\ o.m = m => Newer(e, o)
         /\ row' = [row EXCEPT ![m] = Outcome(e)]
         /\ pending' = pending \cup {e}
         /\ UNCHANGED <<online, wire, overtaken>>
  BY ChangeIs
<1>2. /\ row \in [Msgs -> Contents] /\ pending \subseteq Event
      /\ \A i \in 1..Len(wire) : wire[i] \in Event
  BY ElementOfSeq DEF Typed, TypeOK
<1>3. ASSUME NEW o \in Event, FromRow(o)
      PROVE  /\ FromRow(o)'
             /\ Newest(o) => Newest(o)' \/ ToBeOvertaken(o)'
             /\ ToBeOvertaken(o) => ToBeOvertaken(o)'
  <2>1. FromRow(o)'
    BY <1>3, FromRowStays
  <2>2. o.m = m => ToBeOvertaken(o)'
    BY <1>1, <1>3 DEF ToBeOvertaken
  <2>3. o.m # m => row'[o.m] = row[o.m]
    BY <1>1, <1>2
  <2> QED
    BY <1>1, <2>1, <2>2, <2>3 DEF Newest, ToBeOvertaken
<1>4. FromRow(e)' /\ Newest(e)'
  <2>1. row'[e.m] = Outcome(e)
    BY <1>1, <1>2
  <2>2. Past(Outcome(e), row'[e.m])
    BY <1>1, <2>1, PastSelf
  <2> QED
    BY <1>1, <2>1, <2>2 DEF FromRow, Newest
<1>5. ASSUME NEW o \in pending'
      PROVE  FromRow(o)' /\ (Newest(o)' \/ o \in overtaken' \/ ToBeOvertaken(o)')
  BY <1>1, <1>2, <1>3, <1>4 DEF WireOK
<1>6. ASSUME NEW i \in 1..Len(wire')
      PROVE  /\ FromRow(wire[i])'
             /\ \/ Newest(wire[i])' \/ wire[i] \in overtaken'
                \/ ToBeOvertaken(wire[i])' \/ Followed(i)
  BY <1>1, <1>2, <1>3 DEF WireOK
<1>7. wire' = wire /\ online' = online
  BY <1>1
<1> QED
  BY <1>5, <1>6, <1>7 DEF WireOK, FromRow, Newest, ToBeOvertaken, Followed

LEMMA WireOfAnnounce ==
    ASSUME Typed, WireOK, NEW a \in pending, Announce(a) \/ Silent(a)
    PROVE  WireOK'
<1>1. /\ a \in Event /\ pending \subseteq Event /\ pending' = pending \ {a}
      /\ overtaken \subseteq overtaken'
      /\ \A o \in pending : Newer(a, o) => o \in overtaken'
      /\ row' = row /\ online' = online
  BY AnnounceIs DEF Typed, TypeOK
<1>2. \A o : (FromRow(o) => FromRow(o)') /\ (Newest(o) => Newest(o)')
  BY <1>1 DEF FromRow, Newest
<1>3. ASSUME NEW o \in pending
      PROVE  FromRow(o)' /\ (Newest(o)' \/ o \in overtaken' \/ ToBeOvertaken(o)')
  <2>1. FromRow(o) /\ (Newest(o) \/ o \in overtaken \/ ToBeOvertaken(o))
    BY DEF WireOK
  <2>2. ToBeOvertaken(o) => o \in overtaken' \/ ToBeOvertaken(o)'
    BY <1>1 DEF ToBeOvertaken
  <2> QED
    BY <1>1, <1>2, <2>1, <2>2
<1>4. ASSUME NEW i \in 1..Len(wire), NEW d, d = wire[i]
      PROVE  /\ FromRow(d)'
             /\ \/ Newest(d)' \/ d \in overtaken' \/ ToBeOvertaken(d)'
                \/ Newer(a, d) \/ Followed(i)
  <2>1. FromRow(d) /\ (Newest(d) \/ d \in overtaken \/ ToBeOvertaken(d) \/ Followed(i))
    BY <1>4 DEF WireOK
  <2>2. ToBeOvertaken(d) => Newer(a, d) \/ ToBeOvertaken(d)'
    BY <1>1 DEF ToBeOvertaken
  <2> QED
    BY <1>1, <1>2, <2>1, <2>2
<1> DEFINE Told == \A i \in 1..Len(wire'), d \in Event : d = wire'[i] =>
                      /\ FromRow(d)'
                      /\ \/ Newest(d)' \/ d \in overtaken'
                         \/ ToBeOvertaken(d)' \/ Followed(i)'
<1>5. ASSUME Told, wire' \in Seq(Event), ~online => wire' = <<>>
      PROVE  WireOK'
  <2>1. \A i \in 1..Len(wire') : wire'[i] \in Event
    BY <1>5, ElementOfSeq
  <2> QED
    BY <1>1, <1>3, <1>5, <2>1 DEF WireOK, FromRow, Newest, ToBeOvertaken
<1> HIDE DEF Told
<1>W. wire \in Seq(Event)
  BY DEF Typed
<1>6. CASE wire' = Append(wire, a) /\ online
  <2>1. /\ Len(wire') = Len(wire) + 1 /\ Len(wire) \in Nat /\ wire' \in Seq(Event)
        /\ \A i \in 1..Len(wire) : wire'[i] = wire[i]
        /\ wire'[Len(wire) + 1] = a
    BY <1>1, <1>6, <1>W, AppendWire
  <2>2. ASSUME NEW i \in 1..Len(wire'), NEW d \in Event, d = wire'[i]
        PROVE  /\ FromRow(d)'
               /\ \/ Newest(d)' \/ d \in overtaken' \/ ToBeOvertaken(d)' \/ Followed(i)'
    <3>1. CASE i = Len(wire) + 1
      BY <1>3, <2>1, <2>2, <3>1
    <3>2. CASE i \in 1..Len(wire)
      <4>0. d = wire[i]
        BY <2>1, <2>2, <3>2
      <4>1. Newer(a, d) => Followed(i)'
        <5>1. Len(wire) + 1 \in 1..Len(wire') /\ Len(wire) + 1 > i
          BY <2>1, <3>2
        <5> QED
          BY <2>1, <2>2, <5>1 DEF Followed
      <4>2. Followed(i) => Followed(i)'
        <5>1. 1..Len(wire) \subseteq 1..Len(wire')
          BY <2>1
        <5> QED
          BY <2>1, <3>2, <5>1 DEF Followed
      <4> QED
        BY <1>4, <3>2, <4>0, <4>1, <4>2
    <3> QED
      BY <2>1, <3>1, <3>2
  <2> QED
    BY <1>5, <1>6, <2>1, <2>2 DEF Told
<1>7. CASE wire' = wire /\ ~online
  <2>1. wire' = <<>> /\ Len(wire') = 0
    BY <1>7 DEF WireOK
  <2> QED
    BY <1>5, <1>7, <1>W, <2>1 DEF Told
<1>8. CASE /\ wire' = wire
           /\ \A i \in 1..Len(wire) : Newer(a, wire[i]) => wire[i] \in overtaken'
  <2>1. \A i \in 1..Len(wire) : Followed(i) => Followed(i)'
    BY <1>8 DEF Followed
  <2>2. Told
    BY <1>4, <1>8, <2>1 DEF Told
  <2>3. ~online => wire' = <<>>
    BY <1>8 DEF WireOK
  <2> QED
    BY <1>5, <1>8, <1>W, <2>2, <2>3
<1> QED
  BY <1>6, <1>7, <1>8, AnnounceIs

LEMMA WireOfReceived ==
    ASSUME Typed, WireOK, NEW event, Received(event)
    PROVE  WireOK'
<1>1. /\ Len(wire') = Len(wire) - 1 /\ Len(wire) \in Nat \ {0}
      /\ \A i \in 1..Len(wire') : i + 1 \in 1..Len(wire) /\ wire'[i] = wire[i + 1]
      /\ UNCHANGED <<row, online, pending, overtaken>> /\ wire # <<>>
  BY ReceivedIs DEF Received
<1>2. ASSUME NEW i \in 1..Len(wire'), Followed(i + 1)
      PROVE  Followed(i)'
  <2>1. PICK j \in 1..Len(wire) : j > i + 1 /\ Newer(wire[j], wire[i + 1])
    BY <1>2 DEF Followed
  <2>2. j - 1 \in 1..Len(wire') /\ j - 1 > i /\ (j - 1) + 1 = j
    BY <1>1, <2>1
  <2>3. wire'[j - 1] = wire[j] /\ wire'[i] = wire[i + 1]
    BY <1>1, <2>2
  <2> QED
    BY <2>1, <2>2, <2>3 DEF Followed
<1>3. ASSUME NEW i \in 1..Len(wire')
      PROVE  /\ FromRow(wire'[i])
             /\ \/ Newest(wire'[i]) \/ wire'[i] \in overtaken
                \/ ToBeOvertaken(wire'[i]) \/ Followed(i)'
  <2>1. i + 1 \in 1..Len(wire) /\ wire'[i] = wire[i + 1]
    BY <1>1
  <2> QED
    BY <1>2, <2>1 DEF WireOK
<1>4. \A e \in pending : FromRow(e) /\ (Newest(e) \/ e \in overtaken \/ ToBeOvertaken(e))
  BY DEF WireOK
<1> QED
  BY <1>1, <1>3, <1>4 DEF WireOK, FromRow, Newest, ToBeOvertaken

LEMMA WireStays == Typed /\ WireOK /\ [Next]_vars => WireOK'
<1> SUFFICES ASSUME Typed, WireOK, [Next]_vars PROVE WireOK'
  OBVIOUS
<1>1. CASE Peer /\ Next
  BY <1>1, WireOfChange, WireOfAnnounce DEF Peer
<1>2. CASE Drop
  <2>1. wire' = <<>> /\ Len(wire') = 0 /\ UNCHANGED <<row, pending, overtaken>>
    BY <1>2 DEF Drop
  <2> QED
    BY <2>1 DEF WireOK, FromRow, Newest, ToBeOvertaken
<1>3. CASE UNCHANGED <<row, online, pending, wire, overtaken>>
  BY <1>3 DEF WireOK, FromRow, Newest, ToBeOvertaken, Followed
<1>4. CASE Reconnect
  <2>1. wire = <<>> /\ wire' = wire /\ Len(wire) = 0 /\ UNCHANGED <<row, pending, overtaken>>
    BY <1>4 DEF Reconnect, WireOK
  <2> QED
    BY <2>1 DEF WireOK, FromRow, Newest, ToBeOvertaken
<1> QED
  BY <1>1, <1>2, <1>3, <1>4, WireOfReceived
  DEF Next, Hook, Open, Leave, ReceiveNew, ReceiveEdited, ReceiveDeleted, AddMessage, IndexEdited,
      LoadStart, LoadFetch, LoadFails, LoadApply, LoadIndex, server, vars

\* What a load of an instance becomes.
LEMMA LoadSteps ==
    ASSUME Typed, NEW h \in Hooks
    PROVE  /\ LoadStart(h) => /\ load' = [load EXCEPT ![h].pc = "fetch"]
                              /\ UNCHANGED <<row, pending, wire, entry, arriving, editing, index, stale, stained>>
           /\ LoadFetch(h) => /\ load' = [load EXCEPT ![h].pc = "decrypt", ![h].rows = row,
                                            ![h].todo = {m \in Msgs : row[m].kind = "live"}]
                              /\ UNCHANGED <<row, pending, wire, entry, arriving, editing, index, stale, stained>>
           /\ LoadFails(h) => /\ load' = [load EXCEPT ![h] = Idle]
                              /\ UNCHANGED <<row, pending, wire, entry, arriving, editing, index, stale, stained>>
           /\ LoadApply(h) => /\ load[h].pc = "decrypt"
                              /\ load' = [load EXCEPT ![h] = Shown(load[h])]
                              /\ entry' = load[h].rows /\ stale' = load[h].behind
                              /\ UNCHANGED <<row, pending, wire, arriving, editing, index>>
           /\ LoadIndex(h) => \E l \in Load, m \in load[h].todo :
                              /\ load[h].pc = "index" /\ l.pc = "index"
                              /\ l.rows = load[h].rows /\ l.todo \subseteq load[h].todo
                              /\ load' = [load EXCEPT ![h] = Shown(l)]
                              /\ index' = [index EXCEPT ![m] = load[h].rows[m].text]
                              /\ UNCHANGED <<row, pending, wire, entry, arriving, editing, stale, stained>>
<1>1. load \in [Hooks -> Load] /\ load[h] \in Load
  BY LoadsAre DEF Typed
<1>2. ASSUME LoadIndex(h)
      PROVE  \E l \in Load, m \in load[h].todo :
                /\ load[h].pc = "index" /\ l.pc = "index"
                /\ l.rows = load[h].rows /\ l.todo \subseteq load[h].todo
                /\ load' = [load EXCEPT ![h] = Shown(l)]
                /\ index' = [index EXCEPT ![m] = load[h].rows[m].text]
                /\ UNCHANGED <<row, pending, wire, entry, arriving, editing, stale, stained>>
  <2>1. PICK m \in load[h].todo :
           /\ index' = [index EXCEPT ![m] = load[h].rows[m].text]
           /\ load' = [load EXCEPT ![h] = Shown([load[h] EXCEPT !.todo = load[h].todo \ {m}])]
    BY <1>1, <1>2 DEF LoadIndex
  <2> DEFINE l == [load[h] EXCEPT !.todo = load[h].todo \ {m}]
  <2>2. /\ l \in Load /\ l.pc = load[h].pc /\ l.rows = load[h].rows
        /\ l.todo \subseteq load[h].todo
    BY <1>1 DEF Load
  <2>3. load' = [load EXCEPT ![h] = Shown(l)]
    BY <2>1
  <2>4. load[h].pc = "index" /\ UNCHANGED <<row, pending, wire, entry, arriving, editing, stale, stained>>
    BY <1>2 DEF LoadIndex, server
  <2> HIDE DEF l
  <2> QED
    BY <2>1, <2>2, <2>3, <2>4
<1> QED
  BY <1>2 DEF LoadStart, LoadFetch, LoadFails, LoadApply, server, store

\* The rows a load holds after a step, and the one load that changes more than them.
LEMMA BehindIs ==
    ASSUME Typed, NEW m \in Msgs, load' = Behind(m), NEW h \in Hooks
    PROVE  /\ load'[h].pc = load[h].pc /\ load'[h].rows = load[h].rows
           /\ load'[h].todo = load[h].todo
           /\ load[h].behind \subseteq load'[h].behind
           /\ load[h].pc = "decrypt" => m \in load'[h].behind
<1>1. load[h] \in Load
  BY LoadsAre DEF Typed
<1>2. load'[h] = IF load[h].pc = "decrypt" THEN [load[h] EXCEPT !.behind = @ \cup {m}] ELSE load[h]
  BY DEF Behind
<1> QED
  BY <1>1, <1>2 DEF Load

LEMMA DropIs ==
    ASSUME Typed, Drop
    PROVE  \E lost \in SUBSET Msgs :
              /\ \A m \in Msgs : OnWire(m) => m \in lost
              /\ stale' = stale \cup lost
              /\ \A h \in Hooks :
                    /\ load'[h].pc = load[h].pc /\ load'[h].rows = load[h].rows
                    /\ load'[h].todo = load[h].todo
                    /\ load[h].behind \subseteq load'[h].behind
                    /\ load[h].pc = "decrypt" => lost \subseteq load'[h].behind
              /\ wire' = <<>>
              /\ UNCHANGED <<row, pending, screen, store, arriving, editing, stained>>
<1> DEFINE lost == {wire[i].m : i \in DOMAIN wire}
<1>1. lost \in SUBSET Msgs /\ DOMAIN wire = 1..Len(wire)
  BY DEF Typed, TypeOK, Event
<1>2. \A m \in Msgs : OnWire(m) => m \in lost
  BY <1>1 DEF OnWire
<1>3. /\ stale' = stale \cup lost /\ wire' = <<>>
      /\ UNCHANGED <<row, pending, screen, store, arriving, editing, stained>>
  BY DEF Drop
<1>4. load' = [h \in Hooks |-> IF load[h].pc = "decrypt"
                 THEN [load[h] EXCEPT !.behind = @ \cup lost] ELSE load[h]]
  BY DEF Drop
<1> HIDE DEF lost
<1>5. ASSUME NEW h \in Hooks
      PROVE  /\ load'[h].pc = load[h].pc /\ load'[h].rows = load[h].rows
             /\ load'[h].todo = load[h].todo
             /\ load[h].behind \subseteq load'[h].behind
             /\ load[h].pc = "decrypt" => lost \subseteq load'[h].behind
  <2>1. load[h] \in Load
    BY LoadsAre DEF Typed
  <2>2. load'[h] = IF load[h].pc = "decrypt" THEN [load[h] EXCEPT !.behind = @ \cup lost] ELSE load[h]
    BY <1>4
  <2> QED
    BY <2>1, <2>2 DEF Load
<1> QED
  BY <1>1, <1>2, <1>3, <1>5

\* It is enough that what is held is of the past of the rows before the step.
LEMMA PastLifts ==
    ASSUME Typed, Typed', Next,
           \A m \in Msgs :
              /\ Past(entry'[m], row[m])
              /\ \A h \in Hooks :
                    /\ Past(load'[h].rows[m], row[m])
                    /\ arriving'[h][m] # NoText => arriving'[h][m] = 1 /\ row[m] # None
    PROVE  PastOK'
<1> SUFFICES ASSUME NEW m \in Msgs
             PROVE  /\ Past(entry'[m], row'[m])
                    /\ \A h \in Hooks :
                          /\ Past(load'[h].rows[m], row'[m])
                          /\ arriving'[h][m] # NoText => arriving'[h][m] = 1 /\ row'[m] # None
  BY DEF PastOK
<1>1. row[m] \in Contents /\ row'[m] \in Contents /\ Past(row[m], row'[m])
  BY RowsAdvance DEF Typed, TypeOK
<1>2. entry'[m] \in Entry /\ \A h \in Hooks : load'[h].rows[m] \in Entry
  BY ContentsAre DEF Typed, TypeOK, Entry
<1>3. Past(entry'[m], row'[m])
  BY <1>1, <1>2, PastStays
<1>4. ASSUME NEW h \in Hooks
      PROVE  Past(load'[h].rows[m], row'[m])
  BY <1>1, <1>2, PastStays
<1>5. row[m] # None => row'[m] # None
  BY <1>1, ContentsAre, KindsDiffer DEF Past
<1> QED
  BY <1>3, <1>4, <1>5

LEMMA PastStaysOK == Typed /\ Typed' /\ WireOK /\ PastOK /\ [Next]_vars => PastOK'
<1> SUFFICES ASSUME Typed, Typed', WireOK, PastOK, [Next]_vars PROVE PastOK'
  OBVIOUS
<1>0. CASE UNCHANGED vars
  BY <1>0 DEF PastOK, vars, server, store, tasks
<1> SUFFICES ASSUME Next PROVE PastOK'
  BY <1>0
<1> DEFINE HeldOK(es, ls, as) ==
              \A m \in Msgs :
                 /\ Past(es[m], row[m])
                 /\ \A h \in Hooks : /\ Past(ls[h].rows[m], row[m])
                                     /\ as[h][m] # NoText => as[h][m] = 1 /\ row[m] # None
<1> SUFFICES HeldOK(entry', load', arriving')
  BY PastLifts
<1>A. HeldOK(entry, load, arriving)
  BY DEF PastOK
<1>B. /\ load \in [Hooks -> Load] /\ row \in [Msgs -> Contents] /\ entry \in [Msgs -> Entry]
      /\ arriving \in [Hooks -> [Msgs -> Texts \cup {NoText}]]
  BY LoadsAre DEF Typed, TypeOK, Entry
<1>C. \A c : Past(None, c)
  BY KindsDiffer DEF Past
<1>1. CASE Peer
  <2>1. PICK m0 \in Msgs : (load' = load \/ load' = Behind(m0)) /\ UNCHANGED <<entry, arriving>>
    BY <1>1, PeerIs DEF store
  <2>2. \A h \in Hooks : load'[h].rows = load[h].rows
    BY <2>1, BehindIs
  <2> QED
    BY <1>A, <2>1, <2>2
<1>2. CASE Drop
  <2>1. UNCHANGED <<entry, arriving>> /\ \A h \in Hooks : load'[h].rows = load[h].rows
    BY <1>2, DropIs DEF store
  <2> QED
    BY <1>A, <2>1
<1>3. CASE UNCHANGED <<entry, load, arriving>>
  BY <1>A, <1>3
<1>4. ASSUME NEW event, Received(event)
      PROVE  \A h \in Hooks : load'[h].rows = load[h].rows
  BY <1>4, ReceivedIs, BehindIs DEF Event
<1> DEFINE e == wire[1]
<1>5. ASSUME wire # <<>>, Head(wire) = e, e \in Event
      PROVE  /\ e.m \in Msgs /\ row[e.m] \in Contents
             /\ Past(Outcome(e), row[e.m])
             /\ e.event = "new" => e.text = 1 /\ row[e.m] # None
             /\ e.event = "edited" =>
                   e.text \in Texts /\ row[e.m] # None
                   /\ (row[e.m].kind = "live" => e.text <= row[e.m].text)
  <2>1. Len(wire) \in Nat \ {0} /\ 1 \in 1..Len(wire)
    BY <1>5, TailWire DEF Typed
  <2> QED
    BY <1>5, <1>B, <2>1, KindsDiffer DEF WireOK, FromRow, Past, Outcome, Event
<1>6. CASE ReceiveNew
  <2>1. Received("new") /\ entry' = entry
    BY <1>6 DEF ReceiveNew, store
  <2>2. /\ e.m \in Msgs /\ e.text = 1 /\ row[e.m] # None /\ Head(wire) = e
        /\ \A h \in Hooks : load'[h].rows = load[h].rows
    BY <1>4, <1>5, <2>1, ReceivedIs DEF Received
  <2>3. arriving' = [h \in Hooks |-> IF h \in Mounted
                       THEN [arriving[h] EXCEPT ![e.m] = e.text] ELSE arriving[h]]
    BY <1>6, <2>2 DEF ReceiveNew
  <2> HIDE DEF e
  <2> QED
    BY <1>A, <1>B, <2>1, <2>2, <2>3
<1>7. CASE ReceiveEdited
  <2>1. Received("edited") /\ arriving' = arriving
    BY <1>7 DEF ReceiveEdited
  <2>2. /\ e.m \in Msgs /\ e.text \in Texts /\ row[e.m] # None /\ Head(wire) = e
        /\ row[e.m].kind = "live" => e.text <= row[e.m].text
        /\ \A h \in Hooks : load'[h].rows = load[h].rows
    BY <1>4, <1>5, <2>1, ReceivedIs DEF Received
  <2>3. entry' = entry \/ entry' = [entry EXCEPT ![e.m] = [entry[e.m] EXCEPT !.text = e.text]]
    BY <1>7, <2>2 DEF ReceiveEdited
  <2> HIDE DEF e
  <2>4. Past([entry[e.m] EXCEPT !.text = e.text], row[e.m])
    <3>1. entry[e.m] = [kind |-> entry[e.m].kind, text |-> entry[e.m].text]
      BY <1>B, <2>2, ContentsAre
    <3> QED
      BY <1>A, <2>2, <3>1 DEF Past
  <2> QED
    BY <1>A, <1>B, <2>1, <2>2, <2>3, <2>4
<1>8. CASE ReceiveDeleted
  <2>1. Received("deleted") /\ arriving' = arriving
    BY <1>8 DEF ReceiveDeleted
  <2>2. /\ e.m \in Msgs /\ Head(wire) = e /\ e.event = "deleted"
        /\ Past(Outcome(e), row[e.m])
        /\ \A h \in Hooks : load'[h].rows = load[h].rows
    BY <1>4, <1>5, <2>1, ReceivedIs DEF Received
  <2>3. entry' = entry \/ entry' = [entry EXCEPT ![e.m] = Tombstone]
    BY <1>8, <2>2 DEF ReceiveDeleted
  <2>4. Past(Tombstone, row[e.m])
    BY <2>2 DEF Outcome
  <2> HIDE DEF e
  <2> QED
    BY <1>A, <1>B, <2>1, <2>2, <2>3, <2>4
<1>9. ASSUME NEW h \in Hooks, NEW m \in Msgs, AddMessage(h, m)
      PROVE  HeldOK(entry', load', arriving')
  <2>1. /\ load' = Behind(m)
        /\ entry' = entry \/ entry' = [entry EXCEPT ![m] = Live(arriving[h][m])]
        /\ arriving' = [arriving EXCEPT ![h] = [arriving[h] EXCEPT ![m] = NoText]]
        /\ arriving[h][m] # NoText
    BY <1>9, <1>B DEF AddMessage
  <2>2. \A g \in Hooks : load'[g].rows = load[g].rows
    BY <2>1, BehindIs
  <2>3. arriving[h][m] = 1 /\ row[m] # None /\ row[m] \in Entry
    BY <1>A, <1>B, <2>1, ContentsAre
  <2>4. Past(Live(1), row[m])
    <3>1. row[m].kind = "live" => 1 <= row[m].text
      BY <2>3, ContentsAre DEF Texts
    <3> QED
      BY <2>3, <3>1, KindsDiffer DEF Past
  <2> QED
    BY <1>A, <1>B, <2>1, <2>2, <2>3, <2>4
<1>10. ASSUME NEW h \in Hooks,
              \/ LoadStart(h) \/ LoadFetch(h) \/ LoadFails(h) \/ LoadApply(h) \/ LoadIndex(h)
       PROVE  HeldOK(entry', load', arriving')
  <2>1. load[h] \in Load /\ Idle.rows = [m \in Msgs |-> None] /\ load[h].rows \in [Msgs -> Contents]
    BY <1>B DEF Load, Idle
  <2>2. arriving' = arriving /\ (entry' = entry \/ entry' = load[h].rows)
    BY <1>10, LoadSteps
  <2>3. ASSUME NEW g \in Hooks, NEW m \in Msgs
        PROVE  Past(load'[g].rows[m], row[m])
    <3>0. Past(load[g].rows[m], row[m]) /\ load[g] \in Load
      BY <1>A, <1>B
    <3>1. CASE LoadStart(h)
      <4>1. load' = [load EXCEPT ![h].pc = "fetch"]
        BY <3>1, LoadSteps
      <4>2. load'[g].rows = load[g].rows
        BY <1>B, <3>0, <4>1 DEF Load
      <4> QED
        BY <3>0, <4>2
    <3>2. CASE LoadFetch(h)
      <4>1. load' = [load EXCEPT ![h].pc = "decrypt", ![h].rows = row,
                                 ![h].todo = {n \in Msgs : row[n].kind = "live"}]
        BY <3>2, LoadSteps
      <4>2. load'[g].rows = IF g = h THEN row ELSE load[g].rows
        BY <1>B, <3>0, <2>1, <4>1 DEF Load
      <4>3. Past(row[m], row[m])
        BY <1>B, PastSelf
      <4> QED
        BY <3>0, <4>2, <4>3
    <3>3. CASE LoadFails(h)
      <4>1. load' = [load EXCEPT ![h] = Idle]
        BY <3>3, LoadSteps
      <4>2. load'[g].rows = IF g = h THEN [n \in Msgs |-> None] ELSE load[g].rows
        BY <1>B, <2>1, <4>1
      <4> QED
        BY <1>C, <3>0, <4>2
    <3>4. CASE LoadApply(h)
      <4>1. load' = [load EXCEPT ![h] = Shown(load[h])]
        BY <3>4, LoadSteps
      <4>2. Shown(load[h]).rows = load[h].rows \/ Shown(load[h]).rows = [n \in Msgs |-> None]
        BY <2>1, ShownIs
      <4> QED
        BY <1>A, <1>B, <1>C, <4>1, <4>2
    <3>5. CASE LoadIndex(h)
      <4>1. PICK l \in Load : load' = [load EXCEPT ![h] = Shown(l)] /\ l.rows = load[h].rows
        BY <3>5, LoadSteps
      <4>2. Shown(l).rows = load[h].rows \/ Shown(l).rows = [n \in Msgs |-> None]
        BY <4>1, ShownIs
      <4> QED
        BY <1>A, <1>B, <1>C, <4>1, <4>2
    <3> QED
      BY <1>10, <3>1, <3>2, <3>3, <3>4, <3>5
  <2> QED
    BY <1>A, <2>2, <2>3
<1> HIDE DEF HeldOK
<1> QED
  BY <1>1, <1>2, <1>3, <1>6, <1>7, <1>8, <1>9, <1>10
  DEF Next, Hook, Reconnect, Open, Leave, IndexEdited, store, tasks

-----------------------------------------------------------------------------
(* The list                                                                *)

\* The list as of m; a load as of m.
Listed(m) ==
    m \notin stale =>
       \/ entry[m] = row[m]
       \/ /\ entry[m] = None /\ row[m] = Live(1)
          /\ \E h \in Hooks : arriving[h][m] # NoText
Loaded(m) ==
    \A h \in Hooks :
       load[h].pc = "decrypt" /\ m \notin load[h].behind => load[h].rows[m] = row[m]

LEMMA ListParts == ListOK <=> \A m \in Msgs : ~OnItsWay(m) => Listed(m) /\ Loaded(m)
  BY DEF ListOK, Listed, Loaded

\* What receiving does to the events of a message.
LEMMA ReceivedWire ==
    ASSUME Typed, WireOK, NEW event, Received(event), NEW m \in Msgs, ~OnItsWay(m)'
    PROVE  /\ m # wire[1].m => ~OnItsWay(m)
           /\ m = wire[1].m /\ wire[1] \notin overtaken => row[m] = Outcome(wire[1])
<1>1. /\ Len(wire') = Len(wire) - 1 /\ Len(wire) \in Nat \ {0}
      /\ \A i \in 1..Len(wire') : i + 1 \in 1..Len(wire) /\ wire'[i] = wire[i + 1]
      /\ pending' = pending
  BY ReceivedIs
<1>2. ASSUME NEW i \in 1..Len(wire), i > 1
      PROVE  wire[i].m # m
  <2>1. i - 1 \in 1..Len(wire') /\ (i - 1) + 1 = i
    BY <1>1, <1>2
  <2>2. wire'[i - 1] = wire[i]
    BY <1>1, <2>1
  <2> QED
    BY <2>1, <2>2 DEF OnItsWay, OnWire
<1>3. \A e \in pending : e.m # m
  BY <1>1 DEF OnItsWay, OnWire
<1>4. ASSUME m # wire[1].m
      PROVE  ~OnItsWay(m)
  <2>1. \A i \in 1..Len(wire) : i = 1 \/ i > 1
    BY <1>1
  <2> QED
    BY <1>2, <1>3, <1>4, <2>1 DEF OnItsWay, OnWire
<1>5. ASSUME m = wire[1].m, wire[1] \notin overtaken
      PROVE  row[m] = Outcome(wire[1])
  <2>1. 1 \in 1..Len(wire) /\ ~Followed(1)
    BY <1>1, <1>2, <1>5 DEF Followed, Newer
  <2>2. ~ToBeOvertaken(wire[1])
    BY <1>3, <1>5 DEF ToBeOvertaken, Newer
  <2> QED
    BY <1>5, <2>1, <2>2 DEF WireOK, Newest
<1> QED
  BY <1>4, <1>5

\* Loads are behind on the message of an event.
LEMMA ReceivedLoads ==
    ASSUME Typed, WireOK, NEW event, Received(event), NEW m \in Msgs, ~OnItsWay(m)',
           ~OnItsWay(m) => Loaded(m)
    PROVE  Loaded(m)'
<1>1. load' = Behind(wire[1].m) /\ wire[1].m \in Msgs /\ row' = row
  BY ReceivedIs DEF Event
<1> SUFFICES ASSUME NEW h \in Hooks, load'[h].pc = "decrypt", m \notin load'[h].behind
             PROVE  load'[h].rows[m] = row'[m]
  BY DEF Loaded
<1>2. /\ load[h].pc = "decrypt" /\ load'[h].rows = load[h].rows
      /\ m \notin load[h].behind /\ m # wire[1].m
  BY <1>1, BehindIs
<1> QED
  BY <1>1, <1>2, ReceivedWire DEF Loaded

LEMMA ListOfChange ==
    ASSUME Typed, ListOK, NEW m0 \in Msgs, PeerSends(m0) \/ PeerEdits(m0) \/ PeerDeletes(m0),
           NEW m \in Msgs, ~OnItsWay(m)'
    PROVE  Listed(m)' /\ Loaded(m)'
<1>1. PICK e \in Event :
         /\ e.m = m0
         /\ row' = [row EXCEPT ![m0] = Outcome(e)]
         /\ pending' = pending \cup {e}
         /\ UNCHANGED <<wire, entry, arriving, load, stale>>
  BY ChangeIs DEF store, tasks
<1>2. m # m0 /\ ~OnItsWay(m)
  BY <1>1 DEF OnItsWay, OnWire
<1>3. row'[m] = row[m]
  BY <1>1, <1>2 DEF Typed, TypeOK
<1> QED
  BY <1>1, <1>2, <1>3 DEF ListOK, Listed, Loaded

LEMMA ListOfAnnounce ==
    ASSUME Typed, ListOK, NEW e \in pending, Announce(e) \/ Silent(e),
           NEW m \in Msgs, ~OnItsWay(m)'
    PROVE  Listed(m)' /\ Loaded(m)'
<1>1. /\ e \in Event /\ e.m \in Msgs /\ pending' = pending \ {e}
      /\ \/ /\ wire' = Append(wire, e) /\ UNCHANGED <<load, stale>>
         \/ /\ wire' = wire
            /\ stale' = stale \cup {e.m} /\ load' = Behind(e.m)
      /\ UNCHANGED <<row, entry, arriving>>
  BY AnnounceIs DEF store
<1>2. CASE wire' = Append(wire, e) /\ UNCHANGED <<load, stale>>
  <2>1. /\ Len(wire') = Len(wire) + 1 /\ Len(wire) \in Nat
        /\ \A i \in 1..Len(wire) : wire'[i] = wire[i]
        /\ wire'[Len(wire) + 1] = e
    BY <1>1, <1>2, AppendWire DEF Typed
  <2>2. ~OnItsWay(m)
    <3>1. Len(wire) + 1 \in 1..Len(wire') /\ 1..Len(wire) \subseteq 1..Len(wire')
      BY <2>1
    <3> QED
      BY <1>1, <2>1, <3>1 DEF OnItsWay, OnWire
  <2> QED
    BY <1>1, <1>2, <2>2 DEF ListOK, Listed, Loaded
<1>3. CASE wire' = wire /\ stale' = stale \cup {e.m} /\ load' = Behind(e.m)
  <2>1. m # e.m => ~OnItsWay(m)
    BY <1>1, <1>3 DEF OnItsWay, OnWire
  <2>2. \A h \in Hooks : /\ load'[h].pc = load[h].pc /\ load'[h].rows = load[h].rows
                         /\ load[h].behind \subseteq load'[h].behind
                         /\ load[h].pc = "decrypt" => e.m \in load'[h].behind
    BY <1>1, <1>3, BehindIs
  <2> QED
    BY <1>1, <1>3, <2>1, <2>2 DEF ListOK, Listed, Loaded
<1> QED
  BY <1>1, <1>2, <1>3

LEMMA ListOfDrop ==
    ASSUME Typed, ListOK, Drop, NEW m \in Msgs, ~OnItsWay(m)'
    PROVE  Listed(m)' /\ Loaded(m)'
<1>1. PICK lost \in SUBSET Msgs :
         /\ \A k \in Msgs : OnWire(k) => k \in lost
         /\ stale' = stale \cup lost
         /\ \A h \in Hooks :
               /\ load'[h].pc = load[h].pc /\ load'[h].rows = load[h].rows
               /\ load'[h].todo = load[h].todo
               /\ load[h].behind \subseteq load'[h].behind
               /\ load[h].pc = "decrypt" => lost \subseteq load'[h].behind
         /\ wire' = <<>>
         /\ UNCHANGED <<row, pending, screen, store, arriving, editing, stained>>
  BY DropIs
<1>2. UNCHANGED <<row, pending, entry, arriving>>
  BY <1>1 DEF store
<1>3. ~OnItsWay(m) \/ m \in lost
  BY <1>1, <1>2 DEF OnItsWay
<1> QED
  BY <1>1, <1>2, <1>3 DEF ListOK, Listed, Loaded

\* A new message waits to be decrypted by the instances that heard of it.
LEMMA ListOfNew ==
    ASSUME Typed, WireOK, PastOK, ListOK, ReceiveNew, NEW m \in Msgs, ~OnItsWay(m)'
    PROVE  Listed(m)'
<1>1. Received("new")
  BY DEF ReceiveNew
<1> DEFINE e == wire[1]
<1>2. /\ e \in Event /\ e.event = "new" /\ Head(wire) = e /\ row' = row /\ e.m \in Msgs
      /\ 1 \in 1..Len(wire) /\ e.text = 1
  <2>1. e \in Event /\ e.event = "new" /\ Head(wire) = e /\ row' = row /\ 1 \in 1..Len(wire)
    BY <1>1, ReceivedIs
  <2> QED
    BY <2>1 DEF WireOK, FromRow, Event
<1>3. /\ arriving' = [h \in Hooks |-> IF h \in Mounted
                        THEN [arriving[h] EXCEPT ![e.m] = e.text] ELSE arriving[h]]
      /\ stale \subseteq stale'
      /\ Mounted = {} \/ e \in overtaken => e.m \in stale'
      /\ entry' = entry
  BY <1>2 DEF ReceiveNew, StaleIf, store
<1>4. /\ arriving \in [Hooks -> [Msgs -> Texts \cup {NoText}]]
      /\ entry[m] \in Entry /\ row[m] \in Contents
  BY DEF Typed, TypeOK, Entry
<1>5. m # e.m => ~OnItsWay(m)
  BY <1>1, ReceivedWire
<1>6. m = e.m /\ e \notin overtaken => row[m] = Outcome(e)
  BY <1>1, ReceivedWire
<1> HIDE DEF e
<1>7. CASE m # e.m
  <2>1. \A h \in Hooks : arriving'[h][m] = arriving[h][m]
    BY <1>2, <1>3, <1>4, <1>7
  <2> QED
    BY <1>2, <1>3, <1>5, <1>7, <2>1 DEF ListOK, Listed
<1>8. CASE m = e.m /\ e \notin overtaken
  <2>1. row[m] = Live(1)
    BY <1>2, <1>6, <1>8 DEF Outcome
  <2>2. entry[m] = None \/ entry[m] = Live(1)
    <3>1. entry[m].kind # "deleted"
      BY <2>1, KindsDiffer DEF PastOK, Past
    <3>2. entry[m].kind = "live" => entry[m].text <= 1 /\ entry[m].text \in Texts
      BY <1>4, <2>1, KindsDiffer, ContentsAre DEF PastOK, Past
    <3> QED
      BY <1>4, <3>1, <3>2, ContentsAre, BoundAssumption DEF Texts
  <2>3. ASSUME m \notin stale'
        PROVE  \E h \in Hooks : arriving'[h][m] # NoText
    <3>1. PICK h \in Mounted : h \in Hooks
      BY <1>3, <1>8, <2>3, PageHookAssumption DEF Mounted
    <3>2. arriving'[h] = [arriving[h] EXCEPT ![m] = 1]
      BY <1>2, <1>3, <1>8, <3>1
    <3> QED
      BY <1>4, <3>1, <3>2 DEF NoText
  <2> QED
    BY <1>2, <1>3, <2>1, <2>2, <2>3 DEF Listed
<1> QED
  BY <1>3, <1>7, <1>8 DEF Listed

LEMMA ListOfEdited ==
    ASSUME Typed, WireOK, PastOK, ListOK, ReceiveEdited, NEW m \in Msgs, ~OnItsWay(m)'
    PROVE  Listed(m)'
<1>1. Received("edited")
  BY DEF ReceiveEdited
<1> DEFINE e == wire[1]
<1>2. e \in Event /\ e.event = "edited" /\ Head(wire) = e /\ row' = row /\ e.m \in Msgs
  BY <1>1, ReceivedIs DEF Event
<1>3. /\ stale \subseteq stale' /\ (e \in overtaken => e.m \in stale')
      /\ \/ e.m \in stale' /\ entry' = entry
         \/ /\ entry[e.m] # None
            /\ entry' = [entry EXCEPT ![e.m] = [entry[e.m] EXCEPT !.text = e.text]]
      /\ arriving' = arriving
  BY <1>2 DEF ReceiveEdited, StaleIf
<1>4. entry \in [Msgs -> Entry]
  BY DEF Typed, TypeOK, Entry
<1>5. m # e.m => ~OnItsWay(m)
  BY <1>1, ReceivedWire
<1>6. m = e.m /\ e \notin overtaken => row[m] = Outcome(e)
  BY <1>1, ReceivedWire
<1> HIDE DEF e
<1>7. CASE m # e.m
  BY <1>2, <1>3, <1>4, <1>5, <1>7 DEF ListOK, Listed
<1>8. CASE m = e.m /\ m \notin stale'
  <2>1. row[m] = Live(e.text)
    BY <1>2, <1>3, <1>6, <1>8 DEF Outcome
  <2>2. /\ entry[m] \in Entry /\ entry[m] # None
        /\ entry'[m] = [entry[m] EXCEPT !.text = e.text]
    BY <1>3, <1>4, <1>8
  <2>3. entry[m].kind = "live"
    BY <2>1, <2>2, ContentsAre, KindsDiffer DEF PastOK, Past
  <2>4. entry'[m] = Live(e.text)
    <3>1. entry[m] = [kind |-> "live", text |-> entry[m].text]
      BY <2>2, <2>3, ContentsAre
    <3> QED
      BY <2>2, <3>1 DEF Live
  <2> QED
    BY <1>2, <2>1, <2>4 DEF Listed
<1> QED
  BY <1>7, <1>8 DEF Listed

LEMMA ListOfDeleted ==
    ASSUME Typed, WireOK, ListOK, ReceiveDeleted, NEW m \in Msgs, ~OnItsWay(m)'
    PROVE  Listed(m)'
<1>1. Received("deleted")
  BY DEF ReceiveDeleted
<1> DEFINE e == wire[1]
<1>2. e \in Event /\ e.event = "deleted" /\ Head(wire) = e /\ row' = row /\ e.m \in Msgs
  BY <1>1, ReceivedIs DEF Event
<1>3. /\ stale \subseteq stale' /\ (e \in overtaken => e.m \in stale')
      /\ \/ e.m \in stale' /\ entry' = entry
         \/ entry' = [entry EXCEPT ![e.m] = Tombstone]
      /\ arriving' = arriving
  BY <1>2 DEF ReceiveDeleted, StaleIf
<1>4. entry \in [Msgs -> Entry]
  BY DEF Typed, TypeOK, Entry
<1>5. m # e.m => ~OnItsWay(m)
  BY <1>1, ReceivedWire
<1>6. m = e.m /\ e \notin overtaken => row[m] = Tombstone
  BY <1>1, <1>2, ReceivedWire DEF Outcome
<1> HIDE DEF e
<1>7. CASE m # e.m
  BY <1>2, <1>3, <1>4, <1>5, <1>7 DEF ListOK, Listed
<1>8. CASE m = e.m
  BY <1>2, <1>3, <1>4, <1>6, <1>8 DEF Listed
<1> QED
  BY <1>7, <1>8

LEMMA ListOfAdded ==
    ASSUME Typed, PastOK, ListOK, NEW h \in Hooks, NEW n \in Msgs, AddMessage(h, n),
           NEW m \in Msgs, ~OnItsWay(m)'
    PROVE  Listed(m)' /\ Loaded(m)'
<1>1. /\ entry' = IF entry[n] = None THEN [entry EXCEPT ![n] = Live(arriving[h][n])] ELSE entry
      /\ arriving' = [arriving EXCEPT ![h] = [arriving[h] EXCEPT ![n] = NoText]]
      /\ arriving[h][n] # NoText
      /\ load' = Behind(n)
      /\ UNCHANGED <<row, pending, wire, stale>>
  BY DEF AddMessage, server, Typed, TypeOK
<1>2. /\ entry \in [Msgs -> Entry]
      /\ arriving \in [Hooks -> [Msgs -> Texts \cup {NoText}]]
  BY DEF Typed, TypeOK, Entry
<1>3. ~OnItsWay(m)
  BY <1>1 DEF OnItsWay, OnWire
<1>4. Loaded(m)'
  BY <1>1, <1>3, BehindIs DEF ListOK, Loaded
<1>5. CASE m # n
  <2>1. entry'[m] = entry[m] /\ \A g \in Hooks : arriving'[g][m] = arriving[g][m]
    BY <1>1, <1>2, <1>5
  <2> QED
    BY <1>1, <1>3, <1>4, <2>1 DEF ListOK, Listed
<1>6. CASE m = n
  <2>1. arriving[h][m] = 1 /\ row[m] # None
    BY <1>1, <1>6 DEF PastOK
  <2>2. entry[m] # None => entry'[m] = entry[m]
    BY <1>1, <1>6
  <2>3. entry[m] = None => entry'[m] = Live(1)
    BY <1>1, <1>2, <1>6, <2>1
  <2> QED
    BY <1>1, <1>3, <1>4, <2>1, <2>2, <2>3 DEF ListOK, Listed
<1> QED
  BY <1>5, <1>6

LEMMA ListOfLoad ==
    ASSUME Typed, ListOK, NEW h \in Hooks,
           LoadStart(h) \/ LoadFetch(h) \/ LoadFails(h) \/ LoadApply(h) \/ LoadIndex(h),
           NEW m \in Msgs, ~OnItsWay(m)'
    PROVE  Listed(m)' /\ Loaded(m)'
<1>1. load \in [Hooks -> Load] /\ load[h] \in Load /\ Idle.pc = "idle"
  BY LoadsAre DEF Typed, Idle
<1>2. UNCHANGED <<row, pending, wire, arriving>>
  BY LoadSteps
<1>3. ~OnItsWay(m) /\ Listed(m) /\ Loaded(m)
  BY <1>2, ListParts DEF OnItsWay, OnWire
<1>4. Listed(m)'
  <2>1. CASE LoadApply(h)
    BY <1>2, <1>3, <2>1, LoadSteps DEF Listed, Loaded
  <2>2. CASE ~LoadApply(h)
    <3>1. UNCHANGED <<entry, stale>>
      BY <2>2, LoadSteps
    <3> QED
      BY <1>2, <1>3, <3>1 DEF Listed
  <2> QED
    BY <2>1, <2>2
<1>5. ASSUME NEW l, load' = [load EXCEPT ![h] = l],
             l.pc = "decrypt" /\ m \notin l.behind => l.rows[m] = row[m]
      PROVE  Loaded(m)'
  BY <1>1, <1>2, <1>3, <1>5 DEF Loaded
<1>6. Loaded(m)'
  <2>1. CASE LoadStart(h)
    <3> DEFINE l == [load[h] EXCEPT !.pc = "fetch"]
    <3>1. load' = [load EXCEPT ![h] = l]
      BY <2>1, LoadSteps, <1>1
    <3>2. l.pc = "fetch"
      BY <1>1 DEF Load
    <3> HIDE DEF l
    <3> QED
      BY <1>5, <3>1, <3>2
  <2>2. CASE LoadFetch(h)
    <3> DEFINE l == [load[h] EXCEPT !.pc = "decrypt", !.rows = row,
                                    !.todo = {k \in Msgs : row[k].kind = "live"}]
    <3>1. load' = [load EXCEPT ![h] = l]
      BY <1>1, <2>2 DEF LoadFetch
    <3>2. l.rows = row
      BY <1>1 DEF Load
    <3> HIDE DEF l
    <3> QED
      BY <1>5, <3>1, <3>2
  <2>3. CASE LoadFails(h)
    BY <1>1, <1>5, <2>3, LoadSteps
  <2>4. CASE LoadApply(h)
    <3>1. load' = [load EXCEPT ![h] = Shown(load[h])]
      BY <2>4, LoadSteps
    <3>2. Shown(load[h]).pc \in {"idle", "index"}
      BY <1>1, ShownIs
    <3> QED
      BY <1>5, <3>1, <3>2
  <2>5. CASE LoadIndex(h)
    <3>1. PICK l \in Load : load' = [load EXCEPT ![h] = Shown(l)]
      BY <2>5, LoadSteps
    <3>2. Shown(l).pc \in {"idle", "index"}
      BY ShownIs
    <3> QED
      BY <1>5, <3>1, <3>2
  <2> QED
    BY <2>1, <2>2, <2>3, <2>4, <2>5
<1> QED
  BY <1>4, <1>6

LEMMA ListStays == Typed /\ WireOK /\ PastOK /\ ListOK /\ [Next]_vars => ListOK'
<1> SUFFICES ASSUME Typed, WireOK, PastOK, ListOK, [Next]_vars,
                    NEW m \in Msgs, ~OnItsWay(m)'
             PROVE  Listed(m)' /\ Loaded(m)'
  BY DEF ListOK, Listed, Loaded
<1>1. ~OnItsWay(m) => Listed(m) /\ Loaded(m)
  BY ListParts
<1>2. CASE Peer
  BY <1>2, ListOfChange, ListOfAnnounce DEF Peer
<1>3. CASE Drop
  BY <1>3, ListOfDrop
<1>4. CASE ReceiveNew
  BY <1>1, <1>4, ListOfNew, ReceivedLoads DEF ReceiveNew
<1>5. CASE ReceiveEdited
  BY <1>1, <1>5, ListOfEdited, ReceivedLoads DEF ReceiveEdited
<1>6. CASE ReceiveDeleted
  BY <1>1, <1>6, ListOfDeleted, ReceivedLoads DEF ReceiveDeleted
<1>7. CASE \E h \in Hooks, n \in Msgs : AddMessage(h, n)
  BY <1>7, ListOfAdded
<1>8. CASE \E h \in Hooks : LoadStart(h) \/ LoadFetch(h) \/ LoadFails(h) \/ LoadApply(h) \/ LoadIndex(h)
  BY <1>8, ListOfLoad
<1>9. CASE UNCHANGED <<row, pending, wire, entry, arriving, load, stale>>
  BY <1>1, <1>9 DEF OnItsWay, OnWire, Listed, Loaded
<1> QED
  BY <1>2, <1>3, <1>4, <1>5, <1>6, <1>7, <1>8, <1>9
  DEF Next, Hook, Reconnect, Open, Leave, IndexEdited, server, store, tasks, vars

-----------------------------------------------------------------------------
(* The index                                                               *)

\* Nothing puts m into the index, and it is not there.
Forgotten(m) ==
    /\ index[m] = NoText
    /\ \A h \in Hooks : /\ editing[h][m] = {}
                        /\ load[h].pc = "index" => m \notin load[h].todo

LEMMA IndexParts ==
    IndexOK <=> \A m \in Msgs : entry[m].kind = "deleted" /\ m \notin stained => Forgotten(m)
  BY DEF IndexOK, Forgotten

\* Loads whose rows are not in the list yet do not count.
LEMMA ForgottenStays ==
    ASSUME NEW m \in Msgs, Forgotten(m), index'[m] = index[m],
           \A h \in Hooks : /\ editing'[h][m] = editing[h][m]
                            /\ load'[h].pc = "index" =>
                                  load[h].pc = "index" /\ load'[h].todo \subseteq load[h].todo
    PROVE  Forgotten(m)'
  BY DEF Forgotten

LEMMA IndexOfEdited ==
    ASSUME Typed, IndexOK, ReceiveEdited, NEW m \in Msgs,
           entry'[m].kind = "deleted", m \notin stained'
    PROVE  Forgotten(m)'
<1> DEFINE e == Head(wire)
<1>1. Received("edited")
  BY DEF ReceiveEdited
<1>2. e.m \in Msgs /\ load' = Behind(e.m)
  BY <1>1, ReceivedIs DEF Event
<1>3. /\ \/ UNCHANGED <<entry, editing>>
         \/ /\ entry' = [entry EXCEPT ![e.m] = [entry[e.m] EXCEPT !.text = e.text]]
            /\ editing' = [h \in Hooks |->
                 IF h \in Mounted /\ entry[e.m].kind = "live"
                 THEN [editing[h] EXCEPT ![e.m] = @ \cup {e.text}] ELSE editing[h]]
      /\ UNCHANGED <<index, stained>>
  BY DEF ReceiveEdited
<1>4. entry \in [Msgs -> Entry] /\ editing \in [Hooks -> [Msgs -> SUBSET Texts]]
  BY DEF Typed, TypeOK, Entry
<1> HIDE DEF e
<1>5. entry[m].kind = "deleted"
  <2>1. CASE entry' = entry
    BY <2>1
  <2>2. CASE entry' = [entry EXCEPT ![e.m] = [entry[e.m] EXCEPT !.text = e.text]]
    <3>1. entry[e.m] = [kind |-> entry[e.m].kind, text |-> entry[e.m].text]
      BY <1>2, <1>4, ContentsAre
    <3>2. [entry[e.m] EXCEPT !.text = e.text].kind = entry[e.m].kind
      BY <3>1
    <3> QED
      BY <1>4, <2>2, <3>2
  <2> QED
    BY <1>3, <2>1, <2>2
<1>6. \A h \in Hooks : editing'[h][m] = editing[h][m]
  <2>1. m = e.m => entry[e.m].kind # "live"
    BY <1>5
  <2> QED
    BY <1>2, <1>3, <1>4, <2>1
<1>7. Forgotten(m)
  BY <1>3, <1>5, IndexParts
<1> QED
  BY <1>2, <1>3, <1>6, <1>7, BehindIs, ForgottenStays

LEMMA IndexOfDeleted ==
    ASSUME Typed, IndexOK, ReceiveDeleted, NEW m \in Msgs,
           entry'[m].kind = "deleted", m \notin stained'
    PROVE  Forgotten(m)'
<1> DEFINE n == Head(wire).m
<1>1. Received("deleted")
  BY DEF ReceiveDeleted
<1>2. n \in Msgs /\ load' = Behind(n)
  BY <1>1, ReceivedIs DEF Event
<1>3. /\ editing' = editing
      /\ Mounted = {} => UNCHANGED <<entry, index, stained>>
      /\ Mounted # {} => /\ index' = [index EXCEPT ![n] = NoText]
                         /\ stained' = IF Indexing(n) THEN stained \cup {n} ELSE stained
      /\ entry' = entry \/ entry' = [entry EXCEPT ![n] = Tombstone]
  BY DEF ReceiveDeleted
<1>4. entry \in [Msgs -> Entry] /\ index \in [Msgs -> Texts \cup {NoText}]
  BY DEF Typed, TypeOK, Entry
<1> HIDE DEF n
<1>5. CASE m = n /\ Mounted # {}
  <2>1. ~Indexing(m) /\ index'[m] = NoText
    BY <1>2, <1>3, <1>4, <1>5
  <2>2. \A h \in Hooks : editing[h][m] = {} /\ m \notin load[h].todo
    BY <2>1 DEF Indexing
  <2> QED
    BY <1>2, <1>3, <2>1, <2>2, BehindIs DEF Forgotten
<1>6. CASE m # n \/ Mounted = {}
  <2>1. entry[m].kind = "deleted" /\ m \notin stained /\ index'[m] = index[m]
    BY <1>2, <1>3, <1>4, <1>6
  <2>2. Forgotten(m)
    BY <2>1, IndexParts
  <2> QED
    BY <1>2, <1>3, <2>1, <2>2, BehindIs, ForgottenStays
<1> QED
  BY <1>5, <1>6

LEMMA IndexOfAdded ==
    ASSUME Typed, IndexOK, NEW h \in Hooks, NEW n \in Msgs, AddMessage(h, n),
           NEW m \in Msgs, entry'[m].kind = "deleted", m \notin stained'
    PROVE  Forgotten(m)'
<1>1. /\ entry' = IF entry[n] = None THEN [entry EXCEPT ![n] = Live(arriving[h][n])] ELSE entry
      /\ index' = [index EXCEPT ![n] = arriving[h][n]]
      /\ load' = Behind(n)
      /\ stained' = IF entry[n].kind = "deleted" THEN stained \cup {n} ELSE stained
      /\ editing' = editing
  BY DEF AddMessage
<1>2. entry \in [Msgs -> Entry] /\ index \in [Msgs -> Texts \cup {NoText}]
  BY DEF Typed, TypeOK, Entry
<1>3. entry[m].kind = "deleted" /\ m \notin stained /\ m # n
  BY <1>1, <1>2, KindsDiffer
<1>4. Forgotten(m) /\ index'[m] = index[m]
  BY <1>1, <1>2, <1>3, IndexParts
<1> QED
  BY <1>1, <1>4, BehindIs, ForgottenStays

LEMMA IndexOfIndexed ==
    ASSUME Typed, IndexOK, NEW h \in Hooks, NEW n \in Msgs, IndexEdited(h, n),
           NEW m \in Msgs, entry'[m].kind = "deleted", m \notin stained'
    PROVE  Forgotten(m)'
<1>1. PICK t \in editing[h][n] :
         /\ index' = [index EXCEPT ![n] = t]
         /\ editing' = [editing EXCEPT ![h] = [editing[h] EXCEPT ![n] = editing[h][n] \ {t}]]
  BY DEF IndexEdited, Typed, TypeOK
<1>2. UNCHANGED <<entry, load, stained>>
  BY DEF IndexEdited
<1>3. /\ index \in [Msgs -> Texts \cup {NoText}]
      /\ editing \in [Hooks -> [Msgs -> SUBSET Texts]]
  BY DEF Typed, TypeOK
<1>4. Forgotten(m)
  BY <1>2, IndexParts
<1>5. m # n
  BY <1>1, <1>4 DEF Forgotten
<1>6. index'[m] = index[m] /\ \A g \in Hooks : editing'[g][m] = editing[g][m]
  BY <1>1, <1>3, <1>5
<1> QED
  BY <1>2, <1>4, <1>6, ForgottenStays

LEMMA IndexOfLoad ==
    ASSUME Typed, IndexOK, NEW h \in Hooks,
           LoadStart(h) \/ LoadFetch(h) \/ LoadFails(h) \/ LoadApply(h) \/ LoadIndex(h),
           NEW m \in Msgs, entry'[m].kind = "deleted", m \notin stained'
    PROVE  Forgotten(m)'
<1>1. load \in [Hooks -> Load] /\ load[h] \in Load /\ Idle.pc = "idle"
  BY LoadsAre DEF Typed, Idle
<1>2. UNCHANGED editing
  BY LoadSteps
<1>3. ASSUME NEW l, load' = [load EXCEPT ![h] = l], l.pc # "index",
             UNCHANGED <<entry, stained, index>>
      PROVE  Forgotten(m)'
  <2>1. Forgotten(m)
    BY <1>3, IndexParts
  <2> QED
    BY <1>1, <1>2, <1>3, <2>1, ForgottenStays
<1>4. CASE LoadStart(h)
  <2> DEFINE l == [load[h] EXCEPT !.pc = "fetch"]
  <2>1. load' = [load EXCEPT ![h] = l] /\ l.pc = "fetch"
    BY <1>1, <1>4, LoadSteps DEF Load
  <2> HIDE DEF l
  <2> QED
    BY <1>3, <1>4, <2>1, LoadSteps
<1>5. CASE LoadFetch(h)
  <2> DEFINE l == [load[h] EXCEPT !.pc = "decrypt", !.rows = row,
                                  !.todo = {k \in Msgs : row[k].kind = "live"}]
  <2>1. load' = [load EXCEPT ![h] = l]
    BY <1>1, <1>5 DEF LoadFetch
  <2>2. l.pc = "decrypt"
    BY <1>1 DEF Load
  <2> HIDE DEF l
  <2> QED
    BY <1>3, <1>5, <2>1, <2>2, LoadSteps
<1>6. CASE LoadFails(h)
  BY <1>1, <1>3, <1>6, LoadSteps
<1>7. CASE LoadApply(h)
  <2>1. /\ load' = [load EXCEPT ![h] = Shown(load[h])]
        /\ entry' = load[h].rows /\ index' = index
    BY <1>7, LoadSteps
  <2>2. m \in stained' \/ (index[m] = NoText /\ ~Indexing(m))
    BY <1>7, <2>1 DEF LoadApply
  <2>3. index[m] = NoText /\ \A g \in Hooks : editing[g][m] = {} /\ m \notin load[g].todo
    BY <2>2 DEF Indexing
  <2>4. Shown(load[h]).pc = "index" => Shown(load[h]).todo = load[h].todo
    BY <1>1, ShownIs
  <2> QED
    BY <1>1, <1>2, <2>1, <2>3, <2>4 DEF Forgotten
<1>8. CASE LoadIndex(h)
  <2>1. PICK l \in Load, n \in load[h].todo :
           /\ load[h].pc = "index" /\ l.todo \subseteq load[h].todo
           /\ load' = [load EXCEPT ![h] = Shown(l)]
           /\ index' = [index EXCEPT ![n] = load[h].rows[n].text]
           /\ UNCHANGED <<entry, stained>>
    BY <1>8, LoadSteps
  <2>2. Forgotten(m)
    BY <2>1, IndexParts
  <2>3. m # n /\ index'[m] = index[m]
    BY <2>1, <2>2 DEF Forgotten, Typed, TypeOK
  <2>4. Shown(l).pc = "index" => Shown(l).todo = l.todo
    BY ShownIs
  <2>5. \A g \in Hooks : load'[g].pc = "index" =>
                            load[g].pc = "index" /\ load'[g].todo \subseteq load[g].todo
    BY <1>1, <2>1, <2>4
  <2> QED
    BY <1>2, <2>2, <2>3, <2>5, ForgottenStays
<1> QED
  BY <1>4, <1>5, <1>6, <1>7, <1>8

LEMMA IndexStays == Typed /\ IndexOK /\ [Next]_vars => IndexOK'
<1> SUFFICES ASSUME Typed, IndexOK, [Next]_vars,
                    NEW m \in Msgs, entry'[m].kind = "deleted", m \notin stained'
             PROVE  Forgotten(m)'
  BY DEF IndexOK, Forgotten
<1>1. ASSUME UNCHANGED <<entry, stained, index, editing>>,
             \A h \in Hooks : load'[h].pc = load[h].pc /\ load'[h].todo = load[h].todo
      PROVE  Forgotten(m)'
  <2>1. Forgotten(m)
    BY <1>1, IndexParts
  <2> QED
    BY <1>1, <2>1, ForgottenStays
<1>2. CASE Peer
  <2>1. PICK m0 \in Msgs : (load' = load \/ load' = Behind(m0))
                           /\ UNCHANGED <<entry, index, editing, stained>>
    BY <1>2, PeerIs DEF store
  <2> QED
    BY <1>1, <2>1, BehindIs
<1>3. CASE Drop
  BY <1>1, <1>3, DropIs DEF store
<1>4. CASE ReceiveNew
  <2>1. Received("new") /\ UNCHANGED <<entry, index, editing, stained>>
    BY <1>4 DEF ReceiveNew, store
  <2>2. Head(wire).m \in Msgs /\ load' = Behind(Head(wire).m)
    BY <2>1, ReceivedIs DEF Event
  <2> QED
    BY <1>1, <2>1, <2>2, BehindIs
<1>5. CASE ReceiveEdited \/ ReceiveDeleted
  BY <1>5, IndexOfEdited, IndexOfDeleted
<1>6. CASE \E h \in Hooks, n \in Msgs : AddMessage(h, n) \/ IndexEdited(h, n)
  BY <1>6, IndexOfAdded, IndexOfIndexed
<1>7. CASE \E h \in Hooks : LoadStart(h) \/ LoadFetch(h) \/ LoadFails(h) \/ LoadApply(h) \/ LoadIndex(h)
  BY <1>7, IndexOfLoad
<1>8. CASE UNCHANGED <<entry, index, editing, load, stained>>
  BY <1>1, <1>8
<1> QED
  BY <1>2, <1>3, <1>4, <1>5, <1>6, <1>7, <1>8
  DEF Next, Hook, Reconnect, Open, Leave, server, store, tasks, vars

-----------------------------------------------------------------------------
(* The unread count, and the theorems                                      *)

LEMMA UnreadStays == Typed /\ OpenHasNoUnread /\ [Next]_vars => OpenHasNoUnread'
<1> SUFFICES ASSUME Typed, OpenHasNoUnread, [Next]_vars PROVE OpenHasNoUnread'
  OBVIOUS
<1>1. CASE Open
  BY <1>1 DEF Open, OpenHasNoUnread
<1>2. CASE Leave
  BY <1>2 DEF Leave, OpenHasNoUnread, open
<1>3. ASSUME NEW h \in Hooks, NEW m \in Msgs, AddMessage(h, m)
      PROVE  OpenHasNoUnread'
  <2>1. open' = open /\ (open => unread' = Min2(MaxUnread, unread + 0))
    BY <1>3 DEF AddMessage, open
  <2>2. open => unread + 0 = 0
    BY DEF OpenHasNoUnread
  <2>3. Min2(MaxUnread, 0) = 0
    BY BoundAssumption DEF Min2
  <2> QED
    BY <2>1, <2>2, <2>3 DEF OpenHasNoUnread
<1>4. CASE UNCHANGED <<screen, unread>>
  BY <1>4 DEF OpenHasNoUnread, open
<1>5. CASE Peer
  BY <1>4, <1>5, PeerIs DEF store
<1> QED
  BY <1>1, <1>2, <1>3, <1>4, <1>5
  DEF Next, Hook, Drop, Reconnect, Received, ReceiveNew, ReceiveEdited, ReceiveDeleted, IndexEdited,
      LoadStart, LoadFetch, LoadFails, LoadApply, LoadIndex, server, store, tasks, vars

LEMMA InitIInv == Init => IInv
<1> SUFFICES ASSUME Init PROVE IInv
  OBVIOUS
<1>1. Typed
  BY InitTyped
<1>2. wire = <<>> /\ Len(wire) = 0 /\ pending = {}
  BY DEF Init
<1>3. \A h \in Hooks : load[h] = Idle /\ Idle.rows = [m \in Msgs |-> None] /\ Idle.pc = "idle"
  BY DEF Init, Idle
<1>4. WireOK
  BY <1>2 DEF WireOK
<1>5. PastOK
  BY <1>3, KindsDiffer DEF Init, PastOK, Past
<1>6. ListOK
  BY <1>3 DEF Init, ListOK
<1>7. IndexOK
  BY KindsDiffer DEF Init, IndexOK
<1>8. OpenHasNoUnread
  BY DEF Init, OpenHasNoUnread
<1> QED
  BY <1>1, <1>4, <1>5, <1>6, <1>7, <1>8 DEF IInv

LEMMA NextIInv == IInv /\ [Next]_vars => IInv'
  BY NextTyped, WireStays, PastStaysOK, ListStays, IndexStays, UnreadStays DEF IInv

LEMMA SpecIInv == Spec => []IInv
<1>1. Init => IInv
  BY InitIInv
<1>2. IInv /\ [Next]_vars => IInv'
  BY NextIInv
<1> QED
  BY <1>1, <1>2, PTL DEF Spec

\* The types of the tab's state: only a tombstone is given a text it should not
\* have, and only by an edit that comes late (handleEditedMessage).
THEOREM TypeCorrect == Spec => []TypeOK
<1>1. IInv => TypeOK
  BY DEF IInv, Typed
<1> QED
  BY <1>1, SpecIInv, PTL

\* Opening a conversation clears its unread count, and no message that was being
\* decrypted when it was opened is counted after it (addMessage, incrementUnread,
\* setActiveConversation).
THEOREM OpenConversationsAreRead == Spec => []OpenHasNoUnread
<1>1. IInv => OpenHasNoUnread
  BY DEF IInv
<1> QED
  BY <1>1, SpecIInv, PTL

\* Once all that concerns a message has arrived the list shows it as the server
\* stores it, for any number of edits, loads and instances of the hook, in any
\* order (useMessages.ts: the handlers and loadHistory).
THEOREM QuietListIsRows == Spec => []ListIsRows
<1>1. IInv => ListIsRows
  <2> SUFFICES ASSUME IInv, NEW m \in Msgs \ stale, Quiet(m)
               PROVE  entry[m] = row[m]
    BY DEF ListIsRows
  <2>1. ~OnItsWay(m)
    BY DEF IInv, Typed, Quiet, OnItsWay, OnWire
  <2> QED
    BY <2>1 DEF IInv, ListOK, Quiet
<1> QED
  BY <1>1, SpecIInv, PTL

\* A deleted message is out of the search index unless one of the handlers held
\* its text when it was deleted (handleDeletedMessage, loadHistory, search.ts).
THEOREM DeletedIsForgotten == Spec => []SearchForgetsDeleted
<1>1. IInv => SearchForgetsDeleted
  BY DEF IInv, IndexOK, SearchForgetsDeleted
<1> QED
  BY <1>1, SpecIInv, PTL
=============================================================================
