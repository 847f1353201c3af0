--------------------------- MODULE RealtimeProofs ---------------------------
(***************************************************************************)
(* Proofs about Realtime, for any sockets and conversations: type          *)
(* correctness, and that what the sequences of the sockets leave behind is *)
(* what the sockets are.  About Camera, for any number of calls and files: *)
(* no camera or picture is left to run unheld, the view shows the camera   *)
(* in use, and the bar shows the upload.  The two share no state; Camera   *)
(* names its formulas so that one module can extend both.                  *)
(***************************************************************************)
EXTENDS Realtime, Camera, TLAPS

-----------------------------------------------------------------------------
(* The inductive invariant                                                 *)

\* As long as nothing overlapped or failed, the sockets arrive and leave in
\* turns: whoever arrives is connected, whoever leaves is gone, and a sequence
\* that went on after its query is the last socket's.
Turns ==
    /\ \A s \in Sockets : up[s] # "idle" \/ main[s] # "idle" => life[s] = "on"
    /\ \A s \in Sockets : down[s] # "idle" => life[s] = "gone"
    /\ Leaving => ~Arriving
    /\ \A s \in On : up[s] = "idle" => s \in inUser
    /\ \A s \in Sockets : down[s] \in {"db", "cache", "emit"} => On = {}

\* The row is on from the first socket that wrote it to the last one that left.
RowOK ==
    /\ \A s \in On : up[s] # "db" => isOnline
    /\ On = {} /\ isOnline => \E s \in Sockets : down[s] \in {"query", "db"}

KeyOK ==
    /\ \A s \in On : up[s] \in {"join", "idle"} => cache # "offline"
    /\ On = {} /\ cache = "online" => \E s \in Sockets : down[s] \in {"query", "db", "cache"}

\* What a socket listed and remembered, as far as nothing changed meanwhile.
ListedOK ==
    \A s \in Sockets, v \in Convs \ changed :
        /\ main[s] = "join" => (v \in listed[s] <=> v \in active)
        /\ main[s] = "idle" /\ (s \in On \/ down[s] # "idle") =>
              (v \in joined[s] <=> v \in active)

\* Whoever is shown the user online will be told otherwise.
ShownOK ==
    \A v \in Convs \ changed :
        /\ shown[v] = "online" => v \in active /\ (On = {} => Leaving)
        /\ v \in active => \A s \in On : main[s] = "idle" => shown[v] = "online"

Settled == Turns /\ RowOK /\ KeyOK /\ ListedOK /\ ShownOK

PresenceOK == ~Troubled => Settled

RoomsOK ==
    ~failed => \A s \in On, v \in Convs \ changed :
        /\ main[s] = "join" => (v \in listed[s] <=> v \in active)
        /\ main[s] = "idle" => (v \in rooms[s] <=> v \in active)

IInv == TypeOK /\ PresenceOK /\ RoomsOK

-----------------------------------------------------------------------------
(* Types                                                                   *)

LEMMA TypeInit == Init => TypeOK
<1>. SUFFICES ASSUME Init PROVE TypeOK
  OBVIOUS
<1>1. /\ life \in [Sockets -> {"new", "on", "gone"}]
      /\ up \in [Sockets -> {"idle", "db", "cache", "join"}]
      /\ main \in [Sockets -> {"idle", "list", "join"}]
      /\ down \in [Sockets -> {"idle", "query", "db", "cache", "emit"}]
      /\ shown \in [Convs -> {"online", "offline"}]
  BY DEF Init
<1>2. /\ listed \in [Sockets -> SUBSET Convs] /\ rooms \in [Sockets -> SUBSET Convs]
      /\ joined \in [Sockets -> SUBSET Convs] /\ inUser \subseteq On
      /\ active \subseteq Convs /\ changed \subseteq Convs
  BY DEF Init
<1>. QED  BY <1>1, <1>2 DEF Init, TypeOK

\* The steps by which a socket comes or goes, and the others.
LEMMA NextCases ==
    ASSUME Next
    PROVE  \/ \E s \in Sockets : Connect(s) \/ Disconnect(s)
           \/ \E s \in Sockets : UpDb(s) \/ UpCache(s) \/ UpJoin(s)
           \/ \E s \in Sockets : MainList(s) \/ MainJoin(s)
           \/ \E s \in Sockets : DownQuery(s) \/ DownDb(s) \/ DownCache(s) \/ DownEmit(s)
           \/ \E s \in Sockets : Fail(s)
           \/ \E v \in Convs : Activate(v) \/ Deactivate(v)
           \/ CacheExpires
BY DEF Next, Step

LEMMA TypeNext == TypeOK /\ [Next]_vars => TypeOK'
<1>. SUFFICES ASSUME TypeOK, [Next]_vars PROVE TypeOK'
  OBVIOUS
<1>. USE DEF TypeOK, On
<1>1. ASSUME NEW s \in Sockets, Connect(s) PROVE TypeOK'
  BY <1>1 DEF Connect, presence, Leaving
<1>2. ASSUME NEW s \in Sockets, Disconnect(s) PROVE TypeOK'
  BY <1>2 DEF Disconnect, presence, Arriving
<1>3. ASSUME NEW s \in Sockets, UpDb(s) PROVE TypeOK'
  BY <1>3 DEF UpDb, history
<1>4. ASSUME NEW s \in Sockets, UpCache(s) PROVE TypeOK'
  BY <1>4 DEF UpCache, history
<1>5. ASSUME NEW s \in Sockets, UpJoin(s) PROVE TypeOK'
  BY <1>5 DEF UpJoin, presence, history
<1>6. ASSUME NEW s \in Sockets, MainList(s) PROVE TypeOK'
  BY <1>6 DEF MainList, presence, history
<1>7. ASSUME NEW s \in Sockets, MainJoin(s) PROVE TypeOK'
  BY <1>7 DEF MainJoin, history
<1>8. ASSUME NEW s \in Sockets, DownQuery(s) PROVE TypeOK'
  BY <1>8 DEF DownQuery, presence, history
<1>9. ASSUME NEW s \in Sockets, DownDb(s) PROVE TypeOK'
  BY <1>9 DEF DownDb, history
<1>10. ASSUME NEW s \in Sockets, DownCache(s) PROVE TypeOK'
  BY <1>10 DEF DownCache, history
<1>11. ASSUME NEW s \in Sockets, DownEmit(s) PROVE TypeOK'
  BY <1>11 DEF DownEmit, history
<1>12. ASSUME NEW s \in Sockets, Fail(s) PROVE TypeOK'
  BY <1>12 DEF Fail, presence
<1>13. ASSUME NEW v \in Convs, Activate(v) \/ Deactivate(v) PROVE TypeOK'
  BY <1>13 DEF Activate, Deactivate, sequences, presence
<1>14. CASE CacheExpires
  BY <1>14 DEF CacheExpires, sequences, history
<1>15. CASE UNCHANGED vars
  BY <1>15 DEF vars, sequences, presence, history
<1>. HIDE DEF TypeOK, On
<1>. QED  BY <1>1, <1>2, <1>3, <1>4, <1>5, <1>6, <1>7, <1>8, <1>9, <1>10, <1>11, <1>12,
             <1>13, <1>14, <1>15, NextCases

\* Every variable keeps its type.
THEOREM TypeCorrect == Spec => []TypeOK
BY TypeInit, TypeNext, PTL DEF Spec

-----------------------------------------------------------------------------
(* Presence                                                                *)

LEMMA PresenceInit == Init => PresenceOK /\ RoomsOK
BY DEF Init, PresenceOK, Settled, RoomsOK, Turns, RowOK, KeyOK, ListedOK, ShownOK, On, Leaving, Arriving

\* A socket arrives while none is leaving.
LEMMA ConnectPresence ==
    ASSUME TypeOK, Settled, NEW s \in Sockets, Connect(s), ~Leaving
    PROVE  Settled'
<1>. USE DEF TypeOK, Connect, presence
<1>1. /\ On' = On \cup {s} /\ s \notin On /\ ~Leaving'
      /\ \A t \in Sockets : down[t] = "idle" /\ down'[t] = "idle"
      /\ \A t \in Sockets \ {s} : up'[t] = up[t] /\ main'[t] = main[t]
      /\ up'[s] = "db" /\ main'[s] = "list"
  BY DEF On, Leaving
<1>2. Turns'
  BY <1>1 DEF Settled, Turns, On
<1>3. RowOK' /\ KeyOK' /\ ListedOK'
  BY <1>1 DEF Settled, RowOK, KeyOK, ListedOK
<1>4. ShownOK'
  BY <1>1 DEF Settled, ShownOK
<1>. QED  BY <1>2, <1>3, <1>4 DEF Settled

\* A socket leaves while none is arriving.
LEMMA DisconnectPresence ==
    ASSUME TypeOK, Settled, NEW s \in Sockets, Disconnect(s), ~Arriving
    PROVE  Settled'
<1>. USE DEF TypeOK, Disconnect, presence
<1>1. /\ On' = On \ {s} /\ s \in On /\ Leaving' /\ ~Arriving'
      /\ \A t \in Sockets : up[t] = "idle" /\ main[t] = "idle"
      /\ \A t \in Sockets \ {s} : down'[t] = down[t]
      /\ down'[s] = "query"
  BY DEF On, Leaving, Arriving
<1>2. Turns'
  BY <1>1 DEF Settled, Turns, On
<1>3. RowOK' /\ KeyOK' /\ ListedOK'
  BY <1>1 DEF Settled, RowOK, KeyOK, ListedOK
<1>4. ShownOK'
  BY <1>1 DEF Settled, ShownOK
<1>. QED  BY <1>2, <1>3, <1>4 DEF Settled

LEMMA UpPresence ==
    ASSUME TypeOK, Settled, NEW s \in Sockets, UpDb(s) \/ UpCache(s) \/ UpJoin(s)
    PROVE  Settled'
<1>. USE DEF TypeOK, presence, history
<1>1. /\ On' = On /\ s \in On /\ ~Leaving /\ Leaving' = Leaving
      /\ up[s] # "idle" /\ up'[s] # "db"
      /\ \A t \in Sockets \ {s} : up'[t] = up[t]
      /\ UNCHANGED <<life, main, down, listed, joined, active, shown, changed>>
  BY DEF On, Leaving, Arriving, UpDb, UpCache, UpJoin, Settled, Turns
<1>2. /\ up'[s] = "idle" => s \in inUser'
      /\ inUser \subseteq inUser'
      /\ isOnline'
      /\ up'[s] \in {"join", "idle"} => cache' # "offline"
      /\ \A t \in Sockets \ {s} : up[t] \in {"join", "idle"} /\ t \in On => cache' # "offline"
  <2>1. /\ up[s] # "db" => isOnline
        /\ \A t \in On : up[t] \in {"join", "idle"} => cache # "offline"
    BY <1>1 DEF Settled, RowOK, KeyOK
  <2>2. CASE UpDb(s)
    BY <2>1, <2>2 DEF UpDb
  <2>3. CASE UpCache(s)
    BY <2>1, <2>3 DEF UpCache
  <2>4. CASE UpJoin(s)
    BY <1>1, <2>1, <2>4 DEF UpJoin
  <2>. QED  BY <2>2, <2>3, <2>4
<1>3. Turns'
  BY <1>1, <1>2 DEF Settled, Turns, On
<1>4. RowOK' /\ KeyOK'
  <2>1. \A t \in On : t \in Sockets
    BY DEF On
  <2>2. RowOK'
    BY <1>1, <1>2 DEF RowOK
  <2>3. KeyOK'
    BY <1>1, <1>2, <2>1 DEF KeyOK
  <2>. QED  BY <2>2, <2>3
<1>5. ListedOK' /\ ShownOK'
  BY <1>1 DEF Settled, ListedOK, ShownOK
<1>. QED  BY <1>3, <1>4, <1>5 DEF Settled

LEMMA MainPresence ==
    ASSUME TypeOK, Settled, NEW s \in Sockets, MainList(s) \/ MainJoin(s)
    PROVE  Settled'
<1>. USE DEF TypeOK, presence, history
<1>1. /\ On' = On /\ s \in On /\ ~Leaving /\ Leaving' = Leaving
      /\ \A t \in Sockets \ {s} : /\ main'[t] = main[t] /\ listed'[t] = listed[t]
                                  /\ joined'[t] = joined[t]
      /\ UNCHANGED <<life, up, down, inUser, isOnline, cache, active, changed>>
  BY DEF On, Leaving, Arriving, MainList, MainJoin, Settled, Turns
<1>2. Turns'
  BY <1>1 DEF Settled, Turns, On
<1>3. RowOK' /\ KeyOK'
  BY <1>1 DEF Settled, RowOK, KeyOK
<1>4. CASE MainList(s)
  <2>1. main'[s] = "join" /\ listed'[s] = active /\ shown' = shown
    BY <1>4 DEF MainList
  <2>2. ListedOK'
    BY <1>1, <2>1 DEF Settled, ListedOK
  <2>3. ShownOK'
    BY <1>1, <2>1 DEF Settled, ShownOK, On
  <2>. QED  BY <1>2, <1>3, <2>2, <2>3 DEF Settled
<1>5. CASE MainJoin(s)
  <2>1. /\ main[s] = "join" /\ main'[s] = "idle" /\ joined'[s] = listed[s]
        /\ \A v \in Convs : shown'[v] = IF v \in listed[s] THEN "online" ELSE shown[v]
    BY <1>5 DEF MainJoin
  <2>. QED  BY <1>1, <1>2, <1>3, <2>1 DEF Settled, ListedOK, ShownOK
<1>. QED  BY <1>4, <1>5

\* Only the last socket goes past the query.
LEMMA DownPresence ==
    ASSUME TypeOK, Settled, NEW s \in Sockets,
           DownQuery(s) \/ DownDb(s) \/ DownCache(s) \/ DownEmit(s)
    PROVE  Settled'
<1>. USE DEF TypeOK, presence, history
<1>1. /\ On' = On /\ s \notin On /\ ~Arriving /\ Leaving /\ Arriving' = Arriving
      /\ \A t \in Sockets : up[t] = "idle" /\ main[t] = "idle"
      /\ \A t \in Sockets \ {s} : down'[t] = down[t]
      /\ On = inUser
      /\ UNCHANGED <<life, up, main, listed, joined, inUser, active, changed>>
  BY DEF On, Leaving, Arriving, DownQuery, DownDb, DownCache, DownEmit, Settled, Turns
<1>2. CASE DownQuery(s)
  <2>1. /\ down[s] = "query" /\ UNCHANGED <<isOnline, cache, shown>>
        /\ down'[s] = IF On # {} THEN "idle" ELSE "db"
    BY <1>1, <1>2 DEF DownQuery
  <2>2. Turns' /\ RowOK' /\ KeyOK' /\ ListedOK'
    BY <1>1, <2>1 DEF Settled, Turns, RowOK, KeyOK, ListedOK
  <2>3. ShownOK'
    BY <1>1, <2>1 DEF Settled, ShownOK, Leaving
  <2>. QED  BY <2>2, <2>3 DEF Settled
<1>3. CASE DownDb(s)
  <2>1. /\ down[s] = "db" /\ down'[s] = "cache" /\ isOnline' = FALSE /\ On = {}
        /\ UNCHANGED <<cache, shown>>
    BY <1>3 DEF DownDb, Settled, Turns
  <2>2. Turns' /\ RowOK' /\ KeyOK' /\ ListedOK'
    BY <1>1, <2>1 DEF Settled, Turns, RowOK, KeyOK, ListedOK
  <2>3. ShownOK'
    BY <1>1, <2>1 DEF Settled, ShownOK, Leaving
  <2>. QED  BY <2>2, <2>3 DEF Settled
<1>4. CASE DownCache(s)
  <2>1. /\ down[s] = "cache" /\ down'[s] = "emit" /\ cache' = "offline" /\ On = {}
        /\ UNCHANGED <<isOnline, shown>>
    BY <1>4 DEF DownCache, Settled, Turns
  <2>2. Turns' /\ RowOK' /\ KeyOK' /\ ListedOK'
    BY <1>1, <2>1 DEF Settled, Turns, RowOK, KeyOK, ListedOK
  <2>3. ShownOK'
    BY <1>1, <2>1 DEF Settled, ShownOK, Leaving
  <2>. QED  BY <2>2, <2>3 DEF Settled
<1>5. CASE DownEmit(s)
  <2>1. /\ down[s] = "emit" /\ down'[s] = "idle" /\ On = {} /\ UNCHANGED <<isOnline, cache>>
        /\ \A v \in Convs : shown'[v] = IF v \in joined[s] THEN "offline" ELSE shown[v]
    BY <1>5 DEF DownEmit, Settled, Turns
  <2>2. Turns' /\ RowOK' /\ KeyOK' /\ ListedOK'
    BY <1>1, <2>1 DEF Settled, Turns, RowOK, KeyOK, ListedOK
  <2>3. \A v \in Convs \ changed : shown'[v] # "online"
    BY <1>1, <2>1 DEF Settled, ListedOK, ShownOK
  <2>4. ShownOK'
    BY <1>1, <2>1, <2>3 DEF ShownOK
  <2>. QED  BY <2>2, <2>4 DEF Settled
<1>. QED  BY <1>2, <1>3, <1>4, <1>5

\* A conversation that changes while a socket is there counts as changed; one
\* that changes while there is none is shown to nobody.
LEMMA ActivePresence ==
    ASSUME TypeOK, Settled, NEW v \in Convs, Activate(v) \/ Deactivate(v)
    PROVE  Settled'
<1>1. /\ \A w \in Convs \ {v} : w \in active' <=> w \in active
      /\ changed' = IF On # {} \/ AnyBusy THEN changed \cup {v} ELSE changed
      /\ UNCHANGED <<life, up, main, down, listed, joined, inUser, isOnline, cache, shown>>
      /\ On' = On /\ Leaving' = Leaving /\ Arriving' = Arriving
  BY DEF Activate, Deactivate, sequences, presence, On, Leaving, Arriving
<1>2. Turns' /\ RowOK' /\ KeyOK'
  BY <1>1 DEF Settled, Turns, RowOK, KeyOK
<1>3. CASE On # {} \/ AnyBusy
  BY <1>1, <1>2, <1>3 DEF Settled, ListedOK, ShownOK
<1>4. CASE On = {} /\ ~AnyBusy
  <2>1. ~Leaving /\ \A s \in Sockets : main[s] = "idle" /\ down[s] = "idle"
    BY <1>4 DEF AnyBusy, Busy, Leaving
  <2>. QED  BY <1>1, <1>2, <1>4, <2>1 DEF Settled, ListedOK, ShownOK
<1>. QED  BY <1>3, <1>4

LEMMA PresenceNext == TypeOK /\ PresenceOK /\ [Next]_vars => PresenceOK'
<1>. SUFFICES ASSUME TypeOK, [Next]_vars, ~Troubled', PresenceOK PROVE Settled'
  BY DEF PresenceOK, Settled
<1>1. ASSUME ~Troubled PROVE Settled
  BY <1>1 DEF PresenceOK, Settled
<1>2. ASSUME NEW s \in Sockets, Connect(s) PROVE Settled'
  BY <1>1, <1>2, ConnectPresence DEF Connect, Troubled
<1>3. ASSUME NEW s \in Sockets, Disconnect(s) PROVE Settled'
  BY <1>1, <1>3, DisconnectPresence DEF Disconnect, Troubled
<1>4. ASSUME NEW s \in Sockets, UpDb(s) \/ UpCache(s) \/ UpJoin(s) PROVE Settled'
  BY <1>1, <1>4, UpPresence DEF UpDb, UpCache, UpJoin, Troubled, history
<1>5. ASSUME NEW s \in Sockets, MainList(s) \/ MainJoin(s) PROVE Settled'
  BY <1>1, <1>5, MainPresence DEF MainList, MainJoin, Troubled, history
<1>6. ASSUME NEW s \in Sockets, DownQuery(s) \/ DownDb(s) \/ DownCache(s) \/ DownEmit(s)
      PROVE  Settled'
  BY <1>1, <1>6, DownPresence DEF DownQuery, DownDb, DownCache, DownEmit, Troubled, history
<1>7. ASSUME NEW s \in Sockets, Fail(s) PROVE FALSE
  BY <1>7 DEF Fail, Troubled
<1>8. ASSUME NEW v \in Convs, Activate(v) \/ Deactivate(v) PROVE Settled'
  BY <1>1, <1>8, ActivePresence DEF Activate, Deactivate, Troubled
<1>9. CASE CacheExpires
  BY <1>1, <1>9 DEF CacheExpires, sequences, history, Troubled, Settled, Turns, RowOK, KeyOK,
     ListedOK, ShownOK, On, Leaving, Arriving
<1>10. CASE UNCHANGED vars
  BY <1>1, <1>10 DEF vars, sequences, presence, history, Troubled, Settled, Turns, RowOK,
     KeyOK, ListedOK, ShownOK, On, Leaving, Arriving
<1>. QED  BY <1>2, <1>3, <1>4, <1>5, <1>6, <1>7, <1>8, <1>9, <1>10, NextCases

-----------------------------------------------------------------------------
(* Rooms                                                                   *)

\* A conversation that changes while a socket is there counts as changed, and a
\* socket joins what it listed.
LEMMA RoomsNext == TypeOK /\ RoomsOK /\ [Next]_vars => RoomsOK'
<1>. SUFFICES ASSUME TypeOK, RoomsOK, [Next]_vars, ~failed',
                     NEW t \in On', NEW w \in Convs \ changed'
              PROVE  /\ main'[t] = "join" => (w \in listed'[t] <=> w \in active')
                     /\ main'[t] = "idle" => (w \in rooms'[t] <=> w \in active')
  BY DEF RoomsOK
<1>1. t \in Sockets /\ life'[t] = "on"
  BY DEF On
<1>2. ASSUME ~failed, life[t] = "on", w \notin changed
      PROVE  /\ main[t] = "join" => (w \in listed[t] <=> w \in active)
             /\ main[t] = "idle" => (w \in rooms[t] <=> w \in active)
  BY <1>1, <1>2 DEF RoomsOK, On
<1>. USE DEF TypeOK
<1>3. ASSUME NEW s \in Sockets, Connect(s) \/ Disconnect(s)
      PROVE  /\ main'[t] = "join" => (w \in listed'[t] <=> w \in active')
             /\ main'[t] = "idle" => (w \in rooms'[t] <=> w \in active')
  BY <1>1, <1>2, <1>3 DEF Connect, Disconnect, presence
<1>4. ASSUME NEW s \in Sockets, MainList(s) \/ MainJoin(s)
      PROVE  /\ main'[t] = "join" => (w \in listed'[t] <=> w \in active')
             /\ main'[t] = "idle" => (w \in rooms'[t] <=> w \in active')
  BY <1>1, <1>2, <1>4 DEF MainList, MainJoin, presence, history, On
<1>5. ASSUME NEW v \in Convs, Activate(v) \/ Deactivate(v)
      PROVE  /\ main'[t] = "join" => (w \in listed'[t] <=> w \in active')
             /\ main'[t] = "idle" => (w \in rooms'[t] <=> w \in active')
  <2>1. On # {} /\ UNCHANGED <<life, main, listed, rooms, failed>>
    BY <1>1, <1>5 DEF Activate, Deactivate, sequences, On
  <2>2. w # v /\ w \notin changed /\ (w \in active' <=> w \in active)
    BY <1>5, <2>1 DEF Activate, Deactivate
  <2>. QED  BY <1>1, <1>2, <2>1, <2>2
<1>6. ASSUME UNCHANGED <<life, main, listed, rooms, active, changed, failed>>
      PROVE  /\ main'[t] = "join" => (w \in listed'[t] <=> w \in active')
             /\ main'[t] = "idle" => (w \in rooms'[t] <=> w \in active')
  BY <1>1, <1>2, <1>6
<1>. HIDE DEF TypeOK
<1>7. ASSUME NEW s \in Sockets, UpDb(s) \/ UpCache(s) \/ UpJoin(s) \/
             DownQuery(s) \/ DownDb(s) \/ DownCache(s) \/ DownEmit(s)
      PROVE  UNCHANGED <<life, main, listed, rooms, active, changed, failed>>
  BY <1>7 DEF UpDb, UpCache, UpJoin, DownQuery, DownDb, DownCache, DownEmit, history
<1>8. CASE CacheExpires \/ UNCHANGED vars
  BY <1>6, <1>8 DEF CacheExpires, vars, sequences, history
<1>9. ASSUME NEW s \in Sockets, Fail(s) PROVE FALSE
  BY <1>9 DEF Fail
<1>. QED  BY <1>3, <1>4, <1>5, <1>6, <1>7, <1>8, <1>9, NextCases

\* When nothing is under way, the row, the presence key and the contacts agree
\* with whether the user has a socket, and a settled socket is in the rooms of the
\* active conversations, as long as nothing overlapped or failed.
THEOREM SequencesLeaveWhatIs == Spec => []SequencesSettle
<1>1. Init => IInv
  BY TypeInit, PresenceInit DEF IInv
<1>2. IInv /\ [Next]_vars => IInv'
  BY TypeNext, PresenceNext, RoomsNext DEF IInv
<1>3. IInv => SequencesSettle
  <2>. SUFFICES ASSUME IInv PROVE PresenceSettles /\ RoomsSettle
    BY DEF SequencesSettle
  <2>1. RoomsSettle
    BY DEF IInv, RoomsOK, RoomsSettle
  <2>2. ASSUME ~AnyBusy, ~Troubled
        PROVE  /\ isOnline <=> On # {}
               /\ cache \in {"none", IF On # {} THEN "online" ELSE "offline"}
               /\ \A v \in Convs \ changed : shown[v] = "online" <=> On # {} /\ v \in active
    <3>1. Settled /\ TypeOK
      BY <2>2 DEF IInv, PresenceOK, Settled
    <3>2. /\ \A s \in Sockets : up[s] = "idle" /\ main[s] = "idle" /\ down[s] = "idle"
          /\ ~Leaving
      BY <2>2 DEF AnyBusy, Busy, Leaving
    <3>3. On \subseteq Sockets
      BY DEF On
    <3>4. isOnline <=> On # {}
      BY <3>1, <3>2, <3>3 DEF Settled, RowOK, TypeOK
    <3>5. cache \in {"none", IF On # {} THEN "online" ELSE "offline"}
      BY <3>1, <3>2, <3>3 DEF Settled, KeyOK, TypeOK
    <3>6. \A v \in Convs \ changed : shown[v] = "online" <=> On # {} /\ v \in active
      BY <3>1, <3>2, <3>3 DEF Settled, ShownOK
    <3>. QED  BY <3>4, <3>5, <3>6
  <2>. QED  BY <2>1, <2>2 DEF PresenceSettles
<1>. QED  BY <1>1, <1>2, <1>3, PTL DEF Spec

-----------------------------------------------------------------------------
(* The camera page                                                         *)

\* The calls of startCamera are numbered as they start; the last one goes with the
\* mode of the page.
LastStart(c) ==
    /\ c \in Calls /\ call[c].pc # "idle"
    /\ \A d \in Calls : d > c => call[d].pc = "idle"

StartsOK ==
    /\ \A c, d \in Calls : d < c /\ call[d].pc = "idle" => call[c].pc = "idle"
    /\ \A c \in Calls : LastStart(c) => call[c].facing = facing

\* A call that had the page to itself, and was not refused, leaves no error.
AloneOK ==
    ~burst.denied /\ ~burst.overlapped =>
        /\ \A c, d \in Pending : c = d
        /\ \A c \in Calls : call[c].pc = "playing" =>
              ~nextError /\ HasVideo /\ src = c
        /\ Pending = {} => ~nextError

\* Unless a call has yet to be answered, what is queued is an error or a camera
\* that runs: that of the last call, if they were answered in their order.
AnsweredOK ==
    \/ \E c \in Calls : call[c].pc = "asking"
    \/ nextError
    \/ /\ nextStream \in Calls /\ track[nextStream] = "live"
       /\ burst.crossed \/ LastStart(nextStream)

VideoOK == ~error /\ ~remounted => src = nextStream

StreamsOK == page = "open" => AloneOK /\ AnsweredOK /\ VideoOK

\* Of uploads that did not overlap there is one at a time.
UploadsOK ==
    /\ \A f \in Files : file[f].pc = "none" => ~file[f].taken
    /\ ~parallel => \A f, g \in InFlight : f = g

\* Types, one kind of state at a time.
StartType == [pc : {"idle", "done", "asking", "playing"}, facing : Modes]
TrackType == [Calls -> {"none", "live", "stopped"}]
BurstType == [denied : BOOLEAN, overlapped : BOOLEAN, crossed : BOOLEAN]
Streams == {c \in Calls : track[c] # "none"}

StreamTypes ==
    /\ facing \in Modes
    /\ call \in [Calls -> StartType] /\ track \in TrackType
    /\ stream \in Streams \cup {None} /\ nextStream \in Streams \cup {None}
    /\ src \in Streams \cup {None}
    /\ error \in BOOLEAN /\ nextError \in BOOLEAN /\ remounted \in BOOLEAN
    /\ burst \in BurstType

FileType ==
    [pc : {"none", "drawn", "fading", "over"} \cup Uploading,
     image : BOOLEAN, taken : BOOLEAN]
BarType ==
    [uploading : BOOLEAN, error : BOOLEAN, media : Files \cup {None},
     status : {"idle", "generating-thumbnail", "encrypting", "uploading", "complete", "error"}]
Consistent(b) == b.uploading => ~b.error /\ b.media = None

PictureTypes ==
    /\ file \in [Files -> FileType]
    /\ url \in [Files -> {"none", "live", "revoked"}]
    /\ bar \in BarType /\ Consistent(bar)
    /\ capturing \in BOOLEAN /\ parallel \in BOOLEAN
    /\ finished \in [file : Files \cup {None}, ok : BOOLEAN]

StreamsHeld ==
    \A c \in Calls :
        track[c] = "live" => c \in escaped \/ (page # "left" /\ c \in {stream, nextStream})
PicturesHeld == \A f \in Files : url[f] = "live" => page # "left" \/ f \in escaped

StreamInv == StreamTypes /\ StartsOK /\ StreamsOK /\ StreamsHeld
PictureInv == PictureTypes /\ UploadsOK /\ BarShowsUpload /\ PicturesHeld

CameraInv ==
    /\ page \in {"open", "closed", "left"}
    /\ escaped \subseteq Calls \cup Files \cup {None}
    /\ StreamInv /\ PictureInv

LEMMA CameraInitInv ==
    ASSUME CameraInit
    PROVE  CameraInv
<1>1. call = [c \in Calls |-> IF c = 1 THEN [pc |-> "asking", facing |-> "environment"]
                                        ELSE [pc |-> "idle", facing |-> "environment"]]
      /\ 1 \in Calls
  BY CameraAssumption DEF CameraInit, NoCall, Calls
<1>2. StreamTypes
  <2>1. call \in [Calls -> StartType]
    BY <1>1 DEF StartType, Modes
  <2>2. track \in TrackType /\ burst \in BurstType /\ facing \in Modes
    BY DEF CameraInit, TrackType, BurstType, Fresh, Modes
  <2>. QED
    BY <2>1, <2>2 DEF CameraInit, StreamTypes
<1>3. PictureTypes
  BY DEF CameraInit, PictureTypes, FileType, BarType, Consistent, NoFile,
     Initial, NoPair
<1>4. StartsOK
  BY <1>1 DEF CameraInit, StartsOK, LastStart, Calls
<1>5. StreamsOK
  BY <1>1 DEF CameraInit, StreamsOK, AloneOK, AnsweredOK, VideoOK, Pending,
     Waiting, Fresh
<1>6. UploadsOK /\ InFlight = {}
  BY DEF CameraInit, UploadsOK, InFlight, Uploading, NoFile
<1>7. StreamsHeld /\ PicturesHeld
  BY DEF CameraInit, StreamsHeld, PicturesHeld
<1>8. BarShowsUpload
  BY <1>6 DEF CameraInit, BarShowsUpload, NoPair
<1>. QED
  BY <1>2, <1>3, <1>4, <1>5, <1>6, <1>7, <1>8 DEF CameraInv, StreamInv, PictureInv, CameraInit

LEMMA StoppedEffect ==
    ASSUME StreamTypes
    PROVE  /\ Stopped(track, stream) \in TrackType
           /\ \A c \in Calls : Stopped(track, stream)[c] =
                 IF c = stream THEN "stopped" ELSE track[c]
<1>1. CASE stream = None
  <2>1. Stopped(track, stream) = track
    BY <1>1 DEF Stopped
  <2>2. \A c \in Calls : c # stream
    BY <1>1, CameraAssumption
  <2>. QED  BY <2>1, <2>2 DEF StreamTypes
<1>2. CASE stream # None
  <2>1. Stopped(track, stream) = [track EXCEPT ![stream] = "stopped"] /\ stream \in Calls
    BY <1>2 DEF Stopped, StreamTypes, Streams
  <2>. QED  BY <2>1 DEF StreamTypes, TrackType
<1>. QED  BY <1>1, <1>2

\* A call that starts is the last, and has yet to be answered.
LEMMA StartCameraKeeps ==
    ASSUME StreamInv, NEW c \in Calls, NEW mode \in Modes,
           StartCamera(c, mode), facing' = mode,
           UNCHANGED <<page, stream, nextStream, error, nextError, src, remounted, escaped>>
    PROVE  StreamInv'
<1>. USE DEF StreamInv
<1>1. /\ call' = [call EXCEPT ![c] = [pc |-> "asking", facing |-> mode]]
      /\ call[c].pc = "idle" /\ \A d \in Calls : d < c => call[d].pc # "idle"
      /\ track' = Stopped(track, stream)
      /\ burst' = IF Pending = {} THEN Fresh ELSE [burst EXCEPT !.overlapped = TRUE]
  BY DEF StartCamera
<1>2. /\ track' \in TrackType
      /\ \A d \in Calls : track'[d] = IF d = stream THEN "stopped" ELSE track[d]
  BY <1>1, StoppedEffect
<1>3. StreamTypes'
  <2>1. call' \in [Calls -> StartType]
    BY <1>1 DEF StreamTypes, StartType
  <2>2. Streams' = Streams
    <3>1. \A d \in Calls : track'[d] # "none" <=> track[d] # "none"
      BY <1>2, CameraAssumption DEF Streams, StreamTypes
    <3>. QED  BY <3>1 DEF Streams
  <2>3. burst' \in BurstType
    BY <1>1 DEF StreamTypes, BurstType, Fresh
  <2>. QED  BY <1>2, <2>1, <2>2, <2>3 DEF StreamTypes
<1>4. \A d \in Calls : call'[d] = IF d = c THEN [pc |-> "asking", facing |-> mode] ELSE call[d]
  BY <1>1 DEF StreamTypes
<1>5. StartsOK'
  <2>1. \A d \in Calls : d > c => call[d].pc = "idle"
    BY <1>1 DEF StartsOK, Calls
  <2>2. \A d, e \in Calls : e < d /\ call'[e].pc = "idle" => call'[d].pc = "idle"
    BY <1>1, <1>4, <2>1 DEF StartsOK, Calls
  <2>3. ASSUME NEW d \in Calls, LastStart(d)' PROVE d = c
    BY <1>4, <2>1, <2>3 DEF LastStart, Calls
  <2>. QED  BY <1>4, <2>2, <2>3 DEF StartsOK
<1>6. StreamsOK'
  <2>. SUFFICES ASSUME page = "open" PROVE AloneOK' /\ AnsweredOK' /\ VideoOK'
    BY DEF StreamsOK
  <2>1. AloneOK'
    <3>. SUFFICES ASSUME ~burst'.overlapped PROVE AloneOK'
      BY DEF AloneOK
    <3>1. Pending = {}
      BY <1>1 DEF StreamTypes, BurstType
    <3>2. \A d \in Calls : call'[d].pc \in Waiting => d = c /\ call'[d].pc = "asking"
      BY <1>4, <3>1 DEF Pending
    <3>3. c \in Pending'
      BY <1>4 DEF Pending, Waiting
    <3>. QED  BY <3>2, <3>3 DEF AloneOK, Pending, Waiting
  <2>2. AnsweredOK'
    BY <1>4 DEF AnsweredOK
  <2>. QED  BY <2>1, <2>2 DEF StreamsOK, VideoOK
<1>7. StreamsHeld'
  BY <1>2 DEF StreamsHeld
<1>. QED  BY <1>3, <1>5, <1>6, <1>7

\* Nothing of the camera changes but what has escaped.
LEMMA StreamFrame ==
    ASSUME StreamInv, UNCHANGED camera, UNCHANGED page, escaped \subseteq escaped'
    PROVE  StreamInv'
<1>. USE DEF camera
<1>1. StreamTypes'
  BY DEF StreamInv, StreamTypes, Streams
<1>2. StartsOK'
  BY DEF StreamInv, StartsOK, LastStart
<1>3. StreamsOK'
  BY DEF StreamInv, StreamsOK, AloneOK, AnsweredOK, VideoOK, LastStart, Pending,
     HasVideo, Mounted
<1>4. StreamsHeld'
  BY DEF StreamInv, StreamsHeld
<1>. QED  BY <1>1, <1>2, <1>3, <1>4 DEF StreamInv

LEMMA GrantedKeeps ==
    ASSUME StreamInv, NEW c \in Calls, Granted(c)
    PROVE  StreamInv'
<1>. USE DEF StreamInv
<1>1. /\ call[c].pc = "asking" /\ track' = [track EXCEPT ![c] = "live"]
      /\ UNCHANGED <<page, facing, stream, error>>
  BY DEF Granted
<1>2. IF page # "left"
      THEN /\ nextStream' = c /\ nextError' = FALSE
           /\ escaped' = IF nextStream = stream THEN escaped ELSE escaped \cup {nextStream}
           /\ burst' = [burst EXCEPT !.crossed = @ \/ Crosses(c)]
      ELSE /\ escaped' = escaped \cup {c}
           /\ UNCHANGED <<nextStream, nextError, burst>>
  BY DEF Granted, Mounted
<1>3. IF HasVideo
      THEN /\ src' = c /\ remounted' = FALSE
           /\ call' = [call EXCEPT ![c].pc = "playing"]
      ELSE /\ call' = [call EXCEPT ![c].pc = "done"]
           /\ UNCHANGED <<src, remounted>>
  BY DEF Granted
<1>4. /\ call' \in [Calls -> StartType]
      /\ \A d \in Calls :
            /\ call'[d].facing = call[d].facing
            /\ d # c => call'[d] = call[d]
      /\ call'[c].pc = IF HasVideo THEN "playing" ELSE "done"
  <2>1. CASE HasVideo
    BY <2>1, <1>3 DEF StreamTypes, StartType
  <2>2. CASE ~HasVideo
    BY <2>2, <1>3 DEF StreamTypes, StartType
  <2>. QED  BY <2>1, <2>2
<1>5. /\ track' \in TrackType
      /\ \A d \in Calls : track'[d] = IF d = c THEN "live" ELSE track[d]
  BY <1>1 DEF StreamTypes, TrackType
<1>6. StreamTypes'
  <2>1. Streams \subseteq Streams' /\ c \in Streams'
    BY <1>5 DEF Streams
  <2>2. burst' \in BurstType /\ nextError' \in BOOLEAN /\ nextStream' \in Streams' \cup {None}
    BY <1>2, <2>1 DEF StreamTypes, BurstType, Crosses
  <2>3. src' \in Streams' \cup {None} /\ remounted' \in BOOLEAN
    BY <1>3, <2>1 DEF StreamTypes
  <2>. QED  BY <1>1, <1>4, <1>5, <2>1, <2>2, <2>3 DEF StreamTypes
<1>7. /\ \A d \in Calls : LastStart(d)' <=> LastStart(d)
      /\ \A d \in Calls : call'[d].pc = "idle" <=> call[d].pc = "idle"
  BY <1>1, <1>4 DEF LastStart
<1>8. StartsOK'
  BY <1>1, <1>4, <1>7 DEF StartsOK
<1>9. StreamsOK'
  <2>. SUFFICES ASSUME page = "open" PROVE AloneOK' /\ AnsweredOK' /\ VideoOK'
    BY <1>1 DEF StreamsOK
  <2>. /\ AloneOK /\ AnsweredOK /\ VideoOK
       /\ nextStream' = c /\ nextError' = FALSE
       /\ burst' = [burst EXCEPT !.crossed = @ \/ Crosses(c)]
    BY <1>2 DEF StreamsOK
  <2>1. AloneOK'
    <3>. SUFFICES ASSUME ~burst'.denied, ~burst'.overlapped PROVE AloneOK'
      BY DEF AloneOK
    <3>1. ~burst.denied /\ ~burst.overlapped
      BY DEF StreamTypes, BurstType
    <3>2. \A d \in Calls : call[d].pc \in Waiting => d = c
      BY <1>1, <3>1 DEF AloneOK, Pending, Waiting
    <3>3. \A d \in Calls : call'[d].pc \in Waiting =>
             d = c /\ HasVideo /\ src' = c
      BY <1>3, <1>4, <3>2 DEF Waiting
    <3>4. HasVideo' <=> HasVideo
      BY <1>1 DEF HasVideo, Mounted
    <3>. QED  BY <3>3, <3>4 DEF AloneOK, Pending, Waiting
  <2>2. AnsweredOK'
    <3>. SUFFICES ASSUME \A d \in Calls : call'[d].pc # "asking", ~burst'.crossed
                  PROVE  LastStart(c)'
      BY <1>5 DEF AnsweredOK
    <3>1. ~Crosses(c)
      BY DEF StreamTypes, BurstType
    <3>2. \A d \in Calls : d > c => call'[d].pc = "idle"
      BY <1>4, <3>1 DEF Crosses, Calls
    <3>. QED  BY <1>4, <3>2 DEF LastStart
  <2>3. VideoOK'
    BY <1>1, <1>3 DEF VideoOK, HasVideo, Mounted
  <2>. QED  BY <2>1, <2>2, <2>3
<1>10. StreamsHeld'
  BY <1>1, <1>2, <1>5 DEF StreamsHeld
<1>. QED  BY <1>6, <1>8, <1>9, <1>10

\* A call ends with an error that the page will show.
LEMMA ReportErrorKeeps ==
    ASSUME StreamInv, NEW c \in Calls, ReportError(c),
           call[c].pc # "idle", burst' \in BurstType,
           burst'.denied \/ (burst' = burst /\ call[c].pc = "playing"
                             /\ ~(HasVideo /\ src = c)),
           UNCHANGED <<page, facing, track, stream, nextStream, error, src, remounted, escaped>>
    PROVE  StreamInv'
<1>. USE DEF StreamInv
<1>1. /\ nextError' = IF page # "left" THEN TRUE ELSE nextError
      /\ call' = [call EXCEPT ![c].pc = "done"]
  BY DEF ReportError, Mounted
<1>2. /\ call' \in [Calls -> StartType]
      /\ \A d \in Calls : /\ call'[d].facing = call[d].facing
                          /\ d # c => call'[d] = call[d]
      /\ call'[c].pc = "done"
  BY <1>1 DEF StreamTypes, StartType
<1>3. StreamTypes'
  BY <1>1, <1>2 DEF StreamTypes, Streams
<1>4. StartsOK'
  <2>1. \A d \in Calls : call'[d].pc = "idle" <=> call[d].pc = "idle"
    BY <1>2
  <2>2. \A d \in Calls : LastStart(d)' => LastStart(d)
    BY <2>1 DEF LastStart
  <2>. QED  BY <1>2, <2>1, <2>2 DEF StartsOK
<1>5. StreamsOK'
  <2>. SUFFICES ASSUME page = "open" PROVE AloneOK' /\ AnsweredOK' /\ VideoOK'
    BY DEF StreamsOK
  <2>1. AloneOK'
    <3>. SUFFICES ASSUME ~burst'.denied, ~burst'.overlapped PROVE FALSE
      BY DEF AloneOK
    <3>. QED  BY DEF StreamsOK, AloneOK
  <2>2. AnsweredOK' /\ VideoOK'
    BY <1>1 DEF StreamsOK, AnsweredOK, VideoOK
  <2>. QED  BY <2>1, <2>2
<1>6. StreamsHeld'
  BY DEF StreamsHeld
<1>. QED  BY <1>3, <1>4, <1>5, <1>6

LEMMA PlaysKeeps ==
    ASSUME StreamInv, NEW c \in Calls, Plays(c)
    PROVE  StreamInv'
<1>. USE DEF StreamInv
<1>1. /\ call[c].pc = "playing" /\ call' = [call EXCEPT ![c].pc = "done"]
      /\ UNCHANGED <<page, facing, track, stream, nextStream, error, nextError, src, burst,
                     remounted, escaped>>
  BY DEF Plays
<1>2. /\ call' \in [Calls -> StartType]
      /\ \A d \in Calls : /\ call'[d].facing = call[d].facing
                          /\ d # c => call'[d] = call[d]
      /\ call'[c].pc = "done"
  BY <1>1 DEF StreamTypes, StartType
<1>3. StreamTypes'
  BY <1>1, <1>2 DEF StreamTypes, Streams
<1>4. /\ \A d \in Calls : call'[d].pc = "idle" <=> call[d].pc = "idle"
      /\ \A d \in Calls : LastStart(d)' <=> LastStart(d)
  BY <1>1, <1>2 DEF LastStart
<1>5. StartsOK'
  BY <1>1, <1>2, <1>4 DEF StartsOK
<1>6. StreamsOK'
  <2>. SUFFICES ASSUME page = "open" PROVE AloneOK' /\ AnsweredOK' /\ VideoOK'
    BY <1>1 DEF StreamsOK
  <2>. AloneOK /\ AnsweredOK /\ VideoOK
    BY DEF StreamsOK
  <2>1. AloneOK'
    <3>. SUFFICES ASSUME ~burst.denied, ~burst.overlapped PROVE AloneOK'
      BY <1>1 DEF AloneOK
    <3>1. ~nextError' /\ \A d \in Calls : call'[d].pc \notin Waiting
      BY <1>1, <1>2 DEF AloneOK, Pending, Waiting
    <3>. QED  BY <3>1 DEF AloneOK, Pending, Waiting
  <2>2. AnsweredOK'
    <3>1. nextStream \in Calls => (LastStart(nextStream)' <=> LastStart(nextStream))
      BY <1>1, <1>4 DEF LastStart
    <3>2. CASE \E d \in Calls : call[d].pc = "asking"
      BY <1>1, <1>2, <3>2 DEF AnsweredOK
    <3>3. CASE nextError
      BY <1>1, <3>3 DEF AnsweredOK
    <3>4. CASE /\ nextStream \in Calls /\ track[nextStream] = "live"
               /\ burst.crossed \/ LastStart(nextStream)
      BY <1>1, <3>1, <3>4 DEF AnsweredOK
    <3>. QED  BY <3>2, <3>3, <3>4 DEF AnsweredOK
  <2>3. VideoOK'
    BY <1>1 DEF VideoOK
  <2>. QED  BY <2>1, <2>2, <2>3
<1>7. StreamsHeld'
  BY <1>1 DEF StreamsHeld
<1>. QED  BY <1>3, <1>5, <1>6, <1>7

LEMMA RenderKeeps ==
    ASSUME StreamInv, Render
    PROVE  StreamInv'
<1>. USE DEF StreamInv
<1>1. /\ page # "left"
      /\ stream' = nextStream /\ error' = nextError
      /\ track' = IF nextStream = stream THEN track ELSE Stopped(track, stream)
      /\ src' = IF nextError = error THEN src ELSE None
      /\ remounted' = IF nextError = error THEN remounted ELSE error
      /\ UNCHANGED <<page, facing, call, nextStream, nextError, burst, escaped>>
  BY DEF Render, Mounted
<1>2. /\ track' \in TrackType
      /\ \A c \in Calls : track'[c] =
            IF c = stream /\ nextStream # stream THEN "stopped" ELSE track[c]
  BY <1>1, StoppedEffect DEF StreamTypes
<1>3. StreamTypes'
  <2>1. Streams' = Streams
    <3>1. \A d \in Calls : track'[d] # "none" <=> track[d] # "none"
      BY <1>2, CameraAssumption DEF Streams, StreamTypes
    <3>. QED  BY <3>1 DEF Streams
  <2>. QED  BY <1>1, <1>2, <2>1 DEF StreamTypes
<1>4. StartsOK'
  BY <1>1 DEF StartsOK, LastStart
<1>5. StreamsOK'
  <2>. SUFFICES ASSUME page = "open" PROVE AloneOK' /\ AnsweredOK' /\ VideoOK'
    BY <1>1 DEF StreamsOK
  <2>. AloneOK /\ AnsweredOK /\ VideoOK
    BY DEF StreamsOK
  <2>1. AloneOK'
    <3>1. Pending' = Pending
      BY <1>1 DEF Pending
    <3>2. ~nextError /\ HasVideo => src' = src /\ HasVideo'
      BY <1>1 DEF HasVideo, Mounted, StreamTypes
    <3>. QED  BY <1>1, <3>1, <3>2 DEF AloneOK
  <2>2. AnsweredOK'
    <3>1. nextStream \in Calls => (LastStart(nextStream)' <=> LastStart(nextStream))
      BY <1>1 DEF LastStart
    <3>. QED  BY <1>1, <1>2, <3>1 DEF AnsweredOK
  <2>3. VideoOK'
    BY <1>1 DEF VideoOK, StreamTypes
  <2>. QED  BY <2>1, <2>2, <2>3
<1>6. StreamsHeld'
  BY <1>1, <1>2 DEF StreamsHeld
<1>. QED  BY <1>3, <1>4, <1>5, <1>6

\* The stream that is shown stops with the page; one that has not been rendered
\* escapes.
LEMMA EndKeeps ==
    ASSUME StreamInv, Close \/ Leave
    PROVE  StreamInv'
<1>. USE DEF StreamInv
<1>1. /\ track' = Stopped(track, stream)
      /\ UNCHANGED <<facing, call, stream, nextStream, error, nextError, src, burst, remounted>>
      /\ page' # "open" /\ page # "left"
      /\ \/ page' = "closed" /\ escaped' = escaped
         \/ /\ page' = "left"
            /\ escaped' = IF nextStream = stream THEN escaped ELSE escaped \cup {nextStream}
  BY DEF Close, Leave, Mounted
<1>2. /\ track' \in TrackType
      /\ \A c \in Calls : track'[c] = IF c = stream THEN "stopped" ELSE track[c]
  BY <1>1, StoppedEffect
<1>3. StreamTypes'
  <2>1. Streams' = Streams
    <3>1. \A d \in Calls : track'[d] # "none" <=> track[d] # "none"
      BY <1>2, CameraAssumption DEF Streams, StreamTypes
    <3>. QED  BY <3>1 DEF Streams
  <2>. QED  BY <1>1, <1>2, <2>1 DEF StreamTypes
<1>4. StartsOK'
  BY <1>1 DEF StartsOK, LastStart
<1>5. StreamsOK'
  BY <1>1 DEF StreamsOK
<1>6. StreamsHeld'
  BY <1>1, <1>2 DEF StreamsHeld
<1>. QED  BY <1>3, <1>4, <1>5, <1>6

\* The calls of startCamera leave the page and the pictures alone.
LEMMA CameraStepKeeps ==
    ASSUME StreamInv, NEW c \in Calls, CameraStep(c)
    PROVE  StreamInv' /\ UNCHANGED <<page, pictures>>
           /\ escaped \subseteq escaped'
           /\ escaped' \subseteq escaped \cup Calls \cup {None}
<1>1. CASE Flip(c)
  <2>. DEFINE mode == CHOOSE m \in Modes : m # facing
  <2>1. mode \in Modes
    <3>1. \E m \in Modes : m # facing
      BY DEF Modes
    <3>. QED  BY <3>1
  <2>2. /\ facing' = mode /\ StartCamera(c, mode)
        /\ UNCHANGED <<page, stream, nextStream, error, nextError, src, remounted, escaped, pictures>>
    BY <1>1 DEF Flip
  <2>. HIDE DEF mode
  <2>. QED  BY <2>1, <2>2, StartCameraKeeps
<1>2. CASE GrantAccess(c)
  <2>1. /\ facing' = facing /\ StartCamera(c, facing)
        /\ UNCHANGED <<page, stream, nextStream, error, nextError, src, remounted, escaped, pictures>>
    BY <1>2 DEF GrantAccess
  <2>2. facing \in Modes
    BY DEF StreamInv, StreamTypes
  <2>. QED  BY <2>1, <2>2, StartCameraKeeps
<1>3. CASE Granted(c)
  <2>1. /\ UNCHANGED <<page, pictures>>
        /\ escaped' \in {escaped, escaped \cup {nextStream}, escaped \cup {c}}
    BY <1>3 DEF Granted
  <2>2. nextStream \in Calls \cup {None}
    BY DEF StreamInv, StreamTypes, Streams
  <2>. QED  BY <1>3, <2>1, <2>2, GrantedKeeps
<1>4. CASE Denied(c)
  <2>1. /\ ReportError(c) /\ call[c].pc = "asking"
        /\ burst' = [burst EXCEPT !.denied = TRUE, !.crossed = @ \/ Crosses(c)]
        /\ UNCHANGED <<page, facing, track, stream, nextStream, error, src, remounted, escaped, pictures>>
    BY <1>4 DEF Denied
  <2>2. burst' \in BurstType /\ burst'.denied
    BY <2>1 DEF StreamInv, StreamTypes, BurstType, Crosses
  <2>. QED  BY <2>1, <2>2, ReportErrorKeeps
<1>5. CASE Plays(c)
  <2>1. UNCHANGED <<page, escaped, pictures>>
    BY <1>5 DEF Plays
  <2>. QED  BY <1>5, <2>1, PlaysKeeps
<1>6. CASE PlayIsInterrupted(c)
  <2>1. /\ ReportError(c) /\ call[c].pc = "playing" /\ ~(HasVideo /\ src = c)
        /\ UNCHANGED <<page, facing, track, stream, nextStream, error, src, burst, remounted,
                       escaped, pictures>>
    BY <1>6 DEF PlayIsInterrupted
  <2>2. burst' \in BurstType
    BY <2>1 DEF StreamInv, StreamTypes
  <2>. QED  BY <2>1, <2>2, ReportErrorKeeps
<1>. QED
  BY <1>1, <1>2, <1>3, <1>4, <1>5, <1>6 DEF CameraStep

\* Nothing of the pictures changes, but for what has escaped.
LEMMA PictureFrame ==
    ASSUME PictureInv, UNCHANGED pictures, UNCHANGED page, escaped \subseteq escaped'
    PROVE  PictureInv'
<1>. USE DEF pictures
<1>1. PictureTypes' /\ UploadsOK'
  BY DEF PictureInv, PictureTypes, UploadsOK, InFlight
<1>2. BarShowsUpload'
  BY DEF PictureInv, BarShowsUpload, InFlight, Mounted
<1>3. PicturesHeld'
  BY DEF PictureInv, PicturesHeld
<1>. QED  BY <1>1, <1>2, <1>3 DEF PictureInv

LEMMA LeaveKeepsPictures ==
    ASSUME PictureInv, Leave
    PROVE  PictureInv'
<1>1. /\ page' = "left" /\ UNCHANGED <<file, capturing, bar, finished, parallel>>
      /\ url' = [f \in Files |-> IF url[f] = "live" THEN "revoked" ELSE url[f]]
  BY DEF Leave
<1>2. PictureTypes' /\ UploadsOK'
  BY <1>1 DEF PictureInv, PictureTypes, UploadsOK, InFlight
<1>3. BarShowsUpload' /\ PicturesHeld'
  BY <1>1 DEF PictureInv, PicturesHeld, BarShowsUpload, Mounted
<1>. QED  BY <1>2, <1>3 DEF PictureInv

LEMMA GotoEffect ==
    ASSUME PictureTypes, NEW f \in Files,
           NEW pc \in {"none", "drawn", "fading", "over"} \cup Uploading, Goto(f, pc)
    PROVE  /\ file' \in [Files -> FileType]
           /\ file'[f].pc = pc /\ file'[f].taken = file[f].taken
           /\ \A g \in Files : g # f => file'[g] = file[g]
BY DEF PictureTypes, FileType, Goto

LEMMA EndEffect ==
    ASSUME PictureTypes, NEW f \in Files, End(f)
    PROVE  /\ file' \in [Files -> FileType]
           /\ file'[f].pc = "over" /\ ~file'[f].taken
           /\ \A g \in Files : g # f => file'[g] = file[g]
<1>. DEFINE nofile == NoFile
            over == [nofile EXCEPT !.pc = "over"]
<1>1. nofile \in FileType /\ ~nofile.taken
  BY DEF NoFile, FileType
<1>. HIDE DEF nofile
<1>2. over \in FileType /\ over.pc = "over" /\ ~over.taken
  BY <1>1 DEF FileType
<1>. USE DEF nofile
<1>3. file' = [file EXCEPT ![f] = over]
  BY DEF End
<1>. HIDE DEF over
<1>. QED  BY <1>2, <1>3 DEF PictureTypes

\* A step of a picture that is not being uploaded, before and after.
LEMMA ApartKeepsUploads ==
    ASSUME PictureInv, NEW f \in Files, file' \in [Files -> FileType],
           file[f].pc \notin Uploading, file'[f].pc \notin Uploading,
           file'[f].pc # "none", \A g \in Files : g # f => file'[g] = file[g],
           UNCHANGED <<page, bar, finished, parallel>>
    PROVE  /\ UploadsOK'
           /\ page # "left" =>
                /\ InFlight' = {} =>
                      bar' = IF finished'.file = None THEN Initial
                             ELSE IF finished'.ok THEN Complete(finished'.file) ELSE Failed
                /\ InFlight' # {} /\ ~parallel' => bar'.uploading
<1>1. InFlight' = InFlight
  BY DEF InFlight
<1>. QED  BY <1>1 DEF PictureInv, UploadsOK, BarShowsUpload, Mounted

LEMMA CapturePhotoKeeps ==
    ASSUME PictureInv, NEW f \in Files, CapturePhoto(f)
    PROVE  PictureInv'
<1>. USE DEF PictureInv
<1>1. /\ file[f].pc = "none" /\ capturing' = TRUE /\ Goto(f, "drawn")
      /\ UNCHANGED <<page, url, bar, escaped, finished, parallel>>
  BY DEF CapturePhoto
<1>2. /\ file' \in [Files -> FileType] /\ file'[f].pc = "drawn"
      /\ \A g \in Files : g # f => file'[g] = file[g]
  BY <1>1, GotoEffect
<1>3. PictureTypes' /\ PicturesHeld'
  BY <1>1, <1>2 DEF PictureTypes, PicturesHeld
<1>4. UploadsOK' /\ BarShowsUpload'
  BY <1>1, <1>2, ApartKeepsUploads DEF BarShowsUpload, Mounted, Uploading
<1>. QED  BY <1>3, <1>4

\* The flash ends with its picture, in either way.
LEMMA FlashEnds ==
    ASSUME PictureInv, NEW f \in Files, NoBlob(f) \/ FlashFades(f)
    PROVE  PictureInv'
<1>. USE DEF PictureInv
<1>1. /\ file[f].pc \in {"drawn", "fading"} /\ End(f)
      /\ capturing' = IF page # "left" THEN FALSE ELSE capturing
      /\ UNCHANGED <<page, url, bar, escaped, finished, parallel>>
  BY DEF NoBlob, FlashFades, Mounted
<1>2. /\ file' \in [Files -> FileType] /\ file'[f].pc = "over"
      /\ \A g \in Files : g # f => file'[g] = file[g]
  BY <1>1, EndEffect
<1>3. PictureTypes' /\ PicturesHeld'
  BY <1>1, <1>2 DEF PictureTypes, PicturesHeld
<1>4. UploadsOK' /\ BarShowsUpload'
  BY <1>1, <1>2, ApartKeepsUploads DEF BarShowsUpload, Mounted, Uploading
<1>. QED  BY <1>3, <1>4

\* An upload that begins has the page to itself or is known to overlap another.
LEMMA StartUploadKeeps ==
    ASSUME PictureInv, NEW f \in Files, NEW image \in BOOLEAN, NEW taken \in BOOLEAN,
           StartUpload(f, image, taken),
           file[f].pc \in {"none", "drawn"}, file[f].pc = "drawn" => taken,
           url' = [url EXCEPT ![f] = "live"], page # "left" \/ f \in escaped',
           escaped \subseteq escaped', UNCHANGED <<page, capturing, finished>>
    PROVE  PictureInv'
<1>. USE DEF PictureInv
<1>1. /\ file' = [file EXCEPT ![f] = [pc |-> IF image THEN "thumbnail" ELSE "preflight",
                                      image |-> image, taken |-> taken]]
      /\ parallel' = (InFlight # {})
  BY DEF StartUpload
<1>2. /\ bar' \in BarType /\ Consistent(bar')
      /\ page # "left" => bar'.uploading
  <2>1. CASE page # "left"
    <3>1. bar' = [uploading |-> TRUE, error |-> FALSE, media |-> None,
                  status |-> IF image THEN "generating-thumbnail" ELSE "encrypting"]
      BY <2>1 DEF StartUpload, SetBar, Mounted, Initial
    <3>. QED  BY <3>1 DEF BarType, Consistent
  <2>2. CASE page = "left"
    BY <2>2 DEF StartUpload, SetBar, Mounted, PictureTypes
  <2>. QED  BY <2>1, <2>2
<1>3. /\ file' \in [Files -> FileType]
      /\ file'[f].pc \in {"thumbnail", "preflight"} /\ file'[f].taken = taken
      /\ \A g \in Files : g # f => file'[g] = file[g]
  BY <1>1 DEF PictureTypes, FileType, Uploading
<1>4. PictureTypes'
  BY <1>1, <1>2, <1>3 DEF PictureTypes
<1>5. InFlight' = InFlight \cup {f}
  BY <1>3 DEF InFlight, Uploading
<1>6. UploadsOK'
  BY <1>1, <1>3, <1>5 DEF UploadsOK
<1>7. BarShowsUpload'
  <2>. SUFFICES ASSUME page # "left"
                PROVE  capturing => \E g \in Files : file'[g].taken \/ file'[g].pc = "drawn"
    BY <1>2, <1>5 DEF BarShowsUpload, Mounted
  <2>. SUFFICES ASSUME NEW g \in Files, file[g].taken \/ file[g].pc = "drawn"
                PROVE  file'[g].taken \/ file'[g].pc = "drawn"
    BY DEF BarShowsUpload, Mounted
  <2>1. g = f => file[f].pc = "drawn"
    BY DEF UploadsOK
  <2>. QED  BY <1>3, <2>1
<1>8. PicturesHeld'
  BY DEF PicturesHeld, PictureTypes
<1>. QED  BY <1>4, <1>6, <1>7, <1>8

\* What goes on of an upload is reported under the sign that one is running.
LEMMA ProgressKeeps ==
    ASSUME PictureInv, NEW f \in Files, file[f].pc \in Uploading,
           NEW status \in {"encrypting", "uploading"}, Report(status),
           \/ \E pc \in Uploading : Goto(f, pc)
           \/ file' = file,
           UNCHANGED uploadRest
    PROVE  PictureInv'
<1>. USE DEF PictureInv
<1>1. UNCHANGED <<page, url, capturing, escaped, finished, parallel>>
  BY DEF uploadRest
<1>2. /\ file' \in [Files -> FileType]
      /\ \A g \in Files : /\ file'[g].pc \in Uploading <=> file[g].pc \in Uploading
                          /\ file'[g].pc = "none" <=> file[g].pc = "none"
                          /\ file'[g].pc = "drawn" <=> file[g].pc = "drawn"
                          /\ file'[g].taken = file[g].taken
  <2>1. CASE file' = file
    BY <2>1 DEF PictureTypes
  <2>2. ASSUME NEW pc \in Uploading, Goto(f, pc)
        PROVE  /\ file' \in [Files -> FileType]
               /\ file'[f].pc = pc /\ file'[f].taken = file[f].taken
               /\ \A g \in Files : g # f => file'[g] = file[g]
    BY <2>2, GotoEffect
  <2>3. CASE \E pc \in Uploading : Goto(f, pc)
    BY <2>2, <2>3 DEF Uploading
  <2>. QED  BY <2>1, <2>3
<1>3. InFlight' = InFlight /\ f \in InFlight
  BY <1>2 DEF InFlight
<1>4. bar' \in BarType /\ Consistent(bar') /\ bar'.uploading = bar.uploading
  BY DEF Report, SetBar, PictureTypes, BarType, Consistent
<1>5. PictureTypes' /\ PicturesHeld'
  BY <1>1, <1>2, <1>4 DEF PictureTypes, PicturesHeld
<1>6. UploadsOK'
  BY <1>1, <1>2, <1>3 DEF UploadsOK
<1>7. BarShowsUpload'
  <2>1. \A g \in Files : file[g].taken \/ file[g].pc = "drawn" => file'[g].taken \/ file'[g].pc = "drawn"
    BY <1>2
  <2>. QED  BY <1>1, <1>3, <1>4, <2>1 DEF BarShowsUpload, Mounted
<1>. QED  BY <1>5, <1>6, <1>7

\* An upload that ends alone leaves its own outcome; of several the others go on.
LEMMA FinishKeeps ==
    ASSUME PictureInv, NEW f \in Files, file[f].pc \in Uploading,
           NEW ok \in BOOLEAN, Finish(f, ok),
           SetBar(IF ok THEN Complete(f) ELSE Failed)
    PROVE  PictureInv'
<1>. USE DEF PictureInv
<1>1. /\ finished' = [file |-> f, ok |-> ok]
      /\ UNCHANGED <<page, url, capturing, escaped, parallel>>
      /\ IF file[f].taken THEN Goto(f, "fading") ELSE End(f)
  BY DEF Finish
<1>2. /\ file' \in [Files -> FileType] /\ file'[f].pc \in {"fading", "over"}
      /\ \A g \in Files : g # f => file'[g] = file[g]
      /\ file'[f].taken = file[f].taken
  <2>1. CASE file[f].taken
    BY <1>1, <2>1, GotoEffect
  <2>2. CASE ~file[f].taken
    <3>1. /\ file' \in [Files -> FileType] /\ file'[f].pc = "over" /\ ~file'[f].taken
          /\ \A g \in Files : g # f => file'[g] = file[g]
      BY <1>1, <2>2, EndEffect
    <3>2. file'[f].taken \in BOOLEAN /\ file[f].taken \in BOOLEAN
      BY <3>1 DEF PictureTypes, FileType
    <3>. QED  BY <2>2, <3>1, <3>2
  <2>. QED  BY <2>1, <2>2
<1>. DEFINE b == IF ok THEN Complete(f) ELSE Failed
<1>3. b \in BarType /\ Consistent(b)
  BY DEF Complete, Failed, Initial, BarType, Consistent
<1>4. bar' = IF page # "left" THEN b ELSE bar
  BY DEF SetBar, Mounted
<1>. HIDE DEF b
<1>5. PictureTypes' /\ PicturesHeld'
  BY <1>1, <1>2, <1>3, <1>4 DEF PictureTypes, PicturesHeld
<1>6. InFlight' = InFlight \ {f} /\ f \in InFlight
  BY <1>2 DEF InFlight, Uploading
<1>7. UploadsOK'
  BY <1>1, <1>2, <1>6 DEF UploadsOK
<1>8. BarShowsUpload'
  <2>. SUFFICES ASSUME page # "left" PROVE BarShowsUpload'
    BY <1>1 DEF BarShowsUpload, Mounted
  <2>1. parallel \/ InFlight' = {}
    BY <1>6 DEF UploadsOK
  <2>2. bar' = IF finished'.ok THEN Complete(finished'.file) ELSE Failed
    BY <1>1, <1>4 DEF b
  <2>3. finished'.file # None
    BY <1>1, CameraAssumption
  <2>4. capturing => \E g \in Files : file'[g].taken \/ file'[g].pc = "drawn"
    <3>1. \A g \in Files : file[g].taken \/ file[g].pc = "drawn" => file'[g].taken \/ file'[g].pc = "drawn"
      BY <1>2 DEF Uploading
    <3>. QED  BY <3>1 DEF BarShowsUpload, Mounted
  <2>. QED  BY <1>1, <2>1, <2>2, <2>3, <2>4, Zenon DEF BarShowsUpload
<1>. QED  BY <1>5, <1>7, <1>8

LEMMA FileStepKeeps ==
    ASSUME PictureInv, NEW f \in Files, FileStep(f)
    PROVE  PictureInv' /\ UNCHANGED <<page, camera>>
           /\ escaped' \in {escaped, escaped \cup {f}}
<1>1. CASE CapturePhoto(f)
  BY <1>1, CapturePhotoKeeps DEF CapturePhoto
<1>2. CASE NoBlob(f) \/ FlashFades(f)
  BY <1>2, FlashEnds DEF NoBlob, FlashFades
<1>3. CASE BlobReady(f)
  <2>1. /\ StartUpload(f, TRUE, TRUE) /\ file[f].pc = "drawn"
        /\ url' = [url EXCEPT ![f] = "live"] /\ UNCHANGED <<page, camera, capturing, finished>>
        /\ escaped' = IF page # "left" THEN escaped ELSE escaped \cup {f}
    BY <1>3 DEF BlobReady, Mounted
  <2>2. /\ escaped \subseteq escaped'
        /\ page # "left" \/ f \in escaped'
        /\ escaped' \in {escaped, escaped \cup {f}}
    BY <2>1
  <2>3. PictureInv'
    BY <2>1, <2>2, StartUploadKeeps
  <2>. QED  BY <2>1, <2>2, <2>3
<1>4. ASSUME NEW valid \in BOOLEAN, NEW image \in BOOLEAN, HandleFileSelect(f, valid, image)
      PROVE  PictureInv' /\ UNCHANGED <<page, camera, escaped>>
  <2>1. /\ page # "left" /\ file[f].pc = "none" /\ url' = [url EXCEPT ![f] = "live"]
        /\ UNCHANGED <<page, camera, capturing, escaped, finished>>
        /\ IF valid THEN StartUpload(f, image, FALSE)
                    ELSE End(f) /\ UNCHANGED <<bar, parallel>>
    BY <1>4 DEF HandleFileSelect, Mounted
  <2>2. CASE valid
    <3>1. PictureInv'
      BY <2>1, <2>2, StartUploadKeeps
    <3>. QED  BY <2>1, <3>1
  <2>3. CASE ~valid
    <3>. USE DEF PictureInv
    <3>1. /\ file' \in [Files -> FileType] /\ file'[f].pc = "over"
          /\ \A g \in Files : g # f => file'[g] = file[g]
      BY <2>1, <2>3, EndEffect
    <3>2. PictureTypes' /\ PicturesHeld'
      BY <2>1, <2>3, <3>1 DEF PictureTypes, PicturesHeld
    <3>3. ~file[f].taken
      BY <2>1 DEF UploadsOK
    <3>4. UploadsOK' /\ BarShowsUpload'
      BY <2>1, <2>3, <3>1, <3>3, ApartKeepsUploads DEF BarShowsUpload, Mounted, Uploading
    <3>. QED  BY <2>1, <3>2, <3>4
  <2>. QED  BY <2>2, <2>3
<1>5. CASE \/ ThumbnailReady(f) \/ PreflightPasses(f) \/ FileIsEncrypted(f)
           \/ ThumbnailIsEncrypted(f) \/ Progress(f)
  <2>1. /\ file[f].pc \in Uploading /\ UNCHANGED uploadRest
        /\ (\E pc \in Uploading : Goto(f, pc)) \/ file' = file
        /\ Report("encrypting") \/ Report("uploading")
    <3>1. {"thumbnail", "preflight", "encrypting", "encryptingThumb", "sending"} = Uploading
      BY DEF Uploading
    <3>2. CASE ThumbnailReady(f)
      BY <3>1, <3>2 DEF ThumbnailReady
    <3>3. CASE PreflightPasses(f)
      BY <3>1, <3>3 DEF PreflightPasses
    <3>4. CASE FileIsEncrypted(f)
      BY <3>1, <3>4 DEF FileIsEncrypted
    <3>5. CASE ThumbnailIsEncrypted(f)
      BY <3>1, <3>5 DEF ThumbnailIsEncrypted
    <3>6. CASE Progress(f)
      BY <3>1, <3>6 DEF Progress
    <3>. QED  BY <1>5, <3>2, <3>3, <3>4, <3>5, <3>6
  <2>2. PictureInv'
    BY <2>1, ProgressKeeps
  <2>. QED  BY <2>1, <2>2 DEF uploadRest
<1>6. CASE Stored(f) \/ UploadFails(f)
  <2>1. \E ok \in BOOLEAN : /\ Finish(f, ok)
                            /\ SetBar(IF ok THEN Complete(f) ELSE Failed)
    BY <1>6, Zenon DEF Stored, UploadFails
  <2>2. file[f].pc \in Uploading
    BY <1>6 DEF Stored, UploadFails, Uploading
  <2>3. UNCHANGED <<page, camera, escaped>>
    BY <2>1 DEF Finish
  <2>. QED  BY <2>1, <2>2, <2>3, FinishKeeps
<1>. QED
  BY <1>1, <1>2, <1>3, <1>4, <1>5, <1>6 DEF FileStep

LEMMA CameraNextInv ==
    ASSUME CameraInv, [CameraNext]_cameraVars
    PROVE  CameraInv'
<1>. StreamInv /\ PictureInv
  BY DEF CameraInv
<1>1. CASE UNCHANGED cameraVars
  <2>1. UNCHANGED <<page, escaped, camera, pictures>>
    BY <1>1 DEF cameraVars
  <2>. QED  BY <2>1, StreamFrame, PictureFrame DEF CameraInv
<1>2. CASE Render
  <2>1. UNCHANGED <<page, escaped, pictures>>
    BY <1>2 DEF Render
  <2>2. StreamInv'
    BY <1>2, RenderKeeps
  <2>. QED  BY <2>1, <2>2, PictureFrame DEF CameraInv
<1>3. CASE Close
  <2>1. page' = "closed" /\ page # "left" /\ UNCHANGED <<escaped, pictures>>
    BY <1>3 DEF Close, Mounted
  <2>2. StreamInv'
    BY <1>3, EndKeeps
  <2>3. PictureInv'
    BY <2>1 DEF PictureInv, PictureTypes, UploadsOK, PicturesHeld, pictures,
       BarShowsUpload, InFlight, Mounted
  <2>. QED  BY <2>1, <2>2, <2>3 DEF CameraInv
<1>4. CASE Leave
  <2>1. page' = "left" /\ escaped' \in {escaped, escaped \cup {nextStream}}
    BY <1>4 DEF Leave
  <2>2. nextStream \in Calls \cup {None}
    BY DEF StreamInv, StreamTypes, Streams
  <2>3. StreamInv' /\ PictureInv'
    BY <1>4, EndKeeps, LeaveKeepsPictures
  <2>. QED  BY <2>1, <2>2, <2>3 DEF CameraInv
<1>5. ASSUME NEW c \in Calls, CameraStep(c) PROVE CameraInv'
  <2>1. /\ StreamInv' /\ UNCHANGED <<page, pictures>> /\ escaped \subseteq escaped'
        /\ escaped' \subseteq escaped \cup Calls \cup {None}
    BY <1>5, CameraStepKeeps
  <2>2. PictureInv'
    BY <2>1, PictureFrame
  <2>. QED  BY <2>1, <2>2 DEF CameraInv
<1>6. ASSUME NEW f \in Files, FileStep(f) PROVE CameraInv'
  <2>1. /\ PictureInv' /\ UNCHANGED <<page, camera>>
        /\ escaped' \in {escaped, escaped \cup {f}}
    BY <1>6, FileStepKeeps
  <2>2. StreamInv'
    BY <2>1, StreamFrame
  <2>. QED  BY <2>1, <2>2 DEF CameraInv
<1>. QED
  BY <1>1, <1>2, <1>3, <1>4, <1>5, <1>6 DEF CameraNext

LEMMA CameraInvariant ==
    CameraSpec => []CameraInv
<1>1. CameraInit => CameraInv
  BY CameraInitInv
<1>2. CameraInv /\ [CameraNext]_cameraVars => CameraInv'
  BY CameraNextInv
<1>. QED  BY <1>1, <1>2, PTL DEF CameraSpec

\* Types of the page's state and of what runs for it: the streams of the page were
\* granted, and uploadState has no result while it says uploading (CameraPage,
\* useMediaUpload).
THEOREM CameraTypeCorrect ==
    CameraSpec => []CameraTypeOK
<1>1. CameraInv => CameraTypeOK
  <2>. SUFFICES ASSUME CameraInv PROVE CameraTypeOK
    OBVIOUS
  <2>1. {"idle", "done"} \cup Waiting = {"idle", "done", "asking", "playing"}
    BY DEF Waiting
  <2>2. /\ facing \in Modes
        /\ call \in [Calls -> [pc : {"idle", "done"} \cup Waiting, facing : Modes]]
        /\ track \in [Calls -> {"none", "live", "stopped"}]
        /\ burst \in [denied : BOOLEAN, overlapped : BOOLEAN, crossed : BOOLEAN]
    BY <2>1 DEF CameraInv, StreamInv, StreamTypes, StartType, TrackType, BurstType
  <2>3. {stream, nextStream, src} \subseteq {c \in Calls : track[c] # "none"} \cup {None}
    BY DEF CameraInv, StreamInv, StreamTypes, Streams
  <2>4. {error, nextError, capturing, remounted, parallel} \subseteq BOOLEAN
    BY DEF CameraInv, StreamInv, PictureInv, StreamTypes, PictureTypes
  <2>5. /\ file \in [Files -> FileType]
        /\ url \in [Files -> {"none", "live", "revoked"}]
        /\ bar \in BarType
        /\ bar.uploading => ~bar.error /\ bar.media = None
        /\ finished \in [file : Files \cup {None}, ok : BOOLEAN]
    BY DEF CameraInv, PictureInv, PictureTypes, Consistent
  <2>. QED
    BY <2>2, <2>3, <2>4, <2>5, Zenon DEF CameraInv, CameraTypeOK, FileType, BarType
<1>. QED  BY <1>1, CameraInvariant, PTL

\* No camera runs and no picture is kept in memory but those the page holds, and
\* none after it; what escapes is what the effects of CameraPage cannot know of.
THEOREM CameraNothingRunsUnheld ==
    CameraSpec => []NothingRunsUnheld
<1>1. CameraInv => NothingRunsUnheld
  BY DEF CameraInv, StreamInv, PictureInv, StreamsHeld, PicturesHeld, NothingRunsUnheld,
     Mounted
<1>. QED  BY <1>1, CameraInvariant, PTL

\* When everything has settled the page shows the running camera, of the side that
\* was chosen last, or an error with a cause, however many calls of startCamera
\* have overlapped before (startCamera, flipCamera).
THEOREM CameraViewShowsCamera ==
    CameraSpec => []ViewShowsCamera
<1>1. CameraInv => ViewShowsCamera
  <2>. SUFFICES ASSUME CameraInv, AtRest
                PROVE  /\ error => burst.denied \/ burst.overlapped
                       /\ ~error /\ ~remounted =>
                             stream # None /\ src = stream /\ track[stream] = "live"
                       /\ ~error /\ ~burst.crossed => call[stream].facing = facing
    BY DEF ViewShowsCamera
  <2>1. AloneOK /\ AnsweredOK /\ VideoOK /\ StartsOK
    BY DEF CameraInv, StreamInv, StreamsOK, AtRest
  <2>2. Pending = {} /\ nextStream = stream /\ nextError = error
    BY DEF AtRest
  <2>3. \A c \in Calls : call[c].pc # "asking"
    BY <2>2 DEF Pending, Waiting
  <2>4. ~error => /\ stream \in Calls /\ track[stream] = "live"
                  /\ burst.crossed \/ LastStart(stream)
    BY <2>1, <2>2, <2>3 DEF AnsweredOK
  <2>5. ~error => stream # None
    BY <2>4, CameraAssumption
  <2>. QED  BY <2>1, <2>2, <2>4, <2>5 DEF AloneOK, VideoOK, StartsOK
<1>. QED  BY <1>1, CameraInvariant, PTL

\* An upload that has the page to itself is shown as running, after the last one its
\* own outcome is shown, and the flash ends with its picture (uploadFile,
\* onProgress, capturePhoto).
THEOREM CameraBarShowsUpload ==
    CameraSpec => []BarShowsUpload
<1>1. CameraInv => BarShowsUpload
  BY DEF CameraInv, PictureInv
<1>. QED  BY <1>1, CameraInvariant, PTL
=============================================================================
