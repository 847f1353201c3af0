------------------------------ MODULE Realtime ------------------------------
(***************************************************************************)
(* The sockets of one user: the rooms each one joins and the presence it   *)
(* records.  websocket/index.ts and presence-handler.ts start two          *)
(* asynchronous sequences when a socket connects and a third when it       *)
(* disconnects; none waits for another, and a sequence that is under way   *)
(* goes on after its socket is gone.                                       *)
(*                                                                         *)
(* A conversation is "active" for the user when getConversations lists it, *)
(* that is, when the user participates in it and has not archived it.  The *)
(* two cache writes of one value that each presence sequence makes in      *)
(* succession are one step, and so is a loop that joins or emits to rooms. *)
(***************************************************************************)
EXTENDS FiniteSets

CONSTANTS
    Sockets,   \* socket ids; a reconnection gets a new one
    Convs

VARIABLES
    life,      \* each socket: not yet connected, connected, gone
    up,        \* presence sequence on connect
    main,      \* room sequence on connect
    down,      \* presence sequence on disconnect
    listed,    \* the conversations the room sequence got from the database
    rooms,     \* the conversation rooms the socket is in
    joined,    \* socket.data.conversationRooms
    inUser,    \* the sockets in the user's own room
    active,    \* the conversations getConversations lists for the user
    isOnline,  \* the user's row
    cache,     \* the presence key in Redis
    shown,     \* the last presence broadcast to each conversation
    changed,   \* history: conversations that changed while a socket was connected
    overlapped, \* history: a socket came while another was leaving, or left
                \* while one was arriving
    failed     \* history: a call of a sequence failed

sequences == <<up, main, down, listed>>
presence == <<isOnline, cache, shown>>
history == <<changed, overlapped, failed>>
vars == <<life, sequences, rooms, joined, inUser, active, presence, history>>

-----------------------------------------------------------------------------
On == {s \in Sockets : life[s] = "on"}
Busy(s) == up[s] # "idle" \/ main[s] # "idle" \/ down[s] # "idle"
AnyBusy == \E s \in Sockets : Busy(s)
Arriving == \E s \in Sockets : up[s] # "idle" \/ main[s] # "idle"
Leaving == \E s \in Sockets : down[s] # "idle"

Init ==
    /\ life = [s \in Sockets |-> "new"]
    /\ up = [s \in Sockets |-> "idle"]
    /\ main = [s \in Sockets |-> "idle"]
    /\ down = [s \in Sockets |-> "idle"]
    /\ listed = [s \in Sockets |-> {}]
    /\ rooms = [s \in Sockets |-> {}]
    /\ joined = [s \in Sockets |-> {}]
    /\ inUser = {}
    /\ active \in SUBSET Convs
    /\ isOnline = FALSE
    /\ cache = "none"
    /\ shown = [v \in Convs |-> "offline"]
    /\ changed = {}
    /\ overlapped = FALSE
    /\ failed = FALSE

-----------------------------------------------------------------------------
(* Connecting                                                              *)

\* The connection handler starts the presence sequence and then its own.
Connect(s) ==
    /\ life[s] = "new"
    /\ life' = [life EXCEPT ![s] = "on"]
    /\ up' = [up EXCEPT ![s] = "db"]
    /\ main' = [main EXCEPT ![s] = "list"]
    /\ overlapped' = (overlapped \/ Leaving)
    /\ UNCHANGED <<down, listed, rooms, joined, inUser, active, presence, changed, failed>>

\* updateOnlineStatus: the row of the user.
UpDb(s) ==
    /\ up[s] = "db"
    /\ isOnline' = TRUE
    /\ up' = [up EXCEPT ![s] = "cache"]
    /\ UNCHANGED <<life, main, down, listed, rooms, joined, inUser, active, cache,
                   shown, history>>

\* updateOnlineStatus and handleConnect: the presence key, written twice.
UpCache(s) ==
    /\ up[s] = "cache"
    /\ cache' = "online"
    /\ up' = [up EXCEPT ![s] = "join"]
    /\ UNCHANGED <<life, main, down, listed, rooms, joined, inUser, active, isOnline,
                   shown, history>>

\* Mutant: a socket that is gone enters the user's room.
UpJoinLate(s) ==
    /\ up[s] = "join"
    /\ inUser' = inUser \cup {s}
    /\ up' = [up EXCEPT ![s] = "idle"]
    /\ UNCHANGED <<life, main, down, listed, rooms, joined, active, presence, history>>

\* joinRoom of the user's room: a no-op when the socket is gone.
UpJoin(s) ==
    /\ up[s] = "join"
    /\ inUser' = IF s \in On THEN inUser \cup {s} ELSE inUser
    /\ up' = [up EXCEPT ![s] = "idle"]
    /\ UNCHANGED <<life, main, down, listed, rooms, joined, active, presence, history>>

\* getConversations, with its MAX_CONVERSATION_ROOMS_ON_CONNECT of 1000: the user has
\* no more conversations than that.
MainList(s) ==
    /\ main[s] = "list"
    /\ listed' = [listed EXCEPT ![s] = active]
    /\ main' = [main EXCEPT ![s] = "join"]
    /\ UNCHANGED <<life, up, down, rooms, joined, inUser, active, presence, history>>

\* Mutant: the rooms joined are not remembered.
MainJoinForgets(s) ==
    /\ main[s] = "join"
    /\ rooms' = IF s \in On THEN [rooms EXCEPT ![s] = listed[s]] ELSE rooms
    /\ shown' = [v \in Convs |-> IF v \in listed[s] THEN "online" ELSE shown[v]]
    /\ main' = [main EXCEPT ![s] = "idle"]
    /\ UNCHANGED <<life, up, down, listed, joined, inUser, active, isOnline, cache, history>>

\* Mutant: only the first socket of the user joins.
MainJoinFirst(s) ==
    /\ main[s] = "join"
    /\ IF On \subseteq {s}
       THEN /\ rooms' = [rooms EXCEPT ![s] = IF s \in On THEN listed[s] ELSE @]
            /\ joined' = [joined EXCEPT ![s] = listed[s]]
       ELSE UNCHANGED <<rooms, joined>>
    /\ shown' = [v \in Convs |-> IF v \in listed[s] THEN "online" ELSE shown[v]]
    /\ main' = [main EXCEPT ![s] = "idle"]
    /\ UNCHANGED <<life, up, down, listed, inUser, active, isOnline, cache, history>>

\* The rooms are joined, remembered and told that the user is online.
MainJoin(s) ==
    /\ main[s] = "join"
    /\ rooms' = IF s \in On THEN [rooms EXCEPT ![s] = listed[s]] ELSE rooms
    /\ joined' = [joined EXCEPT ![s] = listed[s]]
    /\ shown' = [v \in Convs |-> IF v \in listed[s] THEN "online" ELSE shown[v]]
    /\ main' = [main EXCEPT ![s] = "idle"]
    /\ UNCHANGED <<life, up, down, listed, inUser, active, isOnline, cache, history>>

-----------------------------------------------------------------------------
(* Disconnecting                                                           *)

\* Socket.IO has taken the socket out of its rooms when the handler starts.
Disconnect(s) ==
    /\ life[s] = "on"
    /\ life' = [life EXCEPT ![s] = "gone"]
    /\ rooms' = [rooms EXCEPT ![s] = {}]
    /\ inUser' = inUser \ {s}
    /\ down' = [down EXCEPT ![s] = "query"]
    /\ overlapped' = (overlapped \/ Arriving)
    /\ UNCHANGED <<up, main, listed, joined, active, presence, changed, failed>>

\* Mutant: only the last of all the user's sockets ever made is not "remaining".
DownQueryAny(s) ==
    /\ down[s] = "query"
    /\ down' = [down EXCEPT ![s] =
          IF \E t \in Sockets \ {s} : life[t] # "new" THEN "idle" ELSE "db"]
    /\ UNCHANGED <<life, up, main, listed, rooms, joined, inUser, active, presence, history>>

\* getUserSockets: another socket in the user's room ends the sequence.
DownQuery(s) ==
    /\ down[s] = "query"
    /\ down' = [down EXCEPT ![s] = IF inUser \ {s} # {} THEN "idle" ELSE "db"]
    /\ UNCHANGED <<life, up, main, listed, rooms, joined, inUser, active, presence, history>>

DownDb(s) ==
    /\ down[s] = "db"
    /\ isOnline' = FALSE
    /\ down' = [down EXCEPT ![s] = "cache"]
    /\ UNCHANGED <<life, up, main, listed, rooms, joined, inUser, active, cache,
                   shown, history>>

\* The presence key is set, deleted and set again.
DownCache(s) ==
    /\ down[s] = "cache"
    /\ cache' = "offline"
    /\ down' = [down EXCEPT ![s] = "emit"]
    /\ UNCHANGED <<life, up, main, listed, rooms, joined, inUser, active, isOnline,
                   shown, history>>

\* Offline is broadcast to the rooms this socket remembered.
DownEmit(s) ==
    /\ down[s] = "emit"
    /\ shown' = [v \in Convs |-> IF v \in joined[s] THEN "offline" ELSE shown[v]]
    /\ down' = [down EXCEPT ![s] = "idle"]
    /\ UNCHANGED <<life, up, main, listed, rooms, joined, inUser, active, isOnline,
                   cache, history>>

-----------------------------------------------------------------------------
\* An awaited call rejects: the sequence logs the error and ends, and the
\* socket stays connected.
Fail(s) ==
    /\ failed' = TRUE
    /\ \/ up[s] # "idle" /\ up' = [up EXCEPT ![s] = "idle"] /\ UNCHANGED <<main, down>>
       \/ main[s] # "idle" /\ main' = [main EXCEPT ![s] = "idle"] /\ UNCHANGED <<up, down>>
       \/ down[s] # "idle" /\ down' = [down EXCEPT ![s] = "idle"] /\ UNCHANGED <<up, main>>
    /\ UNCHANGED <<life, listed, rooms, joined, inUser, active, presence, changed, overlapped>>

\* The presence key outlives its 300 seconds; nothing renews it.
CacheExpires ==
    /\ cache # "none"
    /\ cache' = "none"
    /\ UNCHANGED <<life, sequences, rooms, joined, inUser, active, isOnline, shown, history>>

\* The user is added to a conversation or brings it back from the archive;
\* no socket is told.
Activate(v) ==
    /\ v \notin active
    /\ active' = active \cup {v}
    /\ changed' = IF On # {} \/ AnyBusy THEN changed \cup {v} ELSE changed
    /\ UNCHANGED <<life, sequences, rooms, joined, inUser, presence, overlapped, failed>>

\* The user leaves, is removed or archives the conversation; no socket is told.
Deactivate(v) ==
    /\ v \in active
    /\ active' = active \ {v}
    /\ changed' = IF On # {} \/ AnyBusy THEN changed \cup {v} ELSE changed
    /\ UNCHANGED <<life, sequences, rooms, joined, inUser, presence, overlapped, failed>>

Step(s) ==
    \/ UpDb(s) \/ UpCache(s) \/ UpJoin(s)
    \/ MainList(s) \/ MainJoin(s)
    \/ DownQuery(s) \/ DownDb(s) \/ DownCache(s) \/ DownEmit(s)

Next ==
    \/ \E s \in Sockets : Connect(s) \/ Disconnect(s) \/ Step(s) \/ Fail(s)
    \/ \E v \in Convs : Activate(v) \/ Deactivate(v)
    \/ CacheExpires

Spec == Init /\ [][Next]_vars

\* An awaited call settles, so a sequence under way goes on until it ends.
FairSpec ==
    /\ Spec
    /\ \A s \in Sockets :
         /\ WF_vars(UpDb(s) \/ UpCache(s) \/ UpJoin(s))
         /\ WF_vars(MainList(s) \/ MainJoin(s))
         /\ WF_vars(DownQuery(s) \/ DownDb(s) \/ DownCache(s) \/ DownEmit(s))

-----------------------------------------------------------------------------
TypeOK ==
    /\ life \in [Sockets -> {"new", "on", "gone"}]
    /\ up \in [Sockets -> {"idle", "db", "cache", "join"}]
    /\ main \in [Sockets -> {"idle", "list", "join"}]
    /\ down \in [Sockets -> {"idle", "query", "db", "cache", "emit"}]
    /\ listed \in [Sockets -> SUBSET Convs]
    /\ rooms \in [Sockets -> SUBSET Convs]
    /\ joined \in [Sockets -> SUBSET Convs]
    /\ inUser \subseteq On
    /\ active \subseteq Convs
    /\ isOnline \in BOOLEAN
    /\ cache \in {"none", "online", "offline"}
    /\ shown \in [Convs -> {"online", "offline"}]
    /\ changed \subseteq Convs
    /\ overlapped \in BOOLEAN /\ failed \in BOOLEAN

Troubled == overlapped \/ failed

\* When nothing is under way, the row, a presence key and the contacts agree
\* with whether the user has a socket, over any number of sockets that come and
\* go, in any order of their steps, provided no arrival overlapped a departure
\* and no sequence failed.  A conversation that changed meanwhile may not have
\* been told.
PresenceSettles ==
    ~AnyBusy /\ ~Troubled =>
        /\ isOnline <=> On # {}
        /\ cache \in {"none", IF On # {} THEN "online" ELSE "offline"}
        /\ \A v \in Convs \ changed : shown[v] = "online" <=> On # {} /\ v \in active

\* A socket that has settled is in the rooms of exactly the conversations that
\* are active for the user, those that changed since excepted.
RoomsSettle ==
    ~failed => \A s \in On : main[s] = "idle" =>
        \A v \in Convs \ changed : v \in rooms[s] <=> v \in active

\* What the sequences of the sockets leave behind is what the sockets are.
SequencesSettle == PresenceSettles /\ RoomsSettle

\* A user whose last socket went away is recorded as offline in the end, unless
\* a socket comes back first, sequences overlap or one fails.
GoneIsRecorded ==
    On = {} ~> ~isOnline \/ On # {} \/ Troubled

-----------------------------------------------------------------------------
(* What the documents say and the code does not do                         *)

\* A connected socket is in the rooms of the user's conversations as they
\* change.
RoomsFollowMembership ==
    ~failed => \A s \in On : main[s] = "idle" => rooms[s] = active

\* A user without a socket is recorded as offline once every sequence ended.
OfflineWhenGone == ~AnyBusy /\ ~failed /\ On = {} => ~isOnline
=============================================================================
