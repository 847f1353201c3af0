------------------------------ MODULE Typing ------------------------------
(***************************************************************************)
(* Typing indicators and the rate limiter of a socket: one user who types  *)
(* in one conversation over one or more connections, and a participant who *)
(* watches.                                                                *)
(*                                                                         *)
(* The tab sends typing:start at most once in its debounce time, the       *)
(* server announces it unless a Redis key says that it has done so, and    *)
(* the watcher's tab hides the indicator by a timer of its own.  Each      *)
(* event of a socket is handled by a call of its own, and each call waits  *)
(* for Redis several times.  Times are what is left of them, in ticks.     *)
(***************************************************************************)
EXTENDS Naturals, Sequences

CONSTANTS
    Sockets,        \* connections of the user; the limiter counts for each
    Calls,          \* slots for events that are being handled
    NoSocket,
    KeyTtl,         \* life of the typing key
    TimerTtl,       \* life of an indicator in the watcher's tab
    Debounce,       \* pause between two typing:start of a tab
    Window,         \* life of a counter
    Limit,          \* events of a tier in a window
    MaxWire         \* bound: indicators on their way to the watcher

\* The kinds of events, and the tiers of the limiter: typing:start has one of its
\* own, typing:stop is counted in that of all events without one, the rest of which
\* are left out.
Kinds == {"start", "stop"}

ASSUME TypingAssumption ==
    /\ {KeyTtl, TimerTtl, Debounce, Window, MaxWire} \subseteq Nat \ {0}
    /\ Limit \in [Kinds -> Nat \ {0}]
    /\ NoSocket \notin Sockets

VARIABLES
    conn,       \* of the user's sockets
    pause,      \* what is left of a tab's debounce timer
    call,       \* events that are being handled
    key,        \* what is left of the typing key, 0 if there is none
    counter,    \* the limiter's keys, by socket and tier
    wire,       \* typing:indicator events on their way to the watcher
    shown,      \* typingUsers of the watcher's tab
    timer,      \* typingTimers of the watcher's tab
    last,       \* history: the last thing the user did
    disturbed,  \* history: it overlapped another, failed, or was not received
    recent,     \* history: events counted that are no older than an age
    stuck,      \* history: sockets with a counter that was left without expiry
    kicked      \* history: sockets the limiter has disconnected

client == <<conn, pause>>
redis == <<key, counter>>
watcher == <<shown, timer>>
limits == <<recent, stuck, kicked>>
typingVars == <<client, call, redis, wire, watcher, last, disturbed, limits>>

NoCall == [pc |-> "idle", kind |-> "start", sock |-> NoSocket]
Never == Window + 1             \* no expiry
NoTimer == TimerTtl + 1
NoCounter == [n |-> 0, ttl |-> Never]
Ages == 0 .. Window - 1         \* of events, in ticks

TypingInit ==
    /\ conn = [s \in Sockets |-> "new"]
    /\ pause = [s \in Sockets |-> 0]
    /\ call = [c \in Calls |-> NoCall]
    /\ key = 0
    /\ counter = [s \in Sockets |-> [k \in Kinds |-> NoCounter]]
    /\ wire = <<>>
    /\ shown = FALSE /\ timer = NoTimer
    /\ last = "stop" /\ disturbed = FALSE
    /\ recent = [s \in Sockets |-> [k \in Kinds |-> [age \in Ages |-> 0]]]
    /\ stuck = {} /\ kicked = {}

Busy == {c \in Calls : call[c].pc # "idle"}
Goto(c, pc) == call' = [call EXCEPT ![c].pc = pc]
Return(c) == call' = [call EXCEPT ![c] = NoCall]

-----------------------------------------------------------------------------
(* The tab of the user                                                     *)

Connect(s) ==
    /\ conn[s] = "new"
    /\ conn' = [conn EXCEPT ![s] = "up"]
    /\ UNCHANGED <<pause, call, redis, wire, watcher, last, disturbed, limits>>

\* A frame reaches the server, whose handler begins.
Emit(s, c, kind) ==
    /\ c \notin Busy
    /\ call' = [call EXCEPT ![c] = [pc |-> "incr", kind |-> kind, sock |-> s]]
    /\ last' = kind
    /\ disturbed' = (Busy # {} \/ (disturbed /\ kind = "start"))

StartTyping(s, c) ==
    /\ conn[s] = "up" /\ pause[s] = 0
    /\ pause' = [pause EXCEPT ![s] = Debounce]
    /\ Emit(s, c, "start")
    /\ UNCHANGED <<conn, redis, wire, watcher, limits>>

\* Sent with every message and on leaving the conversation, typing or not.
StopTyping(s, c) ==
    /\ conn[s] = "up"
    /\ pause' = [pause EXCEPT ![s] = 0]
    /\ Emit(s, c, "stop")
    /\ UNCHANGED <<conn, redis, wire, watcher, limits>>

\* The connection ends; the limiter's keys go with it, and no stop is sent.
Hangup(s) ==
    /\ conn' = [conn EXCEPT ![s] = "gone"]
    /\ pause' = [pause EXCEPT ![s] = 0]

Disconnect(s) ==
    /\ conn[s] = "up"
    /\ Hangup(s)
    /\ counter' = [counter EXCEPT ![s] = [k \in Kinds |-> NoCounter]]
    /\ UNCHANGED <<call, key, wire, watcher, last, disturbed, limits>>

-----------------------------------------------------------------------------
(* checkLimit                                                              *)

AfterLimit == [start |-> "exists", stop |-> "del"]

\* Mutant: the window is renewed by each event.
CheckLimitRenews(c) ==
    LET s == call[c].sock
        k == call[c].kind
        n == counter[s][k].n + 1
    IN  /\ call[c].pc = "incr"
        /\ recent' = [recent EXCEPT ![s][k] = [age \in Ages |-> recent[s][k][age] + 1]]
        /\ \/ /\ n <= Limit[k]
              /\ counter' = [counter EXCEPT ![s][k].n = n]
              /\ Goto(c, "expire")
              /\ UNCHANGED <<client, disturbed, kicked>>
           \/ /\ n > Limit[k]
              /\ counter' = [counter EXCEPT ![s] = [x \in Kinds |-> NoCounter]]
              /\ Hangup(s)
              /\ kicked' = kicked \cup {s}
              /\ disturbed' = TRUE
              /\ Return(c)
    /\ UNCHANGED <<key, wire, watcher, last, stuck>>

\* INCR, which a counter that exceeded its limit answers with a disconnection.
CheckLimit(c) ==
    LET s == call[c].sock
        k == call[c].kind
        n == counter[s][k].n + 1
    IN  /\ call[c].pc = "incr"
        /\ recent' = [recent EXCEPT ![s][k] = [age \in Ages |-> recent[s][k][age] + 1]]
        /\ \/ /\ n <= Limit[k]
              /\ counter' = [counter EXCEPT ![s][k].n = n]
              /\ Goto(c, IF n = 1 THEN "expire" ELSE AfterLimit[k])
              /\ UNCHANGED <<client, disturbed, kicked>>
           \/ /\ n > Limit[k]
              /\ counter' = [counter EXCEPT ![s] = [x \in Kinds |-> NoCounter]]
              /\ Hangup(s)
              /\ kicked' = kicked \cup {s}
              /\ disturbed' = TRUE
              /\ Return(c)
    /\ UNCHANGED <<key, wire, watcher, last, stuck>>

\* EXPIRE, for the first event of a window.
ExpireCounter(c) ==
    LET s == call[c].sock
        k == call[c].kind
    IN  /\ call[c].pc = "expire"
        /\ counter' = [counter EXCEPT ![s][k].ttl = IF counter[s][k].n = 0 THEN Never ELSE Window]
        /\ Goto(c, AfterLimit[k])
    /\ UNCHANGED <<client, key, wire, watcher, last, disturbed, limits>>

-----------------------------------------------------------------------------
(* typing:start and typing:stop                                            *)

FindKey(c) ==
    /\ call[c].pc = "exists"
    /\ Goto(c, IF key > 0 THEN "refresh" ELSE "set")
    /\ UNCHANGED <<client, redis, wire, watcher, last, disturbed, limits>>

\* Already announced: only the key is renewed, if it is still there.
RefreshKey(c) ==
    /\ call[c].pc = "refresh"
    /\ key' = IF key > 0 THEN KeyTtl ELSE 0
    /\ Return(c)
    /\ UNCHANGED <<client, counter, wire, watcher, last, disturbed, limits>>

\* Mutant: the life of the key is given in milliseconds.
SetKeyMillis(c) ==
    /\ call[c].pc = "set"
    /\ key' = IF key > 0 THEN key ELSE 1000 * KeyTtl
    /\ Goto(c, "announce")
    /\ UNCHANGED <<client, counter, wire, watcher, last, disturbed, limits>>

\* SET NX, whose result is not looked at.
SetKey(c) ==
    /\ call[c].pc = "set"
    /\ key' = IF key > 0 THEN key ELSE KeyTtl
    /\ Goto(c, "announce")
    /\ UNCHANGED <<client, counter, wire, watcher, last, disturbed, limits>>

\* Mutant: who has no key has nothing to stop.
DeleteKeyFound(c) ==
    /\ call[c].pc = "del"
    /\ key' = 0
    /\ IF key > 0 THEN Goto(c, "announce") ELSE Return(c)
    /\ UNCHANGED <<client, counter, wire, watcher, last, disturbed, limits>>

DeleteKey(c) ==
    /\ call[c].pc = "del"
    /\ key' = 0
    /\ Goto(c, "announce")
    /\ UNCHANGED <<client, counter, wire, watcher, last, disturbed, limits>>

Announce(c) ==
    /\ call[c].pc = "announce"
    /\ Len(wire) < MaxWire
    /\ wire' = Append(wire, call[c].kind)
    /\ Return(c)
    /\ UNCHANGED <<client, redis, watcher, last, disturbed, limits>>

\* A call to Redis rejects; the handler logs it.
Fail(c) ==
    /\ c \in Busy
    /\ Return(c)
    /\ disturbed' = TRUE
    /\ stuck' = IF call[c].pc = "expire" THEN stuck \cup {call[c].sock} ELSE stuck
    /\ UNCHANGED <<client, redis, wire, watcher, last, recent, kicked>>

-----------------------------------------------------------------------------
(* The tab of the watcher                                                  *)

Hide == shown' = FALSE /\ timer' = NoTimer

\* Mutant: the timer is taken away before it is seen that the user is shown.
SetTypingOnce ==
    /\ shown' = TRUE
    /\ timer' = IF shown THEN NoTimer ELSE TimerTtl

\* setTyping: the timer starts again.
SetTyping == shown' = TRUE /\ timer' = TimerTtl

Receive ==
    /\ wire # <<>>
    /\ wire' = Tail(wire)
    /\ \/ Head(wire) = "start" /\ SetTyping
       \/ Head(wire) = "stop" /\ Hide
    /\ UNCHANGED <<client, call, redis, last, disturbed, limits>>

\* The watcher's socket drops what was on its way.
Lose ==
    /\ wire # <<>>
    /\ wire' = <<>>
    /\ disturbed' = TRUE
    /\ UNCHANGED <<client, call, redis, watcher, last, limits>>

\* The timer of setTyping, however late.
TimerFires ==
    /\ timer = 0
    /\ Hide
    /\ UNCHANGED <<client, call, redis, wire, last, disturbed, limits>>

\* user:presence says that the user is gone: setOffline.
SetOffline ==
    /\ \A s \in Sockets : conn[s] = "gone"
    /\ shown
    /\ Hide
    /\ UNCHANGED <<client, call, redis, wire, last, disturbed, limits>>

-----------------------------------------------------------------------------
Less(n) == IF n = 0 THEN 0 ELSE n - 1

\* Time passes.  EXPIRE follows INCR within a tick.
Tick ==
    /\ \A c \in Calls : call[c].pc # "expire"
    /\ pause' = [s \in Sockets |-> Less(pause[s])]
    /\ key' = Less(key)
    /\ counter' = [s \in Sockets |-> [k \in Kinds |->
          LET this == counter[s][k]
          IN  CASE this.ttl = Never -> this
                [] this.ttl = 1     -> NoCounter
                [] OTHER            -> [this EXCEPT !.ttl = @ - 1]]]
    /\ timer' = IF timer = NoTimer THEN NoTimer ELSE Less(timer)
    /\ recent' = [s \in Sockets |-> [k \in Kinds |-> [age \in Ages |->
          IF age = 0 THEN 0 ELSE recent[s][k][age - 1]]]]
    /\ UNCHANGED <<conn, call, wire, shown, last, disturbed, stuck, kicked>>

Step(c) ==
    \/ CheckLimit(c) \/ ExpireCounter(c)
    \/ FindKey(c) \/ RefreshKey(c) \/ SetKey(c)
    \/ DeleteKey(c) \/ Announce(c) \/ Fail(c)

TypingNext ==
    \/ \E s \in Sockets : Connect(s) \/ Disconnect(s)
    \/ \E s \in Sockets, c \in Calls : StartTyping(s, c) \/ StopTyping(s, c)
    \/ \E c \in Calls : Step(c)
    \/ Receive \/ Lose \/ TimerFires \/ SetOffline \/ Tick

TypingSpec == TypingInit /\ [][TypingNext]_typingVars

\* Calls to Redis settle, events arrive or are lost, timers fire and time passes;
\* nothing is asked of the user.
FairSpec ==
    /\ TypingSpec
    /\ \A c \in Calls : WF_typingVars(Step(c))
    /\ WF_typingVars(Receive \/ Lose) /\ WF_typingVars(TimerFires) /\ WF_typingVars(Tick)

-----------------------------------------------------------------------------
\* Types; the keys of Redis live no longer than they were given.
TypingTypeOK ==
    /\ conn \in [Sockets -> {"new", "up", "gone"}]
    /\ pause \in [Sockets -> 0 .. Debounce]
    /\ call \in [Calls -> [pc : {"idle", "incr", "expire", "exists", "refresh", "set", "del", "announce"},
                           kind : Kinds, sock : Sockets \cup {NoSocket}]]
    /\ key \in 0 .. KeyTtl
    /\ \A s \in Sockets, k \in Kinds :
          counter[s][k] \in [n : 0 .. Limit[k], ttl : 1 .. Never]
    /\ wire \in Seq(Kinds)
    /\ shown \in BOOLEAN /\ timer \in 0 .. NoTimer
    /\ last \in Kinds /\ disturbed \in BOOLEAN
    /\ \A s \in Sockets, k \in Kinds : recent[s][k] \in [Ages -> Nat]
    /\ stuck \subseteq Sockets /\ kicked \subseteq Sockets

\* Once its events are through, a stop that overlapped nothing has taken the
\* indicator away, also where the server's key had gone before the watcher's timer.
StopHides ==
    Busy = {} /\ wire = <<>> /\ last = "stop" /\ ~disturbed => ~shown

\* The limiter disconnects only a socket that has sent more events of a tier than
\* allowed within one window, or one whose counter was left without expiry.
OnlyExcessDisconnects ==
    [][\A s \in kicked' \ kicked :
          \/ \E k \in Kinds : recent'[s][k][Window - 1] > Limit[k]
          \/ s \in stuck]_typingVars

\* Nobody is shown as typing for ever who does not go on typing, although a
\* connection may end without a stop and a stop may be lost or overtaken.
IndicatorEnds ==
    <>[]shown => []<><<\E s \in Sockets, c \in Calls : StartTyping(s, c)>>_typingVars

-----------------------------------------------------------------------------
(* What the documents say and the code does not do                         *)

\* While the key exists, which suppresses further announcements, the watcher is
\* shown what was announced.
KeyIsShown ==
    /\ key > 0 /\ \E s \in Sockets : conn[s] = "up"
    /\ Busy = {} /\ wire = <<>> /\ ~disturbed
    => shown

\* Counters reset after their window.
CountersExpire ==
    \A s \in Sockets, k \in Kinds :
        conn[s] = "up" /\ counter[s][k].n > 0 /\ Busy = {} => counter[s][k].ttl # Never
=============================================================================
