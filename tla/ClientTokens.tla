---------------------------- MODULE ClientTokens ----------------------------
(***************************************************************************)
(* One tab of the web client and its token pair: request and               *)
(* refreshAccessToken of api.ts, the tokens of authStore.ts, the login     *)
(* page, and the socket useSocket.ts connects with the access token.       *)
(*                                                                         *)
(* The server is the registry of sessions AuthSessions implements: its     *)
(* part of a refresh is Issue and End steps of the registry.  Several      *)
(* calls are in flight at once; a call that is answered 401 shares one     *)
(* refresh with the others and is repeated once.  A refresh that fails     *)
(* signs the tab out and leaves for the login page, after which the page   *)
(* is unloaded; until then its other calls go on.                          *)
(***************************************************************************)
EXTENDS SessionRegistry

CONSTANTS Calls    \* the calls in flight at one time

ASSUME NoSessionAssumption == NoSession \notin Sessions

VARIABLES
    pair,      \* the tokens of the store, NoSession when they are null
    signedIn,  \* isAuthenticated
    call,      \* the calls of apiClient
    refresh,   \* the one refresh in flight: refreshPromise
    leaving,   \* window.location.href was set
    sock,      \* the socket: its connection and the token it was given
    orphans,   \* refresh tokens of a page that was unloaded, still at the server
    cut,       \* history: refresh tokens whose answer the page did not live to see
    revoked,   \* history: refresh tokens that expired or were revoked elsewhere
    presented, \* history: refresh tokens presented by this tab
    twice      \* history: those presented by it again

store == <<pair, signedIn>>
page == <<call, refresh, leaving>>
history == <<cut, revoked, presented, twice>>
vars == <<registryVars, store, page, sock, orphans, history>>

-----------------------------------------------------------------------------
NoCall == [pc |-> "idle", token |-> NoSession, retry |-> FALSE]
NoRefresh == [pc |-> "idle", given |-> NoSession, made |-> NoSession]
NoSocket == [at |-> "none", token |-> NoSession]
Connecting(t) == [at |-> "connecting", token |-> t]

Refreshing == refresh.pc # "idle"
Waiting == {c \in Calls : call[c].pc = "waiting"}

Init ==
    /\ RegistryInit
    /\ pair = NoSession /\ signedIn = FALSE
    /\ call = [c \in Calls |-> NoCall]
    /\ refresh = NoRefresh
    /\ leaving = FALSE
    /\ sock = NoSocket
    /\ orphans = {} /\ cut = {} /\ revoked = {} /\ presented = {} /\ twice = {}

-----------------------------------------------------------------------------
(* The store and the pages                                                 *)

\* The next identifier of a session: fresh ones are interchangeable.
Fresh == CHOOSE s \in Sessions : s \notin issued

\* A pair whose session is revoked while it is on its way.
RevokedOnTheWay(s) == {t \in {s} : t \notin redeemable'}

\* login of authStore, with the answer of POST /auth/login; the main layout
\* mounts and connects the socket.
Login ==
    /\ ~signedIn
    /\ Sessions # issued
    /\ Issue(Fresh, NoSession)
    /\ pair' = Fresh /\ signedIn' = TRUE
    /\ sock' = Connecting(Fresh)
    /\ revoked' = revoked \cup RevokedOnTheWay(Fresh)
    /\ UNCHANGED <<page, orphans, cut, presented, twice>>

\* logout of authStore, as clearTokens, and the way to the login page: the layout
\* unmounts and destroys the socket.
ClearTokens ==
    /\ pair' = NoSession /\ signedIn' = FALSE
    /\ sock' = NoSocket
    /\ leaving' = TRUE

\* The page is unloaded, on the way to the login page or because the user reloads
\* it, and loaded again: the store comes back from the session storage, nothing
\* else does.  A refresh that is at the server goes on there.
Reload ==
    /\ call' = [c \in Calls |-> NoCall]
    /\ refresh' = NoRefresh
    /\ leaving' = FALSE
    /\ sock' = IF signedIn THEN Connecting(pair) ELSE NoSocket
    /\ orphans' = IF refresh.pc = "sent" THEN orphans \cup {refresh.given} ELSE orphans
    /\ cut' = IF Refreshing THEN cut \cup {refresh.given} ELSE cut
    /\ UNCHANGED <<registryVars, store, revoked, presented, twice>>

-----------------------------------------------------------------------------
(* request and refreshAccessToken                                          *)

Send(c) ==
    /\ signedIn
    /\ call[c].pc = "idle"
    /\ call' = [call EXCEPT ![c] = [pc |-> "sent", token |-> pair, retry |-> FALSE]]
    /\ UNCHANGED <<registryVars, store, refresh, leaving, sock, orphans, history>>

\* The server lets the call pass or not: AuthSessions' Accepted.
Serve(c) ==
    /\ call[c].pc = "sent"
    /\ call' = [call EXCEPT ![c].pc = IF call[c].token \in live THEN "passed" ELSE "401"]
    /\ UNCHANGED <<registryVars, store, refresh, leaving, sock, orphans, history>>

\* A call ends with a result, with an error of the network, or with a 401 that is
\* not its first.
Finish(c) ==
    /\ \/ call[c].pc \in {"sent", "passed"}
       \/ call[c].pc = "401" /\ call[c].retry
    /\ call' = [call EXCEPT ![c] = NoCall]
    /\ UNCHANGED <<registryVars, store, refresh, leaving, sock, orphans, history>>

\* Mutant: every call that is answered 401 starts a refresh of its own, and the
\* last one to start is the one that counts.
RefreshUnshared(c) ==
    /\ call[c].pc = "401" /\ ~call[c].retry
    /\ pair # NoSession
    /\ call' = [call EXCEPT ![c].pc = "waiting"]
    /\ refresh' = [NoRefresh EXCEPT !.pc = "sent", !.given = pair]
    /\ presented' = presented \cup {pair}
    /\ twice' = IF pair \in presented THEN twice \cup {pair} ELSE twice
    /\ UNCHANGED <<registryVars, store, leaving, sock, orphans, cut, revoked>>

\* The first call that is answered 401 presents the refresh token of the store;
\* the others wait for the same answer.
Refresh(c) ==
    /\ call[c].pc = "401" /\ ~call[c].retry
    /\ Refreshing \/ pair # NoSession
    /\ call' = [call EXCEPT ![c].pc = "waiting"]
    /\ IF Refreshing THEN UNCHANGED <<refresh, presented, twice>>
       ELSE /\ refresh' = [NoRefresh EXCEPT !.pc = "sent", !.given = pair]
            /\ presented' = presented \cup {pair}
            /\ twice' = IF pair \in presented THEN twice \cup {pair} ELSE twice
    /\ UNCHANGED <<registryVars, store, leaving, sock, orphans, cut, revoked>>

\* There is no refresh token: the call signs out and fails.
RefreshWithout(c) ==
    /\ call[c].pc = "401" /\ ~call[c].retry
    /\ ~Refreshing /\ pair = NoSession
    /\ call' = [call EXCEPT ![c] = NoCall]
    /\ ClearTokens
    /\ UNCHANGED <<registryVars, refresh, orphans, history>>

\* Mutant: the body of an answer is stored without a look at response.ok.
RefreshDoneUnlooked ==
    /\ refresh.pc \in {"answered", "rejected"}
    /\ pair' = refresh.made
    /\ call' = [c \in Calls |-> IF c \in Waiting
                  THEN [call[c] EXCEPT !.pc = "sent", !.token = refresh.made, !.retry = TRUE]
                  ELSE call[c]]
    /\ refresh' = NoRefresh
    /\ UNCHANGED <<registryVars, signedIn, leaving, sock, orphans, history>>

\* Mutant: the answer of the refresh is returned and not stored.
RefreshDoneUnstored ==
    /\ refresh.pc = "answered"
    /\ call' = [c \in Calls |-> IF c \in Waiting
                  THEN [call[c] EXCEPT !.pc = "sent", !.token = refresh.made, !.retry = TRUE]
                  ELSE call[c]]
    /\ refresh' = NoRefresh
    /\ UNCHANGED <<registryVars, store, leaving, sock, orphans, history>>

\* Mutant: only one of the waiting calls is woken.
RefreshDoneOneCall ==
    /\ refresh.pc = "answered"
    /\ pair' = refresh.made
    /\ \E c \in Waiting : call' = [call EXCEPT ![c] =
          [pc |-> "sent", token |-> refresh.made, retry |-> TRUE]]
    /\ refresh' = NoRefresh
    /\ UNCHANGED <<registryVars, signedIn, leaving, sock, orphans, history>>

\* The new pair is stored, and the waiting calls are sent again with it.
RefreshDone ==
    /\ refresh.pc = "answered"
    /\ pair' = refresh.made
    /\ call' = [c \in Calls |-> IF c \in Waiting
                  THEN [call[c] EXCEPT !.pc = "sent", !.token = refresh.made, !.retry = TRUE]
                  ELSE call[c]]
    /\ refresh' = NoRefresh
    /\ UNCHANGED <<registryVars, signedIn, leaving, sock, orphans, history>>

\* The server refuses, or the connection breaks while the server goes on: the
\* waiting calls sign out and fail.
RefreshFails ==
    /\ refresh.pc \in {"sent", "consumed", "rotated", "rejected"}
    /\ call' = [c \in Calls |-> IF c \in Waiting THEN NoCall ELSE call[c]]
    /\ ClearTokens
    /\ refresh' = NoRefresh
    /\ UNCHANGED <<registryVars, orphans, history>>

-----------------------------------------------------------------------------
(* The server's part of a refresh                                          *)

RefreshConsume ==
    /\ refresh.pc = "sent"
    /\ IF refresh.given \in redeemable
       THEN End({}, {refresh.given}) /\ refresh' = [refresh EXCEPT !.pc = "consumed"]
       ELSE UNCHANGED registryVars /\ refresh' = [refresh EXCEPT !.pc = "rejected"]
    /\ UNCHANGED <<store, call, leaving, sock, orphans, history>>

RefreshRotate ==
    /\ refresh.pc = "consumed"
    /\ End({refresh.given}, {})
    /\ refresh' = [refresh EXCEPT !.pc = "rotated"]
    /\ UNCHANGED <<store, call, leaving, sock, orphans, history>>

RefreshIssue ==
    /\ refresh.pc = "rotated"
    /\ Sessions # issued
    /\ Issue(Fresh, refresh.given)
    /\ refresh' = [refresh EXCEPT !.pc = "answered", !.made = Fresh]
    /\ revoked' = revoked \cup RevokedOnTheWay(Fresh)
    /\ UNCHANGED <<store, call, leaving, sock, orphans, cut, presented, twice>>

\* A refresh nobody waits for any more: its pair reaches no client.
OrphanConsume(t) ==
    /\ t \in orphans
    /\ orphans' = orphans \ {t}
    /\ End({t}, {t})
    /\ UNCHANGED <<store, page, sock, history>>

\* A token expires, or its session is revoked from another device.
Expire(s) ==
    /\ s \in live /\ End({s}, {})
    /\ UNCHANGED <<store, page, sock, orphans, history>>

RevokeElsewhere(s) ==
    /\ s \in redeemable /\ End({s}, {s})
    /\ revoked' = revoked \cup {s}
    /\ UNCHANGED <<store, page, sock, orphans, cut, presented, twice>>

-----------------------------------------------------------------------------
(* The socket                                                              *)

\* The handshake, the first or a later one, with the token the socket was given
\* when the tab signed in.
Handshake ==
    /\ sock.at \in {"connecting", "reconnecting"}
    /\ sock' = [sock EXCEPT !.at = IF sock.token \in live THEN "up" ELSE "refused"]
    /\ UNCHANGED <<registryVars, store, page, orphans, history>>

\* The connection breaks, and Socket.IO tries again by itself, MAX_RECONNECT_ATTEMPTS
\* times.
Drop ==
    /\ sock.at = "up"
    /\ sock' = [sock EXCEPT !.at = "reconnecting"]
    /\ UNCHANGED <<registryVars, store, page, orphans, history>>

GiveUp ==
    /\ sock.at \in {"connecting", "reconnecting"}
    /\ sock' = [sock EXCEPT !.at = "gave up"]
    /\ UNCHANGED <<registryVars, store, page, orphans, history>>

-----------------------------------------------------------------------------
Call(c) == Send(c) \/ Serve(c) \/ Finish(c) \/ Refresh(c) \/ RefreshWithout(c)

RefreshStep ==
    \/ RefreshDone \/ RefreshFails
    \/ RefreshConsume \/ RefreshRotate \/ RefreshIssue

Next ==
    \/ Login
    \/ \E s \in Sessions : Expire(s) \/ RevokeElsewhere(s) \/ OrphanConsume(s)
    \/ \E c \in Calls : Call(c)
    \/ RefreshStep
    \/ Reload
    \/ Handshake \/ Drop \/ GiveUp

Spec == Init /\ [][Next]_vars

\* A fetch settles and its continuation runs; a page that is being left is left.
Fairness ==
    /\ \A c \in Calls :
          WF_vars(Serve(c) \/ Finish(c) \/ Refresh(c) \/ RefreshWithout(c))
    /\ WF_vars(RefreshStep)
    /\ WF_vars(leaving /\ Reload)
    /\ WF_vars(Handshake)

FairSpec == Spec /\ Fairness

-----------------------------------------------------------------------------
Tokens == Sessions \cup {NoSession}
Places == {"none", "connecting", "up", "reconnecting", "refused", "gave up"}

TypesOK ==
    /\ issued \subseteq Sessions /\ live \subseteq issued /\ redeemable \subseteq issued
    /\ source \in [Sessions -> Tokens]
    /\ pair \in Tokens /\ signedIn \in BOOLEAN
    /\ call \in [Calls -> [pc : {"idle", "sent", "passed", "401", "waiting"},
                           token : Tokens, retry : BOOLEAN]]
    /\ refresh \in [pc : {"idle", "sent", "consumed", "rotated", "answered", "rejected"},
                    given : Tokens, made : Tokens]
    /\ leaving \in BOOLEAN
    /\ sock \in [at : Places, token : Tokens]
    /\ \A S \in {orphans, cut, revoked, presented, twice} : S \subseteq Sessions

\* Every variable has its type, and the store is signed in when it holds a pair and
\* only then.
TypeOK == TypesOK /\ (signedIn <=> pair # NoSession)

\* The tab never locks itself out: while no refresh is in flight, the refresh token
\* of the store can be exchanged, unless the session was ended from elsewhere or
\* the page was unloaded while it was exchanging this very token.
PairIsRedeemable ==
    pair # NoSession /\ ~Refreshing /\ pair \notin revoked \cup cut
        => pair \in redeemable

\* The tab presents each refresh token once, so that the server's race between two
\* exchanges of one token needs a page that was unloaded during the first.
PresentedOnce == twice \subseteq cut

\* The shared refresh does the tab no harm.
RefreshKeepsSession == PairIsRedeemable /\ PresentedOnce

\* No call waits for ever, whatever becomes of the refresh it shares.
CallsSettle == \A c \in Calls : call[c].pc # "idle" ~> call[c].pc = "idle"

-----------------------------------------------------------------------------
(* What the documents say and the code does not do                         *)

\* The connection is up and outlived the pair it was made with, which a refresh
\* has exchanged for the one in the store.
UpWithOldToken == sock.at = "up" /\ signedIn /\ sock.token # pair

\* "Reconnect with the new access token in the auth option" (websocket-events): when
\* a connection that outlived a refresh drops, the socket comes back up, as long as
\* the tab stays signed in with an access token the server accepts and Socket.IO
\* does not give up.
SocketComesBack ==
    [](UpWithOldToken => [](sock.at = "reconnecting" =>
        <>(\/ sock.at \in {"up", "none", "connecting", "gave up"}
           \/ ~signedIn \/ pair \notin live)))
=============================================================================
