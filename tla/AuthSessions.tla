---------------------------- MODULE AuthSessions ----------------------------
(***************************************************************************)
(* Sessions, refresh-token rotation and the access-token blacklist of the  *)
(* API server: AuthService over SessionRepository (PostgreSQL) and         *)
(* CacheProvider (Redis), and the two middlewares that accept a token.     *)
(*                                                                         *)
(* Every request is a sequence of awaited repository and cache calls; each *)
(* await is a point where other requests, on this or another API instance, *)
(* run.  One action is one awaited call together with the synchronous code *)
(* that follows it.                                                        *)
(*                                                                         *)
(* A session, the JWT that carries its jti and the one refresh token whose *)
(* sessionId is that session are always created together, so one           *)
(* identifier of Sessions names the three.  Time is counted in ticks, with *)
(* Second ticks to a second, so that the rounding of expiries to whole     *)
(* seconds is part of the model.                                           *)
(***************************************************************************)
EXTENDS Integers, FiniteSets

CONSTANTS
    Sessions,    \* identifiers of session rows, JWTs and refresh tokens
    Users,
    Requests,    \* the requests in flight at one time
    NoSession,
    Second,      \* ticks in one second
    AccessTtl,   \* JWT_ACCESS_TOKEN_EXPIRY, in ticks
    RefreshTtl,  \* JWT_REFRESH_TOKEN_EXPIRY, in ticks
    MaxNow       \* bound: the last tick the clock reaches

ASSUME SecondAssumption == Second \in Nat \ {0}
ASSUME AccessTtlAssumption == AccessTtl \in Nat \ {0}
ASSUME RefreshTtlAssumption == RefreshTtl \in Nat \ {0}
ASSUME MaxNowAssumption == MaxNow \in Nat
ASSUME NoSessionAssumption == NoSession \notin Sessions

VARIABLES
    now,         \* the clock of the API instances and of Redis
    session,     \* the JWT and the row of the sessions table
    refresh,     \* the row of the refresh_tokens table
    blacklist,   \* tick at which the key blacklist:<jti> expires, 0 if never set
    issued,      \* sessions whose token pair some client has received
    ended,       \* history: sessions a confirmed revocation covered
    swept,       \* history: sessions revoke-all revoked without having found
    req          \* the requests in flight

vars == <<now, session, refresh, blacklist, issued, ended, swept, req>>

-----------------------------------------------------------------------------
NoJwt == [state |-> "fresh", owner |-> NoSession, parent |-> NoSession,
          exp |-> 0, expiresAt |-> 0]
NoRefresh == [state |-> "none", expiresAt |-> 0]

\* A request slot: what it is doing, for whom, the session of the token it was
\* given, the session it creates, for each session the ttl it has computed for a
\* SETEX not answered yet (0: no such call), and the sessions it found to end.
NoTtl == [s \in Sessions |-> 0]
Idle == [pc |-> "idle", user |-> NoSession, given |-> NoSession,
         made |-> NoSession, ttl |-> NoTtl, found |-> {}]

Pcs == {"idle",
        "createSession", "createRefreshToken", "respond",
        "consume", "findOld", "blacklistOld", "revokeOld", "revokeOldTokens",
        "findUser",
        "exists", "blacklistJti", "revokeJti", "revokeJtiTokens",
        "findAll", "blacklistAll", "revokeAll", "revokeAllTokens", "confirm"}

Init ==
    /\ now = 0
    /\ session = [s \in Sessions |-> NoJwt]
    /\ refresh = [s \in Sessions |-> NoRefresh]
    /\ blacklist = [s \in Sessions |-> 0]
    /\ issued = {}
    /\ ended = {}
    /\ swept = {}
    /\ req = [r \in Requests |-> Idle]

-----------------------------------------------------------------------------
\* Whole seconds: Math.floor and Math.ceil of a duration in ticks.
FloorSecond(t) == t - (t % Second)
CeilSecond(t) == FloorSecond(t + Second - 1)

\* Mutant: the remaining time rounded down.
RemainingTtlFloored(expiresAt) ==
    IF expiresAt > now THEN FloorSecond(expiresAt - now) ELSE 0

\* Mutant: the remaining milliseconds are passed to SETEX as seconds.
RemainingTtlMilliseconds(expiresAt) ==
    IF expiresAt > now THEN (expiresAt - now) * Second ELSE 0

\* calculateRemainingTtl: Math.max(0, Math.ceil(remaining)).
RemainingTtl(expiresAt) ==
    IF expiresAt > now THEN CeilSecond(expiresAt - now) ELSE 0

\* revokeSession: Math.max(0, exp - Math.floor(now)).
RemainingJwtTtl(exp) ==
    IF exp > FloorSecond(now) THEN exp - FloorSecond(now) ELSE 0

\* SETEX blacklist:<jti>: the key lives for the ttl the request computed before
\* the call, from the moment Redis executes it.
SetBlacklist(r, s) ==
    /\ req[r].ttl[s] > 0
    /\ blacklist' = [blacklist EXCEPT ![s] = now + req[r].ttl[s]]

Blacklisted(s) == now < blacklist[s]

\* What both middlewares ask of an access token: a JWT whose exp is in the
\* future and no live blacklist key.  The session row is not consulted.
Accepted(s) == s \in issued /\ now < session[s].exp /\ ~Blacklisted(s)

Stored(s) == session[s].state \in {"active", "revoked"}
Active(s) == session[s].state = "active" /\ session[s].expiresAt > now

Goto(r, pc) == req' = [req EXCEPT ![r].pc = pc]

\* The same, holding the ttls of the SETEX calls to make or still unanswered.
GotoWith(r, pc, ttl) == req' = [req EXCEPT ![r].pc = pc, ![r].ttl = ttl]
Free(r) == req[r].pc = "idle"

\* generateAccessToken and generateRefreshToken: the JWT gets an exp in whole
\* seconds, the row it is stored under one in milliseconds.
Mint(r, s, u, parent) ==
    /\ session[s].state = "fresh"
    /\ session' = [session EXCEPT ![s] =
           [state |-> "minted", owner |-> u, parent |-> parent,
            exp |-> FloorSecond(now) + AccessTtl,
            expiresAt |-> now + AccessTtl]]
    /\ refresh' = [refresh EXCEPT ![s] =
           [state |-> "none", expiresAt |-> now + RefreshTtl]]
    /\ req' = [req EXCEPT ![r].pc = "createSession", ![r].user = u,
                          ![r].made = s]

RevokeRefresh(S) ==
    refresh' = [s \in Sessions |->
        IF s \in S /\ refresh[s].state = "valid"
        THEN [refresh[s] EXCEPT !.state = "revoked"]
        ELSE refresh[s]]

-----------------------------------------------------------------------------
(* POST /auth/login and /auth/register, once the credentials are accepted  *)

Login(r, u) ==
    /\ Free(r)
    /\ \E s \in Sessions : Mint(r, s, u, NoSession)
    /\ UNCHANGED <<now, blacklist, issued, ended, swept>>

CreateSession(r) ==
    /\ req[r].pc = "createSession"
    /\ session' = [session EXCEPT ![req[r].made].state = "active"]
    /\ Goto(r, "createRefreshToken")
    /\ UNCHANGED <<now, refresh, blacklist, issued, ended, swept>>

CreateRefreshToken(r) ==
    /\ req[r].pc = "createRefreshToken"
    /\ refresh' = [refresh EXCEPT ![req[r].made].state = "valid"]
    /\ Goto(r, "respond")
    /\ UNCHANGED <<now, session, blacklist, issued, ended, swept>>

\* The token pair reaches the client.
Respond(r) ==
    /\ req[r].pc = "respond"
    /\ issued' = issued \cup {req[r].made}
    /\ req' = [req EXCEPT ![r] = Idle]
    /\ UNCHANGED <<now, session, refresh, blacklist, ended, swept>>

-----------------------------------------------------------------------------
(* POST /auth/refresh                                                      *)

\* Mutant: the isRevoked check is dropped.
RefreshLookupAnyState(r, s) ==
    /\ Free(r)
    /\ s \in issued
    /\ refresh[s].expiresAt >= now
    /\ req' = [req EXCEPT ![r].pc = "consume", ![r].given = s,
                          ![r].user = session[s].owner]
    /\ UNCHANGED <<now, session, refresh, blacklist, issued, ended, swept>>

\* findRefreshToken and the checks on the row it returned.
RefreshLookup(r, s) ==
    /\ Free(r)
    /\ s \in issued
    /\ refresh[s].state = "valid"
    /\ refresh[s].expiresAt >= now
    /\ req' = [req EXCEPT ![r].pc = "consume", ![r].given = s,
                          ![r].user = session[s].owner]
    /\ UNCHANGED <<now, session, refresh, blacklist, issued, ended, swept>>

RefreshConsume(r) ==
    /\ req[r].pc = "consume"
    /\ refresh' = [refresh EXCEPT ![req[r].given].state = "revoked"]
    /\ Goto(r, "findOld")
    /\ UNCHANGED <<now, session, blacklist, issued, ended, swept>>

\* Mutant: the old access token is not blacklisted.
RefreshFindOldNoBlacklist(r) ==
    /\ req[r].pc = "findOld"
    /\ Goto(r, IF Active(req[r].given) THEN "revokeOld"
                                       ELSE "revokeOldTokens")
    /\ UNCHANGED <<now, session, refresh, blacklist, issued, ended, swept>>

RefreshFindOld(r) ==
    LET old == req[r].given
        ttl == IF Active(old) THEN RemainingTtl(session[old].expiresAt) ELSE 0
        next == IF ~Active(old) THEN "revokeOldTokens"
                ELSE IF ttl > 0 THEN "blacklistOld" ELSE "revokeOld"
    IN  /\ req[r].pc = "findOld"
        /\ GotoWith(r, next, [NoTtl EXCEPT ![old] = ttl])
        /\ UNCHANGED <<now, session, refresh, blacklist, issued, ended, swept>>

RefreshBlacklistOld(r) ==
    /\ req[r].pc = "blacklistOld"
    /\ SetBlacklist(r, req[r].given)
    /\ GotoWith(r, "revokeOld", NoTtl)
    /\ UNCHANGED <<now, session, refresh, issued, ended, swept>>

RefreshRevokeOld(r) ==
    /\ req[r].pc = "revokeOld"
    /\ session' = [session EXCEPT ![req[r].given].state = "revoked"]
    /\ Goto(r, "revokeOldTokens")
    /\ UNCHANGED <<now, refresh, blacklist, issued, ended, swept>>

RefreshRevokeOldTokens(r) ==
    /\ req[r].pc = "revokeOldTokens"
    /\ RevokeRefresh({req[r].given})
    /\ Goto(r, "findUser")
    /\ UNCHANGED <<now, session, blacklist, issued, ended, swept>>

RefreshFindUser(r) ==
    /\ req[r].pc = "findUser"
    /\ \E s \in Sessions : Mint(r, s, req[r].user, req[r].given)
    /\ UNCHANGED <<now, blacklist, issued, ended, swept>>

-----------------------------------------------------------------------------
(* POST /auth/revoke, behind the authentication middleware                 *)

RevokeStart(r, s) ==
    /\ Free(r)
    /\ Accepted(s)
    /\ Stored(s)
    /\ req' = [req EXCEPT ![r].pc = "exists", ![r].given = s,
                          ![r].user = session[s].owner]
    /\ UNCHANGED <<now, session, refresh, blacklist, issued, ended, swept>>

RevokeExists(r) ==
    LET given == req[r].given
        ttl == IF Blacklisted(given) THEN 0
                                     ELSE RemainingJwtTtl(session[given].exp)
    IN  /\ req[r].pc = "exists"
        /\ GotoWith(r, IF ttl > 0 THEN "blacklistJti" ELSE "revokeJti",
                    [NoTtl EXCEPT ![given] = ttl])
        /\ UNCHANGED <<now, session, refresh, blacklist, issued, ended, swept>>

RevokeBlacklist(r) ==
    /\ req[r].pc = "blacklistJti"
    /\ SetBlacklist(r, req[r].given)
    /\ GotoWith(r, "revokeJti", NoTtl)
    /\ UNCHANGED <<now, session, refresh, issued, ended, swept>>

RevokeJti(r) ==
    /\ req[r].pc = "revokeJti"
    /\ session' = [session EXCEPT ![req[r].given].state = "revoked"]
    /\ Goto(r, "revokeJtiTokens")
    /\ UNCHANGED <<now, refresh, blacklist, issued, ended, swept>>

RevokeJtiTokens(r) ==
    /\ req[r].pc = "revokeJtiTokens"
    /\ RevokeRefresh({req[r].given})
    /\ req' = [req EXCEPT ![r].pc = "confirm", ![r].found = {req[r].given}]
    /\ UNCHANGED <<now, session, blacklist, issued, ended, swept>>

-----------------------------------------------------------------------------
(* POST /auth/revoke-all, behind the authentication middleware             *)

OwnedBy(u) == {s \in Sessions : Stored(s) /\ session[s].owner = u}

RevokeAllStart(r, s) ==
    /\ Free(r)
    /\ Accepted(s)
    /\ req' = [req EXCEPT ![r].pc = "findAll", ![r].user = session[s].owner]
    /\ UNCHANGED <<now, session, refresh, blacklist, issued, ended, swept>>

RevokeAllFind(r) ==
    LET active == {s \in OwnedBy(req[r].user) : Active(s)}
    IN  /\ req[r].pc = "findAll"
        /\ req' = [req EXCEPT
               ![r].pc = "blacklistAll", ![r].found = active,
               ![r].ttl = [s \in Sessions |->
                   IF s \in active THEN RemainingTtl(session[s].expiresAt)
                                   ELSE 0]]
        /\ UNCHANGED <<now, session, refresh, blacklist, issued, ended, swept>>

\* Promise.all: Redis answers the SETEX calls, whose ttls were all computed when
\* the sessions were found, one by one in any order.
RevokeAllBlacklist(r) ==
    /\ req[r].pc = "blacklistAll"
    /\ \E s \in Sessions :
          /\ SetBlacklist(r, s)
          /\ GotoWith(r, "blacklistAll", [req[r].ttl EXCEPT ![s] = 0])
    /\ UNCHANGED <<now, session, refresh, issued, ended, swept>>

\* Mutant: the UPDATE does not wait for the blacklist writes.
RevokeAllSessionsUnawaited(r) ==
    /\ req[r].pc = "blacklistAll"
    /\ session' = [s \in Sessions |->
          IF s \in OwnedBy(req[r].user)
          THEN [session[s] EXCEPT !.state = "revoked"]
          ELSE session[s]]
    /\ Goto(r, "revokeAllTokens")
    /\ UNCHANGED <<now, refresh, blacklist, issued, ended, swept>>

RevokeAllSessions(r) ==
    /\ req[r].pc = "blacklistAll"
    /\ req[r].ttl = NoTtl
    /\ session' = [s \in Sessions |->
          IF s \in OwnedBy(req[r].user)
          THEN [session[s] EXCEPT !.state = "revoked"]
          ELSE session[s]]
    /\ swept' = swept \cup {s \in OwnedBy(req[r].user) :
                               /\ session[s].state = "active"
                               /\ s \notin req[r].found}
    /\ Goto(r, "revokeAllTokens")
    /\ UNCHANGED <<now, refresh, blacklist, issued, ended>>

RevokeAllTokens(r) ==
    /\ req[r].pc = "revokeAllTokens"
    /\ RevokeRefresh(OwnedBy(req[r].user))
    /\ Goto(r, "confirm")
    /\ UNCHANGED <<now, session, blacklist, issued, ended, swept>>

\* The 200 answer of either revocation reaches the client.
Confirm(r) ==
    /\ req[r].pc = "confirm"
    /\ ended' = ended \cup req[r].found
    /\ req' = [req EXCEPT ![r] = Idle]
    /\ UNCHANGED <<now, session, refresh, blacklist, issued, swept>>

-----------------------------------------------------------------------------
\* A repository or cache call rejects, or the instance stops: the steps already
\* done stay done and the client gets an error.
Abort(r) ==
    /\ ~Free(r)
    /\ req' = [req EXCEPT ![r] = Idle]
    /\ UNCHANGED <<now, session, refresh, blacklist, issued, ended, swept>>

Tick ==
    /\ now < MaxNow
    /\ now' = now + 1
    /\ UNCHANGED <<session, refresh, blacklist, issued, ended, swept, req>>

Handle(r) ==
    \/ \E u \in Users : Login(r, u)
    \/ CreateSession(r) \/ CreateRefreshToken(r) \/ Respond(r)
    \/ \E s \in Sessions : RefreshLookup(r, s)
    \/ RefreshConsume(r) \/ RefreshFindOld(r) \/ RefreshBlacklistOld(r)
    \/ RefreshRevokeOld(r) \/ RefreshRevokeOldTokens(r) \/ RefreshFindUser(r)
    \/ \E s \in Sessions : RevokeStart(r, s)
    \/ RevokeExists(r) \/ RevokeBlacklist(r) \/ RevokeJti(r)
    \/ RevokeJtiTokens(r)
    \/ \E s \in Sessions : RevokeAllStart(r, s)
    \/ RevokeAllFind(r) \/ RevokeAllBlacklist(r) \/ RevokeAllSessions(r)
    \/ RevokeAllTokens(r)
    \/ Confirm(r)
    \/ Abort(r)

Next ==
    \/ \E r \in Requests : Handle(r)
    \/ Tick

Spec == Init /\ [][Next]_vars

-----------------------------------------------------------------------------
Jwts == [state : {"fresh", "minted", "active", "revoked"},
         owner : Users \cup {NoSession}, parent : Sessions \cup {NoSession},
         exp : Nat, expiresAt : Nat]
RefreshTokens == [state : {"none", "valid", "revoked"}, expiresAt : Nat]
MaxTtl == AccessTtl + Second
RequestStates == [pc : Pcs, user : Users \cup {NoSession},
                  given : Sessions \cup {NoSession},
                  made : Sessions \cup {NoSession},
                  ttl : [Sessions -> 0..MaxTtl], found : SUBSET Sessions]

\* Every variable has its type: the rows and keys AuthService reads and writes.
\* No ttl is a second longer than the life of an access token.
TypeOK ==
    /\ now \in Nat
    /\ session \in [Sessions -> Jwts]
    /\ refresh \in [Sessions -> RefreshTokens]
    /\ blacklist \in [Sessions -> Nat]
    /\ issued \subseteq Sessions
    /\ ended \subseteq Sessions
    /\ swept \subseteq Sessions
    /\ req \in [Requests -> RequestStates]

Rotated(s) == \E c \in issued : session[c].parent = s

\* A session that was logged out, that a confirmed revoke-all found, whose row
\* is revoked, or whose refresh token was exchanged for a new pair: its access
\* token is refused from then on, whatever the interleaving of the requests and
\* wherever one of them failed.  The exception the code leaves is a session
\* revoke-all revokes in its UPDATE without having found it in its SELECT.
EndedIsRejected ==
    \A s \in Sessions \ swept :
        (s \in ended \/ session[s].state = "revoked" \/ Rotated(s))
            => ~Accepted(s)

\* A blacklist key, set for a ttl the request computed at an earlier await,
\* outlives the JWT it blocks: Redis never forgets it while the token lives
\* (AuthService keys, "TTL = remaining token expiry").
BlacklistTracksExpiry ==
    \A s \in Sessions : blacklist[s] # 0 => blacklist[s] >= session[s].exp

\* An access token the middlewares have refused is never accepted again: no
\* expiry of a key, overwrite of a key or later request brings it back.
RejectedStaysRejected ==
    [][\A s \in issued : ~Accepted(s) => ~Accepted(s)']_vars

Redeeming(r, s) ==
    /\ req[r].given = s
    /\ req[r].pc \in {"consume", "findOld", "blacklistOld", "revokeOld",
                      "revokeOldTokens", "findUser"}
Spent(s) == refresh[s].state = "revoked" /\ \A r \in Requests : ~Redeeming(r, s)
Children(s) == {c \in Sessions : session[c].parent = s}

\* Once a refresh token is revoked and no request that looked it up earlier is
\* still running, it stays revoked and no further session is made from it.
SpentStaysSpent ==
    [][\A s \in Sessions : Spent(s) => Spent(s)' /\ Children(s)' = Children(s)]_vars

-----------------------------------------------------------------------------
(* The registry this implements                                            *)

Registry == INSTANCE SessionRegistry WITH
    live <- {s \in issued \ swept : Accepted(s)},
    redeemable <- {s \in issued : refresh[s].state = "valid"},
    source <- [s \in Sessions |->
                 IF s \in issued THEN session[s].parent ELSE NoSession]

\* AuthService keeps the registry's promise over any interleaving of requests,
\* failures and expiries: every step issues one pair, whose predecessor has lost
\* both tokens by then, or takes force from tokens, or changes nothing a client
\* could notice.  Sessions of the window of revoke-all count as ended.
ImplementsRegistry == Registry!RegistrySpec

-----------------------------------------------------------------------------
(* What the documents claim and concurrent requests break                  *)

\* "The consumed refresh token is immediately invalidated" (api-reference), it
\* "cannot be reused" (AuthService): one refresh token yields one new pair.
RefreshTokenIsSingleUse ==
    \A c, d \in issued :
        session[c].parent = session[d].parent /\ session[c].parent # NoSession
            => c = d

\* "Revoked tokens are blacklisted in Redis" (README): no access token of a
\* session revoked in the database is accepted.
RevokedIsRejected ==
    \A s \in Sessions : session[s].state = "revoked" => ~Accepted(s)

\* Revoke-all must "invalidate all refresh tokens for the user" (api-reference):
\* a client never holds a valid refresh token of a session a confirmed
\* revocation covered.
EndedHasNoRefreshToken ==
    \A s \in ended \cap issued : refresh[s].state # "valid"

=============================================================================
