------------------------- MODULE AuthSessionsProofs -------------------------
(***************************************************************************)
(* Proofs about AuthSessions, for any number of sessions, users and        *)
(* requests in flight and any token lifetimes: type correctness, that a    *)
(* blacklist key covers the life of its token, that an ended session's     *)
(* token is refused and a refused one never accepted again, that a refresh *)
(* token that was exchanged stays spent, and that AuthSessions implements  *)
(* SessionRegistry.                                                        *)
(***************************************************************************)
EXTENDS AuthSessions, TLAPS

\* Rounding down to a second loses less than a second.
LEMMA FloorSecondBounds ==
    ASSUME NEW t \in Nat
    PROVE  /\ FloorSecond(t) \in Nat
           /\ FloorSecond(t) <= t
           /\ t < FloorSecond(t) + Second
<1>1. t % Second \in 0..(Second - 1)
  BY SecondAssumption
<1>2. t % Second <= t
  BY SecondAssumption
<1>. QED  BY <1>1, <1>2, SecondAssumption DEF FloorSecond

\* Rounding up to a second adds less than a second.
LEMMA CeilSecondBounds ==
    ASSUME NEW t \in Nat
    PROVE  /\ CeilSecond(t) \in Nat
           /\ t <= CeilSecond(t)
           /\ CeilSecond(t) < t + Second
<1>1. t + Second - 1 \in Nat
  BY SecondAssumption
<1>2. /\ FloorSecond(t + Second - 1) \in Nat
      /\ FloorSecond(t + Second - 1) <= t + Second - 1
      /\ t + Second - 1 < FloorSecond(t + Second - 1) + Second
  BY <1>1, FloorSecondBounds
<1>. QED  BY <1>2, SecondAssumption DEF CeilSecond

\* calculateRemainingTtl reaches the expiry and passes it by less than a second.
LEMMA RemainingTtlBounds ==
    ASSUME now \in Nat, NEW e \in Nat
    PROVE  /\ RemainingTtl(e) \in Nat
           /\ RemainingTtl(e) = 0 => e <= now
           /\ RemainingTtl(e) > 0 => /\ e <= now + RemainingTtl(e)
                                     /\ now + RemainingTtl(e) < e + Second
<1>1. CASE e > now
  <2>1. e - now \in Nat /\ e - now > 0
    BY <1>1
  <2>2. /\ CeilSecond(e - now) \in Nat
        /\ e - now <= CeilSecond(e - now)
        /\ CeilSecond(e - now) < (e - now) + Second
    BY <2>1, CeilSecondBounds
  <2>. QED  BY <1>1, <2>1, <2>2, SecondAssumption DEF RemainingTtl
<1>2. CASE ~(e > now)
  BY <1>2 DEF RemainingTtl
<1>. QED  BY <1>1, <1>2

\* The ttl revokeSession computes reaches the exp of the JWT.
LEMMA RemainingJwtTtlBounds ==
    ASSUME now \in Nat, NEW e \in Nat
    PROVE  /\ RemainingJwtTtl(e) \in Nat
           /\ RemainingJwtTtl(e) = 0 => e <= now
           /\ RemainingJwtTtl(e) > 0 => /\ e <= now + RemainingJwtTtl(e)
                                        /\ now + RemainingJwtTtl(e) < e + Second
<1>1. /\ FloorSecond(now) \in Nat
      /\ FloorSecond(now) <= now
      /\ now < FloorSecond(now) + Second
  BY FloorSecondBounds
<1>. QED  BY <1>1, SecondAssumption DEF RemainingJwtTtl

-----------------------------------------------------------------------------
(* Type correctness                                                        *)

\* A minted JWT and its refresh token have their types.
LEMMA MintType ==
    ASSUME TypeOK, NEW r \in Requests, NEW s \in Sessions,
           NEW u \in Users \cup {NoSession},
           NEW parent \in Sessions \cup {NoSession}, Mint(r, s, u, parent)
    PROVE  /\ session' \in [Sessions -> Jwts]
           /\ refresh' \in [Sessions -> RefreshTokens]
           /\ req' \in [Requests -> RequestStates]
<1>1. now \in Nat /\ FloorSecond(now) + AccessTtl \in Nat
      /\ now + AccessTtl \in Nat /\ now + RefreshTtl \in Nat
  BY FloorSecondBounds, AccessTtlAssumption, RefreshTtlAssumption DEF TypeOK
<1>2. session' \in [Sessions -> Jwts]
  <2>1. [state |-> "minted", owner |-> u, parent |-> parent,
         exp |-> FloorSecond(now) + AccessTtl, expiresAt |-> now + AccessTtl]
            \in Jwts
    BY <1>1 DEF Jwts
  <2>. QED  BY <2>1 DEF TypeOK, Mint
<1>3. refresh' \in [Sessions -> RefreshTokens]
  BY <1>1 DEF TypeOK, Mint, RefreshTokens
<1>4. [req[r] EXCEPT !.pc = "createSession", !.user = u, !.made = s]
         \in RequestStates
  BY ZenonT(60) DEF TypeOK, RequestStates, Pcs
<1>5. req' \in [Requests -> RequestStates]
  BY <1>4 DEF TypeOK, Mint
<1>. QED  BY <1>2, <1>3, <1>5

\* A blacklist write keeps the expiries of the keys natural numbers.
LEMMA SetBlacklistType ==
    ASSUME TypeOK, NEW r \in Requests, NEW s \in Sessions, SetBlacklist(r, s)
    PROVE  blacklist' \in [Sessions -> Nat]
<1>1. MaxTtl \in Nat
  BY AccessTtlAssumption, SecondAssumption DEF MaxTtl
<1>2. now + req[r].ttl[s] \in Nat
  BY <1>1 DEF TypeOK, RequestStates
<1>. QED  BY <1>2 DEF TypeOK, SetBlacklist

\* Each request that presents a token holds one of Sessions.
GivenPcs == {"consume", "findOld", "blacklistOld", "revokeOld",
             "revokeOldTokens", "findUser", "exists", "blacklistJti",
             "revokeJti", "revokeJtiTokens"}
MadePcs == {"createSession", "createRefreshToken", "respond"}
HoldsToken ==
    \A r \in Requests :
        /\ req[r].pc \in GivenPcs => req[r].given \in Sessions
        /\ req[r].pc \in MadePcs => req[r].made \in Sessions
Shaped == TypeOK /\ HoldsToken

\* No token expires later than its life from now.
ExpiriesOK ==
    \A s \in Sessions : /\ session[s].exp <= now + AccessTtl
                        /\ session[s].expiresAt <= now + AccessTtl
Typed == Shaped /\ ExpiriesOK

\* The ttls computed for a session are none a second longer than a token's life.
LEMMA TtlTypes ==
    ASSUME Typed, NEW s \in Sessions
    PROVE  /\ RemainingTtl(session[s].expiresAt) \in 0..MaxTtl
           /\ RemainingJwtTtl(session[s].exp) \in 0..MaxTtl
<1>1. /\ now \in Nat /\ session[s].exp \in Nat /\ session[s].expiresAt \in Nat
      /\ session[s].exp <= now + AccessTtl
      /\ session[s].expiresAt <= now + AccessTtl
      /\ AccessTtl \in Nat /\ Second \in Nat
  BY AccessTtlAssumption, SecondAssumption
     DEF Typed, Shaped, TypeOK, Jwts, ExpiriesOK
<1>2. RemainingTtl(session[s].expiresAt) \in 0..MaxTtl
  BY <1>1, RemainingTtlBounds DEF MaxTtl
<1>3. RemainingJwtTtl(session[s].exp) \in 0..MaxTtl
  BY <1>1, RemainingJwtTtlBounds DEF MaxTtl
<1>. QED  BY <1>2, <1>3

\* No call pending is a typed set of ttls, and one ttl more keeps it typed.
LEMMA NoTtlType ==
    /\ NoTtl \in [Sessions -> 0..MaxTtl]
    /\ \A ttl \in 0..MaxTtl, s \in Sessions :
          [NoTtl EXCEPT ![s] = ttl] \in [Sessions -> 0..MaxTtl]
<1>1. MaxTtl \in Nat
  BY AccessTtlAssumption, SecondAssumption DEF MaxTtl
<1>. QED  BY <1>1 DEF NoTtl

\* Moving a request on keeps the slots typed.
LEMMA GotoTyped ==
    ASSUME Shaped, NEW r \in Requests, NEW pc \in Pcs, Goto(r, pc),
           pc \in GivenPcs => req[r].given \in Sessions,
           pc \in MadePcs => req[r].made \in Sessions
    PROVE  req' \in [Requests -> RequestStates] /\ HoldsToken'
BY DEF Shaped, TypeOK, HoldsToken, Goto, RequestStates

\* So does moving it on with other ttls.
LEMMA GotoWithTyped ==
    ASSUME Shaped, NEW r \in Requests, NEW pc \in Pcs,
           NEW ttl \in [Sessions -> 0..MaxTtl], GotoWith(r, pc, ttl),
           pc \in GivenPcs => req[r].given \in Sessions,
           pc \in MadePcs => req[r].made \in Sessions
    PROVE  req' \in [Requests -> RequestStates] /\ HoldsToken'
<1>1. [req[r] EXCEPT !.pc = pc, !.ttl = ttl] \in RequestStates
  BY DEF Shaped, TypeOK, RequestStates
<1>2. req' \in [Requests -> RequestStates]
  BY <1>1 DEF Shaped, TypeOK, GotoWith
<1>3. /\ \A q \in Requests \ {r} : req'[q] = req[q]
      /\ req'[r].pc = pc /\ req'[r].given = req[r].given
      /\ req'[r].made = req[r].made
  BY DEF Shaped, TypeOK, RequestStates, GotoWith
<1>. QED  BY <1>2, <1>3 DEF Shaped, HoldsToken

\* Revoking any set of refresh tokens keeps their rows typed.
LEMMA RevokeRefreshType ==
    ASSUME TypeOK, NEW S \in SUBSET Sessions, RevokeRefresh(S)
    PROVE  refresh' \in [Sessions -> RefreshTokens]
<1>1. ASSUME NEW s \in Sessions
      PROVE  [refresh[s] EXCEPT !.state = "revoked"] \in RefreshTokens
  BY DEF TypeOK, RefreshTokens
<1>. QED  BY <1>1 DEF TypeOK, RevokeRefresh

\* A session row that changes its state stays a session row.
LEMMA RowType ==
    ASSUME TypeOK, NEW s \in Sessions, NEW st \in {"active", "revoked"}
    PROVE  [session[s] EXCEPT !.state = st] \in Jwts
BY DEF TypeOK, Jwts

\* The initial state is typed.
LEMMA TypedInit == Init => Typed
<1>. SUFFICES ASSUME Init PROVE Typed
  OBVIOUS
<1>1. NoJwt \in Jwts /\ NoRefresh \in RefreshTokens /\ Idle \in RequestStates
  BY NoTtlType DEF NoJwt, Jwts, NoRefresh, RefreshTokens, Idle, RequestStates, Pcs
<1>2. TypeOK
  BY <1>1 DEF Init, TypeOK
<1>3. HoldsToken
  BY DEF Init, HoldsToken, Idle, GivenPcs, MadePcs
<1>4. ExpiriesOK
  BY AccessTtlAssumption DEF Init, ExpiriesOK, NoJwt
<1>. QED  BY <1>2, <1>3, <1>4 DEF Typed, Shaped

\* Every step, of whichever request, keeps the rows, keys and slots typed.
LEMMA ShapedNext == Typed /\ [Next]_vars => Shaped'
<1>. SUFFICES ASSUME Typed, [Next]_vars PROVE Shaped'
  OBVIOUS
<1>a. Shaped /\ TypeOK /\ HoldsToken
  BY DEF Typed, Shaped
<1>b. Idle \in RequestStates /\ Idle.pc = "idle"
  BY NoTtlType DEF Idle, RequestStates, Pcs
<1>1. ASSUME NEW r \in Requests, NEW u \in Users, Login(r, u)
      PROVE  Shaped'
  <2>1. PICK s \in Sessions : Mint(r, s, u, NoSession)
    BY <1>1 DEF Login
  <2>2. TypeOK'
    BY <1>a, <1>1, <2>1, MintType DEF Login, TypeOK
  <2>3. HoldsToken'
    BY <1>a, <2>1 DEF TypeOK, HoldsToken, Mint, GivenPcs, MadePcs, RequestStates
  <2>. QED  BY <2>2, <2>3 DEF Shaped
<1>2. ASSUME NEW r \in Requests, RefreshFindUser(r)
      PROVE  Shaped'
  <2>0. /\ req[r].pc = "findUser" /\ req[r].given \in Sessions
        /\ req[r].user \in Users \cup {NoSession}
    BY <1>a, <1>2 DEF RefreshFindUser, HoldsToken, GivenPcs, TypeOK, RequestStates
  <2>1. PICK s \in Sessions : Mint(r, s, req[r].user, req[r].given)
    BY <1>2 DEF RefreshFindUser
  <2>2. TypeOK'
    BY <1>a, <1>2, <2>0, <2>1, MintType DEF RefreshFindUser, TypeOK
  <2>3. HoldsToken'
    BY <1>a, <2>1 DEF TypeOK, HoldsToken, Mint, GivenPcs, MadePcs, RequestStates
  <2>. QED  BY <2>2, <2>3 DEF Shaped
<1>3. ASSUME NEW r \in Requests, CreateSession(r) \/ CreateRefreshToken(r)
      PROVE  Shaped'
  <2>1. req[r].made \in Sessions
    BY <1>a, <1>3 DEF CreateSession, CreateRefreshToken, HoldsToken, MadePcs
  <2>2. CASE CreateSession(r)
    <3>1. session' \in [Sessions -> Jwts]
      BY <1>a, <2>1, <2>2, RowType DEF CreateSession, TypeOK
    <3>2. req' \in [Requests -> RequestStates] /\ HoldsToken'
      BY <1>a, <2>1, <2>2, GotoTyped DEF CreateSession, Pcs, GivenPcs, MadePcs
    <3>. QED  BY <1>a, <2>2, <3>1, <3>2 DEF CreateSession, Shaped, TypeOK
  <2>3. CASE CreateRefreshToken(r)
    <3>1. refresh' \in [Sessions -> RefreshTokens]
      BY <1>a, <2>1, <2>3 DEF CreateRefreshToken, TypeOK, RefreshTokens
    <3>2. req' \in [Requests -> RequestStates] /\ HoldsToken'
      BY <1>a, <2>1, <2>3, GotoTyped DEF CreateRefreshToken, Pcs, GivenPcs, MadePcs
    <3>. QED  BY <1>a, <2>3, <3>1, <3>2 DEF CreateRefreshToken, Shaped, TypeOK
  <2>. QED  BY <1>3, <2>2, <2>3
<1>4. ASSUME NEW r \in Requests, Respond(r) \/ Confirm(r) \/ Abort(r)
      PROVE  Shaped'
  <2>1. req' = [req EXCEPT ![r] = Idle]
    BY <1>4 DEF Respond, Confirm, Abort
  <2>2. req' \in [Requests -> RequestStates]
    BY <1>a, <1>b, <2>1 DEF TypeOK
  <2>3. HoldsToken'
    BY <1>a, <1>b, <2>1 DEF TypeOK, HoldsToken, GivenPcs, MadePcs
  <2>4. issued' \subseteq Sessions /\ ended' \subseteq Sessions
    BY <1>a, <1>4 DEF Respond, Confirm, Abort, TypeOK, RequestStates, HoldsToken,
       MadePcs
  <2>. QED
    BY <1>a, <1>4, <2>2, <2>3, <2>4 DEF Respond, Confirm, Abort, Shaped, TypeOK
<1>5. ASSUME NEW r \in Requests, NEW s \in Sessions,
             RefreshLookup(r, s) \/ RevokeStart(r, s) \/ RevokeAllStart(r, s)
      PROVE  Shaped'
  <2>1. session[s].owner \in Users \cup {NoSession}
    BY <1>a DEF TypeOK, Jwts
  <2>2. PICK pc \in {"consume", "exists", "findAll"},
             g \in Sessions \cup {NoSession}, u \in Users \cup {NoSession} :
            /\ req' = [req EXCEPT ![r] =
                         [req[r] EXCEPT !.pc = pc, !.given = g, !.user = u]]
            /\ pc # "findAll" => g = s
    <3>1. CASE RefreshLookup(r, s)
      BY <1>a, <2>1, <3>1 DEF RefreshLookup, TypeOK
    <3>2. CASE RevokeStart(r, s)
      BY <1>a, <2>1, <3>2 DEF RevokeStart, TypeOK
    <3>3. CASE RevokeAllStart(r, s)
      <4>1. [req[r] EXCEPT !.pc = "findAll", !.user = session[s].owner]
               = [req[r] EXCEPT !.pc = "findAll", !.given = req[r].given,
                                !.user = session[s].owner]
        BY <1>a DEF TypeOK, RequestStates
      <4>2. req[r].given \in Sessions \cup {NoSession}
        BY <1>a DEF TypeOK, RequestStates
      <4>3. req' = [req EXCEPT ![r] =
                      [req[r] EXCEPT !.pc = "findAll", !.user = session[s].owner]]
        BY <1>a, <3>3 DEF RevokeAllStart, TypeOK
      <4>4. req' = [req EXCEPT ![r] =
                      [req[r] EXCEPT !.pc = "findAll", !.given = req[r].given,
                                     !.user = session[s].owner]]
        BY <4>1, <4>3
      <4>. QED  BY <2>1, <4>2, <4>4
    <3>. QED  BY <1>5, <3>1, <3>2, <3>3
  <2>3. [req[r] EXCEPT !.pc = pc, !.given = g, !.user = u] \in RequestStates
    BY ZenonT(60), <1>a DEF TypeOK, RequestStates, Pcs
  <2>4. req' \in [Requests -> RequestStates]
    BY <1>a, <2>2, <2>3 DEF TypeOK
  <2>5. /\ req'[r].pc = pc /\ req'[r].given = g
        /\ \A q \in Requests \ {r} : req'[q] = req[q]
    BY <1>a, <2>2 DEF TypeOK, RequestStates
  <2>6. HoldsToken'
    BY <1>a, <2>2, <2>5 DEF HoldsToken, GivenPcs, MadePcs
  <2>. QED
    BY <1>a, <1>5, <2>4, <2>6 DEF RefreshLookup, RevokeStart, RevokeAllStart,
       Shaped, TypeOK
<1>6. ASSUME NEW r \in Requests, RefreshConsume(r) \/ RefreshRevokeOldTokens(r)
      PROVE  Shaped'
  <2>1. req[r].given \in Sessions
    BY <1>a, <1>6 DEF RefreshConsume, RefreshRevokeOldTokens, HoldsToken, GivenPcs
  <2>2. refresh' \in [Sessions -> RefreshTokens]
    BY SMTT(30), <1>a, <1>6, <2>1, RevokeRefreshType DEF RefreshConsume,
       RefreshRevokeOldTokens, TypeOK, RefreshTokens
  <2>3. req' \in [Requests -> RequestStates] /\ HoldsToken'
    BY <1>a, <1>6, <2>1, GotoTyped DEF RefreshConsume, RefreshRevokeOldTokens, Pcs,
       GivenPcs, MadePcs
  <2>. QED
    BY <1>a, <1>6, <2>2, <2>3 DEF RefreshConsume, RefreshRevokeOldTokens, Shaped,
       TypeOK
<1>7. ASSUME NEW r \in Requests, RefreshFindOld(r) \/ RevokeExists(r)
      PROVE  Shaped'
  <2>1. req[r].given \in Sessions
    BY <1>a, <1>7 DEF RefreshFindOld, RevokeExists, HoldsToken, GivenPcs
  <2>2. PICK pc \in {"blacklistOld", "revokeOld", "revokeOldTokens", "revokeJti",
                     "blacklistJti"}, ttl \in 0..MaxTtl :
            GotoWith(r, pc, [NoTtl EXCEPT ![req[r].given] = ttl])
    <3>1. 0 \in 0..MaxTtl
      BY AccessTtlAssumption, SecondAssumption DEF MaxTtl
    <3>2. CASE RefreshFindOld(r)
      BY <2>1, <3>1, <3>2, TtlTypes DEF RefreshFindOld
    <3>3. CASE RevokeExists(r)
      BY <2>1, <3>1, <3>3, TtlTypes DEF RevokeExists
    <3>. QED  BY <1>7, <3>2, <3>3
  <2>3. PICK calls \in [Sessions -> 0..MaxTtl] :
            calls = [NoTtl EXCEPT ![req[r].given] = ttl]
    BY <2>1, NoTtlType
  <2>4. GotoWith(r, pc, calls)
    BY <2>2, <2>3
  <2>5. req' \in [Requests -> RequestStates] /\ HoldsToken'
    BY <1>a, <2>1, <2>4, GotoWithTyped DEF Pcs, GivenPcs, MadePcs
  <2>. QED
    BY <1>a, <1>7, <2>5 DEF RefreshFindOld, RevokeExists, Shaped, TypeOK
<1>8. ASSUME NEW r \in Requests, RefreshBlacklistOld(r)
      PROVE  Shaped'
  <2>1. req[r].given \in Sessions
    BY <1>a, <1>8 DEF RefreshBlacklistOld, HoldsToken, GivenPcs
  <2>3. blacklist' \in [Sessions -> Nat]
    BY <1>a, <1>8, <2>1, SetBlacklistType DEF RefreshBlacklistOld
  <2>4. req' \in [Requests -> RequestStates] /\ HoldsToken'
    BY <1>a, <1>8, <2>1, NoTtlType, GotoWithTyped DEF RefreshBlacklistOld, Pcs, GivenPcs,
       MadePcs
  <2>. QED  BY <1>a, <1>8, <2>3, <2>4 DEF RefreshBlacklistOld, Shaped, TypeOK
<1>9. ASSUME NEW r \in Requests, RevokeBlacklist(r)
      PROVE  Shaped'
  <2>1. req[r].given \in Sessions
    BY <1>a, <1>9 DEF RevokeBlacklist, HoldsToken, GivenPcs
  <2>3. blacklist' \in [Sessions -> Nat]
    BY <1>a, <1>9, <2>1, SetBlacklistType DEF RevokeBlacklist
  <2>4. req' \in [Requests -> RequestStates] /\ HoldsToken'
    BY <1>a, <1>9, <2>1, NoTtlType, GotoWithTyped DEF RevokeBlacklist, Pcs, GivenPcs,
       MadePcs
  <2>. QED  BY <1>a, <1>9, <2>3, <2>4 DEF RevokeBlacklist, Shaped, TypeOK
<1>10. ASSUME NEW r \in Requests, RefreshRevokeOld(r) \/ RevokeJti(r)
       PROVE  Shaped'
  <2>1. req[r].given \in Sessions
    BY <1>a, <1>10 DEF RefreshRevokeOld, RevokeJti, HoldsToken, GivenPcs
  <2>2. session' \in [Sessions -> Jwts]
    BY <1>a, <1>10, <2>1, RowType DEF RefreshRevokeOld, RevokeJti, TypeOK
  <2>3. req' \in [Requests -> RequestStates] /\ HoldsToken'
    BY <1>a, <1>10, <2>1, GotoTyped DEF RefreshRevokeOld, RevokeJti, Pcs, GivenPcs, MadePcs
  <2>. QED
    BY <1>a, <1>10, <2>2, <2>3 DEF RefreshRevokeOld, RevokeJti, Shaped, TypeOK
<1>11. ASSUME NEW r \in Requests, RevokeJtiTokens(r)
       PROVE  Shaped'
  <2>1. req[r].given \in Sessions
    BY <1>a, <1>11 DEF RevokeJtiTokens, HoldsToken, GivenPcs
  <2>2. refresh' \in [Sessions -> RefreshTokens]
    BY <1>a, <1>11, <2>1, RevokeRefreshType DEF RevokeJtiTokens
  <2>3. req' \in [Requests -> RequestStates] /\ HoldsToken'
    <3>1. [req[r] EXCEPT !.pc = "confirm", !.found = {req[r].given}]
             \in RequestStates
      BY ZenonT(60), <1>a, <2>1 DEF TypeOK, RequestStates, Pcs
    <3>2. req' \in [Requests -> RequestStates]
      BY <1>a, <1>11, <3>1 DEF RevokeJtiTokens, TypeOK
    <3>3. HoldsToken'
      BY <1>a, <1>11 DEF RevokeJtiTokens, TypeOK, RequestStates, HoldsToken,
         GivenPcs, MadePcs
    <3>. QED  BY <3>2, <3>3
  <2>. QED  BY <1>a, <1>11, <2>2, <2>3 DEF RevokeJtiTokens, Shaped, TypeOK
<1>12. ASSUME NEW r \in Requests, RevokeAllFind(r)
       PROVE  Shaped'
  <2>1. OwnedBy(req[r].user) \subseteq Sessions
    BY DEF OwnedBy
  <2>2. req' \in [Requests -> RequestStates] /\ HoldsToken'
    <3>. DEFINE active == {s \in OwnedBy(req[r].user) : Active(s)}
    <3>. DEFINE ttl == [s \in Sessions |->
                    IF s \in active THEN RemainingTtl(session[s].expiresAt) ELSE 0]
    <3>0. ttl \in [Sessions -> 0..MaxTtl]
      BY AccessTtlAssumption, SecondAssumption, TtlTypes DEF MaxTtl
    <3>1. [req[r] EXCEPT !.pc = "blacklistAll", !.found = active, !.ttl = ttl]
             \in RequestStates
      <4>. HIDE DEF ttl
      <4>. QED  BY ZenonT(60), <1>a, <2>1, <3>0 DEF TypeOK, RequestStates, Pcs
    <3>2. req' \in [Requests -> RequestStates]
      BY <1>a, <1>12, <3>1 DEF RevokeAllFind, TypeOK
    <3>3. /\ \A q \in Requests \ {r} : req'[q] = req[q]
          /\ req'[r].pc = "blacklistAll"
      BY <1>a, <1>12 DEF RevokeAllFind, TypeOK, RequestStates
    <3>4. HoldsToken'
      BY <1>a, <3>3 DEF HoldsToken, GivenPcs, MadePcs
    <3>. QED  BY <3>2, <3>4
  <2>. QED  BY <1>a, <1>12, <2>2 DEF RevokeAllFind, Shaped, TypeOK
<1>13. ASSUME NEW r \in Requests, RevokeAllBlacklist(r)
       PROVE  Shaped'
  <2>1. PICK s \in Sessions :
            /\ SetBlacklist(r, s)
            /\ GotoWith(r, "blacklistAll", [req[r].ttl EXCEPT ![s] = 0])
    BY <1>13 DEF RevokeAllBlacklist
  <2>2. [req[r].ttl EXCEPT ![s] = 0] \in [Sessions -> 0..MaxTtl]
    BY <1>a, AccessTtlAssumption, SecondAssumption DEF TypeOK, RequestStates, MaxTtl
  <2>3. blacklist' \in [Sessions -> Nat]
    BY <1>a, <2>1, SetBlacklistType
  <2>4. req' \in [Requests -> RequestStates] /\ HoldsToken'
    BY <1>a, <2>1, <2>2, GotoWithTyped DEF Pcs, GivenPcs, MadePcs
  <2>. QED  BY <1>a, <1>13, <2>3, <2>4 DEF RevokeAllBlacklist, Shaped, TypeOK
<1>14. ASSUME NEW r \in Requests, RevokeAllSessions(r)
       PROVE  Shaped'
  <2>1. OwnedBy(req[r].user) \subseteq Sessions
    BY DEF OwnedBy
  <2>2. session' \in [Sessions -> Jwts]
    BY <1>a, <1>14, RowType DEF RevokeAllSessions, TypeOK
  <2>3. req' \in [Requests -> RequestStates] /\ HoldsToken'
    BY <1>a, <1>14, GotoTyped DEF RevokeAllSessions, Pcs, GivenPcs, MadePcs
  <2>4. swept' \subseteq Sessions
    BY <1>a, <1>14, <2>1 DEF RevokeAllSessions, TypeOK
  <2>. QED
    BY <1>a, <1>14, <2>2, <2>3, <2>4 DEF RevokeAllSessions, Shaped, TypeOK
<1>15. ASSUME NEW r \in Requests, RevokeAllTokens(r)
       PROVE  Shaped'
  <2>1. OwnedBy(req[r].user) \subseteq Sessions
    BY DEF OwnedBy
  <2>2. refresh' \in [Sessions -> RefreshTokens]
    BY <1>a, <1>15, <2>1, RevokeRefreshType DEF RevokeAllTokens
  <2>3. req' \in [Requests -> RequestStates] /\ HoldsToken'
    BY <1>a, <1>15, GotoTyped DEF RevokeAllTokens, Pcs, GivenPcs, MadePcs
  <2>. QED  BY <1>a, <1>15, <2>2, <2>3 DEF RevokeAllTokens, Shaped, TypeOK
<1>16. CASE Tick
  BY <1>a, <1>16 DEF Tick, Shaped, TypeOK, HoldsToken
<1>17. CASE UNCHANGED vars
  BY <1>a, <1>17 DEF vars, Shaped, TypeOK, HoldsToken
<1>. QED
  BY <1>1, <1>2, <1>3, <1>4, <1>5, <1>6, <1>7, <1>8, <1>9, <1>10, <1>11,
     <1>12, <1>13, <1>14, <1>15, <1>16, <1>17 DEF Next, Handle

\* Only minting sets an expiry, and the clock only moves on.
LEMMA ExpiriesNext == Typed /\ [Next]_vars => ExpiriesOK'
<1>. SUFFICES ASSUME Typed, [Next]_vars PROVE ExpiriesOK'
  OBVIOUS
<1>a. /\ TypeOK /\ HoldsToken /\ ExpiriesOK
      /\ \A s \in Sessions : session[s].exp \in Nat /\ session[s].expiresAt \in Nat
      /\ now \in Nat /\ AccessTtl \in Nat
  BY AccessTtlAssumption DEF Typed, Shaped, TypeOK, Jwts
<1>1. ASSUME NEW r \in Requests, NEW s \in Sessions, NEW u, NEW parent,
             Mint(r, s, u, parent), now' = now
      PROVE  ExpiriesOK'
  <2>1. FloorSecond(now) \in Nat /\ FloorSecond(now) <= now
    BY <1>a, FloorSecondBounds
  <2>. QED  BY <1>a, <1>1, <2>1 DEF Mint, TypeOK, ExpiriesOK
<1>2. ASSUME \A s \in Sessions : /\ session'[s].exp = session[s].exp
                                 /\ session'[s].expiresAt = session[s].expiresAt,
             now' = now \/ now' = now + 1
      PROVE  ExpiriesOK'
  BY <1>a, <1>2 DEF ExpiriesOK
<1>3. ASSUME NEW r \in Requests, Handle(r)
      PROVE  ExpiriesOK'
  <2>1. ASSUME NEW u \in Users, Login(r, u)
        PROVE  ExpiriesOK'
    BY <1>1, <2>1 DEF Login
  <2>2. CASE RefreshFindUser(r)
    BY <1>1, <2>2 DEF RefreshFindUser
  <2>3. CASE \/ CreateSession(r) \/ RefreshRevokeOld(r) \/ RevokeJti(r)
             \/ RevokeAllSessions(r)
    <3>1. /\ now' = now
          /\ \A s \in Sessions : /\ session'[s].exp = session[s].exp
                                 /\ session'[s].expiresAt = session[s].expiresAt
      BY <1>a, <2>3 DEF CreateSession, RefreshRevokeOld, RevokeJti,
         RevokeAllSessions, TypeOK, Jwts
    <3>. QED  BY <1>2, <3>1
  <2>4. CASE UNCHANGED <<now, session>>
    BY <1>2, <2>4
  <2>. QED
    BY <1>3, <2>1, <2>2, <2>3, <2>4 DEF Handle, CreateRefreshToken, Respond,
       RefreshLookup, RefreshConsume, RefreshFindOld, RefreshBlacklistOld,
       RefreshRevokeOldTokens, RevokeStart, RevokeExists, RevokeBlacklist,
       RevokeJtiTokens, RevokeAllStart, RevokeAllFind, RevokeAllBlacklist,
       RevokeAllTokens, Confirm, Abort
<1>4. CASE Tick \/ UNCHANGED vars
  BY <1>2, <1>4 DEF Tick, vars
<1>. QED  BY <1>3, <1>4 DEF Next

\* Every step keeps the types and the expiries.
LEMMA TypedNext == Typed /\ [Next]_vars => Typed'
BY ShapedNext, ExpiriesNext DEF Typed

\* Every reachable state has its type.
THEOREM TypeCorrect == Spec => []TypeOK
<1>1. Typed => TypeOK
  BY DEF Typed, Shaped
<1>. QED  BY TypedInit, TypedNext, <1>1, PTL DEF Spec
-----------------------------------------------------------------------------
(* The inductive invariant                                                 *)

Started(s) == session[s].state # "fresh"

\* The access token of s is refused for good: it has expired, or a key blocks it
\* (and BlacklistTracksExpiry keeps the key until it expires).
Dead(s) == Started(s) /\ (blacklist[s] # 0 \/ session[s].exp <= now)

\* Dead, or lost in the window of revoke-all.
Covered(s) == s \in swept \/ Dead(s)

TimesOK(s) ==
    /\ Started(s) => /\ session[s].exp <= session[s].expiresAt
                     /\ session[s].expiresAt < session[s].exp + Second
    /\ ~Started(s) => blacklist[s] = 0
    /\ blacklist[s] # 0 => blacklist[s] >= session[s].exp
    /\ s \in issued => Stored(s)

\* What the code between two awaits may rely on.
HandlerOK(r) ==
    /\ req[r].pc \in GivenPcs => Stored(req[r].given)
    /\ req[r].pc \in MadePcs => Started(req[r].made)
    /\ req[r].pc \in {"createRefreshToken", "respond"} => Stored(req[r].made)
    /\ req[r].pc \in {"revokeOld", "revokeJti", "revokeJtiTokens"}
          => Dead(req[r].given)
    /\ req[r].pc \in {"revokeOldTokens", "findUser"} => Covered(req[r].given)
    /\ \A s \in req[r].found : Started(s)
    /\ \A s \in Sessions : req[r].ttl[s] > 0 =>
          /\ Started(s)
          /\ session[s].exp <= now + req[r].ttl[s]
    /\ req[r].pc = "blacklistAll" =>
          \A s \in req[r].found : req[r].ttl[s] = 0 => Dead(s)
    /\ req[r].pc \in {"revokeAllTokens", "confirm"} =>
          \A s \in req[r].found : Dead(s)

RowOK(s) ==
    /\ s \in ended => Covered(s)
    /\ session[s].state = "revoked" => Covered(s)
    /\ \A c \in Sessions : session[c].parent = s => Covered(s)

IInv ==
    /\ Typed
    /\ \A s \in Sessions : TimesOK(s)
    /\ \A r \in Requests : HandlerOK(r)
    /\ \A s \in Sessions : RowOK(s)

\* What no step undoes.
Stable ==
    /\ now <= now'
    /\ swept \subseteq swept'
    /\ issued \subseteq issued'
    /\ \A s \in Sessions :
          /\ Started(s) => /\ Started(s)'
                           /\ session[s].exp = session[s].exp'
                           /\ session[s].expiresAt = session[s].expiresAt'
                           /\ session[s].parent = session[s].parent'
          /\ Stored(s) => Stored(s)'
          /\ blacklist[s] # 0 => blacklist'[s] # 0

\* A blacklist key that was set is not unset by another write.
LEMMA SetBlacklistStable ==
    ASSUME TypeOK, NEW r \in Requests, NEW s \in Sessions, SetBlacklist(r, s),
           NEW q \in Sessions, blacklist[q] # 0
    PROVE  blacklist'[q] # 0
<1>1. req[r].ttl[s] \in 0..MaxTtl /\ MaxTtl \in Nat /\ now \in Nat
  BY AccessTtlAssumption, SecondAssumption DEF TypeOK, RequestStates, MaxTtl
<1>. QED  BY <1>1 DEF TypeOK, SetBlacklist

\* Every step keeps what the requests rely on: the clock does not go back, and
\* minted sessions keep their identity, stored ones their row, set keys their key.
LEMMA StableNext == Typed /\ [Next]_vars => Stable
<1>. SUFFICES ASSUME Typed, [Next]_vars PROVE Stable
  OBVIOUS
<1>a. TypeOK /\ HoldsToken
  BY DEF Typed, Shaped
<1>1. ASSUME NEW r \in Requests, NEW s \in Sessions, NEW u, NEW parent,
             Mint(r, s, u, parent), now' = now, swept' = swept,
             issued' = issued, blacklist' = blacklist
      PROVE  Stable
  BY <1>a, <1>1 DEF Mint, Stable, Started, Stored, TypeOK
<1>2. ASSUME NEW r \in Requests, NEW u \in Users, Login(r, u)
      PROVE  Stable
  BY <1>1, <1>2 DEF Login
<1>3. ASSUME NEW r \in Requests, RefreshFindUser(r)
      PROVE  Stable
  BY <1>1, <1>3 DEF RefreshFindUser
<1>4. ASSUME NEW r \in Requests,
             CreateSession(r) \/ RefreshRevokeOld(r) \/ RevokeJti(r)
      PROVE  Stable
  BY <1>a, <1>4 DEF CreateSession, RefreshRevokeOld, RevokeJti, Stable, Started,
     Stored, TypeOK, Jwts
<1>5. ASSUME NEW r \in Requests, NEW s \in Sessions,
             RefreshLookup(r, s) \/ RevokeStart(r, s) \/ RevokeAllStart(r, s)
      PROVE  Stable
  BY <1>a, <1>5 DEF RefreshLookup, RevokeStart, RevokeAllStart, Stable, Started,
     Stored, TypeOK
<1>6. ASSUME NEW r \in Requests,
             \/ CreateRefreshToken(r) \/ RefreshConsume(r) \/ RefreshFindOld(r)
             \/ RefreshRevokeOldTokens(r) \/ RevokeExists(r)
             \/ RevokeJtiTokens(r) \/ RevokeAllFind(r) \/ RevokeAllTokens(r)
             \/ Respond(r) \/ Confirm(r) \/ Abort(r)
      PROVE  Stable
  <2>1. /\ now' = now /\ swept' = swept /\ session' = session
        /\ blacklist' = blacklist /\ issued \subseteq issued'
    BY <1>6 DEF CreateRefreshToken, RefreshConsume, RefreshFindOld,
       RefreshRevokeOldTokens, RevokeExists, RevokeJtiTokens, RevokeAllFind,
       RevokeAllTokens, Respond, Confirm, Abort
  <2>. QED  BY <1>a, <2>1 DEF Stable, Started, Stored, TypeOK
<1>7. ASSUME NEW r \in Requests, NEW s \in Sessions, SetBlacklist(r, s),
             UNCHANGED <<now, session, issued, swept>>
      PROVE  Stable
  BY <1>a, <1>7, SetBlacklistStable DEF Stable, Started, Stored, TypeOK
<1>8. ASSUME NEW r \in Requests, RefreshBlacklistOld(r)
      PROVE  Stable
  <2>1. req[r].given \in Sessions
    BY <1>a, <1>8 DEF RefreshBlacklistOld, HoldsToken, GivenPcs
  <2>. QED  BY <1>7, <1>8, <2>1 DEF RefreshBlacklistOld
<1>9. ASSUME NEW r \in Requests, RevokeBlacklist(r)
      PROVE  Stable
  <2>1. req[r].given \in Sessions
    BY <1>a, <1>9 DEF RevokeBlacklist, HoldsToken, GivenPcs
  <2>. QED  BY <1>7, <1>9, <2>1 DEF RevokeBlacklist
<1>10. ASSUME NEW r \in Requests, RevokeAllBlacklist(r)
       PROVE  Stable
  <2>1. PICK s \in Sessions : SetBlacklist(r, s)
    BY <1>10 DEF RevokeAllBlacklist
  <2>. QED  BY <1>7, <1>10, <2>1 DEF RevokeAllBlacklist
<1>11. ASSUME NEW r \in Requests, RevokeAllSessions(r)
       PROVE  Stable
  BY <1>a, <1>11 DEF RevokeAllSessions, OwnedBy, Stable, Started, Stored, TypeOK,
     Jwts
<1>12. CASE Tick
  BY <1>a, <1>12 DEF Tick, Stable, Started, Stored, TypeOK
<1>13. CASE UNCHANGED vars
  BY <1>a, <1>13 DEF vars, Stable, Started, Stored, TypeOK
<1>. QED
  BY <1>2, <1>3, <1>4, <1>5, <1>6, <1>8, <1>9, <1>10, <1>11, <1>12, <1>13
     DEF Next, Handle

\* A token that is blocked for good stays blocked over every step that is Stable.
LEMMA CoveredStable ==
    ASSUME Typed, Typed', Stable, NEW s \in Sessions
    PROVE  /\ Dead(s) => Dead(s)'
           /\ Covered(s) => Covered(s)'
BY DEF Typed, Shaped, TypeOK, Jwts, Stable, Dead, Covered

\* A call that covers a token when its ttl is computed covers it later as well.
LEMMA HandlerPending ==
    ASSUME Typed, Typed', Stable, NEW r \in Requests, HandlerOK(r),
           NEW s \in Sessions, req[r].ttl[s] > 0
    PROVE  Started(s)' /\ session'[s].exp <= now' + req[r].ttl[s]
<1>1. /\ now \in Nat /\ now' \in Nat /\ session[s].exp \in Nat
      /\ req[r].ttl[s] \in 0..MaxTtl /\ MaxTtl \in Nat
  BY AccessTtlAssumption, SecondAssumption
     DEF Typed, Shaped, TypeOK, Jwts, RequestStates, MaxTtl
<1>2. /\ Started(s) /\ session[s].exp <= now + req[r].ttl[s]
      /\ session'[s].exp = session[s].exp /\ Started(s)' /\ now <= now'
  BY DEF HandlerOK, Stable
<1>. QED  BY <1>1, <1>2

\* Steps of other requests keep what a request relies on.
LEMMA HandlerStable ==
    ASSUME Typed, Typed', Stable, NEW r \in Requests, HandlerOK(r),
           req'[r] = req[r]
    PROVE  HandlerOK(r)'
<1>1. /\ req[r].found \subseteq Sessions
      /\ req[r].pc \in GivenPcs => req[r].given \in Sessions
      /\ req[r].pc \in MadePcs => req[r].made \in Sessions
  BY DEF Typed, Shaped, TypeOK, RequestStates, HoldsToken
<1>2. \A s \in Sessions : req'[r].ttl[s] > 0 =>
          Started(s)' /\ session'[s].exp <= now' + req'[r].ttl[s]
  BY HandlerPending
<1>. QED
  BY <1>1, <1>2, CoveredStable DEF HandlerOK, Stable, GivenPcs, MadePcs

-----------------------------------------------------------------------------
(* TimesOK, HandlerOK and RowOK are inductive together                     *)

\* The initial state satisfies the inductive invariant.
LEMMA IInvInit == Init => IInv
<1>. SUFFICES ASSUME Init PROVE IInv
  OBVIOUS
<1>1. \A s \in Sessions : TimesOK(s)
  BY DEF Init, TimesOK, Started, NoJwt
<1>2. \A r \in Requests : HandlerOK(r)
  BY DEF Init, HandlerOK, Idle, NoTtl, GivenPcs, MadePcs
<1>3. \A s \in Sessions : RowOK(s)
  BY NoSessionAssumption DEF Init, RowOK, NoJwt
<1>. QED  BY <1>1, <1>2, <1>3, TypedInit DEF IInv

\* Every key SetBlacklist writes covers the life of its JWT: its ttl, computed at
\* an earlier tick, is counted from a later one.
LEMMA KeyCoversJwt ==
    ASSUME IInv, NEW r \in Requests, NEW s \in Sessions, SetBlacklist(r, s),
           UNCHANGED <<now, session, issued>>
    PROVE  /\ \A q \in Sessions : TimesOK(q)'
           /\ Dead(s)'
<1>1. /\ now \in Nat /\ session[s].exp \in Nat /\ req[r].ttl[s] \in 0..MaxTtl
      /\ MaxTtl \in Nat /\ blacklist \in [Sessions -> Nat]
  BY AccessTtlAssumption, SecondAssumption
     DEF IInv, Typed, Shaped, TypeOK, Jwts, RequestStates, MaxTtl
<1>2. /\ req[r].ttl[s] > 0 /\ Started(s)
      /\ session[s].exp <= now + req[r].ttl[s]
  BY DEF IInv, HandlerOK, SetBlacklist
<1>3. /\ blacklist'[s] = now + req[r].ttl[s] /\ blacklist'[s] # 0
      /\ \A q \in Sessions \ {s} : blacklist'[q] = blacklist[q]
  BY <1>1, <1>2 DEF SetBlacklist
<1>4. ASSUME NEW q \in Sessions PROVE TimesOK(q)'
  BY <1>2, <1>3 DEF IInv, TimesOK, Started, Stored
<1>5. Dead(s)'
  BY <1>2, <1>3 DEF Dead, Started
<1>. QED  BY <1>4, <1>5

\* A step that sets no key, starts no session and answers only for stored ones.
LEMMA TimesKept ==
    ASSUME IInv, Stable, blacklist' = blacklist,
           \A s \in Sessions : Started(s)' => Started(s),
           \A s \in issued' \ issued : Stored(s)
    PROVE  \A s \in Sessions : TimesOK(s)'
<1>. SUFFICES ASSUME NEW s \in Sessions PROVE TimesOK(s)'
  OBVIOUS
<1>1. TimesOK(s)
  BY DEF IInv
<1>. QED  BY <1>1 DEF TimesOK, Stable

\* A minted session has a JWT that expires no later than its row, and no key.
LEMMA MintTimes ==
    ASSUME IInv, NEW r \in Requests, NEW s \in Sessions, NEW u, NEW parent,
           Mint(r, s, u, parent), UNCHANGED <<now, blacklist, issued>>
    PROVE  \A q \in Sessions : TimesOK(q)'
<1>1. /\ now \in Nat /\ FloorSecond(now) \in Nat /\ FloorSecond(now) <= now
      /\ now < FloorSecond(now) + Second
  BY FloorSecondBounds DEF IInv, Typed, Shaped, TypeOK
<1>2. ASSUME NEW q \in Sessions, q # s PROVE TimesOK(q)'
  BY <1>2 DEF IInv, Typed, Shaped, TypeOK, Mint, TimesOK, Started, Stored
<1>3. /\ session'[s].state = "minted"
      /\ session'[s].exp = FloorSecond(now) + AccessTtl
      /\ session'[s].expiresAt = now + AccessTtl
  BY DEF IInv, Typed, Shaped, TypeOK, Mint
<1>4. blacklist[s] = 0 /\ s \notin issued
  BY DEF IInv, TimesOK, Started, Stored, Mint
<1>5. TimesOK(s)'
  BY <1>1, <1>3, <1>4, AccessTtlAssumption, SecondAssumption
     DEF TimesOK, Started, Stored
<1>. QED  BY <1>2, <1>5

\* Every step keeps the relation of JWT expiry, row expiry and blacklist key.
LEMMA TimesNext == IInv /\ [Next]_vars => \A s \in Sessions : TimesOK(s)'
<1>. SUFFICES ASSUME IInv, [Next]_vars PROVE \A s \in Sessions : TimesOK(s)'
  OBVIOUS
<1>a. Typed /\ TypeOK /\ HoldsToken /\ Stable
  BY StableNext DEF IInv, Typed, Shaped
<1>1. ASSUME NEW r \in Requests, NEW u \in Users, Login(r, u)
      PROVE  \A s \in Sessions : TimesOK(s)'
  BY <1>1, MintTimes DEF Login
<1>2. ASSUME NEW r \in Requests, RefreshFindUser(r)
      PROVE  \A s \in Sessions : TimesOK(s)'
  BY <1>2, MintTimes DEF RefreshFindUser
<1>3. ASSUME NEW r \in Requests,
             CreateSession(r) \/ RefreshRevokeOld(r) \/ RevokeJti(r)
      PROVE  \A s \in Sessions : TimesOK(s)'
  <2>1. PICK s \in Sessions : /\ Started(s)
                              /\ \A q \in Sessions \ {s} : session'[q] = session[q]
    <3>1. CASE CreateSession(r)
      BY <1>a, <3>1 DEF CreateSession, IInv, HandlerOK, MadePcs, HoldsToken, TypeOK
    <3>2. CASE RefreshRevokeOld(r) \/ RevokeJti(r)
      BY <1>a, <3>2 DEF RefreshRevokeOld, RevokeJti, IInv, HandlerOK, GivenPcs,
         HoldsToken, TypeOK, Stored, Started
    <3>. QED  BY <1>3, <3>1, <3>2
  <2>2. blacklist' = blacklist /\ issued' = issued
    BY <1>3 DEF CreateSession, RefreshRevokeOld, RevokeJti
  <2>. QED  BY <1>a, <2>1, <2>2, TimesKept DEF Started
<1>4. ASSUME NEW r \in Requests, NEW s \in Sessions,
             RefreshLookup(r, s) \/ RevokeStart(r, s) \/ RevokeAllStart(r, s)
      PROVE  \A q \in Sessions : TimesOK(q)'
  <2>1. UNCHANGED <<session, blacklist, issued>>
    BY <1>4 DEF RefreshLookup, RevokeStart, RevokeAllStart
  <2>. QED  BY <1>a, <2>1, TimesKept DEF Started
<1>5. ASSUME NEW r \in Requests,
             \/ CreateRefreshToken(r) \/ RefreshConsume(r) \/ RefreshFindOld(r)
             \/ RefreshRevokeOldTokens(r) \/ RevokeExists(r)
             \/ RevokeJtiTokens(r) \/ RevokeAllFind(r) \/ RevokeAllTokens(r)
             \/ Confirm(r) \/ Abort(r)
      PROVE  \A q \in Sessions : TimesOK(q)'
  <2>1. UNCHANGED <<session, blacklist, issued>>
    BY <1>5 DEF CreateRefreshToken, RefreshConsume, RefreshFindOld,
       RefreshRevokeOldTokens, RevokeExists, RevokeJtiTokens, RevokeAllFind,
       RevokeAllTokens, Confirm, Abort
  <2>. QED  BY <1>a, <2>1, TimesKept DEF Started
<1>6. ASSUME NEW r \in Requests, Respond(r)
      PROVE  \A q \in Sessions : TimesOK(q)'
  <2>1. Stored(req[r].made)
    BY <1>6 DEF Respond, IInv, HandlerOK
  <2>2. UNCHANGED <<session, blacklist>> /\ issued' = issued \cup {req[r].made}
    BY <1>6 DEF Respond
  <2>. QED  BY <1>a, <2>1, <2>2, TimesKept DEF Started
<1>7. ASSUME NEW r \in Requests, RefreshBlacklistOld(r) \/ RevokeBlacklist(r)
      PROVE  \A q \in Sessions : TimesOK(q)'
  <2>1. req[r].given \in Sessions /\ Started(req[r].given)
    BY <1>a, <1>7 DEF RefreshBlacklistOld, RevokeBlacklist, HoldsToken, GivenPcs,
       IInv, HandlerOK, Stored, Started
  <2>. QED
    BY <1>7, <2>1, KeyCoversJwt DEF RefreshBlacklistOld, RevokeBlacklist
<1>8. ASSUME NEW r \in Requests, RevokeAllBlacklist(r)
      PROVE  \A q \in Sessions : TimesOK(q)'
  <2>1. PICK s \in Sessions : SetBlacklist(r, s)
    BY <1>8 DEF RevokeAllBlacklist
  <2>. QED  BY <1>8, <2>1, KeyCoversJwt DEF RevokeAllBlacklist
<1>9. ASSUME NEW r \in Requests, RevokeAllSessions(r)
      PROVE  \A q \in Sessions : TimesOK(q)'
  <2>1. \A s \in Sessions : Started(s)' => Started(s)
    BY <1>a, <1>9 DEF RevokeAllSessions, OwnedBy, Stored, Started
  <2>. QED  BY <1>a, <1>9, <2>1, TimesKept DEF RevokeAllSessions
<1>10. CASE Tick \/ UNCHANGED vars
  <2>1. UNCHANGED <<session, blacklist, issued>>
    BY <1>10 DEF Tick, vars
  <2>. QED  BY <1>a, <2>1, TimesKept DEF Started
<1>. QED
  BY <1>1, <1>2, <1>3, <1>4, <1>5, <1>6, <1>7, <1>8, <1>9, <1>10 DEF Next, Handle

\* A step of request r: the other requests keep what they rely on, so it is
\* enough that r does.
LEMMA HandlersFrom ==
    ASSUME IInv, Typed', Stable, NEW r \in Requests,
           \A q \in Requests \ {r} : req'[q] = req[q], HandlerOK(r)'
    PROVE  \A q \in Requests : HandlerOK(q)'
BY HandlerStable DEF IInv

\* A slot that is free relies on nothing.
LEMMA IdleOK ==
    ASSUME NEW r \in Requests, req'[r] = Idle
    PROVE  HandlerOK(r)'
BY DEF HandlerOK, Idle, NoTtl, GivenPcs, MadePcs

\* Every step keeps, for each request, what its position in the handler implies
\* about the sessions it works on.
LEMMA HandlersNext == IInv /\ [Next]_vars => \A r \in Requests : HandlerOK(r)'
<1>. SUFFICES ASSUME IInv, [Next]_vars PROVE \A r \in Requests : HandlerOK(r)'
  OBVIOUS
<1>a. Typed /\ TypeOK /\ HoldsToken /\ Stable /\ Typed'
  BY StableNext, TypedNext DEF IInv, Typed, Shaped
<1>b. \A r \in Requests : /\ HandlerOK(r)
                          /\ req[r].found \subseteq Sessions
                          /\ req[r].pc \in GivenPcs => req[r].given \in Sessions
                          /\ req[r].pc \in MadePcs => req[r].made \in Sessions
  BY <1>a DEF IInv, HoldsToken, TypeOK, RequestStates
<1>c. \A s \in Sessions : /\ Started(s) => Started(s)'
                          /\ Stored(s) => Stored(s)'
                          /\ Dead(s) => Dead(s)'
                          /\ Covered(s) => Covered(s)'
  BY <1>a, CoveredStable DEF Stable
<1>p. \A r \in Requests, s \in Sessions : req[r].ttl[s] > 0 =>
          Started(s)' /\ session'[s].exp <= now' + req[r].ttl[s]
  BY <1>a, <1>b, HandlerPending
\* A request that moves to pc with its given session g, its made session m and the
\* ttls of its calls.
<1>e. ASSUME NEW r \in Requests, NEW pc, NEW ttl, GotoWith(r, pc, ttl),
             NEW g, g = req[r].given, NEW m, m = req[r].made,
             pc \in GivenPcs => Stored(g)',
             pc \in MadePcs => Started(m)',
             pc \in {"createRefreshToken", "respond"} => Stored(m)',
             pc \in {"revokeOld", "revokeJti", "revokeJtiTokens"} => Dead(g)',
             pc \in {"revokeOldTokens", "findUser"} => Covered(g)',
             pc = "blacklistAll" =>
                \A s \in req[r].found : ttl[s] = 0 => Dead(s)',
             pc \in {"revokeAllTokens", "confirm"} =>
                \A s \in req[r].found : Dead(s),
             \A s \in Sessions : ttl[s] > 0 =>
                Started(s)' /\ session'[s].exp <= now' + ttl[s]
      PROVE  \A q \in Requests : HandlerOK(q)'
  <2>1. /\ req'[r].pc = pc /\ req'[r].given = g /\ req'[r].ttl = ttl
        /\ req'[r].made = m /\ req'[r].found = req[r].found
        /\ \A q \in Requests \ {r} : req'[q] = req[q]
    BY <1>a, <1>e DEF GotoWith, TypeOK, RequestStates
  <2>2. \A s \in req[r].found : Started(s)' /\ (Dead(s) => Dead(s)')
    BY <1>b, <1>c DEF HandlerOK
  <2>3. HandlerOK(r)'
    BY <1>e, <2>1, <2>2 DEF HandlerOK, Stored, Started, Dead, Covered
  <2>. QED  BY <1>a, <2>1, <2>3, HandlersFrom
\* One that moves on with the calls it has.
<1>d. ASSUME NEW r \in Requests, NEW pc, Goto(r, pc),
             NEW g, g = req[r].given, NEW m, m = req[r].made,
             pc \in GivenPcs => Stored(g)',
             pc \in MadePcs => Started(m)',
             pc \in {"createRefreshToken", "respond"} => Stored(m)',
             pc \in {"revokeOld", "revokeJti", "revokeJtiTokens"} => Dead(g)',
             pc \in {"revokeOldTokens", "findUser"} => Covered(g)',
             pc # "blacklistAll",
             pc \in {"revokeAllTokens", "confirm"} =>
                \A s \in req[r].found : Dead(s)
      PROVE  \A q \in Requests : HandlerOK(q)'
  <2>1. GotoWith(r, pc, req[r].ttl)
    BY <1>a, <1>d DEF Goto, GotoWith, TypeOK, RequestStates
  <2>2. \A s \in Sessions : req[r].ttl[s] > 0 =>
            Started(s)' /\ session'[s].exp <= now' + req[r].ttl[s]
    BY <1>b, <1>p
  <2>. QED  BY <1>d, <1>e, <2>1, <2>2
\* One that moves on with no call.
<1>f. ASSUME NEW r \in Requests, NEW pc, GotoWith(r, pc, NoTtl),
             NEW g, g = req[r].given, NEW m, m = req[r].made,
             pc \in GivenPcs => Stored(g)',
             pc \notin MadePcs, pc \notin {"revokeAllTokens", "confirm"},
             pc \in {"revokeOld", "revokeJti", "revokeJtiTokens"} => Dead(g)',
             pc \in {"revokeOldTokens", "findUser"} => Covered(g)',
             pc # "blacklistAll"
      PROVE  \A q \in Requests : HandlerOK(q)'
  <2>1. \A s \in Sessions : ~(NoTtl[s] > 0)
    BY DEF NoTtl
  <2>. QED  BY <1>e, <1>f, <2>1 DEF MadePcs
<1>1. ASSUME NEW r \in Requests, NEW s \in Sessions, NEW u, NEW parent,
             Mint(r, s, u, parent)
      PROVE  \A q \in Requests : HandlerOK(q)'
  <2>1. /\ req'[r].pc = "createSession" /\ req'[r].made = s
        /\ req'[r].found = req[r].found /\ req'[r].ttl = req[r].ttl
        /\ \A q \in Requests \ {r} : req'[q] = req[q]
    BY <1>a, <1>1 DEF Mint, TypeOK, RequestStates
  <2>2. Started(s)'
    BY <1>a, <1>1 DEF Mint, Started, TypeOK
  <2>3. HandlerOK(r)'
    BY <1>b, <1>c, <1>p, <2>1, <2>2 DEF HandlerOK, GivenPcs, MadePcs, Started
  <2>. QED  BY <1>a, <2>1, <2>3, HandlersFrom
<1>2. ASSUME NEW r \in Requests, Respond(r) \/ Confirm(r) \/ Abort(r)
      PROVE  \A q \in Requests : HandlerOK(q)'
  <2>1. req'[r] = Idle /\ \A q \in Requests \ {r} : req'[q] = req[q]
    BY <1>a, <1>2 DEF Respond, Confirm, Abort, TypeOK
  <2>. QED  BY <1>a, <2>1, IdleOK, HandlersFrom
<1>3. ASSUME NEW r \in Requests, CreateSession(r)
      PROVE  \A q \in Requests : HandlerOK(q)'
  <2>0. PICK g, m : g = req[r].given /\ m = req[r].made
    OBVIOUS
  <2>1. m \in Sessions /\ session'[m].state = "active"
    BY <1>a, <1>b, <1>3, <2>0 DEF CreateSession, MadePcs, TypeOK, Jwts
  <2>2. Started(m)' /\ Stored(m)'
    BY <2>1 DEF Started, Stored
  <2>3. Goto(r, "createRefreshToken")
    BY <1>3 DEF CreateSession
  <2>. QED  BY <1>d, <2>0, <2>2, <2>3 DEF GivenPcs, MadePcs
<1>4. ASSUME NEW r \in Requests, CreateRefreshToken(r)
      PROVE  \A q \in Requests : HandlerOK(q)'
  <2>0. PICK g, m : g = req[r].given /\ m = req[r].made
    OBVIOUS
  <2>1. Stored(m)'
    BY <1>b, <1>c, <1>4, <2>0 DEF CreateRefreshToken, HandlerOK, MadePcs
  <2>2. Started(m)'
    BY <2>1 DEF Started, Stored
  <2>3. Goto(r, "respond")
    BY <1>4 DEF CreateRefreshToken
  <2>. QED  BY <1>d, <2>0, <2>1, <2>2, <2>3 DEF GivenPcs, MadePcs
<1>5. ASSUME NEW r \in Requests, NEW s \in Sessions,
             RefreshLookup(r, s) \/ RevokeStart(r, s) \/ RevokeAllStart(r, s)
      PROVE  \A q \in Requests : HandlerOK(q)'
  <2>1. Stored(s)'
    BY <1>c, <1>5 DEF RefreshLookup, RevokeStart, RevokeAllStart, Accepted, IInv,
       TimesOK
  <2>2. /\ req'[r].pc \in {"consume", "exists"} => req'[r].given = s
        /\ req'[r].pc \in {"consume", "exists", "findAll"}
        /\ req'[r].found = req[r].found /\ req'[r].ttl = req[r].ttl
        /\ \A q \in Requests \ {r} : req'[q] = req[q]
    BY <1>a, <1>5 DEF RefreshLookup, RevokeStart, RevokeAllStart, TypeOK,
       RequestStates
  <2>3. HandlerOK(r)'
    BY <1>b, <1>c, <1>p, <2>1, <2>2 DEF HandlerOK, GivenPcs, MadePcs, Started, Stored
  <2>. QED  BY <1>a, <2>2, <2>3, HandlersFrom
<1>6. ASSUME NEW r \in Requests, RefreshConsume(r)
      PROVE  \A q \in Requests : HandlerOK(q)'
  <2>0. PICK g, m : g = req[r].given /\ m = req[r].made
    OBVIOUS
  <2>1. g \in Sessions /\ Stored(g)
    BY <1>b, <1>6, <2>0 DEF RefreshConsume, HandlerOK, GivenPcs, Covered
  <2>2. Stored(g)'
    BY <1>c, <2>1
  <2>3. Goto(r, "findOld")
    BY <1>6 DEF RefreshConsume
  <2>. QED  BY <1>d, <2>0, <2>2, <2>3 DEF GivenPcs, MadePcs
<1>7. ASSUME NEW r \in Requests, RefreshFindOld(r)
      PROVE  \A q \in Requests : HandlerOK(q)'
  <2>0. PICK g, m : g = req[r].given /\ m = req[r].made
    OBVIOUS
  <2>1. g \in Sessions /\ Stored(g)
    BY <1>b, <1>7, <2>0 DEF RefreshFindOld, HandlerOK, GivenPcs, Covered
  <2>2. Stored(g)' /\ (~Active(g) => Covered(g)')
    <3>1. ~Active(g) => Covered(g)
      BY <1>a, <2>1 DEF Active, Stored, Started, Covered, Dead, IInv, RowOK,
         TimesOK, TypeOK, Jwts
    <3>. QED  BY <1>c, <2>1, <3>1
  <2>3. CASE ~Active(g)
    <3>1. [NoTtl EXCEPT ![g] = 0] = NoTtl
      BY <2>1 DEF NoTtl
    <3>2. GotoWith(r, "revokeOldTokens", NoTtl)
      BY <1>7, <2>0, <2>3, <3>1 DEF RefreshFindOld
    <3>. QED  BY <1>f, <2>0, <2>2, <2>3, <3>2 DEF GivenPcs, MadePcs
  <2>4. CASE Active(g)
    <3>. DEFINE ttl == RemainingTtl(session[g].expiresAt)
    <3>1. /\ now \in Nat /\ session[g].exp \in Nat /\ session[g].expiresAt \in Nat
          /\ session[g].exp <= session[g].expiresAt /\ Started(g)
          /\ session'[g].exp = session[g].exp /\ now' = now /\ Started(g)'
      BY <1>a, <1>c, <1>7, <2>1
         DEF RefreshFindOld, IInv, TypeOK, Jwts, TimesOK, Stored, Started
    <3>2. ttl \in Nat /\ session[g].exp <= now + ttl /\ (ttl = 0 => Dead(g))
      BY <3>1, RemainingTtlBounds DEF Dead
    <3>3. CASE ttl = 0
      <4>1. [NoTtl EXCEPT ![g] = 0] = NoTtl
        BY <2>1 DEF NoTtl
      <4>2. GotoWith(r, "revokeOld", NoTtl)
        BY <1>7, <2>0, <2>4, <3>3, <4>1 DEF RefreshFindOld
      <4>3. Dead(g)'
        BY <1>c, <2>1, <3>2, <3>3
      <4>. QED  BY <1>f, <2>0, <2>2, <4>2, <4>3 DEF GivenPcs, MadePcs
    <3>4. CASE ttl > 0
      <4>1. GotoWith(r, "blacklistOld", [NoTtl EXCEPT ![g] = ttl])
        BY <1>7, <2>0, <2>4, <3>4 DEF RefreshFindOld
      <4>2. \A s \in Sessions : [NoTtl EXCEPT ![g] = ttl][s] > 0 =>
                Started(s)' /\ session'[s].exp <= now' + [NoTtl EXCEPT ![g] = ttl][s]
        BY <2>1, <3>1, <3>2 DEF NoTtl
      <4>3. PICK calls : calls = [NoTtl EXCEPT ![g] = ttl]
        OBVIOUS
      <4>. HIDE DEF ttl
      <4>4. GotoWith(r, "blacklistOld", calls)
        BY <4>1, <4>3
      <4>5. \A s \in Sessions : calls[s] > 0 =>
                Started(s)' /\ session'[s].exp <= now' + calls[s]
        BY <4>2, <4>3
      <4>. QED  BY <1>e, <2>0, <2>2, <4>4, <4>5 DEF GivenPcs, MadePcs
    <3>. QED  BY <3>2, <3>3, <3>4
  <2>. QED  BY <2>3, <2>4
<1>8. ASSUME NEW r \in Requests, RefreshBlacklistOld(r)
      PROVE  \A q \in Requests : HandlerOK(q)'
  <2>0. PICK g, m : g = req[r].given /\ m = req[r].made
    OBVIOUS
  <2>1. g \in Sessions /\ Stored(g)
    BY <1>b, <1>8, <2>0 DEF RefreshBlacklistOld, HandlerOK, GivenPcs, Covered
  <2>2. Stored(g)' /\ Dead(g)'
    BY <1>c, <1>8, <2>0, <2>1, KeyCoversJwt DEF RefreshBlacklistOld
  <2>3. GotoWith(r, "revokeOld", NoTtl)
    BY <1>8 DEF RefreshBlacklistOld
  <2>. QED  BY <1>f, <2>0, <2>2, <2>3 DEF GivenPcs, MadePcs
<1>9. ASSUME NEW r \in Requests, RefreshRevokeOld(r)
      PROVE  \A q \in Requests : HandlerOK(q)'
  <2>0. PICK g, m : g = req[r].given /\ m = req[r].made
    OBVIOUS
  <2>1. g \in Sessions /\ Stored(g) /\ Covered(g)
    BY <1>b, <1>9, <2>0 DEF RefreshRevokeOld, HandlerOK, GivenPcs, Covered
  <2>2. Stored(g)' /\ Covered(g)'
    BY <1>c, <2>1
  <2>3. Goto(r, "revokeOldTokens")
    BY <1>9 DEF RefreshRevokeOld
  <2>. QED  BY <1>d, <2>0, <2>2, <2>3 DEF GivenPcs, MadePcs
<1>10. ASSUME NEW r \in Requests, RefreshRevokeOldTokens(r)
       PROVE  \A q \in Requests : HandlerOK(q)'
  <2>0. PICK g, m : g = req[r].given /\ m = req[r].made
    OBVIOUS
  <2>1. g \in Sessions /\ Stored(g) /\ Covered(g)
    BY <1>b, <1>10, <2>0 DEF RefreshRevokeOldTokens, HandlerOK, GivenPcs, Covered
  <2>2. Stored(g)' /\ Covered(g)'
    BY <1>c, <2>1
  <2>3. Goto(r, "findUser")
    BY <1>10 DEF RefreshRevokeOldTokens
  <2>. QED  BY <1>d, <2>0, <2>2, <2>3 DEF GivenPcs, MadePcs
<1>11. ASSUME NEW r \in Requests, RevokeExists(r)
       PROVE  \A q \in Requests : HandlerOK(q)'
  <2>0. PICK g, m : g = req[r].given /\ m = req[r].made
    OBVIOUS
  <2>1. g \in Sessions /\ Stored(g)
    BY <1>b, <1>11, <2>0 DEF RevokeExists, HandlerOK, GivenPcs, Covered
  <2>2. Stored(g)' /\ (Blacklisted(g) => Dead(g)')
    <3>1. Blacklisted(g) => Dead(g)
      BY <1>a, <2>1 DEF Blacklisted, Dead, Stored, Started, TypeOK
    <3>. QED  BY <1>c, <2>1, <3>1
  <2>. DEFINE ttl == RemainingJwtTtl(session[g].exp)
  <2>3. /\ now \in Nat /\ session[g].exp \in Nat /\ Started(g)
        /\ session'[g].exp = session[g].exp /\ now' = now /\ Started(g)'
    BY <1>a, <1>c, <1>11, <2>1 DEF RevokeExists, TypeOK, Jwts, Stored, Started
  <2>4. ttl \in Nat /\ session[g].exp <= now + ttl /\ (ttl = 0 => Dead(g))
    BY <2>3, RemainingJwtTtlBounds DEF Dead
  <2>5. CASE Blacklisted(g) \/ ttl = 0
    <3>1. [NoTtl EXCEPT ![g] = 0] = NoTtl
      BY <2>1 DEF NoTtl
    <3>2. GotoWith(r, "revokeJti", NoTtl)
      BY <1>11, <2>0, <2>5, <3>1 DEF RevokeExists
    <3>3. Dead(g)'
      BY <1>c, <2>1, <2>2, <2>4, <2>5
    <3>. QED  BY <1>f, <2>0, <2>2, <3>2, <3>3 DEF GivenPcs, MadePcs
  <2>6. CASE ~Blacklisted(g) /\ ttl > 0
    <3>1. GotoWith(r, "blacklistJti", [NoTtl EXCEPT ![g] = ttl])
      BY <1>11, <2>0, <2>6 DEF RevokeExists
    <3>2. \A s \in Sessions : [NoTtl EXCEPT ![g] = ttl][s] > 0 =>
              Started(s)' /\ session'[s].exp <= now' + [NoTtl EXCEPT ![g] = ttl][s]
      BY <2>1, <2>3, <2>4 DEF NoTtl
    <3>3. PICK calls : calls = [NoTtl EXCEPT ![g] = ttl]
      OBVIOUS
    <3>. HIDE DEF ttl
    <3>4. GotoWith(r, "blacklistJti", calls)
      BY <3>1, <3>3
    <3>5. \A s \in Sessions : calls[s] > 0 =>
              Started(s)' /\ session'[s].exp <= now' + calls[s]
      BY <3>2, <3>3
    <3>. QED  BY <1>e, <2>0, <2>2, <3>4, <3>5 DEF GivenPcs, MadePcs
  <2>. QED  BY <2>4, <2>5, <2>6
<1>12. ASSUME NEW r \in Requests, RevokeJti(r)
       PROVE  \A q \in Requests : HandlerOK(q)'
  <2>0. PICK g, m : g = req[r].given /\ m = req[r].made
    OBVIOUS
  <2>1. g \in Sessions /\ Stored(g) /\ Dead(g)
    BY <1>b, <1>12, <2>0 DEF RevokeJti, HandlerOK, GivenPcs, Covered
  <2>2. Stored(g)' /\ Dead(g)'
    BY <1>c, <2>1
  <2>3. Goto(r, "revokeJtiTokens")
    BY <1>12 DEF RevokeJti
  <2>. QED  BY <1>d, <2>0, <2>2, <2>3 DEF GivenPcs, MadePcs
<1>12b. ASSUME NEW r \in Requests, RevokeBlacklist(r)
       PROVE  \A q \in Requests : HandlerOK(q)'
  <2>0. PICK g, m : g = req[r].given /\ m = req[r].made
    OBVIOUS
  <2>1. g \in Sessions /\ Stored(g)
    BY <1>b, <1>12b, <2>0 DEF RevokeBlacklist, HandlerOK, GivenPcs, Covered
  <2>2. Stored(g)' /\ Dead(g)'
    BY <1>c, <1>12b, <2>0, <2>1, KeyCoversJwt DEF RevokeBlacklist
  <2>3. GotoWith(r, "revokeJti", NoTtl)
    BY <1>12b DEF RevokeBlacklist
  <2>. QED  BY <1>f, <2>0, <2>2, <2>3 DEF GivenPcs, MadePcs
<1>13. ASSUME NEW r \in Requests, RevokeJtiTokens(r)
       PROVE  \A q \in Requests : HandlerOK(q)'
  <2>1. /\ req[r].given \in Sessions /\ Stored(req[r].given)
        /\ Dead(req[r].given)
    BY <1>b, <1>13 DEF RevokeJtiTokens, HandlerOK, GivenPcs
  <2>2. /\ req'[r].pc = "confirm" /\ req'[r].found = {req[r].given}
        /\ req'[r].ttl = req[r].ttl
        /\ \A q \in Requests \ {r} : req'[q] = req[q]
    BY <1>a, <1>13 DEF RevokeJtiTokens, TypeOK, RequestStates
  <2>3. HandlerOK(r)'
    BY <1>c, <1>p, <2>1, <2>2 DEF HandlerOK, GivenPcs, MadePcs, Dead, Started
  <2>. QED  BY <1>a, <2>2, <2>3, HandlersFrom
<1>14. ASSUME NEW r \in Requests, RevokeAllFind(r)
       PROVE  \A q \in Requests : HandlerOK(q)'
  <2>. DEFINE active == {s \in OwnedBy(req[r].user) : Active(s)}
  <2>. DEFINE ttl == [s \in Sessions |->
                  IF s \in active THEN RemainingTtl(session[s].expiresAt) ELSE 0]
  <2>1. /\ req'[r].pc = "blacklistAll" /\ req'[r].found = active
        /\ req'[r].ttl = ttl /\ now' = now /\ session' = session
        /\ \A q \in Requests \ {r} : req'[q] = req[q]
    BY <1>a, <1>14 DEF RevokeAllFind, TypeOK, RequestStates
  <2>2. \A s \in active : s \in Sessions /\ Started(s) /\ Started(s)'
    BY <1>c DEF OwnedBy, Stored, Started
  <2>3. \A s \in active : /\ ttl[s] \in Nat /\ session[s].exp <= now + ttl[s]
                          /\ ttl[s] = 0 => Dead(s)
    <3>. SUFFICES ASSUME NEW s \in active
                  PROVE  /\ ttl[s] \in Nat /\ session[s].exp <= now + ttl[s]
                         /\ ttl[s] = 0 => Dead(s)
      OBVIOUS
    <3>1. /\ now \in Nat /\ session[s].exp \in Nat /\ session[s].expiresAt \in Nat
          /\ session[s].exp <= session[s].expiresAt
      BY <1>a, <2>2 DEF IInv, TypeOK, Jwts, TimesOK
    <3>2. ttl[s] = RemainingTtl(session[s].expiresAt)
      BY <2>2
    <3>. QED  BY <2>2, <3>1, <3>2, RemainingTtlBounds DEF Dead
  <2>4. \A s \in Sessions \ active : ttl[s] = 0
    OBVIOUS
  <2>5. HandlerOK(r)'
    <3>. HIDE DEF ttl, active
    <3>1. \A s \in active : ttl[s] = 0 => Dead(s)'
      BY <1>c, <2>2, <2>3
    <3>2. \A s \in Sessions : ttl[s] > 0 =>
              Started(s)' /\ session'[s].exp <= now' + ttl[s]
      BY <2>1, <2>2, <2>3, <2>4
    <3>. QED  BY <2>1, <2>2, <3>1, <3>2 DEF HandlerOK, GivenPcs, MadePcs, Started
  <2>. QED  BY <1>a, <2>1, <2>5, HandlersFrom
<1>15. ASSUME NEW r \in Requests, RevokeAllBlacklist(r)
       PROVE  \A q \in Requests : HandlerOK(q)'
  <2>0. PICK g, m : g = req[r].given /\ m = req[r].made
    OBVIOUS
  <2>1. PICK s \in Sessions :
            /\ SetBlacklist(r, s)
            /\ GotoWith(r, "blacklistAll", [req[r].ttl EXCEPT ![s] = 0])
    BY <1>15 DEF RevokeAllBlacklist
  <2>2. Dead(s)'
    BY <1>15, <2>1, KeyCoversJwt DEF RevokeAllBlacklist
  <2>. DEFINE ttl == [req[r].ttl EXCEPT ![s] = 0]
  <2>3. /\ ttl[s] = 0
        /\ \A q \in Sessions \ {s} : ttl[q] = req[r].ttl[q]
    BY <1>a, <2>1 DEF TypeOK, RequestStates
  <2>. HIDE DEF ttl
  <2>4. \A q \in req[r].found : ttl[q] = 0 => Dead(q)'
    BY <1>b, <1>c, <1>15, <2>2, <2>3 DEF RevokeAllBlacklist, HandlerOK
  <2>5. \A q \in Sessions : ttl[q] > 0 =>
            Started(q)' /\ session'[q].exp <= now' + ttl[q]
    BY <1>p, <2>3
  <2>6. GotoWith(r, "blacklistAll", ttl)
    BY <2>1 DEF ttl
  <2>. QED  BY <1>e, <2>0, <2>4, <2>5, <2>6 DEF GivenPcs, MadePcs
<1>16. ASSUME NEW r \in Requests, RevokeAllSessions(r)
       PROVE  \A q \in Requests : HandlerOK(q)'
  <2>1. \A s \in req[r].found : Dead(s)
    BY <1>b, <1>16 DEF RevokeAllSessions, HandlerOK, NoTtl
  <2>2. Goto(r, "revokeAllTokens")
    BY <1>16 DEF RevokeAllSessions
  <2>. QED  BY <1>d, <2>1, <2>2 DEF GivenPcs, MadePcs
<1>17. ASSUME NEW r \in Requests, RevokeAllTokens(r)
       PROVE  \A q \in Requests : HandlerOK(q)'
  <2>1. \A s \in req[r].found : Dead(s)
    BY <1>b, <1>17 DEF RevokeAllTokens, HandlerOK
  <2>2. Goto(r, "confirm")
    BY <1>17 DEF RevokeAllTokens
  <2>. QED  BY <1>d, <2>1, <2>2 DEF GivenPcs, MadePcs
<1>18. CASE Tick \/ UNCHANGED vars
  BY <1>a, <1>b, <1>18, HandlerStable DEF Tick, vars
<1>. QED
  BY <1>1, <1>2, <1>3, <1>4, <1>5, <1>6, <1>7, <1>8, <1>9, <1>10, <1>11, <1>12,
     <1>13, <1>14, <1>15, <1>16, <1>17, <1>18, <1>12b
     DEF Next, Handle, Login, RefreshFindUser

\* Every step keeps, for each session, that its end blocks its access token.
LEMMA RowsNext == IInv /\ [Next]_vars => \A s \in Sessions : RowOK(s)'
<1>. SUFFICES ASSUME IInv, [Next]_vars, NEW s \in Sessions
              PROVE  RowOK(s)'
  OBVIOUS
<1>a. Typed /\ TypeOK /\ HoldsToken /\ Stable /\ Typed'
  BY StableNext, TypedNext DEF IInv, Typed, Shaped
<1>b. /\ RowOK(s)
      /\ Covered(s) => Covered(s)'
      /\ Dead(s) => Covered(s)'
      /\ \A r \in Requests : HandlerOK(r)
  BY <1>a, CoveredStable DEF IInv, Covered
<1>1. ASSUME NEW r \in Requests, NEW c \in Sessions, NEW u, NEW parent,
             Mint(r, c, u, parent), ended' = ended,
             parent = s => Covered(s)
      PROVE  RowOK(s)'
  BY <1>a, <1>b, <1>1 DEF Mint, RowOK, TypeOK, Jwts
<1>2. ASSUME NEW r \in Requests, NEW u \in Users, Login(r, u)
      PROVE  RowOK(s)'
  BY <1>1, <1>2, NoSessionAssumption DEF Login
<1>3. ASSUME NEW r \in Requests, RefreshFindUser(r)
      PROVE  RowOK(s)'
  <2>1. req[r].given = s => Covered(s)
    BY <1>b, <1>3 DEF RefreshFindUser, HandlerOK
  <2>. QED  BY <1>1, <1>3, <2>1 DEF RefreshFindUser
<1>4. ASSUME NEW r \in Requests, CreateSession(r)
      PROVE  RowOK(s)'
  BY <1>a, <1>b, <1>4 DEF CreateSession, RowOK, TypeOK, Jwts
<1>5. ASSUME NEW r \in Requests, RefreshRevokeOld(r) \/ RevokeJti(r)
      PROVE  RowOK(s)'
  <2>1. req[r].given = s => Covered(s)
    BY <1>b, <1>5 DEF RefreshRevokeOld, RevokeJti, HandlerOK, Covered
  <2>. QED
    BY <1>a, <1>b, <1>5, <2>1 DEF RefreshRevokeOld, RevokeJti, RowOK, TypeOK, Jwts
<1>6. ASSUME NEW r \in Requests, RevokeAllSessions(r)
      PROVE  RowOK(s)'
  <2>1. \A c \in Sessions : session'[c].parent = session[c].parent
    BY <1>a, <1>6 DEF RevokeAllSessions, TypeOK, Jwts
  <2>2. session'[s].state = "revoked" => Covered(s)'
    <3>1. CASE session[s].state = "revoked"
      BY <1>b, <3>1 DEF RowOK
    <3>2. CASE session[s].state = "active" /\ s \in req[r].found
      BY <1>b, <1>6, <3>2 DEF RevokeAllSessions, HandlerOK, NoTtl
    <3>3. CASE session[s].state = "active" /\ s \notin req[r].found
      BY <1>a, <1>6, <3>3 DEF RevokeAllSessions, OwnedBy, Covered
    <3>4. CASE session[s].state \notin {"active", "revoked"}
      BY <1>6, <3>4 DEF RevokeAllSessions, OwnedBy, Stored
    <3>. QED  BY <3>1, <3>2, <3>3, <3>4
  <2>3. ended' = ended
    BY <1>6 DEF RevokeAllSessions
  <2>. QED  BY <1>b, <2>1, <2>2, <2>3 DEF RowOK
<1>7. ASSUME NEW r \in Requests, Confirm(r)
      PROVE  RowOK(s)'
  <2>1. s \in req[r].found => Covered(s)'
    BY <1>b, <1>7 DEF Confirm, HandlerOK
  <2>2. session' = session /\ ended' = ended \cup req[r].found
    BY <1>7 DEF Confirm
  <2>. QED  BY <1>b, <2>1, <2>2 DEF RowOK
<1>8. ASSUME session' = session, ended' = ended
      PROVE  RowOK(s)'
  BY <1>b, <1>8 DEF RowOK
<1>9. ASSUME NEW r \in Requests,
             \/ CreateRefreshToken(r) \/ Respond(r) \/ RefreshConsume(r)
             \/ RefreshFindOld(r) \/ RefreshBlacklistOld(r)
             \/ RefreshRevokeOldTokens(r) \/ RevokeExists(r) \/ RevokeBlacklist(r)
             \/ RevokeJtiTokens(r) \/ RevokeAllFind(r) \/ RevokeAllBlacklist(r)
             \/ RevokeAllTokens(r) \/ Abort(r)
      PROVE  RowOK(s)'
  BY <1>8, <1>9 DEF CreateRefreshToken, Respond, RefreshConsume, RefreshFindOld,
     RefreshBlacklistOld, RefreshRevokeOldTokens, RevokeExists, RevokeBlacklist,
     RevokeJtiTokens, RevokeAllFind, RevokeAllBlacklist, RevokeAllTokens, Abort
<1>10. ASSUME NEW r \in Requests, NEW c \in Sessions,
              RefreshLookup(r, c) \/ RevokeStart(r, c) \/ RevokeAllStart(r, c)
       PROVE  RowOK(s)'
  BY <1>8, <1>10 DEF RefreshLookup, RevokeStart, RevokeAllStart
<1>11. CASE Tick \/ UNCHANGED vars
  BY <1>8, <1>11 DEF Tick, vars
<1>. QED
  BY <1>2, <1>3, <1>4, <1>5, <1>6, <1>7, <1>9, <1>10, <1>11 DEF Next, Handle

\* The inductive invariant is preserved by every step.
LEMMA IInvNext == IInv /\ [Next]_vars => IInv'
<1>. SUFFICES ASSUME IInv, [Next]_vars PROVE IInv'
  OBVIOUS
<1>1. Typed'
  BY TypedNext DEF IInv
<1>2. \A s \in Sessions : TimesOK(s)'
  BY TimesNext
<1>3. \A r \in Requests : HandlerOK(r)'
  BY HandlersNext
<1>4. \A s \in Sessions : RowOK(s)'
  BY RowsNext
<1>. QED  BY <1>1, <1>2, <1>3, <1>4 DEF IInv

\* Every reachable state satisfies the inductive invariant.
LEMMA Invariance == Spec => []IInv
BY IInvInit, IInvNext, PTL DEF Spec

-----------------------------------------------------------------------------
(* The properties                                                          *)

\* A blacklist key covers the life of the JWT it blocks, for every lifetime of
\* tokens, every resolution of the clock and every delay between the computation
\* of a ttl and the SETEX it is given to.
THEOREM KeysTrackExpiry == Spec => []BlacklistTracksExpiry
<1>1. IInv => BlacklistTracksExpiry
  BY DEF IInv, TimesOK, BlacklistTracksExpiry
<1>. QED  BY Invariance, <1>1, PTL

\* A key that was set blocks the token for as long as the token lives.
LEMMA DeadIsRejected ==
    ASSUME IInv, NEW s \in Sessions, Dead(s)
    PROVE  ~Accepted(s)
<1>1. now \in Nat /\ session[s].exp \in Nat /\ blacklist[s] \in Nat
  BY DEF IInv, Typed, Shaped, TypeOK, Jwts
<1>2. blacklist[s] # 0 => blacklist[s] >= session[s].exp
  BY DEF IInv, TimesOK
<1>. QED  BY <1>1, <1>2 DEF Dead, Accepted, Blacklisted

\* An ended session outside the window of revoke-all is refused, whatever the
\* number of requests, sessions and failures.
THEOREM EndedSessionsAreRejected == Spec => []EndedIsRejected
<1>1. IInv => EndedIsRejected
  <2>. SUFFICES ASSUME IInv, NEW s \in Sessions \ swept,
                       s \in ended \/ session[s].state = "revoked" \/ Rotated(s)
                PROVE  ~Accepted(s)
    BY DEF EndedIsRejected
  <2>1. RowOK(s) /\ issued \subseteq Sessions
    BY DEF IInv, Typed, Shaped, TypeOK
  <2>2. Dead(s)
    BY <2>1 DEF RowOK, Rotated, Covered
  <2>. QED  BY <2>2, DeadIsRejected
<1>. QED  BY Invariance, <1>1, PTL

\* A refused access token is never accepted again.
THEOREM RejectionIsFinal == Spec => RejectedStaysRejected
<1>1. IInv /\ IInv' /\ [Next]_vars
         => [\A s \in issued : ~Accepted(s) => ~Accepted(s)']_vars
  <2>. SUFFICES ASSUME IInv, IInv', [Next]_vars, NEW s \in issued, ~Accepted(s)
                PROVE  ~Accepted(s)'
    OBVIOUS
  <2>1. Stable /\ s \in Sessions /\ now \in Nat /\ blacklist[s] \in Nat
    BY StableNext DEF IInv, Typed, Shaped, TypeOK
  <2>2. Started(s)
    BY <2>1 DEF IInv, TimesOK, Stored, Started
  <2>3. Dead(s)
    BY <2>1, <2>2 DEF Accepted, Blacklisted, Dead, IInv, Typed, Shaped, TypeOK, Jwts
  <2>4. Dead(s)'
    BY <2>1, <2>3, CoveredStable DEF IInv
  <2>5. /\ now' \in Nat /\ session'[s].exp \in Nat /\ blacklist'[s] \in Nat
        /\ blacklist'[s] # 0 => blacklist'[s] >= session'[s].exp
    BY <2>1 DEF IInv, Typed, Shaped, TypeOK, Jwts, TimesOK
  <2>. QED  BY <2>4, <2>5 DEF Dead, Accepted, Blacklisted
<1>. QED  BY Invariance, <1>1, PTL DEF Spec, RejectedStaysRejected
-----------------------------------------------------------------------------
(* Rotation: what a refresh token is exchanged for                         *)

RedeemPcs == {"consume", "findOld", "blacklistOld", "revokeOld",
              "revokeOldTokens", "findUser"}
Making(r) == req[r].pc \in MadePcs

\* Two requests never make one session, a session is not received before it is
\* complete, and the token a request exchanges was received and is consumed first.
RotationOK(r) ==
    /\ Making(r) =>
          /\ req[r].made \notin issued
          /\ \A q \in Requests \ {r} : Making(q) => req[q].made # req[r].made
    /\ req[r].pc \in {"createSession", "createRefreshToken"} =>
          refresh[req[r].made].state = "none"
    /\ req[r].pc \in RedeemPcs => req[r].given \in issued
    /\ req[r].pc \in RedeemPcs \ {"consume"} => refresh[req[r].given].state = "revoked"

\* The parent of a session was received, and its refresh token is consumed.
FamilyOK(s) ==
    /\ ~Started(s) => session[s].parent = NoSession /\ refresh[s].state = "none"
    /\ session[s].parent # NoSession =>
          /\ session[s].parent \in issued
          /\ refresh[session[s].parent].state = "revoked"

RInv ==
    /\ IInv
    /\ \A r \in Requests : RotationOK(r)
    /\ \A s \in Sessions : FamilyOK(s)

\* The initial state satisfies it: nothing is being made.
LEMMA RInvInit == Init => RInv
<1>. SUFFICES ASSUME Init PROVE RInv
  OBVIOUS
<1>1. \A r \in Requests : RotationOK(r)
  BY DEF Init, Idle, RotationOK, Making, MadePcs, RedeemPcs
<1>2. \A s \in Sessions : FamilyOK(s)
  BY DEF Init, FamilyOK, NoJwt, NoRefresh
<1>. QED  BY <1>1, <1>2, IInvInit DEF RInv

\* What no step does to refresh tokens: a consumed one stays consumed, and of the
\* tokens clients hold none becomes valid.
TokensOnlyEnd ==
    /\ \A s \in Sessions : refresh[s].state = "revoked" => refresh'[s].state = "revoked"
    /\ \A s \in issued : refresh'[s].state = "valid" => refresh[s].state = "valid"

\* Revoking tokens ends them, and leaves those that were not inserted yet.
LEMMA RevokeRefreshEnds ==
    ASSUME TypeOK, NEW S, RevokeRefresh(S)
    PROVE  /\ TokensOnlyEnd
           /\ \A s \in Sessions : refresh[s].state = "none" => refresh'[s].state = "none"
           /\ \A s \in Sessions : s \in S /\ refresh[s].state # "none"
                 => refresh'[s].state = "revoked"
BY DEF TypeOK, RefreshTokens, RevokeRefresh, TokensOnlyEnd

\* Every step only takes force from the refresh tokens that clients hold.
LEMMA TokensNext == RInv /\ [Next]_vars => TokensOnlyEnd
<1>. SUFFICES ASSUME RInv, [Next]_vars PROVE TokensOnlyEnd
  OBVIOUS
<1>a. TypeOK /\ HoldsToken
  BY DEF RInv, IInv, Typed, Shaped
<1>b. \A s \in issued : s \in Sessions /\ Started(s)
  BY <1>a DEF RInv, IInv, TimesOK, Stored, Started, TypeOK
<1>1. ASSUME NEW r \in Requests, NEW s \in Sessions, NEW u, NEW parent,
             Mint(r, s, u, parent)
      PROVE  TokensOnlyEnd
  <2>1. ~Started(s) /\ refresh[s].state = "none" /\ s \notin issued
    BY <1>b, <1>1 DEF Mint, Started, RInv, FamilyOK
  <2>2. \A q \in Sessions \ {s} : refresh'[q] = refresh[q]
    BY <1>a, <1>1 DEF Mint, TypeOK
  <2>. QED  BY <1>b, <2>1, <2>2 DEF TokensOnlyEnd
<1>2. ASSUME NEW r \in Requests, CreateRefreshToken(r)
      PROVE  TokensOnlyEnd
  <2>1. /\ req[r].made \in Sessions \ issued
        /\ refresh[req[r].made].state = "none"
    BY <1>a, <1>2 DEF CreateRefreshToken, HoldsToken, RInv, RotationOK, Making, MadePcs
  <2>2. \A q \in Sessions \ {req[r].made} : refresh'[q] = refresh[q]
    BY <1>a, <1>2 DEF CreateRefreshToken, TypeOK
  <2>. QED  BY <1>b, <2>1, <2>2 DEF TokensOnlyEnd
<1>3. ASSUME NEW r \in Requests, RefreshConsume(r)
      PROVE  TokensOnlyEnd
  <2>1. req[r].given \in Sessions
    BY <1>a, <1>3 DEF RefreshConsume, HoldsToken, GivenPcs
  <2>2. /\ refresh'[req[r].given].state = "revoked"
        /\ \A q \in Sessions \ {req[r].given} : refresh'[q] = refresh[q]
    BY <1>a, <1>3, <2>1 DEF RefreshConsume, TypeOK, RefreshTokens
  <2>. QED  BY <1>b, <2>1, <2>2 DEF TokensOnlyEnd
<1>4. ASSUME NEW S, RevokeRefresh(S)
      PROVE  TokensOnlyEnd
  BY <1>a, <1>4, RevokeRefreshEnds
<1>5. ASSUME refresh' = refresh
      PROVE  TokensOnlyEnd
  BY <1>5 DEF TokensOnlyEnd
<1>. QED
  BY ZenonT(60), <1>1, <1>2, <1>3, <1>4, <1>5 DEF Next, Handle, vars, Login, CreateSession,
     Respond, RefreshLookup, RefreshFindOld, RefreshBlacklistOld, RefreshRevokeOld,
     RefreshRevokeOldTokens, RefreshFindUser, RevokeStart, RevokeExists,
     RevokeBlacklist, RevokeJti, RevokeJtiTokens, RevokeAllStart, RevokeAllFind,
     RevokeAllBlacklist, RevokeAllSessions, RevokeAllTokens, Confirm, Abort, Tick

\* A request that does nothing keeps what it relies on while another moves: the
\* one that moves makes another session, and receives, consumes and revokes none
\* that is being made.
LEMMA RotationKept ==
    ASSUME RInv, [Next]_vars, NEW r \in Requests, NEW q \in Requests, q # r,
           \A p \in Requests \ {r} : req'[p] = req[p],
           issued' \subseteq issued \cup {req[r].made},
           issued' # issued => Making(r),
           Making(r)' => \/ Making(r) /\ req'[r].made = req[r].made
                         \/ ~Started(req'[r].made),
           \A s \in Sessions : refresh[s].state = "none" =>
              \/ refresh'[s].state = "none"
              \/ Making(r) /\ s = req[r].made
              \/ s \in issued
    PROVE  RotationOK(q)'
<1>1. /\ RotationOK(q) /\ RotationOK(r) /\ req'[q] = req[q]
      /\ issued \subseteq issued' /\ TokensOnlyEnd
  BY TokensNext, StableNext DEF RInv, IInv, Stable
<1>2. /\ Making(q) => req[q].made \in Sessions /\ Started(req[q].made)
      /\ req[q].pc \in RedeemPcs => req[q].given \in Sessions
  BY DEF RInv, IInv, Typed, Shaped, HoldsToken, HandlerOK, Making, GivenPcs, RedeemPcs
<1>3. ASSUME Making(q)'
      PROVE  /\ req'[q].made \notin issued'
             /\ \A p \in Requests \ {q} : Making(p)' => req'[p].made # req'[q].made
  BY <1>1, <1>2, <1>3 DEF RotationOK, Making
<1>4. ASSUME req'[q].pc \in {"createSession", "createRefreshToken"}
      PROVE  refresh'[req'[q].made].state = "none"
  BY <1>1, <1>2, <1>4 DEF RotationOK, Making, MadePcs
<1>5. ASSUME req'[q].pc \in RedeemPcs
      PROVE  /\ req'[q].given \in issued'
             /\ req'[q].pc # "consume" => refresh'[req'[q].given].state = "revoked"
  BY <1>1, <1>2, <1>5 DEF RotationOK, RedeemPcs, TokensOnlyEnd
<1>. QED  BY <1>3, <1>4, <1>5 DEF RotationOK

\* Every step keeps what each request relies on when tokens are exchanged.
LEMMA RotationNext == RInv /\ [Next]_vars => \A q \in Requests : RotationOK(q)'
<1>. SUFFICES ASSUME RInv, [Next]_vars PROVE \A q \in Requests : RotationOK(q)'
  OBVIOUS
<1>a. /\ TypeOK /\ HoldsToken /\ TokensOnlyEnd
      /\ \A q \in Requests : RotationOK(q) /\ HandlerOK(q)
      /\ \A s \in Sessions : FamilyOK(s)
      /\ \A s \in issued : s \in Sessions /\ Started(s)
  BY TokensNext DEF RInv, IInv, Typed, Shaped, TimesOK, Stored, Started, TypeOK
\* A request that makes nothing after the step.
<1>b. ASSUME NEW r \in Requests, \A p \in Requests \ {r} : req'[p] = req[p],
             issued' = issued, req'[r].pc \notin MadePcs,
             \A s \in Sessions \ issued : refresh[s].state = "none"
                                             => refresh'[s].state = "none",
             req'[r].pc \in RedeemPcs =>
                /\ req'[r].given \in issued
                /\ req'[r].pc # "consume" => refresh'[req'[r].given].state = "revoked"
      PROVE  \A q \in Requests : RotationOK(q)'
  <2>1. RotationOK(r)'
    BY <1>b DEF RotationOK, Making, MadePcs
  <2>. QED  BY <1>b, <2>1, RotationKept DEF Making
\* A request that mints a session.
<1>c. ASSUME NEW r \in Requests, NEW s \in Sessions, NEW u, NEW parent,
             Mint(r, s, u, parent), issued' = issued
      PROVE  \A q \in Requests : RotationOK(q)'
  <2>1. ~Started(s) /\ s \notin issued
    BY <1>a, <1>c DEF Mint, Started
  <2>2. /\ \A p \in Requests \ {r} : req'[p] = req[p]
        /\ req'[r].pc = "createSession" /\ req'[r].made = s
        /\ \A q \in Sessions : refresh[q].state = "none" => refresh'[q].state = "none"
        /\ refresh'[s].state = "none"
    BY <1>a, <1>c DEF Mint, TypeOK, RequestStates
  <2>3. ASSUME NEW q \in Requests \ {r}, Making(q)
        PROVE  req[q].made # s
    BY <1>a, <2>1, <2>3 DEF HandlerOK, Making
  <2>4. RotationOK(r)'
    BY <1>c, <2>1, <2>2, <2>3 DEF RotationOK, Making, RedeemPcs
  <2>. QED  BY <1>c, <2>1, <2>2, <2>4, RotationKept DEF Making
<1>1. ASSUME NEW r \in Requests, NEW u \in Users, Login(r, u)
      PROVE  \A q \in Requests : RotationOK(q)'
  BY <1>1, <1>c DEF Login
<1>2. ASSUME NEW r \in Requests, RefreshFindUser(r)
      PROVE  \A q \in Requests : RotationOK(q)'
  BY <1>2, <1>c DEF RefreshFindUser
<1>3. ASSUME NEW r \in Requests, CreateSession(r)
      PROVE  \A q \in Requests : RotationOK(q)'
  <2>1. /\ \A p \in Requests \ {r} : req'[p] = req[p]
        /\ req'[r].pc = "createRefreshToken" /\ req'[r].made = req[r].made
        /\ refresh' = refresh /\ issued' = issued /\ Making(r)
    BY <1>a, <1>3 DEF CreateSession, Goto, GotoWith, TypeOK, RequestStates, Making, MadePcs
  <2>2. RotationOK(r)'
    BY <1>a, <1>3, <2>1 DEF CreateSession, RotationOK, Making, MadePcs, RedeemPcs
  <2>. QED  BY <2>1, <2>2, RotationKept DEF Making
<1>4. ASSUME NEW r \in Requests, CreateRefreshToken(r)
      PROVE  \A q \in Requests : RotationOK(q)'
  <2>1. /\ \A p \in Requests \ {r} : req'[p] = req[p]
        /\ req'[r].pc = "respond" /\ req'[r].made = req[r].made
        /\ issued' = issued /\ Making(r)
        /\ \A s \in Sessions \ {req[r].made} : refresh'[s] = refresh[s]
    BY <1>a, <1>4 DEF CreateRefreshToken, Goto, GotoWith, TypeOK, RequestStates, Making, MadePcs
  <2>2. RotationOK(r)'
    BY <1>a, <2>1 DEF RotationOK, Making, MadePcs, RedeemPcs
  <2>. QED  BY <2>1, <2>2, RotationKept DEF Making
<1>5. ASSUME NEW r \in Requests, Respond(r)
      PROVE  \A q \in Requests : RotationOK(q)'
  <2>1. /\ \A p \in Requests \ {r} : req'[p] = req[p]
        /\ req'[r].pc = "idle" /\ refresh' = refresh /\ Making(r)
        /\ issued' = issued \cup {req[r].made}
    BY <1>a, <1>5 DEF Respond, TypeOK, Idle, Making, MadePcs
  <2>2. RotationOK(r)'
    BY <2>1 DEF RotationOK, Making, MadePcs, RedeemPcs
  <2>. QED  BY <2>1, <2>2, RotationKept DEF Making, MadePcs
<1>6. ASSUME NEW r \in Requests, Confirm(r) \/ Abort(r)
      PROVE  \A q \in Requests : RotationOK(q)'
  BY <1>a, <1>6, <1>b DEF Confirm, Abort, TypeOK, Idle, MadePcs, RedeemPcs
<1>7. ASSUME NEW r \in Requests, NEW s \in Sessions,
             RefreshLookup(r, s) \/ RevokeStart(r, s) \/ RevokeAllStart(r, s)
      PROVE  \A q \in Requests : RotationOK(q)'
  <2>1. /\ \A p \in Requests \ {r} : req'[p] = req[p]
        /\ issued' = issued /\ refresh' = refresh
        /\ \/ req'[r].pc \in {"exists", "findAll"}
           \/ req'[r].pc = "consume" /\ req'[r].given = s /\ s \in issued
    BY <1>a, <1>7 DEF RefreshLookup, RevokeStart, RevokeAllStart, TypeOK,
       RequestStates
  <2>. QED  BY <2>1, <1>b DEF MadePcs, RedeemPcs
<1>8. ASSUME NEW r \in Requests, RefreshConsume(r)
      PROVE  \A q \in Requests : RotationOK(q)'
  <2>1. req[r].given \in issued /\ req[r].given \in Sessions
    BY <1>a, <1>8 DEF RefreshConsume, RotationOK, RedeemPcs
  <2>2. /\ \A p \in Requests \ {r} : req'[p] = req[p]
        /\ issued' = issued
        /\ req'[r].pc = "findOld" /\ req'[r].given = req[r].given
        /\ refresh'[req[r].given].state = "revoked"
        /\ \A s \in Sessions \ {req[r].given} : refresh'[s] = refresh[s]
    BY <1>a, <1>8, <2>1 DEF RefreshConsume, Goto, GotoWith, TypeOK, RequestStates, RefreshTokens
  <2>. QED  BY <2>1, <2>2, <1>b DEF MadePcs, RedeemPcs
<1>9. ASSUME NEW r \in Requests,
             RefreshFindOld(r) \/ RefreshBlacklistOld(r) \/ RefreshRevokeOld(r)
      PROVE  \A q \in Requests : RotationOK(q)'
  <2>1. req[r].given \in issued /\ refresh[req[r].given].state = "revoked"
    BY <1>a, <1>9 DEF RefreshFindOld, RefreshBlacklistOld, RefreshRevokeOld,
       RotationOK, RedeemPcs
  <2>2. /\ \A p \in Requests \ {r} : req'[p] = req[p]
        /\ issued' = issued /\ refresh' = refresh
        /\ req'[r].pc \in RedeemPcs /\ req'[r].given = req[r].given
    BY <1>a, <1>9 DEF RefreshFindOld, RefreshBlacklistOld, RefreshRevokeOld, Goto, GotoWith,
       TypeOK, RequestStates, RedeemPcs
  <2>. QED  BY <2>1, <2>2, <1>b DEF MadePcs, RedeemPcs
<1>10. ASSUME NEW r \in Requests, RefreshRevokeOldTokens(r)
       PROVE  \A q \in Requests : RotationOK(q)'
  <2>1. req[r].given \in issued /\ refresh[req[r].given].state = "revoked"
    BY <1>a, <1>10 DEF RefreshRevokeOldTokens, RotationOK, RedeemPcs
  <2>2. /\ \A p \in Requests \ {r} : req'[p] = req[p]
        /\ issued' = issued
        /\ req'[r].pc = "findUser" /\ req'[r].given = req[r].given
    BY <1>a, <1>10 DEF RefreshRevokeOldTokens, Goto, GotoWith, TypeOK, RequestStates
  <2>3. /\ \A s \in Sessions : refresh[s].state = "none" => refresh'[s].state = "none"
        /\ refresh'[req[r].given].state = "revoked"
    BY <1>a, <1>10, <2>1, RevokeRefreshEnds DEF RefreshRevokeOldTokens, TokensOnlyEnd
  <2>. QED  BY <2>1, <2>2, <2>3, <1>b DEF MadePcs, RedeemPcs
<1>11. ASSUME NEW r \in Requests,
              \/ RevokeExists(r) \/ RevokeBlacklist(r) \/ RevokeJti(r)
              \/ RevokeAllFind(r) \/ RevokeAllBlacklist(r) \/ RevokeAllSessions(r)
       PROVE  \A q \in Requests : RotationOK(q)'
  <2>1. /\ \A p \in Requests \ {r} : req'[p] = req[p]
        /\ issued' = issued /\ refresh' = refresh
        /\ req'[r].pc \in {"revokeJti", "blacklistJti", "revokeJtiTokens",
                           "blacklistAll", "revokeAllTokens"}
    <3>1. CASE RevokeAllBlacklist(r)
      <4>1. PICK ttl : GotoWith(r, "blacklistAll", ttl)
        BY <3>1 DEF RevokeAllBlacklist
      <4>. QED
        BY <1>a, <3>1, <4>1 DEF RevokeAllBlacklist, GotoWith, TypeOK, RequestStates
    <3>2. CASE RevokeExists(r)
      BY <1>a, <3>2 DEF RevokeExists, Goto, GotoWith, TypeOK, RequestStates
    <3>3. CASE RevokeAllFind(r)
      BY <1>a, <3>3 DEF RevokeAllFind, TypeOK, RequestStates
    <3>4. CASE RevokeBlacklist(r) \/ RevokeJti(r) \/ RevokeAllSessions(r)
      BY <1>a, <3>4 DEF RevokeBlacklist, RevokeJti, RevokeAllSessions, Goto, GotoWith, TypeOK,
         RequestStates
    <3>. QED  BY <1>11, <3>1, <3>2, <3>3, <3>4
  <2>. QED  BY <2>1, <1>b DEF MadePcs, RedeemPcs
<1>12. ASSUME NEW r \in Requests, RevokeJtiTokens(r) \/ RevokeAllTokens(r)
       PROVE  \A q \in Requests : RotationOK(q)'
  <2>1. /\ \A p \in Requests \ {r} : req'[p] = req[p]
        /\ issued' = issued /\ req'[r].pc = "confirm"
    BY <1>a, <1>12 DEF RevokeJtiTokens, RevokeAllTokens, Goto, GotoWith, TypeOK, RequestStates
  <2>2. \A s \in Sessions : refresh[s].state = "none" => refresh'[s].state = "none"
    BY <1>a, <1>12, RevokeRefreshEnds DEF RevokeJtiTokens, RevokeAllTokens
  <2>. QED  BY <2>1, <2>2, <1>b DEF MadePcs, RedeemPcs
<1>13. CASE Tick \/ UNCHANGED vars
  <2>1. req' = req /\ issued' = issued /\ refresh' = refresh
    BY <1>13 DEF Tick, vars
  <2>2. \A q \in Requests : RotationOK(q)
    BY <1>a
  <2>. QED  BY <2>1, <2>2 DEF RotationOK, Making
<1>. QED
  BY <1>1, <1>2, <1>3, <1>4, <1>5, <1>6, <1>7, <1>8, <1>9, <1>10, <1>11, <1>12,
     <1>13 DEF Next, Handle

\* Every step keeps that a session has a parent only once it is minted, and that
\* the parent was received and is consumed.
LEMMA FamilyNext == RInv /\ [Next]_vars => \A s \in Sessions : FamilyOK(s)'
<1>. SUFFICES ASSUME RInv, [Next]_vars, NEW s \in Sessions PROVE FamilyOK(s)'
  OBVIOUS
<1>a. /\ TypeOK /\ HoldsToken /\ TokensOnlyEnd /\ Stable
      /\ \A q \in Requests : RotationOK(q) /\ HandlerOK(q)
      /\ FamilyOK(s)
      /\ \A q \in issued : q \in Sessions
  BY TokensNext, StableNext DEF RInv, IInv, Typed, Shaped, TypeOK
\* A session that was minted before the step keeps its parent.
<1>b. CASE Started(s)
  BY <1>a, <1>b DEF FamilyOK, Stable, TokensOnlyEnd
\* One that is not minted in the step has no parent.
<1>c. ASSUME ~Started(s), session'[s] = session[s], refresh'[s].state = "none"
      PROVE  FamilyOK(s)'
  BY <1>a, <1>c DEF FamilyOK, Started
<1>d. ASSUME NEW r \in Requests, NEW c \in Sessions, NEW u,
             NEW parent \in Sessions \cup {NoSession}, Mint(r, c, u, parent),
             parent # NoSession => /\ parent \in issued
                                   /\ refresh[parent].state = "revoked"
      PROVE  FamilyOK(s)'
  <2>1. CASE s = c
    <3>1. Started(s)' /\ session'[s].parent = parent
      BY <1>a, <1>d, <2>1 DEF Mint, TypeOK, Started
    <3>. QED  BY <1>a, <1>d, <3>1 DEF FamilyOK, Stable, TokensOnlyEnd
  <2>2. CASE s # c /\ ~Started(s)
    BY <1>a, <1>c, <1>d, <2>2 DEF Mint, TypeOK, FamilyOK
  <2>. QED  BY <1>b, <2>1, <2>2
<1>1. ASSUME NEW r \in Requests, NEW u \in Users, Login(r, u)
      PROVE  FamilyOK(s)'
  BY <1>d, <1>1 DEF Login
<1>2. ASSUME NEW r \in Requests, RefreshFindUser(r)
      PROVE  FamilyOK(s)'
  <2>1. /\ req[r].given \in issued /\ req[r].given \in Sessions
        /\ refresh[req[r].given].state = "revoked"
    BY <1>a, <1>2 DEF RefreshFindUser, RotationOK, RedeemPcs
  <2>. QED  BY <1>d, <1>2, <2>1 DEF RefreshFindUser
\* The rows a request writes belong to minted sessions.
<1>3. ASSUME NEW r \in Requests, ~Started(s),
             CreateSession(r) \/ CreateRefreshToken(r) \/ RefreshConsume(r)
             \/ RefreshRevokeOld(r) \/ RevokeJti(r)
      PROVE  FamilyOK(s)'
  <2>1. /\ req[r].pc \in GivenPcs => req[r].given # s /\ req[r].given \in Sessions
        /\ req[r].pc \in MadePcs => req[r].made # s /\ req[r].made \in Sessions
    BY <1>a, <1>3 DEF HandlerOK, HoldsToken, Started, Stored
  <2>2. session'[s] = session[s] /\ refresh'[s] = refresh[s]
    BY <1>a, <1>3, <2>1 DEF CreateSession, CreateRefreshToken, RefreshConsume,
       RefreshRevokeOld, RevokeJti, GivenPcs, MadePcs, TypeOK
  <2>. QED  BY <1>a, <1>3, <1>c, <2>2 DEF FamilyOK
<1>4. ASSUME NEW r \in Requests, ~Started(s),
             RefreshRevokeOldTokens(r) \/ RevokeJtiTokens(r) \/ RevokeAllTokens(r)
      PROVE  FamilyOK(s)'
  <2>1. session' = session /\ \E S : RevokeRefresh(S)
    BY <1>4 DEF RefreshRevokeOldTokens, RevokeJtiTokens, RevokeAllTokens
  <2>. QED  BY <1>a, <1>4, <1>c, <2>1, RevokeRefreshEnds DEF FamilyOK
<1>5. ASSUME NEW r \in Requests, ~Started(s), RevokeAllSessions(r)
      PROVE  FamilyOK(s)'
  <2>1. session'[s] = session[s] /\ refresh' = refresh
    BY <1>a, <1>5 DEF RevokeAllSessions, OwnedBy, Stored, Started, TypeOK
  <2>. QED  BY <1>a, <1>5, <1>c, <2>1 DEF FamilyOK
<1>6. ASSUME session' = session, refresh' = refresh
      PROVE  FamilyOK(s)'
  BY <1>a, <1>b, <1>c, <1>6 DEF FamilyOK
<1>. QED
  BY <1>b, <1>1, <1>2, <1>3, <1>4, <1>5, <1>6 DEF Next, Handle, vars, Respond,
     RefreshLookup, RefreshFindOld, RefreshBlacklistOld, RevokeStart, RevokeExists,
     RevokeBlacklist, RevokeAllStart, RevokeAllFind, RevokeAllBlacklist, Confirm,
     Abort, Tick

\* Every reachable state satisfies the invariant of rotation.
LEMMA RInvariance == Spec => []RInv
<1>1. RInv /\ [Next]_vars => RInv'
  BY RotationNext, FamilyNext, IInvNext DEF RInv
<1>. QED  BY RInvInit, <1>1, PTL DEF Spec

-----------------------------------------------------------------------------
(* A spent token stays spent                                               *)

\* A request comes to redeem a token only by looking it up.
LEMMA OnlyLookupRedeems ==
    ASSUME TypeOK, [Next]_vars, NEW q \in Requests, NEW s \in Sessions,
           Redeeming(q, s)', ~Redeeming(q, s)
    PROVE  RefreshLookup(q, s)
<1>a. /\ req'[q].pc \in RedeemPcs /\ req'[q].given = s /\ req'[q] # req[q]
      /\ ~(req[q].pc \in RedeemPcs /\ req[q].given = s)
  BY DEF Redeeming, RedeemPcs
<1>1. ASSUME NEW r \in Requests, Handle(r), r # q
      PROVE  FALSE
  <2>1. req'[q] = req[q]
    BY <1>1 DEF Handle, Login, CreateSession, CreateRefreshToken, Respond,
       RefreshLookup, RefreshConsume, RefreshFindOld, RefreshBlacklistOld,
       RefreshRevokeOld, RefreshRevokeOldTokens, RefreshFindUser, RevokeStart,
       RevokeExists, RevokeBlacklist, RevokeJti, RevokeJtiTokens, RevokeAllStart,
       RevokeAllFind, RevokeAllBlacklist, RevokeAllSessions, RevokeAllTokens,
       Confirm, Abort, Mint, Goto, GotoWith, TypeOK
  <2>. QED  BY <1>a, <2>1
<1>2. ASSUME NEW c, NEW u, NEW parent, Mint(q, c, u, parent)
      PROVE  FALSE
  BY <1>a, <1>2 DEF Mint, TypeOK, RequestStates, RedeemPcs
<1>3. CASE RefreshFindUser(q) \/ \E u \in Users : Login(q, u)
  BY <1>2, <1>3 DEF RefreshFindUser, Login
<1>3b. CASE CreateSession(q) \/ CreateRefreshToken(q) \/ Respond(q) \/ Confirm(q)
              \/ Abort(q)
  <2>1. req'[q].pc \in {"createRefreshToken", "respond", "idle"}
    BY <1>3b DEF CreateSession, CreateRefreshToken, Respond, Confirm, Abort, Goto, GotoWith, Idle,
       TypeOK, RequestStates
  <2>. QED  BY <1>a, <2>1 DEF RedeemPcs
<1>4. CASE RefreshConsume(q) \/ RefreshFindOld(q) \/ RefreshBlacklistOld(q)
             \/ RefreshRevokeOld(q) \/ RefreshRevokeOldTokens(q)
  <2>1. req'[q].given = req[q].given /\ req[q].pc \in RedeemPcs
    BY <1>4 DEF RefreshConsume, RefreshFindOld, RefreshBlacklistOld, RefreshRevokeOld,
       RefreshRevokeOldTokens, Goto, GotoWith, TypeOK, RequestStates, RedeemPcs
  <2>. QED  BY <1>a, <2>1
<1>5. CASE RevokeExists(q) \/ RevokeBlacklist(q) \/ RevokeJti(q)
             \/ RevokeJtiTokens(q) \/ RevokeAllFind(q) \/ RevokeAllSessions(q)
             \/ RevokeAllTokens(q)
  <2>1. CASE RevokeExists(q) \/ RevokeBlacklist(q) \/ RevokeJti(q)
               \/ RevokeAllSessions(q) \/ RevokeAllTokens(q)
    <3>1. req'[q].pc \in {"revokeJti", "blacklistJti", "revokeJtiTokens",
                          "revokeAllTokens", "confirm"}
      BY <2>1 DEF RevokeExists, RevokeBlacklist, RevokeJti, RevokeAllSessions,
         RevokeAllTokens, Goto, GotoWith, TypeOK, RequestStates
    <3>. QED  BY <1>a, <3>1 DEF RedeemPcs
  <2>2. CASE RevokeJtiTokens(q)
    BY <1>a, <2>2 DEF RevokeJtiTokens, TypeOK, RequestStates, RedeemPcs
  <2>3. CASE RevokeAllFind(q)
    BY <1>a, <2>3 DEF RevokeAllFind, TypeOK, RequestStates, RedeemPcs
  <2>. QED  BY <1>5, <2>1, <2>2, <2>3
<1>6. CASE RevokeAllBlacklist(q)
  <2>1. PICK ttl : GotoWith(q, "blacklistAll", ttl)
    BY <1>6 DEF RevokeAllBlacklist
  <2>2. req'[q].pc = "blacklistAll"
    BY <1>6, <2>1 DEF GotoWith, TypeOK, RequestStates
  <2>. QED  BY <1>a, <2>2 DEF RedeemPcs
<1>7. ASSUME NEW c \in Sessions,
             RefreshLookup(q, c) \/ RevokeStart(q, c) \/ RevokeAllStart(q, c)
      PROVE  RefreshLookup(q, s)
  <2>1. CASE RefreshLookup(q, c)
    <3>1. req'[q].given = c
      BY <2>1 DEF RefreshLookup, TypeOK, RequestStates
    <3>. QED  BY <1>a, <2>1, <3>1
  <2>2. CASE RevokeStart(q, c) \/ RevokeAllStart(q, c)
    <3>1. req'[q].pc \in {"exists", "findAll"}
      BY <2>2 DEF RevokeStart, RevokeAllStart, TypeOK, RequestStates
    <3>. QED  BY <1>a, <3>1 DEF RedeemPcs
  <2>. QED  BY <1>7, <2>1, <2>2
<1>8. CASE Tick \/ UNCHANGED vars
  BY <1>a, <1>8 DEF Tick, vars
<1>. QED
  BY <1>1, <1>3, <1>3b, <1>4, <1>5, <1>6, <1>7, <1>8 DEF Next, Handle

\* A session gets a parent only from a request that redeems the parent's token.
LEMMA OnlyRedeemingMakesChildren ==
    ASSUME RInv, [Next]_vars, NEW c \in Sessions,
           session'[c].parent # session[c].parent
    PROVE  \E r \in Requests : Redeeming(r, session'[c].parent)
<1>a. /\ TypeOK /\ HoldsToken /\ Stable
      /\ \A q \in Requests : HandlerOK(q)
      /\ FamilyOK(c)
  BY StableNext DEF RInv, IInv, Typed, Shaped
<1>b. ~Started(c) /\ session[c].parent = NoSession
  BY <1>a DEF Stable, FamilyOK
<1>1. ASSUME NEW r \in Requests, RefreshFindUser(r)
      PROVE  Redeeming(r, session'[c].parent)
  <2>1. PICK s \in Sessions : Mint(r, s, req[r].user, req[r].given)
    BY <1>1 DEF RefreshFindUser
  <2>2. session'[c].parent = req[r].given
    BY <1>a, <2>1 DEF Mint, TypeOK
  <2>. QED  BY <1>1, <2>2 DEF RefreshFindUser, Redeeming
<1>2. ASSUME NEW r \in Requests, NEW u \in Users, Login(r, u)
      PROVE  FALSE
  <2>1. PICK s \in Sessions : Mint(r, s, u, NoSession)
    BY <1>2 DEF Login
  <2>. QED  BY <1>a, <1>b, <2>1 DEF Mint, TypeOK
<1>3. ASSUME NEW r \in Requests,
             CreateSession(r) \/ RefreshRevokeOld(r) \/ RevokeJti(r)
      PROVE  FALSE
  BY <1>a, <1>3 DEF CreateSession, RefreshRevokeOld, RevokeJti, TypeOK, Jwts
<1>4. ASSUME NEW r \in Requests, RevokeAllSessions(r)
      PROVE  FALSE
  BY <1>a, <1>4 DEF RevokeAllSessions, TypeOK, Jwts
<1>5. ASSUME session' = session
      PROVE  FALSE
  BY <1>5
<1>. QED
  BY <1>1, <1>2, <1>3, <1>4, <1>5 DEF Next, Handle, vars, CreateRefreshToken, Respond,
     RefreshLookup, RefreshConsume, RefreshFindOld, RefreshBlacklistOld,
     RefreshRevokeOldTokens, RevokeStart, RevokeExists, RevokeBlacklist,
     RevokeJtiTokens, RevokeAllStart, RevokeAllFind, RevokeAllBlacklist,
     RevokeAllTokens, Confirm, Abort, Tick

\* A spent refresh token stays revoked and no session is made from it any more,
\* for any number of requests that present it.
THEOREM SpentTokensStaySpent == Spec => SpentStaysSpent
<1>1. RInv /\ [Next]_vars
         => [\A s \in Sessions : Spent(s) => Spent(s)' /\ Children(s)' = Children(s)]_vars
  <2>. SUFFICES ASSUME RInv, [Next]_vars, NEW s \in Sessions, Spent(s)
                PROVE  Spent(s)' /\ Children(s)' = Children(s)
    OBVIOUS
  <2>1. TypeOK /\ TokensOnlyEnd
    BY TokensNext DEF RInv, IInv, Typed, Shaped
  <2>2. refresh'[s].state = "revoked"
    BY <2>1 DEF Spent, TokensOnlyEnd
  <2>3. ASSUME NEW q \in Requests
        PROVE  ~Redeeming(q, s)'
    BY <2>1, OnlyLookupRedeems DEF Spent, RefreshLookup
  <2>4. ASSUME NEW c \in Sessions
        PROVE  session'[c].parent = s <=> session[c].parent = s
    <3>1. CASE session'[c].parent = session[c].parent
      BY <3>1
    <3>2. CASE session'[c].parent # session[c].parent
      <4>1. session'[c].parent # s
        BY <3>2, OnlyRedeemingMakesChildren DEF Spent
      <4>2. session[c].parent # s
        <5>1. ~Started(c)
          BY <3>2, StableNext DEF RInv, IInv, Stable
        <5>. QED  BY <5>1, NoSessionAssumption DEF RInv, FamilyOK
      <4>. QED  BY <4>1, <4>2
    <3>. QED  BY <3>1, <3>2
  <2>5. Spent(s)'
    BY <2>2, <2>3 DEF Spent
  <2>6. Children(s)' = Children(s)
    BY <2>4 DEF Children
  <2>. QED  BY <2>5, <2>6
<1>. QED  BY RInvariance, <1>1, PTL DEF Spec, SpentStaysSpent

-----------------------------------------------------------------------------
(* AuthSessions implements SessionRegistry                                 *)

Live == {s \in issued \ swept : Accepted(s)}
Redeemable == {s \in issued : refresh[s].state = "valid"}
Source == [s \in Sessions |->
             IF s \in issued THEN session[s].parent ELSE NoSession]

\* No step but an answer adds to what clients hold, and none gives a token force.
LEMMA ForceOnlyEnds ==
    ASSUME RInv, RInv', [Next]_vars, NEW s \in issued
    PROVE  /\ s \in Sessions /\ s \in issued'
           /\ s \in Live' => s \in Live
           /\ s \in Redeemable' => s \in Redeemable
           /\ session'[s].parent = session[s].parent
<1>1. TypeOK /\ TypeOK' /\ Stable /\ TokensOnlyEnd /\ s \in Sessions
  BY TokensNext, StableNext DEF RInv, IInv, Typed, Shaped, TypeOK
<1>2. Started(s) /\ TimesOK(s)'
  BY <1>1 DEF RInv, IInv, TimesOK, Stored, Started
<1>3. Accepted(s)' => Accepted(s)
  BY <1>1, <1>2, CoveredStable DEF RInv, IInv, Typed, Shaped, TypeOK, Jwts, TimesOK, Dead,
     Accepted, Blacklisted, Stable, Started
<1>. QED  BY <1>1, <1>2, <1>3 DEF Stable, Live, Redeemable, TokensOnlyEnd

\* The answer to a login or a refresh issues one pair, and its predecessor has
\* lost both its tokens by then.
LEMMA RespondIssues ==
    ASSUME RInv, RInv', [Next]_vars, NEW r \in Requests, Respond(r)
    PROVE  Registry!RegistryNext
<1>b. TypeOK /\ TypeOK' /\ issued \subseteq Sessions
  BY DEF RInv, IInv, Typed, Shaped, TypeOK
<1>c. PICK s \in Sessions : s = req[r].made
  BY DEF Respond, RInv, IInv, Typed, Shaped, HoldsToken, MadePcs
<1>d. PICK p \in Sessions \cup {NoSession} : p = session[s].parent
  BY <1>b DEF TypeOK, Jwts
<1>a. /\ s \notin issued /\ RotationOK(r)
      /\ issued' = issued \cup {s} /\ session' = session /\ swept' = swept
  BY <1>c DEF Respond, RInv, MadePcs, RotationOK, Making
<1>1. p # NoSession => /\ p \in issued /\ p \in Sessions
                       /\ refresh[p].state = "revoked" /\ Covered(p)
  BY <1>b, <1>d DEF RInv, IInv, FamilyOK, RowOK
<1>2. p # NoSession => p \in issued /\ p \notin Live /\ p \notin Redeemable
  BY <1>1, DeadIsRejected DEF RInv, Covered, Live, Redeemable
<1>3. PICK L \in SUBSET {s} : Live' = Live \cup L
  <2>1. \A q \in issued : q \in Live' <=> q \in Live
    BY <1>a DEF Respond, Live, Accepted, Blacklisted
  <2>2. Live' = Live \cup (Live' \cap {s})
    BY <1>a, <2>1 DEF Live
  <2>. QED  BY <2>2
<1>4. PICK R \in SUBSET {s} : Redeemable' = Redeemable \cup R
  <2>1. \A q \in issued : q \in Redeemable' <=> q \in Redeemable
    BY <1>a DEF Respond, Redeemable
  <2>2. Redeemable' = Redeemable \cup (Redeemable' \cap {s})
    BY <1>a, <2>1 DEF Redeemable
  <2>. QED  BY <2>2
<1>5. Source' = [Source EXCEPT ![s] = p]
  BY <1>a, <1>d DEF Source
<1>6. Registry!Issue(s, p)
  BY <1>a, <1>2, <1>3, <1>4, <1>5
     DEF Registry!Issue, Live, Redeemable, Source
<1>. QED  BY <1>6 DEF Registry!RegistryNext

\* Every other step takes force from tokens, or changes nothing a client sees.
LEMMA OthersEnd ==
    ASSUME RInv, RInv', [Next]_vars, issued' = issued
    PROVE  Registry!RegistryNext
<1>1. \A s \in issued : /\ s \in Sessions
                        /\ s \in Live' => s \in Live
                        /\ s \in Redeemable' => s \in Redeemable
                        /\ session'[s].parent = session[s].parent
  BY ForceOnlyEnds
<1>2. Live' = Live \ (Live \ Live')
  BY <1>1 DEF Live
<1>3. Redeemable' = Redeemable \ (Redeemable \ Redeemable')
  BY <1>1 DEF Redeemable
<1>4. Source' = Source
  BY <1>1 DEF Source
<1>5. PICK A \in SUBSET Live, R \in SUBSET Redeemable :
          A = Live \ Live' /\ R = Redeemable \ Redeemable'
  OBVIOUS
<1>6. Registry!End(A, R)
  BY <1>2, <1>3, <1>4, <1>5 DEF Registry!End, Live, Redeemable, Source
<1>. QED  BY <1>6 DEF Registry!RegistryNext, Live, Redeemable

\* AuthService keeps the registry's promise, for every number of sessions, users
\* and requests, every lifetime of tokens, and wherever a request fails.
THEOREM ServiceImplementsRegistry == Spec => ImplementsRegistry
<1>1. Init => Registry!RegistryInit
  <2>. SUFFICES ASSUME Init PROVE Registry!RegistryInit
    OBVIOUS
  <2>1. Live = {} /\ Redeemable = {} /\ Source = [s \in Sessions |-> NoSession]
    BY DEF Init, Live, Redeemable, Source
  <2>. QED  BY <2>1 DEF Init, Registry!RegistryInit, Live, Redeemable, Source
<1>2. RInv /\ RInv' /\ [Next]_vars
         => [Registry!RegistryNext]_(Registry!registryVars)
  <2>. SUFFICES ASSUME RInv, RInv', [Next]_vars PROVE Registry!RegistryNext
    OBVIOUS
  <2>1. (\E r \in Requests : Respond(r)) \/ issued' = issued
    BY ZenonT(60) DEF Next, Handle, vars, Login, CreateSession, CreateRefreshToken,
       RefreshLookup, RefreshConsume, RefreshFindOld, RefreshBlacklistOld,
       RefreshRevokeOld, RefreshRevokeOldTokens, RefreshFindUser, RevokeStart,
       RevokeExists, RevokeBlacklist, RevokeJti, RevokeJtiTokens, RevokeAllStart,
       RevokeAllFind, RevokeAllBlacklist, RevokeAllSessions, RevokeAllTokens,
       Confirm, Abort, Tick
  <2>. QED  BY <2>1, RespondIssues, OthersEnd
<1>. QED
  BY RInvariance, <1>1, <1>2, PTL
     DEF Spec, ImplementsRegistry, Registry!RegistrySpec

=============================================================================
