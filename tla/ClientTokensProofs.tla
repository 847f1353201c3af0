------------------------- MODULE ClientTokensProofs -------------------------
(***************************************************************************)
(* Proofs about ClientTokens, for any sessions and calls: type correctness *)
(* and that the refresh the calls share does the tab no harm.              *)
(* About Stories, for any batch size and number of cleanup jobs: they      *)
(* remove what has expired, all of it and nothing else.  The two share no  *)
(* state; Stories names its formulas so that one module can extend both.   *)
(***************************************************************************)
EXTENDS ClientTokens, Stories, FiniteSetTheorems, TLAPS

-----------------------------------------------------------------------------
(* The inductive invariant                                                 *)

\* The store holds a pair while the tab is signed in, and a refresh exchanges
\* this one.
StoreOK ==
    /\ pair \in issued \cup {NoSession}
    /\ signedIn <=> pair # NoSession
    /\ Refreshing => refresh.given = pair /\ pair # NoSession

\* What was presented, and is not being exchanged, was presented by a page that
\* was unloaded.
PresentedOK ==
    /\ presented \subseteq issued
    /\ orphans \subseteq cut
    /\ ~Refreshing /\ pair \in presented => pair \in cut

\* The answer of a refresh is a new pair, which can be exchanged in its turn.
AnswerOK ==
    refresh.pc = "answered" =>
        /\ refresh.made \in issued \ presented
        /\ refresh.made \in redeemable \cup revoked \cup cut

PairInv == StoreOK /\ PresentedOK /\ AnswerOK /\ RefreshKeepsSession

-----------------------------------------------------------------------------
(* Types                                                                   *)

CallType ==
    [pc : {"idle", "sent", "passed", "401", "waiting"}, token : Tokens, retry : BOOLEAN]

RefreshType ==
    [pc : {"idle", "sent", "consumed", "rotated", "answered", "rejected"},
     given : Tokens, made : Tokens]

LEMMA NothingTyped ==
    /\ NoCall \in CallType /\ NoRefresh \in RefreshType /\ NoRefresh.pc = "idle"
    /\ NoSocket \in [at : Places, token : Tokens]
BY DEF NoCall, NoRefresh, NoSocket, CallType, RefreshType, Tokens, Places

LEMMA TypeInit == Init => TypesOK
<1>. SUFFICES ASSUME Init PROVE TypesOK
  OBVIOUS
<1>1. /\ issued \subseteq Sessions /\ live \subseteq issued /\ redeemable \subseteq issued
      /\ source \in [Sessions -> Tokens] /\ pair \in Tokens /\ signedIn \in BOOLEAN
  BY DEF Init, RegistryInit, Tokens
<1>2. call \in [Calls -> CallType] /\ refresh \in RefreshType
  BY NothingTyped DEF Init
<1>. QED  BY <1>1, <1>2, NothingTyped DEF Init, TypesOK, CallType, RefreshType

\* A pair the server issues is of a session nobody has received.
LEMMA FreshIsNew ==
    ASSUME TypesOK, Sessions # issued
    PROVE  Fresh \in Sessions \ issued
<1>1. \E s \in Sessions : s \notin issued
  BY DEF TypesOK
<1>. QED  BY <1>1 DEF Fresh

LEMMA Issued ==
    ASSUME TypesOK, NEW s \in Sessions, NEW p \in Tokens, Issue(s, p)
    PROVE  /\ issued' = issued \cup {s} /\ issued' \subseteq Sessions
           /\ live' \subseteq issued' /\ redeemable' \subseteq issued'
           /\ redeemable' \ {s} = redeemable \ {s}
           /\ source' \in [Sessions -> Tokens]
BY DEF Issue, TypesOK

LEMMA Ended ==
    ASSUME TypesOK, NEW A, NEW R, End(A, R)
    PROVE  /\ issued' = issued /\ source' = source
           /\ live' \subseteq issued /\ redeemable' = redeemable \ R
           /\ redeemable' \subseteq issued
BY DEF End, TypesOK

LEMMA RefreshTyped ==
    ASSUME TypesOK, refresh.pc # "idle" => refresh.given \in Sessions, RefreshStep
    PROVE  TypesOK'
<1>1. refresh \in RefreshType /\ call \in [Calls -> CallType]
  BY DEF TypesOK, RefreshType, CallType
<1>2. CASE RefreshDone
  <2>1. call' \in [Calls -> CallType]
    BY <1>1, <1>2 DEF RefreshDone, CallType, RefreshType
  <2>2. pair' \in Tokens /\ refresh' \in RefreshType
    BY <1>1, <1>2, NothingTyped DEF RefreshDone, RefreshType
  <2>. QED  BY <1>2, <2>1, <2>2 DEF RefreshDone, TypesOK, CallType, RefreshType, registryVars, history
<1>3. CASE RefreshFails
  <2>1. call' \in [Calls -> CallType] /\ refresh' \in RefreshType
    BY <1>1, <1>3, NothingTyped DEF RefreshFails
  <2>2. pair' \in Tokens /\ signedIn' \in BOOLEAN /\ leaving' \in BOOLEAN
        /\ sock' \in [at : Places, token : Tokens]
    BY <1>3, NothingTyped DEF RefreshFails, ClearTokens, Tokens
  <2>. QED  BY <1>3, <2>1, <2>2 DEF RefreshFails, TypesOK, CallType, RefreshType, registryVars, history
<1>4. CASE RefreshConsume
  <2>1. refresh' \in RefreshType
    BY <1>1, <1>4 DEF RefreshConsume, RefreshType
  <2>. QED  BY <1>4, <2>1 DEF RefreshConsume, TypesOK, RefreshType, End, registryVars, store, history
<1>5. CASE RefreshRotate
  <2>1. refresh' \in RefreshType
    BY <1>1, <1>5 DEF RefreshRotate, RefreshType
  <2>. QED  BY <1>5, <2>1 DEF RefreshRotate, TypesOK, RefreshType, End, store, history
<1>6. CASE RefreshIssue
  <2>1. Fresh \in Sessions
    BY <1>6, FreshIsNew DEF RefreshIssue
  <2>2. refresh' \in RefreshType
    BY <1>1, <1>6, <2>1 DEF RefreshIssue, RefreshType, Tokens
  <2>3. /\ issued' \subseteq Sessions /\ live' \subseteq issued' /\ redeemable' \subseteq issued'
        /\ source' \in [Sessions -> Tokens]
    BY <1>1, <1>6, <2>1, Issued DEF RefreshIssue, RefreshType
  <2>4. revoked' \subseteq Sessions
    BY <1>6, <2>1 DEF RefreshIssue, RevokedOnTheWay, TypesOK
  <2>. QED  BY ZenonT(60), <1>6, <2>2, <2>3, <2>4 DEF RefreshIssue, TypesOK, RefreshType, store
<1>. QED  BY <1>2, <1>3, <1>4, <1>5, <1>6 DEF RefreshStep

LEMMA CallTyped ==
    ASSUME TypesOK, NEW c \in Calls, Call(c)
    PROVE  TypesOK'
<1>1. refresh \in RefreshType /\ call \in [Calls -> CallType] /\ pair \in Tokens
  BY DEF TypesOK, RefreshType, CallType
<1>2. call' \in [Calls -> CallType]
  <2>1. CASE Send(c)
    <3>1. [pc |-> "sent", token |-> pair, retry |-> FALSE] \in CallType
      BY <1>1 DEF CallType
    <3>. QED  BY <1>1, <2>1, <3>1 DEF Send
  <2>2. CASE Serve(c) \/ Refresh(c)
    BY <1>1, <2>2 DEF Serve, Refresh, CallType
  <2>3. CASE Finish(c) \/ RefreshWithout(c)
    BY <1>1, <2>3, NothingTyped DEF Finish, RefreshWithout
  <2>. QED  BY <2>1, <2>2, <2>3 DEF Call
<1>3. CASE Send(c) \/ Serve(c) \/ Finish(c)
  BY <1>2, <1>3 DEF Send, Serve, Finish, TypesOK, CallType, registryVars, store, history
<1>4. CASE Refresh(c)
  <2>1. refresh' \in RefreshType
    BY <1>1, <1>4 DEF Refresh, RefreshType, NoRefresh, Tokens
  <2>2. presented' \subseteq Sessions /\ twice' \subseteq Sessions
    BY <1>1, <1>4 DEF Refresh, TypesOK, Tokens
  <2>. QED  BY ZenonT(60), <1>2, <1>4, <2>1, <2>2 DEF Refresh, TypesOK, CallType, RefreshType, registryVars, store
<1>5. CASE RefreshWithout(c)
  <2>1. pair' \in Tokens /\ signedIn' \in BOOLEAN /\ leaving' \in BOOLEAN
        /\ sock' \in [at : Places, token : Tokens]
    BY <1>5, NothingTyped DEF RefreshWithout, ClearTokens, Tokens
  <2>. QED  BY <1>2, <1>5, <2>1 DEF RefreshWithout, TypesOK, CallType, registryVars, history
<1>. QED  BY <1>3, <1>4, <1>5 DEF Call

LEMMA TypeNext == TypesOK /\ StoreOK /\ [Next]_vars => TypesOK'
<1>. SUFFICES ASSUME TypesOK, StoreOK, [Next]_vars PROVE TypesOK'
  OBVIOUS
<1>1. refresh.pc # "idle" => refresh.given \in Sessions
  BY DEF StoreOK, Refreshing, TypesOK
<1>2. CASE Login
  <2>1. Fresh \in Sessions /\ NoSession \in Tokens
    BY <1>2, FreshIsNew DEF Login, Tokens
  <2>2. /\ issued' \subseteq Sessions /\ live' \subseteq issued' /\ redeemable' \subseteq issued'
        /\ source' \in [Sessions -> Tokens]
    BY <1>2, <2>1, Issued DEF Login
  <2>3. /\ pair' \in Tokens /\ signedIn' \in BOOLEAN /\ revoked' \subseteq Sessions
        /\ sock' \in [at : Places, token : Tokens]
    BY <1>2, <2>1 DEF Login, Connecting, RevokedOnTheWay, Tokens, Places, TypesOK
  <2>. QED  BY ZenonT(60), <1>2, <2>2, <2>3 DEF Login, TypesOK, page
<1>3. ASSUME NEW s \in Sessions, Expire(s) \/ RevokeElsewhere(s) \/ OrphanConsume(s)
      PROVE  TypesOK'
  BY <1>3 DEF Expire, RevokeElsewhere, OrphanConsume, End, TypesOK, store, page, history
<1>4. CASE Reload
  <2>1. call' \in [Calls -> CallType] /\ refresh' \in RefreshType
    BY <1>4, NothingTyped DEF Reload
  <2>2. sock' \in [at : Places, token : Tokens]
    BY <1>4, NothingTyped DEF Reload, Connecting, Places, TypesOK
  <2>3. orphans' \subseteq Sessions /\ cut' \subseteq Sessions
    BY <1>1, <1>4 DEF Reload, Refreshing, TypesOK
  <2>. QED  BY ZenonT(60), <1>4, <2>1, <2>2, <2>3 DEF Reload, TypesOK, CallType, RefreshType, registryVars, store
<1>5. CASE Handshake \/ Drop \/ GiveUp
  BY <1>5 DEF Handshake, Drop, GiveUp, Places, TypesOK, registryVars, store, page, history
<1>6. CASE UNCHANGED vars
  BY <1>6 DEF vars, TypesOK, registryVars, store, page, history
<1>. QED  BY <1>1, <1>2, <1>3, <1>4, <1>5, <1>6, CallTyped, RefreshTyped DEF Next

-----------------------------------------------------------------------------
(* The pair of the store                                                   *)

LEMMA PairInit == Init => PairInv
BY NoSessionAssumption
   DEF Init, RegistryInit, PairInv, StoreOK, PresentedOK, AnswerOK, RefreshKeepsSession,
       PairIsRedeemable, PresentedOnce, Refreshing, NoRefresh

\* Steps that touch neither the store, nor the refresh, nor what is redeemable.
LEMMA PairStays ==
    ASSUME PairInv,
           UNCHANGED <<issued, redeemable, store, refresh, orphans, history>>
    PROVE  PairInv'
BY DEF PairInv, StoreOK, PresentedOK, AnswerOK, RefreshKeepsSession, PairIsRedeemable,
       PresentedOnce, Refreshing, store, history

\* A refresh token that loses its force elsewhere has been revoked, or was being
\* exchanged by a page that was unloaded.
LEMMA EndPair ==
    ASSUME TypesOK, PairInv, NEW s \in Sessions,
           redeemable' = redeemable \ {s}, revoked \subseteq revoked',
           s \in revoked' \cup cut, orphans' \subseteq orphans,
           UNCHANGED <<issued, store, refresh, cut, presented, twice>>
    PROVE  PairInv'
BY DEF PairInv, StoreOK, PresentedOK, AnswerOK, RefreshKeepsSession, PairIsRedeemable,
       PresentedOnce, Refreshing, store

\* The tab has signed out.
LEMMA SignedOutPair ==
    ASSUME TypesOK, PairInv, ClearTokens, refresh' = NoRefresh,
           UNCHANGED <<registryVars, orphans, history>>
    PROVE  PairInv'
<1>1. pair' = NoSession /\ ~signedIn' /\ NoSession \notin presented
  BY NoSessionAssumption DEF ClearTokens, TypesOK
<1>. QED
  BY <1>1 DEF PairInv, StoreOK, PresentedOK, AnswerOK, RefreshKeepsSession, PairIsRedeemable,
     PresentedOnce, Refreshing, NoRefresh, registryVars, history

\* The server's part of a refresh, up to the new pair.
LEMMA ExchangePair ==
    ASSUME TypesOK, PairInv, RefreshConsume \/ RefreshRotate
    PROVE  PairInv'
<1>1. /\ Refreshing /\ Refreshing' /\ refresh'.given = refresh.given
      /\ refresh'.pc # "answered"
      /\ UNCHANGED <<issued, store, orphans, history>>
  BY DEF RefreshConsume, RefreshRotate, Refreshing, End, registryVars, TypesOK
<1>. QED
  BY <1>1 DEF PairInv, StoreOK, PresentedOK, AnswerOK, RefreshKeepsSession, PairIsRedeemable,
     PresentedOnce, Refreshing, store, history

LEMMA IssuePair ==
    ASSUME TypesOK, PairInv, RefreshIssue
    PROVE  PairInv'
<1>1. Fresh \in Sessions \ issued
  BY FreshIsNew DEF RefreshIssue
<1>2. issued' = issued \cup {Fresh}
  BY <1>1, Issued DEF RefreshIssue, TypesOK
<1>3. /\ Refreshing /\ Refreshing' /\ refresh'.given = refresh.given /\ refresh'.made = Fresh
      /\ UNCHANGED <<store, orphans, cut, presented, twice>>
      /\ Fresh \in redeemable' \cup revoked'
  BY DEF RefreshIssue, Refreshing, RevokedOnTheWay, TypesOK
<1>. QED
  BY <1>1, <1>2, <1>3 DEF PairInv, StoreOK, PresentedOK, AnswerOK, RefreshKeepsSession,
     PairIsRedeemable, PresentedOnce, Refreshing, store

\* The new pair is stored.
LEMMA DonePair ==
    ASSUME TypesOK, PairInv, RefreshDone
    PROVE  PairInv'
<1>1. /\ refresh.pc = "answered" /\ ~Refreshing' /\ pair' = refresh.made
      /\ refresh'.pc = "idle"
      /\ UNCHANGED <<issued, redeemable, signedIn, orphans, cut, revoked, presented, twice>>
  BY DEF RefreshDone, Refreshing, NoRefresh, registryVars, history
<1>2. /\ refresh.made \in issued \ presented /\ signedIn
      /\ refresh.made \in redeemable \cup revoked \cup cut
      /\ refresh.made # NoSession
  BY <1>1, NoSessionAssumption DEF PairInv, AnswerOK, StoreOK, Refreshing, TypesOK
<1>. QED
  BY <1>1, <1>2 DEF PairInv, StoreOK, PresentedOK, AnswerOK, RefreshKeepsSession,
     PairIsRedeemable, PresentedOnce, Refreshing

\* A refresh starts only when none is in flight, with a token never presented.
LEMMA StartPair ==
    ASSUME TypesOK, PairInv, NEW c \in Calls, Refresh(c)
    PROVE  PairInv'
<1>1. CASE Refreshing
  BY <1>1, PairStays DEF Refresh, registryVars, store, history
<1>2. CASE ~Refreshing
  <2>1. /\ pair # NoSession /\ Refreshing' /\ refresh'.given = pair
        /\ refresh'.pc # "answered"
        /\ presented' = presented \cup {pair}
        /\ twice' = IF pair \in presented THEN twice \cup {pair} ELSE twice
        /\ UNCHANGED <<issued, redeemable, pair, signedIn, orphans, cut, revoked>>
    BY <1>2 DEF Refresh, Refreshing, NoRefresh, registryVars, store
  <2>. QED
    BY <1>2, <2>1 DEF PairInv, StoreOK, PresentedOK, AnswerOK, RefreshKeepsSession,
       PairIsRedeemable, PresentedOnce
<1>. QED  BY <1>1, <1>2

LEMMA LoginPair ==
    ASSUME TypesOK, PairInv, Login
    PROVE  PairInv'
<1>1. Fresh \in Sessions \ issued /\ Fresh # NoSession
  BY FreshIsNew, NoSessionAssumption DEF Login
<1>2. issued' = issued \cup {Fresh}
  BY <1>1, Issued DEF Login, Tokens
<1>3. /\ pair' = Fresh /\ signedIn' /\ ~Refreshing
      /\ UNCHANGED <<refresh, orphans, cut, presented, twice>>
      /\ Fresh \in redeemable' \cup revoked'
  BY DEF Login, RevokedOnTheWay, PairInv, StoreOK, page
<1>. QED
  BY <1>1, <1>2, <1>3 DEF PairInv, StoreOK, PresentedOK, AnswerOK, RefreshKeepsSession,
     PairIsRedeemable, PresentedOnce, Refreshing

\* The page that is unloaded cuts the refresh it had in flight.
LEMMA ReloadPair ==
    ASSUME TypesOK, PairInv, Reload
    PROVE  PairInv'
<1>1. /\ ~Refreshing' /\ refresh'.pc = "idle"
      /\ cut' = IF Refreshing THEN cut \cup {refresh.given} ELSE cut
      /\ orphans' \subseteq cut'
      /\ UNCHANGED <<issued, redeemable, pair, signedIn, revoked, presented, twice>>
  BY DEF Reload, Refreshing, NoRefresh, registryVars, store, PairInv, PresentedOK
<1>. QED
  BY <1>1 DEF PairInv, StoreOK, PresentedOK, AnswerOK, RefreshKeepsSession, PairIsRedeemable,
     PresentedOnce, Refreshing

LEMMA PairNext == TypesOK /\ PairInv /\ [Next]_vars => PairInv'
<1>. SUFFICES ASSUME TypesOK, PairInv, [Next]_vars PROVE PairInv'
  OBVIOUS
<1>1. ASSUME NEW s \in Sessions, Expire(s) PROVE PairInv'
  <2>1. redeemable' = redeemable
    BY <1>1 DEF Expire, End
  <2>. QED  BY <1>1, <2>1, PairStays DEF Expire, End, store, page, history
<1>2. ASSUME NEW s \in Sessions, RevokeElsewhere(s) PROVE PairInv'
  BY <1>2, EndPair DEF RevokeElsewhere, End, store, page
<1>3. ASSUME NEW s \in Sessions, OrphanConsume(s) PROVE PairInv'
  <2>1. s \in cut
    BY <1>3 DEF OrphanConsume, PairInv, PresentedOK
  <2>. QED  BY <1>3, <2>1, EndPair DEF OrphanConsume, End, store, page, history
<1>4. ASSUME NEW c \in Calls, Send(c) \/ Serve(c) \/ Finish(c) PROVE PairInv'
  BY <1>4, PairStays DEF Send, Serve, Finish, registryVars, store, history
<1>5. ASSUME NEW c \in Calls, RefreshWithout(c) PROVE PairInv'
  <2>1. ~Refreshing /\ refresh' = refresh
    BY <1>5 DEF RefreshWithout
  <2>2. pair' = NoSession /\ ~signedIn' /\ NoSession \notin presented
        /\ UNCHANGED <<issued, redeemable, orphans, cut, revoked, presented, twice>>
    BY <1>5, NoSessionAssumption DEF RefreshWithout, ClearTokens, TypesOK, registryVars, history
  <2>. QED
    BY <2>1, <2>2 DEF PairInv, StoreOK, PresentedOK, AnswerOK, RefreshKeepsSession,
       PairIsRedeemable, PresentedOnce, Refreshing
<1>6. CASE RefreshFails
  BY <1>6, SignedOutPair DEF RefreshFails
<1>7. CASE Handshake \/ Drop \/ GiveUp
  BY <1>7, PairStays DEF Handshake, Drop, GiveUp, registryVars, store, page, history
<1>8. CASE UNCHANGED vars
  BY <1>8, PairStays DEF vars, registryVars, store, page, history
<1>. QED  BY <1>1, <1>2, <1>3, <1>4, <1>5, <1>6, <1>7, <1>8, LoginPair, ReloadPair, StartPair,
             DonePair, ExchangePair, IssuePair DEF Next, Call, RefreshStep

LEMMA Invariance == Spec => [](TypesOK /\ PairInv)
<1>1. Init => TypesOK /\ PairInv
  BY TypeInit, PairInit
<1>2. TypesOK /\ PairInv /\ [Next]_vars => (TypesOK /\ PairInv)'
  BY TypeNext, PairNext DEF PairInv
<1>. QED  BY <1>1, <1>2, PTL DEF Spec

\* Every variable keeps its type, and the store is signed in exactly when it holds
\* a pair.
THEOREM TypeCorrect == Spec => []TypeOK
<1>1. TypesOK /\ PairInv => TypeOK
  BY DEF PairInv, StoreOK, TypeOK
<1>. QED  BY <1>1, Invariance, PTL

\* While no refresh is in flight, the refresh token of the store can be exchanged,
\* unless it was revoked or its exchange was cut off by an unload, and only one
\* that was cut off is presented twice.
THEOREM SharedRefreshDoesNoHarm == Spec => []RefreshKeepsSession
<1>1. PairInv => RefreshKeepsSession
  BY DEF PairInv
<1>. QED  BY <1>1, Invariance, PTL

-----------------------------------------------------------------------------
(* Stories and their cleanup                                               *)

StoryType == [state : {"none", "stored", "gone"}, expiresAt : Nat]
MediaType == [state : {"none", "row", "deleted"}, story : StoryIds \cup {NoStory}]
DeleteType == [pc : {"idle", "files", "row"}, media : SUBSET MediaIds]
JobType == [pc : {"idle", "find", "views", "media", "stories"},
            now : 0..MaxNow, left : Int,
            batch : SUBSET StoryIds, media : SUBSET MediaIds]

RowsTyped ==
    /\ story \in [StoryIds -> StoryType] /\ media \in [MediaIds -> MediaType]
    /\ views \subseteq StoryIds \X Viewers /\ files \subseteq Paths

RequestsTyped ==
    /\ viewing \in [Viewers -> Requests] /\ uploading \in [MediaIds -> Requests]
    /\ deleting \in [StoryIds -> DeleteType]
    /\ \A v \in Viewers : viewing[v].pc = "add" => viewing[v].story \in StoryIds

ClockTyped == now \in 0..MaxNow /\ faults \in 0..MaxFaults

JobsTyped == job \in [Jobs -> JobType]

\* However many ids there are, as many rows as were written are there.
StoredOK == IsFiniteSet({s \in StoryIds : Exists(s)})

\* The stories a job has still to remove.
Due(j) == ExpiredFor(j) \cup job[j].batch

\* A job that counts its stories down reaches all of them: there are never more left
\* than it still counts, and its batch holds none but those and what others removed.
JobOK(j) ==
    job[j].pc # "idle" =>
        /\ job[j].now <= now
        /\ job[j].pc = "find" => job[j].batch = {}
        /\ \A s \in job[j].batch :
              /\ story[s].state # "none"
              /\ Exists(s) => s \in ExpiredFor(j)
        /\ IsFiniteSet(Due(j)) /\ Cardinality(Due(j)) <= job[j].left

StoriesInv ==
    /\ RowsTyped /\ RequestsTyped /\ ClockTyped /\ JobsTyped
    /\ StoredOK
    /\ \A j \in Jobs : JobOK(j)

LEMMA StoriesConstants ==
    /\ Lifetime \in Nat \ {0} /\ MaxNow \in Nat /\ MaxFaults \in Nat /\ NoStory \notin StoryIds
BY LifetimeAssumption, NoStoryAssumption, BoundAssumption

LEMMA NothingAsked ==
    /\ NoRequest \in Requests /\ NoRequest.pc = "idle"
    /\ NoDelete \in DeleteType /\ NoDelete.pc = "idle"
    /\ NoJob \in JobType /\ NoJob.pc = "idle" /\ NoJob.batch = {}
BY StoriesConstants DEF NoRequest, Requests, NoDelete, DeleteType, NoJob, JobType

LEMMA StoriesInitInv == StoriesInit => StoriesInv
<1>. SUFFICES ASSUME StoriesInit PROVE StoriesInv
  OBVIOUS
<1>1. RowsTyped
  <2>1. [state |-> "none", expiresAt |-> 0] \in StoryType
    BY DEF StoryType
  <2>2. [state |-> "none", story |-> NoStory] \in MediaType
    BY DEF MediaType
  <2>. QED  BY <2>1, <2>2 DEF StoriesInit, RowsTyped
<1>2. RequestsTyped
  BY NothingAsked DEF StoriesInit, RequestsTyped
<1>3. ClockTyped
  BY StoriesConstants DEF StoriesInit, ClockTyped
<1>4. JobsTyped /\ \A j \in Jobs : JobOK(j)
  BY NothingAsked DEF StoriesInit, JobsTyped, JobOK
<1>5. StoredOK
  <2>1. {s \in StoryIds : Exists(s)} = {}
    BY DEF StoriesInit, Exists
  <2>. QED  BY <2>1, FS_EmptySet DEF StoredOK
<1>. QED  BY <1>1, <1>2, <1>3, <1>4, <1>5 DEF StoriesInv

-----------------------------------------------------------------------------
(* What leaves the jobs their work                                         *)

\* A job's work does not grow while no story comes back and none expires for it.
LEMMA WorkShrinks ==
    ASSUME NEW j \in Jobs, JobOK(j), job'[j] = job[j], now <= now',
           now \in Nat, now' \in Nat, job[j].now \in Nat, job[j].left \in Int,
           ExpiredFor(j)' \subseteq ExpiredFor(j),
           \A s \in job[j].batch :
              story'[s] = story[s] \/ story'[s].state = "gone"
    PROVE  JobOK(j)'
<1>. SUFFICES ASSUME job[j].pc # "idle"
              PROVE  /\ job[j].now <= now'
                     /\ job[j].pc = "find" => job[j].batch = {}
                     /\ \A s \in job[j].batch :
                           /\ story'[s].state # "none"
                           /\ Exists(s)' => s \in ExpiredFor(j)'
                     /\ IsFiniteSet(Due(j)') /\ Cardinality(Due(j)') <= job[j].left
  BY DEF JobOK
<1>1. job[j].now <= now' /\ (job[j].pc = "find" => job[j].batch = {})
  BY DEF JobOK
<1>2. ASSUME NEW s \in job[j].batch
      PROVE  story'[s].state # "none" /\ (Exists(s)' => s \in ExpiredFor(j)')
  <2>1. story[s].state # "none" /\ (Exists(s) => s \in ExpiredFor(j))
    BY DEF JobOK
  <2>. QED  BY <2>1 DEF Exists, ExpiredFor
<1>3. IsFiniteSet(Due(j)') /\ Cardinality(Due(j)') <= job[j].left
  <2>1. Due(j)' \subseteq Due(j)
    BY DEF Due
  <2>2. IsFiniteSet(Due(j)) /\ Cardinality(Due(j)) <= job[j].left
    BY DEF JobOK
  <2>3. /\ IsFiniteSet(Due(j)') /\ Cardinality(Due(j)') <= Cardinality(Due(j))
        /\ Cardinality(Due(j)') \in Nat /\ Cardinality(Due(j)) \in Nat
    BY <2>1, <2>2, FS_Subset, FS_CardinalityType
  <2>. QED  BY <2>2, <2>3
<1>. QED  BY <1>1, <1>2, <1>3

\* A step that touches neither the stories nor the clock nor this job.
LEMMA WorkStays ==
    ASSUME NEW j \in Jobs, JobOK(j), job'[j] = job[j], UNCHANGED <<story, now>>
    PROVE  JobOK(j)'
BY DEF JobOK, Due, ExpiredFor, Exists

LEMMA StoredShrinks ==
    ASSUME StoredOK, {s \in StoryIds : Exists(s)'} \subseteq {s \in StoryIds : Exists(s)}
    PROVE  StoredOK'
BY FS_Subset DEF StoredOK

LEMMA StoredStays ==
    ASSUME StoredOK, UNCHANGED story
    PROVE  StoredOK'
BY DEF StoredOK, Exists

\* Deleting stories: the rows keep their types, and other stories stay as they are.
LEMMA DeleteEffect ==
    ASSUME RowsTyped, NEW S, DeleteStories(S), UNCHANGED files
    PROVE  /\ RowsTyped'
           /\ \A s \in StoryIds : story'[s] = story[s] \/ story'[s].state = "gone"
           /\ \A s \in StoryIds : Exists(s)' <=> Exists(s) /\ s \notin S
           /\ \A s \in StoryIds \ S : story'[s] = story[s]
<1>1. \A s \in StoryIds :
         /\ story[s] \in StoryType
         /\ story'[s] = IF s \in S /\ Exists(s) THEN [state |-> "gone", expiresAt |-> 0]
                        ELSE story[s]
  BY DEF RowsTyped, DeleteStories
<1>2. story' \in [StoryIds -> StoryType]
  <2>1. [state |-> "gone", expiresAt |-> 0] \in StoryType
    BY DEF StoryType
  <2>. QED  BY <1>1, <2>1 DEF DeleteStories
<1>3. media' \in [MediaIds -> MediaType]
  <2>1. \A m \in MediaIds : media[m] \in MediaType /\ [media[m] EXCEPT !.story = NoStory] \in MediaType
    BY DEF RowsTyped, MediaType
  <2>. QED  BY <2>1 DEF DeleteStories
<1>4. RowsTyped'
  BY <1>2, <1>3 DEF RowsTyped, DeleteStories
<1>. QED  BY <1>1, <1>4 DEF Exists

-----------------------------------------------------------------------------
(* The steps of authors and viewers                                        *)

\* A step that leaves the stories, the jobs and the clock alone.
LEMMA RequestStep ==
    ASSUME StoriesInv, UNCHANGED <<now, story, job>>, RowsTyped', RequestsTyped', ClockTyped'
    PROVE  StoriesInv'
<1>1. JobsTyped' /\ StoredOK' /\ \A j \in Jobs : JobOK(j)'
  BY StoredStays, WorkStays DEF StoriesInv, JobsTyped
<1>. QED  BY <1>1 DEF StoriesInv

LEMMA CreateInv ==
    ASSUME StoriesInv, NEW s \in StoryIds, Create(s)
    PROVE  StoriesInv'
<1>. USE DEF rows, requests
<1>1. /\ story[s].state = "none"
      /\ story' = [story EXCEPT ![s] = [state |-> "stored", expiresAt |-> now + Lifetime]]
      /\ UNCHANGED <<now, views, media, files, requests, job, faults>>
  BY DEF Create
<1>2. now \in Nat /\ Lifetime \in Nat \ {0}
  BY StoriesConstants DEF StoriesInv, ClockTyped
<1>3. /\ story' \in [StoryIds -> StoryType]
      /\ story'[s].state = "stored" /\ story'[s].expiresAt = now + Lifetime
      /\ \A t \in StoryIds \ {s} : story'[t] = story[t]
  <2>1. [state |-> "stored", expiresAt |-> now + Lifetime] \in StoryType
    BY <1>2 DEF StoryType
  <2>2. story \in [StoryIds -> StoryType]
    BY DEF StoriesInv, RowsTyped
  <2>. QED  BY <1>1, <2>1, <2>2
<1>4. RowsTyped' /\ RequestsTyped' /\ ClockTyped' /\ JobsTyped'
  BY <1>1, <1>3 DEF StoriesInv, RowsTyped, RequestsTyped, ClockTyped, JobsTyped
<1>5. StoredOK'
  <2>1. {t \in StoryIds : Exists(t)'} = {t \in StoryIds : Exists(t)} \cup {s}
    BY <1>1, <1>3 DEF Exists
  <2>. QED  BY <2>1, FS_AddElement DEF StoriesInv, StoredOK
<1>6. ASSUME NEW j \in Jobs PROVE JobOK(j)'
  <2>1. CASE job[j].pc = "idle"
    BY <1>1, <2>1 DEF JobOK
  <2>2. CASE job[j].pc # "idle"
    <3>1. JobOK(j) /\ job[j] \in JobType
      BY DEF StoriesInv, JobsTyped
    <3>2. job[j].now \in Nat /\ job[j].left \in Int /\ job[j].now <= now
      BY <2>2, <3>1, StoriesConstants DEF JobOK, JobType
    <3>3. ExpiredFor(j)' = ExpiredFor(j)
      BY <1>1, <1>2, <1>3, <3>2 DEF ExpiredFor, Exists
    <3>4. s \notin job[j].batch /\ job[j].batch \subseteq StoryIds
      BY <1>1, <2>2, <3>1 DEF JobOK, JobType
    <3>. QED  BY <1>1, <1>2, <1>3, <3>1, <3>2, <3>3, <3>4, WorkShrinks
  <2>. QED  BY <2>1, <2>2
<1>. QED  BY <1>4, <1>5, <1>6 DEF StoriesInv

LEMMA ViewInv ==
    ASSUME StoriesInv, NEW v \in Viewers, AddView(v) \/ \E s \in StoryIds : ViewFind(v, s)
    PROVE  StoriesInv'
<1>. USE DEF rows, requests
<1>1. CASE AddView(v)
  <2>1. /\ viewing' = [viewing EXCEPT ![v] = NoRequest] /\ viewing[v].pc = "add"
        /\ views' \in {views, views \cup {<<viewing[v].story, v>>}}
        /\ UNCHANGED <<now, story, media, files, deleting, uploading, job, faults>>
    BY <1>1 DEF AddView
  <2>2. views' \subseteq StoryIds \X Viewers
    <3>1. views \subseteq StoryIds \X Viewers /\ <<viewing[v].story, v>> \in StoryIds \X Viewers
      BY <2>1 DEF StoriesInv, RowsTyped, RequestsTyped
    <3>. QED  BY <2>1, <3>1
  <2>3. RowsTyped' /\ ClockTyped'
    BY <2>1, <2>2 DEF StoriesInv, RowsTyped, ClockTyped
  <2>4. RequestsTyped'
    BY <2>1, NothingAsked DEF StoriesInv, RequestsTyped
  <2>. QED  BY <2>1, <2>3, <2>4, RequestStep
<1>2. ASSUME NEW s \in StoryIds, ViewFind(v, s) PROVE StoriesInv'
  <2>1. /\ viewing' = [viewing EXCEPT ![v] = [pc |-> "add", story |-> s]]
        /\ UNCHANGED <<now, rows, deleting, uploading, job, faults>>
    BY <1>2 DEF ViewFind
  <2>2. [pc |-> "add", story |-> s] \in Requests
    BY DEF Requests
  <2>3. RequestsTyped'
    <3>1. viewing' \in [Viewers -> Requests]
      BY <2>1, <2>2 DEF StoriesInv, RequestsTyped
    <3>2. \A w \in Viewers : viewing'[w].pc = "add" => viewing'[w].story \in StoryIds
      BY <2>1 DEF StoriesInv, RequestsTyped
    <3>. QED  BY <2>1, <3>1, <3>2 DEF StoriesInv, RequestsTyped
  <2>4. RowsTyped' /\ ClockTyped'
    BY <2>1 DEF StoriesInv, RowsTyped, ClockTyped
  <2>. QED  BY <2>1, <2>3, <2>4, RequestStep
<1>. QED  BY <1>1, <1>2

LEMMA DeletionTyped ==
    ASSUME RequestsTyped, NEW s \in StoryIds, NEW d \in DeleteType,
           deleting' = [deleting EXCEPT ![s] = d], UNCHANGED <<viewing, uploading>>
    PROVE  RequestsTyped'
BY DEF RequestsTyped

LEMMA DeleteInv ==
    ASSUME StoriesInv, NEW s \in StoryIds, DeleteFind(s) \/ DeleteFiles(s) \/ DeleteRow(s)
    PROVE  StoriesInv'
<1>. USE DEF rows, requests
<1>1. CASE DeleteFind(s)
  <2>1. /\ UNCHANGED <<now, rows, viewing, uploading, job, faults>>
        /\ \E M \in SUBSET MediaOf({s}) :
              deleting' = [deleting EXCEPT ![s] = [pc |-> "files", media |-> M]]
    BY <1>1 DEF DeleteFind
  <2>2. PICK M \in SUBSET MediaIds :
           deleting' = [deleting EXCEPT ![s] = [pc |-> "files", media |-> M]]
    BY <2>1 DEF MediaOf, Rows
  <2>3. PICK d \in DeleteType : d = [pc |-> "files", media |-> M]
    BY DEF DeleteType
  <2>4. RequestsTyped'
    BY <2>1, <2>2, <2>3, DeletionTyped DEF StoriesInv
  <2>5. RowsTyped' /\ ClockTyped'
    BY <2>1 DEF StoriesInv, RowsTyped, ClockTyped
  <2>. QED  BY <2>1, <2>4, <2>5, RequestStep
<1>2. CASE DeleteFiles(s)
  <2>1. /\ files' \subseteq files /\ views' \subseteq views
        /\ deleting' = [deleting EXCEPT ![s].pc = "row"]
        /\ UNCHANGED <<now, story, media, viewing, uploading, job, faults>>
    BY <1>2 DEF DeleteFiles
  <2>2. deleting[s] \in DeleteType
    BY DEF StoriesInv, RequestsTyped
  <2>3. PICK d \in DeleteType : d = [deleting[s] EXCEPT !.pc = "row"]
    <3>1. [deleting[s] EXCEPT !.pc = "row"] \in DeleteType
      BY <2>2 DEF DeleteType
    <3>. QED  BY <3>1
  <2>4. deleting' = [deleting EXCEPT ![s] = d]
    BY <2>1, <2>3
  <2>5. RequestsTyped'
    BY <2>1, <2>4, DeletionTyped DEF StoriesInv
  <2>6. RowsTyped' /\ ClockTyped'
    BY <2>1 DEF StoriesInv, RowsTyped, ClockTyped
  <2>. QED  BY <2>1, <2>5, <2>6, RequestStep
<1>3. CASE DeleteRow(s)
  <2>1. /\ DeleteStories({s}) /\ deleting' = [deleting EXCEPT ![s] = NoDelete]
        /\ UNCHANGED <<now, files, viewing, uploading, job, faults>>
    BY <1>3 DEF DeleteRow
  <2>2. /\ RowsTyped'
        /\ \A t \in StoryIds : story'[t] = story[t] \/ story'[t].state = "gone"
    BY <2>1, DeleteEffect DEF StoriesInv
  <2>3. RequestsTyped'
    BY <2>1, NothingAsked, DeletionTyped DEF StoriesInv
  <2>4. ClockTyped' /\ JobsTyped'
    BY <2>1 DEF StoriesInv, ClockTyped, JobsTyped
  <2>5. StoredOK'
    <3>1. {t \in StoryIds : Exists(t)'} \subseteq {t \in StoryIds : Exists(t)}
      BY <2>2 DEF Exists
    <3>. QED  BY <3>1, StoredShrinks DEF StoriesInv
  <2>6. ASSUME NEW j \in Jobs PROVE JobOK(j)'
    <3>1. JobOK(j) /\ job[j] \in JobType /\ now \in Nat
      BY StoriesConstants DEF StoriesInv, JobsTyped, ClockTyped
    <3>2. job[j].now \in Nat /\ job[j].left \in Int /\ job[j].batch \subseteq StoryIds
      BY <3>1, StoriesConstants DEF JobType
    <3>3. ExpiredFor(j)' \subseteq ExpiredFor(j)
      BY <2>1, <2>2 DEF ExpiredFor, Exists
    <3>. QED  BY <2>1, <2>2, <3>1, <3>2, <3>3, WorkShrinks
  <2>. QED  BY <2>2, <2>3, <2>4, <2>5, <2>6 DEF StoriesInv
<1>. QED  BY <1>1, <1>2, <1>3

LEMMA UploadInv ==
    ASSUME StoriesInv, NEW m \in MediaIds, UploadRow(m) \/ \E s \in StoryIds : UploadStore(m, s)
    PROVE  StoriesInv'
<1>. USE DEF rows, requests
<1>1. CASE UploadRow(m)
  <2>1. /\ uploading' = [uploading EXCEPT ![m] = NoRequest]
        /\ UNCHANGED <<now, story, views, files, viewing, deleting, job, faults>>
    BY <1>1 DEF UploadRow
  <2>2. media' \in [MediaIds -> MediaType]
    <3>1. [state |-> "row", story |-> uploading[m].story] \in MediaType
      BY DEF StoriesInv, RequestsTyped, Requests, MediaType
    <3>2. media \in [MediaIds -> MediaType]
      BY DEF StoriesInv, RowsTyped
    <3>. QED  BY <1>1, <3>1, <3>2 DEF UploadRow
  <2>3. RowsTyped' /\ ClockTyped'
    BY <2>1, <2>2 DEF StoriesInv, RowsTyped, ClockTyped
  <2>4. RequestsTyped'
    BY <2>1, NothingAsked DEF StoriesInv, RequestsTyped
  <2>. QED  BY <2>1, <2>3, <2>4, RequestStep
<1>2. ASSUME NEW s \in StoryIds, UploadStore(m, s) PROVE StoriesInv'
  <2>1. /\ files' = files \cup {Stored(m)}
        /\ uploading' = [uploading EXCEPT ![m] = [pc |-> "row", story |-> s]]
        /\ UNCHANGED <<now, story, views, media, viewing, deleting, job, faults>>
    BY <1>2 DEF UploadStore
  <2>2. [pc |-> "row", story |-> s] \in Requests /\ Stored(m) \in Paths
    BY DEF Requests, Stored, Paths
  <2>3. RequestsTyped'
    BY <2>1, <2>2 DEF StoriesInv, RequestsTyped
  <2>4. RowsTyped' /\ ClockTyped'
    BY <2>1, <2>2 DEF StoriesInv, RowsTyped, ClockTyped
  <2>. QED  BY <2>1, <2>3, <2>4, RequestStep
<1>. QED  BY <1>1, <1>2

LEMMA AbortInv ==
    ASSUME StoriesInv, Abort
    PROVE  StoriesInv'
<1>. USE DEF rows, requests
<1>1. /\ faults < MaxFaults /\ faults' = faults + 1
      /\ UNCHANGED <<now, rows, viewing, uploading, job>>
  BY DEF Abort
<1>2. PICK s \in StoryIds : deleting' = [deleting EXCEPT ![s] = NoDelete]
  BY DEF Abort
<1>3. RequestsTyped'
  BY <1>1, <1>2, NothingAsked, DeletionTyped DEF StoriesInv
<1>4. RowsTyped' /\ ClockTyped'
  BY <1>1, StoriesConstants DEF StoriesInv, RowsTyped, ClockTyped
<1>. QED  BY <1>1, <1>3, <1>4, RequestStep

-----------------------------------------------------------------------------
(* The steps of the job                                                    *)

\* A job goes on: it is the only one that does.
LEMMA JobEffect ==
    ASSUME JobsTyped, NEW j \in Jobs, NEW d \in JobType, job' = [job EXCEPT ![j] = d]
    PROVE  /\ JobsTyped' /\ job'[j] = d
           /\ \A i \in Jobs \ {j} : job'[i] = job[i]
BY DEF JobsTyped

\* A step of one job, with what the others need of it.
LEMMA JobsStep ==
    ASSUME StoriesInv, NEW j \in Jobs, NEW d \in JobType, job' = [job EXCEPT ![j] = d],
           UNCHANGED <<now, story, requests>>, RowsTyped', ClockTyped', JobOK(j)'
    PROVE  StoriesInv'
<1>1. /\ JobsTyped' /\ \A i \in Jobs \ {j} : job'[i] = job[i]
  BY JobEffect DEF StoriesInv
<1>2. \A i \in Jobs : JobOK(i)'
  BY <1>1, WorkStays DEF StoriesInv
<1>3. RequestsTyped' /\ StoredOK'
  BY StoredStays DEF StoriesInv, RequestsTyped, requests
<1>. QED  BY <1>1, <1>2, <1>3 DEF StoriesInv

\* A job that ends, or fails.
LEMMA JobEnds ==
    ASSUME StoriesInv, NEW j \in Jobs, job' = [job EXCEPT ![j] = NoJob],
           UNCHANGED <<now, rows, requests>>, ClockTyped'
    PROVE  StoriesInv'
<1>1. job'[j].pc = "idle"
  BY NothingAsked DEF StoriesInv, JobsTyped
<1>2. JobOK(j)'
  BY <1>1 DEF JobOK
<1>3. RowsTyped'
  BY DEF StoriesInv, RowsTyped, rows
<1>. QED  BY <1>2, <1>3, NothingAsked, JobsStep DEF rows

\* The stories selected by any clock are finitely many.
LEMMA SelectedFinite ==
    ASSUME StoredOK, NEW S, S \subseteq {s \in StoryIds : Exists(s)}
    PROVE  IsFiniteSet(S) /\ Cardinality(S) \in Nat
BY FS_Subset, FS_CardinalityType DEF StoredOK

LEMMA JobStartInv ==
    ASSUME StoriesInv, NEW j \in Jobs, JobStart(j)
    PROVE  StoriesInv'
<1>. DEFINE expired == {s \in StoryIds : Exists(s) /\ story[s].expiresAt < now}
            d == [NoJob EXCEPT !.pc = "find", !.now = now, !.left = Cardinality(expired)]
<1>1. job' = [job EXCEPT ![j] = d] /\ UNCHANGED <<now, rows, requests, faults>>
  BY DEF JobStart
<1>2. IsFiniteSet(expired) /\ Cardinality(expired) \in Nat
  BY SelectedFinite DEF StoriesInv
<1>3. now \in 0..MaxNow
  BY DEF StoriesInv, ClockTyped
<1>. HIDE DEF expired
<1>4. /\ d \in JobType /\ d.pc = "find" /\ d.now = now /\ d.batch = {}
      /\ d.left = Cardinality(expired)
  <2>1. NoJob \in JobType /\ NoJob.batch = {} /\ Cardinality(expired) \in Int
    BY <1>2, NothingAsked
  <2>. QED  BY <1>3, <2>1 DEF JobType
<1>. HIDE DEF d
<1>5. PICK e \in JobType : e = d
  BY <1>4
<1>6. job' = [job EXCEPT ![j] = e]
  BY <1>1, <1>5
<1>7. job'[j] = d
  BY <1>5, <1>6, JobEffect DEF StoriesInv
<1>8. UNCHANGED <<now, story, requests>> /\ RowsTyped' /\ ClockTyped'
  BY <1>1 DEF rows, StoriesInv, RowsTyped, ClockTyped
<1>9. ExpiredFor(j)' = expired /\ job'[j].batch = {}
  BY <1>4, <1>7, <1>8 DEF ExpiredFor, Exists, expired
<1>10. Due(j)' = expired
  BY <1>9 DEF Due
<1>11. JobOK(j)'
  <2>1. job'[j].now <= now'
    BY <1>3, <1>4, <1>7, <1>8
  <2>2. IsFiniteSet(Due(j)') /\ Cardinality(Due(j)') <= job'[j].left
    BY <1>2, <1>4, <1>7, <1>10
  <2>. QED  BY <1>9, <2>1, <2>2 DEF JobOK
<1>. QED  BY <1>6, <1>8, <1>11, JobsStep

LEMMA JobFindInv ==
    ASSUME StoriesInv, NEW j \in Jobs, JobFind(j)
    PROVE  StoriesInv'
<1>1. UNCHANGED <<now, rows, requests, faults>> /\ job[j].pc = "find"
  BY DEF JobFind
<1>2. UNCHANGED <<now, story, requests>> /\ RowsTyped' /\ ClockTyped'
  BY <1>1 DEF rows, StoriesInv, RowsTyped, ClockTyped
<1>3. CASE job' = [job EXCEPT ![j] = NoJob]
  BY <1>1, <1>2, <1>3, JobEnds
<1>4. CASE \E B \in SUBSET ExpiredFor(j) :
              job' = [job EXCEPT ![j].pc = "views", ![j].batch = B, ![j].media = MediaOf(B)]
  <2>1. PICK B \in SUBSET StoryIds, M \in SUBSET MediaIds :
           /\ B \subseteq ExpiredFor(j)
           /\ job' = [job EXCEPT ![j].pc = "views", ![j].batch = B, ![j].media = M]
    <3>1. \A B \in SUBSET ExpiredFor(j) :
             B \in SUBSET StoryIds /\ MediaOf(B) \in SUBSET MediaIds
      BY DEF ExpiredFor, MediaOf, Rows
    <3>. QED  BY <1>4, <3>1
  <2>2. JobOK(j) /\ job[j] \in JobType
    BY DEF StoriesInv, JobsTyped
  <2>3. PICK d \in JobType :
           d = [job[j] EXCEPT !.pc = "views", !.batch = B, !.media = M]
    <3>1. [job[j] EXCEPT !.pc = "views", !.batch = B, !.media = M] \in JobType
      BY <2>2 DEF JobType
    <3>. QED  BY <3>1
  <2>4. job' = [job EXCEPT ![j] = d]
    BY <2>1, <2>3 DEF StoriesInv, JobsTyped
  <2>5. /\ d.pc = "views" /\ d.batch = B /\ d.now = job[j].now /\ d.left = job[j].left
    BY <2>2, <2>3 DEF JobType
  <2>6. job'[j] = d
    BY <2>4, JobEffect DEF StoriesInv
  <2>7. ExpiredFor(j)' = ExpiredFor(j)
    BY <1>2, <2>5, <2>6 DEF ExpiredFor, Exists
  <2>8. Due(j)' = Due(j)
    BY <1>1, <2>1, <2>2, <2>5, <2>6, <2>7 DEF Due, JobOK
  <2>9. JobOK(j)'
    <3>1. \A s \in job'[j].batch : story'[s].state # "none" /\ s \in ExpiredFor(j)'
      BY <1>2, <2>1, <2>5, <2>6, <2>7 DEF ExpiredFor, Exists
    <3>2. /\ job[j].now <= now /\ IsFiniteSet(Due(j)) /\ Cardinality(Due(j)) <= job[j].left
      BY <1>1, <2>2 DEF JobOK
    <3>. QED  BY <1>2, <2>5, <2>6, <2>8, <3>1, <3>2 DEF JobOK
  <2>. QED  BY <1>2, <2>4, <2>9, JobsStep
<1>. QED  BY <1>3, <1>4 DEF JobFind, kSubset

\* A step of a job that keeps its clock, its batch and its count.
LEMMA JobKeeps ==
    ASSUME NEW j \in Jobs, JobOK(j), UNCHANGED <<now, story>>, job[j].pc # "idle",
           job'[j].pc \notin {"idle", "find"}, job'[j].batch = job[j].batch,
           job'[j].now = job[j].now, job'[j].left = job[j].left
    PROVE  JobOK(j)'
<1>1. ExpiredFor(j)' = ExpiredFor(j) /\ Due(j)' = Due(j)
  BY DEF ExpiredFor, Due, Exists
<1>. QED  BY <1>1 DEF JobOK, Exists

LEMMA JobViewsInv ==
    ASSUME StoriesInv, NEW j \in Jobs, JobViews(j) \/ JobMedia(j)
    PROVE  StoriesInv'
<1>. USE DEF rows
<1>1. JobOK(j) /\ job[j] \in JobType /\ job[j].pc # "idle"
  BY DEF StoriesInv, JobsTyped, JobViews, JobMedia
<1>2. UNCHANGED <<now, story, requests, faults>>
  BY DEF JobViews, JobMedia
<1>3. RowsTyped' /\ ClockTyped'
  <2>1. [state |-> "deleted", story |-> NoStory] \in MediaType
    BY DEF MediaType
  <2>2. /\ views' \subseteq views /\ files' \subseteq files
    BY DEF JobViews, JobMedia
  <2>3. media' \in [MediaIds -> MediaType]
    BY <2>1 DEF JobViews, JobMedia, StoriesInv, RowsTyped
  <2>. QED  BY <1>2, <2>2, <2>3 DEF StoriesInv, RowsTyped, ClockTyped
<1>4. PICK d \in JobType :
         /\ job' = [job EXCEPT ![j] = d] /\ d.pc \notin {"idle", "find"}
         /\ d.batch = job[j].batch /\ d.now = job[j].now /\ d.left = job[j].left
  <2>1. CASE JobViews(j)
    <3>1. PICK d \in JobType : d = [job[j] EXCEPT !.pc = "media"]
      <4>1. [job[j] EXCEPT !.pc = "media"] \in JobType
        BY <1>1 DEF JobType
      <4>. QED  BY <4>1
    <3>2. job' = [job EXCEPT ![j] = d]
      BY <2>1, <3>1 DEF JobViews
    <3>3. /\ d.pc = "media"
          /\ d.batch = job[j].batch /\ d.now = job[j].now /\ d.left = job[j].left
      BY <1>1, <3>1 DEF JobType
    <3>. QED  BY <3>2, <3>3
  <2>2. CASE JobMedia(j)
    <3>1. PICK d \in JobType : d = [job[j] EXCEPT !.pc = "stories", !.media = {}]
      <4>1. [job[j] EXCEPT !.pc = "stories", !.media = {}] \in JobType
        BY <1>1 DEF JobType
      <4>. QED  BY <4>1
    <3>2. job' = [job EXCEPT ![j] = d]
      BY <2>2, <3>1 DEF JobMedia, StoriesInv, JobsTyped
    <3>3. /\ d.pc = "stories"
          /\ d.batch = job[j].batch /\ d.now = job[j].now /\ d.left = job[j].left
      BY <1>1, <3>1 DEF JobType
    <3>. QED  BY <3>2, <3>3
  <2>. QED  BY <2>1, <2>2
<1>5. job'[j] = d
  BY <1>4, JobEffect DEF StoriesInv
<1>6. JobOK(j)'
  BY <1>1, <1>2, <1>4, <1>5, JobKeeps
<1>. QED  BY <1>2, <1>3, <1>4, <1>6, JobsStep


LEMMA JobStoriesInv ==
    ASSUME StoriesInv, NEW j \in Jobs, JobStories(j)
    PROVE  StoriesInv'
<1>1. JobOK(j) /\ job[j] \in JobType /\ job[j].pc = "stories"
  BY DEF StoriesInv, JobsTyped, JobStories
<1>2. PICK B \in SUBSET StoryIds : B = job[j].batch
  BY <1>1 DEF JobType
<1>3. DeleteStories(B) /\ UNCHANGED <<now, files, requests, faults>>
  BY <1>2 DEF JobStories
<1>4. /\ RowsTyped'
      /\ \A s \in StoryIds : story'[s] = story[s] \/ story'[s].state = "gone"
      /\ \A s \in StoryIds : Exists(s)' <=> Exists(s) /\ s \notin B
      /\ \A s \in StoryIds \ B : story'[s] = story[s]
  BY <1>3, DeleteEffect DEF StoriesInv
<1>5. /\ IsFiniteSet(Due(j)) /\ Cardinality(Due(j)) <= job[j].left
      /\ \A s \in B : Exists(s) => s \in ExpiredFor(j)
      /\ B \subseteq Due(j) /\ job[j].now <= now
  BY <1>1, <1>2 DEF JobOK, Due
<1>6. /\ IsFiniteSet(B) /\ Cardinality(B) \in Nat
      /\ IsFiniteSet(Due(j) \ B) /\ Cardinality(Due(j) \ B) \in Nat
      /\ Cardinality(Due(j) \ B) = Cardinality(Due(j)) - Cardinality(B)
      /\ Cardinality(Due(j)) \in Nat
  <2>1. Due(j) \cap B = B
    BY <1>5
  <2>2. IsFiniteSet(B) /\ IsFiniteSet(Due(j) \ B)
    BY <1>5, FS_Subset, FS_Difference
  <2>. QED  BY <1>5, <2>1, <2>2, FS_Difference, FS_CardinalityType
<1>7. PICK left \in Int : left = job[j].left - Cardinality(B)
  BY <1>1, <1>6 DEF JobType
<1>8. PICK d \in JobType : d = [job[j] EXCEPT !.pc = "find", !.batch = {}, !.left = left]
  <2>1. [job[j] EXCEPT !.pc = "find", !.batch = {}, !.left = left] \in JobType
    BY <1>1 DEF JobType
  <2>. QED  BY <2>1
<1>9. job' = [job EXCEPT ![j] = d]
  <2>1. job \in [Jobs -> JobType]
    BY DEF StoriesInv, JobsTyped
  <2>. QED  BY <1>2, <1>7, <1>8, <2>1 DEF JobStories
<1>10. /\ d.pc = "find" /\ d.batch = {} /\ d.now = job[j].now /\ d.left = left
  BY <1>1, <1>8 DEF JobType
<1>11. /\ JobsTyped' /\ job'[j] = d
       /\ \A i \in Jobs \ {j} : job'[i] = job[i]
  BY <1>9, JobEffect DEF StoriesInv
<1>12. JobOK(j)'
  <2>1. ExpiredFor(j)' \subseteq ExpiredFor(j) \ B
    BY <1>4, <1>10, <1>11 DEF ExpiredFor
  <2>2. Due(j)' \subseteq Due(j) \ B
    BY <1>10, <1>11, <2>1 DEF Due
  <2>3. /\ IsFiniteSet(Due(j)') /\ Cardinality(Due(j)') <= Cardinality(Due(j) \ B)
        /\ Cardinality(Due(j)') \in Nat
    BY <1>6, <2>2, FS_Subset, FS_CardinalityType
  <2>4. Cardinality(Due(j)') <= left
    <3>1. job[j].left \in Int
      BY <1>1 DEF JobType
    <3>. QED  BY <1>5, <1>6, <1>7, <2>3, <3>1
  <2>. QED  BY <1>3, <1>5, <1>10, <1>11, <2>3, <2>4 DEF JobOK
<1>13. ASSUME NEW i \in Jobs \ {j} PROVE JobOK(i)'
  <2>1. JobOK(i) /\ job[i] \in JobType /\ now \in Nat
    BY StoriesConstants DEF StoriesInv, JobsTyped, ClockTyped
  <2>2. job[i].now \in Nat /\ job[i].left \in Int /\ job[i].batch \subseteq StoryIds
    BY <2>1, StoriesConstants DEF JobType
  <2>3. ExpiredFor(i)' \subseteq ExpiredFor(i)
    BY <1>4, <1>11 DEF ExpiredFor
  <2>. QED  BY <1>3, <1>4, <1>11, <2>1, <2>2, <2>3, WorkShrinks
<1>14. StoredOK'
  <2>1. {s \in StoryIds : Exists(s)'} \subseteq {s \in StoryIds : Exists(s)}
    BY <1>4
  <2>. QED  BY <2>1, StoredShrinks DEF StoriesInv
<1>15. RequestsTyped' /\ ClockTyped'
  BY <1>3 DEF StoriesInv, RequestsTyped, ClockTyped, requests
<1>. QED  BY <1>4, <1>11, <1>12, <1>13, <1>14, <1>15 DEF StoriesInv

\* What each step does to the job that takes it, and to the others.
LEMMA JobStepEffect ==
    ASSUME JobsTyped, NEW i \in Jobs, JobStep(i)
    PROVE  /\ \A j \in Jobs \ {i} : job'[j] = job[j]
           /\ JobFind(i) \/ job[i].pc = "idle" \/ job'[i].pc # "idle"
<1>. USE DEF JobsTyped
<1>1. CASE JobStart(i)
  BY <1>1 DEF JobStart
<1>2. CASE JobFind(i)
  BY <1>2 DEF JobFind
<1>3. CASE JobViews(i)
  BY <1>3 DEF JobViews, JobType
<1>4. CASE JobMedia(i)
  BY <1>4 DEF JobMedia, JobType
<1>5. CASE JobStories(i)
  BY <1>5 DEF JobStories, JobType
<1>. QED  BY <1>1, <1>2, <1>3, <1>4, <1>5 DEF JobStep

LEMMA StoriesNextInv == StoriesInv /\ [StoriesNext]_storiesVars => StoriesInv'
<1>. SUFFICES ASSUME StoriesInv, [StoriesNext]_storiesVars PROVE StoriesInv'
  OBVIOUS
<1>1. ASSUME NEW s \in StoryIds, Create(s) \/ DeleteFind(s) \/ DeleteFiles(s) \/ DeleteRow(s)
      PROVE  StoriesInv'
  BY <1>1, CreateInv, DeleteInv
<1>2. ASSUME NEW v \in Viewers, AddView(v) \/ \E s \in StoryIds : ViewFind(v, s)
      PROVE  StoriesInv'
  BY <1>2, ViewInv
<1>3. ASSUME NEW m \in MediaIds, UploadRow(m) \/ \E s \in StoryIds : UploadStore(m, s)
      PROVE  StoriesInv'
  BY <1>3, UploadInv
<1>4. CASE Abort
  BY <1>4, AbortInv
<1>5. ASSUME NEW j \in Jobs, JobStep(j) PROVE StoriesInv'
  BY <1>5, JobStartInv, JobFindInv, JobViewsInv, JobStoriesInv DEF JobStep
<1>6. ASSUME NEW j \in Jobs, JobFails(j) PROVE StoriesInv'
  <2>1. /\ job' = [job EXCEPT ![j] = NoJob] /\ UNCHANGED <<now, rows, requests>>
        /\ faults' = faults + 1 /\ faults < MaxFaults
    BY <1>6 DEF JobFails
  <2>2. ClockTyped'
    BY <2>1, StoriesConstants DEF StoriesInv, ClockTyped
  <2>. QED  BY <2>1, <2>2, JobEnds
<1>7. CASE Tick
  <2>1. /\ now < MaxNow /\ now' = now + 1
        /\ UNCHANGED <<rows, requests, job, faults>>
    BY <1>7 DEF Tick
  <2>2. RowsTyped' /\ RequestsTyped' /\ JobsTyped' /\ StoredOK' /\ ClockTyped'
    BY <2>1, StoredStays, StoriesConstants
       DEF StoriesInv, RowsTyped, RequestsTyped, JobsTyped, ClockTyped, rows, requests
  <2>3. ASSUME NEW j \in Jobs PROVE JobOK(j)'
    <3>1. JobOK(j) /\ job[j] \in JobType /\ now \in Nat /\ now' \in Nat /\ now <= now'
      BY <2>1, StoriesConstants DEF StoriesInv, JobsTyped, ClockTyped
    <3>2. job[j].now \in Nat /\ job[j].left \in Int
      BY <3>1, StoriesConstants DEF JobType
    <3>3. ExpiredFor(j)' \subseteq ExpiredFor(j)
      BY <2>1 DEF ExpiredFor, Exists, rows
    <3>. QED  BY <2>1, <3>1, <3>2, <3>3, WorkShrinks DEF rows
  <2>. QED  BY <2>2, <2>3 DEF StoriesInv
<1>8. CASE UNCHANGED storiesVars
  BY <1>8, RequestStep
     DEF storiesVars, rows, requests, StoriesInv, RowsTyped, RequestsTyped, ClockTyped
<1>. QED  BY <1>1, <1>2, <1>3, <1>4, <1>5, <1>6, <1>7, <1>8 DEF StoriesNext

LEMMA StoriesInvariance == StoriesSpec => []StoriesInv
BY StoriesInitInv, StoriesNextInv, PTL DEF StoriesSpec

\* Every variable of Stories has its type: a file lies where StorageProvider puts it.
THEOREM StoriesTypeCorrect == StoriesSpec => []StoriesTypeOK
<1>1. StoriesInv => StoriesTypeOK
  BY DEF StoriesInv, RowsTyped, RequestsTyped, ClockTyped, JobsTyped, StoriesTypeOK,
         StoryType, MediaType, DeleteType, JobType
<1>. QED  BY <1>1, StoriesInvariance, PTL

\* A job that ends by itself has taken all that its clock selects (the count at the
\* head of processStoryCleanup ends the loop of batches, and never too early).
LEMMA StoriesCleanupComplete == StoriesSpec => CleanupIsComplete
<1>1. ASSUME StoriesInv, [StoriesNext]_storiesVars, NEW j \in Jobs,
             job[j].pc # "idle", job'[j].pc = "idle", faults' = faults
      PROVE  ExpiredFor(j) = {}
  <2>1. faults \in Nat /\ faults + 1 # faults
    BY <1>1, StoriesConstants DEF StoriesInv, ClockTyped
  <2>2. PICK i \in Jobs : JobStep(i)
    BY <1>1, <2>1
       DEF StoriesNext, storiesVars, Create, DeleteFind, DeleteFiles, DeleteRow, ViewFind,
           AddView, UploadStore, UploadRow, Abort, JobFails, Tick
  <2>3. JobFind(j)
    BY <1>1, <2>2, JobStepEffect DEF StoriesInv
  <2>4. job[j].left <= 0 \/ Cardinality(ExpiredFor(j)) = 0
    <3>1. CASE ~(job[j].left <= 0 \/ Cardinality(ExpiredFor(j)) = 0)
      <4>1. PICK B : job' = [job EXCEPT ![j].pc = "views", ![j].batch = B,
                                        ![j].media = MediaOf(B)]
        BY <2>3, <3>1 DEF JobFind
      <4>2. job'[j].pc = "views"
        BY <1>1, <4>1 DEF StoriesInv, JobsTyped, JobType
      <4>. QED  BY <1>1, <4>2
    <3>. QED  BY <3>1
  <2>5. /\ IsFiniteSet(ExpiredFor(j)) /\ Cardinality(ExpiredFor(j)) \in Nat
        /\ Cardinality(ExpiredFor(j)) <= job[j].left /\ job[j].left \in Int
    <3>1. JobOK(j) /\ job[j] \in JobType /\ job[j].pc = "find"
      BY <1>1, <2>3 DEF StoriesInv, JobsTyped, JobFind
    <3>2. Due(j) = ExpiredFor(j)
      BY <3>1 DEF JobOK, Due
    <3>3. IsFiniteSet(Due(j)) /\ Cardinality(Due(j)) <= job[j].left
      BY <1>1, <3>1 DEF JobOK
    <3>. QED  BY <3>1, <3>2, <3>3, FS_CardinalityType DEF JobType
  <2>6. Cardinality(ExpiredFor(j)) = 0
    BY <2>4, <2>5
  <2>. QED  BY <2>5, <2>6, FS_EmptySet
<1>2. StoriesInv /\ [StoriesNext]_storiesVars
        => [\A j \in Jobs : job[j].pc # "idle" /\ job'[j].pc = "idle" /\ faults' = faults
               => ExpiredFor(j) = {}]_storiesVars
  BY <1>1
<1>. QED  BY <1>2, StoriesInvariance, PTL DEF StoriesSpec, CleanupIsComplete

\* Whoever deletes a story is its author, or a job whose batch it is in (deleteStory,
\* processStoryCleanup).
LEMMA StoriesOnlyExpiredGo == StoriesSpec => OnlyExpiredGo
<1>1. ASSUME StoriesInv, [StoriesNext]_storiesVars, NEW s \in StoryIds, Exists(s), ~Exists(s)'
      PROVE  story[s].expiresAt < now \/ deleting[s].pc = "row"
  <2>1. story \in [StoryIds -> StoryType] /\ story' # story
    BY <1>1 DEF StoriesInv, RowsTyped, Exists
  <2>2. CASE \E t \in StoryIds : Create(t)
    BY <1>1, <2>1, <2>2 DEF Create, Exists
  <2>3. CASE \E t \in StoryIds : DeleteRow(t)
    <3>1. PICK t \in StoryIds : DeleteStories({t}) /\ deleting[t].pc = "row"
      BY <2>3 DEF DeleteRow
    <3>2. s = t
      BY <1>1, <2>1, <3>1 DEF DeleteStories, Exists
    <3>. QED  BY <3>1, <3>2
  <2>4. CASE \E j \in Jobs : JobStories(j)
    <3>1. PICK j \in Jobs : DeleteStories(job[j].batch) /\ job[j].pc = "stories"
      BY <2>4 DEF JobStories
    <3>2. s \in job[j].batch
      BY <1>1, <2>1, <3>1 DEF DeleteStories, Exists
    <3>3. s \in ExpiredFor(j) /\ job[j].now <= now
      BY <1>1, <3>1, <3>2 DEF StoriesInv, JobOK
    <3>4. story[s].expiresAt \in Nat /\ job[j].now \in Nat /\ now \in Nat
      BY <1>1, <2>1, StoriesConstants DEF StoryType, StoriesInv, JobsTyped, JobType, ClockTyped
    <3>5. story[s].expiresAt < job[j].now
      BY <3>3 DEF ExpiredFor
    <3>. QED  BY <3>3, <3>4, <3>5
  <2>. QED
    BY <1>1, <2>1, <2>2, <2>3, <2>4
       DEF StoriesNext, storiesVars, rows, JobStep, DeleteFind, DeleteFiles, ViewFind, AddView,
           UploadStore, UploadRow, Abort, JobStart, JobFind, JobViews, JobMedia, JobFails, Tick
<1>2. StoriesInv /\ [StoriesNext]_storiesVars
        => [\A s \in StoryIds : Exists(s) /\ ~Exists(s)'
               => story[s].expiresAt < now \/ deleting[s].pc = "row"]_storiesVars
  BY <1>1
<1>. QED  BY <1>2, StoriesInvariance, PTL DEF StoriesSpec, OnlyExpiredGo

\* The cleanup removes what has expired, all of it and nothing else, for any batch
\* size, however many jobs run and whatever fails (processStoryCleanup).
THEOREM StoriesCleanupIsExact == StoriesSpec => CleanupIsExact
BY StoriesCleanupComplete, StoriesOnlyExpiredGo DEF CleanupIsExact
=============================================================================
