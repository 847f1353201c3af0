---------------------------- MODULE GroupsProofs ----------------------------
(***************************************************************************)
(* Proofs about Groups, for any users, requests, fan-out threshold, cache  *)
(* lifetime and bounds: type correctness, that fan-out goes to the         *)
(* participants of less than the cache's lifetime ago, that the last       *)
(* sender-key job about a user says what the participants table says, and  *)
(* that removals by admins leave an admin.                                 *)
(***************************************************************************)
EXTENDS Groups, TLAPS, WellFoundedInduction

-----------------------------------------------------------------------------
(* The inductive invariant                                                 *)

\* Users who have joined; the list of participants at a time holds no other.
Seen == {u \in Users : changedAt[u] # Never}

\* A list that is right about everyone who did not join or leave since a time.
Reflects(ids, at) ==
    \A u \in Users : changedAt[u] < at => (u \in ids <=> u \in Members)

MembersOK ==
    \A u \in Users : changedAt[u] <= now /\ (role[u] # "none" => changedAt[u] # Never)

NewOK ==
    ~exists => /\ \A u \in Users : role[u] = "none" /\ changedAt[u] = Never
               /\ \A r \in Requests : Free(r)

CacheOK ==
    /\ cache.ids \subseteq Seen
    /\ cache.at <= now
    /\ ~cache.slow => Reflects(cache.ids, cache.at)

ReqOK(r) ==
    /\ req[r].pc \in ChangePcs =>
          req[r].actor \in Users /\ \E u \in Users : req[r].users = {u}
    /\ req[r].pc \in {"addCheck", "addWrite"} => req[r].role \in Roles
    /\ req[r].pc = "sendCache" => /\ req[r].at \in 0..now
                                  /\ req[r].users \subseteq Seen
                                  /\ Reflects(req[r].users, req[r].at)
    /\ req[r].pc = "sendJob" /\ ~req[r].slow => req[r].lag < CacheTtl

ListsOK ==
    /\ TypeOK /\ MembersOK /\ NewOK /\ CacheOK
    /\ \A r \in Requests : ReqOK(r)
    /\ FanOutIsRecent

\* What is announced of a user whose changes did not overlap is what the row is.
NoticesOK ==
    /\ \A u \in Users \ disturbed, r \in Requests : u \in req[r].users =>
          /\ req[r].pc \in {"createJob", "addJob"} => role[u] # "none"
          /\ req[r].pc = "removeJob" => role[u] = "none"
    /\ LastNoticeMatchesRow

\* Whoever is changing the members is an admin still, or is leaving.
AdminsOK ==
    /\ ~ownHand /\ ~crossed =>
          \A r \in Requests : req[r].pc \in ChangePcs =>
             \/ role[req[r].actor] = "ADMIN"
             \/ req[r].pc = "removeWrite" /\ req[r].users = {req[r].actor}
    /\ LastAdminGoesByOwnHand

-----------------------------------------------------------------------------
(* Lists                                                                   *)

\* A non-empty set of natural numbers has a least element.
LEMMA NatMin ==
    ASSUME NEW T, T \subseteq Nat, T # {}
    PROVE  \E x \in T : \A y \in T : x <= y
<1>1. PICK R : /\ IsWellFoundedOn(R, Nat)
               /\ \A x, y \in Nat : <<x, y>> \in R <=> x < y
  <2>. DEFINE R == OpToRel(<, Nat)
  <2>1. IsWellFoundedOn(R, Nat)
    BY NatLessThanWellFounded
  <2>2. \A x, y \in Nat : <<x, y>> \in R <=> x < y
    BY DEF OpToRel
  <2>. QED  BY <2>1, <2>2
<1>2. IsWellFoundedOn(R, Nat)
  BY <1>1
<1>3. PICK x \in T : \A y \in T : ~ (<<y, x>> \in R)
  BY <1>2, WFMin
<1>4. ASSUME NEW y \in T PROVE x <= y
  <2>1. ~(y < x)
    BY <1>1, <1>3
  <2>. QED  BY <2>1
<1>. QED  BY <1>4

\* A list of users who have joined lags behind by some time since the start, and
\* by less than what a list that reflects the participants at a time is old.
LEMMA LagOfList ==
    ASSUME TypeOK, MembersOK, NEW ids \in SUBSET Seen
    PROVE  /\ Lag(ids) \in 0..MaxNow
           /\ \A at \in 0..now : Reflects(ids, at) => Lag(ids) <= now - at
<1>. DEFINE wrong == (ids \ Members) \cup (Members \ ids)
<1>1. now \in 0..MaxNow /\ MaxNow \in Nat
  BY NumbersAssumption DEF TypeOK
<1>2. \A u \in wrong : u \in Users /\ changedAt[u] \in 0..now
  <2>1. \A u \in wrong : u \in Users /\ changedAt[u] # Never
    BY DEF Members, Seen, MembersOK
  <2>. QED  BY <1>1, <2>1 DEF TypeOK, MembersOK, Never
<1>3. CASE wrong = {}
  <2>1. Lag(ids) = 0
    BY <1>3 DEF Lag
  <2>. QED  BY <1>1, <2>1
<1>4. CASE wrong # {}
  <2>. DEFINE P(d) == /\ \E u \in wrong : d = now - changedAt[u]
                      /\ \A u \in wrong : d >= now - changedAt[u]
  <2>1. PICK v \in wrong : \A u \in wrong : changedAt[v] <= changedAt[u]
    <3>. DEFINE T == {changedAt[u] : u \in wrong}
    <3>1. T \subseteq Nat /\ T # {}
      BY <1>1, <1>2, <1>4
    <3>. HIDE DEF T
    <3>2. PICK x \in T : \A y \in T : x <= y
      BY <3>1, NatMin
    <3>. QED  BY <3>2 DEF T
  <2>2. now - changedAt[v] \in 0..MaxNow /\ P(now - changedAt[v])
    BY <1>1, <1>2, <2>1
  <2>3. Lag(ids) = CHOOSE d \in 0..MaxNow : P(d)
    BY <1>4 DEF Lag
  <2>4. Lag(ids) \in 0..MaxNow /\ P(Lag(ids))
    <3>. HIDE DEF P
    <3>. QED  BY <2>2, <2>3
  <2>5. ASSUME NEW at \in 0..now, Reflects(ids, at) PROVE Lag(ids) <= now - at
    <3>1. PICK u \in wrong : Lag(ids) = now - changedAt[u]
      BY <2>4
    <3>2. ~(changedAt[u] < at)
      BY <1>2, <2>5 DEF Reflects, Members
    <3>. QED  BY <1>1, <1>2, <3>1, <3>2
  <2>. QED  BY <2>4, <2>5
<1>. QED  BY <1>3, <1>4

\* Every step records a user who joins or leaves, at the time it is.
Recorded ==
    /\ now' \in {now, now + 1}
    /\ \A u \in Users : \/ changedAt'[u] = now
                        \/ /\ changedAt'[u] = changedAt[u]
                           /\ role'[u] = "none" <=> role[u] = "none"

\* So it leaves a list as right as it was.
LEMMA ListsStay ==
    ASSUME TypeOK, MembersOK, Recorded
    PROVE  /\ MembersOK'
           /\ Seen \subseteq Seen'
           /\ \A ids \in SUBSET Users, at \in {Never} \cup 0..now :
                 Reflects(ids, at) => Reflects(ids, at)'
<1>1. /\ now \in Nat /\ now' \in {now, now + 1} /\ \A u \in Users : changedAt[u] <= now
      /\ \A u \in Users : changedAt[u] \in {Never} \cup 0..MaxNow
  BY DEF TypeOK, MembersOK, Recorded
<1>2. MembersOK'
  <2>1. ASSUME NEW u \in Users
        PROVE  changedAt'[u] <= now' /\ (role'[u] # "none" => changedAt'[u] # Never)
    <3>1. CASE changedAt'[u] = now
      BY <1>1, <3>1 DEF Never
    <3>2. CASE changedAt'[u] = changedAt[u] /\ (role'[u] = "none" <=> role[u] = "none")
      <4>1. now <= now' /\ changedAt[u] <= now /\ changedAt[u] \in Int
        BY <1>1, NumbersAssumption DEF Never
      <4>. QED  BY <1>1, <3>2, <4>1 DEF MembersOK
    <3>. QED  BY <3>1, <3>2 DEF Recorded
  <2>. QED  BY <2>1 DEF MembersOK
<1>3. Seen \subseteq Seen'
  BY <1>1 DEF Seen, Recorded, Never
<1>4. ASSUME NEW ids \in SUBSET Users, NEW at \in {Never} \cup 0..now, Reflects(ids, at)
      PROVE  Reflects(ids, at)'
  <2>1. SUFFICES ASSUME NEW u \in Users, changedAt'[u] < at
                 PROVE  u \in ids <=> role'[u] # "none"
    BY DEF Reflects, Members
  <2>2. changedAt'[u] # now
    BY <1>1, <2>1 DEF Never
  <2>3. changedAt'[u] = changedAt[u] /\ (role'[u] = "none" <=> role[u] = "none")
    BY <2>2 DEF Recorded
  <2>. QED  BY <1>4, <2>1, <2>3 DEF Reflects, Members
<1>. QED  BY <1>2, <1>3, <1>4

-----------------------------------------------------------------------------
(* Steps                                                                   *)

ReqType ==
    [pc : {"idle"} \cup ChangePcs \cup NoticePcs \cup SendPcs,
     actor : Users \cup {Nobody}, users : SUBSET Users,
     role : Roles \cup {"none"}, at : {Never} \cup 0..MaxNow,
     slow : BOOLEAN, lag : 0..MaxNow]

OnlyReq(r) == \A q \in Requests \ {r} : req'[q] = req[q]

LEMMA IdleTyped == Idle \in ReqType /\ Idle.pc = "idle" /\ Idle.users = {}
BY NumbersAssumption DEF Idle, ReqType, Never

\* What a step does to the requests, in whichever way it does it.
LEMMA OneRequest ==
    ASSUME TypeOK, NEW r \in Requests, NEW q \in ReqType,
           req' = [req EXCEPT ![r] = q]
    PROVE  /\ req' \in [Requests -> ReqType] /\ req'[r] = q
           /\ OnlyReq(r)
BY DEF TypeOK, ReqType, OnlyReq

LEMMA Finishing ==
    ASSUME TypeOK, NEW r \in Requests, Finish(r)
    PROVE  /\ req' \in [Requests -> ReqType] /\ req'[r] = Idle /\ req'[r].pc = "idle"
           /\ req'[r].users = {} /\ OnlyReq(r)
BY IdleTyped, OneRequest DEF Finish

LEMMA Announced ==
    ASSUME TypeOK, NEW r \in Requests, NEW pc \in NoticePcs, NEW us \in SUBSET Users,
           Announce(r, pc, us)
    PROVE  /\ req' \in [Requests -> ReqType] /\ req'[r].pc = pc /\ req'[r].users = us
           /\ OnlyReq(r)
<1>. DEFINE q == [Idle EXCEPT !.pc = pc, !.users = us]
<1>1. q \in ReqType /\ q.pc = pc /\ q.users = us
  BY IdleTyped DEF ReqType
<1>. HIDE DEF q
<1>2. req' = [req EXCEPT ![r] = q]
  BY DEF Announce, q
<1>. QED  BY <1>1, <1>2, OneRequest

LEMMA Going ==
    ASSUME TypeOK, NEW r \in Requests,
           NEW pc \in {"idle"} \cup ChangePcs \cup NoticePcs \cup SendPcs, Goto(r, pc)
    PROVE  /\ req' \in [Requests -> ReqType] /\ req'[r].pc = pc /\ OnlyReq(r)
           /\ req'[r].users = req[r].users /\ req'[r].actor = req[r].actor
           /\ req'[r].role = req[r].role
BY DEF TypeOK, ReqType, OnlyReq, Goto

\* A decision that is behind by less than the lifetime is kept as such.
LEMMA Deciding ==
    ASSUME ListsOK, NEW r \in Requests, NEW ids \in SUBSET Seen, NEW slow \in BOOLEAN,
           ~slow => Lag(ids) < CacheTtl, Decide(r, ids, slow)
    PROVE  /\ req' \in [Requests -> ReqType] /\ OnlyReq(r)
           /\ req'[r].pc \in {"idle", "sendJob"}
           /\ req'[r].pc = "sendJob" /\ ~req'[r].slow => req'[r].lag < CacheTtl
<1>. DEFINE q == [Idle EXCEPT !.pc = "sendJob", !.slow = slow, !.lag = Lag(ids)]
<1>1. Lag(ids) \in 0..MaxNow /\ TypeOK
  BY LagOfList DEF ListsOK
<1>2. q \in ReqType /\ q.pc = "sendJob" /\ q.slow = slow /\ q.lag = Lag(ids)
  BY <1>1, IdleTyped DEF ReqType, SendPcs
<1>. HIDE DEF q
<1>3. CASE req' = [req EXCEPT ![r] = q]
  <2>1. req' \in [Requests -> ReqType] /\ req'[r] = q /\ OnlyReq(r)
    BY <1>1, <1>2, <1>3, OneRequest
  <2>. QED  BY <1>2, <2>1
<1>4. CASE Finish(r)
  <2>1. req' \in [Requests -> ReqType] /\ req'[r].pc = "idle" /\ OnlyReq(r)
    BY <1>1, <1>4, Finishing
  <2>. QED  BY <2>1
<1>. QED  BY <1>3, <1>4 DEF Decide, q

\* A step of one request, which has recorded whom it changed.
LEMMA ListsStep ==
    ASSUME ListsOK, Recorded, TypeOK', NewOK', CacheOK', FanOutIsRecent',
           NEW r \in Requests, OnlyReq(r), ReqOK(r)'
    PROVE  ListsOK'
<1>1. TypeOK /\ MembersOK /\ now \in Nat /\ now' \in {now, now + 1}
  BY DEF ListsOK, TypeOK, Recorded
<1>2. ASSUME NEW q \in Requests \ {r} PROVE ReqOK(q)'
  <2>1. req'[q] = req[q] /\ ReqOK(q) /\ req[q] \in ReqType
    BY <1>1 DEF ListsOK, OnlyReq, TypeOK, ReqType
  <2>2. ASSUME req[q].pc = "sendCache"
        PROVE  /\ req[q].at \in 0..now' /\ req[q].users \subseteq Seen'
               /\ Reflects(req[q].users, req[q].at)'
    <3>1. /\ req[q].at \in 0..now /\ req[q].users \in SUBSET Users
          /\ req[q].users \subseteq Seen /\ Reflects(req[q].users, req[q].at)
      BY <2>1, <2>2 DEF ReqOK, ReqType
    <3>2. req[q].users \subseteq Seen'
      BY <1>1, <3>1, ListsStay
    <3>3. \A ids \in SUBSET Users, at \in 0..now : Reflects(ids, at) => Reflects(ids, at)'
      BY <1>1, ListsStay
    <3>4. PICK ids \in SUBSET Users, at \in 0..now : ids = req[q].users /\ at = req[q].at
      BY <3>1
    <3>5. Reflects(ids, at)'
      BY <3>1, <3>3, <3>4
    <3>6. ids = req'[q].users /\ at = req'[q].at
      BY <2>1, <3>4
    <3>. QED  BY <1>1, <2>1, <3>1, <3>2, <3>4, <3>5 DEF Reflects
  <2>. QED  BY <2>1, <2>2 DEF ReqOK, Reflects
<1>3. MembersOK'
  BY <1>1, ListsStay
<1>. QED  BY <1>2, <1>3 DEF ListsOK

LEMMA CacheStays ==
    ASSUME ListsOK, Recorded, cache' = cache
    PROVE  CacheOK'
<1>1. /\ TypeOK /\ MembersOK /\ now \in Nat /\ now' \in {now, now + 1}
      /\ cache.ids \in SUBSET Users /\ cache.at \in {Never} \cup 0..now
      /\ CacheOK
  BY DEF ListsOK, CacheOK, TypeOK, Recorded, Never
<1>2. cache.ids \subseteq Seen' /\ cache.at <= now'
  BY <1>1, ListsStay DEF CacheOK, Never
<1>3. ASSUME ~cache.slow PROVE Reflects(cache.ids, cache.at)'
  <2>1. PICK ids \in SUBSET Users, at \in {Never} \cup 0..now :
           ids = cache.ids /\ at = cache.at
    BY <1>1
  <2>2. Reflects(ids, at)'
    BY <1>1, <1>3, <2>1, ListsStay DEF CacheOK
  <2>. QED  BY <2>1, <2>2 DEF Reflects
<1>. QED  BY <1>2, <1>3 DEF CacheOK, Reflects

-----------------------------------------------------------------------------
(* Types and lists                                                         *)

LEMMA ListsInit == Init => ListsOK
<1>. SUFFICES ASSUME Init PROVE ListsOK
  OBVIOUS
<1>1. TypeOK
  <2>1. req \in [Requests -> ReqType]
    BY IdleTyped DEF Init
  <2>2. now \in 0..MaxNow /\ cache \in [ids : SUBSET Users, at : {Never} \cup 0..MaxNow,
                                       slow : BOOLEAN]
    BY NumbersAssumption DEF Init, NoEntry, Entry
  <2>3. /\ role \in [Users -> Roles \cup {"none"}] /\ exists \in BOOLEAN /\ jobs = {}
        /\ keyJob \in [Users -> {"none", "member", "removed"}]
        /\ changedAt \in [Users -> {Never} \cup 0..MaxNow] /\ disturbed = {}
        /\ ownHand \in BOOLEAN /\ crossed \in BOOLEAN
    BY DEF Init
  <2>. QED  BY <2>1, <2>2, <2>3 DEF TypeOK, ReqType
<1>2. MembersOK /\ NewOK /\ CacheOK /\ FanOutIsRecent
  BY IdleTyped DEF Init, MembersOK, NewOK, CacheOK, FanOutIsRecent, NoEntry, Entry, Never,
     Reflects, Free
<1>3. \A r \in Requests : ReqOK(r)
  BY IdleTyped DEF Init, ReqOK, ChangePcs
<1>. QED  BY <1>1, <1>2, <1>3 DEF ListsOK

\* Steps that change no row.
LEMMA RowsStay ==
    ASSUME ListsOK, UNCHANGED <<now, exists, role, changedAt>>,
           NEW r \in Requests, OnlyReq(r), req' \in [Requests -> ReqType],
           req'[r].pc # "idle" => exists
    PROVE  Recorded /\ NewOK' /\ MembersOK' /\ Seen' = Seen /\ Members' = Members
BY DEF ListsOK, TypeOK, Recorded, NewOK, MembersOK, Seen, Members, Free, OnlyReq

\* Nothing is under way before the group is created.
LEMMA BusyExists ==
    ASSUME ListsOK
    PROVE  /\ \A r \in Requests : ~Free(r) => exists
           /\ \A u \in Users : role[u] # "none" => exists
BY DEF ListsOK, NewOK

\* A step that changes a request and, at most, what was announced.
LEMMA PlainStep ==
    ASSUME ListsOK, UNCHANGED <<now, exists, role, cache, jobs, changedAt>>,
           keyJob' \in [Users -> {"none", "member", "removed"}],
           disturbed' \subseteq Users, ownHand' \in BOOLEAN, crossed' \in BOOLEAN,
           NEW r \in Requests, OnlyReq(r), req' \in [Requests -> ReqType],
           req'[r].pc # "idle" => exists, ReqOK(r)'
    PROVE  ListsOK'
<1>1. Recorded /\ NewOK'
  BY RowsStay
<1>2. TypeOK' /\ FanOutIsRecent'
  BY DEF ListsOK, TypeOK, ReqType, FanOutIsRecent
<1>3. CacheOK'
  BY <1>1, CacheStays
<1>. QED  BY <1>1, <1>2, <1>3, ListsStep

LEMMA CreateLists ==
    ASSUME ListsOK, NEW r \in Requests, NEW u \in Users,
           NEW others \in SUBSET Users \ {{}}, Create(r, u, others)
    PROVE  ListsOK'
<1>1. /\ TypeOK /\ MembersOK /\ NewOK /\ now \in 0..MaxNow /\ ~exists
      /\ exists' = TRUE /\ UNCHANGED <<now, cache, jobs, keyJob, disturbed, ownHand, crossed>>
  BY DEF Create, ListsOK, TypeOK
<1>2. /\ req' \in [Requests -> ReqType] /\ req'[r].pc = "createJob" /\ OnlyReq(r)
  BY <1>1, Announced DEF Create, NoticePcs
<1>3. ReqOK(r)'
  BY <1>2 DEF ReqOK, ChangePcs
<1>4. Recorded
  BY <1>1 DEF Recorded, NewOK, Create
<1>5. TypeOK'
  <2>1. role' \in [Users -> Roles \cup {"none"}]
    BY DEF Create, Roles
  <2>2. changedAt' \in [Users -> {Never} \cup 0..MaxNow]
    BY <1>1 DEF Create
  <2>. QED  BY <1>1, <1>2, <2>1, <2>2 DEF TypeOK, ReqType
<1>6. NewOK' /\ FanOutIsRecent' /\ CacheOK'
  BY <1>1, <1>4, CacheStays DEF NewOK, FanOutIsRecent, ListsOK
<1>. QED  BY <1>2, <1>3, <1>4, <1>5, <1>6, ListsStep

\* What a write of one user's row records.
LEMMA RecordOne ==
    ASSUME ListsOK, NEW r \in Requests, NEW u \in Users, Record(r, u)
    PROVE  /\ changedAt' \in [Users -> {Never} \cup 0..MaxNow]
           /\ changedAt'[u] = now /\ \A v \in Users \ {u} : changedAt'[v] = changedAt[v]
           /\ disturbed' \subseteq Users
BY DEF Record, ListsOK, TypeOK

LEMMA AddWriteLists ==
    ASSUME ListsOK, NEW r \in Requests, AddWrite(r)
    PROVE  ListsOK'
<1>1. /\ TypeOK /\ req[r].role \in Roles /\ exists
      /\ UNCHANGED <<now, exists, cache, jobs, keyJob, ownHand, crossed>>
  BY BusyExists DEF AddWrite, ListsOK, ReqOK, Free
<1>2. PICK u \in Users :
         IF role[u] = "none"
         THEN role' = [role EXCEPT ![u] = req[r].role] /\ Record(r, u) /\ Announce(r, "addJob", {u})
         ELSE Finish(r) /\ UNCHANGED <<role, changedAt, disturbed>>
  BY DEF AddWrite, ListsOK, TypeOK
<1>3. CASE role[u] = "none"
  <2>1. /\ req' \in [Requests -> ReqType] /\ req'[r].pc = "addJob" /\ OnlyReq(r)
    BY <1>1, <1>2, <1>3, Announced DEF NoticePcs
  <2>2. /\ changedAt' \in [Users -> {Never} \cup 0..MaxNow]
        /\ changedAt'[u] = now /\ \A v \in Users \ {u} : changedAt'[v] = changedAt[v]
        /\ disturbed' \subseteq Users
    BY <1>2, <1>3, RecordOne
  <2>3. Recorded
    BY <1>1, <1>2, <1>3, <2>2 DEF Recorded, TypeOK
  <2>4. TypeOK' /\ NewOK' /\ FanOutIsRecent' /\ CacheOK' /\ ReqOK(r)'
    BY <1>1, <1>2, <1>3, <2>1, <2>2, <2>3, CacheStays
       DEF TypeOK, ReqType, NewOK, FanOutIsRecent, ListsOK, ReqOK, ChangePcs
  <2>. QED  BY <2>1, <2>3, <2>4, ListsStep
<1>4. CASE role[u] # "none"
  <2>1. req' \in [Requests -> ReqType] /\ req'[r].pc = "idle" /\ OnlyReq(r)
    BY <1>1, <1>2, <1>4, Finishing
  <2>2. ReqOK(r)'
    BY <2>1 DEF ReqOK, ChangePcs
  <2>. QED  BY <1>1, <1>2, <1>4, <2>1, <2>2, PlainStep DEF TypeOK
<1>. QED  BY <1>3, <1>4

LEMMA RemoveWriteLists ==
    ASSUME ListsOK, NEW r \in Requests, RemoveWrite(r)
    PROVE  ListsOK'
<1>1. /\ TypeOK /\ exists /\ UNCHANGED <<now, exists, cache, jobs, keyJob>>
  BY BusyExists DEF RemoveWrite, ListsOK, Free
<1>2. PICK u \in Users :
         /\ role' = [role EXCEPT ![u] = "none"]
         /\ IF role[u] # "none" THEN Record(r, u) ELSE UNCHANGED <<changedAt, disturbed>>
         /\ ownHand' \in BOOLEAN /\ crossed' \in BOOLEAN
         /\ Announce(r, "removeJob", {u})
  BY <1>1 DEF RemoveWrite, TypeOK
<1>3. /\ req' \in [Requests -> ReqType] /\ req'[r].pc = "removeJob" /\ OnlyReq(r)
  BY <1>1, <1>2, Announced DEF NoticePcs
<1>4. /\ changedAt' \in [Users -> {Never} \cup 0..MaxNow] /\ disturbed' \subseteq Users
      /\ \A v \in Users \ {u} : changedAt'[v] = changedAt[v]
      /\ IF role[u] # "none" THEN changedAt'[u] = now ELSE changedAt'[u] = changedAt[u]
  <2>1. CASE role[u] # "none"
    BY <1>2, <2>1, RecordOne
  <2>2. CASE role[u] = "none"
    BY <1>1, <1>2, <2>2 DEF TypeOK
  <2>. QED  BY <2>1, <2>2
<1>5. Recorded
  BY <1>1, <1>2, <1>4 DEF Recorded, TypeOK
<1>6. TypeOK' /\ NewOK' /\ FanOutIsRecent' /\ CacheOK' /\ ReqOK(r)'
  BY <1>1, <1>2, <1>3, <1>4, <1>5, CacheStays
     DEF TypeOK, ReqType, NewOK, FanOutIsRecent, ListsOK, ReqOK, ChangePcs
<1>. QED  BY <1>3, <1>5, <1>6, ListsStep

\* The steps of a change that write no row.
LEMMA OtherChangesLists ==
    ASSUME ListsOK, NEW r \in Requests,
           \/ CreateJob(r) \/ AddJob(r) \/ RemoveJob(r) \/ AddCheck(r)
           \/ \E a, u \in Users, given \in Roles : AddStart(r, a, u, given)
           \/ \E a, u \in Users : RemoveStart(r, a, u)
           \/ Abort(r)
    PROVE  ListsOK'
<1>1. TypeOK
  BY DEF ListsOK
<1>2. CASE CreateJob(r) \/ AddJob(r) \/ RemoveJob(r) \/ Abort(r)
  <2>1. Finish(r) /\ UNCHANGED <<now, exists, role, cache, jobs, changedAt>>
    BY <1>2 DEF CreateJob, AddJob, RemoveJob, Tell, Abort, history
  <2>2. req' \in [Requests -> ReqType] /\ req'[r].pc = "idle" /\ OnlyReq(r)
    BY <1>1, <2>1, Finishing
  <2>3. ReqOK(r)'
    BY <2>2 DEF ReqOK, ChangePcs
  <2>4. /\ keyJob' \in [Users -> {"none", "member", "removed"}] /\ disturbed' \subseteq Users
        /\ ownHand' \in BOOLEAN /\ crossed' \in BOOLEAN
    BY <1>1, <1>2 DEF TypeOK, CreateJob, AddJob, RemoveJob, Tell, Abort, history
  <2>. QED  BY <2>1, <2>2, <2>3, <2>4, PlainStep
<1>3. CASE AddCheck(r)
  <2>1. /\ UNCHANGED <<now, exists, role, cache, jobs, keyJob, history>>
        /\ req[r].pc = "addCheck" /\ exists
    BY <1>3, BusyExists DEF AddCheck, Free
  <2>2. /\ req' \in [Requests -> ReqType] /\ OnlyReq(r) /\ req'[r].pc \in {"idle", "addWrite"}
        /\ req'[r].pc = "addWrite" => /\ req'[r].users = req[r].users
                                      /\ req'[r].actor = req[r].actor
                                      /\ req'[r].role = req[r].role
    <3>1. CASE Finish(r)
      <4>1. req' \in [Requests -> ReqType] /\ OnlyReq(r) /\ req'[r].pc = "idle"
        BY <1>1, <3>1, Finishing
      <4>. QED  BY <4>1
    <3>2. CASE Goto(r, "addWrite")
      BY <1>1, <3>2, Going DEF ChangePcs
    <3>. QED  BY <1>3, <3>1, <3>2 DEF AddCheck
  <2>3. ReqOK(r)'
    BY <2>1, <2>2 DEF ReqOK, ChangePcs, ListsOK
  <2>. QED  BY <1>1, <2>1, <2>2, <2>3, PlainStep DEF TypeOK, history
<1>4. ASSUME NEW a \in Users, NEW u \in Users, NEW given \in Roles, AddStart(r, a, u, given)
      PROVE  ListsOK'
  <2>1. /\ UNCHANGED <<now, exists, role, cache, jobs, keyJob, history>> /\ exists
    BY <1>4, BusyExists DEF AddStart
  <2>2. /\ req' \in [Requests -> ReqType] /\ OnlyReq(r) /\ req'[r].pc = "addCheck"
        /\ req'[r].actor = a /\ req'[r].users = {u} /\ req'[r].role = given
    <3>. DEFINE q == [req[r] EXCEPT !.pc = "addCheck", !.actor = a, !.users = {u}, !.role = given]
    <3>1. q \in ReqType /\ q.pc = "addCheck" /\ q.actor = a /\ q.users = {u} /\ q.role = given
      <4>1. req[r] \in ReqType
        BY <1>1 DEF TypeOK, ReqType
      <4>. QED  BY <1>4, <4>1 DEF ReqType, ChangePcs
    <3>2. req' = [req EXCEPT ![r] = q]
      BY <1>1, <1>4 DEF AddStart, TypeOK
    <3>. HIDE DEF q
    <3>3. req' \in [Requests -> ReqType] /\ req'[r] = q /\ OnlyReq(r)
      BY <1>1, <3>1, <3>2, OneRequest
    <3>. QED  BY <3>1, <3>3
  <2>3. ReqOK(r)'
    BY <2>2 DEF ReqOK
  <2>. QED  BY <1>1, <2>1, <2>2, <2>3, PlainStep DEF TypeOK, history
<1>5. ASSUME NEW a \in Users, NEW u \in Users, RemoveStart(r, a, u)
      PROVE  ListsOK'
  <2>1. /\ UNCHANGED <<now, exists, role, cache, jobs, keyJob, history>> /\ exists
    BY <1>5 DEF RemoveStart
  <2>2. /\ req' \in [Requests -> ReqType] /\ OnlyReq(r) /\ req'[r].pc = "removeWrite"
        /\ req'[r].actor = a /\ req'[r].users = {u}
    <3>. DEFINE q == [req[r] EXCEPT !.pc = "removeWrite", !.actor = a, !.users = {u}]
    <3>1. q \in ReqType /\ q.pc = "removeWrite" /\ q.actor = a /\ q.users = {u}
      <4>1. req[r] \in ReqType
        BY <1>1 DEF TypeOK, ReqType
      <4>. QED  BY <1>5, <4>1 DEF ReqType, ChangePcs
    <3>2. req' = [req EXCEPT ![r] = q]
      BY <1>1, <1>5 DEF RemoveStart, TypeOK
    <3>. HIDE DEF q
    <3>3. req' \in [Requests -> ReqType] /\ req'[r] = q /\ OnlyReq(r)
      BY <1>1, <3>1, <3>2, OneRequest
    <3>. QED  BY <3>1, <3>3
  <2>3. ReqOK(r)'
    BY <2>2 DEF ReqOK
  <2>. QED  BY <1>1, <2>1, <2>2, <2>3, PlainStep DEF TypeOK, history
<1>. QED  BY <1>2, <1>3, <1>4, <1>5

\* The list that is cached, or that is read now, is behind by less than the
\* lifetime of the entry.
LEMMA SendLists ==
    ASSUME ListsOK, NEW r \in Requests, Send(r)
    PROVE  ListsOK'
<1>1. /\ TypeOK /\ MembersOK /\ CacheOK /\ now \in 0..MaxNow /\ MaxNow \in Nat
      /\ CacheTtl \in Nat /\ CacheTtl > 0 /\ Members \subseteq Seen
  BY NumbersAssumption DEF ListsOK, TypeOK, MembersOK, Members, Seen
<1>2. UNCHANGED <<now, exists, role, keyJob, changedAt, disturbed, ownHand, crossed>>
  BY DEF Send, SendStart, SendList, SendRead, SendCache, SendJob, history
<1>3. exists
  <2>1. CASE SendStart(r)
    BY <2>1, BusyExists DEF SendStart, Members
  <2>2. CASE SendList(r) \/ SendRead(r) \/ SendCache(r) \/ SendJob(r)
    BY <2>2, BusyExists DEF SendList, SendRead, SendCache, SendJob, Free
  <2>. QED  BY <2>1, <2>2 DEF Send
<1>4. ASSUME cache' = cache, jobs' = jobs, OnlyReq(r), req' \in [Requests -> ReqType],
             ReqOK(r)'
      PROVE  ListsOK'
  BY <1>1, <1>2, <1>3, <1>4, PlainStep DEF TypeOK
<1>5. CASE SendStart(r)
  <2>1. req' \in [Requests -> ReqType] /\ OnlyReq(r) /\ req'[r].pc = "sendList"
    BY <1>1, <1>5, Going DEF SendStart, SendPcs
  <2>2. ReqOK(r)'
    BY <2>1 DEF ReqOK, ChangePcs
  <2>. QED  BY <1>4, <1>5, <2>1, <2>2 DEF SendStart
<1>6. CASE SendList(r)
  <2>1. CASE Hit
    <3>1. /\ cache.at \in 0..now /\ now < cache.at + CacheTtl /\ cache.ids \in SUBSET Seen
          /\ cache.slow \in BOOLEAN /\ (~cache.slow => Reflects(cache.ids, cache.at))
      BY <1>1, <2>1 DEF Hit, TypeOK, CacheOK, Never
    <3>2. ~cache.slow => Lag(cache.ids) < CacheTtl
      <4>1. Lag(cache.ids) \in Nat
        BY <1>1, <3>1, LagOfList
      <4>2. ASSUME ~cache.slow PROVE Lag(cache.ids) <= now - cache.at
        BY <1>1, <3>1, <4>2, LagOfList
      <4>. QED  BY <1>1, <3>1, <4>1, <4>2
    <3>3. Decide(r, cache.ids, cache.slow)
      BY <1>6, <2>1 DEF SendList
    <3>4. /\ req' \in [Requests -> ReqType] /\ OnlyReq(r) /\ req'[r].pc \in {"idle", "sendJob"}
          /\ req'[r].pc = "sendJob" /\ ~req'[r].slow => req'[r].lag < CacheTtl
      BY <3>1, <3>2, <3>3, Deciding
    <3>5. ReqOK(r)'
      BY <3>4 DEF ReqOK, ChangePcs
    <3>. QED  BY <1>4, <1>6, <3>4, <3>5 DEF SendList
  <2>2. CASE ~Hit
    <3>1. req' \in [Requests -> ReqType] /\ OnlyReq(r) /\ req'[r].pc = "sendRead"
      BY <1>1, <1>6, <2>2, Going DEF SendList, SendPcs
    <3>2. ReqOK(r)'
      BY <3>1 DEF ReqOK, ChangePcs
    <3>. QED  BY <1>4, <1>6, <3>1, <3>2 DEF SendList
  <2>. QED  BY <2>1, <2>2
<1>7. CASE SendRead(r)
  <2>. DEFINE q == [req[r] EXCEPT !.pc = "sendCache", !.users = Members, !.at = now]
  <2>1. q \in ReqType /\ q.pc = "sendCache" /\ q.users = Members /\ q.at = now
    <3>1. req[r] \in ReqType /\ Members \in SUBSET Users
      BY <1>1 DEF TypeOK, ReqType, Members
    <3>. QED  BY <1>1, <3>1 DEF ReqType, SendPcs
  <2>2. req' = [req EXCEPT ![r] = q]
    BY <1>1, <1>7 DEF SendRead, TypeOK
  <2>. HIDE DEF q
  <2>3. req' \in [Requests -> ReqType] /\ req'[r] = q /\ OnlyReq(r)
    BY <1>1, <2>1, <2>2, OneRequest
  <2>4. Seen' = Seen /\ Members' = Members
    BY <1>2 DEF Seen, Members
  <2>5. Reflects(Members, now)' /\ Members \subseteq Seen' /\ now \in 0..now'
    BY <1>1, <1>2, <2>4 DEF Reflects
  <2>6. ReqOK(r)'
    BY <1>2, <2>1, <2>3, <2>4, <2>5 DEF ReqOK, ChangePcs
  <2>. QED  BY <1>4, <1>7, <2>3, <2>6 DEF SendRead
<1>8. CASE SendCache(r)
  <2>. DEFINE ids == req[r].users
              slow == now # req[r].at
  <2>1. /\ req[r].pc = "sendCache" /\ cache' = Entry(ids, now, slow) /\ Decide(r, ids, slow)
        /\ jobs' = jobs
    BY <1>8 DEF SendCache
  <2>2. req[r].at \in 0..now /\ ids \in SUBSET Seen /\ Reflects(ids, req[r].at)
    BY <2>1 DEF ListsOK, ReqOK
  <2>3. ~slow => Lag(ids) < CacheTtl
    <3>1. Lag(ids) \in 0..MaxNow /\ Lag(ids) <= now - req[r].at
      BY <1>1, <2>2, LagOfList
    <3>. QED  BY <1>1, <3>1
  <2>4. slow \in BOOLEAN
    OBVIOUS
  <2>5. ~slow => Reflects(ids, now)
    BY <2>2
  <2>. HIDE DEF ids, slow
  <2>6. /\ req' \in [Requests -> ReqType] /\ OnlyReq(r) /\ req'[r].pc \in {"idle", "sendJob"}
        /\ req'[r].pc = "sendJob" /\ ~req'[r].slow => req'[r].lag < CacheTtl
    BY <2>1, <2>2, <2>3, <2>4, Deciding
  <2>7. ReqOK(r)'
    BY <2>6 DEF ReqOK, ChangePcs
  <2>8. Recorded /\ NewOK' /\ Seen' = Seen /\ Members' = Members
    BY <1>2, <1>3, <2>6, RowsStay
  <2>9. CacheOK'
    <3>1. cache'.ids = ids /\ cache'.at = now /\ cache'.slow = slow
      BY <2>1 DEF Entry
    <3>2. ~slow => \A u \in Users : changedAt'[u] < now => (u \in ids <=> u \in Members')
      BY <1>2, <2>5, <2>8 DEF Reflects
    <3>. QED  BY <1>1, <1>2, <2>2, <2>8, <3>1, <3>2 DEF CacheOK, Reflects
  <2>10. TypeOK' /\ FanOutIsRecent'
    <3>1. cache' \in [ids : SUBSET Users, at : {Never} \cup 0..MaxNow, slow : BOOLEAN]
      BY <1>1, <2>1, <2>2, <2>4 DEF Entry, Seen
    <3>. QED  BY <1>1, <1>2, <2>1, <2>6, <3>1 DEF TypeOK, ReqType, ListsOK, FanOutIsRecent
  <2>. QED  BY <2>6, <2>7, <2>8, <2>9, <2>10, ListsStep
<1>9. CASE SendJob(r)
  <2>. DEFINE j == [slow |-> req[r].slow, lag |-> req[r].lag]
  <2>1. jobs' = jobs \cup {j} /\ Finish(r) /\ cache' = cache /\ req[r].pc = "sendJob"
    BY <1>9 DEF SendJob
  <2>2. j \in [slow : BOOLEAN, lag : 0..MaxNow] /\ (~j.slow => j.lag < CacheTtl)
    BY <1>1, <2>1 DEF TypeOK, ListsOK, ReqOK
  <2>. HIDE DEF j
  <2>3. req' \in [Requests -> ReqType] /\ OnlyReq(r) /\ req'[r].pc = "idle"
    BY <1>1, <2>1, Finishing
  <2>4. ReqOK(r)'
    BY <2>3 DEF ReqOK, ChangePcs
  <2>5. Recorded /\ NewOK'
    BY <1>2, <1>3, <2>3, RowsStay
  <2>6. TypeOK' /\ FanOutIsRecent' /\ CacheOK'
    BY <1>1, <1>2, <2>1, <2>2, <2>3, <2>5, CacheStays
       DEF TypeOK, ReqType, ListsOK, FanOutIsRecent
  <2>. QED  BY <2>3, <2>4, <2>5, <2>6, ListsStep
<1>. QED  BY <1>5, <1>6, <1>7, <1>8, <1>9 DEF Send

LEMMA TickLists ==
    ASSUME ListsOK, Tick
    PROVE  ListsOK'
<1>1. /\ TypeOK /\ MembersOK /\ now' = now + 1 /\ now \in Nat /\ now' \in 0..MaxNow
      /\ UNCHANGED <<exists, role, cache, jobs, keyJob, changedAt, disturbed, ownHand,
                     crossed, req>>
  BY NumbersAssumption DEF Tick, history, ListsOK, TypeOK
<1>2. Recorded /\ CacheOK'
  BY <1>1, CacheStays DEF Recorded
<1>3. TypeOK' /\ NewOK' /\ FanOutIsRecent'
  BY <1>1 DEF TypeOK, NewOK, Free, FanOutIsRecent, ListsOK
<1>4. ASSUME NEW r \in Requests PROVE ReqOK(r)'
  <2>1. \A ids, at : Reflects(ids, at) => Reflects(ids, at)'
    BY <1>1 DEF Reflects, Members
  <2>2. Seen' = Seen /\ \A at \in 0..now : at \in 0..now'
    BY <1>1 DEF Seen
  <2>. QED  BY <1>1, <2>1, <2>2 DEF ListsOK, ReqOK, Reflects, Members
<1>. QED  BY <1>1, <1>2, <1>3, <1>4, ListsStay DEF ListsOK

LEMMA ListsNext == ListsOK /\ [Next]_vars => ListsOK'
<1>. SUFFICES ASSUME ListsOK, [Next]_vars PROVE ListsOK'
  OBVIOUS
<1>1. ASSUME NEW r \in Requests, Change(r) PROVE ListsOK'
  BY <1>1, CreateLists, AddWriteLists, RemoveWriteLists, OtherChangesLists DEF Change
<1>2. ASSUME NEW r \in Requests, Abort(r) PROVE ListsOK'
  BY <1>2, OtherChangesLists
<1>3. CASE UNCHANGED vars
  BY <1>3 DEF vars, history, ListsOK, TypeOK, MembersOK, NewOK, CacheOK, ReqOK, FanOutIsRecent,
     Free, Seen, Reflects, Members
<1>. QED  BY <1>1, <1>2, <1>3, SendLists, TickLists DEF Next

\* Every variable keeps its type.
THEOREM TypeCorrect == Spec => []TypeOK
<1>1. ListsOK => TypeOK
  BY DEF ListsOK
<1>. QED  BY <1>1, ListsInit, ListsNext, PTL DEF Spec

\* A fan-out job goes to the participants as they were less than the lifetime of
\* the cached list ago, unless the list was slow to get into the cache.
THEOREM FanOutGoesToTheRecent == Spec => []FanOutIsRecent
<1>1. ListsOK => FanOutIsRecent
  BY DEF ListsOK
<1>. QED  BY <1>1, ListsInit, ListsNext, PTL DEF Spec

-----------------------------------------------------------------------------
(* Announcements                                                           *)

\* What NoticesOK says of one user.
NoticesOf(u) ==
    /\ \A r \in Requests : u \in req[r].users =>
          /\ req[r].pc \in {"createJob", "addJob"} => role[u] # "none"
          /\ req[r].pc = "removeJob" => role[u] = "none"
    /\ (\A r \in Requests : req[r].pc \in NoticePcs => u \notin req[r].users) =>
          (keyJob[u] = "member" <=> role[u] # "none")

LEMMA NoticesByUser ==
    /\ NoticesOK <=> \A u \in Users \ disturbed : NoticesOf(u)
    /\ NoticesOK' <=> \A u \in Users \ disturbed' : NoticesOf(u)'
BY DEF NoticesOK, NoticesOf, LastNoticeMatchesRow

LEMMA NoticesInit == Init => NoticesOK
BY DEF Init, NoticesOK, LastNoticeMatchesRow, Idle

\* A step of a request that announces nothing, neither before nor after it.
LEMMA QuietStep ==
    ASSUME NoticesOK, UNCHANGED <<role, keyJob, disturbed>>,
           NEW r \in Requests, OnlyReq(r),
           req[r].pc \notin NoticePcs, req'[r].pc \notin NoticePcs
    PROVE  NoticesOK'
<1>1. SUFFICES ASSUME NEW u \in Users \ disturbed, NoticesOf(u) PROVE NoticesOf(u)'
  BY NoticesByUser
<1>2. \A q \in Requests : (req'[q].pc \in NoticePcs \/ req[q].pc \in NoticePcs) => req'[q] = req[q]
  BY DEF OnlyReq
<1>. QED  BY <1>1, <1>2 DEF NoticesOf, NoticePcs

\* A change that is written leaves what is announced of the others alone, and is
\* announced by the request itself.
LEMMA WriteNotices ==
    ASSUME ListsOK, NoticesOK, NEW r \in Requests, req[r].pc \notin NoticePcs,
           NEW u \in Users, keyJob' = keyJob, OnlyReq(r),
           \A v \in Users \ {u} : role'[v] = role[v],
           req'[r].users = {u}, req'[r].pc \in {"addJob", "removeJob"},
           req'[r].pc = "addJob" <=> role'[u] # "none",
           \/ role'[u] = role[u] /\ disturbed' = disturbed
           \/ disturbed' = IF Announcing(r, u) THEN disturbed \cup {u} ELSE disturbed
    PROVE  NoticesOK'
<1>1. SUFFICES ASSUME NEW v \in Users, v \notin disturbed' PROVE NoticesOf(v)'
  BY NoticesByUser
<1>2. v \notin disturbed /\ NoticesOf(v)
  BY <1>1, NoticesByUser
<1>3. CASE v # u
  <2>1. \A q \in Requests : v \in req'[q].users /\ req'[q].pc \in NoticePcs =>
           req'[q] = req[q]
    BY <1>3 DEF OnlyReq
  <2>2. \A q \in Requests : v \in req[q].users /\ req[q].pc \in NoticePcs =>
           req'[q] = req[q]
    BY DEF OnlyReq
  <2>. QED  BY <1>1, <1>2, <1>3, <2>1, <2>2 DEF NoticesOf, NoticePcs
<1>4. CASE v = u
  <2>1. ASSUME NEW q \in Requests, u \in req'[q].users
        PROVE  /\ req'[q].pc \in {"createJob", "addJob"} => role'[u] # "none"
               /\ req'[q].pc = "removeJob" => role'[u] = "none"
    <3>1. CASE q = r
      BY <3>1
    <3>2. CASE q # r
      <4>1. req'[q] = req[q]
        BY <3>2 DEF OnlyReq
      <4>2. role'[u] = role[u] \/ req[q].pc \notin NoticePcs
        BY <1>1, <1>2, <1>4, <2>1, <3>2, <4>1 DEF Announcing
      <4>. QED  BY <1>2, <1>4, <2>1, <4>1, <4>2 DEF NoticesOf, NoticePcs
    <3>. QED  BY <3>1, <3>2
  <2>2. req'[r].pc \in NoticePcs /\ u \in req'[r].users
    BY DEF NoticePcs
  <2>. QED  BY <1>4, <2>1, <2>2 DEF NoticesOf
<1>. QED  BY <1>3, <1>4

\* A request that ends tells of its users what their rows are, or disturbs them.
LEMMA EndNotices ==
    ASSUME ListsOK, NoticesOK, UNCHANGED role, NEW r \in Requests, OnlyReq(r),
           req'[r].users = {}, req'[r].pc = "idle",
           \A u \in Users \ disturbed' :
              /\ u \notin disturbed
              /\ IF u \in req[r].users /\ req[r].pc \in NoticePcs
                 THEN keyJob'[u] = IF req[r].pc = "removeJob" THEN "removed" ELSE "member"
                 ELSE keyJob'[u] = keyJob[u]
    PROVE  NoticesOK'
<1>1. SUFFICES ASSUME NEW u \in Users, u \notin disturbed' PROVE NoticesOf(u)'
  BY NoticesByUser
<1>2. u \notin disturbed /\ NoticesOf(u)
  BY <1>1, NoticesByUser
<1>3. \A q \in Requests : u \in req'[q].users => req'[q] = req[q]
  BY DEF OnlyReq
<1>4. CASE u \in req[r].users /\ req[r].pc \in NoticePcs
  <2>1. keyJob'[u] = "member" <=> role[u] # "none"
    BY <1>1, <1>2, <1>4 DEF NoticesOf, NoticePcs
  <2>. QED  BY <1>2, <1>3, <2>1 DEF NoticesOf
<1>5. CASE ~(u \in req[r].users /\ req[r].pc \in NoticePcs)
  <2>1. keyJob'[u] = keyJob[u]
    BY <1>1, <1>5
  <2>2. (\A q \in Requests : req'[q].pc \in NoticePcs => u \notin req'[q].users) =>
            \A q \in Requests : req[q].pc \in NoticePcs => u \notin req[q].users
    BY <1>5 DEF OnlyReq
  <2>. QED  BY <1>2, <1>3, <2>1, <2>2 DEF NoticesOf
<1>. QED  BY <1>4, <1>5

LEMMA ChangeNotices ==
    ASSUME ListsOK, NoticesOK, NEW r \in Requests, Change(r)
    PROVE  NoticesOK'
<1>1. TypeOK /\ ReqOK(r)
  BY DEF ListsOK
<1>2. ASSUME NEW u \in Users, NEW others \in SUBSET Users \ {{}}, Create(r, u, others)
      PROVE  NoticesOK'
  <2>1. /\ \A v \in Users : role[v] = "none" /\ \A q \in Requests : Free(q)
        /\ UNCHANGED <<keyJob, disturbed>>
        /\ \A v \in Users : role'[v] # "none" <=> v \in others \cup {u}
    BY <1>2 DEF Create, ListsOK, NewOK
  <2>2. /\ req'[r].pc = "createJob" /\ req'[r].users = others \cup {u} /\ OnlyReq(r)
    BY <1>1, <1>2, Announced DEF Create, NoticePcs
  <2>3. ASSUME NEW v \in Users \ disturbed PROVE NoticesOf(v)'
    <3>1. NoticesOf(v)
      BY NoticesByUser
    <3>2. \A q \in Requests \ {r} : req'[q].pc = "idle"
      BY <2>1, <2>2 DEF OnlyReq, Free
    <3>3. keyJob[v] # "member"
      BY <2>1, <3>1 DEF NoticesOf, Free, NoticePcs
    <3>. QED  BY <2>1, <2>2, <3>2, <3>3 DEF NoticesOf, NoticePcs
  <2>. QED  BY <2>1, <2>3, NoticesByUser
<1>3. CASE CreateJob(r) \/ AddJob(r) \/ RemoveJob(r)
  <2>1. Finish(r) /\ UNCHANGED <<role, disturbed>>
    BY <1>3 DEF CreateJob, AddJob, RemoveJob, Tell, history
  <2>2. req'[r].pc = "idle" /\ req'[r].users = {} /\ OnlyReq(r)
    BY <1>1, <2>1, Finishing
  <2>3. ASSUME NEW u \in Users
        PROVE  IF u \in req[r].users /\ req[r].pc \in NoticePcs
               THEN keyJob'[u] = IF req[r].pc = "removeJob" THEN "removed" ELSE "member"
               ELSE keyJob'[u] = keyJob[u]
    BY <1>3 DEF CreateJob, AddJob, RemoveJob, Tell, NoticePcs
  <2>. QED  BY <2>1, <2>2, <2>3, EndNotices
<1>4. ASSUME NEW a \in Users, NEW u \in Users,
             \/ \E given \in Roles : AddStart(r, a, u, given)
             \/ RemoveStart(r, a, u)
      PROVE  NoticesOK'
  <2>1. UNCHANGED <<role, keyJob, disturbed>> /\ req[r].pc = "idle"
    BY <1>4 DEF AddStart, RemoveStart, Free, history
  <2>2. req'[r].pc \in {"addCheck", "removeWrite"} /\ OnlyReq(r)
    BY <1>1, <1>4 DEF AddStart, RemoveStart, OnlyReq, TypeOK
  <2>. QED  BY <2>1, <2>2, QuietStep DEF NoticePcs
<1>5. CASE AddCheck(r)
  <2>1. UNCHANGED <<role, keyJob, disturbed>> /\ req[r].pc = "addCheck"
    BY <1>5 DEF AddCheck, history
  <2>2. req'[r].pc \in {"idle", "addWrite"} /\ OnlyReq(r)
    <3>1. CASE Finish(r)
      BY <1>1, <3>1, Finishing
    <3>2. CASE Goto(r, "addWrite")
      BY <1>1, <3>2, Going DEF ChangePcs
    <3>. QED  BY <1>5, <3>1, <3>2 DEF AddCheck
  <2>. QED  BY <2>1, <2>2, QuietStep DEF NoticePcs
<1>6. CASE AddWrite(r)
  <2>1. req[r].pc = "addWrite" /\ req[r].role \in Roles /\ keyJob' = keyJob
    BY <1>1, <1>6 DEF AddWrite, ReqOK
  <2>2. PICK u \in Users :
           IF role[u] = "none"
           THEN role' = [role EXCEPT ![u] = req[r].role] /\ Record(r, u) /\ Announce(r, "addJob", {u})
           ELSE Finish(r) /\ UNCHANGED <<role, changedAt, disturbed>>
    BY <1>1, <1>6 DEF AddWrite, TypeOK
  <2>3. CASE role[u] = "none"
    <3>1. req'[r].pc = "addJob" /\ req'[r].users = {u} /\ OnlyReq(r)
      BY <1>1, <2>2, <2>3, Announced DEF NoticePcs
    <3>2. /\ disturbed' = IF Announcing(r, u) THEN disturbed \cup {u} ELSE disturbed
          /\ role'[u] # "none" /\ \A v \in Users \ {u} : role'[v] = role[v]
      BY <1>1, <2>1, <2>2, <2>3 DEF Record, TypeOK, Roles
    <3>. QED  BY <2>1, <3>1, <3>2, WriteNotices DEF NoticePcs
  <2>4. CASE role[u] # "none"
    <3>1. req'[r].pc = "idle" /\ OnlyReq(r)
      BY <1>1, <2>2, <2>4, Finishing
    <3>. QED  BY <2>1, <2>2, <2>4, <3>1, QuietStep DEF NoticePcs
  <2>. QED  BY <2>3, <2>4
<1>7. CASE RemoveWrite(r)
  <2>1. req[r].pc = "removeWrite" /\ keyJob' = keyJob
    BY <1>7 DEF RemoveWrite
  <2>2. PICK u \in Users :
           /\ role' = [role EXCEPT ![u] = "none"]
           /\ IF role[u] # "none" THEN Record(r, u) ELSE UNCHANGED <<changedAt, disturbed>>
           /\ Announce(r, "removeJob", {u})
    BY <1>1, <1>7 DEF RemoveWrite, TypeOK
  <2>3. req'[r].pc = "removeJob" /\ req'[r].users = {u} /\ OnlyReq(r)
    BY <1>1, <2>2, Announced DEF NoticePcs
  <2>4. role'[u] = "none" /\ \A v \in Users \ {u} : role'[v] = role[v]
    BY <1>1, <2>2 DEF TypeOK
  <2>5. \/ role'[u] = role[u] /\ disturbed' = disturbed
        \/ disturbed' = IF Announcing(r, u) THEN disturbed \cup {u} ELSE disturbed
    BY <2>2, <2>4 DEF Record
  <2>. QED  BY <2>1, <2>3, <2>4, <2>5, WriteNotices DEF NoticePcs
<1>. QED  BY <1>2, <1>3, <1>4, <1>5, <1>6, <1>7 DEF Change

\* Sending stays among its own steps.
LEMMA SendGoes ==
    ASSUME ListsOK, NEW r \in Requests, Send(r)
    PROVE  OnlyReq(r) /\ req'[r].pc \in {"idle"} \cup SendPcs
<1>1. TypeOK /\ req[r].pc \in {"idle"} \cup SendPcs
  BY DEF ListsOK, Send, SendStart, SendList, SendRead, SendCache, SendJob, Free, SendPcs
<1>2. ASSUME NEW ids, NEW slow, Decide(r, ids, slow)
      PROVE  OnlyReq(r) /\ req'[r].pc \in {"idle", "sendJob"}
  <2>1. CASE Finish(r)
    BY <1>1, <2>1, Finishing
  <2>2. CASE req' = [req EXCEPT ![r] =
                [Idle EXCEPT !.pc = "sendJob", !.slow = slow, !.lag = Lag(ids)]]
    BY <1>1, <2>2 DEF Idle, OnlyReq, TypeOK
  <2>. QED  BY <1>2, <2>1, <2>2 DEF Decide
<1>3. CASE SendStart(r) \/ SendRead(r)
  BY <1>1, <1>3 DEF SendStart, SendRead, Goto, OnlyReq, SendPcs, TypeOK
<1>4. CASE SendList(r)
  BY <1>1, <1>2, <1>4 DEF SendList, Goto, OnlyReq, SendPcs, TypeOK
<1>5. CASE SendCache(r)
  BY <1>2, <1>5 DEF SendCache, SendPcs
<1>6. CASE SendJob(r)
  BY <1>1, <1>6, Finishing DEF SendJob
<1>. QED  BY <1>3, <1>4, <1>5, <1>6 DEF Send

LEMMA SendNotices ==
    ASSUME ListsOK, NoticesOK, NEW r \in Requests, Send(r)
    PROVE  NoticesOK'
<1>1. UNCHANGED <<role, keyJob, disturbed>> /\ req[r].pc \in {"idle"} \cup SendPcs
  BY DEF Send, SendStart, SendList, SendRead, SendCache, SendJob, history, Free, SendPcs
<1>2. OnlyReq(r) /\ req'[r].pc \in {"idle"} \cup SendPcs
  BY SendGoes
<1>. QED  BY <1>1, <1>2, QuietStep DEF NoticePcs, SendPcs

LEMMA AbortNotices ==
    ASSUME ListsOK, NoticesOK, NEW r \in Requests, Abort(r)
    PROVE  NoticesOK'
<1>1. /\ Finish(r) /\ UNCHANGED <<role, keyJob>>
      /\ disturbed' = IF req[r].pc \in NoticePcs THEN disturbed \cup req[r].users ELSE disturbed
  BY DEF Abort
<1>2. req'[r].pc = "idle" /\ req'[r].users = {} /\ OnlyReq(r)
  BY <1>1, Finishing DEF ListsOK
<1>. QED  BY <1>1, <1>2, EndNotices

LEMMA NoticesNext == ListsOK /\ NoticesOK /\ [Next]_vars => NoticesOK'
<1>. SUFFICES ASSUME ListsOK, NoticesOK, [Next]_vars PROVE NoticesOK'
  OBVIOUS
<1>1. CASE Tick \/ UNCHANGED vars
  BY <1>1 DEF Tick, vars, history, NoticesOK, LastNoticeMatchesRow
<1>. QED  BY <1>1, ChangeNotices, SendNotices, AbortNotices DEF Next

\* Once every change of a user is announced, the last sender-key job about the
\* user says what the participants table says, provided no two of the changes
\* overlapped and none was cut off.
THEOREM LastNoticeIsTheRow == Spec => []LastNoticeMatchesRow
<1>1. NoticesOK => LastNoticeMatchesRow
  BY DEF NoticesOK
<1>. QED  BY <1>1, ListsInit, ListsNext, NoticesInit, NoticesNext, PTL DEF Spec

-----------------------------------------------------------------------------
(* Admins                                                                  *)

\* The actor of a request that is changing the members.
InCharge(r) ==
    req[r].pc \in ChangePcs =>
        \/ role[req[r].actor] = "ADMIN"
        \/ req[r].pc = "removeWrite" /\ req[r].users = {req[r].actor}

LEMMA AdminsByRequest ==
    /\ AdminsOK <=> /\ ~ownHand /\ ~crossed => \A r \in Requests : InCharge(r)
                    /\ LastAdminGoesByOwnHand
    /\ AdminsOK' <=> /\ ~ownHand' /\ ~crossed' => \A r \in Requests : InCharge(r)'
                     /\ LastAdminGoesByOwnHand'
BY DEF AdminsOK, InCharge

LEMMA AdminsInit == Init => AdminsOK
BY DEF Init, AdminsOK, LastAdminGoesByOwnHand, Idle, ChangePcs

\* A step that changes no role, of a request whose actor is in charge.
LEMMA AdminsStay ==
    ASSUME AdminsOK, UNCHANGED <<exists, role, ownHand, crossed>>,
           NEW r \in Requests, OnlyReq(r), ~ownHand /\ ~crossed => InCharge(r)'
    PROVE  AdminsOK'
<1>1. LastAdminGoesByOwnHand'
  BY DEF AdminsOK, LastAdminGoesByOwnHand, Members, Admins
<1>2. ASSUME ~ownHand, ~crossed, NEW q \in Requests PROVE InCharge(q)'
  BY <1>2, AdminsByRequest DEF InCharge, OnlyReq
<1>. QED  BY <1>1, <1>2, AdminsByRequest

\* Whoever adds is an admin, so a group that gets a member has one.
LEMMA AddWriteAdmins ==
    ASSUME ListsOK, AdminsOK, NEW r \in Requests, AddWrite(r)
    PROVE  AdminsOK'
<1>1. /\ TypeOK /\ req[r].pc = "addWrite" /\ req[r].actor \in Users
      /\ UNCHANGED <<exists, ownHand, crossed>>
  BY DEF ListsOK, ReqOK, ChangePcs, AddWrite
<1>2. PICK u \in Users :
         IF role[u] = "none"
         THEN role' = [role EXCEPT ![u] = req[r].role] /\ Announce(r, "addJob", {u})
         ELSE Finish(r) /\ UNCHANGED role
  BY <1>1 DEF AddWrite, TypeOK
<1>3. CASE role[u] = "none"
  <2>1. req'[r].pc = "addJob" /\ OnlyReq(r)
    BY <1>1, <1>2, <1>3, Announced DEF NoticePcs
  <2>2. \A v \in Users : role[v] = "ADMIN" => role'[v] = "ADMIN"
    BY <1>1, <1>2, <1>3 DEF TypeOK
  <2>3. ASSUME ~ownHand, ~crossed
        PROVE  (\A q \in Requests : InCharge(q)') /\ Admins' # {}
    <3>1. \A q \in Requests : InCharge(q)
      BY <2>3, AdminsByRequest
    <3>2. \A q \in Requests : req[q].pc \in ChangePcs => req[q].actor \in Users
      BY DEF ListsOK, ReqOK
    <3>3. \A q \in Requests : InCharge(q)'
      BY <2>1, <2>2, <3>1, <3>2 DEF InCharge, OnlyReq, ChangePcs
    <3>4. role[req[r].actor] = "ADMIN"
      BY <1>1, <3>1 DEF InCharge, ChangePcs
    <3>. QED  BY <1>1, <2>2, <3>3, <3>4 DEF Admins
  <2>. QED  BY <1>1, <2>3, AdminsByRequest DEF LastAdminGoesByOwnHand
<1>4. CASE role[u] # "none"
  <2>1. req'[r].pc = "idle" /\ OnlyReq(r) /\ role' = role
    BY <1>1, <1>2, <1>4, Finishing
  <2>. QED  BY <1>1, <2>1, AdminsStay DEF InCharge, ChangePcs
<1>. QED  BY <1>3, <1>4

\* An admin who is removed by another leaves that one, whose own removal would
\* have crossed this change.
LEMMA RemoveWriteAdmins ==
    ASSUME ListsOK, AdminsOK, NEW r \in Requests, RemoveWrite(r)
    PROVE  AdminsOK'
<1>1. /\ TypeOK /\ req[r].pc = "removeWrite" /\ req[r].actor \in Users
      /\ UNCHANGED exists
  BY DEF ListsOK, ReqOK, ChangePcs, RemoveWrite
<1>2. PICK u \in req[r].users :
         /\ role' = [role EXCEPT ![u] = "none"]
         /\ ownHand' = (ownHand \/ (role[u] = "ADMIN" /\ req[r].actor = u))
         /\ crossed' = (crossed \/ (role[u] = "ADMIN" /\ \E q \in Requests \ {r} :
                            req[q].pc \in ChangePcs /\ req[q].actor = u))
         /\ Announce(r, "removeJob", {u})
  BY DEF RemoveWrite
<1>3. u \in Users /\ req[r].users = {u}
  BY <1>1, <1>2 DEF ListsOK, ReqOK, ChangePcs, TypeOK
<1>4. /\ req'[r].pc = "removeJob" /\ OnlyReq(r)
      /\ role'[u] = "none" /\ \A v \in Users \ {u} : role'[v] = role[v]
  BY <1>1, <1>2, <1>3, Announced DEF NoticePcs, TypeOK
<1>5. ASSUME ~ownHand', ~crossed'
      PROVE  /\ \A q \in Requests : InCharge(q)'
             /\ exists /\ Members' # {} => Admins' # {}
  <2>1. /\ ~ownHand /\ ~crossed /\ LastAdminGoesByOwnHand
        /\ \A q \in Requests : InCharge(q)
    BY <1>2, <1>5, AdminsByRequest DEF TypeOK
  <2>2. role[u] = "ADMIN" =>
           /\ req[r].actor # u
           /\ \A q \in Requests \ {r} : req[q].pc \in ChangePcs => req[q].actor # u
    BY <1>2, <1>5
  <2>3. ASSUME NEW q \in Requests PROVE InCharge(q)'
    <3>1. CASE q = r
      BY <1>4, <3>1 DEF InCharge, ChangePcs
    <3>2. CASE q # r
      <4>1. req'[q] = req[q] /\ InCharge(q)
        BY <1>4, <2>1, <3>2 DEF OnlyReq
      <4>2. SUFFICES ASSUME req[q].pc \in ChangePcs, role[req[q].actor] = "ADMIN"
                     PROVE  role'[req[q].actor] = "ADMIN"
        BY <4>1 DEF InCharge
      <4>3. req[q].actor \in Users /\ req[q].actor # u
        BY <2>2, <3>2, <4>2 DEF ListsOK, ReqOK
      <4>. QED  BY <1>4, <4>2, <4>3
    <3>. QED  BY <3>1, <3>2
  <2>4. ASSUME exists, Members' # {} PROVE Admins' # {}
    <3>1. PICK v \in Users : role'[v] # "none"
      BY <2>4 DEF Members
    <3>2. v # u /\ Members # {}
      BY <1>4, <3>1 DEF Members
    <3>3. PICK a \in Users : role[a] = "ADMIN"
      BY <2>1, <2>4, <3>2 DEF LastAdminGoesByOwnHand, Admins
    <3>4. CASE role[u] = "ADMIN"
      <4>1. role[req[r].actor] = "ADMIN" /\ req[r].actor # u
        BY <1>1, <1>3, <2>1, <2>2, <3>4 DEF InCharge, ChangePcs
      <4>. QED  BY <1>1, <1>4, <4>1 DEF Admins
    <3>5. CASE role[u] # "ADMIN"
      BY <1>4, <3>3, <3>5 DEF Admins
    <3>. QED  BY <3>4, <3>5
  <2>. QED  BY <2>3, <2>4
<1>. QED  BY <1>1, <1>5, AdminsByRequest DEF LastAdminGoesByOwnHand

LEMMA ChangeAdmins ==
    ASSUME ListsOK, AdminsOK, NEW r \in Requests, Change(r)
    PROVE  AdminsOK'
<1>1. TypeOK
  BY DEF ListsOK
<1>2. ASSUME NEW u \in Users, NEW others \in SUBSET Users \ {{}}, Create(r, u, others)
      PROVE  AdminsOK'
  <2>1. req'[r].pc = "createJob" /\ OnlyReq(r)
    BY <1>1, <1>2, Announced DEF Create, NoticePcs
  <2>2. \A q \in Requests : InCharge(q)'
    <3>1. \A q \in Requests : req[q].pc = "idle"
      BY <1>2 DEF Create, ListsOK, NewOK, Free
    <3>. QED  BY <2>1, <3>1 DEF InCharge, OnlyReq, ChangePcs
  <2>3. role'[u] = "ADMIN"
    BY <1>2 DEF Create
  <2>. QED  BY <2>2, <2>3, AdminsByRequest DEF LastAdminGoesByOwnHand, Admins
<1>3. CASE CreateJob(r) \/ AddJob(r) \/ RemoveJob(r)
  <2>1. Finish(r) /\ UNCHANGED <<exists, role, ownHand, crossed>>
    BY <1>3 DEF CreateJob, AddJob, RemoveJob, Tell, history
  <2>2. req'[r].pc = "idle" /\ OnlyReq(r)
    BY <1>1, <2>1, Finishing
  <2>. QED  BY <2>1, <2>2, AdminsStay DEF InCharge, ChangePcs
<1>4. ASSUME NEW a \in Users, NEW u \in Users, NEW given \in Roles, AddStart(r, a, u, given)
      PROVE  AdminsOK'
  <2>1. UNCHANGED <<exists, role, ownHand, crossed>> /\ role[a] = "ADMIN"
    BY <1>4 DEF AddStart, history
  <2>2. req'[r].actor = a /\ OnlyReq(r)
    BY <1>1, <1>4 DEF AddStart, OnlyReq, TypeOK
  <2>. QED  BY <2>1, <2>2, AdminsStay DEF InCharge
<1>5. ASSUME NEW a \in Users, NEW u \in Users, RemoveStart(r, a, u)
      PROVE  AdminsOK'
  <2>1. UNCHANGED <<exists, role, ownHand, crossed>> /\ (a = u \/ role[a] = "ADMIN")
    BY <1>5 DEF RemoveStart, history
  <2>2. /\ req'[r].pc = "removeWrite" /\ req'[r].actor = a /\ req'[r].users = {u}
        /\ OnlyReq(r)
    BY <1>1, <1>5 DEF RemoveStart, OnlyReq, TypeOK
  <2>. QED  BY <2>1, <2>2, AdminsStay DEF InCharge
<1>6. CASE AddCheck(r)
  <2>1. UNCHANGED <<exists, role, ownHand, crossed>> /\ req[r].pc = "addCheck"
    BY <1>6 DEF AddCheck, history
  <2>2. CASE Finish(r)
    <3>1. req'[r].pc = "idle" /\ OnlyReq(r)
      BY <1>1, <2>2, Finishing
    <3>. QED  BY <2>1, <3>1, AdminsStay DEF InCharge, ChangePcs
  <2>3. CASE Goto(r, "addWrite")
    <3>1. req'[r].actor = req[r].actor /\ OnlyReq(r)
      BY <1>1, <2>3, Going DEF ChangePcs
    <3>2. ~ownHand /\ ~crossed => role[req[r].actor] = "ADMIN"
      BY <2>1, AdminsByRequest DEF InCharge, ChangePcs
    <3>. QED  BY <2>1, <3>1, <3>2, AdminsStay DEF InCharge
  <2>. QED  BY <1>6, <2>2, <2>3 DEF AddCheck
<1>. QED  BY <1>2, <1>3, <1>4, <1>5, <1>6, AddWriteAdmins, RemoveWriteAdmins DEF Change

LEMMA AdminsNext == ListsOK /\ AdminsOK /\ [Next]_vars => AdminsOK'
<1>. SUFFICES ASSUME ListsOK, AdminsOK, [Next]_vars PROVE AdminsOK'
  OBVIOUS
<1>1. ASSUME NEW r \in Requests, Send(r) PROVE AdminsOK'
  <2>1. UNCHANGED <<exists, role, ownHand, crossed>>
    BY <1>1 DEF Send, SendStart, SendList, SendRead, SendCache, SendJob, history
  <2>2. OnlyReq(r) /\ req'[r].pc \in {"idle"} \cup SendPcs
    BY <1>1, SendGoes
  <2>. QED  BY <2>1, <2>2, AdminsStay DEF InCharge, ChangePcs, SendPcs
<1>2. ASSUME NEW r \in Requests, Abort(r) PROVE AdminsOK'
  <2>1. Finish(r) /\ UNCHANGED <<exists, role, ownHand, crossed>>
    BY <1>2 DEF Abort
  <2>2. req'[r].pc = "idle" /\ OnlyReq(r)
    BY <2>1, Finishing DEF ListsOK
  <2>. QED  BY <2>1, <2>2, AdminsStay DEF InCharge, ChangePcs
<1>3. CASE Tick \/ UNCHANGED vars
  BY <1>3 DEF Tick, vars, history, AdminsOK, LastAdminGoesByOwnHand, Members, Admins
<1>. QED  BY <1>1, <1>2, <1>3, ChangeAdmins DEF Next

\* A group with participants has an admin, unless an admin left by themselves or
\* admins were removed while they were changing the members.
THEOREM RemovalsLeaveAnAdmin == Spec => []LastAdminGoesByOwnHand
<1>1. AdminsOK => LastAdminGoesByOwnHand
  BY DEF AdminsOK
<1>. QED  BY <1>1, ListsInit, ListsNext, AdminsInit, AdminsNext, PTL DEF Spec

=============================================================================
