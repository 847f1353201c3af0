------------------------------- MODULE Groups -------------------------------
(***************************************************************************)
(* The membership of one group conversation and what is derived from it:   *)
(* ConversationService (create, addParticipant, removeParticipant), the    *)
(* participant list that MessageService caches in Redis, the message-      *)
(* fanout jobs it enqueues from that list, and the sender-key-distribution *)
(* jobs that announce each change.                                         *)
(*                                                                         *)
(* One action is one awaited call with the synchronous code after it.      *)
(* Calls that change nothing kept here are folded into the step before     *)
(* them: updatedAt, the refetch, the audit entry, and the deletion of      *)
(* conversation:participants:ID, a key that nothing reads.                 *)
(* Sending is reduced to its use of the list; Messages has the rest.       *)
(***************************************************************************)
EXTENDS Integers, FiniteSets

CONSTANTS
    Users,
    Requests,          \* the requests in flight at one time
    Nobody,
    FanOutThreshold,
    CacheTtl,          \* seconds the list is cached, in ticks
    MaxNow,            \* bound: the last tick the clock reaches
    MaxSends           \* bound: fan-out jobs enqueued

ASSUME NobodyAssumption == Nobody \notin Users
ASSUME NumbersAssumption ==
    /\ FanOutThreshold \in Nat /\ MaxNow \in Nat /\ MaxSends \in Nat
    /\ CacheTtl \in Nat \ {0}

VARIABLES
    now,
    exists,      \* the conversation has been created
    role,        \* conversation_participants: each user's role, or "none"
    cache,       \* the Redis entry conv:ID:participants
    jobs,        \* message-fanout jobs: how far behind their recipients are
    keyJob,      \* what the last sender-key job about a user says
    changedAt,   \* history: when a user last joined or left
    disturbed,   \* history: users whose changes overlapped or were cut off
    ownHand,     \* history: an admin left the group
    crossed,     \* history: an admin was removed while changing the members
    req

history == <<changedAt, disturbed, ownHand, crossed>>
vars == <<now, exists, role, cache, jobs, keyJob, history, req>>

-----------------------------------------------------------------------------
Roles == {"ADMIN", "MEMBER"}
Members == {u \in Users : role[u] # "none"}
Admins == {u \in Users : role[u] = "ADMIN"}
Never == -1

\* An expired entry and a missing one are the same to a reader.
Entry(ids, at, slow) == [ids |-> ids, at |-> at, slow |-> slow]
NoEntry == Entry({}, Never, FALSE)
Hit == cache.at # Never /\ now < cache.at + CacheTtl

\* A request: users are the users it is about, or the list it has read; slow
\* says that the clock moved between reading the list and caching it.
Idle == [pc |-> "idle", actor |-> Nobody, users |-> {}, role |-> "none",
         at |-> Never, slow |-> FALSE, lag |-> 0]

ChangePcs == {"addCheck", "addWrite", "removeWrite"}
NoticePcs == {"createJob", "addJob", "removeJob"}
SendPcs == {"sendList", "sendRead", "sendCache", "sendJob"}

Free(r) == req[r].pc = "idle"
Goto(r, pc) == req' = [req EXCEPT ![r].pc = pc]
Finish(r) == req' = [req EXCEPT ![r] = Idle]
Announce(r, pc, users) ==
    req' = [req EXCEPT ![r] = [Idle EXCEPT !.pc = pc, !.users = users]]

Init ==
    /\ now = 0
    /\ exists = FALSE
    /\ role = [u \in Users |-> "none"]
    /\ cache = NoEntry
    /\ jobs = {}
    /\ keyJob = [u \in Users |-> "none"]
    /\ changedAt = [u \in Users |-> Never]
    /\ disturbed = {}
    /\ ownHand = FALSE
    /\ crossed = FALSE
    /\ req = [r \in Requests |-> Idle]

\* A change of u has been written and not announced to the end.
Announcing(r, u) ==
    \E q \in Requests \ {r} : req[q].pc \in NoticePcs /\ u \in req[q].users

\* What a write about u does to the histories of u.
Record(r, u) ==
    /\ changedAt' = [changedAt EXCEPT ![u] = now]
    /\ disturbed' = IF Announcing(r, u) THEN disturbed \cup {u} ELSE disturbed

-----------------------------------------------------------------------------
(* Membership                                                              *)

\* createConversation of a GROUP: one nested insert; the creator is its admin.
\* The list has two entries at least, which need not differ.
Create(r, u, others) ==
    /\ Free(r)
    /\ ~exists
    /\ exists' = TRUE
    /\ role' = [v \in Users |-> CASE v = u -> "ADMIN"
                                  [] v \in others \ {u} -> "MEMBER"
                                  [] OTHER -> "none"]
    /\ changedAt' = [v \in Users |-> IF v \in others \cup {u} THEN now ELSE Never]
    /\ Announce(r, "createJob", others \cup {u})
    /\ UNCHANGED <<now, cache, jobs, keyJob, disturbed, ownHand, crossed>>

CreateJob(r) ==
    /\ req[r].pc = "createJob"
    /\ keyJob' = [u \in Users |-> IF u \in req[r].users THEN "member" ELSE keyJob[u]]
    /\ Finish(r)
    /\ UNCHANGED <<now, exists, role, cache, jobs, history>>

\* addParticipant: findById and assertAdminRole; others change nothing.
AddStart(r, a, u, given) ==
    /\ Free(r)
    /\ role[a] = "ADMIN"
    /\ req' = [req EXCEPT ![r].pc = "addCheck", ![r].actor = a,
                          ![r].users = {u}, ![r].role = given]
    /\ UNCHANGED <<now, exists, role, cache, jobs, keyJob, history>>

\* findByIds and isParticipant; a participant is answered with a conflict.
AddCheck(r) ==
    /\ req[r].pc = "addCheck"
    /\ IF req[r].users \subseteq Members THEN Finish(r) ELSE Goto(r, "addWrite")
    /\ UNCHANGED <<now, exists, role, cache, jobs, keyJob, history>>

\* The insert, which the unique index refuses when the row is there by now.
AddWrite(r) ==
    /\ req[r].pc = "addWrite"
    /\ \E u \in req[r].users :
         IF role[u] = "none"
         THEN /\ role' = [role EXCEPT ![u] = req[r].role]
              /\ Record(r, u)
              /\ Announce(r, "addJob", {u})
         ELSE Finish(r) /\ UNCHANGED <<role, changedAt, disturbed>>
    /\ UNCHANGED <<now, exists, cache, jobs, keyJob, ownHand, crossed>>

\* Mutant: a participant may remove any other.
RemoveStartAny(r, a, u) ==
    /\ Free(r)
    /\ exists
    /\ a = u \/ a \in Members
    /\ req' = [req EXCEPT ![r].pc = "removeWrite", ![r].actor = a, ![r].users = {u}]
    /\ UNCHANGED <<now, exists, role, cache, jobs, keyJob, history>>

\* removeParticipant: an admin, or whoever names themselves, a participant or not.
RemoveStart(r, a, u) ==
    /\ Free(r)
    /\ exists
    /\ a = u \/ role[a] = "ADMIN"
    /\ req' = [req EXCEPT ![r].pc = "removeWrite", ![r].actor = a, ![r].users = {u}]
    /\ UNCHANGED <<now, exists, role, cache, jobs, keyJob, history>>

\* deleteMany: whatever the role is by now, and whether there is a row or not.
RemoveWrite(r) ==
    /\ req[r].pc = "removeWrite"
    /\ \E u \in req[r].users :
         /\ role' = [role EXCEPT ![u] = "none"]
         /\ IF role[u] # "none" THEN Record(r, u) ELSE UNCHANGED <<changedAt, disturbed>>
         /\ ownHand' = (ownHand \/ (role[u] = "ADMIN" /\ req[r].actor = u))
         /\ crossed' = (crossed \/ (role[u] = "ADMIN" /\ \E q \in Requests \ {r} :
                            req[q].pc \in ChangePcs /\ req[q].actor = u))
         /\ Announce(r, "removeJob", {u})
    /\ UNCHANGED <<now, exists, cache, jobs, keyJob>>

\* Mutant: the job of a removal is enqueued with the payload of an addition.
TellSame(r, done) ==
    /\ keyJob' = [u \in Users |-> IF u \in req[r].users THEN "member" ELSE keyJob[u]]
    /\ Finish(r)
    /\ UNCHANGED <<now, exists, role, cache, jobs, history>>

\* sender-key-distribution, with the user and what happened.
Tell(r, done) ==
    /\ keyJob' = [u \in Users |-> IF u \in req[r].users THEN done ELSE keyJob[u]]
    /\ Finish(r)
    /\ UNCHANGED <<now, exists, role, cache, jobs, history>>

AddJob(r) == req[r].pc = "addJob" /\ Tell(r, "member")
RemoveJob(r) == req[r].pc = "removeJob" /\ Tell(r, "removed")

-----------------------------------------------------------------------------
(* Sending                                                                 *)

\* isParticipant, the insert and the unread count of sendMessage; which
\* participant sends makes no difference to the list.
SendStart(r) ==
    /\ Free(r)
    /\ Members # {}
    /\ Cardinality(jobs) < MaxSends
    /\ Goto(r, "sendList")
    /\ UNCHANGED <<now, exists, role, cache, jobs, keyJob, history>>

\* How long ago the oldest change was that a list does not reflect.
Lag(ids) ==
    LET wrong == (ids \ Members) \cup (Members \ ids)
    IN  IF wrong = {} THEN 0
        ELSE CHOOSE d \in 0..MaxNow :
               /\ \E u \in wrong : d = now - changedAt[u]
               /\ \A u \in wrong : d >= now - changedAt[u]

\* The fan-out decision over a list; the job goes to the others in the list.
Decide(r, ids, slow) ==
    IF Cardinality(ids) >= FanOutThreshold
    THEN req' = [req EXCEPT ![r] =
            [Idle EXCEPT !.pc = "sendJob", !.slow = slow, !.lag = Lag(ids)]]
    ELSE Finish(r)

\* Mutant: the expiry of the entry is not observed.
SendListEternal(r) ==
    /\ req[r].pc = "sendList"
    /\ IF cache.at # Never THEN Decide(r, cache.ids, cache.slow) ELSE Goto(r, "sendRead")
    /\ UNCHANGED <<now, exists, role, cache, jobs, keyJob, history>>

\* getCachedParticipantIds: a hit is used as it is.
SendList(r) ==
    /\ req[r].pc = "sendList"
    /\ IF Hit THEN Decide(r, cache.ids, cache.slow) ELSE Goto(r, "sendRead")
    /\ UNCHANGED <<now, exists, role, cache, jobs, keyJob, history>>

SendRead(r) ==
    /\ req[r].pc = "sendRead"
    /\ req' = [req EXCEPT ![r].pc = "sendCache", ![r].users = Members, ![r].at = now]
    /\ UNCHANGED <<now, exists, role, cache, jobs, keyJob, history>>

\* Mutant: the entry is stored with its expiry for its time.
SendCacheExpiry(r) ==
    /\ req[r].pc = "sendCache"
    /\ cache' = Entry(req[r].users, now + CacheTtl, now # req[r].at)
    /\ Decide(r, req[r].users, now # req[r].at)
    /\ UNCHANGED <<now, exists, role, jobs, keyJob, history>>

\* The list that was read, cached for CacheTtl from now on and used.
SendCache(r) ==
    /\ req[r].pc = "sendCache"
    /\ cache' = Entry(req[r].users, now, now # req[r].at)
    /\ Decide(r, req[r].users, now # req[r].at)
    /\ UNCHANGED <<now, exists, role, jobs, keyJob, history>>

\* message-fanout is enqueued.
SendJob(r) ==
    /\ req[r].pc = "sendJob"
    /\ jobs' = jobs \cup {[slow |-> req[r].slow, lag |-> req[r].lag]}
    /\ Finish(r)
    /\ UNCHANGED <<now, exists, role, cache, keyJob, history>>

-----------------------------------------------------------------------------
\* An awaited call rejects, or the instance stops.
Abort(r) ==
    /\ ~Free(r)
    /\ disturbed' = IF req[r].pc \in NoticePcs
                    THEN disturbed \cup req[r].users ELSE disturbed
    /\ Finish(r)
    /\ UNCHANGED <<now, exists, role, cache, jobs, keyJob, changedAt, ownHand, crossed>>

Tick ==
    /\ now < MaxNow
    /\ now' = now + 1
    /\ UNCHANGED <<exists, role, cache, jobs, keyJob, history, req>>

Change(r) ==
    \/ \E u \in Users, others \in SUBSET Users \ {{}} : Create(r, u, others)
    \/ CreateJob(r)
    \/ \E a, u \in Users, given \in Roles : AddStart(r, a, u, given)
    \/ AddCheck(r) \/ AddWrite(r) \/ AddJob(r)
    \/ \E a, u \in Users : RemoveStart(r, a, u)
    \/ RemoveWrite(r) \/ RemoveJob(r)

Send(r) ==
    \/ SendStart(r) \/ SendList(r) \/ SendRead(r) \/ SendCache(r) \/ SendJob(r)

Next ==
    \/ Tick
    \/ \E r \in Requests : Change(r) \/ Send(r) \/ Abort(r)

Spec == Init /\ [][Next]_vars

-----------------------------------------------------------------------------
TypeOK ==
    /\ now \in 0..MaxNow
    /\ exists \in BOOLEAN
    /\ role \in [Users -> Roles \cup {"none"}]
    /\ cache \in [ids : SUBSET Users, at : {Never} \cup 0..MaxNow, slow : BOOLEAN]
    /\ jobs \subseteq [slow : BOOLEAN, lag : 0..MaxNow]
    /\ keyJob \in [Users -> {"none", "member", "removed"}]
    /\ changedAt \in [Users -> {Never} \cup 0..MaxNow]
    /\ disturbed \subseteq Users
    /\ ownHand \in BOOLEAN /\ crossed \in BOOLEAN
    /\ req \in [Requests ->
          [pc : {"idle"} \cup ChangePcs \cup NoticePcs \cup SendPcs,
           actor : Users \cup {Nobody}, users : SUBSET Users,
           role : Roles \cup {"none"}, at : {Never} \cup 0..MaxNow,
           slow : BOOLEAN, lag : 0..MaxNow]]

\* A fan-out job goes to the participants as they were less than the cache's
\* lifetime ago: whoever left or joined before that is left out or included,
\* unless the list took a tick or more to get from the database to the cache.
FanOutIsRecent == \A j \in jobs : ~j.slow => j.lag < CacheTtl

\* What the last sender-key job says of a user is what the participants table
\* says, once every change of the user is announced, provided no two of them
\* overlapped and none was cut off.
LastNoticeMatchesRow ==
    \A u \in Users \ disturbed :
        (\A r \in Requests : req[r].pc \in NoticePcs => u \notin req[r].users) =>
            (keyJob[u] = "member" <=> role[u] # "none")

\* A group with participants has an admin unless an admin left by themselves,
\* or admins were removed while they were changing the members: removals by
\* admins, in whatever order, leave somebody in charge.
LastAdminGoesByOwnHand ==
    exists /\ Members # {} /\ ~ownHand /\ ~crossed => Admins # {}

-----------------------------------------------------------------------------
(* What the documents say and the code does not do                         *)

\* The cached list is invalidated when the membership changes: once a change is
\* announced, a live entry that is older than the change is gone.
CacheFollowsMembership ==
    (\A r \in Requests : Free(r)) /\ disturbed = {} /\ Hit =>
        \A u \in Users : changedAt[u] > cache.at => (u \in cache.ids <=> u \in Members)
=============================================================================
