------------------------------ MODULE PreKeys -------------------------------
(***************************************************************************)
(* The prekeys of one user: the row of pre_key_bundles with the pool of    *)
(* one-time keys that KeyRepository keeps in a JSON column, the private    *)
(* halves in the IndexedDB of the user's browser, and the peers who fetch  *)
(* a bundle to open a session.                                             *)
(*                                                                         *)
(* A fetch reads the row and writes the rest of the pool back in a second  *)
(* call; an upload replaces the row.  Every tab of the user makes and      *)
(* uploads a new bundle when it is opened, and the first one the identity  *)
(* before; the tabs share the IndexedDB and each key is put by a call of   *)
(* its own.  KeyRepository.consumePreKey and addPreKeys have no caller     *)
(* behind a route, and the keys that a logout clears are left out.         *)
(***************************************************************************)
EXTENDS Integers, Sequences, FiniteSets, Functions

CONSTANTS
    Fetches,      \* the fetches of the bundle in flight at one time
    Tabs,         \* the tabs the user has open
    BatchSize,    \* DEFAULT_PREKEY_BATCH_SIZE and INITIAL_PREKEY_COUNT, both 100
    LowThreshold, \* PREKEY_LOW_THRESHOLD
    MaxBatches,   \* bound: bundles the user makes
    MaxId         \* bound: the ids of one-time keys

ASSUME BatchAssumption == BatchSize \in Nat \ {0} /\ MaxBatches \in Nat \ {0}
ASSUME IdAssumption == MaxId \in Nat /\ MaxId >= BatchSize
ASSUME ThresholdAssumption == LowThreshold \in Nat

VARIABLES
    pool,       \* the preKeys column
    signedKey,  \* the signedPreKey column, with the identityKey it is signed by
    private,    \* IndexedDB preKeys: a key id to the bundle it was made for
    signed,     \* IndexedDB signedPreKeys, likewise
    identity,   \* IndexedDB identityKeys: the tab that made the local one
    registered, \* IndexedDB registration holds the local id
    batches,    \* bundles begun so far
    tab,        \* what each tab is doing
    fetch,      \* what each fetch has read and is about to write back
    handed,     \* history: how often each key was taken for a peer, capped
    inbox,      \* first messages on their way to the user, by the keys they used
    failed,     \* history: a first message could not be decrypted
    notices,    \* prekey-replenish-notification jobs enqueued
    stale,      \* history: a fetch wrote back a pool that had changed since it read it
    clobbered   \* history: a tab overwrote a private half another tab had stored

server == <<pool, signedKey, fetch, handed, notices, stale>>
browser == <<private, signed, identity, registered, clobbered>>
mail == <<inbox, failed>>
vars == <<server, browser, mail, batches, tab>>

-----------------------------------------------------------------------------
MaxCount == 2    \* bound: how often a key was taken is counted up to here
Ids == 1..MaxId
SignedIds == 1..(MaxBatches + 1)  \* bound: initial one, then one for each bundle
Batches == 1..MaxBatches

\* A one-time key and a signed one, named by their id and the bundle they were
\* made for, so that a key whose id is taken again is another key.
Keys == [id : Ids, batch : Batches]
SignedKeys == [id : SignedIds, batch : Batches, identity : Batches]
NoKey == [id |-> 0, batch |-> 0]
NoSigned == [id |-> 0, batch |-> 0, identity |-> 0]

\* The keys initializeEncryption makes are in no bundle.
Initial == 0

\* A peer's first message: a bundle of an empty pool has no one-time key.
Firsts == [key : Keys \cup {NoKey}, signed : SignedKeys]

IdleTab == [pc |-> "idle", batch |-> 0, identity |-> 0, signedId |-> 0,
            first |-> 0, stored |-> 0]
IdleFetch == [seen |-> <<>>, signed |-> NoSigned]

Init ==
    /\ pool = <<>>
    /\ signedKey = NoSigned
    /\ private = <<>>
    /\ signed = <<>>
    /\ identity = 0
    /\ registered = FALSE
    /\ batches = 0
    /\ tab = [t \in Tabs |-> IdleTab]
    /\ fetch = [f \in Fetches |-> IdleFetch]
    /\ handed = [k \in Keys |-> 0]
    /\ inbox = {}
    /\ failed = FALSE
    /\ notices = 0
    /\ stale = FALSE
    /\ clobbered = FALSE

-----------------------------------------------------------------------------
(* The user's tabs                                                         *)

At(t, pc) == tab[t].pc = pc
Go(t, pc) == tab' = [tab EXCEPT ![t].pc = pc]

\* One past the largest id stored, 1 when none is: the ids of keys already
\* used and removed are taken again.
NextId(ids) == IF ids = {} THEN 1 ELSE 1 + CHOOSE i \in ids : \A j \in ids : j <= i

\* put, over whatever the id held.
Put(table, i, key) == [j \in DOMAIN table \cup {i} |-> IF j = i THEN key ELSE table[j]]

\* initializeEncryption begins: a browser without an identity gets one.
Open(t) ==
    /\ At(t, "idle")
    /\ batches < MaxBatches
    /\ batches' = batches + 1
    /\ tab' = [tab EXCEPT ![t].batch = batches + 1,
                          ![t].pc = IF identity = 0 THEN "identity" ELSE "assemble"]
    /\ UNCHANGED <<server, browser, mail>>

StoreIdentity(t) ==
    /\ At(t, "identity")
    /\ identity' = tab[t].batch
    /\ clobbered' = (clobbered \/ identity # 0)
    /\ Go(t, "register")
    /\ UNCHANGED <<server, private, signed, registered, mail, batches>>

StoreRegistration(t) ==
    /\ At(t, "register")
    /\ registered' = TRUE
    /\ tab' = [tab EXCEPT ![t].pc = "initial", ![t].first = 1]
    /\ UNCHANGED <<server, private, signed, identity, clobbered, mail, batches>>

\* storePreKey of the next key of a batch, made for b; then the tab goes on to pc.
StoreNext(t, b, pc) ==
    LET i == tab[t].first + tab[t].stored
        last == tab[t].stored + 1 = BatchSize
    IN  /\ private' = Put(private, i, b)
        /\ clobbered' = (clobbered \/ i \in DOMAIN private)
        /\ tab' = [tab EXCEPT ![t].pc = IF last THEN pc ELSE @,
                              ![t].stored = IF last THEN 0 ELSE @ + 1]
        /\ UNCHANGED <<server, signed, identity, registered, mail, batches>>

StoreInitial(t) == At(t, "initial") /\ StoreNext(t, Initial, "initialSigned")

StoreInitialSigned(t) ==
    /\ At(t, "initialSigned")
    /\ signed' = Put(signed, 1, Initial)
    /\ clobbered' = (clobbered \/ 1 \in DOMAIN signed)
    /\ Go(t, "assemble")
    /\ UNCHANGED <<server, private, identity, registered, mail, batches>>

\* assemblePreKeyBundle begins with the identity that the bundle will carry.
ReadIdentity(t) ==
    /\ At(t, "assemble")
    /\ identity # 0
    /\ tab' = [tab EXCEPT ![t].pc = "signedIds", ![t].identity = identity]
    /\ UNCHANGED <<server, browser, mail, batches>>

\* The ids of the signed keys are read, unless there is no registration id: the tab
\* then gives up.
ReadSignedIds(t) ==
    LET next == NextId(DOMAIN signed)
    IN  /\ At(t, "signedIds")
        /\ registered
        /\ next \in SignedIds
        /\ tab' = [tab EXCEPT ![t].pc = "storeSigned", ![t].signedId = next]
        /\ UNCHANGED <<server, browser, mail, batches>>

\* Mutant: the signed key is in the bundle only.
StoreSignedUnstored(t) ==
    /\ At(t, "storeSigned")
    /\ Go(t, "ids")
    /\ UNCHANGED <<server, browser, mail, batches>>

StoreSigned(t) ==
    /\ At(t, "storeSigned")
    /\ signed' = Put(signed, tab[t].signedId, tab[t].batch)
    /\ clobbered' = (clobbered \/ tab[t].signedId \in DOMAIN signed)
    /\ Go(t, "ids")
    /\ UNCHANGED <<server, private, identity, registered, mail, batches>>

\* The ids of the one-time keys are read only now.
ReadIds(t) ==
    LET next == NextId(DOMAIN private)
    IN  /\ At(t, "ids")
        /\ next \in 1..(MaxId - BatchSize + 1)
        /\ tab' = [tab EXCEPT ![t].pc = "store", ![t].first = next]
        /\ UNCHANGED <<server, browser, mail, batches>>

StoreKey(t) == At(t, "store") /\ StoreNext(t, tab[t].batch, "upload")

\* The bundle of a tab.
SignedOf(t) == [id |-> tab[t].signedId, batch |-> tab[t].batch, identity |-> tab[t].identity]
PoolOf(t) == [i \in 1..BatchSize |-> [id |-> tab[t].first + i - 1, batch |-> tab[t].batch]]

\* Mutant: the uploaded keys are added to those in the pool.
UploadAppends(t) ==
    /\ At(t, "upload")
    /\ pool' = pool \o PoolOf(t)
    /\ signedKey' = SignedOf(t)
    /\ tab' = [tab EXCEPT ![t] = IdleTab]
    /\ UNCHANGED <<fetch, handed, notices, stale, browser, mail, batches>>

\* POST /keys/bundle: upsertBundle replaces the row.
Upload(t) ==
    /\ At(t, "upload")
    /\ pool' = PoolOf(t)
    /\ signedKey' = SignedOf(t)
    /\ tab' = [tab EXCEPT ![t] = IdleTab]
    /\ UNCHANGED <<fetch, handed, notices, stale, browser, mail, batches>>

\* The tab is closed, or a call fails; what it stored stays stored.
CloseTab(t) ==
    /\ ~At(t, "idle")
    /\ tab' = [tab EXCEPT ![t] = IdleTab]
    /\ UNCHANGED <<server, browser, mail, batches>>

-----------------------------------------------------------------------------
(* GET /keys/bundle/:userId                                                *)

Count(k, f) == [f EXCEPT ![k] = IF @ < MaxCount THEN @ + 1 ELSE @]
First(k, s) == [key |-> k, signed |-> s]

\* findByUserId: the read of the row, which is not there before the first upload.
\* The bundle of a pool that is used up has no one-time key.
FetchRead(f) ==
    /\ fetch[f].seen = <<>>
    /\ signedKey # NoSigned
    /\ IF pool = <<>>
       THEN /\ inbox' = inbox \cup {First(NoKey, signedKey)}
            /\ UNCHANGED fetch
       ELSE /\ fetch' = [fetch EXCEPT ![f] = [seen |-> pool, signed |-> signedKey]]
            /\ UNCHANGED inbox
    /\ UNCHANGED <<pool, signedKey, handed, notices, stale, browser, failed,
                   batches, tab>>

\* Mutant: the pool is left as it is.
FetchWriteKeeps(f) ==
    LET k == Head(fetch[f].seen)
    IN  /\ fetch[f].seen # <<>>
        /\ stale' = (stale \/ pool # fetch[f].seen)
        /\ handed' = Count(k, handed)
        /\ inbox' = inbox \cup {First(k, fetch[f].signed)}
        /\ fetch' = [fetch EXCEPT ![f] = IdleFetch]
        /\ UNCHANGED <<pool, signedKey, notices, browser, failed, batches, tab>>

\* findByUserId: the write of the rest of the pool that was read, whatever the
\* pool has become.  The key goes to a peer with the signed one that was read, and
\* the peer's first message uses both.  The count that follows is for a flag that the
\* controller drops: it changes nothing and enqueues nothing.
FetchWrite(f) ==
    LET k == Head(fetch[f].seen)
    IN  /\ fetch[f].seen # <<>>
        /\ pool' = Tail(fetch[f].seen)
        /\ stale' = (stale \/ pool # fetch[f].seen)
        /\ handed' = Count(k, handed)
        /\ inbox' = inbox \cup {First(k, fetch[f].signed)}
        /\ fetch' = [fetch EXCEPT ![f] = IdleFetch]
        /\ UNCHANGED <<signedKey, notices, browser, failed, batches, tab>>

\* A call fails, or the instance stops.
FetchFail(f) ==
    /\ fetch[f].seen # <<>>
    /\ fetch' = [fetch EXCEPT ![f] = IdleFetch]
    /\ UNCHANGED <<pool, signedKey, handed, notices, stale, browser, mail,
                   batches, tab>>

-----------------------------------------------------------------------------
\* The private halves that a message needs are stored.
HasPrivate(k) == k.id \in DOMAIN private /\ private[k.id] = k.batch
HasSigned(s) ==
    /\ s.id \in DOMAIN signed /\ signed[s.id] = s.batch
    /\ identity = s.identity

\* Messages that used the same keys are one in inbox, which then remains.
Shared(m) == m.key = NoKey \/ handed[m.key] > 1

\* decryptPreKeyWhisperMessage: the first message of a peer needs the identity, the
\* signed key and, if it used one, the one-time key, which is then removed.
Decrypt(m) ==
    /\ inbox' = IF Shared(m) THEN inbox ELSE inbox \ {m}
    /\ IF HasSigned(m.signed) /\ (m.key # NoKey => HasPrivate(m.key))
       THEN /\ private' = Restrict(private, DOMAIN private \ {m.key.id})
            /\ UNCHANGED failed
       ELSE /\ failed' = TRUE
            /\ UNCHANGED private
    /\ UNCHANGED <<server, signed, identity, registered, clobbered, batches, tab>>

Initialize(t) ==
    \/ Open(t) \/ StoreIdentity(t) \/ StoreRegistration(t)
    \/ StoreInitial(t) \/ StoreInitialSigned(t)

Assemble(t) ==
    \/ ReadIdentity(t) \/ ReadSignedIds(t) \/ StoreSigned(t)
    \/ ReadIds(t) \/ StoreKey(t)

Next ==
    \/ \E t \in Tabs : Initialize(t) \/ Assemble(t) \/ Upload(t) \/ CloseTab(t)
    \/ \E f \in Fetches : FetchRead(f) \/ FetchWrite(f) \/ FetchFail(f)
    \/ \E m \in inbox : Decrypt(m)

Spec == Init /\ [][Next]_vars

-----------------------------------------------------------------------------
TabSteps == {"idle", "identity", "register", "initial", "initialSigned", "assemble",
             "signedIds", "storeSigned", "ids", "store", "upload"}

TypeOK ==
    /\ pool \in Seq(Keys) /\ Len(pool) <= BatchSize
    /\ signedKey \in SignedKeys \cup {NoSigned}
    /\ DOMAIN private \subseteq Ids
    /\ \A i \in DOMAIN private : private[i] \in {Initial} \cup Batches
    /\ DOMAIN signed \subseteq SignedIds
    /\ \A i \in DOMAIN signed : signed[i] \in {Initial} \cup Batches
    /\ identity \in {0} \cup Batches /\ registered \in BOOLEAN
    /\ batches \in 0..MaxBatches
    /\ tab \in [Tabs -> [pc : TabSteps, batch : 0..MaxBatches, identity : 0..MaxBatches,
                         signedId : {0} \cup SignedIds, first : {0} \cup Ids,
                         stored : 0..(BatchSize - 1)]]
    /\ \A f \in Fetches : /\ fetch[f].seen \in Seq(Keys)
                          /\ fetch[f].signed \in SignedKeys \cup {NoSigned}
    /\ handed \in [Keys -> 0..MaxCount]
    /\ inbox \subseteq Firsts /\ failed \in BOOLEAN
    /\ notices \in Nat
    /\ stale \in BOOLEAN /\ clobbered \in BOOLEAN

InPool == {pool[i] : i \in DOMAIN pool}

\* As long as no fetch has written back a pool that changed since it was read,
\* no key is returned twice and none that was returned is still in the pool:
\* uploads, failures and the order of the fetches cannot bring one back.
PoolIsUnspent ==
    ~stale => /\ \A k \in Keys : handed[k] <= 1
              /\ \A k \in InPool : handed[k] = 0

\* Under the same condition, and if no tab put a key over one that another had put
\* under its id, every peer's first message can be decrypted, with a one-time key or
\* without: although the ids of used keys are taken again, tabs store their keys one
\* by one beside each other and may be closed in between, and a message may come
\* after any number of later bundles.
FirstMessagesDecrypt == ~stale /\ ~clobbered => ~failed

-----------------------------------------------------------------------------
(* What the documents say and the code does not do                         *)

\* A one-time prekey is returned to one peer.
KeyIsReturnedOnce == \A k \in Keys : handed[k] <= 1

\* A fetch that leaves the pool below the threshold has the user notified.
LowPoolIsNotified ==
    [][\A f \in Fetches : FetchWrite(f) /\ Len(pool') < LowThreshold
                             => notices' > notices]_vars
=============================================================================
