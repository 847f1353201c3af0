--------------------------- MODULE PreKeysProofs ----------------------------
(***************************************************************************)
(* Proofs about PreKeys, for any batch size and any number of tabs and     *)
(* fetches: type correctness, that no key is handed out twice and that     *)
(* every first message is decrypted, as long as no fetch has written back  *)
(* a pool it no longer read, and no tab a private key of another.  About   *)
(* Typing, for any lives, limits and number of calls: a stop hides the     *)
(* indicator, and the limiter disconnects only who exceeded it.  The two   *)
(* share no state; Typing names its formulas so that one module can extend *)
(* both.                                                                   *)
(***************************************************************************)
EXTENDS PreKeys, Typing, TLAPS, SequenceTheorems

-----------------------------------------------------------------------------
(* The inductive invariant                                                 *)

TabRec == [pc : TabSteps, batch : 0..MaxBatches, identity : 0..MaxBatches,
           signedId : {0} \cup SignedIds, first : {0} \cup Ids,
           stored : 0..(BatchSize - 1)]
FetchRec == [seen : Seq(Keys), signed : SignedKeys \cup {NoSigned}]

\* What a tab holds from which call on.
StepOK(r) ==
    /\ r.pc \in {"signedIds", "storeSigned", "ids", "store", "upload"} => r.identity \in Batches
    /\ r.pc \in {"storeSigned", "ids", "store", "upload"} => r.signedId \in SignedIds
    /\ r.pc \in {"initial", "store", "upload"} => r.first \in 1..(MaxId - BatchSize + 1)
    /\ r.pc \notin {"initial", "store"} => r.stored = 0

\* Tabs at work have batches of their own.
Preparing(t) == ~At(t, "idle")
BatchOK(t) ==
    Preparing(t) =>
        /\ tab[t].batch \in 1..batches
        /\ \A u \in Tabs \ {t} : Preparing(u) => tab[u].batch # tab[t].batch

TabsTyped ==
    /\ batches \in 0..MaxBatches
    /\ tab \in [Tabs -> TabRec]
    /\ \A t \in Tabs : StepOK(tab[t])
    /\ \A t \in Tabs : BatchOK(t)

BrowserTyped ==
    /\ DOMAIN private \subseteq Ids
    /\ \A i \in DOMAIN private : private[i] \in {Initial} \cup Batches
    /\ DOMAIN signed \subseteq SignedIds
    /\ \A i \in DOMAIN signed : signed[i] \in {Initial} \cup Batches
    /\ identity \in {0} \cup Batches /\ registered \in BOOLEAN
    /\ clobbered \in BOOLEAN

FetchOK(f) ==
    fetch[f].seen # <<>> => Len(fetch[f].seen) <= BatchSize /\ fetch[f].signed \in SignedKeys

ServerTyped ==
    /\ pool \in Seq(Keys) /\ Len(pool) <= BatchSize
    /\ signedKey \in SignedKeys \cup {NoSigned}
    /\ fetch \in [Fetches -> FetchRec]
    /\ \A f \in Fetches : FetchOK(f)
    /\ handed \in [Keys -> 0..MaxCount]
    /\ notices \in Nat /\ stale \in BOOLEAN

MailTyped == inbox \subseteq Firsts /\ failed \in BOOLEAN

Typed == TabsTyped /\ BrowserTyped /\ ServerTyped /\ MailTyped

\* The keys of a batch are in the pool only after the tab has uploaded it.
Published(k) ==
    /\ k.batch <= batches
    /\ \A t \in Tabs : Preparing(t) => tab[t].batch # k.batch

\* As long as no fetch wrote back a pool it no longer read.
PoolOK ==
    ~stale =>
        /\ \A k \in Keys : handed[k] <= 1
        /\ \A k \in Keys : handed[k] > 0 => Published(k)
        /\ \A i \in DOMAIN pool : handed[pool[i]] = 0 /\ Published(pool[i])
        /\ \A i, j \in DOMAIN pool : pool[i] = pool[j] => i = j

\* A message uses a key that was taken, and no other message uses it.
InboxOK ==
    ~stale =>
        /\ \A m \in inbox : m.key \in Keys => handed[m.key] > 0
        /\ \A m, n \in inbox : m.key \in Keys /\ m.key = n.key => m = n

\* The ids of its batch that a tab has stored keys under.
StoredIds(t) ==
    CASE At(t, "store") -> tab[t].first .. tab[t].first + tab[t].stored - 1
      [] At(t, "upload") -> tab[t].first .. tab[t].first + BatchSize - 1
      [] OTHER -> {}

\* The signed keys and the identity that are needed: of the messages on their way,
\* of the row, of the bundles being fetched and of those about to be uploaded.
SignedOK ==
    /\ \A m \in inbox : HasSigned(m.signed)
    /\ signedKey # NoSigned => HasSigned(signedKey)
    /\ \A f \in Fetches : fetch[f].seen # <<>> => HasSigned(fetch[f].signed)
    /\ \A t \in Tabs : tab[t].pc \in {"signedIds", "storeSigned", "ids", "store", "upload"}
                          => tab[t].identity = identity
    /\ \A t \in Tabs : tab[t].pc \in {"ids", "store", "upload"} => HasSigned(SignedOf(t))

\* The one-time keys that are needed: of the messages on their way, of the pool and
\* of the batches that are being stored.
OneTimeOK ==
    /\ \A m \in inbox : m.key \in Keys => HasPrivate(m.key)
    /\ \A i \in DOMAIN pool : HasPrivate(pool[i])
    /\ \A t \in Tabs : \A i \in StoredIds(t) : i \in DOMAIN private /\ private[i] = tab[t].batch

\* And as long as no tab stored over a private key.
MessagesOK == ~stale /\ ~clobbered => ~failed /\ SignedOK /\ OneTimeOK

IInv == Typed /\ PoolOK /\ InboxOK /\ MessagesOK

-----------------------------------------------------------------------------
(* Tables, counts and pools                                                *)

\* A table into which a key was put.
LEMMA PutIsThere ==
    ASSUME NEW f, NEW i, NEW b
    PROVE  /\ DOMAIN Put(f, i, b) = DOMAIN f \cup {i}
           /\ Put(f, i, b)[i] = b
           /\ \A j \in DOMAIN f \ {i} : Put(f, i, b)[j] = f[j]
BY DEF Put

\* A counted key is counted once more, up to the bound; the others are left alone.
LEMMA Counting ==
    ASSUME NEW h \in [Keys -> 0..MaxCount], NEW k \in Keys
    PROVE  /\ Count(k, h) \in [Keys -> 0..MaxCount]
           /\ h[k] < MaxCount => Count(k, h)[k] = h[k] + 1
           /\ \A j \in Keys \ {k} : Count(k, h)[j] = h[j]
BY DEF Count, MaxCount

\* The pool a tab uploads.
LEMMA BatchPool ==
    ASSUME NEW first \in 1..(MaxId - BatchSize + 1), NEW b \in Batches,
           NEW p, p = [i \in 1..BatchSize |-> [id |-> first + i - 1, batch |-> b]]
    PROVE  p \in Seq(Keys) /\ Len(p) = BatchSize
<1>1. BatchSize \in Nat /\ MaxId \in Nat
  BY BatchAssumption, IdAssumption
<1>2. ASSUME NEW i \in 1..BatchSize PROVE p[i] \in Keys
  <2>1. first + i - 1 \in 1..MaxId
    BY <1>1
  <2>. QED  BY <2>1 DEF Keys, Ids
<1>3. p \in [1..BatchSize -> Keys]
  BY <1>2
<1>4. p \in Seq(Keys)
  BY <1>1, <1>3, SeqDef
<1>5. Len(p) = BatchSize
  <2>1. Len(p) \in Nat /\ DOMAIN p = 1..Len(p) /\ DOMAIN p = 1..BatchSize
    BY <1>3, <1>4, LenProperties
  <2>. QED  BY <1>1, <2>1
<1>. QED  BY <1>4, <1>5

\* What is left of a pool when its first key is taken.
LEMMA TakingTheFirst ==
    ASSUME NEW s \in Seq(Keys), s # <<>>
    PROVE  /\ 1 \in DOMAIN s /\ Head(s) = s[1] /\ Head(s) \in Keys
           /\ Tail(s) \in Seq(Keys) /\ Len(Tail(s)) = Len(s) - 1
           /\ \A i \in DOMAIN Tail(s) : i + 1 \in DOMAIN s /\ Tail(s)[i] = s[i + 1]
<1>1. Len(s) \in Nat /\ Len(s) # 0 /\ DOMAIN s = 1..Len(s)
  BY EmptySeq, LenProperties
<1>2. /\ Head(s) \in Keys /\ Tail(s) \in Seq(Keys) /\ Len(Tail(s)) = Len(s) - 1
      /\ \A i \in 1..Len(Tail(s)) : Tail(s)[i] = s[i + 1]
  BY HeadTailProperties
<1>3. DOMAIN Tail(s) = 1..(Len(s) - 1)
  BY <1>2, LenProperties
<1>4. Head(s) = s[1]
  OBVIOUS
<1>. QED  BY <1>1, <1>2, <1>3, <1>4

\* A bundle without a one-time key has none that could be taken for one.
LEMMA NoKeyIsNone == NoKey \notin Keys /\ NoSigned \notin SignedKeys
BY DEF NoKey, NoSigned, Keys, SignedKeys, Ids, SignedIds

-----------------------------------------------------------------------------
(* Types                                                                   *)

LEMMA TypedInit == Init => Typed
<1>. SUFFICES ASSUME Init PROVE Typed
  OBVIOUS
<1>1. BatchSize \in Nat /\ BatchSize >= 1 /\ MaxBatches \in Nat
  BY BatchAssumption
<1>2. pool \in Seq(Keys) /\ Len(pool) = 0 /\ DOMAIN private = {} /\ DOMAIN signed = {}
  BY EmptySeq DEF Init
<1>3. TabsTyped
  <2>1. IdleTab \in TabRec /\ IdleTab.pc = "idle"
    BY <1>1 DEF IdleTab, TabRec, TabSteps
  <2>2. StepOK(IdleTab)
    BY DEF IdleTab, StepOK
  <2>. QED  BY <1>1, <2>1, <2>2 DEF Init, TabsTyped, BatchOK, Preparing, At
<1>4. BrowserTyped
  BY <1>2 DEF Init, BrowserTyped
<1>5. ServerTyped
  <2>1. IdleFetch \in FetchRec /\ IdleFetch.seen = <<>>
    BY EmptySeq DEF IdleFetch, FetchRec
  <2>2. fetch \in [Fetches -> FetchRec] /\ \A f \in Fetches : FetchOK(f)
    BY <2>1 DEF Init, FetchOK
  <2>3. handed \in [Keys -> 0..MaxCount]
    BY DEF Init, MaxCount
  <2>4. signedKey \in SignedKeys \cup {NoSigned} /\ notices \in Nat /\ stale \in BOOLEAN
    BY DEF Init
  <2>. QED  BY <1>1, <1>2, <2>2, <2>3, <2>4 DEF ServerTyped
<1>6. MailTyped
  BY DEF Init, MailTyped
<1>. QED  BY <1>3, <1>4, <1>5, <1>6 DEF Typed

\* A tab goes on to r, or is done.
LEMMA TabGoesOn ==
    ASSUME TabsTyped, NEW t \in Tabs, NEW r \in TabRec, StepOK(r),
           tab' = [tab EXCEPT ![t] = r], batches' = batches,
           r.pc = "idle" \/ (Preparing(t) /\ r.batch = tab[t].batch)
    PROVE  TabsTyped'
<1>1. tab' \in [Tabs -> TabRec] /\ \A u \in Tabs : StepOK(tab'[u])
  BY DEF TabsTyped
<1>2. \A u \in Tabs : Preparing(u)' => Preparing(u) /\ tab'[u].batch = tab[u].batch
  BY DEF TabsTyped, Preparing, At
<1>3. \A u \in Tabs : BatchOK(u)'
  BY <1>2 DEF TabsTyped, BatchOK
<1>. QED  BY <1>1, <1>3 DEF TabsTyped

\* A tab is opened with a batch that no other has.
LEMMA OpenTyped ==
    ASSUME Typed, NEW t \in Tabs, Open(t)
    PROVE  Typed'
<1>. DEFINE pc == IF identity = 0 THEN "identity" ELSE "assemble"
            r == [tab[t] EXCEPT !.batch = batches + 1, !.pc = pc]
<1>1. /\ batches \in 0..MaxBatches /\ batches < MaxBatches /\ MaxBatches \in Nat
      /\ batches' = batches + 1 /\ tab' = [tab EXCEPT ![t] = r]
      /\ tab \in [Tabs -> TabRec] /\ tab[t] \in TabRec
      /\ UNCHANGED <<server, browser, mail>>
  BY BatchAssumption DEF Open, Typed, TabsTyped
<1>1a. pc \in {"identity", "assemble"} /\ batches + 1 \in 0..MaxBatches
  BY <1>1
<1>. HIDE DEF pc
<1>2. /\ r \in TabRec /\ r.batch = batches + 1 /\ r.pc \in {"identity", "assemble"}
      /\ r.stored = tab[t].stored
  BY <1>1, <1>1a DEF TabRec, TabSteps
<1>2a. tab[t].stored = 0
  BY DEF Open, Typed, TabsTyped, StepOK, At
<1>. HIDE DEF r
<1>3. StepOK(r)
  BY <1>2, <1>2a DEF StepOK
<1>4. tab' \in [Tabs -> TabRec] /\ tab'[t] = r /\ \A u \in Tabs \ {t} : tab'[u] = tab[u]
  BY <1>1, <1>2
<1>5. ASSUME NEW u \in Tabs PROVE BatchOK(u)'
  <2>1. \A v \in Tabs \ {t} : (Preparing(v)' <=> Preparing(v)) /\ tab'[v].batch = tab[v].batch
    BY <1>4 DEF Preparing, At
  <2>2. \A v \in Tabs \ {t} : Preparing(v) => tab[v].batch \in 1..batches
    BY DEF Typed, TabsTyped, BatchOK
  <2>3. CASE u = t
    BY <1>1, <1>2, <1>4, <2>1, <2>2, <2>3 DEF BatchOK
  <2>4. CASE u # t
    <3>1. SUFFICES ASSUME Preparing(u)
                   PROVE  /\ tab[u].batch \in 1..(batches + 1)
                          /\ \A v \in Tabs \ {u} : Preparing(v)' => tab'[v].batch # tab[u].batch
      BY <1>1, <2>1, <2>4 DEF BatchOK
    <3>2. \A v \in Tabs \ {u, t} : Preparing(v) => tab[v].batch # tab[u].batch
      BY <3>1 DEF Typed, TabsTyped, BatchOK
    <3>. QED  BY <1>1, <1>2, <1>4, <2>1, <2>2, <2>4, <3>1, <3>2
  <2>. QED  BY <2>3, <2>4
<1>6. \A u \in Tabs : StepOK(tab'[u])
  BY <1>3, <1>4 DEF Typed, TabsTyped
<1>7. TabsTyped'
  BY <1>1, <1>4, <1>5, <1>6 DEF TabsTyped
<1>8. BrowserTyped' /\ ServerTyped' /\ MailTyped'
  BY <1>1 DEF Typed, BrowserTyped, ServerTyped, MailTyped, FetchOK, server, browser, mail
<1>. QED  BY <1>7, <1>8 DEF Typed

\* A put of a batch's key keeps the types of the table.
LEMMA PutTyped ==
    ASSUME NEW f, NEW S, NEW i \in S, NEW b \in {Initial} \cup Batches,
           DOMAIN f \subseteq S, \A j \in DOMAIN f : f[j] \in {Initial} \cup Batches
    PROVE  /\ DOMAIN Put(f, i, b) \subseteq S
           /\ \A j \in DOMAIN Put(f, i, b) : Put(f, i, b)[j] \in {Initial} \cup Batches
BY DEF Put

LEMMA StoreNextTyped ==
    ASSUME Typed, NEW t \in Tabs, NEW b \in {Initial} \cup Batches, NEW pc,
           \/ At(t, "initial") /\ pc = "initialSigned"
           \/ At(t, "store") /\ pc = "upload",
           StoreNext(t, b, pc)
    PROVE  Typed'
<1>. DEFINE i == tab[t].first + tab[t].stored
            full == tab[t].stored + 1 = BatchSize
            p == IF full THEN pc ELSE tab[t].pc
            n == IF full THEN 0 ELSE tab[t].stored + 1
            r == [tab[t] EXCEPT !.pc = p, !.stored = n]
<1>1. /\ tab' = [tab EXCEPT ![t] = r] /\ tab[t] \in TabRec /\ StepOK(tab[t])
      /\ UNCHANGED <<server, signed, identity, registered, mail, batches>>
      /\ private' = Put(private, i, b) /\ clobbered' \in BOOLEAN
  BY DEF StoreNext, Typed, TabsTyped
<1>2. /\ BatchSize \in Nat /\ BatchSize >= 1 /\ MaxId \in Nat
      /\ tab[t].stored \in 0..(BatchSize - 1)
      /\ tab[t].first \in 1..(MaxId - BatchSize + 1)
  BY <1>1, BatchAssumption, IdAssumption DEF TabRec, StepOK, At
<1>3. i \in Ids
  BY <1>2 DEF Ids
<1>3a. /\ n \in 0..(BatchSize - 1)
       /\ \/ At(t, "initial") /\ p \in {"initial", "initialSigned"}
          \/ At(t, "store") /\ p \in {"store", "upload"}
       /\ p \notin {"initial", "store"} => n = 0
  BY <1>2 DEF At
<1>. HIDE DEF n, p
<1>4. r \in TabRec
  BY <1>1, <1>3a DEF TabRec, TabSteps
<1>5. StepOK(r)
  BY <1>1, <1>3a DEF StepOK, At, TabRec
<1>6. r.batch = tab[t].batch /\ Preparing(t)
  BY <1>1 DEF Preparing, At, TabRec
<1>. HIDE DEF r, i, full
<1>7. TabsTyped'
  BY <1>1, <1>4, <1>5, <1>6, TabGoesOn DEF Typed
<1>8. DOMAIN private' \subseteq Ids /\ \A j \in DOMAIN private' : private'[j] \in {Initial} \cup Batches
  BY <1>1, <1>3, PutTyped DEF Typed, BrowserTyped
<1>9. BrowserTyped' /\ ServerTyped' /\ MailTyped'
  BY <1>1, <1>8 DEF Typed, BrowserTyped, ServerTyped, MailTyped, FetchOK, server, mail
<1>. QED  BY <1>7, <1>9 DEF Typed

\* The other steps of a tab: the table of signed keys, the identity, or nothing.
LEMMA TabStepTyped ==
    ASSUME Typed, NEW t \in Tabs, NEW r \in TabRec, StepOK(r),
           tab' = [tab EXCEPT ![t] = r], UNCHANGED <<server, mail, batches, private>>,
           r.pc = "idle" \/ (Preparing(t) /\ r.batch = tab[t].batch),
           DOMAIN signed' \subseteq SignedIds,
           \A j \in DOMAIN signed' : signed'[j] \in {Initial} \cup Batches,
           identity' \in {0} \cup Batches, registered' \in BOOLEAN, clobbered' \in BOOLEAN
    PROVE  Typed'
<1>1. TabsTyped'
  BY TabGoesOn DEF Typed
<1>2. BrowserTyped' /\ ServerTyped' /\ MailTyped'
  BY DEF Typed, BrowserTyped, ServerTyped, MailTyped, FetchOK, server, mail
<1>. QED  BY <1>1, <1>2 DEF Typed

LEMMA InitializeTyped ==
    ASSUME Typed, NEW t \in Tabs, Initialize(t)
    PROVE  Typed'
<1>1. /\ tab \in [Tabs -> TabRec] /\ tab[t] \in TabRec /\ StepOK(tab[t]) /\ BrowserTyped
      /\ BatchSize \in Nat /\ BatchSize >= 1 /\ MaxId \in Nat /\ MaxId >= BatchSize
      /\ MaxBatches \in Nat
  BY BatchAssumption, IdAssumption DEF Typed, TabsTyped
<1>2. CASE StoreIdentity(t)
  <2>. DEFINE r == [tab[t] EXCEPT !.pc = "register"]
  <2>1. tab' = [tab EXCEPT ![t] = r] /\ r \in TabRec /\ StepOK(r)
    <3>1. tab' = [tab EXCEPT ![t] = r] /\ tab[t].stored = 0
      BY <1>1, <1>2 DEF StoreIdentity, Go, StepOK, At
    <3>2. r \in TabRec /\ r.pc = "register" /\ r.stored = tab[t].stored
      BY <1>1 DEF TabRec, TabSteps
    <3>. QED  BY <3>1, <3>2 DEF StepOK
  <2>2. Preparing(t) /\ r.batch = tab[t].batch
    BY <1>1, <1>2 DEF StoreIdentity, Preparing, At, TabRec
  <2>3. tab[t].batch \in Batches
    BY <1>1, <2>2 DEF Typed, TabsTyped, BatchOK, Batches
  <2>. HIDE DEF r
  <2>. QED  BY <1>1, <1>2, <2>1, <2>2, <2>3, TabStepTyped DEF StoreIdentity, BrowserTyped
<1>3. CASE StoreRegistration(t)
  <2>. DEFINE r == [tab[t] EXCEPT !.pc = "initial", !.first = 1]
  <2>1. tab' = [tab EXCEPT ![t] = r] /\ r \in TabRec /\ StepOK(r)
    <3>0. 1 \in Ids
      BY <1>1 DEF Ids
    <3>1. r \in TabRec
      BY <1>1, <3>0 DEF TabRec, TabSteps
    <3>2. r.pc = "initial" /\ r.first = 1 /\ 1 \in 1..(MaxId - BatchSize + 1)
      BY <1>1 DEF TabRec
    <3>. QED  BY <1>3, <3>1, <3>2 DEF StoreRegistration, StepOK
  <2>2. Preparing(t) /\ r.batch = tab[t].batch
    BY <1>1, <1>3 DEF StoreRegistration, Preparing, At, TabRec
  <2>. HIDE DEF r
  <2>. QED  BY <1>1, <1>3, <2>1, <2>2, TabStepTyped DEF StoreRegistration, BrowserTyped
<1>4. CASE StoreInitialSigned(t)
  <2>. DEFINE r == [tab[t] EXCEPT !.pc = "assemble"]
  <2>1. tab' = [tab EXCEPT ![t] = r] /\ r \in TabRec /\ StepOK(r)
    <3>1. tab' = [tab EXCEPT ![t] = r] /\ tab[t].stored = 0
      BY <1>1, <1>4 DEF StoreInitialSigned, Go, StepOK, At
    <3>2. r \in TabRec /\ r.pc = "assemble" /\ r.stored = tab[t].stored
      BY <1>1 DEF TabRec, TabSteps
    <3>. QED  BY <3>1, <3>2 DEF StepOK
  <2>2. Preparing(t) /\ r.batch = tab[t].batch
    BY <1>1, <1>4 DEF StoreInitialSigned, Preparing, At, TabRec
  <2>3. 1 \in SignedIds
    BY <1>1 DEF SignedIds
  <2>4. /\ signed' = Put(signed, 1, Initial) /\ UNCHANGED <<server, mail, batches, private>>
        /\ UNCHANGED <<identity, registered>> /\ clobbered' \in BOOLEAN
    BY <1>1, <1>4 DEF StoreInitialSigned, BrowserTyped
  <2>5. DOMAIN signed' \subseteq SignedIds /\ \A j \in DOMAIN signed' : signed'[j] \in {Initial} \cup Batches
    BY <1>1, <2>3, <2>4, PutTyped DEF BrowserTyped
  <2>. HIDE DEF r
  <2>. QED  BY <1>1, <2>1, <2>2, <2>4, <2>5, TabStepTyped DEF BrowserTyped
<1>5. CASE StoreInitial(t)
  BY <1>5, StoreNextTyped DEF StoreInitial
<1>. QED  BY <1>2, <1>3, <1>4, <1>5, OpenTyped DEF Initialize

LEMMA AssembleTyped ==
    ASSUME Typed, NEW t \in Tabs, Assemble(t)
    PROVE  Typed'
<1>1. /\ tab \in [Tabs -> TabRec] /\ tab[t] \in TabRec /\ StepOK(tab[t]) /\ BrowserTyped
      /\ BatchSize \in Nat /\ BatchSize >= 1 /\ MaxId \in Nat /\ MaxBatches \in Nat
  BY BatchAssumption, IdAssumption DEF Typed, TabsTyped
<1>2. Preparing(t) => tab[t].batch \in Batches
  BY <1>1 DEF Typed, TabsTyped, BatchOK, Batches
<1>3. CASE ReadIdentity(t)
  <2>. DEFINE r == [tab[t] EXCEPT !.pc = "signedIds", !.identity = identity]
  <2>1. identity \in Batches /\ identity \in 0..MaxBatches
    BY <1>1, <1>3 DEF ReadIdentity, BrowserTyped, Batches
  <2>2. /\ r \in TabRec /\ r.pc = "signedIds" /\ r.identity = identity
        /\ r.batch = tab[t].batch /\ r.stored = tab[t].stored
    BY <1>1, <2>1 DEF TabRec, TabSteps
  <2>3. StepOK(r) /\ Preparing(t)
    <3>1. tab[t].stored = 0 /\ Preparing(t)
      BY <1>1, <1>3 DEF StepOK, ReadIdentity, Preparing, At
    <3>. HIDE DEF r
    <3>. QED  BY <2>1, <2>2, <3>1 DEF StepOK
  <2>4. tab' = [tab EXCEPT ![t] = r]
    BY <1>1, <1>3 DEF ReadIdentity
  <2>5. UNCHANGED <<server, mail, batches, private>> /\ UNCHANGED <<signed, identity, registered, clobbered>>
    BY <1>3 DEF ReadIdentity, browser
  <2>. HIDE DEF r
  <2>. QED  BY <1>1, <2>2, <2>3, <2>4, <2>5, TabStepTyped DEF BrowserTyped
<1>4. CASE ReadSignedIds(t)
  <2>. DEFINE n == NextId(DOMAIN signed)
              r == [tab[t] EXCEPT !.pc = "storeSigned", !.signedId = n]
  <2>1. n \in SignedIds
    BY <1>4 DEF ReadSignedIds
  <2>2. tab' = [tab EXCEPT ![t] = r]
    BY <1>1, <1>4 DEF ReadSignedIds
  <2>. HIDE DEF n
  <2>3. /\ r \in TabRec /\ r.pc = "storeSigned" /\ r.signedId = n /\ r.stored = tab[t].stored
        /\ r.batch = tab[t].batch /\ r.identity = tab[t].identity
    BY <1>1, <2>1 DEF TabRec, TabSteps
  <2>4. tab[t].identity \in Batches /\ tab[t].stored = 0 /\ Preparing(t)
    BY <1>1, <1>4 DEF StepOK, ReadSignedIds, Preparing, At
  <2>. HIDE DEF r
  <2>5. StepOK(r)
    BY <2>1, <2>3, <2>4 DEF StepOK
  <2>6. UNCHANGED <<server, mail, batches, private>> /\ UNCHANGED <<signed, identity, registered, clobbered>>
    BY <1>4 DEF ReadSignedIds, browser
  <2>. QED  BY <1>1, <2>2, <2>3, <2>4, <2>5, <2>6, TabStepTyped DEF BrowserTyped
<1>5. CASE StoreSigned(t)
  <2>. DEFINE r == [tab[t] EXCEPT !.pc = "ids"]
  <2>1. tab' = [tab EXCEPT ![t] = r]
    BY <1>5 DEF StoreSigned, Go
  <2>2. /\ r \in TabRec /\ r.pc = "ids" /\ r.batch = tab[t].batch /\ r.stored = tab[t].stored
        /\ r.signedId = tab[t].signedId /\ r.identity = tab[t].identity
    BY <1>1 DEF TabRec, TabSteps
  <2>3. /\ Preparing(t) /\ tab[t].identity \in Batches /\ tab[t].signedId \in SignedIds
        /\ tab[t].stored = 0
    BY <1>1, <1>5 DEF StepOK, StoreSigned, Preparing, At
  <2>. HIDE DEF r
  <2>4. StepOK(r)
    BY <2>2, <2>3 DEF StepOK
  <2>5. /\ signed' = Put(signed, tab[t].signedId, tab[t].batch)
        /\ UNCHANGED <<server, mail, batches, private>> /\ UNCHANGED <<identity, registered>>
        /\ clobbered' \in BOOLEAN
    BY <1>1, <1>5 DEF StoreSigned, BrowserTyped
  <2>6. DOMAIN signed' \subseteq SignedIds /\ \A j \in DOMAIN signed' : signed'[j] \in {Initial} \cup Batches
    BY <1>1, <1>2, <2>3, <2>5, PutTyped DEF BrowserTyped
  <2>. QED  BY <1>1, <2>1, <2>2, <2>3, <2>4, <2>5, <2>6, TabStepTyped DEF BrowserTyped
<1>6. CASE ReadIds(t)
  <2>. DEFINE n == NextId(DOMAIN private)
              r == [tab[t] EXCEPT !.pc = "store", !.first = n]
  <2>1. n \in 1..(MaxId - BatchSize + 1)
    BY <1>6 DEF ReadIds
  <2>2. tab' = [tab EXCEPT ![t] = r]
    BY <1>1, <1>6 DEF ReadIds
  <2>. HIDE DEF n
  <2>3. n \in Ids
    BY <1>1, <2>1 DEF Ids
  <2>4. /\ r \in TabRec /\ r.pc = "store" /\ r.first = n /\ r.batch = tab[t].batch
        /\ r.signedId = tab[t].signedId /\ r.identity = tab[t].identity
    BY <1>1, <2>3 DEF TabRec, TabSteps
  <2>5. Preparing(t) /\ tab[t].identity \in Batches /\ tab[t].signedId \in SignedIds
    BY <1>1, <1>6 DEF StepOK, ReadIds, Preparing, At
  <2>. HIDE DEF r
  <2>6. StepOK(r)
    BY <2>1, <2>4, <2>5 DEF StepOK
  <2>7. UNCHANGED <<server, mail, batches, private>> /\ UNCHANGED <<signed, identity, registered, clobbered>>
    BY <1>6 DEF ReadIds, browser
  <2>. QED  BY <1>1, <2>2, <2>4, <2>5, <2>6, <2>7, TabStepTyped DEF BrowserTyped
<1>7. CASE StoreKey(t)
  <2>1. tab[t].batch \in Batches /\ At(t, "store")
    BY <1>2, <1>7 DEF StoreKey, Preparing, At
  <2>. QED  BY <1>7, <2>1, StoreNextTyped DEF StoreKey
<1>. QED  BY <1>3, <1>4, <1>5, <1>6, <1>7 DEF Assemble

\* A tab is done, uploaded or not; the rest is for the caller.
LEMMA LeavingTab ==
    ASSUME Typed, NEW t \in Tabs, tab' = [tab EXCEPT ![t] = IdleTab],
           UNCHANGED <<fetch, handed, notices, stale, browser, mail, batches>>,
           pool' \in Seq(Keys), Len(pool') <= BatchSize,
           signedKey' \in SignedKeys \cup {NoSigned}
    PROVE  Typed'
<1>1. IdleTab \in TabRec /\ IdleTab.pc = "idle"
  BY BatchAssumption DEF IdleTab, TabRec, TabSteps
<1>2. StepOK(IdleTab)
  BY DEF IdleTab, StepOK
<1>3. TabsTyped'
  BY <1>1, <1>2, TabGoesOn DEF Typed
<1>4. BrowserTyped' /\ ServerTyped' /\ MailTyped'
  BY DEF Typed, BrowserTyped, ServerTyped, MailTyped, FetchOK, browser, mail
<1>. QED  BY <1>3, <1>4 DEF Typed

\* What a tab uploads.
LEMMA UploadedBundle ==
    ASSUME Typed, NEW t \in Tabs, At(t, "upload")
    PROVE  /\ tab[t].first \in 1..(MaxId - BatchSize + 1) /\ tab[t].batch \in Batches
           /\ SignedOf(t) \in SignedKeys
           /\ PoolOf(t) \in Seq(Keys) /\ Len(PoolOf(t)) = BatchSize
           /\ DOMAIN PoolOf(t) = 1..BatchSize
<1>1. /\ tab[t].identity \in Batches /\ tab[t].signedId \in SignedIds
      /\ tab[t].first \in 1..(MaxId - BatchSize + 1)
      /\ batches \in 0..MaxBatches /\ tab[t].batch \in 1..batches
  BY DEF Typed, TabsTyped, StepOK, At, BatchOK, Preparing
<1>2. tab[t].batch \in Batches
  BY <1>1, BatchAssumption DEF Batches
<1>3. SignedOf(t) \in SignedKeys
  BY <1>1, <1>2 DEF SignedOf, SignedKeys
<1>4. PICK p : p = PoolOf(t)
  OBVIOUS
<1>5. p \in Seq(Keys) /\ Len(p) = BatchSize
  <2>1. p = [i \in 1..BatchSize |-> [id |-> tab[t].first + i - 1, batch |-> tab[t].batch]]
    BY <1>4 DEF PoolOf
  <2>. QED  BY <1>1, <1>2, <2>1, BatchPool
<1>. QED  BY <1>1, <1>2, <1>3, <1>4, <1>5 DEF PoolOf

LEMMA LeavingTyped ==
    ASSUME Typed, NEW t \in Tabs, Upload(t) \/ CloseTab(t)
    PROVE  Typed'
<1>1. CASE Upload(t)
  <2>1. BatchSize \in Nat /\ At(t, "upload")
    BY <1>1, BatchAssumption DEF Upload
  <2>2. /\ pool' \in Seq(Keys) /\ Len(pool') <= BatchSize
        /\ signedKey' \in SignedKeys \cup {NoSigned}
    BY <1>1, <2>1, UploadedBundle DEF Upload
  <2>. QED  BY <1>1, <2>2, LeavingTab DEF Upload
<1>2. CASE CloseTab(t)
  BY <1>2, LeavingTab DEF CloseTab, Typed, ServerTyped, server
<1>. QED  BY <1>1, <1>2

\* A step of a fetch leaves the tabs and the browser alone.
LEMMA FetchSteps ==
    ASSUME Typed, UNCHANGED <<browser, failed, batches, tab, signedKey, notices>>,
           fetch' \in [Fetches -> FetchRec], \A f \in Fetches : FetchOK(f)',
           pool' \in Seq(Keys), Len(pool') <= BatchSize,
           handed' \in [Keys -> 0..MaxCount], inbox' \subseteq Firsts, stale' \in BOOLEAN
    PROVE  Typed'
<1>1. TabsTyped'
  BY DEF Typed, TabsTyped, BatchOK, Preparing, At
<1>2. BrowserTyped' /\ ServerTyped' /\ MailTyped'
  BY DEF Typed, BrowserTyped, ServerTyped, MailTyped, browser
<1>. QED  BY <1>1, <1>2 DEF Typed

LEMMA FetchesTyped ==
    ASSUME Typed, NEW f \in Fetches, FetchRead(f) \/ FetchWrite(f) \/ FetchFail(f)
    PROVE  Typed'
<1>1. /\ BatchSize \in Nat /\ pool \in Seq(Keys) /\ Len(pool) <= BatchSize
      /\ fetch \in [Fetches -> FetchRec] /\ \A g \in Fetches : FetchOK(g)
      /\ handed \in [Keys -> 0..MaxCount] /\ inbox \subseteq Firsts /\ stale \in BOOLEAN
      /\ signedKey \in SignedKeys \cup {NoSigned}
  BY BatchAssumption DEF Typed, ServerTyped, MailTyped
<1>2. ASSUME NEW r \in FetchRec, fetch' = [fetch EXCEPT ![f] = r],
             r.seen # <<>> => Len(r.seen) <= BatchSize /\ r.signed \in SignedKeys
      PROVE  fetch' \in [Fetches -> FetchRec] /\ \A g \in Fetches : FetchOK(g)'
  BY <1>1, <1>2 DEF FetchOK
<1>3. IdleFetch \in FetchRec /\ IdleFetch.seen = <<>>
  BY EmptySeq DEF IdleFetch, FetchRec
<1>4. CASE FetchRead(f)
  <2>1. signedKey \in SignedKeys
    BY <1>1, <1>4 DEF FetchRead
  <2>2. CASE pool = <<>>
    <3>1. First(NoKey, signedKey) \in Firsts
      BY <2>1 DEF First, Firsts
    <3>2. inbox' \subseteq Firsts /\ fetch' = fetch
      BY <1>1, <1>4, <2>2, <3>1 DEF FetchRead
    <3>3. \A g \in Fetches : FetchOK(g)'
      BY <1>1, <3>2 DEF FetchOK
    <3>. QED  BY <1>1, <1>4, <3>2, <3>3, FetchSteps DEF FetchRead
  <2>3. CASE pool # <<>>
    <3>. DEFINE r == [seen |-> pool, signed |-> signedKey]
    <3>1. r \in FetchRec /\ r.seen = pool /\ r.signed = signedKey
      BY <1>1 DEF FetchRec
    <3>2. fetch' = [fetch EXCEPT ![f] = r] /\ inbox' = inbox
      BY <1>4, <2>3 DEF FetchRead
    <3>. HIDE DEF r
    <3>3. fetch' \in [Fetches -> FetchRec] /\ \A g \in Fetches : FetchOK(g)'
      BY <1>1, <1>2, <2>1, <3>1, <3>2
    <3>. QED  BY <1>1, <1>4, <3>2, <3>3, FetchSteps DEF FetchRead
  <2>. QED  BY <2>2, <2>3
<1>5. fetch' = [fetch EXCEPT ![f] = IdleFetch] =>
         fetch' \in [Fetches -> FetchRec] /\ \A g \in Fetches : FetchOK(g)'
  BY <1>2, <1>3
<1>6. CASE FetchWrite(f)
  <2>. DEFINE s == fetch[f].seen
              m == First(Head(s), fetch[f].signed)
  <2>1. s \in Seq(Keys) /\ s # <<>> /\ Len(s) <= BatchSize /\ fetch[f].signed \in SignedKeys
    BY <1>1, <1>6 DEF FetchWrite, FetchOK, FetchRec
  <2>2. Head(s) \in Keys /\ Tail(s) \in Seq(Keys) /\ Len(Tail(s)) <= BatchSize
    <3>1. Len(s) \in Nat
      BY <2>1, LenProperties
    <3>. HIDE DEF s
    <3>. QED  BY <1>1, <2>1, <3>1, TakingTheFirst
  <2>3. m \in Firsts
    BY <2>1, <2>2 DEF First, Firsts
  <2>4. /\ pool' = Tail(s) /\ handed' = Count(Head(s), handed) /\ inbox' = inbox \cup {m}
        /\ fetch' = [fetch EXCEPT ![f] = IdleFetch] /\ stale' \in BOOLEAN
        /\ UNCHANGED <<browser, failed, batches, tab, signedKey, notices>>
    BY <1>6 DEF FetchWrite
  <2>. HIDE DEF s, m
  <2>5. handed' \in [Keys -> 0..MaxCount]
    BY <1>1, <2>2, <2>4, Counting
  <2>6. inbox' \subseteq Firsts
    BY <1>1, <2>3, <2>4
  <2>. QED  BY <1>5, <2>2, <2>4, <2>5, <2>6, FetchSteps
<1>7. CASE FetchFail(f)
  BY <1>1, <1>5, <1>7, FetchSteps DEF FetchFail, mail
<1>. QED  BY <1>4, <1>6, <1>7

LEMMA DecryptTyped ==
    ASSUME Typed, NEW m \in inbox, Decrypt(m)
    PROVE  Typed'
<1>1. /\ UNCHANGED <<server, signed, identity, registered, clobbered, batches, tab>>
      /\ inbox' \subseteq inbox /\ failed' \in BOOLEAN
      /\ DOMAIN private' \subseteq DOMAIN private
      /\ \A i \in DOMAIN private' : private'[i] = private[i]
  BY DEF Decrypt, Typed, MailTyped, Restrict
<1>2. TabsTyped'
  BY <1>1 DEF Typed, TabsTyped, BatchOK, Preparing, At
<1>3. BrowserTyped' /\ ServerTyped' /\ MailTyped'
  BY <1>1 DEF Typed, BrowserTyped, ServerTyped, MailTyped, FetchOK, server
<1>. QED  BY <1>2, <1>3 DEF Typed

LEMMA TypedNext == Typed /\ [Next]_vars => Typed'
<1>. SUFFICES ASSUME Typed, [Next]_vars PROVE Typed'
  OBVIOUS
<1>1. CASE UNCHANGED vars
  <2>1. TabsTyped'
    BY <1>1 DEF vars, Typed, TabsTyped, BatchOK, Preparing, At
  <2>2. BrowserTyped' /\ ServerTyped' /\ MailTyped'
    BY <1>1 DEF vars, server, browser, mail, Typed, BrowserTyped, ServerTyped, MailTyped, FetchOK
  <2>. QED  BY <2>1, <2>2 DEF Typed
<1>. QED  BY <1>1, InitializeTyped, AssembleTyped, LeavingTyped, FetchesTyped, DecryptTyped
          DEF Next

\* Every variable keeps its type.
THEOREM TypeCorrect == Spec => []TypeOK
<1>1. Typed => TypeOK
  BY DEF Typed, TabsTyped, BrowserTyped, ServerTyped, MailTyped, FetchRec, TabRec, TypeOK
<1>. QED  BY <1>1, TypedInit, TypedNext, PTL DEF Spec

-----------------------------------------------------------------------------
(* The pool                                                                *)

\* What the steps of the tabs do to the published batches, and of the fetches
\* that do not write: nothing.
LEMMA PublishedStays ==
    ASSUME Typed, NEW k \in Keys, Published(k), batches' \in {batches, batches + 1},
           \A t \in Tabs : Preparing(t)' =>
              \/ Preparing(t) /\ tab'[t].batch = tab[t].batch
              \/ tab'[t].batch = batches + 1
    PROVE  Published(k)'
<1>1. k.batch \in Nat /\ batches \in Nat
  BY BatchAssumption DEF Keys, Batches, Typed, TabsTyped
<1>. QED  BY <1>1 DEF Published

LEMMA PoolStays ==
    ASSUME PoolOK, Typed, UNCHANGED <<pool, handed, stale>>,
           batches' \in {batches, batches + 1},
           \A t \in Tabs : Preparing(t)' =>
              \/ Preparing(t) /\ tab'[t].batch = tab[t].batch
              \/ tab'[t].batch = batches + 1
    PROVE  PoolOK'
<1>1. \A k \in Keys : Published(k) => Published(k)'
  BY PublishedStays
<1>2. \A i \in DOMAIN pool : pool[i] \in Keys
  BY ElementOfSeq DEF Typed, ServerTyped
<1>. QED  BY <1>1, <1>2 DEF PoolOK

LEMMA PoolInit == Init => PoolOK
BY DEF Init, PoolOK

\* The steps of a tab up to the upload leave the published batches alone.
LEMMA TabsKeepBatches ==
    ASSUME Typed, NEW t \in Tabs, Initialize(t) \/ Assemble(t) \/ CloseTab(t)
    PROVE  /\ batches' \in {batches, batches + 1}
           /\ \A u \in Tabs : Preparing(u)' =>
                 \/ Preparing(u) /\ tab'[u].batch = tab[u].batch
                 \/ tab'[u].batch = batches + 1
<1>1. tab \in [Tabs -> TabRec] /\ tab[t] \in TabRec
  BY DEF Typed, TabsTyped
<1>2. ASSUME NEW r, tab' = [tab EXCEPT ![t] = r],
             \/ r.pc = "idle"
             \/ Preparing(t) /\ r.batch = tab[t].batch
             \/ r.batch = batches + 1
      PROVE  \A u \in Tabs : Preparing(u)' =>
                 \/ Preparing(u) /\ tab'[u].batch = tab[u].batch
                 \/ tab'[u].batch = batches + 1
  BY <1>1, <1>2 DEF Preparing, At
<1>3. CASE Open(t)
  <2>. DEFINE pc == IF identity = 0 THEN "identity" ELSE "assemble"
              r == [tab[t] EXCEPT !.batch = batches + 1, !.pc = pc]
  <2>1. tab' = [tab EXCEPT ![t] = r] /\ batches' = batches + 1
    BY <1>1, <1>3 DEF Open
  <2>. HIDE DEF pc
  <2>2. r.batch = batches + 1
    BY <1>1 DEF TabRec
  <2>. HIDE DEF r
  <2>. QED  BY <1>2, <2>1, <2>2
<1>4. ASSUME NEW r, tab' = [tab EXCEPT ![t] = r], r.batch = tab[t].batch, Preparing(t),
             batches' = batches
      PROVE  /\ batches' \in {batches, batches + 1}
             /\ \A u \in Tabs : Preparing(u)' =>
                   \/ Preparing(u) /\ tab'[u].batch = tab[u].batch
                   \/ tab'[u].batch = batches + 1
  BY <1>2, <1>4
<1>5. ASSUME NEW pc, tab' = [tab EXCEPT ![t].pc = pc], Preparing(t), batches' = batches
      PROVE  /\ batches' \in {batches, batches + 1}
             /\ \A u \in Tabs : Preparing(u)' =>
                   \/ Preparing(u) /\ tab'[u].batch = tab[u].batch
                   \/ tab'[u].batch = batches + 1
  BY <1>1, <1>5 DEF Preparing, At, TabRec
<1>6. CASE StoreIdentity(t)
  BY <1>5, <1>6 DEF StoreIdentity, Go, Preparing, At
<1>7. CASE StoreRegistration(t) \/ ReadIdentity(t) \/ ReadSignedIds(t) \/ ReadIds(t)
  BY <1>1, <1>7 DEF StoreRegistration, ReadIdentity, ReadSignedIds, ReadIds, Preparing, At, TabRec
<1>8. CASE StoreInitialSigned(t) \/ StoreSigned(t)
  BY <1>5, <1>8 DEF StoreInitialSigned, StoreSigned, Go, Preparing, At
<1>9. CASE StoreInitial(t) \/ StoreKey(t)
  BY <1>1, <1>9 DEF StoreInitial, StoreKey, StoreNext, Preparing, At, TabRec
<1>10. CASE CloseTab(t)
  BY <1>1, <1>10 DEF CloseTab, Preparing, At, IdleTab
<1>. QED  BY <1>3, <1>6, <1>7, <1>8, <1>9, <1>10 DEF Initialize, Assemble

\* A batch that is uploaded had not been published: none of its keys was taken.
LEMMA UploadPool ==
    ASSUME Typed, PoolOK, NEW t \in Tabs, Upload(t)
    PROVE  PoolOK'
<1>1. SUFFICES ASSUME ~stale
               PROVE  /\ \A k \in Keys : handed[k] > 0 => Published(k)'
                      /\ \A i \in DOMAIN pool' : handed[pool'[i]] = 0 /\ Published(pool[i])'
                      /\ \A i, j \in DOMAIN pool' : pool'[i] = pool'[j] => i = j
  <2>1. UNCHANGED <<handed, stale>>
    BY DEF Upload
  <2>. QED  BY <2>1 DEF PoolOK
<1>2. /\ At(t, "upload") /\ Preparing(t) /\ batches \in Nat /\ batches' = batches
      /\ tab[t].batch \in 1..batches
      /\ \A u \in Tabs \ {t} : Preparing(u) => tab[u].batch # tab[t].batch
  BY BatchAssumption DEF Typed, TabsTyped, BatchOK, Upload, Preparing, At
<1>3. \A u \in Tabs : Preparing(u)' => u # t /\ Preparing(u) /\ tab'[u] = tab[u]
  BY DEF Upload, Typed, TabsTyped, Preparing, At, IdleTab
<1>4. ASSUME NEW k \in Keys, handed[k] > 0 PROVE Published(k)'
  <2>1. Published(k)
    BY <1>1, <1>4 DEF PoolOK
  <2>. QED  BY <1>2, <1>3, <2>1, PublishedStays
<1>5. /\ DOMAIN pool' = 1..BatchSize /\ BatchSize \in Nat /\ pool' \in Seq(Keys)
      /\ tab[t].first \in Nat
      /\ \A i \in DOMAIN pool' : /\ pool'[i].batch = tab[t].batch
                                 /\ pool'[i].id = tab[t].first + i - 1
  BY <1>2, UploadedBundle, BatchAssumption DEF Upload, PoolOf
<1>6. ASSUME NEW i \in DOMAIN pool'
      PROVE  handed[pool'[i]] = 0 /\ Published(pool[i])'
  <2>1. pool'[i] \in Keys
    BY <1>5, ElementOfSeq
  <2>2. ~Published(pool'[i])
    BY <1>2, <1>5 DEF Published
  <2>3. handed[pool'[i]] \in Nat
    BY <2>1 DEF Typed, ServerTyped, MaxCount
  <2>4. handed[pool'[i]] = 0
    BY <1>1, <2>1, <2>2, <2>3 DEF PoolOK
  <2>5. Published(pool[i])'
    BY <1>2, <1>3, <1>5 DEF Published
  <2>. QED  BY <2>4, <2>5
<1>7. \A i, j \in DOMAIN pool' : pool'[i] = pool'[j] => i = j
  BY <1>5
<1>. QED  BY <1>4, <1>6, <1>7

\* A fetch that writes the rest of the pool it finds takes a key for the first time,
\* and the key is not in the rest.
LEMMA FetchPool ==
    ASSUME Typed, PoolOK, NEW f \in Fetches, FetchWrite(f)
    PROVE  PoolOK'
<1>1. SUFFICES ASSUME ~stale, fetch[f].seen = pool PROVE PoolOK'
  BY DEF PoolOK, FetchWrite, Typed, ServerTyped
<1>2. /\ pool \in Seq(Keys) /\ pool # <<>> /\ ~stale'
      /\ pool' = Tail(pool) /\ handed' = Count(Head(pool), handed)
      /\ \A k \in Keys : Published(k)' <=> Published(k)
  BY <1>1 DEF FetchWrite, Typed, ServerTyped, Published, Preparing, At
<1>. DEFINE k == Head(pool)
<1>3. /\ 1 \in DOMAIN pool /\ k = pool[1] /\ k \in Keys /\ pool' \in Seq(Keys)
      /\ \A i \in DOMAIN pool' : i + 1 \in DOMAIN pool /\ pool'[i] = pool[i + 1]
  BY <1>2, TakingTheFirst
<1>4. /\ \A i \in DOMAIN pool : pool[i] \in Keys
      /\ \A i \in DOMAIN pool' : pool'[i] \in Keys /\ i \in Nat /\ i # 0
  <2>1. DOMAIN pool' = 1..Len(pool')
    BY <1>3, LenProperties
  <2>. QED  BY <1>2, <1>3, <2>1, ElementOfSeq
<1>5. /\ handed \in [Keys -> 0..MaxCount]
      /\ handed[k] = 0 /\ Published(k)
      /\ \A j \in Keys : handed[j] <= 1 /\ (handed[j] > 0 => Published(j))
  BY <1>1, <1>3 DEF PoolOK, Typed, ServerTyped
<1>. HIDE DEF k
<1>6. handed'[k] = 1 /\ \A j \in Keys \ {k} : handed'[j] = handed[j]
  <2>1. handed' = Count(k, handed)
    BY <1>2 DEF k
  <2>. QED  BY <1>3, <1>5, <2>1, Counting DEF MaxCount
<1>7. \A j \in Keys : handed'[j] <= 1 /\ (handed'[j] > 0 => Published(j)')
  BY <1>2, <1>3, <1>5, <1>6
<1>8. ASSUME NEW i \in DOMAIN pool'
      PROVE  handed'[pool'[i]] = 0 /\ Published(pool[i])'
  <2>1. pool[i + 1] # pool[1]
    BY <1>1, <1>3, <1>4 DEF PoolOK
  <2>2. pool[i + 1] \in Keys /\ handed[pool[i + 1]] = 0 /\ Published(pool[i + 1])
    BY <1>1, <1>3, <1>4 DEF PoolOK
  <2>. QED  BY <1>2, <1>3, <1>6, <2>1, <2>2
<1>9. \A i, j \in DOMAIN pool' : pool'[i] = pool'[j] => i = j
  <2>1. ASSUME NEW i \in DOMAIN pool', NEW j \in DOMAIN pool', pool'[i] = pool'[j]
        PROVE  i = j
    <3>1. i + 1 = j + 1
      BY <1>1, <1>3, <2>1 DEF PoolOK
    <3>. QED  BY <1>4, <3>1
  <2>. QED  BY <2>1
<1>. QED  BY <1>7, <1>8, <1>9 DEF PoolOK

LEMMA PoolNext == Typed /\ PoolOK /\ [Next]_vars => PoolOK'
<1>. SUFFICES ASSUME Typed, PoolOK, [Next]_vars PROVE PoolOK'
  OBVIOUS
<1>1. ASSUME UNCHANGED <<pool, handed, stale, batches, tab>>
      PROVE  PoolOK'
  BY <1>1, PoolStays DEF Preparing, At
<1>2. ASSUME NEW t \in Tabs, Initialize(t) \/ Assemble(t) \/ CloseTab(t)
      PROVE  PoolOK'
  <2>1. UNCHANGED <<pool, handed, stale>>
    BY <1>2 DEF Initialize, Assemble, Open, StoreIdentity, StoreRegistration, StoreInitial,
                StoreInitialSigned, ReadIdentity, ReadSignedIds, StoreSigned, ReadIds,
                StoreKey, StoreNext, CloseTab, server
  <2>. QED  BY <1>2, <2>1, TabsKeepBatches, PoolStays
<1>3. ASSUME NEW f \in Fetches, FetchRead(f) \/ FetchFail(f)
      PROVE  PoolOK'
  BY <1>1, <1>3 DEF FetchRead, FetchFail
<1>4. ASSUME NEW m \in inbox, Decrypt(m) PROVE PoolOK'
  BY <1>1, <1>4 DEF Decrypt, server
<1>5. CASE UNCHANGED vars
  BY <1>1, <1>5 DEF vars, server
<1>. QED  BY <1>2, <1>3, <1>4, <1>5, UploadPool, FetchPool DEF Next

\* As long as no fetch has written back a pool that changed since it was read, no
\* key is returned twice and none that was returned is in the pool.
THEOREM KeysAreReturnedOnce == Spec => []PoolIsUnspent
<1>1. Typed /\ PoolOK => PoolIsUnspent
  BY DEF PoolOK, PoolIsUnspent, InPool
<1>. QED  BY <1>1, TypedInit, TypedNext, PoolInit, PoolNext, PTL DEF Spec

-----------------------------------------------------------------------------
(* The first messages                                                      *)

LEMMA InboxInit == Init => InboxOK
BY DEF Init, InboxOK

LEMMA InboxNext == Typed /\ PoolOK /\ InboxOK /\ [Next]_vars => InboxOK'
<1>. SUFFICES ASSUME Typed, PoolOK, InboxOK, [Next]_vars PROVE InboxOK'
  OBVIOUS
<1>1. ASSUME inbox' \subseteq inbox, UNCHANGED <<handed, stale>> PROVE InboxOK'
  BY <1>1 DEF InboxOK
<1>2. ASSUME NEW t \in Tabs, Initialize(t) \/ Assemble(t) \/ Upload(t) \/ CloseTab(t)
      PROVE  InboxOK'
  <2>1. UNCHANGED <<inbox, handed, stale>>
    BY <1>2 DEF Initialize, Assemble, Open, StoreIdentity, StoreRegistration, StoreInitial,
                StoreInitialSigned, ReadIdentity, ReadSignedIds, StoreSigned, ReadIds,
                StoreKey, StoreNext, Upload, CloseTab, server, mail
  <2>. QED  BY <1>1, <2>1
<1>3. ASSUME NEW f \in Fetches, FetchRead(f) PROVE InboxOK'
  <2>1. /\ UNCHANGED <<handed, stale>>
        /\ inbox' = inbox \/ inbox' = inbox \cup {First(NoKey, signedKey)}
    BY <1>3 DEF FetchRead
  <2>2. First(NoKey, signedKey).key \notin Keys
    BY NoKeyIsNone DEF First
  <2>. QED  BY <2>1, <2>2 DEF InboxOK
<1>4. ASSUME NEW f \in Fetches, FetchFail(f) PROVE InboxOK'
  BY <1>1, <1>4 DEF FetchFail, mail
<1>5. ASSUME NEW f \in Fetches, FetchWrite(f) PROVE InboxOK'
  <2>. DEFINE k == Head(fetch[f].seen)
              m == First(k, fetch[f].signed)
  <2>1. SUFFICES ASSUME ~stale, fetch[f].seen = pool PROVE InboxOK'
    BY <1>5 DEF InboxOK, FetchWrite, Typed, ServerTyped
  <2>2. /\ pool \in Seq(Keys) /\ pool # <<>> /\ handed \in [Keys -> 0..MaxCount]
        /\ inbox' = inbox \cup {m} /\ handed' = Count(k, handed) /\ m.key = k
    BY <1>5, <2>1 DEF FetchWrite, Typed, ServerTyped, First
  <2>3. k = pool[1] /\ 1 \in DOMAIN pool /\ k \in Keys
    BY <2>1, <2>2, TakingTheFirst
  <2>4. handed[k] = 0
    BY <2>1, <2>3 DEF PoolOK
  <2>. HIDE DEF k, m
  <2>5. handed'[k] = 1 /\ \A j \in Keys \ {k} : handed'[j] = handed[j]
    BY <2>2, <2>3, <2>4, Counting DEF MaxCount
  <2>6. \A n \in inbox : n.key \in Keys => handed[n.key] > 0 /\ n.key # k
    BY <2>1, <2>4 DEF InboxOK
  <2>. QED  BY <2>1, <2>2, <2>3, <2>5, <2>6 DEF InboxOK
<1>6. ASSUME NEW m \in inbox, Decrypt(m) PROVE InboxOK'
  BY <1>1, <1>6 DEF Decrypt, server
<1>7. CASE UNCHANGED vars
  BY <1>1, <1>7 DEF vars, server, mail
<1>. QED  BY <1>2, <1>3, <1>4, <1>5, <1>6, <1>7 DEF Next

LEMMA MessagesInit == Init => MessagesOK
BY NoKeyIsNone DEF Init, MessagesOK, SignedOK, OneTimeOK, StoredIds, At, IdleTab, IdleFetch

\* The steps in which a tab's bundle has the identity, and its signed key.
HasIdentity == {"signedIds", "storeSigned", "ids", "store", "upload"}
HasSignedKey == {"ids", "store", "upload"}

\* A tab goes on, and what was stored stays stored.
LEMMA TabKeepsMessages ==
    ASSUME Typed, SignedOK, OneTimeOK, NEW t \in Tabs, NEW r,
           tab' = [tab EXCEPT ![t] = r],
           UNCHANGED <<fetch, inbox, identity>>,
           signedKey' = signedKey \/ HasSigned(signedKey)',
           pool' = pool \/ \A i \in DOMAIN pool' : HasPrivate(pool[i])',
           \A i \in DOMAIN signed : i \in DOMAIN signed' /\ signed'[i] = signed[i],
           \A i \in DOMAIN private : i \in DOMAIN private' /\ private'[i] = private[i],
           r.pc \in HasIdentity => r.identity = identity,
           r.pc \in HasSignedKey => HasSigned(SignedOf(t))',
           \A i \in StoredIds(t)' : i \in DOMAIN private' /\ private'[i] = r.batch
    PROVE  SignedOK' /\ OneTimeOK'
<1>1. tab'[t] = r /\ \A u \in Tabs \ {t} : tab'[u] = tab[u]
  BY DEF Typed, TabsTyped
<1>2. \A m \in inbox' : HasSigned(m.signed)' /\ (m.key \in Keys => HasPrivate(m.key)')
  BY DEF SignedOK, OneTimeOK, HasSigned, HasPrivate
<1>3. signedKey' # NoSigned => HasSigned(signedKey)'
  BY DEF SignedOK, HasSigned
<1>4. \A f \in Fetches : fetch'[f].seen # <<>> => HasSigned(fetch[f].signed)'
  BY DEF SignedOK, HasSigned
<1>5. ASSUME NEW u \in Tabs
      PROVE  /\ tab'[u].pc \in HasIdentity => tab'[u].identity = identity'
             /\ tab'[u].pc \in HasSignedKey => HasSigned(SignedOf(u))'
             /\ \A i \in StoredIds(u)' : i \in DOMAIN private' /\ private'[i] = tab'[u].batch
  <2>1. CASE u = t
    BY <1>1, <2>1
  <2>2. CASE u # t
    <3>1. StoredIds(u)' = StoredIds(u) /\ SignedOf(u)' = SignedOf(u)
      BY <1>1, <2>2 DEF StoredIds, SignedOf, At
    <3>2. /\ tab[u].pc \in HasIdentity => tab[u].identity = identity
          /\ tab[u].pc \in HasSignedKey => HasSigned(SignedOf(u))
      BY DEF SignedOK, HasIdentity, HasSignedKey
    <3>3. tab[u].pc \in HasSignedKey => HasSigned(SignedOf(u))'
      BY <3>1, <3>2 DEF HasSigned
    <3>4. \A i \in StoredIds(u) : i \in DOMAIN private /\ private[i] = tab[u].batch
      BY DEF OneTimeOK
    <3>. QED  BY <1>1, <2>2, <3>1, <3>2, <3>3, <3>4
  <2>. QED  BY <2>1, <2>2
<1>6. \A i \in DOMAIN pool' : HasPrivate(pool[i])'
  BY DEF OneTimeOK, HasPrivate
<1>7. SignedOK'
  BY <1>2, <1>3, <1>4, <1>5 DEF SignedOK, HasIdentity, HasSignedKey
<1>8. OneTimeOK'
  BY <1>2, <1>5, <1>6 DEF OneTimeOK
<1>. QED  BY <1>7, <1>8

\* A put under a free id keeps what was stored.
LEMMA PutKeeps ==
    ASSUME NEW f, NEW i, NEW b, i \notin DOMAIN f
    PROVE  \A j \in DOMAIN f : j \in DOMAIN Put(f, i, b) /\ Put(f, i, b)[j] = f[j]
BY DEF Put

LEMMA StoreNextKeeps ==
    ASSUME Typed, SignedOK, OneTimeOK, NEW t \in Tabs, NEW b, NEW pc,
           \/ At(t, "initial") /\ pc = "initialSigned"
           \/ At(t, "store") /\ pc = "upload" /\ b = tab[t].batch,
           StoreNext(t, b, pc), ~clobbered'
    PROVE  SignedOK' /\ OneTimeOK'
<1>. DEFINE i == tab[t].first + tab[t].stored
            full == tab[t].stored + 1 = BatchSize
            p == IF full THEN pc ELSE tab[t].pc
            n == IF full THEN 0 ELSE tab[t].stored + 1
            r == [tab[t] EXCEPT !.pc = p, !.stored = n]
<1>1. /\ tab' = [tab EXCEPT ![t] = r] /\ tab[t] \in TabRec /\ StepOK(tab[t])
      /\ UNCHANGED <<server, signed, identity, registered, mail, batches>>
      /\ private' = Put(private, i, b) /\ i \notin DOMAIN private
  BY DEF StoreNext, Typed, TabsTyped, BrowserTyped
<1>2. /\ BatchSize \in Nat /\ BatchSize >= 1 /\ MaxId \in Nat
      /\ tab[t].stored \in 0..(BatchSize - 1)
      /\ At(t, "store") => tab[t].first \in 1..(MaxId - BatchSize + 1)
  BY <1>1, BatchAssumption, IdAssumption DEF TabRec, StepOK, At
<1>3. /\ r.pc = p /\ r.stored = n /\ r.batch = tab[t].batch /\ r.first = tab[t].first
      /\ r.identity = tab[t].identity /\ r.signedId = tab[t].signedId
  BY <1>1 DEF TabRec
<1>4. /\ At(t, "initial") => p \in {"initial", "initialSigned"}
      /\ At(t, "store") => p = IF full THEN "upload" ELSE "store"
      /\ tab[t].pc \in {"initial", "store"}
  BY DEF At
<1>5. tab'[t] = r
  BY <1>1 DEF Typed, TabsTyped
<1>. HIDE DEF r, p
<1>6. \A j \in DOMAIN private : j \in DOMAIN private' /\ private'[j] = private[j]
  <2>. HIDE DEF i
  <2>. QED  BY <1>1, PutKeeps
<1>7. r.pc \in HasIdentity => r.identity = identity
  BY <1>3, <1>4 DEF At, SignedOK, HasIdentity
<1>8. r.pc \in HasSignedKey => HasSigned(SignedOf(t))'
  <2>1. SUFFICES ASSUME At(t, "store") PROVE HasSigned(SignedOf(t))'
    BY <1>3, <1>4 DEF At, HasSignedKey
  <2>2. HasSigned(SignedOf(t))
    BY <2>1 DEF SignedOK, At
  <2>3. SignedOf(t)' = SignedOf(t)
    BY <1>3, <1>5 DEF SignedOf
  <2>. QED  BY <1>1, <2>2, <2>3 DEF HasSigned
<1>9. ASSUME NEW j \in StoredIds(t)' PROVE j \in DOMAIN private' /\ private'[j] = r.batch
  <2>1. At(t, "store")
    BY <1>3, <1>4, <1>5 DEF StoredIds, At
  <2>2. b = tab[t].batch
    BY <2>1 DEF At
  <2>3. j = i \/ j \in tab[t].first .. tab[t].first + tab[t].stored - 1
    <3>1. CASE full
      <4>1. StoredIds(t)' = tab[t].first .. tab[t].first + BatchSize - 1
        BY <1>3, <1>4, <1>5, <2>1, <3>1 DEF StoredIds, At
      <4>. QED  BY <1>2, <2>1, <3>1, <4>1
    <3>2. CASE ~full
      <4>1. StoredIds(t)' = tab[t].first .. tab[t].first + n - 1 /\ n = tab[t].stored + 1
        BY <1>3, <1>4, <1>5, <2>1, <3>2 DEF StoredIds, At
      <4>. QED  BY <1>2, <2>1, <3>2, <4>1
    <3>. QED  BY <3>1, <3>2
  <2>4. CASE j = i
    <3>. HIDE DEF i
    <3>. QED  BY <1>1, <1>3, <2>2, <2>4 DEF Put
  <2>5. CASE j \in tab[t].first .. tab[t].first + tab[t].stored - 1
    <3>1. j \in StoredIds(t)
      BY <2>1, <2>5 DEF StoredIds, At
    <3>2. j \in DOMAIN private /\ private[j] = tab[t].batch
      BY <3>1 DEF OneTimeOK
    <3>. QED  BY <1>3, <1>6, <3>2
  <2>. QED  BY <2>3, <2>4, <2>5
<1>. HIDE DEF i
<1>. QED  BY <1>1, <1>6, <1>7, <1>8, <1>9, TabKeepsMessages DEF server, mail

\* An identity that was missing was needed by nothing.
LEMMA FirstIdentityKeeps ==
    ASSUME Typed, SignedOK, OneTimeOK, NEW t \in Tabs, StoreIdentity(t), ~clobbered'
    PROVE  SignedOK' /\ OneTimeOK'
<1>1. /\ identity = 0 /\ UNCHANGED <<server, private, signed, mail>>
      /\ tab' = [tab EXCEPT ![t].pc = "register"]
      /\ tab \in [Tabs -> TabRec] /\ \A u \in Tabs : StepOK(tab[u])
      /\ signedKey \in SignedKeys \cup {NoSigned} /\ inbox \subseteq Firsts
      /\ \A f \in Fetches : FetchOK(f)
  BY DEF StoreIdentity, Go, Typed, TabsTyped, BrowserTyped, ServerTyped, MailTyped
<1>2. \A s \in SignedKeys : ~HasSigned(s)
  BY <1>1 DEF SignedKeys, HasSigned, Batches
<1>3. inbox = {} /\ signedKey = NoSigned /\ \A f \in Fetches : fetch[f].seen = <<>>
  BY <1>1, <1>2 DEF SignedOK, FetchOK, Firsts
<1>4. \A u \in Tabs : tab[u].pc \notin HasIdentity
  BY <1>1 DEF SignedOK, StepOK, HasIdentity, Batches
<1>5. \A u \in Tabs : tab'[u].pc \notin HasIdentity
  BY <1>1, <1>4 DEF HasIdentity, TabRec
<1>6. SignedOK'
  BY <1>1, <1>3, <1>5 DEF SignedOK, HasIdentity, server, mail
<1>7. OneTimeOK'
  <2>1. \A u \in Tabs : StoredIds(u)' = {}
    BY <1>5 DEF StoredIds, At, HasIdentity
  <2>. QED  BY <1>1, <2>1 DEF OneTimeOK, HasPrivate, server, mail
<1>. QED  BY <1>6, <1>7

LEMMA InitializeKeeps ==
    ASSUME Typed, SignedOK, OneTimeOK, NEW t \in Tabs, Initialize(t), ~clobbered'
    PROVE  SignedOK' /\ OneTimeOK'
<1>1. tab \in [Tabs -> TabRec] /\ tab[t] \in TabRec
  BY DEF Typed, TabsTyped
<1>2. ASSUME NEW r, tab' = [tab EXCEPT ![t] = r], UNCHANGED <<server, inbox, private, identity>>,
             \A i \in DOMAIN signed : i \in DOMAIN signed' /\ signed'[i] = signed[i],
             r.pc \in {"identity", "assemble", "initial"}
      PROVE  SignedOK' /\ OneTimeOK'
  <2>1. r.pc \notin HasIdentity /\ r.pc \notin HasSignedKey
    BY <1>2 DEF HasIdentity, HasSignedKey
  <2>2. StoredIds(t)' = {}
    BY <1>1, <1>2 DEF StoredIds, At, Typed, TabsTyped
  <2>. QED  BY <1>2, <2>1, <2>2, TabKeepsMessages DEF server
<1>3. CASE Open(t)
  <2>. DEFINE pc == IF identity = 0 THEN "identity" ELSE "assemble"
              r == [tab[t] EXCEPT !.batch = batches + 1, !.pc = pc]
  <2>1. tab' = [tab EXCEPT ![t] = r] /\ UNCHANGED <<server, browser, mail>>
    BY <1>1, <1>3 DEF Open
  <2>2. pc \in {"identity", "assemble"}
    OBVIOUS
  <2>. HIDE DEF pc
  <2>3. r.pc \in {"identity", "assemble"}
    BY <1>1, <2>2 DEF TabRec
  <2>. HIDE DEF r
  <2>. QED  BY <1>2, <2>1, <2>3 DEF browser, mail
<1>4. CASE StoreRegistration(t)
  <2>. DEFINE r == [tab[t] EXCEPT !.pc = "initial", !.first = 1]
  <2>1. tab' = [tab EXCEPT ![t] = r] /\ r.pc = "initial"
    BY <1>1, <1>4 DEF StoreRegistration, TabRec
  <2>. HIDE DEF r
  <2>. QED  BY <1>2, <1>4, <2>1 DEF StoreRegistration, mail
<1>5. CASE StoreInitial(t)
  BY <1>5, StoreNextKeeps DEF StoreInitial
<1>6. CASE StoreInitialSigned(t)
  <2>. DEFINE r == [tab[t] EXCEPT !.pc = "assemble"]
  <2>1. tab' = [tab EXCEPT ![t] = r] /\ r.pc = "assemble"
    BY <1>1, <1>6 DEF StoreInitialSigned, Go, TabRec
  <2>. HIDE DEF r
  <2>2. 1 \notin DOMAIN signed
    BY <1>6 DEF StoreInitialSigned, Typed, BrowserTyped
  <2>3. \A i \in DOMAIN signed : i \in DOMAIN signed' /\ signed'[i] = signed[i]
    BY <1>6, <2>2, PutKeeps DEF StoreInitialSigned
  <2>. QED  BY <1>2, <1>6, <2>1, <2>3 DEF StoreInitialSigned, mail
<1>. QED  BY <1>3, <1>4, <1>5, <1>6, FirstIdentityKeeps DEF Initialize

LEMMA AssembleKeeps ==
    ASSUME Typed, SignedOK, OneTimeOK, NEW t \in Tabs, Assemble(t), ~clobbered'
    PROVE  SignedOK' /\ OneTimeOK'
<1>1. tab \in [Tabs -> TabRec] /\ tab[t] \in TabRec
  BY DEF Typed, TabsTyped
<1>2. ASSUME NEW r, tab' = [tab EXCEPT ![t] = r], UNCHANGED <<server, inbox, private, identity>>,
             \A i \in DOMAIN signed : i \in DOMAIN signed' /\ signed'[i] = signed[i],
             r.pc \in {"signedIds", "storeSigned", "ids"}, r.identity = identity,
             r.pc = "ids" => HasSigned(SignedOf(t))'
      PROVE  SignedOK' /\ OneTimeOK'
  <2>1. StoredIds(t)' = {}
    BY <1>1, <1>2 DEF StoredIds, At, Typed, TabsTyped
  <2>2. r.pc \in HasSignedKey => HasSigned(SignedOf(t))'
    BY <1>2 DEF HasSignedKey
  <2>3. UNCHANGED <<fetch, inbox, identity, private, pool, signedKey>>
    BY <1>2 DEF server
  <2>4. \A i \in StoredIds(t)' : i \in DOMAIN private' /\ private'[i] = r.batch
    BY <2>1
  <2>. QED  BY <1>2, <2>2, <2>3, <2>4, TabKeepsMessages
<1>3. tab[t].pc \in HasIdentity => tab[t].identity = identity
  BY <1>1 DEF TabRec, SignedOK, HasIdentity
<1>4. CASE ReadIdentity(t)
  <2>. DEFINE r == [tab[t] EXCEPT !.pc = "signedIds", !.identity = identity]
  <2>1. /\ tab' = [tab EXCEPT ![t] = r] /\ r.pc = "signedIds" /\ r.identity = identity
        /\ r.first = tab[t].first
    BY <1>1, <1>4 DEF ReadIdentity, TabRec
  <2>. HIDE DEF r
  <2>2. UNCHANGED <<server, inbox, private, identity, signed>> /\ r.pc # "ids"
    BY <1>4, <2>1 DEF ReadIdentity, browser, mail
  <2>. QED  BY <1>2, <1>3, <2>1, <2>2
<1>5. CASE ReadSignedIds(t)
  <2>. DEFINE n == NextId(DOMAIN signed)
              r == [tab[t] EXCEPT !.pc = "storeSigned", !.signedId = n]
  <2>1. /\ tab' = [tab EXCEPT ![t] = r] /\ r.pc = "storeSigned" /\ r.identity = tab[t].identity
        /\ r.first = tab[t].first /\ tab[t].pc \in HasIdentity
    BY <1>1, <1>5 DEF ReadSignedIds, TabRec, At, HasIdentity
  <2>. HIDE DEF r
  <2>2. UNCHANGED <<server, inbox, private, identity, signed>> /\ r.pc # "ids"
    BY <1>5, <2>1 DEF ReadSignedIds, browser, mail
  <2>. QED  BY <1>2, <1>3, <2>1, <2>2
<1>6. CASE StoreSigned(t)
  <2>. DEFINE r == [tab[t] EXCEPT !.pc = "ids"]
  <2>1. /\ tab' = [tab EXCEPT ![t] = r] /\ r.pc = "ids" /\ r.identity = tab[t].identity
        /\ r.first = tab[t].first /\ r.signedId = tab[t].signedId /\ r.batch = tab[t].batch
        /\ tab[t].pc \in HasIdentity
    BY <1>1, <1>6 DEF StoreSigned, Go, TabRec, At, HasIdentity
  <2>. HIDE DEF r
  <2>2. /\ tab[t].signedId \notin DOMAIN signed
        /\ signed' = Put(signed, tab[t].signedId, tab[t].batch)
    BY <1>6 DEF StoreSigned, Typed, BrowserTyped
  <2>3. \A i \in DOMAIN signed : i \in DOMAIN signed' /\ signed'[i] = signed[i]
    BY <2>2, PutKeeps
  <2>4. HasSigned(SignedOf(t))'
    <3>1. tab[t].signedId \in DOMAIN signed' /\ signed'[tab[t].signedId] = tab[t].batch
      BY <2>2 DEF Put
    <3>2. tab'[t] = r /\ identity' = identity
      BY <1>1, <1>6, <2>1 DEF StoreSigned
    <3>3. SignedOf(t)' = [id |-> tab[t].signedId, batch |-> tab[t].batch, identity |-> identity]
      BY <1>3, <2>1, <3>2 DEF SignedOf
    <3>. QED  BY <3>1, <3>2, <3>3 DEF HasSigned
  <2>. QED  BY <1>2, <1>3, <1>6, <2>1, <2>3, <2>4 DEF StoreSigned, mail
<1>7. CASE ReadIds(t)
  <2>. DEFINE n == NextId(DOMAIN private)
              r == [tab[t] EXCEPT !.pc = "store", !.first = n]
  <2>1. /\ tab' = [tab EXCEPT ![t] = r] /\ r.pc = "store" /\ r.identity = tab[t].identity
        /\ r.first = n /\ r.signedId = tab[t].signedId /\ r.batch = tab[t].batch
        /\ r.stored = tab[t].stored /\ tab[t].pc = "ids" /\ n \in 1..(MaxId - BatchSize + 1)
        /\ UNCHANGED <<server, browser, mail, batches>>
    BY <1>1, <1>7 DEF ReadIds, TabRec, At
  <2>. HIDE DEF r, n
  <2>2. n \in Int
    BY <2>1, IdAssumption, BatchAssumption
  <2>3. HasSigned(SignedOf(t))'
    <3>1. HasSigned(SignedOf(t))
      BY <2>1 DEF SignedOK
    <3>2. tab'[t] = r
      BY <1>1, <2>1
    <3>. QED  BY <2>1, <3>1, <3>2 DEF HasSigned, SignedOf, browser
  <2>4. tab[t].pc \in HasIdentity /\ r.pc \notin {"signedIds", "storeSigned", "ids"}
    BY <2>1 DEF HasIdentity
  <2>5. ASSUME NEW i \in StoredIds(t)' PROVE i \in DOMAIN private' /\ private'[i] = r.batch
    <3>1. tab'[t] = r
      BY <1>1, <2>1
    <3>2. tab[t].stored = 0
      BY <2>1 DEF Typed, TabsTyped, StepOK
    <3>3. StoredIds(t)' = {}
      BY <2>1, <2>2, <3>1, <3>2 DEF StoredIds, At
    <3>. QED  BY <2>5, <3>3
  <2>6. r.identity = identity
    BY <1>3, <2>1, <2>4
  <2>. QED  BY <2>1, <2>3, <2>5, <2>6, TabKeepsMessages DEF server, browser, mail
<1>8. CASE StoreKey(t)
  BY <1>8, StoreNextKeeps DEF StoreKey
<1>. QED  BY <1>4, <1>5, <1>6, <1>7, <1>8 DEF Assemble

\* What is uploaded has its private halves.
LEMMA UploadKeeps ==
    ASSUME Typed, SignedOK, OneTimeOK, NEW t \in Tabs, Upload(t)
    PROVE  SignedOK' /\ OneTimeOK'
<1>1. /\ At(t, "upload") /\ tab' = [tab EXCEPT ![t] = IdleTab] /\ tab \in [Tabs -> TabRec]
      /\ pool' = PoolOf(t) /\ signedKey' = SignedOf(t)
      /\ UNCHANGED <<fetch, handed, browser, mail, batches>>
  BY DEF Upload, Typed, TabsTyped
<1>2. HasSigned(signedKey)'
  <2>1. HasSigned(SignedOf(t))
    BY <1>1 DEF SignedOK, At
  <2>. QED  BY <1>1, <2>1 DEF HasSigned, browser
<1>3. ASSUME NEW i \in DOMAIN pool' PROVE HasPrivate(pool[i])'
  <2>1. /\ i \in 1..BatchSize /\ BatchSize \in Nat
        /\ pool'[i] = [id |-> tab[t].first + i - 1, batch |-> tab[t].batch]
    BY <1>1, <1>3, BatchAssumption DEF PoolOf
  <2>2. tab[t].first \in Int
    BY <1>1, IdAssumption, BatchAssumption DEF Typed, TabsTyped, TabRec, Ids
  <2>3. tab[t].first + i - 1 \in StoredIds(t)
    BY <1>1, <2>1, <2>2 DEF StoredIds, At
  <2>4. LET j == tab[t].first + i - 1 IN j \in DOMAIN private /\ private[j] = tab[t].batch
    BY <2>3 DEF OneTimeOK
  <2>. QED  BY <1>1, <2>1, <2>4 DEF HasPrivate, browser
<1>4. /\ IdleTab.pc \notin HasIdentity /\ IdleTab.pc \notin HasSignedKey
      /\ StoredIds(t)' = {}
  BY <1>1 DEF IdleTab, HasIdentity, HasSignedKey, StoredIds, At
<1>. QED  BY <1>1, <1>2, <1>3, <1>4, TabKeepsMessages DEF browser, mail

LEMMA CloseKeeps ==
    ASSUME Typed, SignedOK, OneTimeOK, NEW t \in Tabs, CloseTab(t)
    PROVE  SignedOK' /\ OneTimeOK'
<1>1. tab' = [tab EXCEPT ![t] = IdleTab] /\ UNCHANGED <<server, browser, mail, batches>>
  BY DEF CloseTab
<1>2. /\ IdleTab.pc \notin HasIdentity /\ IdleTab.pc \notin HasSignedKey
      /\ StoredIds(t)' = {}
  BY <1>1 DEF IdleTab, HasIdentity, HasSignedKey, StoredIds, At, Typed, TabsTyped
<1>. QED  BY <1>1, <1>2, TabKeepsMessages DEF server, browser, mail

\* What stays when only the row, the fetches and the messages change.
LEMMA FetchKeeps ==
    ASSUME SignedOK, OneTimeOK, UNCHANGED <<signedKey, browser, tab>>,
           \A f \in Fetches : fetch'[f].seen # <<>> => HasSigned(fetch'[f].signed),
           \A i \in DOMAIN pool' : HasPrivate(pool'[i]),
           \A m \in inbox' : HasSigned(m.signed) /\ (m.key \in Keys => HasPrivate(m.key))
    PROVE  SignedOK' /\ OneTimeOK'
<1>1. SignedOK'
  BY DEF SignedOK, HasSigned, SignedOf, browser
<1>2. \A t \in Tabs : StoredIds(t)' = StoredIds(t)
  BY DEF StoredIds, At
<1>3. OneTimeOK'
  BY <1>2 DEF OneTimeOK, HasPrivate, browser
<1>. QED  BY <1>1, <1>3

LEMMA FetchesKeep ==
    ASSUME Typed, SignedOK, OneTimeOK, NEW f \in Fetches,
           FetchRead(f) \/ FetchWrite(f) \/ FetchFail(f), ~stale'
    PROVE  SignedOK' /\ OneTimeOK'
<1>1. /\ fetch \in [Fetches -> FetchRec] /\ pool \in Seq(Keys)
      /\ \A g \in Fetches : fetch[g].seen # <<>> => HasSigned(fetch[g].signed)
      /\ \A i \in DOMAIN pool : HasPrivate(pool[i])
      /\ \A m \in inbox : HasSigned(m.signed) /\ (m.key \in Keys => HasPrivate(m.key))
      /\ UNCHANGED <<signedKey, browser, tab>>
  BY DEF Typed, ServerTyped, SignedOK, OneTimeOK, FetchRead, FetchWrite, FetchFail
<1>2. CASE FetchRead(f)
  <2>1. HasSigned(signedKey)
    BY <1>2 DEF FetchRead, SignedOK
  <2>2. CASE pool = <<>>
    <3>. DEFINE m == First(NoKey, signedKey)
    <3>1. HasSigned(m.signed) /\ m.key \notin Keys
      BY <2>1, NoKeyIsNone DEF First
    <3>2. inbox' = inbox \cup {m} /\ fetch' = fetch /\ pool' = pool
      BY <1>2, <2>2 DEF FetchRead
    <3>. HIDE DEF m
    <3>. QED  BY <1>1, <3>1, <3>2, FetchKeeps
  <2>3. CASE pool # <<>>
    <3>. DEFINE r == [seen |-> pool, signed |-> signedKey]
    <3>1. fetch' = [fetch EXCEPT ![f] = r] /\ inbox' = inbox /\ pool' = pool /\ r.signed = signedKey
      BY <1>2, <2>3 DEF FetchRead
    <3>. HIDE DEF r
    <3>2. \A g \in Fetches : fetch'[g].seen # <<>> => HasSigned(fetch'[g].signed)
      BY <1>1, <2>1, <3>1
    <3>. QED  BY <1>1, <3>1, <3>2, FetchKeeps
  <2>. QED  BY <2>2, <2>3
<1>3. fetch' = [fetch EXCEPT ![f] = IdleFetch] =>
         \A g \in Fetches : fetch'[g].seen # <<>> => HasSigned(fetch'[g].signed)
  BY <1>1 DEF IdleFetch
<1>4. CASE FetchWrite(f)
  <2>. DEFINE k == Head(fetch[f].seen)
              m == First(k, fetch[f].signed)
  <2>1. /\ fetch[f].seen = pool /\ pool # <<>> /\ pool' = Tail(pool)
        /\ inbox' = inbox \cup {m} /\ m.key = k /\ m.signed = fetch[f].signed
        /\ fetch' = [fetch EXCEPT ![f] = IdleFetch]
    BY <1>4 DEF FetchWrite, First, Typed, ServerTyped
  <2>2. /\ k = pool[1] /\ 1 \in DOMAIN pool
        /\ \A i \in DOMAIN pool' : i + 1 \in DOMAIN pool /\ pool'[i] = pool[i + 1]
    BY <1>1, <2>1, TakingTheFirst
  <2>. HIDE DEF k, m
  <2>3. HasPrivate(m.key) /\ HasSigned(m.signed)
    BY <1>1, <2>1, <2>2
  <2>4. \A i \in DOMAIN pool' : HasPrivate(pool'[i])
    BY <1>1, <2>2
  <2>5. \A n \in inbox' : HasSigned(n.signed) /\ (n.key \in Keys => HasPrivate(n.key))
    BY <1>1, <2>1, <2>3
  <2>. QED  BY <1>1, <1>3, <2>1, <2>4, <2>5, FetchKeeps
<1>5. CASE FetchFail(f)
  BY <1>1, <1>3, <1>5, FetchKeeps DEF FetchFail, mail
<1>. QED  BY <1>2, <1>4, <1>5

\* A message finds what it needs, and takes away only its own one-time key.
LEMMA DecryptKeeps ==
    ASSUME Typed, PoolOK, InboxOK, SignedOK, OneTimeOK, ~stale, NEW m \in inbox, Decrypt(m)
    PROVE  failed' = failed /\ SignedOK' /\ OneTimeOK'
<1>1. /\ inbox \subseteq Firsts /\ m \in Firsts /\ m.key \in Keys \cup {NoKey}
      /\ DOMAIN private \subseteq Ids /\ pool \in Seq(Keys)
      /\ UNCHANGED <<pool, signedKey, fetch, handed, signed, identity, batches, tab>>
  BY DEF Typed, MailTyped, BrowserTyped, ServerTyped, Firsts, Decrypt, server
<1>2. HasSigned(m.signed) /\ (m.key # NoKey => HasPrivate(m.key))
  BY <1>1 DEF SignedOK, OneTimeOK
<1>3. /\ failed' = failed
      /\ private' = Restrict(private, DOMAIN private \ {m.key.id})
      /\ inbox' = IF Shared(m) THEN inbox ELSE inbox \ {m}
  BY <1>2 DEF Decrypt
<1>4. \A i \in DOMAIN private \ {m.key.id} : i \in DOMAIN private' /\ private'[i] = private[i]
  BY <1>3 DEF Restrict
<1>5. ASSUME NEW i \in DOMAIN private, m.key \in Keys => private[i] # m.key.batch \/ i # m.key.id
      PROVE  i \in DOMAIN private' /\ private'[i] = private[i]
  <2>1. CASE m.key \in Keys
    BY <1>2, <1>4, <1>5, <2>1, NoKeyIsNone DEF HasPrivate
  <2>2. CASE m.key = NoKey
    <3>1. i # m.key.id
      BY <1>1, <2>2 DEF NoKey, Ids
    <3>. QED  BY <1>4, <3>1
  <2>. QED  BY <1>1, <2>1, <2>2
<1>6. ASSUME NEW k \in Keys, HasPrivate(k), k # m.key PROVE HasPrivate(k)'
  <2>1. m.key \in Keys => k.batch # m.key.batch \/ k.id # m.key.id
    BY <1>6 DEF Keys
  <2>. QED  BY <1>5, <1>6, <2>1 DEF HasPrivate
<1>7. m.key \in Keys => handed[m.key] > 0 /\ handed[m.key] <= 1 /\ Published(m.key)
  BY DEF InboxOK, PoolOK
<1>8. ASSUME NEW n \in inbox', n.key \in Keys PROVE HasPrivate(n.key)'
  <2>1. n \in inbox /\ HasPrivate(n.key)
    BY <1>3, <1>8 DEF OneTimeOK
  <2>2. n.key # m.key
    <3>1. SUFFICES ASSUME n.key = m.key PROVE FALSE
      OBVIOUS
    <3>2. n = m
      BY <1>8, <2>1, <3>1 DEF InboxOK
    <3>3. handed[m.key] \in Nat
      BY <1>8, <3>1 DEF Typed, ServerTyped, MaxCount
    <3>4. ~Shared(m)
      BY <1>7, <1>8, <3>1, <3>3, NoKeyIsNone DEF Shared
    <3>. QED  BY <1>3, <1>8, <3>2, <3>4
  <2>. QED  BY <1>6, <1>8, <2>1, <2>2
<1>9. ASSUME NEW i \in DOMAIN pool' PROVE HasPrivate(pool[i])'
  <2>1. pool[i] \in Keys /\ HasPrivate(pool[i]) /\ handed[pool[i]] = 0
    BY <1>1, <1>9, ElementOfSeq DEF OneTimeOK, PoolOK
  <2>2. pool[i] # m.key
    BY <1>7, <2>1
  <2>. QED  BY <1>1, <1>6, <2>1, <2>2
<1>10. ASSUME NEW t \in Tabs, NEW i \in StoredIds(t)'
       PROVE  i \in DOMAIN private' /\ private'[i] = tab'[t].batch
  <2>1. StoredIds(t)' = StoredIds(t)
    BY <1>1 DEF StoredIds, At
  <2>2. i \in DOMAIN private /\ private[i] = tab[t].batch /\ Preparing(t)
    BY <1>10, <2>1 DEF OneTimeOK, StoredIds, At, Preparing
  <2>3. m.key \in Keys => private[i] # m.key.batch
    BY <1>7, <2>2 DEF Published
  <2>. QED  BY <1>1, <1>5, <2>2, <2>3
<1>11. SignedOK'
  BY <1>1, <1>3 DEF SignedOK, HasSigned, SignedOf
<1>12. OneTimeOK'
  BY <1>1, <1>8, <1>9, <1>10 DEF OneTimeOK
<1>. QED  BY <1>3, <1>11, <1>12

LEMMA MessagesNext == Typed /\ PoolOK /\ InboxOK /\ MessagesOK /\ [Next]_vars => MessagesOK'
<1>. SUFFICES ASSUME Typed, PoolOK, InboxOK, MessagesOK, [Next]_vars, ~stale', ~clobbered'
              PROVE  ~failed' /\ SignedOK' /\ OneTimeOK'
  BY DEF MessagesOK
<1>1. stale \in BOOLEAN /\ clobbered \in BOOLEAN
  BY DEF Typed, ServerTyped, BrowserTyped
<1>2. CASE UNCHANGED vars
  <2>1. ~stale /\ ~clobbered /\ ~failed /\ SignedOK /\ OneTimeOK
    BY <1>2 DEF vars, server, browser, MessagesOK
  <2>2. \A t \in Tabs : StoredIds(t)' = StoredIds(t)
    BY <1>2 DEF vars, StoredIds, At
  <2>. QED  BY <1>2, <2>1, <2>2 DEF vars, server, browser, mail, SignedOK, OneTimeOK, HasSigned,
                                    HasPrivate, SignedOf
<1>3. ASSUME NEW t \in Tabs, Initialize(t) \/ Assemble(t) \/ Upload(t) \/ CloseTab(t)
      PROVE  ~failed' /\ SignedOK' /\ OneTimeOK'
  <2>1. UNCHANGED <<stale, failed>> /\ ~clobbered
    BY <1>1, <1>3 DEF Initialize, Assemble, Open, StoreIdentity, StoreRegistration, StoreInitial,
                StoreInitialSigned, ReadIdentity, ReadSignedIds, StoreSigned, ReadIds,
                StoreKey, StoreNext, Upload, CloseTab, server, browser, mail
  <2>2. ~failed /\ SignedOK /\ OneTimeOK
    BY <2>1 DEF MessagesOK
  <2>. QED  BY <1>3, <2>1, <2>2, InitializeKeeps, AssembleKeeps, UploadKeeps, CloseKeeps
<1>4. ASSUME NEW f \in Fetches, FetchRead(f) \/ FetchWrite(f) \/ FetchFail(f)
      PROVE  ~failed' /\ SignedOK' /\ OneTimeOK'
  <2>1. UNCHANGED <<clobbered, failed>> /\ ~stale
    BY <1>1, <1>4 DEF FetchRead, FetchWrite, FetchFail, browser, mail
  <2>2. ~failed /\ SignedOK /\ OneTimeOK
    BY <2>1 DEF MessagesOK
  <2>. QED  BY <1>4, <2>1, <2>2, FetchesKeep
<1>5. ASSUME NEW m \in inbox, Decrypt(m)
      PROVE  ~failed' /\ SignedOK' /\ OneTimeOK'
  <2>1. ~stale /\ ~clobbered
    BY <1>5 DEF Decrypt, server
  <2>. QED  BY <1>5, <2>1, DecryptKeeps DEF MessagesOK
<1>. QED  BY <1>2, <1>3, <1>4, <1>5 DEF Next

\* As long as no fetch has written back a pool that changed since it was read and no
\* tab has put a key over another, every first message finds the identity, the signed
\* key and the one-time key it was made with.
THEOREM FirstMessagesAreDecrypted == Spec => []FirstMessagesDecrypt
<1>1. Init => IInv
  BY TypedInit, PoolInit, InboxInit, MessagesInit DEF IInv
<1>2. IInv /\ [Next]_vars => IInv'
  BY TypedNext, PoolNext, InboxNext, MessagesNext DEF IInv
<1>3. IInv => FirstMessagesDecrypt
  BY DEF IInv, MessagesOK, FirstMessagesDecrypt
<1>. QED  BY <1>1, <1>2, <1>3, PTL DEF Spec

-----------------------------------------------------------------------------
(* The typing indicators                                                   *)

\* A stop that nothing disturbed is being handled, is the last event on its way,
\* or has hidden the indicator.
StopOnItsWay ==
    ~disturbed /\ last = "stop" =>
        \/ \E c \in Busy : call[c].kind = "stop" /\ Busy = {c}
        \/ Busy = {} /\ IF wire = <<>> THEN ~shown ELSE wire[Len(wire)] = "stop"

CallsOK ==
    \A c \in Calls :
        /\ call[c].kind = "stop" => call[c].pc \in {"incr", "expire", "del", "announce"}
        /\ call[c].pc # "idle" => call[c].sock \in Sockets

\* How long ago the window of a counter began.
Age(ttl) == IF ttl = Never THEN 0 ELSE Window - ttl

\* A call has counted the first event of a window and is about to set its end.
Expiring(s, k) ==
    \E c \in Calls : call[c].pc = "expire" /\ call[c].sock = s /\ call[c].kind = k

\* What a counter says has happened since its window began; one without an end was
\* begun in this tick by a call that is about to set it, or is stuck.
CountOK ==
    \A s \in Sockets, k \in Kinds :
        /\ \A a, b \in Ages : a <= b => recent[s][k][a] <= recent[s][k][b]
        /\ s \notin stuck => counter[s][k].n <= recent[s][k][Age(counter[s][k].ttl)]
        /\ Expiring(s, k) => counter[s][k].n <= recent[s][k][0]
        /\ s \notin stuck /\ counter[s][k].n > 0 /\ counter[s][k].ttl = Never =>
              Expiring(s, k)

CallPcs == {"idle", "incr", "expire", "exists", "refresh", "set", "del", "announce"}
CallType == [pc : CallPcs, kind : Kinds, sock : Sockets \cup {NoSocket}]
CounterType == [n : Nat, ttl : Nat]

CounterTypes ==
    /\ counter \in [Sockets -> [Kinds -> CounterType]]
    /\ \A s \in Sockets, k \in Kinds :
          counter[s][k].n \in 0 .. Limit[k] /\ counter[s][k].ttl \in 1 .. Never
    /\ recent \in [Sockets -> [Kinds -> [Ages -> Nat]]]

PlainTypes ==
    /\ conn \in [Sockets -> {"new", "up", "gone"}] /\ pause \in [Sockets -> 0 .. Debounce]
    /\ key \in 0 .. KeyTtl /\ wire \in Seq(Kinds)
    /\ shown \in BOOLEAN /\ timer \in 0 .. NoTimer
    /\ last \in Kinds /\ disturbed \in BOOLEAN
    /\ stuck \subseteq Sockets /\ kicked \subseteq Sockets

CallTypes == call \in [Calls -> CallType]

TypingInv == PlainTypes /\ CallTypes /\ CounterTypes /\ StopOnItsWay /\ CallsOK /\ CountOK

LEMMA TypingConstants ==
    /\ KeyTtl \in Nat \ {0} /\ TimerTtl \in Nat \ {0} /\ Debounce \in Nat \ {0}
    /\ Window \in Nat \ {0} /\ MaxWire \in Nat \ {0}
    /\ Limit \in [Kinds -> Nat \ {0}]
    /\ NoSocket \notin Sockets
    /\ Never = Window + 1 /\ NoTimer = TimerTtl + 1
    /\ Ages = 0 .. Window - 1 /\ 0 \in Ages /\ Window - 1 \in Ages
BY TypingAssumption DEF Never, NoTimer, Ages

LEMMA NothingCounted ==
    /\ NoCounter \in CounterType /\ NoCounter.n = 0 /\ NoCounter.ttl = Never
    /\ NoCall \in CallType /\ NoCall.pc = "idle" /\ NoCall.kind = "start"
BY TypingConstants DEF NoCounter, CounterType, NoCall, CallType, CallPcs, Kinds

\* Where the age of a counter lies.
LEMMA AgesOf ==
    ASSUME NEW ttl \in 1 .. Never
    PROVE  Age(ttl) \in Ages
BY TypingConstants DEF Age

\* A tick makes the window of a counter one older.
LEMMA AgeAdvances ==
    ASSUME NEW ttl \in 1 .. Never, ttl # 1, ttl # Never
    PROVE  /\ Age(ttl) \in Ages /\ Age(ttl) + 1 \in Ages
           /\ Age(ttl - 1) = Age(ttl) + 1 /\ ttl - 1 # Never
<1>1. /\ Window \in Nat /\ Never = Window + 1 /\ Ages = 0 .. Window - 1
      /\ ttl \in 2 .. Window
  BY TypingConstants
<1>2. Age(ttl) = Window - ttl /\ Age(ttl - 1) = Window - (ttl - 1)
  BY <1>1 DEF Age
<1>. QED  BY <1>1, <1>2

LEMMA TypingInitInv ==
    ASSUME TypingInit
    PROVE  TypingInv
<1>. USE TypingConstants
<1>1. PlainTypes
  <2>1. wire \in Seq(Kinds)
    BY EmptySeq DEF TypingInit
  <2>2. last \in Kinds
    BY DEF TypingInit, Kinds
  <2>3. timer \in 0 .. NoTimer /\ key \in 0 .. KeyTtl
    BY DEF TypingInit
  <2>4. /\ conn \in [Sockets -> {"new", "up", "gone"}] /\ pause \in [Sockets -> 0 .. Debounce]
        /\ stuck \subseteq Sockets /\ kicked \subseteq Sockets
    BY DEF TypingInit
  <2>5. shown \in BOOLEAN /\ disturbed \in BOOLEAN
    BY DEF TypingInit
  <2>. QED  BY <2>1, <2>2, <2>3, <2>4, <2>5, ZenonT(30) DEF PlainTypes
<1>2. CallTypes
  BY NothingCounted DEF TypingInit, CallTypes
<1>3. /\ counter = [s \in Sockets |-> [k \in Kinds |-> NoCounter]]
      /\ recent = [s \in Sockets |-> [k \in Kinds |-> [age \in Ages |-> 0]]]
      /\ call = [c \in Calls |-> NoCall]
  BY DEF TypingInit
<1>4. CounterTypes
  BY <1>3, NothingCounted DEF CounterTypes
<1>5. StopOnItsWay
  BY <1>3, NothingCounted DEF TypingInit, StopOnItsWay, Busy
<1>6. CallsOK
  BY <1>3, NothingCounted DEF CallsOK
<1>7. CountOK
  <2>. SUFFICES ASSUME NEW s \in Sockets, NEW k \in Kinds
                PROVE  /\ \A a, b \in Ages : a <= b => recent[s][k][a] <= recent[s][k][b]
                       /\ counter[s][k].n <= recent[s][k][Age(counter[s][k].ttl)]
                       /\ counter[s][k].n = 0 /\ recent[s][k][0] = 0
    BY DEF CountOK
  <2>. QED  BY <1>3, NothingCounted DEF Age
<1>. QED  BY <1>1, <1>2, <1>4, <1>5, <1>6, <1>7 DEF TypingInv

-----------------------------------------------------------------------------
(* What a step does to the calls                                           *)

LEMMA GotoEffect ==
    ASSUME CallTypes, NEW c \in Calls, NEW pc \in CallPcs, Goto(c, pc)
    PROVE  /\ CallTypes'
           /\ \A d \in Calls \ {c} : call'[d] = call[d]
           /\ call'[c].pc = pc /\ call'[c].kind = call[c].kind /\ call'[c].sock = call[c].sock
BY DEF CallTypes, CallType, Goto

LEMMA ReturnEffect ==
    ASSUME CallTypes, NEW c \in Calls, Return(c)
    PROVE  /\ CallTypes'
           /\ \A d \in Calls \ {c} : call'[d] = call[d]
           /\ call'[c] = NoCall
           /\ call'[c].pc = "idle" /\ call'[c].kind = "start"
<1>1. /\ CallTypes'
      /\ \A d \in Calls \ {c} : call'[d] = call[d]
      /\ call'[c] = NoCall
  BY NothingCounted DEF CallTypes, Return
<1>. QED  BY <1>1, NothingCounted

\* A call that goes on is still the only one that is handled, or one of them.
LEMMA GoesOn ==
    ASSUME CallTypes, NEW c \in Calls, NEW pc \in CallPcs \ {"idle"}, Goto(c, pc),
           call[c].pc # "idle", StopOnItsWay, UNCHANGED <<wire, shown, last, disturbed>>
    PROVE  StopOnItsWay'
<1>1. Busy' = Busy
  BY GotoEffect DEF Busy
<1>2. \A d \in Calls : call'[d].kind = call[d].kind
  BY GotoEffect
<1>. QED  BY <1>1, <1>2 DEF StopOnItsWay, Busy

\* A call that returns without a word was not the stop.
LEMMA GoesHome ==
    ASSUME CallTypes, NEW c \in Calls, Return(c), call[c].pc # "idle",
           call[c].kind # "stop", StopOnItsWay, UNCHANGED <<wire, shown, last, disturbed>>
    PROVE  StopOnItsWay'
<1>1. c \in Busy
  BY DEF Busy
<1>2. ~(~disturbed /\ last = "stop")
  BY <1>1 DEF StopOnItsWay
<1>. QED  BY <1>2 DEF StopOnItsWay

LEMMA StopFrame ==
    ASSUME StopOnItsWay, UNCHANGED <<call, wire, shown, last, disturbed>>
    PROVE  StopOnItsWay'
BY DEF StopOnItsWay, Busy

\* Where a stop goes: it counts, and then it deletes and announces.
LEMMA CallsFrame ==
    ASSUME CallTypes, CallsOK, NEW c \in Calls, NEW pc \in CallPcs \ {"idle"}, Goto(c, pc),
           call[c].pc # "idle",
           call[c].kind = "stop" => pc \in {"incr", "expire", "del", "announce"}
    PROVE  CallsOK'
BY GotoEffect DEF CallsOK

LEMMA CallsReturn ==
    ASSUME CallTypes, CallsOK, NEW c \in Calls, Return(c)
    PROVE  CallsOK'
BY ReturnEffect DEF CallsOK

\* Only expire itself begins and ends the setting of an end.
LEMMA ExpiringFrame ==
    ASSUME NEW c \in Calls, call[c].pc # "expire", call'[c].pc # "expire",
           \A d \in Calls \ {c} : call'[d] = call[d]
    PROVE  \A s \in Sockets, k \in Kinds : Expiring(s, k)' <=> Expiring(s, k)
BY DEF Expiring

LEMMA CountFrame ==
    ASSUME CountOK, UNCHANGED <<counter, recent>>, stuck \subseteq stuck',
           \A s \in Sockets, k \in Kinds : Expiring(s, k)' <=> Expiring(s, k)
    PROVE  CountOK'
<1>. SUFFICES ASSUME NEW s \in Sockets, NEW k \in Kinds
              PROVE  /\ \A a, b \in Ages : a <= b => recent'[s][k][a] <= recent'[s][k][b]
                     /\ s \notin stuck' =>
                           counter'[s][k].n <= recent'[s][k][Age(counter'[s][k].ttl)]
                     /\ Expiring(s, k)' => counter'[s][k].n <= recent'[s][k][0]
                     /\ s \notin stuck' /\ counter'[s][k].n > 0 /\ counter'[s][k].ttl = Never =>
                           Expiring(s, k)'
  BY DEF CountOK, Age
<1>. QED  BY DEF CountOK

\* A step that leaves the limiter alone.
LEMMA CountStays ==
    ASSUME CountOK, UNCHANGED <<call, counter, recent, stuck>>
    PROVE  CountOK'
<1>1. \A s \in Sockets, k \in Kinds : Expiring(s, k)' <=> Expiring(s, k)
  BY DEF Expiring
<1>. QED  BY <1>1, CountFrame

LEMMA CounterTypesFrame ==
    ASSUME CounterTypes, UNCHANGED <<counter, recent>>
    PROVE  CounterTypes'
BY DEF CounterTypes

-----------------------------------------------------------------------------
(* The limiter                                                             *)

\* An event counted makes every age of its kind one richer, and nothing else.
LEMMA RecentEffect ==
    ASSUME CounterTypes, NEW s \in Sockets, NEW k \in Kinds,
           recent' = [recent EXCEPT ![s][k] = [age \in Ages |-> recent[s][k][age] + 1]]
    PROVE  /\ recent' \in [Sockets -> [Kinds -> [Ages -> Nat]]]
           /\ \A a \in Ages : recent'[s][k][a] = recent[s][k][a] + 1
           /\ \A t \in Sockets, x \in Kinds : t # s \/ x # k => recent'[t][x] = recent[t][x]
<1>. DEFINE richer == [age \in Ages |-> recent[s][k][age] + 1]
<1>1. richer \in [Ages -> Nat]
  BY DEF CounterTypes
<1>2. \A a \in Ages : richer[a] = recent[s][k][a] + 1
  OBVIOUS
<1>. HIDE DEF richer
<1>3. recent' = [recent EXCEPT ![s][k] = richer]
  BY DEF richer
<1>. QED  BY <1>1, <1>2, <1>3 DEF CounterTypes

\* One counter gets a new value.
LEMMA CounterEffect ==
    ASSUME CounterTypes, NEW s \in Sockets, NEW k \in Kinds, NEW over \in CounterType,
           over.n \in 0 .. Limit[k], over.ttl \in 1 .. Never,
           counter' = [counter EXCEPT ![s][k] = over]
    PROVE  /\ counter' \in [Sockets -> [Kinds -> CounterType]]
           /\ counter'[s][k] = over
           /\ \A t \in Sockets, x \in Kinds : t # s \/ x # k => counter'[t][x] = counter[t][x]
           /\ \A t \in Sockets, x \in Kinds :
                 counter'[t][x].n \in 0 .. Limit[x] /\ counter'[t][x].ttl \in 1 .. Never
<1>1. /\ counter' \in [Sockets -> [Kinds -> CounterType]]
      /\ counter'[s][k] = over
      /\ \A t \in Sockets, x \in Kinds : t # s \/ x # k => counter'[t][x] = counter[t][x]
  BY DEF CounterTypes
<1>. QED  BY <1>1 DEF CounterTypes

\* The keys of a connection that ends.
LEMMA ForgetEffect ==
    ASSUME CounterTypes, NEW s \in Sockets,
           counter' = [counter EXCEPT ![s] = [k \in Kinds |-> NoCounter]]
    PROVE  /\ counter' \in [Sockets -> [Kinds -> CounterType]]
           /\ \A k \in Kinds : counter'[s][k] = NoCounter
           /\ \A t \in Sockets \ {s} : counter'[t] = counter[t]
           /\ \A t \in Sockets, x \in Kinds :
                 counter'[t][x].n \in 0 .. Limit[x] /\ counter'[t][x].ttl \in 1 .. Never
<1>1. /\ counter' \in [Sockets -> [Kinds -> CounterType]]
      /\ \A k \in Kinds : counter'[s][k] = NoCounter
      /\ \A t \in Sockets \ {s} : counter'[t] = counter[t]
  BY NothingCounted DEF CounterTypes
<1>. QED  BY <1>1, NothingCounted, TypingConstants DEF CounterTypes

LEMMA LimitCounts ==
    ASSUME CallTypes, CounterTypes, CallsOK, CountOK, NEW c \in Calls,
           call[c].pc = "incr", CheckLimit(c)
    PROVE  CounterTypes' /\ CountOK'
<1>1. PICK s \in Sockets, k \in Kinds : s = call[c].sock /\ k = call[c].kind
  BY DEF CallsOK, CallTypes, CallType
<1>0. PICK n \in Nat : n = counter[s][k].n + 1
  BY <1>1 DEF CounterTypes, CounterType
<1>2. recent' = [recent EXCEPT ![s][k] = [age \in Ages |-> recent[s][k][age] + 1]]
  BY <1>1 DEF CheckLimit
<1>3. /\ recent' \in [Sockets -> [Kinds -> [Ages -> Nat]]]
      /\ \A a \in Ages : recent'[s][k][a] = recent[s][k][a] + 1
      /\ \A t \in Sockets, x \in Kinds : t # s \/ x # k => recent'[t][x] = recent[t][x]
  BY <1>2, RecentEffect
<1>4. \A t \in Sockets, x \in Kinds :
         /\ \A a, b \in Ages : a <= b => recent'[t][x][a] <= recent'[t][x][b]
         /\ \A a \in Ages : recent[t][x][a] <= recent'[t][x][a]
  <2>. TAKE t \in Sockets, x \in Kinds
  <2>1. recent[t][x] \in [Ages -> Nat] /\ recent'[t][x] \in [Ages -> Nat]
    BY <1>3 DEF CounterTypes
  <2>2. \A a, b \in Ages : a <= b => recent[t][x][a] <= recent[t][x][b]
    BY DEF CountOK
  <2>3. CASE t = s /\ x = k
    BY <1>3, <2>1, <2>2, <2>3
  <2>4. CASE t # s \/ x # k
    BY <1>3, <2>1, <2>2, <2>4
  <2>. QED  BY <2>3, <2>4
<1>5. stuck' = stuck
  BY DEF CheckLimit
<1>6. \A t \in Sockets, x \in Kinds :
         /\ counter[t][x].n \in Nat /\ counter[t][x].ttl \in 1 .. Never
         /\ Age(counter[t][x].ttl) \in Ages
  BY AgesOf DEF CounterTypes, CounterType
<1>7. CASE n <= Limit[k]
  <2>. Limit[k] \in Nat /\ ~(n > Limit[k])
    BY <1>7, TypingConstants
  <2>1. /\ counter' = [counter EXCEPT ![s][k].n = n]
        /\ Goto(c, IF n = 1 THEN "expire" ELSE AfterLimit[k])
    BY <1>1, <1>0 DEF CheckLimit
  <2>2. n \in 0 .. Limit[k]
    BY <1>7
  <2>3. PICK over \in CounterType : over = [counter[s][k] EXCEPT !.n = n]
    <3>1. counter[s][k] \in CounterType
      BY DEF CounterTypes
    <3>2. [counter[s][k] EXCEPT !.n = n] \in CounterType
      BY <3>1 DEF CounterType
    <3>. QED  BY <3>2
  <2>4. over.n = n /\ over.ttl = counter[s][k].ttl
    BY <2>3 DEF CounterTypes, CounterType
  <2>5. counter' = [counter EXCEPT ![s][k] = over]
    BY <2>1, <2>3
  <2>6. over.n \in 0 .. Limit[k] /\ over.ttl \in 1 .. Never
    BY <1>6, <2>2, <2>4
  <2>7. /\ counter' \in [Sockets -> [Kinds -> CounterType]]
        /\ counter'[s][k] = over
        /\ \A t \in Sockets, x \in Kinds : t # s \/ x # k => counter'[t][x] = counter[t][x]
        /\ \A t \in Sockets, x \in Kinds :
              counter'[t][x].n \in 0 .. Limit[x] /\ counter'[t][x].ttl \in 1 .. Never
    BY <2>5, <2>6, CounterEffect
  <2>8. /\ counter' \in [Sockets -> [Kinds -> CounterType]]
        /\ counter'[s][k].n = n /\ counter'[s][k].ttl = counter[s][k].ttl
        /\ \A t \in Sockets, x \in Kinds : t # s \/ x # k => counter'[t][x] = counter[t][x]
        /\ \A t \in Sockets, x \in Kinds :
              counter'[t][x].n \in 0 .. Limit[x] /\ counter'[t][x].ttl \in 1 .. Never
    BY <2>4, <2>7
  <2>9. CounterTypes'
    <3>1. /\ counter' \in [Sockets -> [Kinds -> CounterType]]
          /\ \A t \in Sockets, x \in Kinds :
                counter'[t][x].n \in 0 .. Limit[x] /\ counter'[t][x].ttl \in 1 .. Never
      BY <2>8
    <3>. QED  BY <1>3, <3>1 DEF CounterTypes
  <2>10. AfterLimit[k] \in CallPcs \ {"idle", "expire"}
    BY <1>1 DEF AfterLimit, Kinds, CallPcs
  <2>11. /\ \A d \in Calls \ {c} : call'[d] = call[d]
        /\ call'[c].pc = (IF n = 1 THEN "expire" ELSE AfterLimit[k])
        /\ call'[c].kind = k /\ call'[c].sock = s
    <3>1. (IF n = 1 THEN "expire" ELSE AfterLimit[k]) \in CallPcs
      BY <2>10 DEF CallPcs
    <3>. QED  BY <2>1, <3>1, GotoEffect, <1>1
  <2>12. \A t \in Sockets, x \in Kinds : t # s \/ x # k => (Expiring(t, x)' <=> Expiring(t, x))
    BY <2>11 DEF Expiring
  <2>13. Expiring(s, k)' <=> Expiring(s, k) \/ n = 1
    <3>1. CASE n = 1
      <4>1. call'[c].pc = "expire"
        BY <2>11, <3>1
      <4>2. Expiring(s, k)'
        BY <2>11, <4>1 DEF Expiring
      <4>. QED  BY <4>2, <3>1
    <3>2. CASE n # 1
      <4>1. call'[c].pc # "expire"
        BY <2>10, <2>11, <3>2
      <4>2. Expiring(s, k)' <=> Expiring(s, k)
        BY <1>1, <2>11, <4>1, ExpiringFrame
      <4>. QED  BY <3>2, <4>2
    <3>. QED  BY <3>1, <3>2
  <2>14. CountOK'
    <3>. SUFFICES ASSUME NEW t \in Sockets, NEW x \in Kinds
                  PROVE  /\ t \notin stuck =>
                               counter'[t][x].n <= recent'[t][x][Age(counter'[t][x].ttl)]
                         /\ Expiring(t, x)' => counter'[t][x].n <= recent'[t][x][0]
                         /\ t \notin stuck /\ counter'[t][x].n > 0 /\ counter'[t][x].ttl = Never =>
                               Expiring(t, x)'
      BY <1>4, <1>5 DEF CountOK, Age
    <3>1. CASE t = s /\ x = k
      <4>1. recent[s][k] \in [Ages -> Nat]
        BY <1>1 DEF CounterTypes
      <4>2. 0 \in Ages /\ Age(counter[s][k].ttl) \in Ages
        BY <1>1, <1>6, TypingConstants
      <4>3. /\ recent'[s][k][Age(counter[s][k].ttl)] = recent[s][k][Age(counter[s][k].ttl)] + 1
            /\ recent'[s][k][0] = recent[s][k][0] + 1
        BY <1>3, <4>2
      <4>4. /\ s \notin stuck => counter[s][k].n <= recent[s][k][Age(counter[s][k].ttl)]
            /\ Expiring(s, k) => counter[s][k].n <= recent[s][k][0]
            /\ s \notin stuck /\ counter[s][k].n > 0 /\ counter[s][k].ttl = Never => Expiring(s, k)
        BY <1>1 DEF CountOK
      <4>5. n = counter[s][k].n + 1 /\ counter[s][k].n \in Nat
        BY <1>6, <1>0
      <4>6. counter'[s][k].n = n /\ counter'[s][k].ttl = counter[s][k].ttl
        BY <2>8
      <4>7. recent[s][k][0] \in Nat /\ recent[s][k][Age(counter[s][k].ttl)] \in Nat
        BY <4>1, <4>2
      <4>8. n = 1 \/ counter[s][k].n > 0
        BY <4>5
      <4>9. /\ counter'[s][k].n = counter[s][k].n + 1
            /\ s \notin stuck => counter'[s][k].n <= recent'[s][k][Age(counter'[s][k].ttl)]
        BY <4>3, <4>4, <4>5, <4>6, <4>7
      <4>10. Expiring(s, k)' => counter'[s][k].n <= recent'[s][k][0]
        BY <2>13, <4>3, <4>4, <4>5, <4>6, <4>7
      <4>11. s \notin stuck /\ counter'[s][k].ttl = Never => Expiring(s, k)'
        BY <2>13, <4>4, <4>6, <4>8
      <4>. QED  BY <3>1, <4>9, <4>10, <4>11
    <3>2. CASE t # s \/ x # k
      BY <3>2, <1>3, <2>8, <2>12 DEF CountOK
    <3>. QED  BY <3>1, <3>2
  <2>. QED  BY <2>9, <2>14
<1>8. CASE ~(n <= Limit[k])
  <2>1. /\ counter' = [counter EXCEPT ![s] = [x \in Kinds |-> NoCounter]]
        /\ Return(c)
    BY <1>1, <1>8, <1>0 DEF CheckLimit
  <2>2. /\ counter' \in [Sockets -> [Kinds -> CounterType]]
        /\ \A x \in Kinds : counter'[s][x] = NoCounter
        /\ \A t \in Sockets \ {s} : counter'[t] = counter[t]
        /\ \A t \in Sockets, x \in Kinds :
              counter'[t][x].n \in 0 .. Limit[x] /\ counter'[t][x].ttl \in 1 .. Never
    BY <1>1, <2>1, ForgetEffect
  <2>3. CounterTypes'
    <3>1. /\ counter' \in [Sockets -> [Kinds -> CounterType]]
          /\ \A t \in Sockets, x \in Kinds :
                counter'[t][x].n \in 0 .. Limit[x] /\ counter'[t][x].ttl \in 1 .. Never
      BY <2>2
    <3>. QED  BY <1>3, <3>1 DEF CounterTypes
  <2>4. \A t \in Sockets, x \in Kinds : Expiring(t, x)' <=> Expiring(t, x)
    BY <2>1, ReturnEffect, ExpiringFrame
  <2>5. CountOK'
    <3>. SUFFICES ASSUME NEW t \in Sockets, NEW x \in Kinds
                  PROVE  /\ t \notin stuck =>
                               counter'[t][x].n <= recent'[t][x][Age(counter'[t][x].ttl)]
                         /\ Expiring(t, x) => counter'[t][x].n <= recent'[t][x][0]
                         /\ t \notin stuck /\ counter'[t][x].n > 0 /\ counter'[t][x].ttl = Never =>
                               Expiring(t, x)
      BY <1>4, <1>5, <2>4 DEF CountOK, Age
    <3>1. recent'[t][x] \in [Ages -> Nat] /\ recent[t][x] \in [Ages -> Nat]
      BY <1>3 DEF CounterTypes
    <3>2. CASE t = s
      <4>1. counter'[t][x].n = 0 /\ counter'[t][x].ttl = Never
        BY <2>2, <3>2, NothingCounted
      <4>2. Age(counter'[t][x].ttl) = 0 /\ recent'[t][x][0] \in Nat
        BY <4>1, <3>1, TypingConstants DEF Age
      <4>. QED  BY <4>1, <4>2
    <3>3. CASE t # s
      BY <3>3, <1>3, <2>2 DEF CountOK
    <3>. QED  BY <3>2, <3>3
  <2>. QED  BY <2>3, <2>5
<1>. QED  BY <1>7, <1>8

LEMMA EndSet ==
    ASSUME CallTypes, CounterTypes, CallsOK, CountOK, NEW c \in Calls, ExpireCounter(c)
    PROVE  CounterTypes' /\ CountOK'
<1>1. PICK s \in Sockets, k \in Kinds : s = call[c].sock /\ k = call[c].kind
  BY DEF CallsOK, CallTypes, CallType, ExpireCounter
<1>2. PICK ttl : ttl = IF counter[s][k].n = 0 THEN Never ELSE Window
  OBVIOUS
<1>3. ttl \in 1 .. Never /\ Window # Never /\ Window \in Nat /\ Never \in Nat
  BY <1>2, TypingConstants
<1>4. /\ call[c].pc = "expire"
      /\ counter' = [counter EXCEPT ![s][k].ttl = ttl]
      /\ Goto(c, AfterLimit[k])
      /\ recent' = recent /\ stuck' = stuck
  BY <1>1, <1>2 DEF ExpireCounter, limits
<1>5. PICK over \in CounterType : over = [counter[s][k] EXCEPT !.ttl = ttl]
  <2>1. counter[s][k] \in CounterType /\ ttl \in Nat
    BY <1>3 DEF CounterTypes
  <2>2. [counter[s][k] EXCEPT !.ttl = ttl] \in CounterType
    BY <2>1 DEF CounterType
  <2>. QED  BY <2>2
<1>6. over.ttl = ttl /\ over.n = counter[s][k].n
  BY <1>5 DEF CounterTypes, CounterType
<1>7. counter' = [counter EXCEPT ![s][k] = over]
  BY <1>4, <1>5
<1>8. over.n \in 0 .. Limit[k] /\ over.ttl \in 1 .. Never
  BY <1>3, <1>6 DEF CounterTypes
<1>9. /\ counter' \in [Sockets -> [Kinds -> CounterType]]
      /\ counter'[s][k] = over
      /\ \A t \in Sockets, x \in Kinds : t # s \/ x # k => counter'[t][x] = counter[t][x]
      /\ \A t \in Sockets, x \in Kinds :
            counter'[t][x].n \in 0 .. Limit[x] /\ counter'[t][x].ttl \in 1 .. Never
  BY <1>7, <1>8, CounterEffect
<1>10. CounterTypes'
  <2>1. recent' \in [Sockets -> [Kinds -> [Ages -> Nat]]]
    BY <1>4 DEF CounterTypes
  <2>2. /\ counter' \in [Sockets -> [Kinds -> CounterType]]
        /\ \A t \in Sockets, x \in Kinds :
              counter'[t][x].n \in 0 .. Limit[x] /\ counter'[t][x].ttl \in 1 .. Never
    BY <1>9
  <2>. QED  BY <2>1, <2>2 DEF CounterTypes
<1>11. /\ \A d \in Calls \ {c} : call'[d] = call[d]
       /\ call'[c].pc # "expire"
  <2>1. AfterLimit[k] \in CallPcs \ {"expire"}
    BY DEF AfterLimit, Kinds, CallPcs
  <2>. QED  BY <1>4, <2>1, GotoEffect
<1>12. \A t \in Sockets, x \in Kinds :
          /\ Expiring(t, x)' => Expiring(t, x)
          /\ (t # s \/ x # k) => (Expiring(t, x)' <=> Expiring(t, x))
  BY <1>1, <1>4, <1>11 DEF Expiring
<1>13. Expiring(s, k)
  BY <1>1, <1>4 DEF Expiring
<1>14. CountOK'
  <2>. SUFFICES ASSUME NEW t \in Sockets, NEW x \in Kinds
                PROVE  /\ t \notin stuck =>
                             counter'[t][x].n <= recent[t][x][Age(counter'[t][x].ttl)]
                       /\ Expiring(t, x) => counter'[t][x].n <= recent[t][x][0]
                       /\ t \notin stuck /\ counter'[t][x].n > 0 /\ counter'[t][x].ttl = Never =>
                             Expiring(t, x)'
    <3>1. \A t \in Sockets, x \in Kinds :
             \A a, b \in Ages : a <= b => recent'[t][x][a] <= recent'[t][x][b]
      BY <1>4 DEF CountOK
    <3>. QED  BY <1>4, <1>12, <3>1 DEF CountOK, Age
  <2>1. CASE t = s /\ x = k
    <3>1. counter'[s][k].n = counter[s][k].n /\ counter'[s][k].ttl = ttl
      BY <1>6, <1>9
    <3>2. counter[s][k].n <= recent[s][k][0] /\ counter[s][k].n \in Nat
      BY <1>13 DEF CountOK, CounterTypes, CounterType
    <3>3. Age(ttl) = 0
      BY <1>2, <1>3 DEF Age
    <3>4. ttl = Never => counter[s][k].n = 0
      BY <1>2, <1>3
    <3>. QED  BY <2>1, <3>1, <3>2, <3>3, <3>4
  <2>2. CASE t # s \/ x # k
    BY <2>2, <1>9, <1>12 DEF CountOK
  <2>. QED  BY <2>1, <2>2
<1>. QED  BY <1>10, <1>14

\* A connection that ends takes its counters with it.
LEMMA Forgets ==
    ASSUME CounterTypes, CountOK, NEW s \in Sockets, UNCHANGED <<call, recent, stuck>>,
           counter' = [counter EXCEPT ![s] = [k \in Kinds |-> NoCounter]]
    PROVE  CounterTypes' /\ CountOK'
<1>1. /\ counter' \in [Sockets -> [Kinds -> CounterType]]
      /\ \A k \in Kinds : counter'[s][k] = NoCounter
      /\ \A t \in Sockets \ {s} : counter'[t] = counter[t]
      /\ \A t \in Sockets, x \in Kinds :
            counter'[t][x].n \in 0 .. Limit[x] /\ counter'[t][x].ttl \in 1 .. Never
  BY ForgetEffect
<1>2. CounterTypes'
  <2>1. recent' \in [Sockets -> [Kinds -> [Ages -> Nat]]]
    BY DEF CounterTypes
  <2>2. /\ counter' \in [Sockets -> [Kinds -> CounterType]]
        /\ \A t \in Sockets, x \in Kinds :
              counter'[t][x].n \in 0 .. Limit[x] /\ counter'[t][x].ttl \in 1 .. Never
    BY <1>1
  <2>. QED  BY <2>1, <2>2 DEF CounterTypes
<1>3. \A t \in Sockets, x \in Kinds : Expiring(t, x)' <=> Expiring(t, x)
  BY DEF Expiring
<1>4. CountOK'
  <2>. SUFFICES ASSUME NEW t \in Sockets, NEW x \in Kinds
                PROVE  /\ t \notin stuck =>
                             counter'[t][x].n <= recent[t][x][Age(counter'[t][x].ttl)]
                       /\ Expiring(t, x) => counter'[t][x].n <= recent[t][x][0]
                       /\ t \notin stuck /\ counter'[t][x].n > 0 /\ counter'[t][x].ttl = Never =>
                             Expiring(t, x)
    <3>1. \A t \in Sockets, x \in Kinds :
             \A a, b \in Ages : a <= b => recent'[t][x][a] <= recent'[t][x][b]
      BY DEF CountOK
    <3>. QED  BY <1>3, <3>1 DEF CountOK, Age
  <2>1. CASE t = s
    <3>1. counter'[t][x].n = 0 /\ counter'[t][x].ttl = Never
      BY <1>1, <2>1, NothingCounted
    <3>2. Age(counter'[t][x].ttl) = 0 /\ recent[t][x][0] \in Nat
      BY <3>1, TypingConstants DEF Age, CounterTypes
    <3>. QED  BY <3>1, <3>2
  <2>2. CASE t # s
    BY <2>2, <1>1 DEF CountOK
  <2>. QED  BY <2>1, <2>2
<1>. QED  BY <1>2, <1>4

-----------------------------------------------------------------------------
(* Time passes                                                             *)

LEMMA TickCounts ==
    ASSUME CallTypes, CounterTypes, CountOK, Tick
    PROVE  CounterTypes' /\ CountOK'
<1>. DEFINE aged(this) == CASE this.ttl = Never -> this
                            [] this.ttl = 1     -> NoCounter
                            [] OTHER            -> [this EXCEPT !.ttl = @ - 1]
            older(r) == [age \in Ages |-> IF age = 0 THEN 0 ELSE r[age - 1]]
<1>1. /\ counter' = [s \in Sockets |-> [k \in Kinds |-> aged(counter[s][k])]]
      /\ recent' = [s \in Sockets |-> [k \in Kinds |-> older(recent[s][k])]]
      /\ UNCHANGED <<call, stuck>>
      /\ \A c \in Calls : call[c].pc # "expire"
  BY DEF Tick
<1>2. ASSUME NEW this \in CounterType, this.ttl \in 1 .. Never
      PROVE  /\ aged(this) \in CounterType
             /\ aged(this).n <= this.n /\ aged(this).ttl \in 1 .. Never
             /\ this.ttl = Never => aged(this) = this
             /\ this.ttl = 1 => aged(this).n = 0 /\ aged(this).ttl = Never
             /\ this.ttl \notin {1, Never} =>
                   aged(this).n = this.n /\ aged(this).ttl = this.ttl - 1
  <2>. USE TypingConstants
  <2>1. CASE this.ttl = Never
    BY <1>2, <2>1 DEF CounterType
  <2>2. CASE this.ttl = 1
    <3>1. aged(this) = NoCounter
      BY <2>2
    <3>2. this.n \in Nat
      BY DEF CounterType
    <3>. HIDE DEF aged
    <3>. QED  BY <2>2, <3>1, <3>2, NothingCounted
  <2>3. CASE this.ttl \notin {1, Never}
    <3>1. aged(this) = [this EXCEPT !.ttl = this.ttl - 1]
      BY <2>3
    <3>2. this.ttl - 1 \in 1 .. Never /\ this.ttl - 1 \in Nat
      BY <1>2, <2>3
    <3>. HIDE DEF aged
    <3>. QED  BY <2>3, <3>1, <3>2 DEF CounterType
  <2>. QED  BY <2>1, <2>2, <2>3
<1>3. ASSUME NEW r \in [Ages -> Nat]
      PROVE  /\ older(r) \in [Ages -> Nat]
             /\ older(r)[0] = 0
             /\ \A a \in Ages : a + 1 \in Ages => older(r)[a + 1] = r[a]
             /\ (\A a, b \in Ages : a <= b => r[a] <= r[b])
                   => \A a, b \in Ages : a <= b => older(r)[a] <= older(r)[b]
  <2>1. \A a \in Ages : a # 0 => a - 1 \in Ages
    BY TypingConstants
  <2>2. older(r) \in [Ages -> Nat] /\ older(r)[0] = 0
    BY <2>1, TypingConstants
  <2>3. \A a \in Ages : a + 1 \in Ages => older(r)[a + 1] = r[a]
    BY TypingConstants
  <2>4. ASSUME \A a, b \in Ages : a <= b => r[a] <= r[b], NEW a \in Ages, NEW b \in Ages, a <= b
        PROVE  older(r)[a] <= older(r)[b]
    <3>1. older(r)[a] \in Nat /\ older(r)[b] \in Nat
      BY <2>2
    <3>2. CASE a = 0
      BY <2>2, <3>1, <3>2
    <3>3. CASE a # 0
      <4>1. b # 0 /\ a - 1 <= b - 1
        BY <2>4, <3>3, TypingConstants
      <4>2. a - 1 \in Ages /\ b - 1 \in Ages
        BY <2>1, <3>3, <4>1
      <4>3. older(r)[a] = r[a - 1] /\ older(r)[b] = r[b - 1]
        BY <3>3, <4>1
      <4>. QED  BY <2>4, <4>1, <4>2, <4>3
    <3>. QED  BY <3>2, <3>3
  <2>. QED  BY <2>2, <2>3, <2>4
<1>. HIDE DEF aged, older
<1>4. \A s \in Sockets, k \in Kinds :
         /\ counter[s][k] \in CounterType
         /\ counter[s][k].n \in 0 .. Limit[k] /\ counter[s][k].ttl \in 1 .. Never
         /\ recent[s][k] \in [Ages -> Nat]
         /\ counter'[s][k] = aged(counter[s][k]) /\ recent'[s][k] = older(recent[s][k])
  BY <1>1 DEF CounterTypes
<1>5. CounterTypes'
  <2>1. counter' \in [Sockets -> [Kinds -> CounterType]]
    BY <1>1, <1>2, <1>4
  <2>2. recent' \in [Sockets -> [Kinds -> [Ages -> Nat]]]
    BY <1>1, <1>3, <1>4
  <2>3. ASSUME NEW s \in Sockets, NEW k \in Kinds
        PROVE  counter'[s][k].n \in 0 .. Limit[k] /\ counter'[s][k].ttl \in 1 .. Never
    <3>1. counter'[s][k].n \in Nat
      BY <2>1 DEF CounterType
    <3>2. counter'[s][k].n <= counter[s][k].n /\ counter'[s][k].ttl \in 1 .. Never
      BY <1>2, <1>4
    <3>. QED  BY <1>4, <3>1, <3>2, TypingConstants
  <2>. QED  BY <2>1, <2>2, <2>3 DEF CounterTypes
<1>6. \A s \in Sockets, k \in Kinds : ~Expiring(s, k) /\ ~Expiring(s, k)'
  BY <1>1 DEF Expiring
<1>7. CountOK'
  <2>. SUFFICES ASSUME NEW s \in Sockets, NEW k \in Kinds
                PROVE  /\ \A a, b \in Ages : a <= b => recent'[s][k][a] <= recent'[s][k][b]
                       /\ s \notin stuck =>
                             /\ counter'[s][k].n <= recent'[s][k][Age(counter'[s][k].ttl)]
                             /\ ~(counter'[s][k].n > 0 /\ counter'[s][k].ttl = Never)
    BY <1>1, <1>6 DEF CountOK, Age
  <2>1. \A a, b \in Ages : a <= b => recent'[s][k][a] <= recent'[s][k][b]
    BY <1>3, <1>4 DEF CountOK
  <2>2. ASSUME s \notin stuck
        PROVE  /\ counter'[s][k].n <= recent'[s][k][Age(counter'[s][k].ttl)]
               /\ ~(counter'[s][k].n > 0 /\ counter'[s][k].ttl = Never)
    <3>1. /\ counter[s][k].n <= recent[s][k][Age(counter[s][k].ttl)]
          /\ ~(counter[s][k].n > 0 /\ counter[s][k].ttl = Never)
      BY <1>6, <2>2 DEF CountOK
    <3>2. recent'[s][k][0] = 0 /\ Age(Never) = 0
      BY <1>3, <1>4 DEF Age
    <3>3. counter[s][k].n \in Nat /\ counter[s][k].ttl \in 1 .. Never
      BY <1>4 DEF CounterType
    <3>4. CASE counter[s][k].ttl = Never
      BY <1>2, <1>4, <3>1, <3>2, <3>3, <3>4
    <3>5. CASE counter[s][k].ttl = 1
      <4>1. counter'[s][k].n = 0 /\ counter'[s][k].ttl = Never
        BY <1>2, <1>4, <3>5
      <4>. QED  BY <4>1, <3>2
    <3>6. CASE counter[s][k].ttl \notin {1, Never}
      <4>1. counter'[s][k].n = counter[s][k].n /\ counter'[s][k].ttl = counter[s][k].ttl - 1
        BY <1>2, <1>4, <3>6
      <4>2. /\ Age(counter[s][k].ttl) \in Ages /\ Age(counter[s][k].ttl) + 1 \in Ages
            /\ Age(counter[s][k].ttl - 1) = Age(counter[s][k].ttl) + 1
            /\ counter[s][k].ttl - 1 # Never
        BY <3>3, <3>6, AgeAdvances
      <4>3. recent'[s][k][Age(counter[s][k].ttl) + 1] = recent[s][k][Age(counter[s][k].ttl)]
        BY <1>3, <1>4, <4>2
      <4>. QED  BY <3>1, <4>1, <4>2, <4>3
    <3>. QED  BY <3>4, <3>5, <3>6
  <2>. QED  BY <2>1, <2>2
<1>. QED  BY <1>5, <1>7

-----------------------------------------------------------------------------
(* What happens to a stop                                                  *)

LEMMA EmitKeeps ==
    ASSUME CallTypes, CallsOK, StopOnItsWay, NEW s \in Sockets, NEW c \in Calls,
           NEW kind \in Kinds, Emit(s, c, kind), UNCHANGED <<wire, shown>>
    PROVE  CallTypes' /\ CallsOK' /\ StopOnItsWay'
           /\ \A t \in Sockets, x \in Kinds : Expiring(t, x)' <=> Expiring(t, x)
<1>1. /\ call[c].pc = "idle"
      /\ call' = [call EXCEPT ![c] = [pc |-> "incr", kind |-> kind, sock |-> s]]
      /\ last' = kind
      /\ disturbed' = (Busy # {} \/ (disturbed /\ kind = "start"))
  BY DEF Emit, Busy
<1>2. [pc |-> "incr", kind |-> kind, sock |-> s] \in CallType
  BY DEF CallType, CallPcs
<1>3. /\ CallTypes'
      /\ \A d \in Calls \ {c} : call'[d] = call[d]
      /\ call'[c].pc = "incr" /\ call'[c].kind = kind /\ call'[c].sock = s
  BY <1>1, <1>2 DEF CallTypes
<1>4. CallsOK'
  BY <1>3 DEF CallsOK
<1>5. StopOnItsWay'
  <2>. SUFFICES ASSUME ~disturbed', last' = "stop"
                PROVE  \E d \in Busy' : call'[d].kind = "stop" /\ Busy' = {d}
    BY DEF StopOnItsWay
  <2>1. Busy = {} /\ kind = "stop"
    BY <1>1
  <2>2. Busy' = {c}
    BY <1>3, <2>1 DEF Busy
  <2>. QED  BY <1>3, <2>1, <2>2
<1>6. \A t \in Sockets, x \in Kinds : Expiring(t, x)' <=> Expiring(t, x)
  BY <1>1, <1>3, ExpiringFrame
<1>. QED  BY <1>3, <1>4, <1>5, <1>6

\* The stop that is handled alone becomes the last event on its way.
LEMMA AnnounceKeeps ==
    ASSUME PlainTypes, CallTypes, StopOnItsWay, NEW c \in Calls, Announce(c)
    PROVE  StopOnItsWay' /\ wire' \in Seq(Kinds)
<1>1. /\ c \in Busy /\ wire' = Append(wire, call[c].kind)
      /\ Return(c) /\ UNCHANGED <<shown, last, disturbed>>
  BY DEF Announce, Busy, watcher
<1>2. /\ wire' \in Seq(Kinds)
      /\ wire' # <<>> /\ wire'[Len(wire')] = call[c].kind
  <2>1. wire \in Seq(Kinds) /\ call[c].kind \in Kinds
    BY DEF PlainTypes, CallTypes, CallType
  <2>2. /\ Append(wire, call[c].kind) \in Seq(Kinds) /\ Append(wire, call[c].kind) # <<>>
        /\ Len(Append(wire, call[c].kind)) = Len(wire) + 1
        /\ Append(wire, call[c].kind)[Len(wire) + 1] = call[c].kind
    BY <2>1, AppendProperties
  <2>. QED  BY <1>1, <2>2
<1>3. ASSUME ~disturbed, last = "stop"
      PROVE  call[c].kind = "stop" /\ Busy' = {}
  <2>1. call[c].kind = "stop" /\ Busy = {c}
    BY <1>1, <1>3 DEF StopOnItsWay
  <2>2. /\ \A d \in Calls \ {c} : call'[d] = call[d]
        /\ call'[c].pc = "idle"
    BY <1>1, ReturnEffect
  <2>. QED  BY <2>1, <2>2 DEF Busy
<1>4. StopOnItsWay'
  <2>. SUFFICES ASSUME ~disturbed', last' = "stop"
                PROVE  Busy' = {} /\ wire' # <<>> /\ wire'[Len(wire')] = "stop"
    BY DEF StopOnItsWay
  <2>. QED  BY <1>1, <1>2, <1>3
<1>. QED  BY <1>2, <1>4

LEMMA ReceiveKeeps ==
    ASSUME PlainTypes, StopOnItsWay, Receive
    PROVE  /\ StopOnItsWay' /\ wire' \in Seq(Kinds)
           /\ shown' \in BOOLEAN /\ timer' \in 0 .. NoTimer
<1>1. /\ wire \in Seq(Kinds) /\ wire # <<>> /\ wire' = Tail(wire)
      /\ UNCHANGED <<call, last, disturbed>>
  BY DEF Receive, PlainTypes
<1>2. /\ wire' \in Seq(Kinds) /\ Len(wire') = Len(wire) - 1 /\ Head(wire) = wire[1]
      /\ \A i \in 1 .. Len(wire') : wire'[i] = wire[i + 1]
  BY <1>1, HeadTailProperties
<1>3. Len(wire) \in Nat /\ Len(wire) >= 1
  BY <1>1, EmptySeq, LenProperties
<1>4. \/ Head(wire) = "start" /\ SetTyping
      \/ Head(wire) = "stop" /\ Hide
  BY DEF Receive
<1>5. shown' \in BOOLEAN /\ timer' \in 0 .. NoTimer
  <2>1. TimerTtl \in 0 .. NoTimer /\ NoTimer \in 0 .. NoTimer
    BY TypingConstants
  <2>. QED  BY <1>4, <2>1 DEF SetTyping, Hide
<1>6. StopOnItsWay'
  <2>. SUFFICES ASSUME ~disturbed, last = "stop", Busy = {}, wire[Len(wire)] = "stop"
                PROVE  IF wire' = <<>> THEN ~shown' ELSE wire'[Len(wire')] = "stop"
    <3>1. Busy' = Busy /\ \A d \in Calls : call'[d].kind = call[d].kind
      BY <1>1 DEF Busy
    <3>2. ~disturbed /\ last = "stop" =>
             \/ \E d \in Busy : call[d].kind = "stop" /\ Busy = {d}
             \/ Busy = {} /\ wire[Len(wire)] = "stop"
      BY <1>1 DEF StopOnItsWay
    <3>3. \A d \in Busy : d \in Calls
      BY DEF Busy
    <3>. QED  BY <1>1, <3>1, <3>2, <3>3 DEF StopOnItsWay
  <2>1. CASE wire' = <<>>
    <3>1. Len(wire) = 1
      BY <1>2, <1>3, <2>1, EmptySeq
    <3>2. ~shown'
      BY <1>2, <1>4, <3>1 DEF Hide
    <3>. QED  BY <2>1, <3>2
  <2>2. CASE wire' # <<>>
    <3>1. Len(wire') \in 1 .. Len(wire')
      BY <1>2, <2>2, EmptySeq, LenProperties
    <3>2. wire'[Len(wire')] = wire[Len(wire)]
      BY <1>2, <1>3, <3>1
    <3>. QED  BY <2>2, <3>2
  <2>. QED  BY <2>1, <2>2
<1>. QED  BY <1>2, <1>5, <1>6

LEMMA HideKeeps ==
    ASSUME StopOnItsWay, Hide, UNCHANGED <<call, wire, last, disturbed>>
    PROVE  StopOnItsWay' /\ shown' \in BOOLEAN /\ timer' \in 0 .. NoTimer
<1>1. StopOnItsWay'
  BY DEF StopOnItsWay, Hide, Busy
<1>2. shown' \in BOOLEAN /\ timer' \in 0 .. NoTimer
  <2>1. NoTimer \in 0 .. NoTimer
    BY TypingConstants
  <2>. QED  BY <2>1 DEF Hide
<1>. QED  BY <1>1, <1>2

-----------------------------------------------------------------------------
(* The steps                                                               *)

\* A step of a call that leaves the limiter, the wire and the watcher alone.
LEMMA QuietStep ==
    ASSUME TypingInv, NEW c \in Calls, NEW pc \in CallPcs \ {"idle", "expire"}, Goto(c, pc),
           call[c].pc \notin {"idle", "expire"},
           call[c].kind = "stop" => pc \in {"incr", "expire", "del", "announce"},
           UNCHANGED <<client, counter, wire, watcher, last, disturbed, limits>>,
           key' \in 0 .. KeyTtl
    PROVE  TypingInv'
<1>. USE DEF TypingInv, client, watcher, limits
<1>1. CallTypes' /\ StopOnItsWay' /\ CallsOK' /\ CounterTypes'
  BY GotoEffect, GoesOn, CallsFrame, CounterTypesFrame
<1>2. \A s \in Sockets, k \in Kinds : Expiring(s, k)' <=> Expiring(s, k)
  BY GotoEffect, ExpiringFrame
<1>3. CountOK'
  BY <1>2, CountFrame
<1>4. PlainTypes'
  BY DEF PlainTypes
<1>. QED  BY <1>1, <1>3, <1>4

LEMMA StepInv ==
    ASSUME TypingInv, NEW c \in Calls, Step(c)
    PROVE  TypingInv'
<1>. USE DEF client, redis, watcher, limits
<1>a. PlainTypes /\ CallTypes /\ CounterTypes /\ StopOnItsWay /\ CallsOK /\ CountOK
  BY DEF TypingInv
<1>b. /\ call[c].kind \in Kinds /\ key \in 0 .. KeyTtl /\ KeyTtl \in 0 .. KeyTtl
      /\ call[c].kind = "stop" => call[c].pc \in {"incr", "expire", "del", "announce"}
      /\ call[c].pc # "idle" => call[c].sock \in Sockets
  BY <1>a, TypingConstants DEF PlainTypes, CallTypes, CallType, CallsOK
<1>1. CASE CheckLimit(c)
  <2>1. call[c].pc = "incr"
    BY <1>1 DEF CheckLimit
  <2>2. CounterTypes' /\ CountOK'
    BY <1>a, <1>1, <2>1, LimitCounts
  <2>3. /\ AfterLimit[call[c].kind] \in CallPcs \ {"idle"}
        /\ call[c].kind = "stop" => AfterLimit[call[c].kind] = "del"
    BY <1>b DEF AfterLimit, Kinds, CallPcs
  <2>4. CASE \E pc \in {"expire", AfterLimit[call[c].kind]} :
                Goto(c, pc) /\ UNCHANGED <<client, disturbed, kicked>>
    <3>1. PICK pc \in {"expire", AfterLimit[call[c].kind]} :
             Goto(c, pc) /\ UNCHANGED <<client, disturbed, kicked>>
      BY <2>4
    <3>2. /\ pc \in CallPcs \ {"idle"}
          /\ call[c].kind = "stop" => pc \in {"incr", "expire", "del", "announce"}
      BY <2>3, <3>1 DEF CallPcs
    <3>3. UNCHANGED <<key, wire, shown, timer, last, stuck>>
      BY <1>1 DEF CheckLimit
    <3>4. CallTypes' /\ StopOnItsWay' /\ CallsOK'
      BY <1>a, <2>1, <3>1, <3>2, <3>3, GotoEffect, GoesOn, CallsFrame
    <3>5. PlainTypes'
      BY <1>a, <3>1, <3>3 DEF PlainTypes
    <3>. QED  BY <2>2, <3>4, <3>5 DEF TypingInv
  <2>5. CASE /\ Hangup(call[c].sock) /\ kicked' = kicked \cup {call[c].sock}
             /\ disturbed' = TRUE /\ Return(c)
    <3>1. UNCHANGED <<key, wire, shown, timer, last, stuck>>
      BY <1>1 DEF CheckLimit
    <3>2. CallTypes' /\ CallsOK'
      BY <1>a, <2>5, ReturnEffect, CallsReturn
    <3>3. StopOnItsWay'
      BY <2>5 DEF StopOnItsWay
    <3>4. PlainTypes'
      <4>1. /\ conn' \in [Sockets -> {"new", "up", "gone"}]
            /\ pause' \in [Sockets -> 0 .. Debounce]
            /\ kicked' \subseteq Sockets
        BY <1>a, <1>b, <2>1, <2>5, TypingConstants DEF PlainTypes, Hangup
      <4>2. disturbed' \in BOOLEAN
        BY <2>5
      <4>. QED  BY <1>a, <3>1, <4>1, <4>2 DEF PlainTypes
    <3>. QED  BY <2>2, <3>2, <3>3, <3>4 DEF TypingInv
  <2>. QED  BY <1>1, <2>4, <2>5 DEF CheckLimit
<1>2. CASE ExpireCounter(c)
  <2>1. /\ call[c].pc = "expire" /\ Goto(c, AfterLimit[call[c].kind])
        /\ UNCHANGED <<conn, pause, key, wire, shown, timer, last, disturbed, stuck, kicked>>
    BY <1>2 DEF ExpireCounter
  <2>2. CounterTypes' /\ CountOK'
    BY <1>a, <1>2, EndSet
  <2>3. /\ AfterLimit[call[c].kind] \in CallPcs \ {"idle"}
        /\ call[c].kind = "stop" => AfterLimit[call[c].kind] \in {"incr", "expire", "del", "announce"}
    BY <1>b DEF AfterLimit, Kinds, CallPcs
  <2>4. PICK pc \in CallPcs \ {"idle"} : pc = AfterLimit[call[c].kind]
    BY <2>3
  <2>5. CallTypes' /\ StopOnItsWay' /\ CallsOK'
    BY <1>a, <2>1, <2>3, <2>4, GotoEffect, GoesOn, CallsFrame
  <2>6. PlainTypes'
    BY <1>a, <2>1 DEF PlainTypes
  <2>. QED  BY <2>2, <2>5, <2>6 DEF TypingInv
<1>3. CASE FindKey(c)
  <2>1. PICK pc \in {"refresh", "set"} : Goto(c, pc)
    BY <1>3 DEF FindKey
  <2>2. /\ call[c].pc = "exists" /\ call[c].kind # "stop"
        /\ UNCHANGED <<client, counter, wire, watcher, last, disturbed, limits>> /\ key' = key
    BY <1>3, <1>b DEF FindKey
  <2>3. pc \in CallPcs \ {"idle", "expire"}
    BY DEF CallPcs
  <2>. QED  BY <1>b, <2>1, <2>2, <2>3, QuietStep
<1>4. CASE RefreshKey(c)
  <2>1. /\ call[c].pc = "refresh" /\ call[c].kind # "stop" /\ Return(c)
        /\ key' \in 0 .. KeyTtl
        /\ UNCHANGED <<client, counter, wire, watcher, last, disturbed, limits>>
    BY <1>4, <1>b, TypingConstants DEF RefreshKey
  <2>2. CallTypes' /\ CallsOK' /\ StopOnItsWay'
    BY <1>a, <2>1, ReturnEffect, CallsReturn, GoesHome
  <2>3. \A s \in Sockets, k \in Kinds : Expiring(s, k)' <=> Expiring(s, k)
    BY <1>a, <2>1, ReturnEffect, ExpiringFrame
  <2>4. CounterTypes' /\ CountOK'
    BY <1>a, <2>1, <2>3, CountFrame, CounterTypesFrame
  <2>5. PlainTypes'
    BY <1>a, <2>1 DEF PlainTypes
  <2>. QED  BY <2>2, <2>4, <2>5 DEF TypingInv
<1>5. CASE SetKey(c) \/ DeleteKey(c)
  <2>1. /\ call[c].pc \in {"set", "del"} /\ Goto(c, "announce")
        /\ key' \in 0 .. KeyTtl
        /\ UNCHANGED <<client, counter, wire, watcher, last, disturbed, limits>>
    BY <1>5, <1>b, TypingConstants DEF SetKey, DeleteKey
  <2>2. PICK pc \in CallPcs \ {"idle", "expire"} : pc = "announce"
    BY DEF CallPcs
  <2>. QED  BY <2>1, <2>2, QuietStep
<1>6. CASE Announce(c)
  <2>1. /\ call[c].pc = "announce" /\ Return(c)
        /\ UNCHANGED <<client, redis, watcher, last, disturbed, limits>>
    BY <1>6 DEF Announce
  <2>2. StopOnItsWay' /\ wire' \in Seq(Kinds)
    BY <1>a, <1>6, AnnounceKeeps
  <2>3. CallTypes' /\ CallsOK'
    BY <1>a, <2>1, ReturnEffect, CallsReturn
  <2>4. \A s \in Sockets, k \in Kinds : Expiring(s, k)' <=> Expiring(s, k)
    BY <1>a, <2>1, ReturnEffect, ExpiringFrame
  <2>5. CounterTypes' /\ CountOK'
    BY <1>a, <2>1, <2>4, CountFrame, CounterTypesFrame
  <2>6. PlainTypes'
    BY <1>a, <2>1, <2>2 DEF PlainTypes
  <2>. QED  BY <2>2, <2>3, <2>5, <2>6 DEF TypingInv
<1>7. CASE Fail(c)
  <2>1. /\ call[c].pc # "idle" /\ Return(c) /\ disturbed' = TRUE
        /\ stuck' = (IF call[c].pc = "expire" THEN stuck \cup {call[c].sock} ELSE stuck)
        /\ UNCHANGED <<client, redis, wire, watcher, last, recent, kicked>>
    BY <1>7 DEF Fail, Busy
  <2>2. CallTypes' /\ CallsOK'
    BY <1>a, <2>1, ReturnEffect, CallsReturn
  <2>3. StopOnItsWay'
    BY <2>1 DEF StopOnItsWay
  <2>4. /\ \A d \in Calls \ {c} : call'[d] = call[d]
        /\ call'[c].pc = "idle"
    BY <1>a, <2>1, ReturnEffect
  <2>5. CounterTypes'
    BY <1>a, <2>1, CounterTypesFrame
  <2>6. CountOK'
    <3>1. CASE call[c].pc = "expire"
      <4>1. stuck' = stuck \cup {call[c].sock}
        BY <2>1, <3>1
      <4>2. \A s \in Sockets, k \in Kinds :
               /\ Expiring(s, k)' => Expiring(s, k)
               /\ s \notin stuck' => (Expiring(s, k) => Expiring(s, k)')
        BY <2>4, <4>1 DEF Expiring
      <4>. SUFFICES ASSUME NEW s \in Sockets, NEW k \in Kinds
                    PROVE  /\ \A a, b \in Ages : a <= b => recent[s][k][a] <= recent[s][k][b]
                           /\ s \notin stuck' =>
                                 counter[s][k].n <= recent[s][k][Age(counter[s][k].ttl)]
                           /\ Expiring(s, k)' => counter[s][k].n <= recent[s][k][0]
                           /\ s \notin stuck' /\ counter[s][k].n > 0
                              /\ counter[s][k].ttl = Never => Expiring(s, k)'
        BY <2>1 DEF CountOK, Age
      <4>. QED  BY <1>a, <4>1, <4>2 DEF CountOK
    <3>2. CASE call[c].pc # "expire"
      <4>1. \A s \in Sockets, k \in Kinds : Expiring(s, k)' <=> Expiring(s, k)
        BY <2>4, <3>2, ExpiringFrame
      <4>. QED  BY <1>a, <2>1, <3>2, <4>1, CountFrame
    <3>. QED  BY <3>1, <3>2
  <2>7. PlainTypes'
    <3>1. stuck' \subseteq Sockets
      BY <1>a, <1>b, <2>1 DEF PlainTypes
    <3>2. disturbed' \in BOOLEAN
      BY <2>1
    <3>. QED  BY <1>a, <2>1, <3>1, <3>2 DEF PlainTypes
  <2>. QED  BY <2>2, <2>3, <2>5, <2>6, <2>7 DEF TypingInv
<1>. QED  BY <1>1, <1>2, <1>3, <1>4, <1>5, <1>6, <1>7 DEF Step


\* A step that leaves the calls and the limiter alone.
LEMMA OutsideStep ==
    ASSUME TypingInv, UNCHANGED <<call, counter, recent, stuck>>, PlainTypes', StopOnItsWay'
    PROVE  TypingInv'
<1>1. CallTypes' /\ CallsOK'
  BY DEF TypingInv, CallTypes, CallsOK
<1>2. CounterTypes' /\ CountOK'
  BY CounterTypesFrame, CountStays DEF TypingInv
<1>. QED  BY <1>1, <1>2 DEF TypingInv

LEMMA TypingNextInv ==
    ASSUME TypingInv, [TypingNext]_typingVars
    PROVE  TypingInv'
<1>. USE DEF client, redis, watcher, limits
<1>a. PlainTypes /\ CallTypes /\ CounterTypes /\ StopOnItsWay /\ CallsOK /\ CountOK
  BY DEF TypingInv
<1>1. CASE \E s \in Sockets : Connect(s)
  <2>1. UNCHANGED <<pause, call, redis, wire, watcher, last, disturbed, limits>>
    BY <1>1 DEF Connect
  <2>2. conn' \in [Sockets -> {"new", "up", "gone"}]
    BY <1>a, <1>1 DEF Connect, PlainTypes
  <2>3. PlainTypes'
    BY <1>a, <2>1, <2>2 DEF PlainTypes
  <2>. QED  BY <1>a, <2>1, <2>3, StopFrame, OutsideStep
<1>2. CASE \E s \in Sockets : Disconnect(s)
  <2>1. PICK s \in Sockets : Disconnect(s)
    BY <1>2
  <2>2. /\ UNCHANGED <<call, key, wire, watcher, last, disturbed, limits>>
        /\ counter' = [counter EXCEPT ![s] = [k \in Kinds |-> NoCounter]]
    BY <2>1 DEF Disconnect
  <2>3. CounterTypes' /\ CountOK'
    BY <1>a, <2>2, Forgets
  <2>4. conn' \in [Sockets -> {"new", "up", "gone"}] /\ pause' \in [Sockets -> 0 .. Debounce]
    BY <1>a, <2>1, TypingConstants DEF Disconnect, Hangup, PlainTypes
  <2>5. PlainTypes'
    BY <1>a, <2>2, <2>4 DEF PlainTypes
  <2>6. CallTypes' /\ CallsOK' /\ StopOnItsWay'
    BY <1>a, <2>2, StopFrame DEF CallTypes, CallsOK
  <2>. QED  BY <2>3, <2>5, <2>6 DEF TypingInv
<1>3. CASE \E s \in Sockets, c \in Calls : StartTyping(s, c) \/ StopTyping(s, c)
  <2>1. PICK s \in Sockets, c \in Calls, kind \in Kinds :
           /\ Emit(s, c, kind)
           /\ \E d \in 0 .. Debounce : pause' = [pause EXCEPT ![s] = d]
           /\ UNCHANGED <<conn, redis, wire, watcher, limits>>
    <3>1. 0 \in 0 .. Debounce /\ Debounce \in 0 .. Debounce
      BY TypingConstants
    <3>. QED  BY <1>3, <3>1 DEF StartTyping, StopTyping, Kinds
  <2>2. /\ CallTypes' /\ CallsOK' /\ StopOnItsWay'
        /\ \A t \in Sockets, x \in Kinds : Expiring(t, x)' <=> Expiring(t, x)
    BY <1>a, <2>1, EmitKeeps
  <2>3. CounterTypes' /\ CountOK'
    BY <1>a, <2>1, <2>2, CountFrame, CounterTypesFrame
  <2>4. pause' \in [Sockets -> 0 .. Debounce]
    BY <1>a, <2>1 DEF PlainTypes
  <2>5. last' \in Kinds /\ disturbed' \in BOOLEAN
    BY <2>1 DEF Emit
  <2>6. PlainTypes'
    BY <1>a, <2>1, <2>4, <2>5 DEF PlainTypes
  <2>. QED  BY <2>2, <2>3, <2>6 DEF TypingInv
<1>4. CASE \E c \in Calls : Step(c)
  BY <1>4, StepInv
<1>5. CASE Receive
  <2>1. UNCHANGED <<client, call, redis, last, disturbed, limits>>
    BY <1>5 DEF Receive
  <2>2. /\ StopOnItsWay' /\ wire' \in Seq(Kinds)
        /\ shown' \in BOOLEAN /\ timer' \in 0 .. NoTimer
    BY <1>a, <1>5, ReceiveKeeps
  <2>3. PlainTypes'
    BY <1>a, <2>1, <2>2 DEF PlainTypes
  <2>. QED  BY <2>1, <2>2, <2>3, OutsideStep
<1>6. CASE Lose
  <2>1. /\ wire' = <<>> /\ disturbed' = TRUE
        /\ UNCHANGED <<client, call, redis, watcher, last, limits>>
    BY <1>6 DEF Lose
  <2>2. wire' \in Seq(Kinds) /\ disturbed' \in BOOLEAN
    BY <2>1, EmptySeq
  <2>3. PlainTypes'
    BY <1>a, <2>1, <2>2 DEF PlainTypes
  <2>4. StopOnItsWay'
    BY <2>1 DEF StopOnItsWay
  <2>. QED  BY <2>1, <2>3, <2>4, OutsideStep
<1>7. CASE TimerFires \/ SetOffline
  <2>1. Hide /\ UNCHANGED <<client, call, redis, wire, last, disturbed, limits>>
    BY <1>7 DEF TimerFires, SetOffline
  <2>2. StopOnItsWay' /\ shown' \in BOOLEAN /\ timer' \in 0 .. NoTimer
    BY <1>a, <2>1, HideKeeps
  <2>3. PlainTypes'
    BY <1>a, <2>1, <2>2 DEF PlainTypes
  <2>. QED  BY <2>1, <2>2, <2>3, OutsideStep
<1>8. CASE Tick
  <2>1. UNCHANGED <<conn, call, wire, shown, last, disturbed, stuck, kicked>>
    BY <1>8 DEF Tick
  <2>2. CounterTypes' /\ CountOK'
    BY <1>a, <1>8, TickCounts
  <2>3. /\ pause' \in [Sockets -> 0 .. Debounce]
        /\ key' \in 0 .. KeyTtl /\ timer' \in 0 .. NoTimer
    <3>1. \A m \in Nat : \A n \in 0 .. m : Less(n) \in 0 .. m
      BY DEF Less
    <3>2. /\ \A s \in Sockets : pause[s] \in 0 .. Debounce
          /\ key \in 0 .. KeyTtl /\ timer \in 0 .. NoTimer
          /\ Debounce \in Nat /\ KeyTtl \in Nat /\ NoTimer \in Nat
      BY <1>a, TypingConstants DEF PlainTypes
    <3>. QED  BY <1>8, <3>1, <3>2 DEF Tick
  <2>4. PlainTypes'
    BY <1>a, <2>1, <2>3 DEF PlainTypes
  <2>5. CallTypes' /\ CallsOK' /\ StopOnItsWay'
    BY <1>a, <2>1, StopFrame DEF CallTypes, CallsOK
  <2>. QED  BY <2>2, <2>4, <2>5 DEF TypingInv
<1>9. CASE UNCHANGED typingVars
  <2>1. PlainTypes'
    BY <1>a, <1>9 DEF typingVars, PlainTypes
  <2>. QED  BY <1>a, <1>9, <2>1, StopFrame, OutsideStep DEF typingVars
<1>. QED  BY <1>1, <1>2, <1>3, <1>4, <1>5, <1>6, <1>7, <1>8, <1>9 DEF TypingNext

LEMMA TypingInvariance == TypingSpec => []TypingInv
BY TypingInitInv, TypingNextInv, PTL DEF TypingSpec

\* Every variable of Typing has its type, and the keys of Redis live no longer than
\* they were given (PRESENCE_TTL, RATE_LIMITS, setNx and expire of CacheProvider).
THEOREM TypingTypeCorrect == TypingSpec => []TypingTypeOK
<1>1. TypingInv => TypingTypeOK
  <2>. SUFFICES ASSUME TypingInv PROVE TypingTypeOK
    OBVIOUS
  <2>1. PlainTypes /\ CallTypes /\ CounterTypes
    BY DEF TypingInv
  <2>2. \A s \in Sockets, k \in Kinds :
           /\ counter[s][k] \in [n : 0 .. Limit[k], ttl : 1 .. Never]
           /\ recent[s][k] \in [Ages -> Nat]
    BY <2>1 DEF CounterTypes, CounterType
  <2>3. call \in [Calls -> [pc : {"idle", "incr", "expire", "exists", "refresh", "set", "del", "announce"},
                            kind : Kinds, sock : Sockets \cup {NoSocket}]]
    BY <2>1 DEF CallTypes, CallType, CallPcs
  <2>. QED  BY <2>1, <2>2, <2>3 DEF TypingTypeOK, PlainTypes
<1>. QED  BY <1>1, TypingInvariance, PTL

\* A stop that overlapped nothing takes the indicator away once its events are
\* through, for any lives of the key and of the timer (typing:stop, clearTyping).
THEOREM TypingStopHides == TypingSpec => []StopHides
<1>1. TypingInv => StopHides
  BY DEF TypingInv, StopOnItsWay, StopHides
<1>. QED  BY <1>1, TypingInvariance, PTL

\* Nobody is disconnected by the limiter who has kept to its limits, for any limits
\* and windows, unless an EXPIRE has failed (checkLimit of createWsRateLimiter).
THEOREM TypingOnlyExcessDisconnects == TypingSpec => OnlyExcessDisconnects
<1>1. ASSUME TypingInv, [TypingNext]_typingVars, NEW t \in kicked' \ kicked
      PROVE  (\E x \in Kinds : recent'[t][x][Window - 1] > Limit[x]) \/ t \in stuck
  <2>1. kicked' # kicked
    BY <1>1
  <2>2. PICK c \in Calls : CheckLimit(c)
    BY <1>1, <2>1
       DEF TypingNext, typingVars, limits, Step, Connect, Disconnect, StartTyping, StopTyping,
           ExpireCounter, FindKey, RefreshKey, SetKey, DeleteKey, Announce, Fail, Receive, Lose,
           TimerFires, SetOffline, Tick
  <2>3. PICK s \in Sockets, k \in Kinds : s = call[c].sock /\ k = call[c].kind
    BY <1>1, <2>2 DEF TypingInv, CallsOK, CallTypes, CallType, CheckLimit
  <2>4. PICK n \in Nat : n = counter[s][k].n + 1
    BY <1>1 DEF TypingInv, CounterTypes, CounterType
  <2>5. /\ recent' = [recent EXCEPT ![s][k] = [age \in Ages |-> recent[s][k][age] + 1]]
        /\ kicked' = kicked \cup {s} /\ n > Limit[k]
    BY <2>1, <2>2, <2>3, <2>4 DEF CheckLimit
  <2>6. t = s
    BY <1>1, <2>5
  <2>7. CASE s \notin stuck
    <3>1. Age(counter[s][k].ttl) \in Ages /\ Window - 1 \in Ages
      BY <1>1, AgesOf, TypingConstants DEF TypingInv, CounterTypes
    <3>2. Age(counter[s][k].ttl) <= Window - 1
      BY <3>1, TypingConstants
    <3>3. /\ counter[s][k].n <= recent[s][k][Age(counter[s][k].ttl)]
          /\ recent[s][k][Age(counter[s][k].ttl)] <= recent[s][k][Window - 1]
      BY <1>1, <2>7, <3>1, <3>2 DEF TypingInv, CountOK
    <3>4. recent'[s][k][Window - 1] = recent[s][k][Window - 1] + 1
      BY <1>1, <2>5, <3>1, RecentEffect DEF TypingInv
    <3>5. /\ recent[s][k][Window - 1] \in Nat /\ recent[s][k][Age(counter[s][k].ttl)] \in Nat
          /\ counter[s][k].n \in Nat /\ Limit[k] \in Nat
      BY <1>1, <3>1, TypingConstants DEF TypingInv, CounterTypes, CounterType
    <3>6. recent'[s][k][Window - 1] > Limit[k]
      BY <2>4, <2>5, <3>3, <3>4, <3>5
    <3>. QED  BY <2>6, <3>6
  <2>. QED  BY <2>6, <2>7
<1>2. TypingInv /\ [TypingNext]_typingVars
        => [\A s \in kicked' \ kicked :
               \/ \E k \in Kinds : recent'[s][k][Window - 1] > Limit[k]
               \/ s \in stuck]_typingVars
  BY <1>1
<1>. QED  BY <1>2, TypingInvariance, PTL DEF TypingSpec, OnlyExcessDisconnects
=============================================================================
