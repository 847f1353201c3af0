# Verification of Kalle

Kalle is a chat application: an Express and Socket.IO API (`src/apps/api`) over
PostgreSQL and Redis, BullMQ workers (`src/workers/queue`), a Next.js client
(`src/apps/web`) and the types they share (`src/packages/shared`). This directory
holds TLA+ models of its components, the TLC configurations that check them on
small instances, and TLAPS proofs that hold for every instance.

Contents: [Inventory](#inventory), [Plan](#plan), [Modules](#modules),
[Runs](#runs), [Known divergences](#known-divergences), [Proofs](#proofs),
[Not modelled](#not-modelled). Paths below are relative to `src/`; `A/` stands for
`apps/api/src/`, `W/` for `apps/web/src/`, `Q/` for `workers/queue/src/`.

To repeat everything: `tlc -config MCX.cfg MCX` for each configuration
(`MCClientSocket.cfg` belongs to `MCClientTokens`), `tlapm XProofs.tla` for each module of
proofs.

## Inventory

The API runs as any number of instances that share PostgreSQL (through Prisma) and
Redis. A request is an `async` handler: controller, service, repositories and
providers. Nothing is locked, hardly anything is a database transaction, and every
`await` lets other requests, on this instance or another, run in between. That is
where most of what is hard in this code comes from, so the models have one action
for one awaited call together with the synchronous code after it. The client is the
same: one thread, and continuations that find a world that moved on.

| Component | State it keeps | Operations | Talks to | Module |
|---|---|---|---|---|
| Authentication (`A/services/AuthService.ts`, `SessionRepository`, `middleware/auth.ts`) | `sessions`, `refresh_tokens`, Redis `blacklist:<jti>` | register, login, refresh with rotation, revoke, revoke-all, verify | every request and every socket handshake asks it | `AuthSessions` |
| Client tokens (`W/lib/api.ts`, `authStore.ts`, `useSocket.ts`) | the tab's token pair, the refresh in flight, the socket's token | calls, one shared refresh, one retry, reload | authentication | `ClientTokens` |
| Messages (`MessageService`, `MessageRepository`, `websocket/handlers/message-handler.ts`, `MessageController`) | `messages`, `message_statuses`, `lastReadAt` | send with deduplication, edit, delete, delivered, read, history | broadcasts to rooms; enqueues `message-fanout`; reads the participant cache | `Messages` |
| Client view (`W/hooks/useMessages.ts`, `W/stores/chatStore.ts`, `W/lib/search.ts`) | message lists, unread counts, IndexedDB search index | socket handlers, `loadHistory`, send, edit, delete, navigation | socket events, REST, decryption | `ClientView`, `Outbox` |
| Prekeys (`EncryptionKeyService`, `KeyRepository`, `W/lib/encryption.ts`) | `pre_key_bundles.preKeys` (JSON), IndexedDB private keys | upload a bundle, fetch one with consumption | the Signal library on both ends | `PreKeys` |
| Groups (`ConversationService`, `ConversationRepository`) | `conversations`, `conversation_participants`, two Redis caches of participants | create, add, remove, leave, flags | enqueues `sender-key-distribution`; its list is what fan-out uses | `Groups` |
| Rooms and presence (`A/websocket/index.ts`, `presence-handler.ts`, `RealtimeProvider`) | Socket.IO rooms, `users.isOnline`, Redis `presence:<id>` | connect, disconnect | reads conversations once, broadcasts presence | `Realtime` |
| Typing and socket limits (`typing-handler.ts`, `ws-rate-limiter.ts`, `W/hooks/usePresence.ts`, `presenceStore.ts`) | Redis typing key and counters, the watcher's list and timers | start, stop, indicator, disconnection by the limiter | rooms | `Typing` |
| Sync (`sync-handler.ts`, `W/hooks/useSocket.ts`) | none of its own | what was missed since a timestamp, with limits | messages, conversations | its effect in `Outbox` |
| Stories (`StoryService`, `StoryRepository`, `Q/jobs/story-cleanup.ts`) | `stories`, `story_views`, media rows and files | create, view, delete, hourly cleanup | storage, media | `Stories` |
| Media (`MediaService`, `W/lib/media.ts`, `useMediaUpload.ts`, the camera page) | rows and files; streams, pictures and `uploadState` of a page | upload, capture, download | storage | `Stories`, `Camera` |
| Job queue and workers (`QueueProvider`, `Q/index.ts`, `Q/jobs`) | the BullMQ queue `kalle-jobs` | enqueue, three attempts with back-off, five jobs at a time | every producer above | the hourly job in `Stories` |
| Users, audit, health, HTTP limiter and shell, other pages | rows, counters | | | |

`PROJECT.json` lists all of them under "components", with what is modelled and why
the rest is not.

What makes each hard, and what correct means:

- **Authentication.** Refresh, revoke and revoke-all each spread over up to seven
  calls on two stores. Two expiries, one in milliseconds and one in whole seconds,
  decide how long a blacklist key lives. *Correct:* a session that ended is refused
  from then on, a key outlives the token it blocks, and a token that has lost its
  force never regains it.
- **Client tokens.** Calls that fail together share a refresh whose server half is
  several calls, in a page that may be unloaded in the middle. *Correct:* the tab never
  locks itself out, presents each refresh token once, and no call waits for ever.
- **Messages.** Lookups precede inserts, checks precede writes by id, writes precede
  broadcasts, and clients retry. *Correct:* at most one row and one
  fan-out job for each composed message, and acknowledgements that name the row; deletion
  is final; what recipients see is what the row holds.
- **Client view.** Handlers resume after a decryption in a world that moved on; an
  optimistic entry, an acknowledgement, receipts, responses and loads change one list.
  *Correct:* the list becomes what the server stores, an open conversation has nothing
  unread, a deleted message is not found by searching, the sender sees how a send ended.
- **Prekeys.** The pool is read and its rest written back in two calls; two tabs share
  an IndexedDB and put their keys one by one. *Correct:* no key is returned twice, and
  whoever got a bundle can open a session with it.
- **Groups.** Rights are checked on rows read earlier, and the list of recipients is
  cached. *Correct:* somebody stays in charge, jobs say what the rows say, recipients
  are the members of at most a cache lifetime ago.
- **Rooms and presence.** Three asynchronous sequences per socket, none of which waits
  for another. *Correct:* after they end, rooms and presence are what the sockets and
  the memberships say; a user who left is recorded as gone in the end.
- **Typing and limits.** `INCR` or `SET NX` and the expiry are separate calls, and the
  expiry in Redis, the debounce and the watcher's timer run independently. *Correct:*
  nobody is shown typing for ever, a stop hides, only excess is punished.
- **Stories.** A cleanup reads batches that authors and other cleanups change. *Correct:*
  what expired goes, all of it, whatever fails, and nothing else does.
- **Camera.** Permissions are answered in any order, after a flip or after the page.
  *Correct:* no camera runs that the page does not hold, the page shows the camera it
  holds, the bar shows the upload that runs.

Every place where such a thing can go wrong is a row of "hazards" in `PROJECT.json`,
at its line, with the properties that watch it.

## Plan

Modelled first is what carries the product: who is signed in, what happens to a
message, to whom it goes, and what the two ends see.

1. **Done**: `SessionRegistry` and `AuthSessions`, `ClientTokens`, `Messages`, `PreKeys`,
   `Groups`, `Realtime`, `ClientView`, `Outbox`, `Stories`, `Typing`, `Camera`, each with an
   MC module and its run; `MessageLog`, which `Messages` implements; and proofs about each,
   with a theorem for every safety property and every action property the runs check, the
   two refinements included.
2. **Next modules**, where a run gives way to them: `StoryFeed` (`storyStore` and the
   viewer: progress timer, pauses, views sent once), `Contacts` (direct conversations
   and blocks, both check-then-create).
3. **Abstract specifications.** There are two: `AuthSessions` implements `SessionRegistry`,
   on which `ClientTokens` is built, and `Messages` implements `MessageLog`. Worth stating
   next: an `AtomicPool` for `PreKeys`, implemented while no fetch writes back a pool it no
   longer read, and with its refinement a theorem.
4. No module uses a RECURSIVE operator, so whatever is stated next can be proved about.

## Modules

Conventions: `req` (or `fetch`, `tab`, `load`, `call`) holds one record per slot of a
request in flight, whose `pc` names the call that comes next. A handler's early returns are
guards: where a check fails nothing that is kept changes, so the failing call has no step.
`Abort`, `Fail` and the like stand for an awaited call that rejects and for an instance
that stops; both leave what was written. Variables commented "history" exist for the
properties. Operators commented "Mutant" are not part of any specification: each is an
action as a plausible bug would have it, and shows that a property notices it. `Camera`,
`Typing` and `Stories` give their formulas names of their own (`CameraInit`, `TypingSpec`,
`StoriesTypeOK`) where the others say `Init`, `Spec`, `TypeOK`, so that one module of proofs
can extend two components.

**AuthSessions** (component: authentication). An element of `Sessions` names a session
row, its JWT and its refresh token, which `login` and `refresh` create together.
`session`, `refresh` and `blacklist` are the two tables and the Redis keys; `issued` are
the sessions whose pair reached a client. `Login`, `CreateSession`, `CreateRefreshToken`
and `Respond` are the common tail of login and refresh; `RefreshLookup` to
`RefreshFindUser` are `refreshToken` (AuthService.ts:413-504); `RevokeStart` to
`RevokeJtiTokens` are `revokeSession` (528-582), which an owner calls with an accepted
token; `RevokeAll...` are `revokeAllSessions` (601-642), with the `Promise.all` of
blacklist writes in any order; `Confirm` is the answer to either. Time is in ticks,
`Second` of them to a second, and the two roundings (`Math.ceil` over milliseconds,
`Math.floor` of the clock) are kept: they are what `BlacklistTracksExpiry` is about. A ttl is
computed in the step before the awaited `SETEX`, as in the code, and held in the slot (`ttl`);
revoke-all computes those of all sessions at once, and the clock may tick before any of them
counts.
`Accepted` is what the middleware asks for; like the code it does not look at the row.

**SessionRegistry** (what a client is promised of its sessions). A pair is received once;
an access or refresh token that has lost its force never regains it; whoever receives the
successor of a session has given up that session, both tokens. `ImplementsRegistry` of
`AuthSessions` is this specification under the mapping `live` (issued sessions that are
accepted and outside the window of revoke-all), `redeemable` (whose refresh token is not
revoked) and `source` (the parent).

**ClientTokens** (client: tokens and requests; one tab). Extends `SessionRegistry`, whose
steps are its server. `Send`, `Serve`, `Finish` are a call of `apiClient`; `Refresh` and
`RefreshWithout` are the branches of its 401 path with and without a refresh in flight;
`RefreshConsume`, `RefreshRotate`, `RefreshIssue` are the server's half, `RefreshDone` and
`RefreshFails` the page's. `Reload` drops all that is in flight and keeps the store, with
`orphans` for an exchange that goes on at the server. `Handshake`, `Drop`, `GiveUp` are the
socket, which keeps the token of the moment it was created: a connection that breaks goes from
`up` to `reconnecting`, and its next handshake presents that token again. Left out: uploads with their own
repetition, a second tab (the session storage is the tab's own; a duplicated tab starts with
a copy and is not modelled), and the messages of errors.

**Messages** (messages, both interfaces). A row has its client id, text, timestamp and
state; `Author`, `Target` and `Members` fix who composed what for whom. `SendStart`,
`SendFind`, `SendCreate`, `SendEnqueue`, `SendPublish` are `sendMessage` and the handler
after it, with the unique index on `clientMessageId` in `SendCreate`; a REST request
(`rest`) takes the same steps and broadcasts nothing. `EditFind`, `EditWrite`,
`EditPublish` and their counterparts for deletion keep the check, the write by id and the
broadcast apart. `Deliver` and `ReadBatch`, `ReadReset` are the receipts, the latter with
the undefined `conversationId`. `shown` is what a connected recipient displays when it
applies each event it gets.

**MessageLog** (what the server promises of composed messages). Each gets one id, has its text
replaced by edits until it is deleted, is confirmed under its id and enqueued for fan-out at most once,
every one of these in a single step. `ImplementsLog` of `Messages` is this specification under
the mapping `id` (the row whose `clientMessageId` it is), `content` (the text of the row unless
that is a tombstone), `told` (the acks) and `queued` (the jobs of the row). The text that an edit
may write under a tombstone is the one thing the mapping hides; `TombstoneHasNoText` is about it.

**PreKeys** (prekeys). `pool` and `signedKey` are the row, the pool a sequence consumed from
its head; `private`, `signed`, `identity` and `registered` are the IndexedDB of the browser.
`private` and `signed` map an id to the bundle its stored private half was made for, so a key
whose id was taken again is a different key. A tab that opens takes the steps of `Initialize` if
the browser has no identity (`Open`, `StoreIdentity`, `StoreRegistration`, `StoreInitial` key by
key, `StoreInitialSigned`), then those of `Assemble`: `ReadIdentity`, `ReadSignedIds`,
`StoreSigned`, `ReadIds`, and `StoreKey` once for each key, since each is an awaited put between
which other tabs run; then `Upload`. `CloseTab` ends it anywhere. A tab whose keys would have
ids beyond the bounds of the model, or that finds no registration, goes no further. `FetchRead`,
`FetchWrite`, `FetchFail` are `fetchBundle`, whose count of what remains has no effect. The peer's
first message is on its way from then on, in `inbox`; `Decrypt` is what the Signal library does with
it (taken from how `encryption.ts` uses it): it needs the identity, the signed key and the one-time
key, which it removes. Session and sender-key state of the library is left out.

**Groups** (conversations, and the participant list of `MessageService`). `role` is the
participants table, `cache` the Redis entry `conv:ID:participants` with the time it was
stored, `jobs` and `keyJob` what was enqueued. Each member change is check, write,
announcement; `SendList`, `SendRead`, `SendCache`, `SendJob` are the list's way into a
fan-out job. `ConversationService` deletes `conversation:participants:ID`, a key that no
code on these paths reads, so its deletion has no step. `updateParticipantRole` has no
caller outside tests and is left out.

**Realtime** (rooms and presence, the sockets of one user). `up` and `main` are the two
sequences the connection handler starts, `down` that of the disconnection; a sequence
goes on when its socket is gone. `joinRoom` does nothing for a socket that is gone, and
Socket.IO has emptied the rooms when `disconnect` is handled. `CacheExpires` is the
presence key's time to live, which nothing renews.

**ClientView** (one tab, one conversation, a peer's messages). The server is the
environment. `Change` writes a `row` and leaves its event in `pending`; the handler that
awaited the write then emits it (`Announce`), in any order with those of other handlers, or
nothing is emitted (`Silent`): the REST endpoints through which the web client edits and deletes
emit nothing, and an instance may stop. What is emitted is on the `wire`, in order and lost
with the connection; `overtaken` collects the events that one of a newer change came before.
`useMessages` is mounted once by the page and once more by the `ChatView` of an open
conversation, and not at all on screens such as settings; each instance handles every
event, and an event that nobody handles is gone. `ReceiveX` is a handler up to its first
await, `AddMessage` and `IndexEdited` the part after the decryption, `Load...` is
`loadHistory`, whose rows replace the list. `stale` collects messages whose event was
never emitted, was lost, came after that of a newer change or found the list without its
message, or whose change was undone by a load that had been answered before it; `stained` those whose text was on its way into the search index when
they were deleted.

**Outbox** (a user's own messages, from the composer to the list). `send` is where
`sendMessage` stands; `Emit` includes the optimistic entry, `Acknowledge` what the store
makes of the answer (it keeps an entry with the same client id), the receipts of the
recipient are written and then broadcast, `Drop` loses the socket with what is on the wire
and with any set of emissions that had not arrived; `Reconnect` includes the `message:sync`
whose ids the server turns into invalid dates: it fails, nothing is merged. `edit` and `del`
are the REST calls of a long press, both sent when the message is younger than 15 minutes.
`LoadAsk`, `LoadAnswer`, `LoadApply` are `loadHistory`. `behind` are drafts whose optimistic
entry a load answered earlier took away; `unacked` those whose acknowledgement never came;
`stale` as in `ClientView`. Scrolling to the top asks for the first page again, without a
cursor, so every load is the same load. The page size of 50 is not modelled.

**Typing** (typing indicators and the socket limiter; one typist, one watcher). `StartTyping`
and `StopTyping` put an event into a slot of `call`; the steps of a slot are the Redis calls of
the limiter (`INCR`, `EXPIRE`), then those of the handler (`EXISTS`, `EXPIRE` or `SET NX`; `DEL`),
then the announcement. Any of them may fail, a socket may go in between, `Tick` ages the key, the
counters, the debounce and the watcher's timer together. Slots interleave freely, which allows
more than the one Redis connection of an instance does; `Tick` waits for an `EXPIRE` that follows
its `INCR`, as the two are back to back. Only media and voice notes call `startTyping`; a stop is
sent with each message and on leaving, typing or not. `disturbed` marks a last event that
overlapped another, failed, or was lost; `stuck` a counter left without expiry. `recent` counts,
for each age within a window, the events that are no older: it is what `OnlyExcessDisconnects`
holds the counter to, which the code keeps in fixed windows.

**Stories** (stories, media on the server, the hourly job). `Create`, `ViewFind`/`AddView`,
`DeleteFind`/`DeleteFiles`/`DeleteRow` and `UploadStore`/`UploadRow` are requests, `Job...` the
steps of the cleanup over one batch after the other, up to its iteration limit; `JobFails` and
`Abort` cut either off anywhere. The foreign keys act in `DeleteStories` (views cascade, media
rows lose their story) and in `AddView`. Paths are kept as the code builds them: files are
stored under one directory, the service looks for them under a second and the job under a
third, so neither finds any. The controller passes no `mediaUrl` on, so that media come to a
story through an upload that names it.

**Camera** (camera page, uploads of the client; one visit). `StartCamera` is a call with the mode
of its closure, made by the page's opening, `Flip` and `GrantAccess` (the error screen's button);
`Granted`, `Denied`, `Plays`, `PlayIsInterrupted` are its continuations, in any order and after the
page as well. State they set is queued (`nextStream`, `nextError`) until a `Render`, which also
runs the effect's cleanup of the stream before; what a click sets is rendered at once. A picture
(`CapturePhoto`, `BlobReady`) or a file of the gallery starts an upload of `lib/media.ts` with its
awaits (thumbnail, preflight, encryption of both files, sending) over the one `bar`, the hook's
`uploadState`. The percentage of the progress and the torch are not modelled. Uploads go on after
the page is left; `cancelUpload` is called by no screen while one runs.

Composition. `ClientTokens` extends `SessionRegistry`, which `AuthSessions` is shown to implement:
what is checked of the tab holds over the real service. The others meet in shared assumptions:
`Messages` holds membership fixed and `Groups` holds messages to a list of recipients; `Realtime`
takes `active` as an input that `Groups` produces; `ClientView` and `Outbox` take as their
environment rows that are edited until they are deleted, as `Messages` guarantees outside
`overtaken`, with the broadcast as a step of its own; `Outbox` joins the tab, its socket and the server of a send in one module.

## Runs

Bounds are constants of a configuration or commented "bound" in a module.

| Run | Configuration | Bounds | Shows |
|---|---|---|---|
| `auth` | MCAuthSessions | 2 sessions, 1 user, 2 requests, half-second ticks up to 2 s, tokens of 2 s and 1.5 s | `EndedIsRejected`, `BlacklistTracksExpiry`, `SpentStaysSpent`, `ImplementsRegistry` |
| `client_tokens` | MCClientTokens | 3 sessions, 2 calls | `RefreshKeepsSession`; under fairness `CallsSettle` |
| `messages` | MCMessages | 1 composed message, 2 possible rows, 2 texts, 2 requests, window of 0 ticks, 1 tick | `SendsHappenOnce`, `SettledViewIsRow`, `ImplementsLog` |
| `outbox` | MCOutbox | 1 draft, 3 versions of its text, 3 events on the wire | `SendOutcomeIsShown`, `SettledEntryIsRow` |
| `client_view` | MCClientView | 1 message, 2 versions, 2 hooks, 3 changes to be announced, 3 events on the wire | `OpenHasNoUnread`, `ListIsRows`, `SearchForgetsDeleted` |
| `prekeys` | MCPreKeys | 2 bundles of 2 keys, 2 tabs, 2 fetches, ids up to 6 | `PoolIsUnspent`, `FirstMessagesDecrypt` |
| `groups` | MCGroups | 2 users, 2 requests, 1 tick, cache life of 1 tick, 1 fan-out | `FanOutIsRecent`, `LastNoticeMatchesRow`, `LastAdminGoesByOwnHand` |
| `realtime` | MCRealtime | 2 sockets, 1 conversation | `SequencesSettle`; under fairness `GoneIsRecorded` |
| `typing` | MCTyping | 1 socket, 2 handlers at a time, key and timer of 2 ticks, debounce of 1, window of 2 with 2 starts and 1 stop, 1 event on the wire | `StopHides`, `OnlyExcessDisconnects`; under fairness `IndicatorEnds` |
| `stories` | MCStories | 2 stories that live 1 tick, 1 media, 1 viewer, 2 jobs, batches of 1, clock up to 2, 1 fault | `CleanupIsExact`; under fairness `ExpiredGoAway` |
| `camera` | MCCamera | 3 calls for a camera, 2 files | `NothingRunsUnheld`, `ViewShowsCamera`, `BarShowsUpload` |
| `socket_token` | MCClientSocket | 2 sessions, 1 call | `SocketComesBack` is violated, see below |

Each passing run also checks the type invariant of its module. Symmetry is used where elements of a
constant are interchangeable, and in no run that checks liveness. Where a property is a conjunction
of two (`SendsHappenOnce`, `SequencesSettle`, `RefreshKeepsSession`, `SendOutcomeIsShown`,
`CleanupIsExact`) each half has a definition, a comment and a mutant of its own.

Why the bounds are enough. The races of this code are between a request that is between
two of its calls and one other that runs past it, so two slots show them, and a third
party is present as the state the two leave behind: aborted requests leave half-done work
without holding a slot, and slots are reused without limit. In `auth` two sessions are a session
and its child by rotation, or two of a user that revoke-all finds; the race for two children
needs a third, which was run by hand without a clock, and the proofs hold for any number.
`client_tokens` has three, so that a tab rotates and rotates again, or signs in again. Two
possible rows for one client id are what a missing unique index would need. Two batches make ids
collide and two keys per batch tell the head of the pool from its rest. In `Groups` two users are an
admin and another, or two admins; three users were beyond the time set for a run. In `ClientView` a
message is created, edited and deleted, and the three events are announced in any order or not at
all, which puts any two of them, and two overlapping loads, in every order; a second edit made the
run longer than the time set for it; messages only meet in a load, which applies its rows in one step. In `Outbox`
drafts meet in loads, drops and the order of the wire only; two of them were run by hand as a
simulation of 49 million states. Two jobs with batches of one story each and two stories have every
overlap of two cleanups, and one that ends a job in the middle is the one fault. In `Typing` two
handlers put a start and a stop, or two of a kind, in every order, and the limits are reached and
exceeded within a window; safety was also run by hand with two events on the wire. In `Camera` three calls are an opening and two flips, or an opening, a flip
and a call from the error screen; one call with three files was run by hand to the end, and four
and six calls in part. The safety properties of `Realtime` were run by hand with three
sockets. None of these found anything.

Scaling. `FanOutThreshold` is 3 in the code and 2 where two users have to reach it; it is
only compared with. The edit window is 900 s, the participant cache lives 300 s; in ticks
only their order relative to the clock's steps matters, and a window of 0 with one tick, or
a life of 1, has a step on either side. The typing key and the watcher's timer last as long as each
other, as in the code, the debounce less; the 10 `typing:start` a window, and the 60 of
the tier in which `typing:stop` is counted, become 2 and 1. Stories live 24 hours and
the batch has 100; both are only compared with.

Fairness. Four runs check liveness.
- `realtime`: the next step of each sequence of each socket is weakly fair: an awaited call settles,
  that is, it returns or rejects (`Fail`), and Node then runs the continuation.
- `typing`: so are the steps of a handler; an event on the wire arrives or is lost, a timer that is due
  fires, time passes. `IndicatorEnds` asks that, if the indicator stays, starts go on being sent.
- `stories`: some step of some cleanup job is taken as long as one can be. The schedule starts
  a job every hour whatever became of the one before, so that one of them may stay stuck, not all;
  what fails is bounded by `MaxFaults`.
- `client_tokens`, `socket_token`: a fetch settles and its continuation runs, the server's half of a
  refresh included; a page that is being left is unloaded; a handshake is answered.
Nothing is assumed of users: nobody need connect, leave, type, create or close anything.

Deadlock is not checked in any run, because every one of these systems may come to rest: the
clock reaches its bound, ids are used up, users do nothing more.

Conditions in the properties. `swept`, `overtaken`, `disturbed`, `silent`, `stale`, `behind`, `unacked`,
`clobbered`, `crossed`, `overlapped`, `parallel`, `changed`, `stained`, `cut`, `revoked`, `stuck`, `escaped`,
`remounted` name exactly the window in which the code as it is breaks the unconditional
property; the run shows that the window is all there is. Most of the windows are rows of the
next table.

## Known divergences

What a document, comment or test says and the code does not do. The first is a run, whose
counterexample is the evidence. For the others, the property is a definition at the end of its
module, below the line "What the documents ..." or "What the comments ...": checking it with
the module's passing configuration gives the counterexample (`RefreshTokenIsSingleUse` needs a third
session, `ReadMarksItsConversation` a second conversation in `Convs`, `CacheFollowsMembership` a clock and
a cache life of 2 ticks).

| Property | Where | The code | The claim |
|---|---|---|---|
| `SocketComesBack` (run) | W/hooks/useSocket.ts:153 | the socket keeps the access token of the sign-in; after a rotation its reconnection is refused and not tried again | docs/websocket-events.md:109-111 "Reconnect with the new access token" |
| `RefreshTokenIsSingleUse` | A/services/AuthService.ts:422 | the check and the unconditional revocation of a refresh token are two awaits apart; two requests get a pair each | AuthService.ts:397 "cannot be reused"; docs/api-reference.md:323 |
| `RevokedIsRejected` | AuthService.ts:628 | revoke-all revokes, without blacklisting it, a session created after it listed the sessions | README.md:320 "Revoked tokens are blacklisted in Redis" |
| `EndedHasNoRefreshToken` | AuthService.ts:629 | a refresh token whose session revoke-all found may be inserted after it revoked the tokens | docs/api-reference.md:401 "Invalidate all refresh tokens for the user" |
| `TombstoneHasNoText` | A/repositories/MessageRepository.ts:220 | an edit that passed its checks writes its text into a tombstone | packages/shared/src/types/message.ts:207 "`ciphertext` is null when `isDeleted` is true" |
| `StatusIsMonotonic` | MessageRepository.ts:440 | a late delivered receipt overwrites READ | MessageService.ts:616 "monotonic progression" |
| `DuplicateIsNotRefused` | MessageService.ts:314 | of two simultaneous sends of one id the second fails at the unique index | MessageService.ts:275 (deduplication) |
| `AnnouncedOnce` | message-handler.ts:335 | the retry of a stored send is broadcast again | docs/websocket-events.md:715 "prevent duplicate message delivery" |
| `AckedGroupSendIsQueued` | MessageService.ts:347 | a failure between insert and enqueue is not made up for by the retry, which is acked | docs/websocket-events.md:180 (fan-out of group messages) |
| `EveryChangeIsBroadcast` | A/controllers/MessageController.ts | edits and deletions over REST, which the client uses, emit nothing | docs/api-reference.md:1268, 1322 "All conversation participants receive" the event |
| `ReadMarksItsConversation` | message-handler.ts:701 | an undefined `conversationId` resets every conversation of the user | ConversationRepository.ts:674 "in a specific conversation" |
| `AckGivesServerId` | W/hooks/useMessages.ts:506 | the store keeps the optimistic entry when the acknowledgement comes, and with it the client id, for which edits and deletions are answered 404 | useMessages.ts:514 "Temporary — replaced when server ack arrives" |
| `ShownIsStored` | W/hooks/useMessages.ts:506 | an emission lost with the socket stays in the list as sent, and is not sent again | README.md:21 "zero message loss" |
| `SentStaysShown` | W/stores/chatStore.ts | a load answered before the message was stored takes its entry away | docs/websocket-events.md:632 "zero message loss" |
| `DeletedShowsNoText` | W/stores/chatStore.ts | the answer of the edit that a long press sent comes after that of its deletion and puts text into a deleted entry | packages/shared/src/types/message.ts:207 |
| `DeletedIsNotFound` | W/hooks/useMessages.ts:806 | text that was being decrypted or loaded when its message was deleted is indexed afterwards | docs/encryption.md:341 "also marked as deleted" |
| `KeyIsReturnedOnce` | A/repositories/KeyRepository.ts:131 | two fetches return the same key | docs/encryption.md:167 "it must never be reused" |
| `LowPoolIsNotified` | A/controllers/KeyController.ts:181 | nothing enqueues the notification | docs/encryption.md:172 |
| `CacheFollowsMembership` | A/services/MessageService.ts:254 | another cache key is invalidated than is read | MessageService.ts:261 "ConversationService invalidates on membership changes" |
| `RoomsFollowMembership` | A/websocket/index.ts:531 | nothing calls the functions that move a socket between rooms | docs/websocket-events.md:76 "updated in real time" |
| `OfflineWhenGone` | presence-handler.ts:225 | an arrival that overlaps a departure leaves the user online without a socket | docs/websocket-events.md:615 |
| `KeyIsShown` | A/websocket/handlers/typing-handler.ts:153 | a start within the key's life renews the key and is not announced, so that the watcher's timer ends under one who goes on | docs/websocket-events.md:521 (suppression stands for an indicator that is shown) |
| `CountersExpire` | A/websocket/middleware/ws-rate-limiter.ts:145 | a failure between `INCR` and `EXPIRE` leaves a counter that only grows | ws-rate-limiter.ts:143 "Set TTL only on the first request in a new window" |
| `FilesGoWithStory` | Q/jobs/story-cleanup.ts:153 | the job looks for the files under a path where none was stored | README.md:18 "automated media cleanup" |
| `MediaGoesWithStory` | Q/jobs/story-cleanup.ts:301 | an upload between the job's reading and its deletion leaves a media row without its story, which no job looks for | docs/architecture.md:861 "delete associated media files from storage" |
| `OneCameraRuns` | W/app/(main)/camera/page.tsx:152 | of two streams granted before the next render, nothing stops the first | the comment there, "prevent leaked tracks when switching" |
| `CameraEndsWithPage` | camera/page.tsx:199 | permission given after the page was left starts a camera that nothing stops | the comment there, "Stream cleanup on unmount" |
| `FlashIsBrief` | camera/page.tsx:325 | the flash covers the viewfinder until the upload of the picture ends | the comment there, "brief white flash" |

Met while reading, without a property:
- the workers for `sender-key-distribution` and `message-fanout` expect other payloads than the API
  enqueues and throw on every job (Q/jobs/sender-key-distribution.ts:399, Q/jobs/message-fanout.ts:271,
  against README.md:314 and docs/encryption.md:88);
- a reconnected client sends message ids where the server makes dates of them
  (A/websocket/index.ts:214; `Reconnect` of `Outbox`), so that the queries behind it
  (MessageRepository.ts:361, strictly later than a timestamp and limited) are never reached;
- a message in a closed conversation counts as two unread (W/stores/chatStore.ts:454 and
  useMessages.ts:974; `AddMessage` in `ClientView` does the same);
- no revocation disconnects a socket (docs/websocket-events.md:115);
- a direct conversation is looked up and created in two calls (ConversationService.ts:169);
- docs/websocket-events.md:58 names endless reconnection attempts and the client makes five; 128 names
  an error event where the limiter disconnects without one; 522 says "all other participants" and the
  typist's own sockets in the room get the indicator too;
- after an error the camera that is granted again stays black, because the new video element is
  given no stream (`remounted` of `Camera`); a stream overtaken by the next one rejects its `play()` and
  brings the error screen although a camera runs.

## Proofs

A run shows a property for a few sessions, messages or sockets; the theorems below say it
for every value of the constants: any sets of sessions, users, requests, messages, tabs,
sockets, drafts and instances of a hook, any lifetimes, thresholds and batch sizes. Bounds
such as `MaxNow`, `MaxWire` or `MaxVersion` stay constants, so that what is proved holds for
every bound. There are eight modules of proofs; three of them hold those of a second
component, which shares nothing with the first but the way it is proved: `ClientTokensProofs`
those of `Stories`, `PreKeysProofs` those of `Typing`, `RealtimeProofs` those of `Camera`.

| Module | Theorem | States |
|---|---|---|
| `AuthSessionsProofs` | `KeysTrackExpiry` | `Spec => []BlacklistTracksExpiry`: a blacklist key that was set covers the life of its JWT |
| | `EndedSessionsAreRejected` | `Spec => []EndedIsRejected`: an ended session outside the window of revoke-all is refused |
| | `RejectionIsFinal` | `Spec => RejectedStaysRejected`: a refused access token is never accepted again |
| | `SpentTokensStaySpent` | `Spec => SpentStaysSpent`: an exchanged refresh token stays revoked and makes no further session |
| | `ServiceImplementsRegistry` | `Spec => ImplementsRegistry`: the refinement of `SessionRegistry` |
| `ClientTokensProofs` | `SharedRefreshDoesNoHarm` | `Spec => []RefreshKeepsSession`: the pair of the store can be exchanged, and is presented once |
| | `StoriesCleanupIsExact` | `StoriesSpec => CleanupIsExact`: a job that ends without an error leaves nothing that had expired when it began, and a story goes before its time by its author's hand only |
| `MessagesProofs` | `SendsHappenAtMostOnce` | `Spec => []SendsHappenOnce`: at most one row, every acknowledgement names it, at most one fan-out job |
| | `DeletedStaysDeleted` | `Spec => DeletionIsFinal`: no write brings a deleted message back |
| | `SettledViewMatchesRow` | `Spec => []SettledViewIsRow`: what a connected recipient displays is the row |
| | `ServiceImplementsLog` | `Spec => ImplementsLog`: the refinement of `MessageLog` |
| `PreKeysProofs` | `KeysAreReturnedOnce` | `Spec => []PoolIsUnspent` |
| | `FirstMessagesAreDecrypted` | `Spec => []FirstMessagesDecrypt`: identity, signed key and one-time key of a first message are there when it arrives |
| | `TypingStopHides` | `TypingSpec => []StopHides`: a stop that nothing disturbed takes the indicator away |
| | `TypingOnlyExcessDisconnects` | `TypingSpec => OnlyExcessDisconnects`: who is disconnected sent too much within a window, or has a stuck counter |
| `GroupsProofs` | `FanOutGoesToTheRecent` | `Spec => []FanOutIsRecent` |
| | `LastNoticeIsTheRow` | `Spec => []LastNoticeMatchesRow` |
| | `RemovalsLeaveAnAdmin` | `Spec => []LastAdminGoesByOwnHand` |
| `RealtimeProofs` | `SequencesLeaveWhatIs` | `Spec => []SequencesSettle`: presence and rooms are what the sockets are |
| | `CameraNothingRunsUnheld` | `CameraSpec => []NothingRunsUnheld`: no stream runs, and no picture is kept, that the page does not hold |
| | `CameraViewShowsCamera` | `CameraSpec => []ViewShowsCamera`: a page at rest shows the camera it holds |
| | `CameraBarShowsUpload` | `CameraSpec => []BarShowsUpload`: the bar is that of the upload that runs |
| `ClientViewProofs` | `OpenConversationsAreRead` | `Spec => []OpenHasNoUnread` |
| | `QuietListIsRows` | `Spec => []ListIsRows` |
| | `DeletedIsForgotten` | `Spec => []SearchForgetsDeleted` |
| `OutboxProofs` | `SendsShowHowTheyEnded` | `Spec => []SendOutcomeIsShown` |
| | `SettledEntriesAreRows` | `Spec => []SettledEntryIsRow` |

For each component there is also the theorem that its type invariant holds: `TypeCorrect`, and
`StoriesTypeCorrect`, `TypingTypeCorrect`, `CameraTypeCorrect`. All but `RejectionIsFinal`
and `DeletedStaysDeleted` state properties of the runs. `RejectedStaysRejected` says of every access
token that was received what `ImplementsRegistry` says of those a client may count on, those in the
window of revoke-all left aside, and `DeletionIsFinal` says of the rows what `ImplementsLog` says of
the texts; neither has a run of its own.

Assumptions: the named ASSUMEs of the modules, which TLC evaluates in the runs. The proofs use
that `Second`, `AccessTtl` and `RefreshTtl` are positive and `NoSession` is no session
(`AuthSessions`, `ClientTokens`); that the author of a draft is a user and the bounds are numbers
(`Messages`); that `BatchSize` and `MaxBatches` are positive and the ids suffice for one batch (`PreKeys`); that `CacheTtl` is positive
(`Groups`: a cache that lives no time would serve nothing); that the page's instance is one of
the hooks and a message has a first version (`ClientView`, `MaxVersion` positive); the same of
`MaxText` (`Outbox`); that the lives, the window and the limits are positive and `NoSocket` is no
socket (`Typing`); that `Lifetime` is positive, the bounds are numbers and `NoStory`
is no story (`Stories`); that the page makes one call at least and `None` is neither a call nor a
file (`Camera`). Nothing is assumed of `Realtime`'s constants, and nowhere anything of
cardinalities or finiteness: that a cleanup has finitely many stories to count is proved.

Few of the properties are inductive: what a handler does after an await is right because of what
it did before, so that the invariants say, slot by slot, what the code between two calls may
rely on. All proofs have the same shape: the parts of the invariant as named operators, a lemma
for each part, or for a part and a group of actions, with one step per action, and a last lemma
that puts them together. The invariants, with the argument of each:

**AuthSessions.** `IInv` has four parts. `Typed`: types, and which slots hold a session or a
token. `TimesOK(s)`: a JWT expires no later than its row and less than a second before it, and a
key that was set lasts at least as long as its JWT; a ttl that was computed covers the JWT from any
later moment on, because it counts from the `SETEX`. It needs the bounds of the
roundings (`FloorSecondBounds`, `CeilSecondBounds`, `RemainingTtlBounds`,
`RemainingJwtTtlBounds`), the only arithmetic of the proof. `HandlerOK(r)`: what a handler may
rely on after each await, for instance that the given session is `Dead` (it has expired, or has
a key) when its row is about to be revoked. `RowOK(s)`: a session that is ended, revoked or has
a child is `Dead` or in the window. `Stable` states what no step undoes (time, identities, keys,
the window); `StableNext` proves it once for all actions, and it makes the facts one handler
relies on survive the steps of all others (`HandlerStable`). `RejectionIsFinal` follows from the
invariant before the step: an issued session whose token is refused is `Dead`, `Stable` keeps it
so, and by `TimesOK` after the step its key covers the life of its JWT.
`RInv` adds rotation: two requests never make one session, what a request exchanges was received
and is consumed first (`RotationOK`), and a parent was received and its refresh token is revoked
(`FamilyOK`). From it follow `SpentStaysSpent` (a request that would make a further child would
have to be redeeming) and the refinement, which goes action by action: `Respond` is a registry
`Issue`, what revokes, blacklists or expires is an `End`, everything else leaves the mapped
variables as they are.

**ClientTokens.** `PairInv`: the store holds the pair a refresh in flight exchanges (`StoreOK`);
what was presented and is not being exchanged was presented by a page that was unloaded
(`PresentedOK`); the answer of a refresh is a new pair (`AnswerOK`).

**Messages.** `IInv`: a request past the lookup holds a stored row of its client id
(`HandlerOK`), only the request that inserted a row enqueues its job, and has not yet (`JobOK`),
one row per client id (`RowOK`). `VInv` adds, for a message without overlapping, cut-off or silent
events, that every pending broadcast carries the text of the row and that a display behind the row
has a broadcast coming (`ViewOK`), which needs that a tombstone no edit overtook is blank
(`TombstoneOK`). The refinement of `MessageLog` needs of `IInv` that the row of a composed message is
unique, so that the mapping may choose it (`RowOfIs`), and `TextOK`: what is about to be stored, and
what a message that is not deleted holds, is a text. It goes action by action: the insert is
`Compose`, the enqueueing `Enqueue`, the answer `Tell`, a write to a row that is not deleted `Edit`
or `Delete`, and everything else leaves the mapped variables as they are.

**PreKeys.** `Typed` includes that tabs that prepare a bundle have bundles of their own, and what a
tab holds at each step. `PoolOK`, while no fetch wrote back a pool it no longer read: keys are
in the pool once, were not returned, and come from bundles that were uploaded (`Published`), so
that an upload adds only new ones. `InboxOK`: a message uses a key that was taken, and no other
message uses it, so that removing it takes nothing from another. `MessagesOK` says what is stored
while no tab stored over another: the identity and the signed keys (`SignedOK`) of the messages
on their way, of the row, of the fetches and of the bundles being made, and the one-time keys
(`OneTimeOK`) of the messages, of the pool and of what each tab has stored so far.

**Groups.** `ListsOK`: a list read or cached at a time is right about everyone who has not changed
since (`Reflects`); that list and table differ only by recent changes is what bounds the lag of
a job. `NoticesOK`: what is about to be announced of a user whose changes did not overlap is what
the row is. `AdminsOK`: whoever is changing the members is an admin still or is leaving.

**Realtime.** While nothing overlapped or failed the sockets arrive and leave in turns (`Turns`),
from which the row, the key, the listed rooms and what contacts were shown follow sequence by
sequence (`RowOK`, `KeyOK`, `ListedOK`, `ShownOK`). `RoomsOK` needs no turns.

**Typing.** `StopOnItsWay`: while the last event is a stop that nothing disturbed, either the one
busy call is handling it, or it is the last on the wire, or the indicator is hidden; a start that
overlaps it would have disturbed it. `CountOK` relates the limiter's counter to the history:
`recent` grows with the age, and a counter is at most the number of events since its window began,
which is `Age` of what is left of its life. A counter without an end began in this tick and its call
is about to set the end (`Expiring`), unless its socket is stuck. A counter above the limit therefore
means more events within a window than allowed.

**Stories.** A job counts down from the number of expired stories that it found, batch after batch,
and ends when nothing is left. `JobOK(j)`: the stories it has still to remove (`Due`, the expired
ones and its batch) are finitely many and not more than it still counts, and its batch holds none
but those and what others removed meanwhile. Nothing expires for it later (its clock stays that of
its beginning) and no id is used again, so what others do only makes `Due` smaller (`WorkShrinks`).
That the first count is a number needs `StoredOK`: finitely many stories are stored, since each step
stores at most one.

**Camera.** Calls are numbered as they start, and the last one has the facing mode of the page
(`StartsOK`). `AnsweredOK`: unless a call waits for its answer, what is queued for the next render is
an error or a camera that runs, that of the last call if the answers came in order. `AloneOK`: a
call that overlapped none and was not refused leaves no error. `StreamsHeld` and `PicturesHeld` are
the two halves of `NothingRunsUnheld`. The uploads need only that those that did not overlap are one
at a time (`UploadsOK`); `BarShowsUpload` is inductive with it.

**ClientView.** Whatever the tab holds of a message (an entry, a row of a load, an event, a text
being decrypted) is something its row is or was (`Past`, in `WireOK` and `PastOK`), so that nothing
in the tab runs ahead of the row; and an event that is not how its row stands has been overtaken,
or that of a newer change is pending, or is behind it on the wire (`WireOK`). `ListOK`: a message
without events pending or on the wire (`OnItsWay`) is as its row, or is stale, or is being decrypted,
and so is it in a load that is not behind on it. Receiving the last event therefore makes the entry
equal to the row, or the message stale. `IndexOK`: of a tombstone that is not stained nothing is in the
index and nothing will be put there.

**Outbox.** `SendOK` matches each place a send may be at with the row, the entry and the
acknowledgement. `FollowsOK` is one relation between an entry and its row: where they differ, the
change was missed, or its response, receipt or event is still on its way (`Telling`); rows of a load
that was answered are so related too, with the changes since the answer as the missed ones, which
is why they may replace the list at any time. `CallsOK` is what edits and deletions have found and
written.

Invariants were checked by TLC before they were proved, where that was in its reach.
Two proofs did not go through as the constants were first described: where `NoSession` may be a
session, a tab can be signed in without a pair (`ClientTokens`), and where there is no first
version, a new message has a text outside `Texts` (`ClientView`). Both are assumptions of the
modules now. So is that `None` is no call (`Camera`): otherwise a page without a stream would hold
one. In `Typing`, the history of events was a count for each age, so that the property summed over
ages; it counts cumulatively now, which says the same and needs no sum, about which nothing can be
proved by induction here.

Only model-checked: the liveness properties `GoneIsRecorded`, `CallsSettle`, `ExpiredGoAway` and
`IndicatorEnds`, and that `SocketComesBack` is violated. Liveness rests on fairness, and fairness on
ENABLED, which are out of the prover's reach. Every other property of a run is a theorem.

## Not modelled

- Cryptography and the Signal library, password hashing, validation, formatting, logging,
  metrics, HTTP and React rendering: data that no property looks at.
- PostgreSQL and Redis themselves: a call is one atomic step, as a single statement is at the
  isolation Prisma uses, and `batchMarkRead` is one because it is one transaction. Loss of data
  by either store is left out; failures of calls are in.
- Clocks that differ between instances. All instances share one.
- Users, audit log, health and the HTTP shell: guarded writes of single rows and counters without
  interaction. The client's pages other than the camera, and its settings, contacts and story
  stores: view state set by one actor.
- The job processors of `message-fanout` and `sender-key-distribution` beyond what is enqueued for
  them, since they throw on every payload; those of the other two queues get no job.
- The queries of a sync, since no client reaches them.
- More than the 1000 conversations whose rooms a connection joins (A/websocket/index.ts:140).
- In the modelled components: cursors and paging of histories, link previews, archived, muted and
  pinned flags, direct conversations, `consumePreKey`, `addPreKeys` and `updateParticipantRole`
  (no caller), `cleanupExpired` of StoryService (replaced by the worker's job), downloads and the
  validation of media, voice notes (no screen records one).
