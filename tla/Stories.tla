------------------------------ MODULE Stories ------------------------------
(***************************************************************************)
(* Stories, their views and their media: StoryService and MediaService of  *)
(* the API over PostgreSQL and the upload directory, and the story-cleanup *)
(* job of the worker, which runs every hour, up to five at a time, and is  *)
(* repeated when it failed.                                                *)
(*                                                                         *)
(* One action is one awaited call.  A view refers to its story with ON     *)
(* DELETE CASCADE, a media row with ON DELETE SET NULL.  A media row is    *)
(* attached to a story by an upload that names the story; a story is       *)
(* created without media, since the controller passes none on.             *)
(***************************************************************************)
EXTENDS Integers, FiniteSets, FiniteSetsExt

CONSTANTS
    StoryIds,
    MediaIds,
    Viewers,
    Jobs,       \* the cleanup jobs that may run at one time
    NoStory,
    Lifetime,   \* STORY_EXPIRY_HOURS, in ticks
    BatchSize,  \* BATCH_SIZE
    MaxNow,     \* bound: the last tick of the clock
    MaxFaults   \* bound: calls that fail

ASSUME LifetimeAssumption == Lifetime \in Nat \ {0}
ASSUME BatchAssumption == BatchSize \in Nat \ {0}
ASSUME NoStoryAssumption == NoStory \notin StoryIds
ASSUME BoundAssumption == MaxNow \in Nat /\ MaxFaults \in Nat

VARIABLES
    now,
    story,     \* the stories table
    views,     \* the story_views table: pairs of a story and a viewer
    media,     \* the media table: the story a row belongs to
    files,     \* paths under the upload directory
    viewing,   \* per viewer: a POST /stories/:id/view
    deleting,  \* per story: its author's DELETE /stories/:id
    uploading, \* per media: a POST /media/upload
    job,       \* the cleanup jobs
    faults     \* history: calls that have failed

rows == <<story, views, media, files>>
requests == <<viewing, deleting, uploading>>
storiesVars == <<now, rows, requests, job, faults>>

-----------------------------------------------------------------------------
\* Where a file is stored, where StorageProvider looks for the URL of its row, and
\* where the cleanup job looks for its original name.
StoredByUrl(m) == [dir |-> "uploads/uploads/media", file |-> m] \* mutant of Stored
Stored(m) == [dir |-> "uploads/media", file |-> m]
PathOfUrl(m) == [dir |-> "uploads/uploads/media", file |-> m]
PathOfName(m) == [dir |-> "uploads", file |-> m]

Exists(s) == story[s].state = "stored"
Rows == {m \in MediaIds : media[m].state = "row"}
MediaOf(S) == {m \in Rows : media[m].story \in S}

NoRequest == [pc |-> "idle", story |-> NoStory]
NoDelete == [pc |-> "idle", media |-> {}]
NoJob == [pc |-> "idle", now |-> 0, left |-> 0, batch |-> {}, media |-> {}]

StoriesInit ==
    /\ now = 0
    /\ story = [s \in StoryIds |-> [state |-> "none", expiresAt |-> 0]]
    /\ views = {}
    /\ media = [m \in MediaIds |-> [state |-> "none", story |-> NoStory]]
    /\ files = {}
    /\ viewing = [v \in Viewers |-> NoRequest]
    /\ deleting = [s \in StoryIds |-> NoDelete]
    /\ uploading = [m \in MediaIds |-> NoRequest]
    /\ job = [j \in Jobs |-> NoJob]
    /\ faults = 0

\* DELETE FROM stories: views follow, media rows lose their story.
DeleteStories(S) ==
    /\ story' = [s \in StoryIds |-> IF s \in S /\ Exists(s)
                   THEN [state |-> "gone", expiresAt |-> 0] ELSE story[s]]
    /\ views' = {w \in views : w[1] \notin S}
    /\ media' = [m \in MediaIds |-> IF media[m].story \in S
                   THEN [media[m] EXCEPT !.story = NoStory] ELSE media[m]]

-----------------------------------------------------------------------------
(* Authors and viewers                                                     *)

Create(s) ==
    /\ story[s].state = "none"
    /\ story' = [story EXCEPT ![s] = [state |-> "stored", expiresAt |-> now + Lifetime]]
    /\ UNCHANGED <<now, views, media, files, requests, job, faults>>

\* viewStory: the story, its expiry.
ViewFind(v, s) ==
    /\ viewing[v].pc = "idle"
    /\ Exists(s) /\ story[s].expiresAt >= now
    /\ viewing' = [viewing EXCEPT ![v] = [pc |-> "add", story |-> s]]
    /\ UNCHANGED <<now, rows, deleting, uploading, job, faults>>

\* addView: looked up, and inserted when it is not there. The insertion is refused
\* without its story, and no error when the view has come in between.
AddView(v) ==
    LET w == <<viewing[v].story, v>>
    IN  /\ viewing[v].pc = "add"
        /\ IF Exists(viewing[v].story)
           THEN views' = views \cup {w}
           ELSE UNCHANGED views
        /\ viewing' = [viewing EXCEPT ![v] = NoRequest]
        /\ UNCHANGED <<now, story, media, files, deleting, uploading, job, faults>>

\* deleteStory: the story with its first media row.
DeleteFind(s) ==
    /\ deleting[s].pc = "idle" /\ Exists(s)
    /\ \E M \in SUBSET MediaOf({s}) :
          /\ Cardinality(M) = (IF MediaOf({s}) = {} THEN 0 ELSE 1)
          /\ deleting' = [deleting EXCEPT ![s] = [pc |-> "files", media |-> M]]
    /\ UNCHANGED <<now, rows, viewing, uploading, job, faults>>

\* The files, then the views.
DeleteFiles(s) ==
    /\ deleting[s].pc = "files"
    /\ files' = files \ {PathOfUrl(m) : m \in deleting[s].media}
    /\ views' = {w \in views : w[1] # s}
    /\ deleting' = [deleting EXCEPT ![s].pc = "row"]
    /\ UNCHANGED <<now, story, media, viewing, uploading, job, faults>>

\* Fails without effect when the cleanup was first.
DeleteRow(s) ==
    /\ deleting[s].pc = "row"
    /\ DeleteStories({s})
    /\ deleting' = [deleting EXCEPT ![s] = NoDelete]
    /\ UNCHANGED <<now, files, viewing, uploading, job, faults>>

\* uploadMedia for a story: the file. Whether there is a story is not asked: it may
\* go before the row comes, as if it had never been there.
UploadStore(m, s) ==
    /\ uploading[m].pc = "idle" /\ media[m].state = "none"
    /\ Exists(s)
    /\ files' = files \cup {Stored(m)}
    /\ uploading' = [uploading EXCEPT ![m] = [pc |-> "row", story |-> s]]
    /\ UNCHANGED <<now, story, views, media, viewing, deleting, job, faults>>

\* The row, refused without its story.
UploadRow(m) ==
    /\ uploading[m].pc = "row"
    /\ media' = IF Exists(uploading[m].story)
                THEN [media EXCEPT ![m] = [state |-> "row", story |-> uploading[m].story]]
                ELSE media
    /\ uploading' = [uploading EXCEPT ![m] = NoRequest]
    /\ UNCHANGED <<now, story, views, files, viewing, deleting, job, faults>>

\* A call of a deletion fails, or its instance stops: what it did stays done, and the
\* author may ask again. Another request that fails stays where it is.
Abort ==
    /\ faults < MaxFaults
    /\ faults' = faults + 1
    /\ \E s \in StoryIds : /\ deleting[s].pc # "idle"
                           /\ deleting' = [deleting EXCEPT ![s] = NoDelete]
    /\ UNCHANGED <<now, rows, viewing, uploading, job>>

-----------------------------------------------------------------------------
(* The cleanup job                                                         *)

\* Mutant: stories that expire at this very moment, and all others, are taken.
ExpiredForUnfiltered(j) == {s \in StoryIds : Exists(s)}

\* The stories the job's condition selects: expired before it began.
ExpiredFor(j) == {s \in StoryIds : Exists(s) /\ story[s].expiresAt < job[j].now}

\* Mutant: the clock is that of the repeated job's payload, set at the first start.
JobStartAtBoot(j) ==
    LET total == Cardinality({s \in StoryIds : Exists(s) /\ story[s].expiresAt < 0})
    IN  /\ job[j].pc = "idle" /\ total > 0
        /\ job' = [job EXCEPT ![j] = [NoJob EXCEPT !.pc = "find", !.left = total]]
        /\ UNCHANGED <<now, rows, requests, faults>>

\* The clock is read and the expired stories are counted; without one the job ends.
JobStart(j) ==
    LET total == Cardinality({s \in StoryIds : Exists(s) /\ story[s].expiresAt < now})
    IN  /\ job[j].pc = "idle" /\ total > 0
        /\ job' = [job EXCEPT ![j] =
              [NoJob EXCEPT !.pc = "find", !.now = now, !.left = total]]
        /\ UNCHANGED <<now, rows, requests, faults>>

\* Mutant: the batches are paged through with an offset.
JobFindPaged(j) ==
    LET size == Cardinality(ExpiredFor(j)) - 1
    IN  /\ job[j].pc = "find"
        /\ IF job[j].left <= 0 \/ size <= 0
           THEN job' = [job EXCEPT ![j] = NoJob]
           ELSE \E B \in kSubset(IF size < BatchSize THEN size ELSE BatchSize, ExpiredFor(j)) :
                   job' = [job EXCEPT ![j].pc = "views", ![j].batch = B,
                                      ![j].media = MediaOf(B)]
        /\ UNCHANGED <<now, rows, requests, faults>>

\* The next batch, in no particular order, until as many stories as were counted
\* have been processed or none is left.
JobFind(j) ==
    LET size == Cardinality(ExpiredFor(j))
    IN  /\ job[j].pc = "find"
        /\ IF job[j].left <= 0 \/ size = 0
           THEN job' = [job EXCEPT ![j] = NoJob]
           ELSE \E B \in kSubset(IF size < BatchSize THEN size ELSE BatchSize, ExpiredFor(j)) :
                   job' = [job EXCEPT ![j].pc = "views", ![j].batch = B,
                                      ![j].media = MediaOf(B)]
        /\ UNCHANGED <<now, rows, requests, faults>>

\* The files of the batch, then its views.
JobViews(j) ==
    /\ job[j].pc = "views"
    /\ files' = files \ {PathOfName(m) : m \in job[j].media}
    /\ views' = {w \in views : w[1] \notin job[j].batch}
    /\ job' = [job EXCEPT ![j].pc = "media"]
    /\ UNCHANGED <<now, story, media, requests, faults>>

JobMedia(j) ==
    /\ job[j].pc = "media"
    /\ media' = [m \in MediaIds |-> IF m \in job[j].media
                   THEN [state |-> "deleted", story |-> NoStory] ELSE media[m]]
    /\ job' = [job EXCEPT ![j].pc = "stories", ![j].media = {}]
    /\ UNCHANGED <<now, story, views, files, requests, faults>>

JobStories(j) ==
    /\ job[j].pc = "stories"
    /\ DeleteStories(job[j].batch)
    /\ job' = [job EXCEPT ![j].pc = "find", ![j].batch = {},
                          ![j].left = @ - Cardinality(job[j].batch)]
    /\ UNCHANGED <<now, files, requests, faults>>

\* A call fails, or the worker stops: the job starts again later.
JobFails(j) ==
    /\ job[j].pc # "idle"
    /\ faults < MaxFaults
    /\ faults' = faults + 1
    /\ job' = [job EXCEPT ![j] = NoJob]
    /\ UNCHANGED <<now, rows, requests>>

Tick ==
    /\ now < MaxNow
    /\ now' = now + 1
    /\ UNCHANGED <<rows, requests, job, faults>>

-----------------------------------------------------------------------------
JobStep(j) ==
    \/ JobStart(j) \/ JobFind(j) \/ JobViews(j) \/ JobMedia(j) \/ JobStories(j)

StoriesNext ==
    \/ \E s \in StoryIds : \/ Create(s)
                           \/ DeleteFind(s) \/ DeleteFiles(s) \/ DeleteRow(s)
    \/ \E v \in Viewers : \/ \E s \in StoryIds : ViewFind(v, s)
                          \/ AddView(v)
    \/ \E m \in MediaIds : \/ \E s \in StoryIds : UploadStore(m, s)
                           \/ UploadRow(m)
    \/ Abort
    \/ \E j \in Jobs : JobStep(j) \/ JobFails(j)
    \/ Tick

StoriesSpec == StoriesInit /\ [][StoriesNext]_storiesVars

\* The hourly schedule starts job after job; one of them may be stuck, not all.
StoriesFairSpec == StoriesSpec /\ WF_storiesVars(\E j \in Jobs : JobStep(j))

-----------------------------------------------------------------------------
Paths == [dir : {"uploads/media"}, file : MediaIds]
Requests == [pc : {"idle", "add", "row"}, story : StoryIds \cup {NoStory}]

StoriesTypeOK ==
    /\ now \in 0..MaxNow /\ faults \in 0..MaxFaults
    /\ story \in [StoryIds -> [state : {"none", "stored", "gone"}, expiresAt : Nat]]
    /\ views \subseteq StoryIds \X Viewers
    /\ media \in [MediaIds -> [state : {"none", "row", "deleted"},
                               story : StoryIds \cup {NoStory}]]
    /\ files \subseteq Paths
    /\ viewing \in [Viewers -> Requests]
    /\ uploading \in [MediaIds -> Requests]
    /\ deleting \in [StoryIds -> [pc : {"idle", "files", "row"},
                                  media : SUBSET MediaIds]]
    /\ job \in [Jobs -> [pc : {"idle", "find", "views", "media",
                               "stories"},
                         now : 0..MaxNow, left : Int,
                         batch : SUBSET StoryIds, media : SUBSET MediaIds]]

\* A cleanup that ends without an error leaves no story that had expired when it
\* began, whatever its author and other cleanups did to the batches meanwhile.
CleanupIsComplete ==
    [][\A j \in Jobs : job[j].pc # "idle" /\ job'[j].pc = "idle" /\ faults' = faults
                           => ExpiredFor(j) = {}]_storiesVars

\* A story goes before its time only by its author's hand.
OnlyExpiredGo ==
    [][\A s \in StoryIds : Exists(s) /\ ~Exists(s)'
          => story[s].expiresAt < now \/ deleting[s].pc = "row"]_storiesVars

\* The cleanup job removes what has expired, all of it and nothing else.
CleanupIsExact == CleanupIsComplete /\ OnlyExpiredGo

\* A story that has expired is eventually removed, in spite of failures.
ExpiredGoAway ==
    \A s \in StoryIds : (Exists(s) /\ story[s].expiresAt < now) ~> ~Exists(s)

-----------------------------------------------------------------------------
(* What the documents say and the code does not do                         *)

\* "Automated media cleanup" (README): with a story go the files of its media.
FilesGoWithStory ==
    \A m \in MediaIds : media[m].state = "deleted" => Stored(m) \notin files

\* The media rows of a story go with it ("media metadata", the cleanup job).
MediaGoesWithStory ==
    \A m \in Rows : media[m].story # NoStory
=============================================================================
