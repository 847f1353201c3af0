------------------------------- MODULE Camera -------------------------------
(***************************************************************************)
(* One visit of the camera page of the web client: the camera streams it   *)
(* asks the browser for, the pictures it takes, and their uploads.         *)
(*                                                                         *)
(* A call of startCamera waits for getUserMedia and then for the video     *)
(* element to play.  What a continuation sets is queued and shown by the   *)
(* next Render, which also runs the cleanup of a stream that is no longer  *)
(* the page's; a click is handled, rendered and its effects run at once.   *)
(* A browser goes on with what was asked for when the page is gone.        *)
(***************************************************************************)
EXTENDS Naturals, FiniteSets

CONSTANTS
    MaxCalls,   \* bound: calls of startCamera, numbered as they start
    Files,      \* pictures taken or picked
    None

Calls == 1 .. MaxCalls
Modes == {"environment", "user"}

ASSUME CameraAssumption == MaxCalls \in Nat \ {0} /\ None \notin Calls \cup Files

VARIABLES
    page,       \* "open", "closed" (its close button was pressed), "left"
    facing,     \* facingMode
    call,       \* calls of startCamera
    track,      \* the tracks of the stream a call was granted
    stream, nextStream,     \* state of the page: rendered and queued
    error, nextError,       \* cameraError: rendered and queued
    src,        \* srcObject of the video element, which is there without error
    file,       \* pictures: where their upload is
    url,        \* object URLs of the photo strip
    capturing,  \* isCapturing
    bar,        \* uploadState of useMediaUpload
    burst,      \* history: about the calls since none was pending
    remounted,  \* history: the video element is new and has had no stream
    escaped,    \* history: streams and pictures the page never had hold of
    finished,   \* history: the upload that ended last
    parallel  \* history: uploads have run at the same time

camera == <<facing, call, track, stream, nextStream, error, nextError, src, burst, remounted>>
pictures == <<file, url, capturing, bar, finished, parallel>>
cameraVars == <<page, camera, pictures, escaped>>

NoCall == [pc |-> "idle", facing |-> "environment"]
NoFile == [pc |-> "none", image |-> TRUE, taken |-> FALSE]
NoPair == [file |-> None, ok |-> FALSE]
Fresh == [denied |-> FALSE, overlapped |-> FALSE, crossed |-> FALSE]
Initial == [uploading |-> FALSE, status |-> "idle", error |-> FALSE, media |-> None]

Complete(f) == [Initial EXCEPT !.status = "complete", !.media = f]
Failed == [Initial EXCEPT !.status = "error", !.error = TRUE]

Waiting == {"asking", "playing"}
Pending == {c \in Calls : call[c].pc \in Waiting}
Uploading == {"thumbnail", "preflight", "encrypting", "encryptingThumb", "sending"}
InFlight == {f \in Files : file[f].pc \in Uploading}
Mounted == page # "left"
HasVideo == Mounted /\ ~error

\* The page opens: its effect calls startCamera for the rear camera.
CameraInit ==
    /\ page = "open" /\ facing = "environment"
    /\ call = [c \in Calls |-> IF c = 1 THEN [NoCall EXCEPT !.pc = "asking"] ELSE NoCall]
    /\ track = [c \in Calls |-> "none"]
    /\ stream = None /\ nextStream = None
    /\ error = FALSE /\ nextError = FALSE
    /\ src = None
    /\ file = [f \in Files |-> NoFile]
    /\ url = [f \in Files |-> "none"]
    /\ capturing = FALSE
    /\ bar = Initial
    /\ burst = Fresh /\ remounted = FALSE
    /\ escaped = {} /\ finished = NoPair /\ parallel = FALSE

-----------------------------------------------------------------------------
(* The camera                                                              *)

\* What track.stop() does to every track of a stream.
Stopped(tracks, s) == IF s = None THEN tracks ELSE [tracks EXCEPT ![s] = "stopped"]

\* The call goes with the mode its closure was made with.
StartCamera(c, mode) ==
    /\ call[c].pc = "idle" /\ \A d \in Calls : d < c => call[d].pc # "idle"
    /\ track' = Stopped(track, stream)
    /\ call' = [call EXCEPT ![c] = [pc |-> "asking", facing |-> mode]]
    /\ burst' = IF Pending = {} THEN Fresh ELSE [burst EXCEPT !.overlapped = TRUE]

\* Mutant: startCamera memoized without the mode.
FlipStale(c) ==
    LET mode == CHOOSE m \in Modes : m # facing IN
    /\ Mounted
    /\ facing' = mode
    /\ StartCamera(c, "environment")
    /\ UNCHANGED <<page, stream, nextStream, error, nextError, src, remounted, escaped, pictures>>

Flip(c) ==
    LET mode == CHOOSE m \in Modes : m # facing IN
    /\ Mounted
    /\ facing' = mode
    /\ StartCamera(c, mode)
    /\ UNCHANGED <<page, stream, nextStream, error, nextError, src, remounted, escaped, pictures>>

\* The button of the error screen.
GrantAccess(c) ==
    /\ Mounted /\ error
    /\ StartCamera(c, facing)
    /\ UNCHANGED <<page, facing, stream, nextStream, error, nextError, src, remounted, escaped, pictures>>

\* A call that was made later has been answered before this one.
Crosses(c) == \E d \in Calls : d > c /\ call[d].pc \notin {"idle", "asking"}

\* getUserMedia answers with a stream.  On a page that is gone, setState is
\* without effect and there is no video element.
Granted(c) ==
    /\ call[c].pc = "asking"
    /\ track' = [track EXCEPT ![c] = "live"]
    /\ IF Mounted
       THEN /\ nextStream' = c /\ nextError' = FALSE
            /\ escaped' = IF nextStream = stream THEN escaped ELSE escaped \cup {nextStream}
            /\ burst' = [burst EXCEPT !.crossed = @ \/ Crosses(c)]
       ELSE /\ escaped' = escaped \cup {c}
            /\ UNCHANGED <<nextStream, nextError, burst>>
    /\ IF HasVideo
       THEN /\ src' = c /\ remounted' = FALSE
            /\ call' = [call EXCEPT ![c].pc = "playing"]
       ELSE /\ call' = [call EXCEPT ![c].pc = "done"]
            /\ UNCHANGED <<src, remounted>>
    /\ UNCHANGED <<page, facing, stream, error, pictures>>

ReportError(c) ==
    /\ nextError' = IF Mounted THEN TRUE ELSE nextError
    /\ call' = [call EXCEPT ![c].pc = "done"]

Denied(c) ==
    /\ call[c].pc = "asking"
    /\ ReportError(c)
    /\ burst' = [burst EXCEPT !.denied = TRUE, !.crossed = @ \/ Crosses(c)]
    /\ UNCHANGED <<page, facing, track, stream, nextStream, error, src, remounted, escaped, pictures>>

Plays(c) ==
    /\ call[c].pc = "playing" /\ HasVideo /\ src = c
    /\ call' = [call EXCEPT ![c].pc = "done"]
    /\ UNCHANGED <<page, facing, track, stream, nextStream, error, nextError, src, burst, remounted, escaped, pictures>>

\* play() rejects when the element gets another stream or is removed.
PlayIsInterrupted(c) ==
    /\ call[c].pc = "playing" /\ ~(HasVideo /\ src = c)
    /\ ReportError(c)
    /\ UNCHANGED <<page, facing, track, stream, nextStream, error, src, burst, remounted, escaped, pictures>>

\* React shows what is queued.  The effect on the stream stops the one before.
Render ==
    /\ Mounted /\ <<nextStream, nextError>> # <<stream, error>>
    /\ stream' = nextStream /\ error' = nextError
    /\ track' = IF nextStream = stream THEN track ELSE Stopped(track, stream)
    /\ src' = IF nextError = error THEN src ELSE None
    /\ remounted' = IF nextError = error THEN remounted ELSE error
    /\ UNCHANGED <<page, facing, call, nextStream, nextError, burst, escaped, pictures>>

\* handleClose; the navigation follows.
Close ==
    /\ Mounted
    /\ page' = "closed"
    /\ track' = Stopped(track, stream)
    /\ UNCHANGED <<facing, call, stream, nextStream, error, nextError, src, burst, remounted, escaped, pictures>>

\* Mutant: the cleanup runs on unmount alone, with the stream of the first render.
LeaveStale ==
    /\ Mounted
    /\ page' = "left"
    /\ url' = [f \in Files |-> IF url[f] = "live" THEN "revoked" ELSE url[f]]
    /\ escaped' = IF nextStream = stream THEN escaped ELSE escaped \cup {nextStream}
    /\ UNCHANGED <<facing, call, track, stream, nextStream, error, nextError, src, burst, remounted,
                   file, capturing, bar, finished, parallel>>

\* The page unmounts, after Close or by any other navigation: the cleanups of
\* the stream and of the object URLs run, uploads and requests go on.
Leave ==
    /\ Mounted
    /\ page' = "left"
    /\ track' = Stopped(track, stream)
    /\ url' = [f \in Files |-> IF url[f] = "live" THEN "revoked" ELSE url[f]]
    /\ escaped' = IF nextStream = stream THEN escaped ELSE escaped \cup {nextStream}
    /\ UNCHANGED <<facing, call, stream, nextStream, error, nextError, src, burst, remounted,
                   file, capturing, bar, finished, parallel>>

-----------------------------------------------------------------------------
(* Pictures and uploads                                                    *)

SetBar(b) == bar' = IF Mounted THEN b ELSE bar

\* onProgress, which also raises a percentage.
Report(status) == SetBar([bar EXCEPT !.status = status])

Goto(f, pc) == file' = [file EXCEPT ![f].pc = pc]
End(f) == file' = [file EXCEPT ![f] = [NoFile EXCEPT !.pc = "over"]]

\* resetState and uploadFile up to its first await.
StartUpload(f, image, taken) ==
    /\ file' = [file EXCEPT ![f] = [pc |-> IF image THEN "thumbnail" ELSE "preflight",
                                    image |-> image, taken |-> taken]]
    /\ SetBar([Initial EXCEPT !.uploading = TRUE,
                              !.status = IF image THEN "generating-thumbnail" ELSE "encrypting"])
    /\ parallel' = (InFlight # {})

CapturePhoto(f) ==
    /\ HasVideo /\ file[f].pc = "none"
    /\ capturing' = TRUE
    /\ Goto(f, "drawn")
    /\ UNCHANGED <<page, camera, url, bar, escaped, finished, parallel>>

NoBlob(f) ==
    /\ file[f].pc = "drawn"
    /\ capturing' = IF Mounted THEN FALSE ELSE capturing
    /\ End(f)
    /\ UNCHANGED <<page, camera, url, bar, escaped, finished, parallel>>

\* The callback of toBlob.
BlobReady(f) ==
    /\ file[f].pc = "drawn"
    /\ url' = [url EXCEPT ![f] = "live"]
    /\ escaped' = IF Mounted THEN escaped ELSE escaped \cup {f}
    /\ StartUpload(f, TRUE, TRUE)
    /\ UNCHANGED <<page, camera, capturing, finished>>

\* A file from the gallery; one that is too large or of another type is shown only.
HandleFileSelect(f, valid, image) ==
    /\ Mounted /\ file[f].pc = "none"
    /\ url' = [url EXCEPT ![f] = "live"]
    /\ IF valid THEN StartUpload(f, image, FALSE)
                ELSE End(f) /\ UNCHANGED <<bar, parallel>>
    /\ UNCHANGED <<page, camera, capturing, escaped, finished>>

uploadRest == <<page, camera, url, capturing, escaped, finished, parallel>>

ThumbnailReady(f) ==
    /\ file[f].pc = "thumbnail"
    /\ Goto(f, "preflight")
    /\ Report("encrypting")
    /\ UNCHANGED uploadRest

PreflightPasses(f) ==
    /\ file[f].pc = "preflight"
    /\ Goto(f, "encrypting")
    /\ Report("encrypting")
    /\ UNCHANGED uploadRest

FileIsEncrypted(f) ==
    /\ file[f].pc = "encrypting"
    /\ IF file[f].image THEN Goto(f, "encryptingThumb") /\ Report("encrypting")
                        ELSE Goto(f, "sending") /\ Report("uploading")
    /\ UNCHANGED uploadRest

ThumbnailIsEncrypted(f) ==
    /\ file[f].pc = "encryptingThumb"
    /\ Goto(f, "sending")
    /\ Report("uploading")
    /\ UNCHANGED uploadRest

\* A progress event of the XMLHttpRequest.
Progress(f) ==
    /\ file[f].pc = "sending"
    /\ Report("uploading")
    /\ UNCHANGED <<file, uploadRest>>

\* The end of uploadFile, and of capturePhoto's callback after it.
Finish(f, ok) ==
    /\ IF file[f].taken THEN Goto(f, "fading") ELSE End(f)
    /\ finished' = [file |-> f, ok |-> ok]
    /\ UNCHANGED <<page, camera, url, capturing, escaped, parallel>>

\* Mutant: the success is reported through onProgress alone.
StoredByProgress(f) ==
    /\ file[f].pc = "sending"
    /\ Finish(f, TRUE)
    /\ SetBar([bar EXCEPT !.status = "complete", !.media = f])

Stored(f) ==
    /\ file[f].pc = "sending"
    /\ Finish(f, TRUE)
    /\ SetBar(Complete(f))

\* Mutant: the error is merged into the state of the running upload.
UploadFailsPartly(f) ==
    /\ file[f].pc \in Uploading
    /\ Finish(f, FALSE)
    /\ SetBar([bar EXCEPT !.status = "error", !.error = TRUE])

\* An unreadable image, a browser without the crypto interface, a refusal or
\* a broken connection; lib/media reports it through onProgress first.
UploadFails(f) ==
    /\ file[f].pc \in Uploading
    /\ Finish(f, FALSE)
    /\ SetBar(Failed)

\* The timer of capturePhoto.
FlashFades(f) ==
    /\ file[f].pc = "fading"
    /\ End(f)
    /\ capturing' = IF Mounted THEN FALSE ELSE capturing
    /\ UNCHANGED <<page, camera, url, bar, escaped, finished, parallel>>

CameraStep(c) ==
    \/ Flip(c) \/ GrantAccess(c) \/ Granted(c) \/ Denied(c) \/ Plays(c) \/ PlayIsInterrupted(c)

FileStep(f) ==
    \/ CapturePhoto(f) \/ NoBlob(f) \/ BlobReady(f) \/ FlashFades(f)
    \/ \E valid, image \in BOOLEAN : HandleFileSelect(f, valid, image)
    \/ ThumbnailReady(f) \/ PreflightPasses(f) \/ FileIsEncrypted(f) \/ ThumbnailIsEncrypted(f)
    \/ Progress(f) \/ Stored(f) \/ UploadFails(f)

CameraNext ==
    \/ Render \/ Close \/ Leave
    \/ \E c \in Calls : CameraStep(c)
    \/ \E f \in Files : FileStep(f)

CameraSpec == CameraInit /\ [][CameraNext]_cameraVars

-----------------------------------------------------------------------------
(* Properties                                                              *)

\* Types of the page's state and of what runs for it; in particular the stream
\* of the page was granted, and uploadState has no result while it says uploading.
CameraTypeOK ==
    /\ page \in {"open", "closed", "left"} /\ facing \in Modes
    /\ call \in [Calls -> [pc : {"idle", "done"} \cup Waiting, facing : Modes]]
    /\ track \in [Calls -> {"none", "live", "stopped"}]
    /\ {stream, nextStream, src} \subseteq {c \in Calls : track[c] # "none"} \cup {None}
    /\ {error, nextError, capturing, remounted, parallel} \subseteq BOOLEAN
    /\ file \in [Files -> [pc : {"none", "drawn", "fading", "over"} \cup Uploading,
                           image : BOOLEAN, taken : BOOLEAN]]
    /\ url \in [Files -> {"none", "live", "revoked"}]
    /\ bar \in [uploading : BOOLEAN, error : BOOLEAN, media : Files \cup {None},
                status : {"idle", "generating-thumbnail", "encrypting", "uploading", "complete", "error"}]
    /\ bar.uploading => ~bar.error /\ bar.media = None
    /\ burst \in [denied : BOOLEAN, overlapped : BOOLEAN, crossed : BOOLEAN]
    /\ escaped \subseteq Calls \cup Files \cup {None}
    /\ finished \in [file : Files \cup {None}, ok : BOOLEAN]

\* No camera runs and no picture is kept in memory but those the page holds,
\* and none after it: what escapes are streams granted, and pictures drawn,
\* after the page was left, and streams another one overtook before a render
\* (effects of CameraPage on the stream and on blobUrlsRef).
NothingRunsUnheld ==
    /\ \A c \in Calls : track[c] = "live" => c \in escaped \/ (Mounted /\ c \in {stream, nextStream})
    /\ \A f \in Files : url[f] = "live" => Mounted \/ f \in escaped

AtRest == page = "open" /\ Pending = {} /\ <<nextStream, nextError>> = <<stream, error>>

\* When everything has settled the page shows the running camera, of the side
\* that was chosen last, or an error that has a cause: a refusal or two calls
\* at once.  Not covered are calls answered out of order, and the new video
\* element after an error, which no stream was given (startCamera, flipCamera).
ViewShowsCamera ==
    AtRest =>
        /\ error => burst.denied \/ burst.overlapped
        /\ ~error /\ ~remounted => stream # None /\ src = stream /\ track[stream] = "live"
        /\ ~error /\ ~burst.crossed => call[stream].facing = facing

\* An upload that has the page to itself is shown as running, without a result
\* of an earlier one; after the last upload its own outcome is shown, and
\* nothing of those it overlapped with; the flash of a picture ends with it
\* (uploadFile, resetState, onProgress, capturePhoto).
BarShowsUpload ==
    Mounted =>
        /\ InFlight = {} => bar = IF finished.file = None THEN Initial
                                  ELSE IF finished.ok THEN Complete(finished.file) ELSE Failed
        /\ InFlight # {} /\ ~parallel => bar.uploading
        /\ capturing => \E f \in Files : file[f].taken \/ file[f].pc = "drawn"

-----------------------------------------------------------------------------
(* What the comments promise and the code does not do                      *)

\* "Stops any existing stream before re-initializing to prevent leaked tracks
\* when switching between front/rear cameras" (camera/page.tsx): of two
\* streams granted before the next render, nothing stops the first.
OneCameraRuns == AtRest => Cardinality({c \in Calls : track[c] = "live"}) <= 1

\* "Stream cleanup on unmount": permission that is given after the page was
\* left starts a camera that nothing stops.
CameraEndsWithPage == page = "left" => \A c \in Calls : track[c] # "live"

\* "Adds a brief white flash animation": the flash covers the viewfinder until
\* the upload of the picture has ended.
FlashIsBrief == capturing => \A f \in InFlight : ~file[f].taken
=============================================================================
