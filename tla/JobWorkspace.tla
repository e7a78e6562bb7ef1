---------------------------- MODULE JobWorkspace ----------------------------
(***************************************************************************)
(* What the attempts of one worker at one job leave on its disk and in     *)
(* Drive: MediaJobExecutor.execute between its reports                     *)
(* (src/ytb_vps_v2/application/media_job.py), DriveMediaTransfer           *)
(* (adapters/drive/media_transfer.py), run_native_pipeline                 *)
(* (adapters/native_media_job.py) and VerifiedInputArchiver                *)
(* (adapters/filesystem/archive.py).  The reports are MediaWorker's, the   *)
(* stages OfflineSlice's.                                                  *)
(*                                                                         *)
(* An attempt that fails or dies leaves its files to the next one; only a  *)
(* cancelled or completed job removes them.  A video is "promised", the    *)
(* bytes the control plane promised, or not, and it is as it was sent, or  *)
(* one of the encodings ffmpeg may make of it.                             *)
(***************************************************************************)
EXTENDS Integers

CONSTANTS
    Encodings,     \* what ffmpeg may make of the same video on this host
    NoVideo,       \* no file, no row
    MaxSetbacks    \* bound: failures, wrong bodies, lost answers, deaths, power failures

Video(of) == [of |-> of, as |-> "sent"]
Encoded(v, e) == [v EXCEPT !.as = e]
AsSent == Video("promised")
Torn == Video("torn")
Other == Video("other")

ASSUME JobWorkspaceAssumption ==
    /\ Encodings # {} /\ "sent" \notin Encodings
    /\ MaxSetbacks \in Nat

VARIABLES
    slice,      \* the claimed video is a slice of 900 frames already
    encoders,   \* the encodings ffmpeg makes, one when it repeats itself
    disk,       \* source.mp4, its .part, normalized/source.mp4, part-001.mp4
    archived,   \* the objects of the input archive
    row,        \* the source of the job row in job-v2.sqlite
    attempt,    \* where the attempt is, its canonical source, why it ended
    remote,     \* the video in the Drive file of the output
    setbacks    \* what is left of MaxSetbacks

jwVars == <<slice, encoders, disk, archived, row, attempt, remote, setbacks>>

Bare == [source |-> NoVideo, part |-> NoVideo, normalized |-> NoVideo, output |-> NoVideo]
AtRest == [pc |-> "rest", canonical |-> NoVideo, why |-> "none"]

JWInit ==
    /\ slice \in BOOLEAN /\ encoders \in (SUBSET Encodings) \ {{}}
    /\ disk = Bare /\ archived = {} /\ row = NoVideo
    /\ attempt = AtRest /\ remote = NoVideo
    /\ setbacks = MaxSetbacks

-----------------------------------------------------------------------------
In(pc) == attempt.pc = pc
Enter(pc) == attempt' = [attempt EXCEPT !.pc = pc]
Setback == setbacks > 0 /\ setbacks' = setbacks - 1
Smoothly == UNCHANGED setbacks
OnlyDisk == UNCHANGED <<slice, encoders, archived, row, remote>>

\* An error: the attempt is over, its files stay.
Abandon(why) == attempt' = [AtRest EXCEPT !.why = why]

\* run_once has a claim, and the report of DOWNLOADING went through.
TakeUp == In("rest") /\ Enter("look") /\ OnlyDisk /\ UNCHANGED disk /\ Smoothly

\* SLIP (breaks WorksOnTheClaimed): a source that is there is taken as it is.
TakenAsFound == disk.source # NoVideo

\* The source of an earlier attempt is used when its digest is the claim's.
Reusable == disk.source = AsSent

FindSource ==
    /\ In("look")
    /\ IF Reusable THEN Enter("shape") /\ UNCHANGED disk
       ELSE Enter("download") /\ disk' = [disk EXCEPT !.source = NoVideo]
    /\ OnlyDisk /\ Smoothly

-----------------------------------------------------------------------------
\* download_source.

\* A name that is taken is refused.
Refuse ==
    /\ In("download") /\ disk.source # NoVideo
    /\ Abandon("refused") /\ OnlyDisk /\ UNCHANGED disk /\ Smoothly

\* The body ends when the connection does, and nobody looks whether it is all.
Receive ==
    /\ In("download") /\ disk.source = NoVideo
    /\ \/ disk' = [disk EXCEPT !.part = AsSent] /\ Smoothly
       \/ \E v \in {Torn, Other} : disk' = [disk EXCEPT !.part = v] /\ Setback
    /\ Enter("verify") /\ OnlyDisk

\* Size and digest are those of the claim, or the temporary is removed.
VerifyPart ==
    /\ In("verify")
    /\ IF disk.part = AsSent THEN Enter("replace") /\ UNCHANGED disk
       ELSE Abandon("download") /\ disk' = [disk EXCEPT !.part = NoVideo]
    /\ OnlyDisk /\ Smoothly

\* os.replace, without an fsync of the file or of the directory.
download_source ==
    /\ In("replace")
    /\ disk' = [disk EXCEPT !.source = disk.part, !.part = NoVideo]
    /\ Enter("shape") /\ OnlyDisk /\ Smoothly

-----------------------------------------------------------------------------
\* run_native_pipeline.

\* A slice is used as it is, anything else is encoded, over what is there.
_canonical_source ==
    /\ In("shape")
    /\ IF slice
       THEN attempt' = [attempt EXCEPT !.pc = "archive", !.canonical = disk.source]
            /\ UNCHANGED disk
       ELSE Enter("encode") /\ disk' = [disk EXCEPT !.normalized = Torn]
    /\ OnlyDisk /\ Smoothly

Normalize ==
    /\ In("encode")
    /\ \E e \in encoders :
          LET v == Encoded(disk.source, e)
          IN  /\ disk' = [disk EXCEPT !.normalized = v]
              /\ attempt' = [attempt EXCEPT !.pc = "archive", !.canonical = v]
    /\ OnlyDisk /\ Smoothly

\* An object is named by its digest, so one that is there is the same; a new one
\* is copied beside it and published additively.
archive ==
    /\ In("archive")
    /\ archived' = archived \union {attempt.canonical}
    /\ Enter("job")
    /\ UNCHANGED <<slice, encoders, disk, row, remote>> /\ Smoothly

\* create_job: the job row keeps the source it was made with.
CreateRow ==
    /\ In("job")
    /\ \/ row \in {NoVideo, attempt.canonical} /\ row' = attempt.canonical /\ Enter("stages")
       \/ row \notin {NoVideo, attempt.canonical} /\ Abandon("conflict") /\ UNCHANGED row
    /\ UNCHANGED <<slice, encoders, disk, archived, remote>> /\ Smoothly

\* The stages make the output, or find that they did.
run_native_pipeline ==
    /\ In("stages")
    /\ disk' = [disk EXCEPT !.output = row]
    /\ Enter("upload") /\ OnlyDisk /\ Smoothly

-----------------------------------------------------------------------------
\* upload_resumable, in one piece: the session is not resumed.  An answer that
\* is lost leaves the file in Drive.
upload_resumable ==
    /\ In("upload")
    /\ remote' = disk.output
    /\ \/ Enter("complete") /\ Smoothly
       \/ Abandon("upload") /\ Setback
    /\ UNCHANGED <<slice, encoders, disk, archived, row>>

\* _cleanup_workspace.
Finish == /\ attempt' = [AtRest EXCEPT !.pc = "done"]
          /\ disk' = Bare /\ archived' = {} /\ row' = NoVideo
          /\ UNCHANGED <<slice, encoders, remote>>

\* The report of completion, or of a cancel that came before the upload.
Conclusion ==
    /\ ~In("rest") /\ ~In("upload") /\ ~In("done")
    /\ Finish /\ Smoothly

\* A step fails: no connection, no 200, too long a body, a tool, a stage, a put,
\* a lost answer to complete.
StepBreaks ==
    /\ ~In("rest") /\ ~In("done") /\ ~In("look")
    /\ Setback /\ Abandon("broken")
    /\ disk' = [disk EXCEPT !.part = NoVideo] /\ OnlyDisk

\* The worker dies, and only the disk is left.
WorkerIsKilled ==
    /\ ~In("rest") /\ ~In("done")
    /\ Setback /\ attempt' = AtRest /\ UNCHANGED disk /\ OnlyDisk

\* A power failure: what was never synchronized may be torn or gone.
AfterFailure(video) == {video, NoVideo} \union (IF video = NoVideo THEN {} ELSE {Torn})

HostFails ==
    /\ ~In("done") /\ Setback /\ attempt' = AtRest
    /\ \E source \in AfterFailure(disk.source), part \in AfterFailure(disk.part),
          normalized \in AfterFailure(disk.normalized) :
          disk' = [disk EXCEPT !.source = source, !.part = part, !.normalized = normalized]
    /\ OnlyDisk

JWNext ==
    \/ TakeUp \/ FindSource \/ Refuse \/ Receive \/ VerifyPart \/ download_source
    \/ _canonical_source \/ Normalize \/ archive \/ CreateRow \/ run_native_pipeline
    \/ upload_resumable \/ Conclusion \/ StepBreaks \/ WorkerIsKilled \/ HostFails
JWSpec == JWInit /\ [][JWNext]_jwVars

-----------------------------------------------------------------------------
\* Whatever the attempts before left, an attempt works on the claimed video: the
\* archive, the job row and the output in Drive hold it, as a slice or encoded
\* whole.  Nor does what they left stand in its way, but for one case: ffmpeg
\* encodes the same video in another way, and the row refuses it ever after.
WorksOnTheClaimed ==
    /\ \A v \in archived \union ({row, remote} \ {NoVideo}) :
          v.of = "promised" /\ (v.as = "sent" <=> slice)
    /\ attempt.why # "refused"
    /\ attempt.why = "conflict" => \E d, e \in encoders : d # e
=============================================================================
