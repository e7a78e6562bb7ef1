---------------------------- MODULE SourceUpload ----------------------------
(***************************************************************************)
(* The upload of one project's source video: the requests of UploadService *)
(* (web/src/lib/application/uploads.ts) and DriveWorkspaceService.delete,  *)
(* which run concurrently in serverless functions, over the rows they      *)
(* share in Neon (the SOURCE artifact, the project's source_status, the    *)
(* provisioning claim, the capacity reservation) and the files in Drive.   *)
(*                                                                         *)
(* Every `await` of a handler is a step of its own, so requests interleave *)
(* between any two of them; each SQL statement is atomic.  The project is  *)
(* READY with its folders, and artifactId = projectId as createSession     *)
(* demands.  An intent is a name (which stands for the MIME type too) and  *)
(* a size in chunks.  The sizes charged to a reservation, the quota        *)
(* snapshot and the audit rows are left out: a refused quota is `Fail`.    *)
(***************************************************************************)
EXTENDS Naturals

CONSTANTS
    Reqs,           \* request slots: how many handlers can run at once
    DriveFiles,     \* Drive file ids (naturals): how many are ever created
    Intents,        \* [name, size] records the browser may ask to upload
    Faults,         \* subset of FaultKinds that may happen
    NoSource,       \* no artifact row
    NoReservation,  \* no row in drive_upload_reservations
    NoOne           \* no claim token

ArtifactStates == {"PENDING", "UPLOADING", "DELETING", "READY", "INVALID", "DELETED"}
FaultKinds == {"fail", "crash", "expire", "reject", "trash", "vanish"}

ASSUME FilesAreNaturals == DriveFiles \subseteq Nat
ASSUME FaultsAreKnown == Faults \subseteq FaultKinds
ASSUME IntentsHaveBytes == \A i \in Intents : i.size \in Nat \ {0}
ASSUME MarkersAreFresh ==
    /\ NoOne \notin Reqs
    /\ NoSource \notin [status : ArtifactStates, file : DriveFiles, intent : Intents, actual : Nat]
    /\ NoReservation \notin [intent : Intents, open : BOOLEAN]

VARIABLES
    sourceStatus,   \* projects.source_status
    artifact,       \* the SOURCE row of artifacts: status, file, intent, actual
    reservation,    \* drive_upload_reservations: intent, open (released_at is null)
    claim,          \* drive_provisioning_claims of the source: token, live
    drive,          \* Drive: for each file id its name, bytes and place
    sessions,       \* resumable sessions in a browser's hands: file, size
    req             \* the handler in each slot

suVars == <<sourceStatus, artifact, reservation, claim, drive, sessions, req>>

Unfinished  == {"PENDING", "UPLOADING"}
Replaceable == {"INVALID", "DELETED"}

\* A handler: which one, the call it makes next, its input, the artifact row it
\* read, the placeholder it found and the bytes it saw in the file.
NoRequest == [op |-> "none", pc |-> "idle", intent |-> NoOne, art |-> NoSource,
         file |-> 0, bytes |-> 0]

SUInit ==
    /\ sourceStatus = "NO_SOURCE"
    /\ artifact = NoSource
    /\ reservation = NoReservation
    /\ claim = [token |-> NoOne, live |-> FALSE]
    /\ drive = [f \in DriveFiles |-> [name |-> NoOne, bytes |-> 0, place |-> "unused"]]
    /\ sessions = {}
    /\ req = [r \in Reqs |-> NoRequest]

-----------------------------------------------------------------------------
Owns(r) == claim.live /\ claim.token = r

\* SLIP (breaks OwnerIsAlone): a call without a token is never refused.
FencedByTokenOnly(r) == req[r].op = "create" => Owns(r)

\* The fence every source mutation carries: a claim holder shows its token, a
\* caller without one is let through only while nobody holds a live claim.
Fenced(r) == IF req[r].op = "create" THEN Owns(r) ELSE ~claim.live

ReqAt(r, pc) == req[r].pc = pc
ReqGoto(r, pc) == req' = [req EXCEPT ![r].pc = pc]
BeginRequest(r, op, pc, with) ==
    req' = [req EXCEPT ![r] = [with EXCEPT !.op = op, !.pc = pc]]

\* A handler returns or throws; createSession first releases its claim.
Leave(r) ==
    req' = [req EXCEPT ![r] =
               IF req[r].op = "create"
               THEN [NoRequest EXCEPT !.op = "create", !.pc = "release"] ELSE NoRequest]

IsOpen(rsv) == rsv # NoReservation /\ rsv.open
Released(rsv) == IF rsv = NoReservation THEN rsv ELSE [rsv EXCEPT !.open = FALSE]

\* The statement that ends a source: row, reservation and project in one, or
\* none of them.
EndSource(allowed, row, status) ==
    IF allowed
    THEN artifact' = row /\ sourceStatus' = status /\ reservation' = Released(reservation)
    ELSE UNCHANGED <<artifact, sourceStatus, reservation>>

-----------------------------------------------------------------------------
(* createSession                                                           *)

\* claimProvisioning: the row is free or has expired; the token is fresh.
ClaimProvisioning(r, i) ==
    /\ ReqAt(r, "idle")
    /\ ~claim.live
    /\ claim' = [token |-> r, live |-> TRUE]
    /\ BeginRequest(r, "create", "existing", [NoRequest EXCEPT !.intent = i])
    /\ UNCHANGED <<sourceStatus, artifact, reservation, drive, sessions>>

\* The stored row decides: nothing or a terminal row starts anew, a matching
\* unfinished row is taken up again, READY is answered and all else refused.
GetExisting(r) ==
    /\ ReqAt(r, "existing")
    /\ IF \/ artifact = NoSource
          \/ artifact.status \in Replaceable
          \/ artifact.status \in Unfinished /\ artifact.intent = req[r].intent
       THEN req' = [req EXCEPT ![r].pc = "reserve", ![r].art = artifact]
       ELSE Leave(r)
    /\ UNCHANGED <<sourceStatus, artifact, reservation, claim, drive, sessions>>

\* SLIP (breaks ChargedForItsOwnIntent): any open reservation will do.
ReservedForAnything(i) ==
    /\ IsOpen(reservation) /\ i \in Intents
    /\ artifact = NoSource \/ artifact.status \in Unfinished

\* A retry of the same upload finds its own reservation.
AlreadyReserved(i) ==
    /\ IsOpen(reservation) /\ reservation.intent = i
    /\ artifact = NoSource \/ artifact.status \in Unfinished

\* What reserve_drive_upload_capacity answers CONFLICT to.
CapacityConflict(i) ==
    /\ ~AlreadyReserved(i)
    /\ artifact # NoSource
    /\ IsOpen(reservation) \/ artifact.status \notin Replaceable

StartsAnew(a) == a = NoSource \/ a.status \in Replaceable

ReserveSourceCapacity(r) ==
    /\ ReqAt(r, "reserve")
    /\ LET i == req[r].intent IN
       IF ~Owns(r) \/ CapacityConflict(i)
       THEN Leave(r) /\ UNCHANGED reservation
       ELSE /\ reservation' = IF AlreadyReserved(i) THEN reservation
                              ELSE [intent |-> i, open |-> TRUE]
            /\ ReqGoto(r, IF StartsAnew(req[r].art) THEN "renewList" ELSE "inspect")
    /\ UNCHANGED <<sourceStatus, artifact, claim, drive, sessions>>

\* renewProvisioning before each stretch of provider calls and fenced writes.
RenewProvisioning(r) ==
    /\ \E step \in {<<"renewList", "list">>, <<"renewObserve", "observe">>,
                    <<"renewMark", "markSession">>} :
          ReqAt(r, step[1]) /\ IF Owns(r) THEN ReqGoto(r, step[2]) ELSE Leave(r)
    /\ UNCHANGED <<sourceStatus, artifact, reservation, claim, drive, sessions>>

\* ensureSourceFile, first half: every file of this project and artifact in
\* the folder must be the empty placeholder asked for; the least id is taken.
Listed == {f \in DriveFiles : drive[f].place = "kept"}

ListSourceFiles(r) ==
    /\ ReqAt(r, "list")
    /\ IF Listed = {} THEN ReqGoto(r, "createFile")
       ELSE IF \A f \in Listed : /\ drive[f].name = req[r].intent.name
                                 /\ drive[f].bytes = 0
       THEN \E f \in Listed :
               /\ \A g \in Listed : f <= g
               /\ req' = [req EXCEPT ![r].pc = "bind", ![r].file = f]
       ELSE Leave(r)
    /\ UNCHANGED <<sourceStatus, artifact, reservation, claim, drive, sessions>>

\* ensureSourceFile, second half: another placeholder appears in Drive.
CreateSourceFile(r) ==
    /\ ReqAt(r, "createFile")
    /\ \E f \in DriveFiles :
          /\ drive[f].place = "unused"
          /\ drive' = [drive EXCEPT ![f] = [name |-> req[r].intent.name,
                                            bytes |-> 0, place |-> "kept"]]
          /\ req' = [req EXCEPT ![r].pc = "bind", ![r].file = f]
    /\ UNCHANGED <<sourceStatus, artifact, reservation, claim, sessions>>

\* The row an upload starts with, new or in place of a terminal one.
PendingRow(f, i) == [status |-> "PENDING", file |-> f, intent |-> i, actual |-> 0]

\* SLIP (breaks SourceStatusAgrees): UPLOAD_FAILED is left out of the list.
ReservableWhenNew == {"NO_SOURCE", "UPLOAD_PENDING"}

\* The states of the project a reservation moves to UPLOAD_PENDING.
ReservableStatus == {"NO_SOURCE", "UPLOAD_PENDING", "UPLOAD_FAILED"}

\* reserveSourceArtifact, then matchingReservation on the row it returns: a row
\* that is neither terminal nor the same file and intent is left alone.
ReserveSourceArtifact(r) ==
    /\ ReqAt(r, "bind")
    /\ LET anew == StartsAnew(artifact)
           same == ~anew /\ artifact.file = req[r].file
                         /\ artifact.intent = req[r].intent
       IN IF Owns(r) /\ (anew \/ same)
          THEN /\ artifact' = IF anew THEN PendingRow(req[r].file, req[r].intent)
                              ELSE artifact
               /\ sourceStatus' = IF sourceStatus \in ReservableStatus
                                  THEN "UPLOAD_PENDING" ELSE sourceStatus
               /\ IF artifact'.status \in Unfinished
                  THEN req' = [req EXCEPT ![r].pc = "renewMark", ![r].art = artifact']
                  ELSE Leave(r)
          ELSE Leave(r) /\ UNCHANGED <<artifact, sourceStatus>>
    /\ UNCHANGED <<reservation, claim, drive, sessions>>

\* createResumableUpdateSession: a 4xx answer marks the source INVALID.
CreateResumableSession(r) ==
    /\ ReqAt(r, "session")
    /\ LET gone == drive[req[r].art.file].place = "gone" IN
       \/ ~gone /\ ReqGoto(r, "renewAnswer")
       \/ (gone \/ "reject" \in Faults) /\ ReqGoto(r, "invalid")
    /\ UNCHANGED <<sourceStatus, artifact, reservation, claim, drive, sessions>>

\* The last renewal: only a request that still owns the source answers with
\* the session URI.
HandOutSession(r) ==
    /\ ReqAt(r, "renewAnswer")
    /\ sessions' = IF Owns(r)
           THEN sessions \union {[file |-> req[r].art.file, size |-> req[r].art.intent.size]}
           ELSE sessions
    /\ Leave(r)
    /\ UNCHANGED <<sourceStatus, artifact, reservation, claim, drive>>

ReleaseProvisioning(r) ==
    /\ ReqAt(r, "release")
    /\ claim' = IF claim.token = r THEN [token |-> NoOne, live |-> FALSE] ELSE claim
    /\ req' = [req EXCEPT ![r] = NoRequest]
    /\ UNCHANGED <<sourceStatus, artifact, reservation, drive, sessions>>

-----------------------------------------------------------------------------
(* Evidence from Drive, and the fenced writes createSession and complete   *)
(* make from it                                                            *)

\* What inspectFile and classifyEvidence say of a row and its file.  The
\* adapter's inspectFile passes no notFoundCode, so a missing file is
\* DRIVE_PROVIDER_REJECTED and never DRIVE_FILE_NOT_FOUND.
Evidence(a) ==
    LET d == drive[a.file] IN
    CASE d.place = "gone" -> "DRIVE_PROVIDER_REJECTED"
      [] d.place = "trashed" \/ d.name # a.intent.name \/ d.bytes > a.intent.size
            -> "UPLOAD_REMOTE_MISMATCH"
      [] OTHER -> "EXACT"

\* Exact evidence is READY when the file was whole, and PENDING otherwise.
Whole(r) == req[r].bytes = req[r].art.intent.size

InspectFile(r) ==
    /\ ReqAt(r, "inspect")
    /\ LET e == Evidence(req[r].art)
           With(pc) == req' = [req EXCEPT ![r].pc = pc, ![r].bytes = drive[req[r].art.file].bytes]
       IN CASE req[r].op = "create" /\ e = "EXACT" -> With("renewObserve")
            [] req[r].op = "complete" /\ e = "EXACT" -> With("observe")
            [] req[r].op = "complete" /\ e = "UPLOAD_REMOTE_MISMATCH" -> ReqGoto(r, "invalid")
            [] req[r].op = "cancel" /\ e = "EXACT" -> ReqGoto(r, "claimDeletion")
            [] req[r].op = "cancel" /\ e = "DRIVE_FILE_NOT_FOUND" -> ReqGoto(r, "claimAbsent")
            [] OTHER -> Leave(r)
    /\ UNCHANGED <<sourceStatus, artifact, reservation, claim, drive, sessions>>

\* observe_drive_upload_progress finds an open reservation large enough, or
\* throws; complete then answers UPLOAD_PENDING, createSession goes on to a
\* session, and both finish a file that is whole.
ObserveProgress(r) ==
    /\ ReqAt(r, "observe")
    /\ LET charged == /\ Fenced(r) /\ IsOpen(reservation)
                      /\ req[r].bytes <= reservation.intent.size
       IN CASE charged /\ Whole(r) ->
                  ReqGoto(r, IF req[r].art.status = "PENDING" THEN "mark" ELSE "ready")
            [] charged /\ ~Whole(r) /\ req[r].op = "create" -> ReqGoto(r, "renewMark")
            [] OTHER -> Leave(r)
    /\ UNCHANGED <<sourceStatus, artifact, reservation, claim, drive, sessions>>

MarkArtifactUploading(r) ==
    /\ \E step \in {<<"mark", "ready">>, <<"markSession", "session">>} :
          /\ ReqAt(r, step[1])
          /\ IF Fenced(r) /\ artifact.status \in Unfinished
             THEN artifact' = [artifact EXCEPT !.status = "UPLOADING"] /\ ReqGoto(r, step[2])
             ELSE Leave(r) /\ UNCHANGED artifact
    /\ UNCHANGED <<sourceStatus, reservation, claim, drive, sessions>>

\* markSourceReady: the statement names the row by its id alone, and stores
\* the size of the row the handler read.
MarkSourceReady(r) ==
    /\ ReqAt(r, "ready")
    /\ EndSource(Fenced(r) /\ artifact.status = "UPLOADING",
                 [artifact EXCEPT !.status = "READY", !.actual = req[r].art.intent.size],
                 "SOURCE_READY")
    /\ Leave(r)
    /\ UNCHANGED <<claim, drive, sessions>>

MarkSourceInvalid(r) ==
    /\ ReqAt(r, "invalid")
    /\ EndSource(Fenced(r) /\ artifact.status \in Unfinished,
                 [artifact EXCEPT !.status = "INVALID"], "UPLOAD_FAILED")
    /\ Leave(r)
    /\ UNCHANGED <<claim, drive, sessions>>

-----------------------------------------------------------------------------
(* complete, cancel and the workspace's delete                             *)

\* complete reads the row; READY is answered, a row that is over is refused.
StartComplete(r) ==
    /\ ReqAt(r, "idle")
    /\ artifact # NoSource /\ artifact.status \in Unfinished
    /\ BeginRequest(r, "complete", "inspect", [NoRequest EXCEPT !.art = artifact])
    /\ UNCHANGED <<sourceStatus, artifact, reservation, claim, drive, sessions>>

\* Where cancel starts for a row of this status.
CancelFrom(status) == IF status = "DELETING" THEN "delete" ELSE "inspect"

\* cancel reads the row; a deletion already claimed skips the inspection.
StartCancel(r) ==
    /\ ReqAt(r, "idle")
    /\ artifact # NoSource /\ artifact.status \in Unfinished \union {"DELETING"}
    /\ BeginRequest(r, "cancel", CancelFrom(artifact.status), [NoRequest EXCEPT !.art = artifact])
    /\ UNCHANGED <<sourceStatus, artifact, reservation, claim, drive, sessions>>

\* claim_source_deletion looks at the status only: not at the provisioning
\* claim, nor at the file the caller inspected.
ClaimSourceDeletion(r) ==
    /\ ReqAt(r, "claimDeletion") \/ ReqAt(r, "claimAbsent")
    /\ artifact' = IF artifact.status \in Unfinished
                   THEN [artifact EXCEPT !.status = "DELETING"] ELSE artifact
    /\ IF artifact'.status = "DELETING"
       THEN ReqGoto(r, IF ReqAt(r, "claimDeletion") THEN "delete" ELSE "deleted")
       ELSE Leave(r)
    /\ UNCHANGED <<sourceStatus, reservation, claim, drive, sessions>>

\* delete reads the managed record: any row that is not DELETED.
StartDelete(r) ==
    /\ ReqAt(r, "idle")
    /\ artifact # NoSource
    /\ BeginRequest(r, "delete", "claimManaged",
             [NoRequest EXCEPT !.art = IF artifact.status = "DELETED" THEN NoSource ELSE artifact])
    /\ UNCHANGED <<sourceStatus, artifact, reservation, claim, drive, sessions>>

\* claimManagedArtifactDeletion, and the record read before it was there.
ClaimManagedDeletion(r) ==
    /\ ReqAt(r, "claimManaged")
    /\ artifact' = IF artifact.status \in {"READY", "INVALID"}
                   THEN [artifact EXCEPT !.status = "DELETING"] ELSE artifact
    /\ IF artifact'.status = "DELETING" /\ req[r].art # NoSource
       THEN ReqGoto(r, "inspectManaged") ELSE Leave(r)
    /\ UNCHANGED <<sourceStatus, reservation, claim, drive, sessions>>

\* inspectVideoMetadata and matchesManagedRecord: a missing file is as good as
\* deleted; one of another size is refused and the row stays DELETING.
InspectManaged(r) ==
    /\ ReqAt(r, "inspectManaged")
    /\ LET a == req[r].art
           d == drive[a.file]
           size == IF a.actual > 0 THEN a.actual ELSE a.intent.size
       IN CASE d.place = "gone" -> ReqGoto(r, "deleted")
            [] d.place # "gone" /\ d.name = a.intent.name /\ d.bytes = size -> ReqGoto(r, "delete")
            [] OTHER -> Leave(r)
    /\ UNCHANGED <<sourceStatus, artifact, reservation, claim, drive, sessions>>

\* deleteFile of the file in the row the handler read; a 404 is success.
DeleteFile(r) ==
    /\ ReqAt(r, "delete")
    /\ drive' = [drive EXCEPT ![req[r].art.file].place = "gone"]
    /\ ReqGoto(r, "deleted")
    /\ UNCHANGED <<sourceStatus, artifact, reservation, claim, sessions>>

\* markSourceDeleted and markManagedArtifactDeleted.
MarkSourceDeleted(r) ==
    /\ ReqAt(r, "deleted")
    /\ EndSource(artifact.status = "DELETING",
                 [artifact EXCEPT !.status = "DELETED"], "NO_SOURCE")
    /\ Leave(r)
    /\ UNCHANGED <<claim, drive, sessions>>

-----------------------------------------------------------------------------
(* The browser, the owner of the Drive, and what goes wrong                *)

\* Bytes of an open resumable session reach the file.
UploadBytes ==
    /\ \E s \in sessions :
          /\ drive[s.file].place = "kept" /\ drive[s.file].bytes < s.size
          /\ drive' = [drive EXCEPT ![s.file].bytes = @ + 1]
    /\ UNCHANGED <<sourceStatus, artifact, reservation, claim, sessions, req>>

\* The owner of the Drive trashes a file, or removes it for good.
OwnerRemovesFile ==
    /\ \E f \in Listed, fault \in Faults \intersect {"trash", "vanish"} :
          drive' = [drive EXCEPT ![f].place = IF fault = "trash" THEN "trashed" ELSE "gone"]
    /\ UNCHANGED <<sourceStatus, artifact, reservation, claim, sessions, req>>

\* Any awaited call throws: the quota is refused, Drive or Neon is away.
Fail(r) ==
    /\ "fail" \in Faults
    /\ ~ReqAt(r, "idle") /\ ~ReqAt(r, "release")
    /\ Leave(r)
    /\ UNCHANGED <<sourceStatus, artifact, reservation, claim, drive, sessions>>

\* The function is killed, or the release of its claim is lost.
Crash(r) ==
    /\ "crash" \in Faults
    /\ ~ReqAt(r, "idle")
    /\ req' = [req EXCEPT ![r] = NoRequest]
    /\ UNCHANGED <<sourceStatus, artifact, reservation, claim, drive, sessions>>

\* Five minutes pass without a renewal.
ClaimExpires ==
    /\ "expire" \in Faults
    /\ claim.live
    /\ claim' = [claim EXCEPT !.live = FALSE]
    /\ UNCHANGED <<sourceStatus, artifact, reservation, drive, sessions, req>>

\* The steps a running handler takes by itself.
Handle(r) ==
    \/ GetExisting(r) \/ ReserveSourceCapacity(r) \/ RenewProvisioning(r)
    \/ ListSourceFiles(r) \/ CreateSourceFile(r) \/ ReserveSourceArtifact(r)
    \/ CreateResumableSession(r) \/ HandOutSession(r) \/ ReleaseProvisioning(r)
    \/ InspectFile(r) \/ ObserveProgress(r) \/ MarkArtifactUploading(r)
    \/ MarkSourceReady(r) \/ MarkSourceInvalid(r)
    \/ ClaimSourceDeletion(r) \/ ClaimManagedDeletion(r) \/ InspectManaged(r)
    \/ DeleteFile(r) \/ MarkSourceDeleted(r)

SUNext ==
    \/ \E r \in Reqs : Handle(r)
    \/ \E r \in Reqs, i \in Intents : ClaimProvisioning(r, i)
    \/ \E r \in Reqs : StartComplete(r) \/ StartCancel(r) \/ StartDelete(r)
    \/ \E r \in Reqs : Fail(r) \/ Crash(r)
    \/ UploadBytes \/ OwnerRemovesFile \/ ClaimExpires

SUSpec == SUInit /\ [][SUNext]_suVars

-----------------------------------------------------------------------------
(* Properties                                                              *)

\* Every variable keeps its type; an unfinished row has no actual size and a
\* READY one has one (matchingLiveArtifact, complete).
TypeOK ==
    /\ sourceStatus \in {"NO_SOURCE", "UPLOAD_PENDING", "SOURCE_READY", "UPLOAD_FAILED"}
    /\ artifact # NoSource =>
          /\ artifact.status \in ArtifactStates /\ artifact.file \in DriveFiles
          /\ artifact.intent \in Intents
          /\ artifact.status \in Unfinished => artifact.actual = 0
          /\ artifact.status = "READY" => artifact.actual > 0
    /\ reservation # NoReservation =>
          reservation.intent \in Intents /\ reservation.open \in BOOLEAN
    /\ claim.token \in Reqs \union {NoOne} /\ claim.live \in BOOLEAN
    /\ \A f \in DriveFiles : drive[f].place \in {"unused", "kept", "trashed", "gone"}
    /\ \A s \in sessions : s.file \in DriveFiles

\* projects.source_status, which the job queue reads, always tells the truth
\* about the row of artifacts, whichever handlers raced to write the two.
SourceStatusAgrees ==
    /\ sourceStatus = "NO_SOURCE" <=> artifact = NoSource \/ artifact.status = "DELETED"
    /\ artifact # NoSource =>
          /\ artifact.status \in Unfinished => sourceStatus = "UPLOAD_PENDING"
          /\ artifact.status = "READY" => sourceStatus = "SOURCE_READY"
          /\ artifact.status = "INVALID" => sourceStatus = "UPLOAD_FAILED"

\* While a request holds the live claim of the source, no other request moves
\* the row, save to delete it: a completion without a claim waits its turn.
OwnerIsAlone ==
    [][\A r \in Reqs :
          claim.live /\ claim.token = r /\ artifact' # artifact =>
             req'[r] # req[r] \/ artifact'.status \in {"DELETING", "DELETED"}]_suVars

\* An unfinished row whose reservation is open is charged for its own intent:
\* no request replaced the reservation of another's upload.
ChargedForItsOwnIntent ==
    artifact # NoSource /\ artifact.status \in Unfinished /\ IsOpen(reservation)
       => reservation.intent = artifact.intent

\* READY says that the row's own file holds every byte of the row's own intent,
\* and no handler deletes that file while it says so.  Two requests break it:
\* the file a completion inspected need not be the file of the row it marks.
ReadyKeepsItsFile ==
    artifact # NoSource /\ artifact.status = "READY" =>
       /\ artifact.actual = artifact.intent.size
       /\ drive[artifact.file].bytes >= artifact.intent.size
       /\ drive[artifact.file].place # "gone"
=============================================================================
