------------------------- MODULE SourceUploadProofs -------------------------
(***************************************************************************)
(* Theorems about the two ends of an upload.  SourceUpload, for any number *)
(* of concurrent requests, files and intents and for every fault: the      *)
(* types, the agreement of source_status with the artifact row, the fence  *)
(* of the claim, and the intent a reservation is charged for.              *)
(* BrowserUpload, for any sizes, sessions, pages and breaks: the types,    *)
(* that an upload which is not over can be resumed, and that a deleted     *)
(* record stays deleted.                                                   *)
(***************************************************************************)
EXTENDS SourceUpload, BrowserUpload, TLAPS

Artifacts == [status : ArtifactStates, file : DriveFiles, intent : Intents, actual : Nat]
FileStates == [name : {i.name : i \in Intents} \union {NoOne}, bytes : Nat,
               place : {"unused", "kept", "trashed", "gone"}]
Reservations == [intent : Intents, open : BOOLEAN]
Pcs == {"idle", "existing", "reserve", "renewList", "list", "createFile", "bind", "renewMark",
        "markSession", "session", "renewAnswer", "release", "inspect", "renewObserve",
        "observe", "mark", "ready", "invalid", "claimDeletion", "claimAbsent", "delete",
        "deleted", "claimManaged", "inspectManaged"}
Handlers == [op : {"none", "create", "complete", "cancel", "delete"}, pc : Pcs,
             intent : Intents \union {NoOne}, art : Artifacts \union {NoSource},
             file : DriveFiles \union {0}, bytes : Nat]

\* What the variables hold between any two steps.
RowsTyped ==
    /\ sourceStatus \in {"NO_SOURCE", "UPLOAD_PENDING", "SOURCE_READY", "UPLOAD_FAILED"}
    /\ artifact \in Artifacts \union {NoSource}
    /\ artifact # NoSource =>
          /\ artifact.status \in Unfinished => artifact.actual = 0
          /\ artifact.status = "READY" => artifact.actual > 0
    /\ reservation \in Reservations \union {NoReservation}
    /\ claim \in [token : Reqs \union {NoOne}, live : BOOLEAN]
    /\ drive \in [DriveFiles -> FileStates]
    /\ sessions \subseteq [file : DriveFiles, size : Nat]
    /\ req \in [Reqs -> Handlers]

\* Where a handler has its intent, and where it has read a row.
PlacingPcs == {"existing", "reserve", "renewList", "list", "createFile", "bind"}
RowPcs == {"inspect", "renewObserve", "observe", "mark", "ready", "invalid", "renewMark",
           "markSession", "session", "renewAnswer", "claimDeletion", "claimAbsent",
           "delete", "deleted", "inspectManaged"}

\* A handler knows what its place in the code says it knows.
HandlerKnows(r) ==
    /\ req[r].pc \in PlacingPcs => req[r].intent \in Intents
    /\ req[r].pc = "bind" => req[r].file \in DriveFiles
    /\ req[r].pc \in RowPcs => req[r].art # NoSource
    /\ req[r].art # NoSource \/ req[r].pc = "claimManaged" => artifact # NoSource

HandlersKnow == \A r \in Reqs : HandlerKnows(r)

\* The way of an upload that starts anew from its reservation to its row, and
\* what an open reservation and the owner on that way have in common.
AfterReserve == {"renewList", "list", "createFile", "bind"}

ReservationIsTheOwners ==
    \A r \in Reqs : Owns(r) /\ req[r].pc \in AfterReserve /\ IsOpen(reservation)
                      => reservation.intent = req[r].intent

IInv == RowsTyped /\ HandlersKnow

-----------------------------------------------------------------------------
(* Rows and handlers.                                                      *)

\* A row never equals the marker of its absence.
LEMMA RowsAreRows ==
    /\ \A a \in Artifacts : a # NoSource
    /\ \A v \in Reservations : v # NoReservation
  BY MarkersAreFresh DEF Artifacts, Reservations

LEMMA IdleTyped == NoRequest \in Handlers
  BY DEF NoRequest, Handlers, Pcs

\* A handler that starts, moves on or leaves stays a handler that knows what
\* it must, as long as the row does not disappear.
LEMMA HandlerMoves ==
    ASSUME IInv, NEW r \in Reqs, NEW h \in Handlers, req' = [req EXCEPT ![r] = h],
           artifact' # NoSource \/ artifact' = artifact,
           h.pc \in PlacingPcs => h.intent \in Intents,
           h.pc = "bind" => h.file \in DriveFiles,
           h.pc \in RowPcs => h.art # NoSource,
           h.art # NoSource \/ h.pc = "claimManaged" => artifact' # NoSource
    PROVE  req' \in [Reqs -> Handlers] /\ HandlersKnow'
  <1>1. req' \in [Reqs -> Handlers]  BY DEF IInv, RowsTyped
  <1>2. ASSUME NEW q \in Reqs  PROVE HandlerKnows(q)'
    <2>1. req'[q] = IF q = r THEN h ELSE req[q]  BY DEF IInv, RowsTyped
    <2> QED BY <2>1 DEF IInv, HandlersKnow, HandlerKnows
  <1> QED BY <1>1, <1>2 DEF HandlersKnow

\* To the next place in the code, with what the handler has.
LEMMA GotoSafe ==
    ASSUME IInv, NEW r \in Reqs, NEW pc \in Pcs, ReqGoto(r, pc),
           artifact' # NoSource \/ artifact' = artifact,
           pc \in PlacingPcs => req[r].pc \in PlacingPcs,
           pc \notin {"bind", "claimManaged"},
           pc \in RowPcs => req[r].art # NoSource
    PROVE  req' \in [Reqs -> Handlers] /\ HandlersKnow'
  <1> DEFINE h == [req[r] EXCEPT !.pc = pc]
  <1>1. req[r] \in Handlers /\ HandlerKnows(r)  BY DEF IInv, RowsTyped, HandlersKnow
  <1>2. h \in Handlers /\ h.pc = pc /\ h.intent = req[r].intent /\ h.art = req[r].art
    BY <1>1 DEF Handlers, Pcs
  <1>3. req' = [req EXCEPT ![r] = h]  BY DEF ReqGoto
  <1> HIDE DEF h
  <1> QED BY <1>1, <1>2, <1>3, HandlerMoves DEF HandlerKnows

\* Out of the handler, or to the release of its claim.
LEMMA LeaveSafe ==
    ASSUME IInv, NEW r \in Reqs, Leave(r),
           artifact' # NoSource \/ artifact' = artifact
    PROVE  req' \in [Reqs -> Handlers] /\ HandlersKnow'
  <1> DEFINE h == IF req[r].op = "create"
                  THEN [NoRequest EXCEPT !.op = "create", !.pc = "release"] ELSE NoRequest
  <1>1. h \in Handlers /\ h.art = NoSource /\ h.pc \in {"release", "idle"}
    BY DEF NoRequest, Handlers, Pcs
  <1>2. req' = [req EXCEPT ![r] = h]  BY DEF Leave
  <1> HIDE DEF h
  <1> QED BY <1>1, <1>2, HandlerMoves DEF PlacingPcs, RowPcs

\* The place in the code really changes.
LEMMA Leaves ==
    ASSUME IInv, NEW r \in Reqs, Leave(r)
    PROVE  req'[r].pc \in {"idle", "release"}
  BY DEF Leave, NoRequest, IInv, RowsTyped

LEMMA Goes ==
    ASSUME IInv, NEW r \in Reqs, NEW pc, ReqGoto(r, pc)
    PROVE  req'[r].pc = pc
  BY DEF ReqGoto, IInv, RowsTyped, Handlers

\* What a handler's place and the types say of a handler.
LEMMA HandlerFacts ==
    ASSUME IInv, NEW r \in Reqs
    PROVE  /\ req[r] \in Handlers
           /\ req[r].art # NoSource => req[r].art \in Artifacts
           /\ HandlerKnows(r)
  BY DEF IInv, RowsTyped, HandlersKnow, Handlers, Pcs

-----------------------------------------------------------------------------
(* Each action keeps the types and the handlers.                           *)

LEMMA ClaimProvisioningTyped ==
    ASSUME IInv, NEW r \in Reqs, NEW i \in Intents, ClaimProvisioning(r, i)  PROVE IInv'
  <1> DEFINE h == [[NoRequest EXCEPT !.intent = i] EXCEPT !.op = "create", !.pc = "existing"]
  <1>1. h \in Handlers /\ h.art = NoSource /\ h.pc = "existing" /\ h.intent \in Intents
    BY DEF NoRequest, Handlers, Pcs
  <1>2. req' = [req EXCEPT ![r] = h]  BY DEF ClaimProvisioning, BeginRequest
  <1> HIDE DEF h
  <1>3. req' \in [Reqs -> Handlers] /\ HandlersKnow'
    BY <1>1, <1>2, HandlerMoves DEF ClaimProvisioning, RowPcs
  <1> QED BY <1>3 DEF IInv, RowsTyped, ClaimProvisioning

LEMMA GetExistingTyped ==
    ASSUME IInv, NEW r \in Reqs, GetExisting(r)  PROVE IInv'
  <1> DEFINE h == [req[r] EXCEPT !.pc = "reserve", !.art = artifact]
  <1>1. CASE req' = [req EXCEPT ![r].pc = "reserve", ![r].art = artifact]
    <2>1. h \in Handlers /\ h.art = artifact /\ h.pc = "reserve" /\ h.intent = req[r].intent
      BY HandlerFacts DEF Handlers, Pcs, IInv, RowsTyped
    <2>2. req' = [req EXCEPT ![r] = h]  BY <1>1
    <2>3. req[r].intent \in Intents
      BY HandlerFacts DEF HandlerKnows, GetExisting, ReqAt, PlacingPcs
    <2> HIDE DEF h
    <2>4. req' \in [Reqs -> Handlers] /\ HandlersKnow'
      BY <2>1, <2>2, <2>3, HandlerMoves DEF GetExisting, RowPcs
    <2> QED BY <2>4 DEF IInv, RowsTyped, GetExisting
  <1>2. CASE Leave(r)
    BY <1>2, LeaveSafe DEF IInv, RowsTyped, GetExisting
  <1> QED BY <1>1, <1>2 DEF GetExisting

LEMMA ReserveSourceCapacityTyped ==
    ASSUME IInv, NEW r \in Reqs, ReserveSourceCapacity(r)  PROVE IInv'
  <1>1. req' \in [Reqs -> Handlers] /\ HandlersKnow'
    <2>1. CASE Leave(r)  BY <2>1, LeaveSafe DEF ReserveSourceCapacity
    <2>2. CASE StartsAnew(req[r].art) /\ ReqGoto(r, "renewList")
      BY <2>2, GotoSafe DEF ReserveSourceCapacity, ReqAt, PlacingPcs, RowPcs, Pcs
    <2>3. CASE ~StartsAnew(req[r].art) /\ ReqGoto(r, "inspect")
      BY <2>3, GotoSafe DEF ReserveSourceCapacity, StartsAnew, ReqAt, PlacingPcs, RowPcs, Pcs
    <2> QED BY <2>1, <2>2, <2>3 DEF ReserveSourceCapacity
  <1>2. req[r].intent \in Intents
    BY HandlerFacts DEF HandlerKnows, ReserveSourceCapacity, ReqAt, PlacingPcs
  <1>3. reservation' = reservation \/ reservation' = [intent |-> req[r].intent, open |-> TRUE]
    BY DEF ReserveSourceCapacity
  <1>4. reservation' \in Reservations \union {NoReservation}
    <2>1. [intent |-> req[r].intent, open |-> TRUE] \in Reservations  BY <1>2 DEF Reservations
    <2> QED BY <2>1, <1>3 DEF IInv, RowsTyped
  <1> QED BY <1>1, <1>4 DEF IInv, RowsTyped, ReserveSourceCapacity

LEMMA RenewProvisioningTyped ==
    ASSUME IInv, NEW r \in Reqs, RenewProvisioning(r)  PROVE IInv'
  <1>1. req' \in [Reqs -> Handlers] /\ HandlersKnow'
    <2>1. CASE Leave(r)  BY <2>1, LeaveSafe DEF RenewProvisioning
    <2>2. CASE ReqAt(r, "renewList") /\ ReqGoto(r, "list")
      BY <2>2, GotoSafe DEF RenewProvisioning, ReqAt, PlacingPcs, RowPcs, Pcs
    <2>3. CASE ReqAt(r, "renewObserve") /\ ReqGoto(r, "observe")
      BY <2>3, GotoSafe, HandlerFacts
         DEF RenewProvisioning, HandlerKnows, ReqAt, PlacingPcs, RowPcs, Pcs
    <2>4. CASE ReqAt(r, "renewMark") /\ ReqGoto(r, "markSession")
      BY <2>4, GotoSafe, HandlerFacts
         DEF RenewProvisioning, HandlerKnows, ReqAt, PlacingPcs, RowPcs, Pcs
    <2> QED BY <2>1, <2>2, <2>3, <2>4 DEF RenewProvisioning
  <1> QED BY <1>1 DEF IInv, RowsTyped, RenewProvisioning

\* A placeholder chosen or made: on to reserveSourceArtifact.
LEMMA FileChosen ==
    ASSUME IInv, NEW r \in Reqs, NEW f \in DriveFiles, req[r].pc \in PlacingPcs,
           req' = [req EXCEPT ![r].pc = "bind", ![r].file = f], artifact' = artifact
    PROVE  req' \in [Reqs -> Handlers] /\ HandlersKnow'
  <1> DEFINE h == [req[r] EXCEPT !.pc = "bind", !.file = f]
  <1>1. /\ h \in Handlers /\ h.pc = "bind" /\ h.file = f
        /\ h.intent = req[r].intent /\ h.art = req[r].art
    BY HandlerFacts DEF Handlers, Pcs
  <1>2. req' = [req EXCEPT ![r] = h]
    OBVIOUS
  <1>3. HandlerKnows(r)  BY HandlerFacts
  <1> HIDE DEF h
  <1> QED BY <1>1, <1>2, <1>3, HandlerMoves DEF HandlerKnows, RowPcs

LEMMA ListSourceFilesTyped ==
    ASSUME IInv, NEW r \in Reqs, ListSourceFiles(r)  PROVE IInv'
  <1>1. req' \in [Reqs -> Handlers] /\ HandlersKnow'
    <2>1. CASE Leave(r)  BY <2>1, LeaveSafe DEF ListSourceFiles
    <2>2. CASE ReqGoto(r, "createFile")
      BY <2>2, GotoSafe DEF ListSourceFiles, ReqAt, PlacingPcs, RowPcs, Pcs
    <2>3. CASE \E f \in DriveFiles : req' = [req EXCEPT ![r].pc = "bind", ![r].file = f]
      BY <2>3, FileChosen DEF ListSourceFiles, ReqAt, PlacingPcs
    <2> QED BY <2>1, <2>2, <2>3 DEF ListSourceFiles, Listed
  <1> QED BY <1>1 DEF IInv, RowsTyped, ListSourceFiles

LEMMA CreateSourceFileTyped ==
    ASSUME IInv, NEW r \in Reqs, CreateSourceFile(r)  PROVE IInv'
  <1> DEFINE d == [name |-> req[r].intent.name, bytes |-> 0, place |-> "kept"]
  <1>1. PICK f \in DriveFiles : /\ drive' = [drive EXCEPT ![f] = d]
                                /\ req' = [req EXCEPT ![r].pc = "bind", ![r].file = f]
    BY DEF CreateSourceFile
  <1>2. req' \in [Reqs -> Handlers] /\ HandlersKnow'
    BY <1>1, FileChosen DEF CreateSourceFile, ReqAt, PlacingPcs
  <1>3. req[r].intent \in Intents
    BY HandlerFacts DEF HandlerKnows, CreateSourceFile, ReqAt, PlacingPcs
  <1>4. d \in FileStates  BY <1>3 DEF FileStates
  <1> HIDE DEF d
  <1> QED BY <1>1, <1>2, <1>4 DEF IInv, RowsTyped, CreateSourceFile

\* A row in another status, and the row an upload starts with.
LEMMA RowMoves ==
    ASSUME NEW a \in Artifacts, NEW s \in ArtifactStates
    PROVE  LET b == [a EXCEPT !.status = s]
           IN  /\ b \in Artifacts /\ b # NoSource /\ b.status = s
               /\ b.file = a.file /\ b.intent = a.intent /\ b.actual = a.actual
  <1> DEFINE b == [a EXCEPT !.status = s]
  <1>1. /\ b \in Artifacts /\ b.status = s
        /\ b.file = a.file /\ b.intent = a.intent /\ b.actual = a.actual
    BY DEF Artifacts
  <1> QED BY <1>1, RowsAreRows

LEMMA PendingRowTyped ==
    ASSUME NEW f \in DriveFiles, NEW i \in Intents
    PROVE  /\ PendingRow(f, i) \in Artifacts /\ PendingRow(f, i) # NoSource
           /\ PendingRow(f, i).status = "PENDING" /\ PendingRow(f, i).actual = 0
           /\ PendingRow(f, i).intent = i
  <1>1. PendingRow(f, i) \in Artifacts  BY DEF PendingRow, Artifacts, ArtifactStates
  <1> QED BY <1>1, RowsAreRows DEF PendingRow

\* What reserveSourceArtifact does to the row it finds.
LEMMA ReserveSourceArtifactRow ==
    ASSUME IInv, NEW r \in Reqs, ReserveSourceArtifact(r)
    PROVE  /\ req[r].intent \in Intents
           /\ \/ artifact' = artifact /\ sourceStatus' = sourceStatus
              \/ /\ artifact # NoSource /\ artifact' = artifact
                 /\ artifact.status \notin Replaceable
                 /\ sourceStatus' = IF sourceStatus \in ReservableStatus
                                    THEN "UPLOAD_PENDING" ELSE sourceStatus
              \/ /\ StartsAnew(artifact) /\ Owns(r)
                 /\ artifact' \in Artifacts /\ artifact' # NoSource
                 /\ artifact'.status = "PENDING" /\ artifact'.actual = 0
                 /\ artifact'.intent = req[r].intent
                 /\ sourceStatus' = IF sourceStatus \in ReservableStatus
                                    THEN "UPLOAD_PENDING" ELSE sourceStatus
  <1>1. req[r].intent \in Intents /\ req[r].file \in DriveFiles
    BY HandlerFacts DEF HandlerKnows, ReserveSourceArtifact, ReqAt, PlacingPcs
  <1> QED BY <1>1, PendingRowTyped DEF ReserveSourceArtifact, StartsAnew

LEMMA ReserveSourceArtifactTyped ==
    ASSUME IInv, NEW r \in Reqs, ReserveSourceArtifact(r)  PROVE IInv'
  <1>1. /\ artifact' \in Artifacts \union {NoSource}
        /\ artifact' # NoSource \/ artifact' = artifact
        /\ artifact' # NoSource =>
             /\ artifact'.status \in Unfinished => artifact'.actual = 0
             /\ artifact'.status = "READY" => artifact'.actual > 0
    BY ReserveSourceArtifactRow DEF IInv, RowsTyped
  <1>2. sourceStatus' \in {"NO_SOURCE", "UPLOAD_PENDING", "SOURCE_READY", "UPLOAD_FAILED"}
    BY ReserveSourceArtifactRow DEF IInv, RowsTyped
  <1>3. req' \in [Reqs -> Handlers] /\ HandlersKnow'
    <2>1. CASE Leave(r)  BY <2>1, <1>1, LeaveSafe
    <2>2. CASE /\ artifact' # NoSource
               /\ req' = [req EXCEPT ![r].pc = "renewMark", ![r].art = artifact']
      <3> DEFINE h == [req[r] EXCEPT !.pc = "renewMark", !.art = artifact']
      <3>1. h \in Handlers /\ h.pc = "renewMark" /\ h.art = artifact'
        BY HandlerFacts, <1>1 DEF Handlers, Pcs
      <3>2. req' = [req EXCEPT ![r] = h]  BY <2>2
      <3> HIDE DEF h
      <3> QED BY <2>2, <3>1, <3>2, HandlerMoves DEF PlacingPcs
    <2> QED BY <2>1, <2>2, PendingRowTyped, HandlerFacts
            DEF ReserveSourceArtifact, StartsAnew, HandlerKnows, ReqAt, PlacingPcs
  <1> QED BY <1>1, <1>2, <1>3 DEF IInv, RowsTyped, ReserveSourceArtifact

LEMMA CreateResumableSessionTyped ==
    ASSUME IInv, NEW r \in Reqs, CreateResumableSession(r)  PROVE IInv'
  <1>1. ReqGoto(r, "renewAnswer") \/ ReqGoto(r, "invalid")  BY DEF CreateResumableSession
  <1>2. req' \in [Reqs -> Handlers] /\ HandlersKnow'
    BY <1>1, GotoSafe, HandlerFacts
       DEF CreateResumableSession, HandlerKnows, ReqAt, PlacingPcs, RowPcs, Pcs
  <1> QED BY <1>2 DEF IInv, RowsTyped, CreateResumableSession

LEMMA HandOutSessionTyped ==
    ASSUME IInv, NEW r \in Reqs, HandOutSession(r)  PROVE IInv'
  <1>1. req' \in [Reqs -> Handlers] /\ HandlersKnow'
    BY LeaveSafe DEF HandOutSession
  <1>2. req[r].art \in Artifacts
    BY HandlerFacts DEF HandlerKnows, HandOutSession, ReqAt, RowPcs
  <1>3. [file |-> req[r].art.file, size |-> req[r].art.intent.size] \in [file : DriveFiles, size : Nat]
    BY <1>2, IntentsHaveBytes DEF Artifacts
  <1>4. sessions' \subseteq [file : DriveFiles, size : Nat]
    BY <1>3 DEF HandOutSession, IInv, RowsTyped
  <1> QED BY <1>1, <1>4 DEF IInv, RowsTyped, HandOutSession

LEMMA ReleaseProvisioningTyped ==
    ASSUME IInv, NEW r \in Reqs, ReleaseProvisioning(r)  PROVE IInv'
  <1>1. req' \in [Reqs -> Handlers] /\ HandlersKnow'
    <2>1. NoRequest.pc = "idle" /\ NoRequest.art = NoSource  BY DEF NoRequest
    <2> QED BY <2>1, IdleTyped, HandlerMoves DEF ReleaseProvisioning, PlacingPcs, RowPcs
  <1>2. claim' \in [token : Reqs \union {NoOne}, live : BOOLEAN]
    BY DEF ReleaseProvisioning, IInv, RowsTyped
  <1> QED BY <1>1, <1>2 DEF IInv, RowsTyped, ReleaseProvisioning

LEMMA InspectFileTyped ==
    ASSUME IInv, NEW r \in Reqs, InspectFile(r)  PROVE IInv'
  <1> DEFINE With(pc) == req' = [req EXCEPT ![r].pc = pc,
                                            ![r].bytes = drive[req[r].art.file].bytes]
  <1>1. req[r] \in Handlers /\ req[r].art \in Artifacts /\ HandlerKnows(r)
    BY HandlerFacts DEF HandlerKnows, InspectFile, ReqAt, RowPcs
  <1>2. req' \in [Reqs -> Handlers] /\ HandlersKnow'
    <2>1. CASE Leave(r)  BY <2>1, LeaveSafe DEF InspectFile
    <2>2. ASSUME NEW pc \in {"invalid", "claimDeletion", "claimAbsent"}, ReqGoto(r, pc)
          PROVE  req' \in [Reqs -> Handlers] /\ HandlersKnow'
      <3>1. pc \in Pcs /\ pc \notin PlacingPcs /\ pc \notin {"bind", "claimManaged"}
        BY DEF Pcs, PlacingPcs
      <3> QED BY <1>1, <2>2, <3>1, GotoSafe DEF InspectFile, HandlerKnows, ReqAt, RowPcs
    <2>3. ASSUME NEW pc \in {"renewObserve", "observe"}, With(pc)
          PROVE  req' \in [Reqs -> Handlers] /\ HandlersKnow'
      <3> DEFINE h == [req[r] EXCEPT !.pc = pc, !.bytes = drive[req[r].art.file].bytes]
      <3>1. drive[req[r].art.file].bytes \in Nat
        BY <1>1 DEF Artifacts, FileStates, IInv, RowsTyped
      <3>2. h \in Handlers /\ h.pc = pc /\ h.art = req[r].art
        BY <1>1, <3>1 DEF Handlers, Pcs
      <3>3. req' = [req EXCEPT ![r] = h]  BY <2>3
      <3>4. artifact' = artifact  BY DEF InspectFile
      <3> HIDE DEF h, With
      <3> QED BY <1>1, <3>2, <3>3, <3>4, HandlerMoves
              DEF HandlerKnows, PlacingPcs, RowPcs, InspectFile, ReqAt
    <2> QED BY <2>1, <2>2, <2>3 DEF InspectFile
  <1> QED BY <1>2 DEF IInv, RowsTyped, InspectFile

LEMMA ObserveProgressTyped ==
    ASSUME IInv, NEW r \in Reqs, ObserveProgress(r)  PROVE IInv'
  <1>1. req' \in [Reqs -> Handlers] /\ HandlersKnow'
    <2>1. CASE Leave(r)  BY <2>1, LeaveSafe DEF ObserveProgress
    <2>2. ASSUME NEW pc \in {"mark", "ready", "renewMark"}, ReqGoto(r, pc)
          PROVE  req' \in [Reqs -> Handlers] /\ HandlersKnow'
      <3>1. pc \in Pcs /\ pc \notin PlacingPcs /\ pc \notin {"bind", "claimManaged"}
        BY DEF Pcs, PlacingPcs
      <3> QED BY <2>2, <3>1, GotoSafe, HandlerFacts DEF ObserveProgress, HandlerKnows, ReqAt, RowPcs
    <2> QED BY <2>1, <2>2 DEF ObserveProgress
  <1> QED BY <1>1 DEF IInv, RowsTyped, ObserveProgress

\* A statement that keeps or moves the status of the row found.
LEMMA StatusStep ==
    ASSUME IInv, artifact # NoSource, NEW s \in ArtifactStates,
           s = "READY" => FALSE, s \in Unfinished => artifact.status \in Unfinished,
           artifact' = artifact \/ artifact' = [artifact EXCEPT !.status = s]
    PROVE  /\ artifact' \in Artifacts /\ artifact' # NoSource
           /\ artifact'.status \in Unfinished => artifact'.actual = 0
           /\ artifact'.status = "READY" => artifact'.actual > 0
  <1>1. CASE artifact' = artifact  BY <1>1 DEF IInv, RowsTyped
  <1>2. CASE artifact' = [artifact EXCEPT !.status = s]
    BY <1>2, RowMoves DEF IInv, RowsTyped
  <1> QED BY <1>1, <1>2

LEMMA MarkArtifactUploadingTyped ==
    ASSUME IInv, NEW r \in Reqs, MarkArtifactUploading(r)  PROVE IInv'
  <1>1. HandlerKnows(r) /\ req[r].art # NoSource /\ artifact # NoSource
    BY HandlerFacts DEF HandlerKnows, MarkArtifactUploading, ReqAt, RowPcs
  <1>2. /\ artifact' \in Artifacts /\ artifact' # NoSource
        /\ artifact'.status \in Unfinished => artifact'.actual = 0
        /\ artifact'.status = "READY" => artifact'.actual > 0
    <2>1. CASE artifact' = artifact
      BY <1>1, <2>1 DEF IInv, RowsTyped
    <2>2. CASE /\ artifact.status \in Unfinished
               /\ artifact' = [artifact EXCEPT !.status = "UPLOADING"]
      BY <1>1, <2>2, StatusStep DEF ArtifactStates
    <2> QED BY <2>1, <2>2 DEF MarkArtifactUploading
  <1>3. req' \in [Reqs -> Handlers] /\ HandlersKnow'
    <2>1. CASE Leave(r)  BY <1>2, <2>1, LeaveSafe
    <2>2. ASSUME NEW pc \in {"ready", "session"}, ReqGoto(r, pc)
          PROVE  req' \in [Reqs -> Handlers] /\ HandlersKnow'
      <3>1. pc \in Pcs /\ pc \notin PlacingPcs /\ pc \notin {"bind", "claimManaged"}
        BY DEF Pcs, PlacingPcs
      <3> QED BY <1>1, <1>2, <2>2, <3>1, GotoSafe
    <2> QED BY <2>1, <2>2 DEF MarkArtifactUploading
  <1> QED BY <1>2, <1>3 DEF IInv, RowsTyped, MarkArtifactUploading

\* A reservation that is released stays a reservation.
LEMMA ReleasedTyped ==
    ASSUME NEW v \in Reservations \union {NoReservation}
    PROVE  /\ Released(v) \in Reservations \union {NoReservation} /\ ~IsOpen(Released(v))
           /\ v = NoReservation => Released(v) = v
  BY RowsAreRows DEF Released, IsOpen, Reservations

\* The row markSourceReady leaves.
LEMMA MarkSourceReadyRow ==
    ASSUME IInv, NEW r \in Reqs, MarkSourceReady(r)
    PROVE  /\ artifact' \in Artifacts /\ artifact' # NoSource
           /\ artifact'.status \in Unfinished => artifact'.actual = 0
           /\ artifact'.status = "READY" => artifact'.actual > 0
  <1> DEFINE row == [artifact EXCEPT !.status = "READY", !.actual = req[r].art.intent.size]
  <1>1. req[r].art \in Artifacts /\ artifact # NoSource /\ artifact \in Artifacts
    BY HandlerFacts DEF HandlerKnows, MarkSourceReady, ReqAt, RowPcs, IInv, RowsTyped
  <1>2. req[r].art.intent.size \in Nat /\ req[r].art.intent.size > 0
    BY <1>1, IntentsHaveBytes DEF Artifacts
  <1>3. row \in Artifacts /\ row.status = "READY" /\ row.actual > 0
    BY <1>1, <1>2 DEF Artifacts, ArtifactStates
  <1>4. row # NoSource  BY <1>3, RowsAreRows
  <1>5. artifact' = artifact \/ artifact' = row  BY DEF MarkSourceReady, EndSource
  <1> HIDE DEF row
  <1> QED BY <1>1, <1>3, <1>4, <1>5 DEF IInv, RowsTyped, Unfinished

LEMMA MarkSourceReadyTyped ==
    ASSUME IInv, NEW r \in Reqs, MarkSourceReady(r)  PROVE IInv'
  <1>1. req' \in [Reqs -> Handlers] /\ HandlersKnow'
    BY MarkSourceReadyRow, LeaveSafe DEF MarkSourceReady
  <1>2. reservation' \in Reservations \union {NoReservation}
    BY ReleasedTyped DEF MarkSourceReady, EndSource, IInv, RowsTyped
  <1> QED BY MarkSourceReadyRow, <1>1, <1>2 DEF IInv, RowsTyped, MarkSourceReady, EndSource

\* The two statements that end a source without making it READY.
LEMMA EndSourceTyped ==
    ASSUME IInv, NEW r \in Reqs, artifact # NoSource, NEW ok \in BOOLEAN,
           NEW s \in {"INVALID", "DELETED"}, NEW t \in {"UPLOAD_FAILED", "NO_SOURCE"},
           EndSource(ok, [artifact EXCEPT !.status = s], t), Leave(r),
           UNCHANGED <<claim, drive, sessions>>
    PROVE  IInv'
  <1>1. /\ artifact' \in Artifacts /\ artifact' # NoSource
        /\ artifact'.status \in Unfinished => artifact'.actual = 0
        /\ artifact'.status = "READY" => artifact'.actual > 0
    <2>1. s \in ArtifactStates /\ s # "READY" /\ s \notin Unfinished
      BY DEF ArtifactStates, Unfinished
    <2>2. artifact' = artifact \/ artifact' = [artifact EXCEPT !.status = s]
      BY DEF EndSource
    <2> QED BY <2>1, <2>2, StatusStep
  <1>2. req' \in [Reqs -> Handlers] /\ HandlersKnow'  BY <1>1, LeaveSafe
  <1>3. reservation' \in Reservations \union {NoReservation}
    BY ReleasedTyped DEF EndSource, IInv, RowsTyped
  <1>4. sourceStatus' \in {"NO_SOURCE", "UPLOAD_PENDING", "SOURCE_READY", "UPLOAD_FAILED"}
    BY DEF EndSource, IInv, RowsTyped
  <1> QED BY <1>1, <1>2, <1>3, <1>4 DEF IInv, RowsTyped

LEMMA MarkSourceInvalidTyped ==
    ASSUME IInv, NEW r \in Reqs, MarkSourceInvalid(r)  PROVE IInv'
  <1>1. artifact # NoSource
    BY HandlerFacts DEF HandlerKnows, MarkSourceInvalid, ReqAt, RowPcs
  <1> QED BY <1>1, EndSourceTyped DEF MarkSourceInvalid, Fenced, Owns, IInv, RowsTyped

LEMMA MarkSourceDeletedTyped ==
    ASSUME IInv, NEW r \in Reqs, MarkSourceDeleted(r)  PROVE IInv'
  <1>1. artifact # NoSource
    BY HandlerFacts DEF HandlerKnows, MarkSourceDeleted, ReqAt, RowPcs
  <1> QED BY <1>1, EndSourceTyped DEF MarkSourceDeleted

\* A handler that starts from the row it reads.
LEMMA BeginSafe ==
    ASSUME IInv, NEW r \in Reqs, NEW op \in {"complete", "cancel", "delete"},
           NEW pc \in {"inspect", "delete", "claimManaged"},
           NEW a \in Artifacts \union {NoSource},
           artifact # NoSource, artifact' = artifact,
           pc # "claimManaged" => a # NoSource, BeginRequest(r, op, pc, [NoRequest EXCEPT !.art = a])
    PROVE  req' \in [Reqs -> Handlers] /\ HandlersKnow'
  <1> DEFINE h == [[NoRequest EXCEPT !.art = a] EXCEPT !.op = op, !.pc = pc]
  <1>1. h \in Handlers /\ h.art = a /\ h.pc = pc  BY DEF NoRequest, Handlers, Pcs
  <1>2. req' = [req EXCEPT ![r] = h]  BY DEF BeginRequest
  <1> HIDE DEF h
  <1> QED BY <1>1, <1>2, HandlerMoves DEF PlacingPcs, RowPcs

LEMMA StartsTyped ==
    ASSUME IInv, NEW r \in Reqs, StartComplete(r) \/ StartCancel(r) \/ StartDelete(r)
    PROVE  IInv'
  <1>1. artifact \in Artifacts \union {NoSource}  BY DEF IInv, RowsTyped
  <1>2. CASE StartComplete(r)
    <2>1. req' \in [Reqs -> Handlers] /\ HandlersKnow'
      BY <1>1, <1>2, BeginSafe DEF StartComplete
    <2> QED BY <1>2, <2>1 DEF IInv, RowsTyped, StartComplete
  <1>3. CASE StartCancel(r)
    <2>1. req' \in [Reqs -> Handlers] /\ HandlersKnow'
      BY <1>1, <1>3, BeginSafe DEF StartCancel, CancelFrom
    <2> QED BY <1>3, <2>1 DEF IInv, RowsTyped, StartCancel
  <1>4. CASE StartDelete(r)
    <2>1. req' \in [Reqs -> Handlers] /\ HandlersKnow'
      BY <1>1, <1>4, BeginSafe DEF StartDelete
    <2> QED BY <1>4, <2>1 DEF IInv, RowsTyped, StartDelete
  <1> QED BY <1>2, <1>3, <1>4

LEMMA ClaimSourceDeletionTyped ==
    ASSUME IInv, NEW r \in Reqs, ClaimSourceDeletion(r)  PROVE IInv'
  <1>1. req[r].art # NoSource /\ artifact # NoSource
    BY HandlerFacts DEF HandlerKnows, ClaimSourceDeletion, ReqAt, RowPcs
  <1>2. /\ artifact' \in Artifacts /\ artifact' # NoSource
        /\ artifact'.status \in Unfinished => artifact'.actual = 0
        /\ artifact'.status = "READY" => artifact'.actual > 0
    BY <1>1, StatusStep DEF ClaimSourceDeletion, ArtifactStates, Unfinished
  <1>3. req' \in [Reqs -> Handlers] /\ HandlersKnow'
    <2>1. CASE Leave(r)  BY <1>2, <2>1, LeaveSafe
    <2>2. ASSUME NEW pc \in {"delete", "deleted"}, ReqGoto(r, pc)
          PROVE  req' \in [Reqs -> Handlers] /\ HandlersKnow'
      <3>1. pc \in Pcs /\ pc \notin PlacingPcs /\ pc \notin {"bind", "claimManaged"}
        BY DEF Pcs, PlacingPcs
      <3> QED BY <1>1, <1>2, <2>2, <3>1, GotoSafe
    <2> QED BY <2>1, <2>2 DEF ClaimSourceDeletion
  <1> QED BY <1>2, <1>3 DEF IInv, RowsTyped, ClaimSourceDeletion

LEMMA ClaimManagedDeletionTyped ==
    ASSUME IInv, NEW r \in Reqs, ClaimManagedDeletion(r)  PROVE IInv'
  <1>1. artifact # NoSource
    BY HandlerFacts DEF HandlerKnows, ClaimManagedDeletion, ReqAt
  <1>2. /\ artifact' \in Artifacts /\ artifact' # NoSource
        /\ artifact'.status \in Unfinished => artifact'.actual = 0
        /\ artifact'.status = "READY" => artifact'.actual > 0
    BY <1>1, StatusStep DEF ClaimManagedDeletion, ArtifactStates, Unfinished
  <1>3. req' \in [Reqs -> Handlers] /\ HandlersKnow'
    <2>1. CASE Leave(r)  BY <1>2, <2>1, LeaveSafe
    <2>2. CASE req[r].art # NoSource /\ ReqGoto(r, "inspectManaged")
      BY <1>2, <2>2, GotoSafe DEF Pcs, PlacingPcs
    <2> QED BY <2>1, <2>2 DEF ClaimManagedDeletion
  <1> QED BY <1>2, <1>3 DEF IInv, RowsTyped, ClaimManagedDeletion

LEMMA InspectManagedTyped ==
    ASSUME IInv, NEW r \in Reqs, InspectManaged(r)  PROVE IInv'
  <1>1. req[r].art # NoSource /\ artifact # NoSource
    BY HandlerFacts DEF HandlerKnows, InspectManaged, ReqAt, RowPcs
  <1>2. Leave(r) \/ ReqGoto(r, "deleted") \/ ReqGoto(r, "delete")  BY DEF InspectManaged
  <1>3. req' \in [Reqs -> Handlers] /\ HandlersKnow'
    BY <1>1, <1>2, LeaveSafe, GotoSafe DEF InspectManaged, PlacingPcs, Pcs
  <1> QED BY <1>3 DEF IInv, RowsTyped, InspectManaged

LEMMA DeleteFileTyped ==
    ASSUME IInv, NEW r \in Reqs, DeleteFile(r)  PROVE IInv'
  <1>1. req[r].art # NoSource /\ artifact # NoSource
    BY HandlerFacts DEF HandlerKnows, DeleteFile, ReqAt, RowPcs
  <1>2. req' \in [Reqs -> Handlers] /\ HandlersKnow'
    BY <1>1, GotoSafe DEF DeleteFile, PlacingPcs, Pcs
  <1>3. req[r].art.file \in DriveFiles  BY <1>1, HandlerFacts DEF Artifacts
  <1>4. drive' \in [DriveFiles -> FileStates]
    BY <1>3 DEF DeleteFile, FileStates, IInv, RowsTyped
  <1> QED BY <1>2, <1>4 DEF IInv, RowsTyped, DeleteFile

LEMMA EnvironmentTyped ==
    ASSUME IInv, UploadBytes \/ OwnerRemovesFile \/ ClaimExpires  PROVE IInv'
  <1>1. CASE UploadBytes
    <2>1. PICK s \in sessions : drive' = [drive EXCEPT ![s.file].bytes = @ + 1]
      BY <1>1 DEF UploadBytes
    <2>2. drive' \in [DriveFiles -> FileStates]
      <3>1. s.file \in DriveFiles  BY DEF IInv, RowsTyped
      <3>2. drive \in [DriveFiles -> FileStates]  BY DEF IInv, RowsTyped
      <3> QED BY <2>1, <3>1, <3>2 DEF FileStates
    <2> QED BY <1>1, <2>2 DEF IInv, RowsTyped, UploadBytes, HandlersKnow, HandlerKnows
  <1>2. CASE OwnerRemovesFile
    <2>1. PICK f \in DriveFiles, p \in {"trashed", "gone"} :
             drive' = [drive EXCEPT ![f].place = p]
      BY <1>2 DEF OwnerRemovesFile, Listed
    <2>2. drive' \in [DriveFiles -> FileStates]
      BY <2>1 DEF IInv, RowsTyped, FileStates
    <2> QED BY <1>2, <2>2 DEF IInv, RowsTyped, OwnerRemovesFile, HandlersKnow, HandlerKnows
  <1>3. CASE ClaimExpires
    BY <1>3 DEF IInv, RowsTyped, ClaimExpires, HandlersKnow, HandlerKnows
  <1> QED BY <1>1, <1>2, <1>3

LEMMA InterruptionsTyped ==
    ASSUME IInv, NEW r \in Reqs, Fail(r) \/ Crash(r)  PROVE IInv'
  <1>1. CASE Fail(r)
    BY <1>1, LeaveSafe DEF IInv, RowsTyped, Fail
  <1>2. CASE Crash(r)
    <2>1. NoRequest.pc = "idle" /\ NoRequest.art = NoSource  BY DEF NoRequest
    <2>2. req' \in [Reqs -> Handlers] /\ HandlersKnow'
      BY <1>2, <2>1, IdleTyped, HandlerMoves DEF Crash, PlacingPcs, RowPcs
    <2> QED BY <1>2, <2>2 DEF IInv, RowsTyped, Crash
  <1> QED BY <1>1, <1>2

-----------------------------------------------------------------------------
(* The inductive invariant of types and handlers.                          *)

LEMMA InitTyped == SUInit => IInv
  <1> SUFFICES ASSUME SUInit PROVE IInv
    OBVIOUS
  <1>1. drive \in [DriveFiles -> FileStates]  BY DEF SUInit, FileStates
  <1>2. req \in [Reqs -> Handlers]  BY IdleTyped DEF SUInit
  <1>3. RowsTyped  BY <1>1, <1>2 DEF SUInit, RowsTyped
  <1>4. HandlersKnow
    BY DEF SUInit, HandlersKnow, HandlerKnows, NoRequest, PlacingPcs, RowPcs
  <1> QED BY <1>3, <1>4 DEF IInv

LEMMA NextTyped == IInv /\ [SUNext]_suVars => IInv'
  <1> SUFFICES ASSUME IInv, [SUNext]_suVars PROVE IInv'
    OBVIOUS
  <1>1. CASE UNCHANGED suVars
    BY <1>1 DEF suVars, IInv, RowsTyped, HandlersKnow, HandlerKnows
  <1>2. ASSUME NEW r \in Reqs, Handle(r)  PROVE IInv'
    BY <1>2, GetExistingTyped, ReserveSourceCapacityTyped, RenewProvisioningTyped,
       ListSourceFilesTyped, CreateSourceFileTyped, ReserveSourceArtifactTyped,
       CreateResumableSessionTyped, HandOutSessionTyped, ReleaseProvisioningTyped,
       InspectFileTyped, ObserveProgressTyped, MarkArtifactUploadingTyped,
       MarkSourceReadyTyped, MarkSourceInvalidTyped, ClaimSourceDeletionTyped,
       ClaimManagedDeletionTyped, InspectManagedTyped, DeleteFileTyped, MarkSourceDeletedTyped
       DEF Handle
  <1> QED BY <1>1, <1>2, ClaimProvisioningTyped, StartsTyped, InterruptionsTyped,
             EnvironmentTyped DEF SUNext

\* TypeOK of the run source_requests: the rows, the files and the sessions
\* keep their types whatever handlers race, and an unfinished row never has an
\* actual size, a READY one always does.
THEOREM TypeCorrect == SUSpec => []TypeOK
  <1>1. IInv => TypeOK
    <2> SUFFICES ASSUME IInv PROVE TypeOK
      OBVIOUS
    <2>1. \A f \in DriveFiles : drive[f].place \in {"unused", "kept", "trashed", "gone"}
      BY DEF IInv, RowsTyped, FileStates
    <2>2. \A s \in sessions : s.file \in DriveFiles  BY DEF IInv, RowsTyped
    <2>3. artifact # NoSource =>
             /\ artifact.status \in ArtifactStates /\ artifact.file \in DriveFiles
             /\ artifact.intent \in Intents
      BY DEF IInv, RowsTyped, Artifacts
    <2>4. reservation # NoReservation =>
             reservation.intent \in Intents /\ reservation.open \in BOOLEAN
      BY DEF IInv, RowsTyped, Reservations
    <2>5. claim.token \in Reqs \union {NoOne} /\ claim.live \in BOOLEAN
      BY DEF IInv, RowsTyped
    <2> QED BY <2>1, <2>2, <2>3, <2>4, <2>5 DEF IInv, RowsTyped, TypeOK
  <1> QED BY <1>1, InitTyped, NextTyped, PTL DEF SUSpec

-----------------------------------------------------------------------------
(* The project's source_status.                                            *)

\* No other action writes the row of artifacts or the status of the project.
LEMMA OnlyTheseWriteTheSource ==
    ASSUME [SUNext]_suVars
    PROVE  \/ UNCHANGED <<artifact, sourceStatus>>
           \/ \E r \in Reqs : \/ ReserveSourceArtifact(r) \/ MarkArtifactUploading(r)
                             \/ MarkSourceReady(r) \/ MarkSourceInvalid(r)
                             \/ ClaimSourceDeletion(r) \/ ClaimManagedDeletion(r)
                             \/ MarkSourceDeleted(r)
  <1>1. ASSUME NEW r \in Reqs, Handle(r)
        PROVE  \/ UNCHANGED <<artifact, sourceStatus>>
               \/ ReserveSourceArtifact(r) \/ MarkArtifactUploading(r)
               \/ MarkSourceReady(r) \/ MarkSourceInvalid(r) \/ ClaimSourceDeletion(r)
               \/ ClaimManagedDeletion(r) \/ MarkSourceDeleted(r)
    BY <1>1 DEF Handle, GetExisting, ReserveSourceCapacity, RenewProvisioning,
                ListSourceFiles, CreateSourceFile, CreateResumableSession, HandOutSession,
                ReleaseProvisioning, InspectFile, ObserveProgress, InspectManaged, DeleteFile
  <1> QED BY <1>1 DEF SUNext, suVars, ClaimProvisioning, StartComplete, StartCancel, StartDelete,
                      Fail, Crash, UploadBytes, OwnerRemovesFile, ClaimExpires

\* The other three write nothing, or DELETING, or DELETED.
LEMMA DeletionMoves ==
    ASSUME IInv, NEW r \in Reqs, artifact' # artifact,
           ClaimSourceDeletion(r) \/ ClaimManagedDeletion(r) \/ MarkSourceDeleted(r)
    PROVE  artifact'.status \in {"DELETING", "DELETED"}
  <1>1. artifact # NoSource /\ artifact \in Artifacts
    <2>1. artifact # NoSource
      BY HandlerFacts DEF HandlerKnows, RowPcs, ReqAt, ClaimSourceDeletion,
                          ClaimManagedDeletion, MarkSourceDeleted
    <2> QED BY <2>1 DEF IInv, RowsTyped
  <1>2. artifact' \in {[artifact EXCEPT !.status = "DELETING"],
                       [artifact EXCEPT !.status = "DELETED"]}
    BY DEF ClaimSourceDeletion, ClaimManagedDeletion, MarkSourceDeleted, EndSource
  <1>3. ASSUME NEW s \in ArtifactStates, artifact' = [artifact EXCEPT !.status = s]
        PROVE  artifact'.status = s
    BY <1>1, <1>3, RowMoves
  <1> QED BY <1>2, <1>3 DEF ArtifactStates

\* What each of them makes of the row: it never vanishes, and its status and
\* the project's move together.
LEMMA SourceStep ==
    ASSUME IInv, NEW r \in Reqs,
           \/ MarkArtifactUploading(r) \/ MarkSourceReady(r) \/ MarkSourceInvalid(r)
           \/ ClaimSourceDeletion(r) \/ ClaimManagedDeletion(r) \/ MarkSourceDeleted(r)
    PROVE  /\ artifact # NoSource /\ artifact' # NoSource
           /\ artifact'.intent = artifact.intent
           /\ reservation' \in {reservation, Released(reservation)}
           /\ \/ artifact' = artifact /\ sourceStatus' = sourceStatus
              \/ /\ artifact.status \in Unfinished /\ artifact'.status = "UPLOADING"
                 /\ sourceStatus' = sourceStatus /\ Fenced(r)
              \/ /\ artifact.status = "UPLOADING" /\ artifact'.status = "READY"
                 /\ sourceStatus' = "SOURCE_READY" /\ Fenced(r)
              \/ /\ artifact.status \in Unfinished /\ artifact'.status = "INVALID"
                 /\ sourceStatus' = "UPLOAD_FAILED" /\ Fenced(r)
              \/ /\ artifact.status \in Unfinished \union {"READY", "INVALID"}
                 /\ artifact'.status = "DELETING" /\ sourceStatus' = sourceStatus
              \/ /\ artifact.status = "DELETING" /\ artifact'.status = "DELETED"
                 /\ sourceStatus' = "NO_SOURCE"
  <1>1. artifact # NoSource /\ artifact \in Artifacts
    <2>1. artifact # NoSource
      BY HandlerFacts DEF HandlerKnows, RowPcs, ReqAt, MarkArtifactUploading, MarkSourceReady,
         MarkSourceInvalid, ClaimSourceDeletion, ClaimManagedDeletion, MarkSourceDeleted
    <2> QED BY <2>1 DEF IInv, RowsTyped
  <1>2. artifact' # NoSource
    <2>1. CASE MarkSourceReady(r)
      BY <1>1, <2>1, MarkSourceReadyRow
    <2>2. CASE \E s \in ArtifactStates : artifact' = [artifact EXCEPT !.status = s]
      BY <1>1, <2>2, RowMoves
    <2> QED BY <1>1, <2>1, <2>2
            DEF MarkArtifactUploading, MarkSourceInvalid, ClaimSourceDeletion,
                ClaimManagedDeletion, MarkSourceDeleted, EndSource, ArtifactStates
  <1>3. ASSUME NEW s \in ArtifactStates, artifact' = [artifact EXCEPT !.status = s]
        PROVE  artifact'.status = s /\ artifact'.intent = artifact.intent
    BY <1>1, <1>3, RowMoves
  <1>4. CASE MarkArtifactUploading(r)
    <2>1. reservation' = reservation /\ sourceStatus' = sourceStatus
      BY <1>4 DEF MarkArtifactUploading
    <2>2. \/ artifact' = artifact
          \/ /\ Fenced(r) /\ artifact.status \in Unfinished
             /\ artifact' = [artifact EXCEPT !.status = "UPLOADING"]
      BY <1>4 DEF MarkArtifactUploading
    <2> QED BY <1>1, <1>2, <1>3, <2>1, <2>2 DEF ArtifactStates
  <1>5. CASE MarkSourceReady(r)
    BY <1>1, <1>2, <1>5 DEF MarkSourceReady, EndSource, Artifacts
  <1>6. CASE MarkSourceInvalid(r)
    BY <1>1, <1>2, <1>3, <1>6 DEF MarkSourceInvalid, EndSource, ArtifactStates
  <1>7. CASE ClaimSourceDeletion(r)
    BY <1>1, <1>2, <1>3, <1>7 DEF ClaimSourceDeletion, ArtifactStates
  <1>8. CASE ClaimManagedDeletion(r)
    BY <1>1, <1>2, <1>3, <1>8 DEF ClaimManagedDeletion, ArtifactStates
  <1>9. CASE MarkSourceDeleted(r)
    BY <1>1, <1>2, <1>3, <1>9 DEF MarkSourceDeleted, EndSource, ArtifactStates
  <1> QED BY <1>4, <1>5, <1>6, <1>7, <1>8, <1>9

LEMMA StatusStepAgrees ==
    IInv /\ SourceStatusAgrees /\ [SUNext]_suVars => SourceStatusAgrees'
  <1> SUFFICES ASSUME IInv, SourceStatusAgrees, [SUNext]_suVars  PROVE SourceStatusAgrees'
    OBVIOUS
  <1>1. CASE UNCHANGED <<artifact, sourceStatus>>
    BY <1>1 DEF SourceStatusAgrees
  <1>2. ASSUME NEW r \in Reqs, ReserveSourceArtifact(r)  PROVE SourceStatusAgrees'
    <2>1. artifact # NoSource => artifact.status \in ArtifactStates
      BY DEF IInv, RowsTyped, Artifacts
    <2> QED BY <1>2, <2>1, ReserveSourceArtifactRow
            DEF SourceStatusAgrees, StartsAnew, ReservableStatus, Replaceable, Unfinished,
                ArtifactStates
  <1>3. ASSUME NEW r \in Reqs,
               \/ MarkArtifactUploading(r) \/ MarkSourceReady(r) \/ MarkSourceInvalid(r)
               \/ ClaimSourceDeletion(r) \/ ClaimManagedDeletion(r) \/ MarkSourceDeleted(r)
        PROVE  SourceStatusAgrees'
    BY <1>3, SourceStep DEF SourceStatusAgrees, Unfinished
  <1> QED BY <1>1, <1>2, <1>3, OnlyTheseWriteTheSource

\* SourceStatusAgrees: whichever handlers race, the project says NO_SOURCE,
\* UPLOAD_PENDING, SOURCE_READY or UPLOAD_FAILED exactly as its row does.
THEOREM StatusAgrees == SUSpec => []SourceStatusAgrees
  <1>1. SUInit => SourceStatusAgrees  BY DEF SUInit, SourceStatusAgrees
  <1> QED BY <1>1, InitTyped, NextTyped, StatusStepAgrees, PTL DEF SUSpec

-----------------------------------------------------------------------------
(* The fence.                                                              *)

\* OwnerIsAlone: as long as a request holds the live claim, every other change
\* of the row is the claim or the end of a deletion.
THEOREM FenceHolds == SUSpec => OwnerIsAlone
  <1>1. ASSUME IInv, [SUNext]_suVars, NEW r \in Reqs, claim.live, claim.token = r,
               artifact' # artifact
        PROVE  req'[r] # req[r] \/ artifact'.status \in {"DELETING", "DELETED"}
    <2>1. PICK q \in Reqs : \/ ReserveSourceArtifact(q) \/ MarkArtifactUploading(q)
                            \/ MarkSourceReady(q) \/ MarkSourceInvalid(q)
                            \/ ClaimSourceDeletion(q) \/ ClaimManagedDeletion(q)
                            \/ MarkSourceDeleted(q)
      BY <1>1, OnlyTheseWriteTheSource
    <2>2. CASE ReserveSourceArtifact(q)
      <3>1. q = r  BY <1>1, <2>2 DEF ReserveSourceArtifact, Owns
      <3>2. req'[q].pc # req[q].pc
        <4>1. CASE Leave(q)  BY <1>1, <2>2, <4>1, Leaves DEF ReserveSourceArtifact, ReqAt
        <4>2. CASE req' = [req EXCEPT ![q].pc = "renewMark", ![q].art = artifact']
          <5>1. req \in [Reqs -> Handlers] /\ req[q] \in Handlers
            BY <1>1 DEF IInv, RowsTyped
          <5>2. req'[q].pc = "renewMark"  BY <4>2, <5>1 DEF Handlers
          <5> QED BY <2>2, <5>2 DEF ReserveSourceArtifact, ReqAt
        <4> QED BY <1>1, <2>2, <4>1, <4>2 DEF ReserveSourceArtifact
      <3> QED BY <3>1, <3>2
    <2>3. CASE ~ReserveSourceArtifact(q) /\ artifact'.status \notin {"DELETING", "DELETED"}
      <3>1. Fenced(q)  BY <1>1, <2>1, <2>3, SourceStep
      <3>2. q = r  BY <1>1, <3>1 DEF Fenced, Owns
      <3>3. MarkArtifactUploading(q) \/ MarkSourceReady(q) \/ MarkSourceInvalid(q)
        BY <1>1, <2>1, <2>3, <3>1, DeletionMoves
      <3>4. req'[q].pc # req[q].pc
        BY <1>1, <3>3, Leaves, Goes
           DEF MarkArtifactUploading, MarkSourceReady, MarkSourceInvalid, ReqAt
      <3> QED BY <3>2, <3>4
    <2> QED BY <2>2, <2>3
  <1>2. IInv /\ [SUNext]_suVars =>
           [\A r \in Reqs :
              claim.live /\ claim.token = r /\ artifact' # artifact =>
                 req'[r] # req[r] \/ artifact'.status \in {"DELETING", "DELETED"}]_suVars
    BY <1>1
  <1> QED BY <1>2, InitTyped, NextTyped, PTL DEF SUSpec, OwnerIsAlone

-----------------------------------------------------------------------------
(* What a reservation is charged for.                                      *)

\* Only createSession's own statement opens a reservation, for its owner.
LEMMA ReservationStep ==
    ASSUME IInv, [SUNext]_suVars
    PROVE  \/ reservation' \in {reservation, Released(reservation)}
           \/ \E r \in Reqs : /\ ReserveSourceCapacity(r) /\ Owns(r)
                             /\ ~CapacityConflict(req[r].intent)
                             /\ ~AlreadyReserved(req[r].intent)
                             /\ reservation' = [intent |-> req[r].intent, open |-> TRUE]
  <1>1. ASSUME NEW r \in Reqs, Handle(r)
        PROVE  \/ reservation' \in {reservation, Released(reservation)}
               \/ /\ ReserveSourceCapacity(r) /\ Owns(r)
                  /\ ~CapacityConflict(req[r].intent)
                  /\ ~AlreadyReserved(req[r].intent)
                  /\ reservation' = [intent |-> req[r].intent, open |-> TRUE]
    <2>1. CASE ReserveSourceCapacity(r)  BY <2>1 DEF ReserveSourceCapacity
    <2>2. CASE ReserveSourceArtifact(r)  BY <2>2 DEF ReserveSourceArtifact
    <2>3. CASE \/ MarkArtifactUploading(r) \/ MarkSourceReady(r) \/ MarkSourceInvalid(r)
               \/ ClaimSourceDeletion(r) \/ ClaimManagedDeletion(r) \/ MarkSourceDeleted(r)
      BY <2>3, SourceStep
    <2> QED BY <1>1, <2>1, <2>2, <2>3
            DEF Handle, GetExisting, RenewProvisioning, ListSourceFiles, CreateSourceFile,
                CreateResumableSession, HandOutSession, ReleaseProvisioning, InspectFile,
                ObserveProgress, InspectManaged, DeleteFile
  <1> QED BY <1>1 DEF SUNext, suVars, ClaimProvisioning, StartComplete, StartCancel, StartDelete,
                      Fail, Crash, UploadBytes, OwnerRemovesFile, ClaimExpires

\* A handler that moves itself keeps its intent on the way to "bind", and gets
\* on that way only through the reservation.
LEMMA OwnMove ==
    ASSUME IInv, NEW r \in Reqs, Handle(r), req'[r].pc \in AfterReserve
    PROVE  /\ req'[r].intent = req[r].intent
           /\ \/ req[r].pc \in AfterReserve
              \/ ReserveSourceCapacity(r) /\ ~CapacityConflict(req[r].intent)
  <1>1. req \in [Reqs -> Handlers] /\ req[r] \in Handlers
    BY DEF IInv, RowsTyped
  <1>2. ~Leave(r)  BY Leaves DEF AfterReserve
  <1>3. ASSUME NEW pc, ReqGoto(r, pc)
        PROVE  req'[r].pc = pc /\ req'[r].intent = req[r].intent
    BY <1>1, <1>3 DEF ReqGoto, Handlers
  <1>4. ASSUME NEW f, req' = [req EXCEPT ![r].pc = "bind", ![r].file = f]
        PROVE  req'[r].intent = req[r].intent
    BY <1>1, <1>4 DEF Handlers
  <1>5. ASSUME NEW pc, NEW a, req' = [req EXCEPT ![r].pc = pc, ![r].art = a]
        PROVE  req'[r].pc = pc
    BY <1>1, <1>5 DEF Handlers
  <1>6. ASSUME NEW pc, NEW b, req' = [req EXCEPT ![r].pc = pc, ![r].bytes = b]
        PROVE  req'[r].pc = pc
    BY <1>1, <1>6 DEF Handlers
  <1>7. CASE ReserveSourceCapacity(r)
    BY <1>2, <1>3, <1>7 DEF ReserveSourceCapacity
  <1>8. CASE RenewProvisioning(r)
    BY <1>2, <1>3, <1>8 DEF RenewProvisioning, ReqAt, AfterReserve
  <1>9. CASE ListSourceFiles(r) \/ CreateSourceFile(r)
    BY <1>2, <1>3, <1>4, <1>9 DEF ListSourceFiles, CreateSourceFile, ReqAt, AfterReserve
  <1>10. CASE GetExisting(r) \/ ReserveSourceArtifact(r)
    BY <1>2, <1>5, <1>10 DEF GetExisting, ReserveSourceArtifact, AfterReserve
  <1>11. CASE InspectFile(r)
    BY <1>2, <1>3, <1>6, <1>11 DEF InspectFile, AfterReserve
  <1>12. CASE ObserveProgress(r) \/ MarkArtifactUploading(r) \/ CreateResumableSession(r)
    BY <1>2, <1>3, <1>12
       DEF ObserveProgress, MarkArtifactUploading, CreateResumableSession, AfterReserve
  <1>13. CASE ClaimSourceDeletion(r) \/ ClaimManagedDeletion(r) \/ InspectManaged(r)
    BY <1>2, <1>3, <1>13
       DEF ClaimSourceDeletion, ClaimManagedDeletion, InspectManaged, AfterReserve
  <1>14. CASE DeleteFile(r)  BY <1>3, <1>14 DEF DeleteFile, AfterReserve
  <1>15. CASE ReleaseProvisioning(r)
    BY <1>1, <1>15 DEF ReleaseProvisioning, NoRequest, AfterReserve
  <1>16. CASE HandOutSession(r) \/ MarkSourceReady(r) \/ MarkSourceInvalid(r)
              \/ MarkSourceDeleted(r)
    BY <1>2, <1>16 DEF HandOutSession, MarkSourceReady, MarkSourceInvalid, MarkSourceDeleted
  <1> QED BY <1>7, <1>8, <1>9, <1>10, <1>11, <1>12, <1>13, <1>14, <1>15, <1>16 DEF Handle

\* A handler's step is its own.
LEMMA OthersStay ==
    ASSUME IInv, NEW r \in Reqs, NEW q \in Reqs, q # r, Handle(q)
    PROVE  req'[r] = req[r]
  <1>1. req \in [Reqs -> Handlers]  BY DEF IInv, RowsTyped
  <1>2. ASSUME NEW h, req' = [req EXCEPT ![q] = h]  PROVE req'[r] = req[r]
    BY <1>1, <1>2
  <1>3. ASSUME Leave(q)  PROVE req'[r] = req[r]  BY <1>3, <1>2 DEF Leave
  <1>4. ASSUME NEW pc, ReqGoto(q, pc)  PROVE req'[r] = req[r]  BY <1>1, <1>4 DEF ReqGoto
  <1>5. ASSUME NEW f, req' = [req EXCEPT ![q].pc = "bind", ![q].file = f]
        PROVE  req'[r] = req[r]
    BY <1>1, <1>5
  <1>6. ASSUME NEW pc, NEW a, req' = [req EXCEPT ![q].pc = pc, ![q].art = a]
        PROVE  req'[r] = req[r]
    BY <1>1, <1>6
  <1>7. ASSUME NEW pc, NEW b, req' = [req EXCEPT ![q].pc = pc, ![q].bytes = b]
        PROVE  req'[r] = req[r]
    BY <1>1, <1>7
  <1>8. CASE GetExisting(q) \/ ReserveSourceArtifact(q)
    BY <1>3, <1>6, <1>8 DEF GetExisting, ReserveSourceArtifact
  <1>9. CASE ReserveSourceCapacity(q) \/ RenewProvisioning(q) \/ CreateResumableSession(q)
    BY <1>3, <1>4, <1>9
       DEF ReserveSourceCapacity, RenewProvisioning, CreateResumableSession
  <1>10. CASE ListSourceFiles(q) \/ CreateSourceFile(q)
    BY <1>3, <1>4, <1>5, <1>10 DEF ListSourceFiles, CreateSourceFile
  <1>11. CASE InspectFile(q)  BY <1>3, <1>4, <1>7, <1>11 DEF InspectFile
  <1>12. CASE ObserveProgress(q) \/ MarkArtifactUploading(q)
    BY <1>3, <1>4, <1>12 DEF ObserveProgress, MarkArtifactUploading
  <1>13. CASE ClaimSourceDeletion(q) \/ ClaimManagedDeletion(q)
              \/ InspectManaged(q) \/ DeleteFile(q)
    BY <1>3, <1>4, <1>13
       DEF ClaimSourceDeletion, ClaimManagedDeletion, InspectManaged, DeleteFile
  <1>14. CASE HandOutSession(q) \/ MarkSourceReady(q) \/ MarkSourceInvalid(q)
              \/ MarkSourceDeleted(q) \/ ReleaseProvisioning(q)
    BY <1>2, <1>3, <1>14 DEF HandOutSession, MarkSourceReady, MarkSourceInvalid,
                             MarkSourceDeleted, ReleaseProvisioning
  <1> QED BY <1>8, <1>9, <1>10, <1>11, <1>12, <1>13, <1>14 DEF Handle

\* Who owns the source after a step and is on that way owned it before.
LEMMA OwnerOnTheWay ==
    ASSUME IInv, [SUNext]_suVars, NEW r \in Reqs, Owns(r)', req'[r].pc \in AfterReserve
    PROVE  /\ Owns(r) /\ req'[r].intent = req[r].intent
           /\ \/ req[r].pc \in AfterReserve
              \/ ReserveSourceCapacity(r) /\ ~CapacityConflict(req[r].intent)
  <1>1. CASE req' = req /\ (claim' = claim \/ ~claim'.live)
    BY <1>1 DEF Owns
  <1>2. ASSUME NEW q \in Reqs, Handle(q)  PROVE claim' = claim \/ claim'.token = NoOne
    BY <1>2 DEF Handle, GetExisting, ReserveSourceCapacity, RenewProvisioning,
                ListSourceFiles, CreateSourceFile, ReserveSourceArtifact,
                CreateResumableSession, HandOutSession, ReleaseProvisioning, InspectFile,
                ObserveProgress, MarkArtifactUploading, MarkSourceReady, MarkSourceInvalid,
                ClaimSourceDeletion, ClaimManagedDeletion, InspectManaged, DeleteFile,
                MarkSourceDeleted
  <1>3. CASE \E q \in Reqs : Handle(q)
    BY <1>2, <1>3, OwnMove, OthersStay, MarkersAreFresh DEF Owns
  <1>4. CASE \E q \in Reqs, i \in Intents : ClaimProvisioning(q, i)
    <2>1. PICK q \in Reqs, i \in Intents : ClaimProvisioning(q, i)  BY <1>4
    <2>2. q = r  BY <2>1 DEF ClaimProvisioning, Owns
    <2>3. req'[r].pc = "existing"
      BY <2>1, <2>2 DEF ClaimProvisioning, BeginRequest, NoRequest, IInv, RowsTyped
    <2> QED BY <2>3 DEF AfterReserve
  <1>5. CASE \E q \in Reqs : StartComplete(q) \/ StartCancel(q) \/ StartDelete(q)
    <2>1. PICK q \in Reqs : StartComplete(q) \/ StartCancel(q) \/ StartDelete(q)  BY <1>5
    <2>2. claim' = claim
      BY <2>1 DEF StartComplete, StartCancel, StartDelete
    <2>3. PICK h : req' = [req EXCEPT ![q] = h]
                   /\ h.pc \in {"inspect", "delete", "claimManaged"}
      <3>1. ASSUME NEW op, NEW pc \in {"inspect", "delete", "claimManaged"}, NEW a,
                   BeginRequest(q, op, pc, [NoRequest EXCEPT !.art = a])
            PROVE  \E h : req' = [req EXCEPT ![q] = h]
                          /\ h.pc \in {"inspect", "delete", "claimManaged"}
        <4> DEFINE h == [[NoRequest EXCEPT !.art = a] EXCEPT !.op = op, !.pc = pc]
        <4>1. h.pc = pc  BY DEF NoRequest
        <4>2. req' = [req EXCEPT ![q] = h]  BY <3>1 DEF BeginRequest
        <4> HIDE DEF h
        <4> QED BY <4>1, <4>2
      <3> QED BY <2>1, <3>1 DEF StartComplete, StartCancel, StartDelete, CancelFrom
    <2>4. q # r
      BY <2>3 DEF AfterReserve, IInv, RowsTyped
    <2> QED BY <2>2, <2>3, <2>4 DEF Owns, IInv, RowsTyped
  <1>6. CASE \E q \in Reqs : Fail(q) \/ Crash(q)
    <2>1. PICK q \in Reqs : Fail(q) \/ Crash(q)  BY <1>6
    <2>2. claim' = claim  BY <2>1 DEF Fail, Crash
    <2>3. req'[q].pc \in {"idle", "release"}
      BY <2>1, Leaves DEF Fail, Crash, NoRequest, IInv, RowsTyped
    <2>4. q # r  BY <2>3 DEF AfterReserve
    <2>5. req'[r] = req[r]
      BY <2>1, <2>4 DEF Fail, Crash, Leave, IInv, RowsTyped
    <2> QED BY <2>2, <2>4, <2>5 DEF Owns
  <1>7. UploadBytes \/ OwnerRemovesFile \/ ClaimExpires \/ UNCHANGED suVars
           => req' = req /\ (claim' = claim \/ ~claim'.live)
    BY DEF UploadBytes, OwnerRemovesFile, ClaimExpires, suVars, IInv, RowsTyped
  <1> QED BY <1>1, <1>3, <1>4, <1>5, <1>6, <1>7 DEF SUNext

ChargedInv == IInv /\ ReservationIsTheOwners /\ ChargedForItsOwnIntent

LEMMA ChargedStep == ChargedInv /\ [SUNext]_suVars => ChargedInv'
  <1> SUFFICES ASSUME ChargedInv, [SUNext]_suVars  PROVE ChargedInv'
    OBVIOUS
  <1>1. IInv /\ IInv'  BY NextTyped DEF ChargedInv
  <1>2. ASSUME reservation' \in {reservation, Released(reservation)}, IsOpen(reservation)'
        PROVE  reservation' = reservation /\ IsOpen(reservation)
    BY <1>1, <1>2, ReleasedTyped DEF IInv, RowsTyped, IsOpen
  <1>3. ReservationIsTheOwners'
    <2> SUFFICES ASSUME NEW r \in Reqs, Owns(r)', req'[r].pc \in AfterReserve,
                        IsOpen(reservation)'
                 PROVE  reservation'.intent = req'[r].intent
      BY DEF ReservationIsTheOwners
    <2>1. /\ Owns(r) /\ req'[r].intent = req[r].intent
          /\ \/ req[r].pc \in AfterReserve
             \/ ReserveSourceCapacity(r) /\ ~CapacityConflict(req[r].intent)
      BY <1>1, OwnerOnTheWay
    <2>2. CASE reservation' \in {reservation, Released(reservation)}
      <3>1. reservation' = reservation /\ IsOpen(reservation)  BY <1>2, <2>2
      <3>2. CASE req[r].pc \in AfterReserve
        BY <2>1, <3>1, <3>2 DEF ChargedInv, ReservationIsTheOwners
      <3>3. CASE ReserveSourceCapacity(r) /\ ~CapacityConflict(req[r].intent)
        <4>1. reservation' = IF AlreadyReserved(req[r].intent) THEN reservation
                             ELSE [intent |-> req[r].intent, open |-> TRUE]
          BY <2>1, <3>3 DEF ReserveSourceCapacity
        <4> QED BY <2>1, <4>1 DEF AlreadyReserved
      <3> QED BY <2>1, <3>2, <3>3
    <2>3. CASE \E q \in Reqs : /\ Owns(q)
                              /\ reservation' = [intent |-> req[q].intent, open |-> TRUE]
      BY <2>1, <2>3 DEF Owns
    <2> QED BY <1>1, <2>2, <2>3, ReservationStep
  <1>4. ChargedForItsOwnIntent'
    <2> SUFFICES ASSUME artifact' # NoSource, artifact'.status \in Unfinished,
                        IsOpen(reservation)'
                 PROVE  reservation'.intent = artifact'.intent
      BY DEF ChargedForItsOwnIntent
    <2>1. CASE reservation' \in {reservation, Released(reservation)}
      <3>1. reservation' = reservation /\ IsOpen(reservation)  BY <1>2, <2>1
      <3>2. CASE artifact' = artifact
        BY <3>1, <3>2 DEF ChargedInv, ChargedForItsOwnIntent
      <3>3. ASSUME NEW r \in Reqs, ReserveSourceArtifact(r), artifact' # artifact
            PROVE  reservation'.intent = artifact'.intent
        <4>1. Owns(r) /\ artifact'.intent = req[r].intent
          BY <1>1, <3>3, ReserveSourceArtifactRow
        <4>2. req[r].pc \in AfterReserve
          BY <3>3 DEF ReserveSourceArtifact, ReqAt, AfterReserve
        <4> QED BY <3>1, <4>1, <4>2 DEF ChargedInv, ReservationIsTheOwners
      <3>4. ASSUME NEW r \in Reqs, artifact' # artifact,
                   \/ MarkArtifactUploading(r) \/ MarkSourceReady(r) \/ MarkSourceInvalid(r)
                   \/ ClaimSourceDeletion(r) \/ ClaimManagedDeletion(r)
                   \/ MarkSourceDeleted(r)
            PROVE  reservation'.intent = artifact'.intent
        <4>1. artifact # NoSource /\ artifact.status \in Unfinished
              /\ artifact'.intent = artifact.intent
          BY <1>1, <3>4, SourceStep DEF Unfinished
        <4> QED BY <3>1, <4>1 DEF ChargedInv, ChargedForItsOwnIntent
      <3> QED BY <3>2, <3>3, <3>4, OnlyTheseWriteTheSource
    <2>2. CASE \E r \in Reqs : /\ ReserveSourceCapacity(r)
                              /\ ~CapacityConflict(req[r].intent)
                              /\ ~AlreadyReserved(req[r].intent)
      <3>1. artifact' = artifact  BY <2>2 DEF ReserveSourceCapacity
      <3>2. artifact # NoSource => artifact.status \in Replaceable
        BY <2>2 DEF CapacityConflict
      <3> QED BY <3>1, <3>2 DEF Replaceable, Unfinished
    <2> QED BY <1>1, <2>1, <2>2, ReservationStep
  <1> QED BY <1>1, <1>3, <1>4 DEF ChargedInv

\* ChargedForItsOwnIntent: an open reservation of an unfinished upload is
\* charged for that upload's intent, whichever requests raced to start it.
THEOREM Charged == SUSpec => []ChargedForItsOwnIntent
  <1>1. SUInit => ChargedInv
    BY InitTyped DEF SUInit, ChargedInv, ReservationIsTheOwners, ChargedForItsOwnIntent, Owns
  <1>2. ChargedInv => ChargedForItsOwnIntent  BY DEF ChargedInv
  <1> QED BY <1>1, <1>2, ChargedStep, PTL DEF SUSpec

-----------------------------------------------------------------------------
(* The browser's end. *)

Records == [session : Sessions, next : Sizes]
\* What a session request is answered; complete may also be told to wait.
Answered == {NoAnswer} \union [kind : {"ready", "error"}, session : {0}]
                       \union [kind : {"session"}, session : Sessions]
Replies == Answered \union {Answer("pending", 0)}
Items == [state : {"NONE", "QUEUED", "ACTIVE", "DONE", "FAILED", "CANCELLED"},
          pc : {"rest", "ask", "put", "run", "settle"},
          known : BOOLEAN, pending : BOOLEAN, attached : BOOLEAN,
          recovery : Records \union {NoRecord}, found : Records \union {NoRecord},
          reply : Answered]
Requests == {"QUERY", "UPLOAD", "RENEW", "COMPLETE"}
Phases == {"IDLE", "UPLOADING", "VERIFYING", "PAUSED", "PAUSED_VERIFYING", "PAUSED_ERROR",
           "READY", "CANCELLED"}
Uploaders == [pc : Requests \union {"rest", "sleep", "put", "delete"}, action : Requests,
              session : Sessions, next : Sizes, verifying : BOOLEAN, fails : Nat,
              outcome : {"none", "READY", "CANCELLED"}, phase : Phases,
              pause : BOOLEAN, cancel : BOOLEAN, disposed : BOOLEAN, current : BOOLEAN,
              reply : Replies, deleted : {"nobody", "uploader", "settle", "queue"}]
Cancels == {NoCancel} \union [by : {"uploader", "settle", "queue"},
                              pc : {"asked", "refused", "confirmed", "delete"}]

RemoteTyped ==
    /\ sent \in {"NONE", "UPLOADING", "READY", "DELETED"} /\ whole \in BOOLEAN
    /\ arrived \in [Sessions -> Sizes]
    /\ grants \in [opened : 0 .. MaxSessions, live : SUBSET Sessions, expired : SUBSET Sessions]
PagesTyped ==
    /\ item \in [Pages -> Items] /\ up \in [Pages -> Uploaders] /\ asked \in [Pages -> Cancels]
BrowserTyped ==
    /\ RemoteTyped /\ PagesTyped /\ page \in Pages /\ breaks \in 0 .. MaxBreaks
    /\ stored \in Records \union {NoRecord}

\* What the item, the uploader and the cancellation of a page know of each other.
\* An item waits, then asks for a session, then has an uploader, and never goes back.
ItemFits(i, r, a) ==
    /\ i.state = "NONE" => i = NoItem /\ r = NoUploader /\ a = NoCancel
    /\ i.attached => i.pc \in {"run", "rest"} /\ i.state \in {"ACTIVE", "DONE", "CANCELLED"}
    /\ i.pc = "run" \/ i.found # NoRecord => i.attached
    /\ i.pc \in {"ask", "put", "settle"} => i.state \in {"ACTIVE", "CANCELLED"}
    /\ i.pc = "put" => i.reply.kind = "session"
    /\ i.recovery # NoRecord =>
         /\ i.state \in {"QUEUED", "CANCELLED"} /\ i.pc = "rest" /\ ~i.attached
         /\ r.deleted = "nobody" /\ a = NoCancel

Gone == {"uploader", "settle"}

\* An item without an uploader; one whose record is deleted asks for none again.
Alone(i, r, a) ==
    ~i.attached =>
        /\ r.pc = "rest" /\ r.outcome = "none" /\ a.by # "uploader"
        /\ r.phase = "CANCELLED" => i.pc = "rest" /\ i.state \in {"ACTIVE", "CANCELLED"} /\ i.known
        /\ r.deleted \in Gone => i.pc = "rest" /\ i.state = "CANCELLED"

\* An item with one; when its record is deleted, the uploader does not write any more.
\* No renewal is told to wait.
Attached(i, r) ==
    i.attached =>
        /\ r.phase = "CANCELLED" => r.outcome = "CANCELLED"
        /\ r.deleted \in Gone => r.outcome # "none" /\ r.pc # "put"
        /\ r.pc = "RENEW" => r.reply.kind # "pending"

\* The cancellation and the run: of the calls a cancelled run is in, only one that
\* was writing before still writes, and only until the cancellation deletes.
CancelFits(i, r, a) ==
    /\ a.by = "settle" => i.pc = "settle" /\ i.known
    /\ a.by = "uploader" => r.cancel /\ (a.pc = "delete" <=> r.outcome = "CANCELLED")
    /\ r.cancel => r.pc \notin {"UPLOAD", "QUERY", "sleep"}
    /\ r.outcome = "READY" => r.pc \in {"delete", "rest"}
    /\ r.pc = "delete" => r.outcome = "READY"
    /\ r.outcome = "CANCELLED" => r.cancel
    /\ r.outcome = "CANCELLED" /\ r.pc = "put" => a.by = "uploader"

PageFits(i, r, a) ==
    ItemFits(i, r, a) /\ Alone(i, r, a) /\ Attached(i, r) /\ CancelFits(i, r, a)

PagesFit ==
    /\ \A p \in Pages : PageFits(item[p], up[p], asked[p])
    /\ \A p \in Pages : p > page => item[p].state = "NONE"

\* No record names more bytes than have arrived.
Arrived(rec) == rec # NoRecord => rec.next <= arrived[rec.session]
NoneIsAhead ==
    /\ Arrived(stored)
    /\ \A p \in Pages : /\ Arrived(item[p].recovery) /\ Arrived(item[p].found)
                        /\ up[p].next <= arrived[up[p].session]

\* The record goes by a deletion or because it expired.
RecordStays ==
    /\ \E p \in Pages : item[p].attached \/ item[p].recovery # NoRecord
    /\ grants.expired = {} /\ \A p \in Pages : up[p].deleted = "nobody"
    => stored # NoRecord

BUInv == BrowserTyped /\ PagesFit /\ NoneIsAhead /\ RecordStays /\ NothingLeftBehind

-----------------------------------------------------------------------------
(* The uploader's operations. *)

\* What they make of an uploader r: they leave its end and its cancellation alone,
\* and what it knows of the transfer is kept or forgotten.
Leads(r, t) ==
    /\ t \in Uploaders
    /\ t.outcome = r.outcome /\ t.cancel = r.cancel /\ t.deleted = r.deleted
    /\ t.phase = "CANCELLED" => r.phase = "CANCELLED"
    /\ (t.session = r.session /\ t.next = r.next) \/ t.next = 0
    /\ t.pc = "RENEW" => t.reply.kind # "pending" \/ (r.pc = "RENEW" /\ t.reply = r.reply)

LEMMA Numbers == 0 \in Sizes /\ Size \in Sizes /\ 1 \in Sessions /\ Sizes \subseteq Nat
  BY BrowserUploadAssumption DEF Sizes, Sessions

LEMMA NothingAnswered == NoAnswer \in Replies /\ NoAnswer.kind # "pending"
  BY DEF NoAnswer, Answer, Replies, Answered

LEMMA GoesFar ==
    ASSUME NEW r, NEW t, NEW u, Leads(r, t), Leads(t, u) PROVE Leads(r, u)
  BY DEF Leads

LEMMA PublishGoes ==
    ASSUME NEW r \in Uploaders, NEW phase \in Phases \ {"CANCELLED"}
    PROVE  /\ Leads(r, Publish(r, phase)) /\ Publish(r, phase).pc = r.pc
           /\ Publish(r, phase).session = r.session /\ Publish(r, phase).next = r.next
  BY DEF Publish, Leads, Uploaders

LEMMA HaltGoes ==
    ASSUME NEW r \in Uploaders PROVE Leads(r, Halt(r)) /\ Halt(r).pc = "rest"
  BY Numbers, NothingAnswered DEF Halt, Leads, Uploaders, Requests

LEMMA HaltPublishGoes ==
    ASSUME NEW r \in Uploaders, NEW phase \in Phases \ {"CANCELLED"}
    PROVE  Leads(r, Halt(Publish(r, phase))) /\ Halt(Publish(r, phase)).pc = "rest"
<1>1. Leads(r, Publish(r, phase)) /\ Publish(r, phase) \in Uploaders
  BY PublishGoes DEF Leads
<1> QED BY <1>1, HaltGoes, GoesFar

LEMMA LoopGoes ==
    ASSUME NEW r \in Uploaders
    PROVE  /\ Leads(r, Loop(r)) /\ Loop(r).pc \in Requests \union {"rest"}
           /\ r.cancel \/ r.pause => Loop(r).pc = "rest"
<1>1. CASE r.cancel
  BY <1>1, HaltGoes DEF Loop
<1>2. CASE ~r.cancel /\ r.pause
  BY <1>2, HaltPublishGoes DEF Loop, PausedPhase, Phases
<1>3. CASE ~r.cancel /\ ~r.pause
  <2>1. PICK t : /\ t = IF r.action = "COMPLETE" THEN Publish(r, "VERIFYING") ELSE r
                 /\ Loop(r) = [t EXCEPT !.pc = r.action, !.reply = NoAnswer]
    BY <1>3 DEF Loop
  <2>2. Leads(r, t)
    BY <2>1, PublishGoes DEF Leads, Phases
  <2>3. r.action \in Requests
    BY DEF Uploaders
  <2>4. Leads(t, Loop(r)) /\ Loop(r).pc = r.action
    BY <2>1, <2>2, <2>3, NothingAnswered DEF Leads, Uploaders
  <2> QED BY <1>3, <2>2, <2>3, <2>4, GoesFar
<1> QED BY <1>1, <1>2, <1>3

LEMMA FailureGoes ==
    ASSUME NEW r \in Uploaders, NEW action \in Requests
    PROVE  Leads(r, Failure(r, action)) /\ Failure(r, action).pc \notin {"put", "delete"}
<1>1. PICK n \in Nat : n = r.fails + 1
  BY DEF Uploaders
<1>2. PICK later : later = [r EXCEPT !.fails = n, !.action = action]
  OBVIOUS
<1>3. Failure(r, action) =
        IF later.fails >= MaxAttempts THEN Halt(Publish(r, PausedPhase(r, "PAUSED_ERROR")))
        ELSE IF r.pause THEN Loop(later) ELSE [later EXCEPT !.pc = "sleep"]
  BY <1>1, <1>2 DEF Failure
<1>4. Leads(r, later)
  BY <1>2 DEF Leads, Uploaders
<1>5. later \in Uploaders
  BY <1>4 DEF Leads
<1>6. CASE later.fails >= MaxAttempts
  BY <1>3, <1>6, HaltPublishGoes DEF PausedPhase, Phases
<1>7. CASE ~(later.fails >= MaxAttempts) /\ r.pause
  BY <1>3, <1>4, <1>5, <1>7, LoopGoes, GoesFar DEF Requests
<1>8. CASE ~(later.fails >= MaxAttempts) /\ ~r.pause
  <2>1. Failure(r, action) = [later EXCEPT !.pc = "sleep"]
    BY <1>3, <1>8
  <2>2. Leads(later, Failure(r, action)) /\ Failure(r, action).pc = "sleep"
    BY <1>5, <2>1 DEF Leads, Uploaders
  <2> QED BY <1>4, <2>2, GoesFar
<1> QED BY <1>6, <1>7, <1>8

LEMMA ThrowGoes ==
    ASSUME NEW r \in Uploaders PROVE Leads(r, Throw(r)) /\ Throw(r).pc = "rest"
  BY HaltGoes, HaltPublishGoes DEF Throw, Phases

LEMMA PersistGoes ==
    ASSUME NEW r \in Uploaders
    PROVE  Leads(r, Persist(r)) /\ Persist(r).pc \in {"rest", "put"}
  BY ThrowGoes DEF Persist, Leads, Uploaders

LEMMA AdvanceGoes ==
    ASSUME NEW r \in Uploaders, NEW n \in Sizes, NEW fails \in Nat
    PROVE  /\ Leads([r EXCEPT !.next = n], Advance(r, n, fails))
           /\ Advance(r, n, fails).pc \in {"rest", "put"}
<1>1. PICK action : action = IF n = Size THEN "COMPLETE" ELSE "UPLOAD"
  OBVIOUS
<1>2. PICK t : t = [r EXCEPT !.next = n, !.fails = fails, !.action = action,
                             !.verifying = (action = "COMPLETE")]
  OBVIOUS
<1>3. Advance(r, n, fails) = Persist(t)
  BY <1>1, <1>2 DEF Advance
<1>4. Leads([r EXCEPT !.next = n], t)
  BY <1>1, <1>2 DEF Leads, Uploaders, Requests
<1>5. t \in Uploaders
  BY <1>4 DEF Leads
<1> QED BY <1>3, <1>4, <1>5, PersistGoes, GoesFar

LEMMA VerifyGoes ==
    ASSUME NEW r \in Uploaders
    PROVE  Leads(r, Verify(r)) /\ Verify(r).pc \in Requests \union {"rest"}
<1>1. PICK t : t = [r EXCEPT !.verifying = TRUE, !.action = "COMPLETE"]
  OBVIOUS
<1>2. Leads(r, t) /\ t \in Uploaders /\ Verify(r) = Loop(t)
  BY <1>1 DEF Leads, Uploaders, Requests, Verify
<1> QED BY <1>2, LoopGoes, GoesFar

LEMMA StartRunGoes ==
    ASSUME NEW r \in Uploaders, NEW rec \in Records, NEW recovering \in BOOLEAN
    PROVE  /\ Leads([r EXCEPT !.cancel = FALSE, !.session = rec.session, !.next = rec.next],
                   StartRun(r, rec, recovering))
           /\ StartRun(r, rec, recovering).pc # "delete"
<1>1. PICK action : action = IF rec.next = Size THEN "COMPLETE"
                  ELSE IF Expired(rec.session) THEN "RENEW"
                  ELSE IF recovering THEN "QUERY" ELSE "UPLOAD"
  OBVIOUS
<1>2. PICK shown : shown = Publish(r, "UPLOADING")
  OBVIOUS
<1>3. PICK first : first = [shown EXCEPT
                    !.pause = FALSE, !.cancel = FALSE, !.current = TRUE, !.action = action,
                    !.session = rec.session, !.next = rec.next, !.fails = 0,
                    !.verifying = (action = "COMPLETE")]
  OBVIOUS
<1>4. StartRun(r, rec, recovering) =
        IF ~Expired(rec.session) THEN Persist(first)
        ELSE IF action = "RENEW" THEN Failure(first, "RENEW") ELSE Loop(first)
  BY <1>1, <1>2, <1>3 DEF StartRun
<1>5. Leads(r, shown)
  BY <1>2, PublishGoes DEF Phases
<1>6. action \in Requests /\ rec.session \in Sessions /\ rec.next \in Sizes
  BY <1>1 DEF Requests, Records
<1>7. Leads([r EXCEPT !.cancel = FALSE, !.session = rec.session, !.next = rec.next], first)
  BY <1>3, <1>5, <1>6 DEF Leads, Uploaders
<1>8. first \in Uploaders
  BY <1>7 DEF Leads
<1> QED BY <1>4, <1>7, <1>8, PersistGoes, FailureGoes, LoopGoes, GoesFar DEF Requests

LEMMA AfterChunkGoes ==
    ASSUME NEW r \in Uploaders, NEW n \in Sizes
    PROVE  /\ \/ Leads(r, AfterChunk(r, n)) \/ Leads([r EXCEPT !.next = n], AfterChunk(r, n))
           /\ AfterChunk(r, n).pc # "delete"
<1>1. AfterChunk(r, n) \in {Verify(r), Throw(r), Failure(r, "QUERY"), Advance(r, n, 0)}
  BY DEF AfterChunk
<1>2. "delete" \notin Requests \union {"rest", "put"} /\ "QUERY" \in Requests
  BY DEF Requests
<1> QED BY <1>1, <1>2, VerifyGoes, ThrowGoes, FailureGoes, AdvanceGoes, Numbers

\* renewed, before its record is kept.
LEMMA NewSessionGoes ==
    ASSUME NEW r \in Uploaders, r.reply.kind = "session"
    PROVE  Leads(r, NewSession(r)) /\ NewSession(r) \in Uploaders
<1>1. r.reply.session \in Sessions
  <2>1. r.reply \in Replies
    BY DEF Uploaders
  <2> QED BY <2>1 DEF Replies, Answered, Answer, NoAnswer
<1>2. "UPLOAD" \in Requests
  BY DEF Requests
<1> QED BY <1>1, <1>2, Numbers, NothingAnswered DEF NewSession, Leads, Uploaders

-----------------------------------------------------------------------------
(* Steps of one page. *)

LEMMA GoesOn ==
    ASSUME NEW i \in Items, NEW r \in Uploaders, NEW a \in Cancels, NEW t,
           PageFits(i, r, a), i.attached, Leads(r, t),
           \/ t.pc = r.pc \/ t.pc = "rest"
           \/ t.pc # "delete" /\ ~r.cancel /\ r.outcome = "none"
    PROVE  PageFits(i, t, a)
  BY DEF PageFits, ItemFits, Alone, Attached, CancelFits, Leads, Gone, NoItem

LEMMA Busy ==
    ASSUME NEW i \in Items, NEW r \in Uploaders, NEW a \in Cancels, PageFits(i, r, a)
    PROVE  /\ r.pc # "rest" => i.attached
           /\ i.attached \/ r.pc # "rest" \/ i.pc # "rest" \/ a # NoCancel => i.state # "NONE"
           /\ r.pc \in {"UPLOAD", "QUERY", "sleep"} => ~r.cancel /\ r.outcome = "none"
<1>1. ~NoItem.attached /\ NoItem.pc = "rest" /\ NoUploader.pc = "rest"
  BY DEF NoItem, NoUploader
<1>2. r.outcome \in {"none", "READY", "CANCELLED"}
  BY DEF Uploaders
<1> QED BY <1>1, <1>2 DEF PageFits, ItemFits, Alone, CancelFits

\* What becomes of the other side in a step: bytes only arrive.
RemoteGoes ==
    /\ RemoteTyped' /\ breaks' \in 0 .. MaxBreaks
    /\ \A s \in Sessions : arrived[s] <= arrived'[s]
    /\ grants'.expired = {} => grants.expired = {}

LEMMA RemoteKept ==
    ASSUME BUInv, KeepRemote, Unbroken \/ Break PROVE RemoteGoes
  BY BrowserUploadAssumption
  DEF BUInv, BrowserTyped, RemoteTyped, KeepRemote, Unbroken, Break, RemoteGoes, Sizes

LEMMA KeptGoes ==
    ASSUME BUInv, NEW r \in Uploaders, NEW n \in Sizes, Arrives(r, n), Kept(r.session, n),
           Unbroken \/ Break
    PROVE  RemoteGoes /\ arrived'[r.session] = n
<1>1. r.session \in Sessions /\ arrived[r.session] <= n
  BY DEF Arrives, Uploaders, BUInv, BrowserTyped, RemoteTyped, Sizes
<1> QED BY <1>1, BrowserUploadAssumption
        DEF BUInv, BrowserTyped, RemoteTyped, Kept, Unbroken, Break, RemoteGoes, Sizes

LEMMA UploadEndIsUnits ==
    ASSUME NEW r \in Uploaders PROVE UploadEnd(r) \in Sizes
  BY BrowserUploadAssumption DEF UploadEnd, Uploaders, Sizes

LEMMA ServeGoes ==
    ASSUME BUInv, NEW a, Serve(a), Unbroken \/ Break PROVE RemoteGoes /\ a \in Answered
<1>1. CASE a = Answer("ready", 0) /\ sent' = "READY" /\ UNCHANGED <<arrived, grants, whole>>
  BY <1>1, BrowserUploadAssumption
  DEF BUInv, BrowserTyped, RemoteTyped, RemoteGoes, Unbroken, Break, Answered, Answer, Sizes
<1>2. CASE a = Answer("error", 0) /\ KeepRemote
  BY <1>2, RemoteKept DEF Answered, Answer
<1>3. CASE /\ grants.opened # MaxSessions
           /\ a = Answer("session", grants.opened + 1)
           /\ sent' = "UPLOADING" /\ UNCHANGED <<arrived, whole>>
           /\ grants' = [grants EXCEPT !.opened = @ + 1, !.live = @ \union {grants.opened + 1}]
  <2>1. PICK n : n = grants.opened + 1
    OBVIOUS
  <2>2. n \in 0 .. MaxSessions /\ n \in Sessions
    BY <1>3, <2>1, BrowserUploadAssumption DEF BUInv, BrowserTyped, RemoteTyped, Sessions
  <2>3. grants' = [grants EXCEPT !.opened = n, !.live = @ \union {n}]
    BY <1>3, <2>1
  <2>4. grants' \in [opened : 0 .. MaxSessions, live : SUBSET Sessions, expired : SUBSET Sessions]
        /\ grants'.expired = grants.expired
    BY <2>2, <2>3 DEF BUInv, BrowserTyped, RemoteTyped
  <2>5. RemoteTyped' /\ (\A s \in Sessions : arrived[s] <= arrived'[s])
    BY <1>3, <2>4, BrowserUploadAssumption DEF BUInv, BrowserTyped, RemoteTyped, Sizes
  <2>6. breaks' \in 0 .. MaxBreaks
    BY BrowserUploadAssumption DEF BUInv, BrowserTyped, Unbroken, Break
  <2>7. a \in Answered
    BY <1>3, <2>1, <2>2 DEF Answered, Answer
  <2> QED BY <2>4, <2>5, <2>6, <2>7 DEF RemoteGoes
<1> QED BY <1>1, <1>2, <1>3 DEF Serve

LEMMA CreateSessionGoes ==
    ASSUME BUInv, NEW a, CreateSession(a) PROVE RemoteGoes /\ a \in Answered
<1>1. CASE Serve(a) /\ Unbroken
  BY <1>1, ServeGoes
<1>2. CASE a = Answer("error", 0) /\ Break /\ KeepRemote
  BY <1>2, RemoteKept DEF Answered, Answer
<1>3. CASE a = Answer("error", 0) /\ Break /\ \E lost \in Results : Serve(lost)
  BY <1>3, ServeGoes DEF Answered, Answer
<1> QED BY <1>1, <1>2, <1>3 DEF CreateSession

\* A step that changes one page and leaves what its parts know of each other true
\* is right when it takes the record away only as a deletion, or not at all, and
\* does not write one for a page that deleted it.
LEMMA PageStep ==
    ASSUME BUInv, NEW p \in Pages, NEW i \in Items, NEW r \in Uploaders, NEW a \in Cancels,
           item' = [item EXCEPT ![p] = i], up' = [up EXCEPT ![p] = r],
           asked' = [asked EXCEPT ![p] = a], page' = page, RemoteGoes,
           item[p].state # "NONE", i.state # "NONE", PageFits(i, r, a),
           r.next <= arrived'[r.session],
           i.recovery \in {NoRecord, item[p].recovery},
           i.found \in {NoRecord, item[p].found, stored},
           \/ stored' \in {stored, NoRecord}
           \/ stored' \in Records /\ stored'.next <= arrived'[stored'.session],
           \/ stored' # NoRecord \/ r.deleted # "nobody" \/ grants'.expired # {}
           \/ /\ stored' = stored /\ up[p].deleted = "nobody"
              /\ i.attached \/ i.recovery # NoRecord => item[p].attached \/ item[p].recovery # NoRecord,
           \/ stored' = NoRecord \/ r.deleted \notin Gone
           \/ stored' = stored /\ r.deleted = up[p].deleted
    PROVE  BUInv'
<1>1. BrowserTyped'
  BY DEF BUInv, BrowserTyped, PagesTyped, RemoteGoes
<1>2. /\ item'[p] = i /\ up'[p] = r /\ asked'[p] = a
      /\ \A q \in Pages \ {p} : item'[q] = item[q] /\ up'[q] = up[q] /\ asked'[q] = asked[q]
  BY DEF BUInv, BrowserTyped, PagesTyped
<1>3. PagesFit'
  BY <1>2 DEF BUInv, PagesFit
<1>4. NoneIsAhead'
  <2>1. \A rec \in Records : rec.next <= arrived[rec.session] => rec.next <= arrived'[rec.session]
    BY <1>1 DEF Records, RemoteGoes, BUInv, BrowserTyped, RemoteTyped, Sizes
  <2>2. \A q \in Pages : up[q].next <= arrived[up[q].session] => up[q].next <= arrived'[up[q].session]
    BY <1>1 DEF Uploaders, RemoteGoes, BUInv, BrowserTyped, RemoteTyped, PagesTyped, Sizes
  <2>3. Arrived(stored)'
    BY <2>1 DEF BUInv, BrowserTyped, NoneIsAhead, Arrived
  <2>4. \A q \in Pages : /\ item[q].recovery \in Records \union {NoRecord}
                         /\ item[q].found \in Records \union {NoRecord}
    BY DEF BUInv, BrowserTyped, PagesTyped, Items
  <2>5. stored \in Records \union {NoRecord}
    BY DEF BUInv, BrowserTyped
  <2>6. \A q \in Pages \ {p} :
          /\ item'[q].recovery # NoRecord =>
               item'[q].recovery.next <= arrived'[item'[q].recovery.session]
          /\ item'[q].found # NoRecord =>
               item'[q].found.next <= arrived'[item'[q].found.session]
          /\ up'[q].next <= arrived'[up'[q].session]
    BY <1>2, <2>1, <2>2, <2>4 DEF BUInv, NoneIsAhead, Arrived
  <2>7. i.recovery # NoRecord => i.recovery.next <= arrived'[i.recovery.session]
    BY <2>1, <2>4 DEF BUInv, NoneIsAhead, Arrived
  <2>8. i.found # NoRecord => i.found.next <= arrived'[i.found.session]
    BY <2>1, <2>4, <2>5 DEF BUInv, NoneIsAhead, Arrived
  <2> QED BY <1>2, <2>3, <2>6, <2>7, <2>8 DEF NoneIsAhead, Arrived
<1>5. RecordStays'
  BY <1>2 DEF BUInv, RecordStays, RemoteGoes
<1>6. NothingLeftBehind'
  BY <1>2 DEF BUInv, NothingLeftBehind, Gone
<1> QED BY <1>1, <1>3, <1>4, <1>5, <1>6 DEF BUInv

-----------------------------------------------------------------------------
(* The uploader's steps. *)

LEMMA OfPage ==
    ASSUME BUInv, NEW p \in Pages
    PROVE  /\ item[p] \in Items /\ up[p] \in Uploaders /\ asked[p] \in Cancels
           /\ PageFits(item[p], up[p], asked[p])
           /\ up[p].next <= arrived[up[p].session] /\ up[p].session \in Sessions
           /\ up[p].pc # "rest" => item[p].attached
           /\ item[p].attached \/ up[p].pc # "rest" \/ item[p].pc # "rest" \/ asked[p] # NoCancel
                => item[p].state # "NONE"
<1>1. item[p] \in Items /\ up[p] \in Uploaders /\ asked[p] \in Cancels
  BY DEF BUInv, BrowserTyped, PagesTyped
<1>2. PageFits(item[p], up[p], asked[p]) /\ up[p].next <= arrived[up[p].session]
  BY DEF BUInv, PagesFit, NoneIsAhead
<1>3. up[p].session \in Sessions
  BY <1>1 DEF Uploaders
<1> QED BY <1>1, <1>2, <1>3, Busy

LEMMA NextStays ==
    ASSUME BUInv, NEW p \in Pages, RemoteGoes, NEW t, Leads(up[p], t)
    PROVE  t.next <= arrived'[t.session]
<1>1. t.session \in Sessions /\ arrived'[t.session] \in Sizes
  BY DEF Leads, Uploaders, RemoteGoes, RemoteTyped
<1>2. arrived[up[p].session] <= arrived'[up[p].session] /\ arrived[up[p].session] \in Sizes
      /\ arrived'[up[p].session] \in Sizes
  BY OfPage DEF RemoteGoes, BUInv, BrowserTyped, RemoteTyped
<1>3. up[p].next <= arrived[up[p].session] /\ up[p].next \in Sizes
  BY OfPage DEF Uploaders
<1> QED BY <1>1, <1>2, <1>3 DEF Leads, Sizes

\* The uploader alone changes, as its operations change it.
LEMMA UploaderStep ==
    ASSUME BUInv, NEW p \in Pages, RemoteGoes, NEW t \in Uploaders, OnlyUp(p, t),
           t.deleted = up[p].deleted, t.next <= arrived'[t.session],
           up[p].pc # "rest" \/ item[p].attached, PageFits(item[p], t, asked[p])
    PROVE  BUInv'
<1>1. /\ up' = [up EXCEPT ![p] = t] /\ stored' = stored /\ page' = page
      /\ item' = [item EXCEPT ![p] = item[p]] /\ asked' = [asked EXCEPT ![p] = asked[p]]
  BY DEF OnlyUp, SetUp, KeepPage, BUInv, BrowserTyped, PagesTyped
<1> QED BY <1>1, OfPage, PageStep

LEMMA GoesStep ==
    ASSUME BUInv, NEW p \in Pages, RemoteGoes, NEW t, OnlyUp(p, t), Leads(up[p], t),
           up[p].pc # "rest" \/ item[p].attached,
           \/ t.pc = up[p].pc \/ t.pc = "rest"
           \/ t.pc # "delete" /\ ~up[p].cancel /\ up[p].outcome = "none"
    PROVE  BUInv'
<1>1. PageFits(item[p], t, asked[p])
  BY OfPage, GoesOn
<1> QED BY <1>1, NextStays, UploaderStep DEF Leads

\* With another number of bytes that have arrived.
LEMMA AdvanceStep ==
    ASSUME BUInv, NEW p \in Pages, RemoteGoes, NEW n \in Sizes, n <= arrived'[up[p].session],
           NEW t, OnlyUp(p, t), Leads([up[p] EXCEPT !.next = n], t),
           t.pc # "delete", up[p].pc \in {"UPLOAD", "QUERY"}
    PROVE  BUInv'
<1>1. PICK r : r = [up[p] EXCEPT !.next = n]
  OBVIOUS
<1>2. /\ r \in Uploaders /\ r.pc = up[p].pc /\ r.outcome = up[p].outcome /\ r.cancel = up[p].cancel
      /\ r.deleted = up[p].deleted /\ r.phase = up[p].phase /\ r.session = up[p].session /\ r.next = n
  BY <1>1, OfPage DEF Uploaders
<1>3. up[p].pc # "rest" /\ ~up[p].cancel /\ up[p].outcome = "none" /\ item[p].attached
  BY OfPage, Busy
<1>4. PageFits(item[p], r, asked[p])
  BY <1>2, <1>3, OfPage DEF PageFits, ItemFits, Alone, Attached, CancelFits, NoItem
<1>5. PageFits(item[p], t, asked[p])
  BY <1>1, <1>2, <1>3, <1>4, OfPage, GoesOn
<1>6. t.session \in Sessions /\ arrived'[t.session] \in Nat
  BY Numbers DEF Leads, Uploaders, RemoteGoes, RemoteTyped
<1>7. t \in Uploaders /\ t.deleted = up[p].deleted /\ t.next <= arrived'[t.session]
  BY <1>1, <1>2, <1>6 DEF Leads
<1> QED BY <1>3, <1>5, <1>7, UploaderStep

LEMMA UploadChunkSafe == ASSUME BUInv, NEW p \in Pages, UploadChunk(p) PROVE BUInv'
<1>1. PICK r : r = up[p]
  OBVIOUS
<1>2. r \in Uploaders /\ r.pc = "UPLOAD" /\ ~r.cancel /\ r.outcome = "none"
  BY <1>1, OfPage, Busy DEF UploadChunk, AtUp
<1>3. CASE \E n \in Sizes : /\ Arrives(r, n) /\ Kept(r.session, n)
                            /\ IF n >= UploadEnd(r) THEN Unbroken ELSE Break
                            /\ OnlyUp(p, AfterChunk(r, n))
  <2>1. PICK n \in Sizes : /\ Arrives(r, n) /\ Kept(r.session, n) /\ (Unbroken \/ Break)
                           /\ OnlyUp(p, AfterChunk(r, n))
    BY <1>3
  <2>2. RemoteGoes /\ arrived'[r.session] = n /\ n <= arrived'[r.session]
    BY <1>2, <2>1, KeptGoes, BrowserUploadAssumption DEF Sizes
  <2> QED BY <1>1, <1>2, <2>1, <2>2, AfterChunkGoes, GoesStep, AdvanceStep
<1>4. CASE /\ Refused(r.session) \/ (r.next > arrived[r.session])
           /\ KeepRemote /\ Unbroken /\ OnlyUp(p, Failure(r, "RENEW"))
  BY <1>1, <1>2, <1>4, RemoteKept, FailureGoes, GoesStep DEF Requests
<1>5. CASE /\ Break
           /\ KeepRemote \/ (Arrives(r, UploadEnd(r)) /\ Kept(r.session, UploadEnd(r)))
           /\ \/ OnlyUp(p, IF IsFinalChunk(r) THEN Verify(r) ELSE Failure(r, "QUERY"))
              \/ \E action \in {"QUERY", "UPLOAD", "RENEW"} : OnlyUp(p, Failure(r, action))
  <2>1. RemoteGoes
    BY <1>2, <1>5, RemoteKept, KeptGoes, UploadEndIsUnits
  <2>2. CASE OnlyUp(p, Verify(r))
    BY <1>1, <1>2, <2>1, <2>2, VerifyGoes, GoesStep DEF Requests
  <2>3. ASSUME NEW action \in {"QUERY", "UPLOAD", "RENEW"}, OnlyUp(p, Failure(r, action)) PROVE BUInv'
    BY <1>1, <1>2, <2>1, <2>3, FailureGoes, GoesStep DEF Requests
  <2> QED BY <1>5, <2>2, <2>3
<1> QED BY <1>1, <1>3, <1>4, <1>5 DEF UploadChunk

LEMMA QueryStatusSafe == ASSUME BUInv, NEW p \in Pages, QueryStatus(p) PROVE BUInv'
<1>1. PICK r : r = up[p]
  OBVIOUS
<1>2. r \in Uploaders /\ r.pc = "QUERY" /\ ~r.cancel /\ r.outcome = "none" /\ r.session \in Sessions
  BY <1>1, OfPage, Busy DEF QueryStatus, AtUp
<1>3. RemoteGoes
  BY RemoteKept DEF QueryStatus
<1>4. ASSUME NEW n \in Sizes, NEW fails \in Nat, n <= arrived[r.session],
             OnlyUp(p, Advance(r, n, fails))
      PROVE  BUInv'
  <2>1. n <= arrived'[r.session]
    BY <1>2, <1>3, <1>4, BrowserUploadAssumption DEF RemoteGoes, RemoteTyped, BUInv, BrowserTyped, Sizes
  <2> QED BY <1>1, <1>2, <1>3, <1>4, <2>1, AdvanceGoes, AdvanceStep
<1>5. arrived[r.session] \in Sizes /\ r.fails \in Nat /\ r.next \in Sizes
  BY <1>2 DEF BUInv, BrowserTyped, RemoteTyped, Uploaders
<1>6. CASE OnlyUp(p, IF arrived[r.session] = Size THEN Verify(r)
                     ELSE Advance(r, arrived[r.session],
                                  IF arrived[r.session] > r.next THEN 0 ELSE r.fails))
  <2>1. CASE OnlyUp(p, Verify(r))
    BY <1>1, <1>2, <1>3, <2>1, VerifyGoes, GoesStep DEF Requests
  <2>2. CASE OnlyUp(p, Advance(r, arrived[r.session], IF arrived[r.session] > r.next THEN 0 ELSE r.fails))
    <3>1. (IF arrived[r.session] > r.next THEN 0 ELSE r.fails) \in Nat
      BY <1>5
    <3>2. arrived[r.session] <= arrived[r.session]
      BY <1>5, BrowserUploadAssumption DEF Sizes
    <3> QED BY <1>4, <1>5, <2>2, <3>1, <3>2
  <2> QED BY <1>6, <2>1, <2>2
<1>7. CASE OnlyUp(p, Advance(r, 0, IF 0 > r.next THEN 0 ELSE r.fails))
  <2>1. 0 \in Sizes /\ 0 <= arrived[r.session]
    BY <1>5, BrowserUploadAssumption DEF Sizes
  <2>2. (IF 0 > r.next THEN 0 ELSE r.fails) \in Nat
    BY <1>5
  <2> QED BY <1>4, <1>7, <2>1, <2>2
<1>8. ASSUME NEW action \in Requests, OnlyUp(p, Failure(r, action)) PROVE BUInv'
  BY <1>1, <1>2, <1>3, <1>8, FailureGoes, GoesStep
<1> QED BY <1>1, <1>6, <1>7, <1>8 DEF QueryStatus, Requests

LEMMA ReplyGoes ==
    ASSUME NEW r \in Uploaders, NEW a \in Replies, r.pc = "COMPLETE" \/ a.kind # "pending"
    PROVE  Leads(r, [r EXCEPT !.reply = a]) /\ [r EXCEPT !.reply = a].pc = r.pc
  BY DEF Leads, Uploaders

LEMMA RenewSafe == ASSUME BUInv, NEW p \in Pages, Renew(p) PROVE BUInv'
<1>1. PICK a : CreateSession(a) /\ OnlyUp(p, [up[p] EXCEPT !.reply = a])
  BY DEF Renew
<1>2. RemoteGoes /\ a \in Replies /\ a.kind # "pending"
  BY <1>1, CreateSessionGoes DEF Replies, Answered, NoAnswer, Answer
<1>3. up[p].pc = "RENEW"
  BY DEF Renew, AtUp
<1> QED BY <1>1, <1>2, <1>3, OfPage, ReplyGoes, GoesStep

\* READY: the outcome is decided, and only the record is still to be deleted.
LEMMA ReadyStep ==
    ASSUME BUInv, NEW p \in Pages, RemoteGoes, OnlyUp(p, IsReady(up[p])),
           up[p].pc # "rest", up[p].outcome = "none"
    PROVE  BUInv'
<1>1. PICK t : t = IsReady(up[p])
  OBVIOUS
<1>2. up[p] \in Uploaders /\ item[p] \in Items /\ asked[p] \in Cancels /\ item[p].attached
      /\ PageFits(item[p], up[p], asked[p])
  BY OfPage
<1>3. /\ t \in Uploaders /\ t.outcome = "READY" /\ t.phase = "READY" /\ t.pc = "delete"
      /\ t.cancel = up[p].cancel /\ t.deleted = up[p].deleted
      /\ t.session = up[p].session /\ t.next = up[p].next
  BY <1>1, <1>2 DEF IsReady, Publish, Uploaders, Phases
<1>4. PageFits(item[p], t, asked[p])
  BY <1>2, <1>3 DEF PageFits, ItemFits, Alone, Attached, CancelFits, NoItem
<1>5. t.next <= arrived'[t.session]
  <2>1. Leads(up[p], up[p])
    BY <1>2 DEF Leads
  <2> QED BY <1>3, <2>1, NextStays
<1> QED BY <1>1, <1>3, <1>4, <1>5, UploaderStep

LEMMA RenewAnsweredSafe == ASSUME BUInv, NEW p \in Pages, RenewAnswered(p) PROVE BUInv'
<1>1. PICK r : r = up[p]
  OBVIOUS
<1>2. r \in Uploaders /\ r.pc = "RENEW" /\ RemoteGoes
  BY <1>1, OfPage, RemoteKept DEF RenewAnswered, AtUp
<1>3. ~r.cancel => r.outcome = "none"
  BY <1>1, <1>2, OfPage DEF PageFits, CancelFits, Uploaders
<1>4. CASE OnlyUp(p, Halt(r))
  BY <1>1, <1>2, <1>4, HaltGoes, GoesStep
<1>5. CASE ~r.cancel /\ OnlyUp(p, Failure(r, "RENEW"))
  BY <1>1, <1>2, <1>3, <1>5, FailureGoes, GoesStep DEF Requests
<1>6. CASE ~r.cancel /\ OnlyUp(p, IsReady(r))
  BY <1>1, <1>2, <1>3, <1>6, ReadyStep
<1>7. CASE OnlyUp(p, Throw(r))
  BY <1>1, <1>2, <1>7, ThrowGoes, GoesStep
<1>8. CASE ~r.cancel /\ r.reply.kind = "session" /\ OnlyUp(p, Persist(NewSession(r)))
  BY <1>1, <1>2, <1>3, <1>8, NewSessionGoes, PersistGoes, GoesFar, GoesStep
<1>9. r.reply # NoAnswer /\ r.reply.kind # "pending" /\ r.reply \in Replies
  BY <1>1, <1>2, OfPage DEF RenewAnswered, PageFits, Attached, Uploaders
<1>10. r.reply.kind \in {"error", "ready", "session"}
  BY <1>9 DEF Replies, Answered, Answer
<1> QED BY <1>1, <1>4, <1>5, <1>6, <1>7, <1>8, <1>10 DEF RenewAnswered

LEMMA CompleteSafe == ASSUME BUInv, NEW p \in Pages, Complete(p) PROVE BUInv'
<1>1. RemoteGoes
  BY RemoteKept, BrowserUploadAssumption
  DEF Complete, BUInv, BrowserTyped, RemoteTyped, Unbroken, Break, RemoteGoes, Sizes, KeepRemote
<1>2. PICK a \in {"ready", "pending", "error"} : OnlyUp(p, [up[p] EXCEPT !.reply = Answer(a, 0)])
  BY DEF Complete
<1>3. Answer(a, 0) \in Replies
  BY <1>2 DEF Replies, Answered, Answer
<1>4. up[p].pc = "COMPLETE"
  BY DEF Complete, AtUp
<1> QED BY <1>1, <1>2, <1>3, <1>4, OfPage, ReplyGoes, GoesStep

LEMMA CompleteAnsweredSafe == ASSUME BUInv, NEW p \in Pages, CompleteAnswered(p) PROVE BUInv'
<1>1. PICK r : r = up[p]
  OBVIOUS
<1>2. r \in Uploaders /\ r.pc = "COMPLETE" /\ RemoteGoes
  BY <1>1, OfPage, RemoteKept DEF CompleteAnswered, AtUp
<1>3. /\ ~r.cancel => r.outcome = "none"
      /\ r.outcome # "CANCELLED" => r.outcome = "none"
  BY <1>1, <1>2, OfPage DEF PageFits, CancelFits, Uploaders
<1>4. CASE OnlyUp(p, Halt(r))
  BY <1>1, <1>2, <1>4, HaltGoes, GoesStep
<1>5. CASE r.outcome # "CANCELLED" /\ OnlyUp(p, IsReady(r))
  BY <1>1, <1>2, <1>3, <1>5, ReadyStep
<1>6. ASSUME NEW action \in {"QUERY", "COMPLETE"}, ~r.cancel, OnlyUp(p, Failure(r, action))
      PROVE  BUInv'
  BY <1>1, <1>2, <1>3, <1>6, FailureGoes, GoesStep DEF Requests
<1> QED BY <1>1, <1>4, <1>5, <1>6 DEF CompleteAnswered

LEMMA WakeSafe == ASSUME BUInv, NEW p \in Pages, Wake(p) PROVE BUInv'
<1>1. up[p] \in Uploaders /\ up[p].pc = "sleep" /\ ~up[p].cancel /\ up[p].outcome = "none"
  BY OfPage, Busy DEF Wake, AtUp
<1>2. RemoteGoes /\ OnlyUp(p, Loop(up[p]))
  BY RemoteKept DEF Wake
<1> QED BY <1>1, <1>2, LoopGoes, GoesStep DEF Requests

LEMMA PutDoneSafe == ASSUME BUInv, NEW p \in Pages, PutDone(p) PROVE BUInv'
<1>1. PICK r : r = up[p]
  OBVIOUS
<1>2. /\ r \in Uploaders /\ r.pc = "put" /\ RemoteGoes /\ item[p].attached /\ item[p].state # "NONE"
      /\ page' = page /\ item' = [item EXCEPT ![p] = item[p]]
      /\ asked' = [asked EXCEPT ![p] = asked[p]]
  BY <1>1, OfPage, RemoteKept
  DEF PutDone, AtUp, KeepPage, BUInv, BrowserTyped, PagesTyped
<1>3. ~r.cancel => r.outcome = "none"
  BY <1>1, <1>2, OfPage DEF PageFits, CancelFits, Uploaders
<1>4. r.deleted \notin Gone
  BY <1>1, <1>2, OfPage DEF PageFits, Attached
<1>5. CASE /\ stored' = Rec(r.session, r.next)
           /\ SetUp(p, IF r.disposed \/ r.cancel THEN Halt(r)
                       ELSE Loop(Publish(r, IF r.verifying THEN "VERIFYING" ELSE "UPLOADING")))
  <2>1. stored' \in Records /\ stored'.session = r.session /\ stored'.next = r.next
    BY <1>2, <1>5 DEF Rec, Records, Uploaders
  <2>2. stored' # NoRecord
    BY <2>1, BrowserUploadAssumption DEF Records
  <2>3. stored'.next <= arrived'[stored'.session]
    <3>1. Leads(r, r)
      BY <1>2 DEF Leads
    <3> QED BY <1>1, <1>2, <2>1, <3>1, NextStays
  <2>4. ASSUME NEW t, up' = [up EXCEPT ![p] = t], Leads(r, t),
               t.pc = "rest" \/ (t.pc # "delete" /\ ~r.cancel)
        PROVE  BUInv'
    <3>1. PageFits(item[p], t, asked[p])
      BY <1>1, <1>2, <1>3, <2>4, OfPage, GoesOn
    <3>2. t \in Uploaders /\ t.deleted = r.deleted /\ t.next <= arrived'[t.session]
      BY <1>1, <1>2, <2>4, NextStays DEF Leads
    <3> QED BY <1>1, <1>2, <1>4, <2>1, <2>2, <2>3, <2>4, <3>1, <3>2, OfPage, PageStep
  <2>5. CASE SetUp(p, Halt(r))
    BY <1>2, <2>4, <2>5, HaltGoes DEF SetUp
  <2>6. CASE ~r.cancel /\ SetUp(p, Loop(Publish(r, IF r.verifying THEN "VERIFYING" ELSE "UPLOADING")))
    <3>1. PICK shown : shown = Publish(r, IF r.verifying THEN "VERIFYING" ELSE "UPLOADING")
      OBVIOUS
    <3>2. Leads(r, shown)
      BY <1>2, <3>1, PublishGoes DEF Phases
    <3>3. Leads(shown, Loop(shown)) /\ Loop(shown).pc # "delete"
      BY <3>2, LoopGoes DEF Leads, Requests
    <3> QED BY <2>4, <2>6, <3>1, <3>2, <3>3, GoesFar DEF SetUp
  <2> QED BY <1>5, <2>5, <2>6
<1>6. CASE UNCHANGED stored /\ SetUp(p, Throw(r))
  <2>1. OnlyUp(p, Throw(r))
    BY <1>6 DEF OnlyUp, PutDone
  <2> QED BY <1>1, <1>2, <2>1, ThrowGoes, GoesStep
<1> QED BY <1>1, <1>5, <1>6 DEF PutDone

LEMMA DeleteDoneSafe == ASSUME BUInv, NEW p \in Pages, DeleteDone(p) PROVE BUInv'
<1>1. PICK r : r = up[p]
  OBVIOUS
<1>2. /\ r \in Uploaders /\ r.pc = "delete" /\ RemoteGoes /\ item[p].attached /\ item[p].state # "NONE"
      /\ page' = page /\ item' = [item EXCEPT ![p] = item[p]]
      /\ asked' = [asked EXCEPT ![p] = asked[p]]
  BY <1>1, OfPage, RemoteKept
  DEF DeleteDone, AtUp, KeepPage, BUInv, BrowserTyped, PagesTyped
<1>3. r.outcome = "READY"
  BY <1>1, <1>2, OfPage DEF PageFits, CancelFits
<1>4. CASE stored' = NoRecord /\ SetUp(p, [Halt(r) EXCEPT !.deleted = "uploader"])
  <2>1. PICK h : h = Halt(r)
    OBVIOUS
  <2>2. Leads(r, h) /\ h.pc = "rest"
    BY <1>2, <2>1, HaltGoes
  <2>3. PICK t : t = [h EXCEPT !.deleted = "uploader"]
    OBVIOUS
  <2>4. /\ t \in Uploaders /\ t.deleted = "uploader" /\ t.pc = "rest" /\ t.outcome = "READY"
        /\ t.session = h.session /\ t.next = h.next /\ t.cancel = r.cancel
        /\ t.phase = "CANCELLED" => r.phase = "CANCELLED"
    BY <1>3, <2>2, <2>3 DEF Leads, Uploaders
  <2>5. PageFits(item[p], t, asked[p])
    BY <1>1, <1>2, <1>3, <2>4, OfPage DEF PageFits, ItemFits, Alone, Attached, CancelFits, NoItem
  <2>6. t.next <= arrived'[t.session]
    BY <1>1, <1>2, <2>2, <2>4, NextStays
  <2> QED BY <1>1, <1>2, <1>4, <2>1, <2>3, <2>4, <2>5, <2>6, OfPage, PageStep DEF SetUp
<1>5. CASE UNCHANGED stored /\ SetUp(p, Halt(r))
  <2>1. OnlyUp(p, Halt(r))
    BY <1>5 DEF OnlyUp, DeleteDone
  <2> QED BY <1>1, <1>2, <2>1, HaltGoes, GoesStep
<1> QED BY <1>1, <1>4, <1>5 DEF DeleteDone

-----------------------------------------------------------------------------
(* The steps of the queue. *)

\* The page's item and cancellation change; its uploader, and the record, do not.
LEMMA ItemStep ==
    ASSUME BUInv, NEW p \in Pages, RemoteGoes, NEW i \in Items, NEW a \in Cancels,
           item' = [item EXCEPT ![p] = i], asked' = [asked EXCEPT ![p] = a],
           UNCHANGED <<stored, up, page>>,
           item[p].state # "NONE", i.state # "NONE", PageFits(i, up[p], a),
           i.recovery = item[p].recovery, i.attached <=> item[p].attached,
           i.found \in {NoRecord, item[p].found}
    PROVE  BUInv'
<1>1. up' = [up EXCEPT ![p] = up[p]]
  BY DEF BUInv, BrowserTyped, PagesTyped
<1>2. Leads(up[p], up[p])
  BY OfPage DEF Leads
<1> QED BY <1>1, <1>2, NextStays, OfPage, PageStep

\* The same when the record was written before.
LEMMA WroteStep ==
    ASSUME BUInv, NEW p \in Pages, RemoteGoes, NEW i \in Items, NEW a \in Cancels,
           item' = [item EXCEPT ![p] = i], asked' = [asked EXCEPT ![p] = a],
           UNCHANGED <<up, page>>, up[p].deleted \notin Gone,
           stored' \in Records, stored' # NoRecord, stored'.next <= arrived'[stored'.session],
           item[p].state # "NONE", i.state # "NONE", PageFits(i, up[p], a),
           i.recovery = item[p].recovery, i.found \in {NoRecord, item[p].found}
    PROVE  BUInv'
<1>1. up' = [up EXCEPT ![p] = up[p]]
  BY DEF BUInv, BrowserTyped, PagesTyped
<1>2. Leads(up[p], up[p])
  BY OfPage DEF Leads
<1> QED BY <1>1, <1>2, NextStays, OfPage, PageStep

LEMMA NoUploaderIsOne ==
    /\ NoUploader \in Uploaders /\ NoUploader.outcome = "none" /\ ~NoUploader.cancel
    /\ NoUploader.deleted = "nobody" /\ NoUploader.phase = "IDLE" /\ NoUploader.pc = "rest"
    /\ NoUploader.reply = NoAnswer
  BY Numbers, NothingAnswered DEF NoUploader, Uploaders, Requests, Phases

\* The item gets an uploader, which starts or resumes.
LEMMA AttachStep ==
    ASSUME BUInv, NEW p \in Pages, RemoteGoes, NEW i \in Items, NEW rec \in Records,
           NEW recovering \in BOOLEAN, Attach(p, i, rec, recovering),
           page' = page, asked' = asked, asked[p].by \notin {"settle", "uploader"},
           item[p].state # "NONE", i.state \in {"ACTIVE", "CANCELLED"}, i.found = NoRecord,
           rec.next <= arrived'[rec.session],
           \/ stored' = rec
           \/ stored' = stored /\ up[p].deleted = "nobody" /\ item[p].recovery # NoRecord
    PROVE  BUInv'
<1>1. PICK j : j = [i EXCEPT !.pc = "run", !.known = TRUE, !.attached = TRUE,
                            !.recovery = NoRecord, !.reply = NoAnswer]
  OBVIOUS
<1>2. PICK t : t = StartRun(NoUploader, rec, recovering)
  OBVIOUS
<1>3. /\ item' = [item EXCEPT ![p] = j] /\ up' = [up EXCEPT ![p] = t]
      /\ asked' = [asked EXCEPT ![p] = asked[p]]
  BY <1>1, <1>2 DEF Attach, SetItem, SetUp, BUInv, BrowserTyped, PagesTyped
<1>4. /\ j \in Items /\ j.state = i.state /\ j.pc = "run" /\ j.attached
      /\ j.found = NoRecord /\ j.recovery = NoRecord
  BY <1>1 DEF Items, Answered
<1>5. PICK base : base = [NoUploader EXCEPT !.cancel = FALSE, !.session = rec.session, !.next = rec.next]
  OBVIOUS
<1>6. Leads(base, t) /\ t.pc # "delete"
  BY <1>2, <1>5, NoUploaderIsOne, StartRunGoes
<1>7. /\ base.outcome = "none" /\ ~base.cancel /\ base.deleted = "nobody" /\ base.phase = "IDLE"
      /\ base.session = rec.session /\ base.next = rec.next /\ base.pc = "rest"
  BY <1>5, NoUploaderIsOne DEF Uploaders
<1>8. /\ t \in Uploaders /\ t.outcome = "none" /\ ~t.cancel /\ t.deleted = "nobody"
      /\ t.phase # "CANCELLED" /\ (t.pc = "RENEW" => t.reply.kind # "pending")
  BY <1>6, <1>7 DEF Leads
<1>9. PageFits(j, t, asked[p])
  BY <1>4, <1>6, <1>8 DEF PageFits, ItemFits, Alone, Attached, CancelFits, Gone
<1>10. t.next <= arrived'[t.session]
  <2>1. t.session \in Sessions /\ arrived'[t.session] \in Sizes
    BY <1>8 DEF Uploaders, RemoteGoes, RemoteTyped
  <2> QED BY <1>6, <1>7, <2>1, BrowserUploadAssumption DEF Leads, Sizes
<1>11. stored' = rec => stored' # NoRecord
  BY BrowserUploadAssumption DEF Records
<1> QED BY <1>3, <1>4, <1>8, <1>9, <1>10, <1>11, OfPage, PageStep DEF Gone

LEMMA RunItemSafe == ASSUME BUInv, NEW p \in Pages, RunItem(p) PROVE BUInv'
<1>1. PICK i : i = [item[p] EXCEPT !.state = "ACTIVE"]
  OBVIOUS
<1>2. RemoteGoes /\ stored' = stored /\ page' = page /\ asked' = asked
  BY RemoteKept DEF RunItem, KeepPage
<1>3. /\ item[p] \in Items /\ up[p] \in Uploaders /\ asked[p] \in Cancels
      /\ PageFits(item[p], up[p], asked[p]) /\ item[p].state = "QUEUED" /\ item[p].pc = "rest"
  BY OfPage DEF RunItem
<1>4. /\ ~item[p].attached /\ item[p].found = NoRecord
      /\ asked[p].by \notin {"settle", "uploader"}
  BY <1>3 DEF PageFits, ItemFits, Alone, CancelFits
<1>5. i \in Items /\ i.state = "ACTIVE" /\ i.recovery = item[p].recovery /\ i.found = NoRecord
      /\ ~i.attached
  BY <1>1, <1>3, <1>4 DEF Items
<1>6. CASE i.recovery # NoRecord
  <2>1. Attach(p, i, i.recovery, TRUE)
    BY <1>1, <1>6 DEF RunItem
  <2>2. up[p].deleted = "nobody"
    BY <1>3, <1>5, <1>6 DEF PageFits, ItemFits
  <2>3. i.recovery \in Records
    BY <1>5, <1>6 DEF Items
  <2>4. i.recovery.next <= arrived'[i.recovery.session]
    <3>1. i.recovery.next <= arrived[i.recovery.session]
      BY <1>5, <1>6 DEF BUInv, NoneIsAhead, Arrived
    <3>2. i.recovery.session \in Sessions /\ i.recovery.next \in Sizes
      BY <2>3 DEF Records
    <3> QED BY <1>2, <3>1, <3>2, BrowserUploadAssumption
            DEF RemoteGoes, RemoteTyped, BUInv, BrowserTyped, Sizes
  <2> QED BY <1>2, <1>3, <1>4, <1>5, <1>6, <2>1, <2>2, <2>3, <2>4, AttachStep
<1>7. CASE i.recovery = NoRecord
  <2>1. PICK j : j = [i EXCEPT !.pc = "ask"]
    OBVIOUS
  <2>2. item' = [item EXCEPT ![p] = j] /\ UNCHANGED up
    BY <1>1, <1>7, <2>1 DEF RunItem, SetItem
  <2>3. /\ j \in Items /\ j.pc = "ask" /\ j.state = "ACTIVE" /\ ~j.attached
        /\ j.recovery = NoRecord /\ j.found = NoRecord
    BY <1>5, <1>7, <2>1 DEF Items
  <2>4. PageFits(j, up[p], asked[p])
    BY <1>3, <1>4, <2>3 DEF PageFits, ItemFits, Alone, Attached, CancelFits
  <2>5. asked' = [asked EXCEPT ![p] = asked[p]]
    BY <1>2 DEF BUInv, BrowserTyped, PagesTyped
  <2> QED BY <1>2, <1>3, <1>4, <1>5, <1>7, <2>2, <2>3, <2>4, <2>5, ItemStep
<1> QED BY <1>6, <1>7

LEMMA ProvisionSafe == ASSUME BUInv, NEW p \in Pages, Provision(p) PROVE BUInv'
<1>1. PICK a : CreateSession(a) /\ item' = [item EXCEPT ![p] = [item[p] EXCEPT !.reply = a]]
  BY DEF Provision, SetItem
<1>2. RemoteGoes /\ a \in Answered
  BY <1>1, CreateSessionGoes
<1>3. PICK j : j = [item[p] EXCEPT !.reply = a]
  OBVIOUS
<1>4. /\ item[p] \in Items /\ up[p] \in Uploaders /\ asked[p] \in Cancels
      /\ PageFits(item[p], up[p], asked[p]) /\ item[p].pc = "ask" /\ item[p].state # "NONE"
  BY OfPage DEF Provision
<1>5. /\ j \in Items /\ j.pc = "ask" /\ j.state = item[p].state /\ j.attached = item[p].attached
      /\ j.recovery = item[p].recovery /\ j.found = item[p].found /\ j.known = item[p].known
  BY <1>2, <1>3, <1>4 DEF Items
<1>6. PageFits(j, up[p], asked[p])
  BY <1>4, <1>5 DEF PageFits, ItemFits, Alone, Attached, CancelFits
<1>7. asked' = [asked EXCEPT ![p] = asked[p]] /\ UNCHANGED <<stored, up, page>>
  BY DEF Provision, KeepPage, BUInv, BrowserTyped, PagesTyped
<1> QED BY <1>1, <1>2, <1>3, <1>4, <1>5, <1>6, <1>7, ItemStep

\* The end of a provisioning: an item that asked, or has its session, settles its
\* cancellation or fails.
LEMMA SettleOrFail ==
    ASSUME BUInv, NEW p \in Pages, RemoteGoes, NEW i \in Items,
           item[p].pc \in {"ask", "put"}, i.state = item[p].state, i.attached = item[p].attached,
           i.recovery = item[p].recovery, i.found = item[p].found,
           UNCHANGED <<stored, up, page>>, SettleCancel(p, i) \/ FailItem(p, i)
    PROVE  BUInv'
<1>1. /\ item[p] \in Items /\ up[p] \in Uploaders /\ asked[p] \in Cancels
      /\ PageFits(item[p], up[p], asked[p]) /\ item[p].state \in {"ACTIVE", "CANCELLED"}
      /\ ~item[p].attached /\ item[p].recovery = NoRecord /\ item[p].found = NoRecord
      /\ asked[p].by \notin {"settle", "uploader"}
      /\ up[p].phase # "CANCELLED" /\ up[p].deleted \notin Gone
      /\ up[p].pc = "rest" /\ up[p].outcome = "none"
  BY OfPage DEF PageFits, ItemFits, Alone, CancelFits
<1>2. CASE i.known /\ SetItem(p, [i EXCEPT !.pc = "settle"]) /\ SetCancel(p, "settle", "asked")
  <2>1. PICK j : j = [i EXCEPT !.pc = "settle"]
    OBVIOUS
  <2>2. PICK a : a = [by |-> "settle", pc |-> "asked"]
    OBVIOUS
  <2>3. a \in Cancels
    BY <2>2 DEF Cancels
  <2>4. /\ j \in Items /\ j.pc = "settle" /\ j.state = i.state /\ ~j.attached /\ j.known
        /\ j.recovery = NoRecord /\ j.found = NoRecord
    BY <1>1, <1>2, <2>1 DEF Items
  <2>5. PageFits(j, up[p], a)
    BY <1>1, <2>2, <2>4 DEF PageFits, ItemFits, Alone, Attached, CancelFits
  <2> QED BY <1>1, <1>2, <2>1, <2>2, <2>3, <2>4, <2>5, ItemStep DEF SetItem, SetCancel
<1>3. ASSUME NEW j \in Items, j.state \in {"CANCELLED", "FAILED"}, j.pc = "rest",
             j.recovery = NoRecord, j.found = NoRecord, ~j.attached,
             SetItem(p, j), UNCHANGED asked
      PROVE  BUInv'
  <2>1. PageFits(j, up[p], asked[p])
    BY <1>1, <1>3 DEF PageFits, ItemFits, Alone, Attached, CancelFits
  <2>2. asked' = [asked EXCEPT ![p] = asked[p]]
    BY <1>3 DEF BUInv, BrowserTyped, PagesTyped
  <2> QED BY <1>1, <1>3, <2>1, <2>2, ItemStep DEF SetItem
<1>4. CASE SetItem(p, [i EXCEPT !.pc = "rest", !.state = "CANCELLED", !.pending = FALSE]) /\ UNCHANGED asked
  <2>1. PICK j : j = [i EXCEPT !.pc = "rest", !.state = "CANCELLED", !.pending = FALSE]
    OBVIOUS
  <2>2. /\ j \in Items /\ j.state = "CANCELLED" /\ j.pc = "rest" /\ j.recovery = i.recovery
        /\ j.found = i.found /\ j.attached = i.attached
    BY <2>1 DEF Items
  <2> QED BY <1>1, <1>3, <1>4, <2>1, <2>2
<1>5. CASE SetItem(p, [i EXCEPT !.pc = "rest", !.state = "FAILED"]) /\ UNCHANGED asked
  <2>1. PICK j : j = [i EXCEPT !.pc = "rest", !.state = "FAILED"]
    OBVIOUS
  <2>2. /\ j \in Items /\ j.state = "FAILED" /\ j.pc = "rest" /\ j.recovery = i.recovery
        /\ j.found = i.found /\ j.attached = i.attached
    BY <2>1 DEF Items
  <2> QED BY <1>1, <1>3, <1>5, <2>1, <2>2
<1> QED BY <1>2, <1>4, <1>5 DEF SettleCancel, FailItem

LEMMA ProvisionedSafe == ASSUME BUInv, NEW p \in Pages, Provisioned(p) PROVE BUInv'
<1>1. PICK i : i = [item[p] EXCEPT !.known = @ \/ item[p].reply.kind # "error", !.reply = NoAnswer]
  OBVIOUS
<1>2. PICK b : b = item[p].reply
  OBVIOUS
<1>3. /\ item[p] \in Items /\ up[p] \in Uploaders /\ asked[p] \in Cancels
      /\ PageFits(item[p], up[p], asked[p]) /\ item[p].pc = "ask" /\ item[p].state # "NONE"
  BY OfPage DEF Provisioned
<1>4. /\ ~item[p].attached /\ item[p].recovery = NoRecord /\ item[p].found = NoRecord
      /\ item[p].state \in {"ACTIVE", "CANCELLED"}
      /\ asked[p].by \notin {"settle", "uploader"} /\ up[p].deleted \notin Gone
      /\ up[p].pc = "rest" /\ up[p].outcome = "none" /\ up[p].phase # "CANCELLED"
  BY <1>3 DEF PageFits, ItemFits, Alone, CancelFits
<1>5. /\ i \in Items /\ i.pc = "ask" /\ i.state = item[p].state /\ i.attached = item[p].attached
      /\ i.recovery = item[p].recovery /\ i.found = item[p].found
  BY <1>1, <1>3 DEF Items, Answered
<1>6. RemoteGoes /\ stored' = stored /\ page' = page
  BY RemoteKept DEF Provisioned, KeepPage
<1>7. b \in Answered /\ b # NoAnswer /\ (b.kind \in {"error", "ready"} \/ b.kind = "session")
  <2>1. b \in Answered /\ b # NoAnswer
    BY <1>2, <1>3 DEF Items, Provisioned
  <2> QED BY <2>1 DEF Answered
<1>8. CASE (FailItem(p, i) \/ SettleCancel(p, i)) /\ UNCHANGED up
  BY <1>3, <1>5, <1>6, <1>8, SettleOrFail
<1>9. CASE /\ SetItem(p, [i EXCEPT !.pc = "rest", !.state = "DONE", !.known = item[p].known])
           /\ SetUp(p, [up[p] EXCEPT !.phase = "READY"]) /\ UNCHANGED asked
  <2>1. PICK j : j = [i EXCEPT !.pc = "rest", !.state = "DONE", !.known = item[p].known]
    OBVIOUS
  <2>2. PICK t : t = [up[p] EXCEPT !.phase = "READY"]
    OBVIOUS
  <2>3. /\ j \in Items /\ j.pc = "rest" /\ j.state = "DONE" /\ ~j.attached
        /\ j.recovery = NoRecord /\ j.found = NoRecord
    BY <1>3, <1>4, <1>5, <2>1 DEF Items
  <2>4. Leads(up[p], t) /\ t.pc = "rest" /\ t.phase = "READY"
    BY <1>3, <1>4, <2>2 DEF Leads, Uploaders, Phases
  <2>5. PageFits(j, t, asked[p])
    BY <1>3, <1>4, <2>3, <2>4 DEF PageFits, ItemFits, Alone, Attached, CancelFits, Leads
  <2>6. t.next <= arrived'[t.session] /\ t \in Uploaders /\ t.deleted = up[p].deleted
    BY <1>6, <2>4, NextStays DEF Leads
  <2>7. asked' = [asked EXCEPT ![p] = asked[p]]
    BY <1>9 DEF BUInv, BrowserTyped, PagesTyped
  <2> QED BY <1>3, <1>4, <1>6, <1>9, <2>1, <2>2, <2>3, <2>5, <2>6, <2>7, PageStep DEF SetItem, SetUp
<1>10. CASE /\ b.kind = "session"
            /\ SetItem(p, [i EXCEPT !.pc = "put", !.reply = b]) /\ UNCHANGED <<up, asked>>
  <2>1. PICK j : j = [i EXCEPT !.pc = "put", !.reply = b]
    OBVIOUS
  <2>2. /\ j \in Items /\ j.pc = "put" /\ j.state = item[p].state /\ ~j.attached
        /\ j.recovery = NoRecord /\ j.found = NoRecord /\ j.reply = b
    BY <1>4, <1>5, <1>7, <2>1 DEF Items
  <2>3. PageFits(j, up[p], asked[p])
    BY <1>3, <1>4, <1>10, <2>2 DEF PageFits, ItemFits, Alone, Attached, CancelFits
  <2>4. asked' = [asked EXCEPT ![p] = asked[p]]
    BY <1>10 DEF BUInv, BrowserTyped, PagesTyped
  <2> QED BY <1>3, <1>4, <1>6, <1>10, <2>1, <2>2, <2>3, <2>4, ItemStep DEF SetItem
<1> QED BY <1>1, <1>2, <1>7, <1>8, <1>9, <1>10 DEF Provisioned

LEMMA StoreRecordSafe == ASSUME BUInv, NEW p \in Pages, StoreRecord(p) PROVE BUInv'
<1>1. PICK i : i = [item[p] EXCEPT !.reply = NoAnswer]
  OBVIOUS
<1>2. PICK s : s = item[p].reply.session
  OBVIOUS
<1>3. /\ item[p] \in Items /\ up[p] \in Uploaders /\ asked[p] \in Cancels
      /\ PageFits(item[p], up[p], asked[p]) /\ item[p].pc = "put" /\ item[p].state # "NONE"
  BY OfPage DEF StoreRecord
<1>4. /\ ~item[p].attached /\ item[p].recovery = NoRecord /\ item[p].found = NoRecord
      /\ item[p].state \in {"ACTIVE", "CANCELLED"} /\ item[p].reply.kind = "session"
      /\ asked[p].by \notin {"settle", "uploader"} /\ up[p].deleted \notin Gone
  BY <1>3 DEF PageFits, ItemFits, Alone, CancelFits
<1>5. /\ i \in Items /\ i.pc = "put" /\ i.state = item[p].state /\ i.attached = item[p].attached
      /\ i.recovery = item[p].recovery /\ i.found = item[p].found
  BY <1>1, <1>3 DEF Items, Answered
<1>6. RemoteGoes /\ page' = page
  BY RemoteKept DEF StoreRecord, KeepPage
<1>7. s \in Sessions
  <2>1. item[p].reply \in Answered
    BY <1>3 DEF Items
  <2> QED BY <1>2, <1>4, <2>1 DEF Answered, NoAnswer, Answer
<1>8. CASE (FailItem(p, i) \/ SettleCancel(p, i)) /\ UNCHANGED <<up, stored>>
  BY <1>3, <1>5, <1>6, <1>8, SettleOrFail
<1>9. PICK rec : rec = Rec(s, 0)
  OBVIOUS
<1>10. rec \in Records /\ rec.session = s /\ rec.next = 0 /\ rec # NoRecord
  BY <1>7, <1>9, Numbers, BrowserUploadAssumption DEF Rec, Records
<1>11. rec.next <= arrived'[rec.session]
  BY <1>6, <1>7, <1>10, BrowserUploadAssumption DEF RemoteGoes, RemoteTyped, Sizes
<1>12. CASE stored' = rec /\ Attach(p, i, rec, FALSE) /\ UNCHANGED asked
  BY <1>3, <1>4, <1>5, <1>6, <1>10, <1>11, <1>12, AttachStep
<1>13. CASE stored' = rec /\ i.pending /\ SettleCancel(p, i) /\ UNCHANGED up
  <2>1. CASE i.known /\ SetItem(p, [i EXCEPT !.pc = "settle"]) /\ SetCancel(p, "settle", "asked")
    <3>1. PICK j : j = [i EXCEPT !.pc = "settle"]
      OBVIOUS
    <3>2. PICK a : a = [by |-> "settle", pc |-> "asked"]
      OBVIOUS
    <3>3. a \in Cancels
      BY <3>2 DEF Cancels
    <3>4. /\ j \in Items /\ j.pc = "settle" /\ j.state = i.state /\ ~j.attached /\ j.known
          /\ j.recovery = NoRecord /\ j.found = NoRecord
      BY <1>4, <1>5, <2>1, <3>1 DEF Items
    <3>5. PageFits(j, up[p], a)
      BY <1>3, <1>4, <1>5, <3>2, <3>4 DEF PageFits, ItemFits, Alone, Attached, CancelFits
    <3> QED BY <1>3, <1>4, <1>5, <1>6, <1>10, <1>11, <1>13, <2>1, <3>1, <3>2, <3>3, <3>4, <3>5,
               WroteStep DEF SetItem, SetCancel
  <2>2. CASE /\ SetItem(p, [i EXCEPT !.pc = "rest", !.state = "CANCELLED", !.pending = FALSE])
             /\ UNCHANGED asked
    <3>1. PICK j : j = [i EXCEPT !.pc = "rest", !.state = "CANCELLED", !.pending = FALSE]
      OBVIOUS
    <3>2. /\ j \in Items /\ j.pc = "rest" /\ j.state = "CANCELLED" /\ ~j.attached
          /\ j.recovery = NoRecord /\ j.found = NoRecord
      BY <1>4, <1>5, <3>1 DEF Items
    <3>3. PageFits(j, up[p], asked[p])
      BY <1>3, <1>4, <3>2 DEF PageFits, ItemFits, Alone, Attached, CancelFits
    <3>4. asked' = [asked EXCEPT ![p] = asked[p]]
      BY <2>2 DEF BUInv, BrowserTyped, PagesTyped
    <3> QED BY <1>3, <1>4, <1>5, <1>6, <1>10, <1>11, <1>13, <2>2, <3>1, <3>2, <3>3, <3>4,
               WroteStep DEF SetItem
  <2> QED BY <1>13, <2>1, <2>2 DEF SettleCancel
<1> QED BY <1>1, <1>2, <1>8, <1>9, <1>12, <1>13 DEF StoreRecord

LEMMA SettleItemSafe == ASSUME BUInv, NEW p \in Pages, SettleItem(p) PROVE BUInv'
<1>1. /\ item[p] \in Items /\ up[p] \in Uploaders /\ asked[p] \in Cancels
      /\ PageFits(item[p], up[p], asked[p]) /\ item[p].pc = "run" /\ item[p].state # "NONE"
  BY OfPage DEF SettleItem
<1>2. PICK j : item' = [item EXCEPT ![p] = j] /\
         j = (IF up[p].phase = "READY" THEN [item[p] EXCEPT !.pc = "rest", !.state = "DONE"]
              ELSE IF up[p].phase = "CANCELLED" /\ asked[p] = NoCancel /\ up[p].deleted # "nobody"
              THEN [item[p] EXCEPT !.pc = "rest", !.state = "CANCELLED"]
              ELSE [item[p] EXCEPT !.pc = "rest"])
  BY DEF SettleItem, SetItem
<1>3. item[p].attached /\ item[p].state \in {"ACTIVE", "DONE", "CANCELLED"}
  BY <1>1 DEF PageFits, ItemFits
<1>4. /\ j \in Items /\ j.pc = "rest" /\ j.state \in {"ACTIVE", "DONE", "CANCELLED"} /\ j.attached
      /\ j.recovery = item[p].recovery /\ j.found = item[p].found /\ j.known = item[p].known
  BY <1>1, <1>2, <1>3 DEF Items
<1>5. PageFits(j, up[p], asked[p])
  BY <1>1, <1>3, <1>4 DEF PageFits, ItemFits, Alone, Attached, CancelFits
<1>6. asked' = [asked EXCEPT ![p] = asked[p]] /\ UNCHANGED <<stored, up, page>> /\ RemoteGoes
  BY RemoteKept DEF SettleItem, KeepPage, BUInv, BrowserTyped, PagesTyped
<1> QED BY <1>1, <1>2, <1>3, <1>4, <1>5, <1>6, ItemStep

LEMMA ResumeRunSafe == ASSUME BUInv, NEW p \in Pages, ResumeRun(p) PROVE BUInv'
<1>1. PICK r : r = up[p]
  OBVIOUS
<1>2. PICK i : i = [item[p] EXCEPT !.found = NoRecord]
  OBVIOUS
<1>3. /\ item[p] \in Items /\ r \in Uploaders /\ asked[p] \in Cancels
      /\ PageFits(item[p], r, asked[p]) /\ item[p].pc = "rest" /\ item[p].found # NoRecord
  BY <1>1, OfPage DEF ResumeRun
<1>4. /\ item[p].attached /\ item[p].state \in {"ACTIVE", "DONE", "CANCELLED"}
      /\ item[p].state # "NONE" /\ item[p].recovery = NoRecord
  BY <1>3 DEF PageFits, ItemFits
<1>5. /\ i \in Items /\ i.pc = "rest" /\ i.state = item[p].state /\ i.attached
      /\ i.recovery = NoRecord /\ i.found = NoRecord /\ i.known = item[p].known
  BY <1>2, <1>3, <1>4 DEF Items
<1>6. /\ asked' = [asked EXCEPT ![p] = asked[p]] /\ UNCHANGED <<stored, page>> /\ RemoteGoes
  BY RemoteKept DEF ResumeRun, KeepPage, BUInv, BrowserTyped, PagesTyped
<1>7. CASE SetItem(p, i) /\ UNCHANGED up
  <2>1. PageFits(i, r, asked[p])
    BY <1>3, <1>4, <1>5 DEF PageFits, ItemFits, Alone, Attached, CancelFits
  <2> QED BY <1>1, <1>3, <1>4, <1>5, <1>6, <1>7, <2>1, ItemStep DEF SetItem
<1>8. CASE /\ r.pc = "rest" /\ asked[p] = NoCancel /\ r.outcome = "none"
           /\ SetItem(p, [i EXCEPT !.pc = "run"]) /\ SetUp(p, StartRun(r, item[p].found, TRUE))
  <2>1. PICK j : j = [i EXCEPT !.pc = "run"]
    OBVIOUS
  <2>2. PICK t : t = StartRun(r, item[p].found, TRUE)
    OBVIOUS
  <2>3. PICK rec : rec = item[p].found
    OBVIOUS
  <2>4. rec \in Records /\ rec.session \in Sessions /\ rec.next \in Sizes
        /\ rec.next <= arrived[rec.session]
    BY <1>3, <2>3 DEF Items, Records, BUInv, NoneIsAhead, Arrived
  <2>5. PICK base : base = [r EXCEPT !.cancel = FALSE, !.session = rec.session, !.next = rec.next]
    OBVIOUS
  <2>6. Leads(base, t) /\ t.pc # "delete"
    BY <1>3, <2>2, <2>3, <2>4, <2>5, StartRunGoes
  <2>7. /\ base.outcome = "none" /\ ~base.cancel /\ base.deleted = r.deleted /\ base.phase = r.phase
        /\ base.session = rec.session /\ base.next = rec.next /\ base.pc = "rest"
    BY <1>3, <1>8, <2>5 DEF Uploaders
  <2>8. /\ t \in Uploaders /\ t.outcome = "none" /\ ~t.cancel /\ t.deleted = r.deleted
        /\ (t.phase = "CANCELLED" => r.phase = "CANCELLED")
        /\ (t.pc = "RENEW" => t.reply.kind # "pending")
    BY <2>6, <2>7 DEF Leads
  <2>9. /\ j \in Items /\ j.pc = "run" /\ j.state = item[p].state /\ j.attached
        /\ j.recovery = NoRecord /\ j.found = NoRecord
    BY <1>5, <2>1 DEF Items
  <2>10. r.phase # "CANCELLED" /\ r.deleted \notin Gone
    BY <1>3, <1>4, <1>8 DEF PageFits, Attached
  <2>11. PageFits(j, t, asked[p])
    <3>1. asked[p].by = "nobody"
      BY <1>8 DEF NoCancel
    <3> QED BY <1>4, <2>6, <2>8, <2>9, <2>10, <3>1
            DEF PageFits, ItemFits, Alone, Attached, CancelFits
  <2>12. t.next <= arrived'[t.session]
    <3>1. t.session \in Sessions /\ arrived'[t.session] \in Sizes /\ arrived'[rec.session] \in Sizes
          /\ arrived[rec.session] \in Sizes /\ arrived[rec.session] <= arrived'[rec.session]
      BY <1>6, <2>4, <2>8 DEF Uploaders, RemoteGoes, RemoteTyped, BUInv, BrowserTyped
    <3> QED BY <2>4, <2>6, <2>7, <3>1, BrowserUploadAssumption DEF Leads, Sizes
  <2> QED BY <1>1, <1>3, <1>4, <1>6, <1>8, <2>1, <2>2, <2>8, <2>9, <2>11, <2>12, PageStep
          DEF SetItem, SetUp
<1> QED BY <1>1, <1>2, <1>7, <1>8 DEF ResumeRun

-----------------------------------------------------------------------------
(* The user's steps. *)

LEMMA PauseSafe == ASSUME BUInv, NEW p \in Pages, Pause(p) PROVE BUInv'
<1>1. PICK r : r = [up[p] EXCEPT !.pause = TRUE]
  OBVIOUS
<1>2. up[p] \in Uploaders /\ item[p].attached /\ RemoteGoes
  BY OfPage, RemoteKept DEF Pause
<1>3. Leads(up[p], r) /\ r.pc = up[p].pc /\ r.pause /\ r \in Uploaders
  BY <1>1, <1>2 DEF Leads, Uploaders
<1>4. CASE OnlyUp(p, Loop(r))
  BY <1>2, <1>3, <1>4, LoopGoes, GoesFar, GoesStep
<1>5. CASE OnlyUp(p, r)
  BY <1>2, <1>3, <1>5, GoesStep
<1> QED BY <1>1, <1>4, <1>5 DEF Pause

LEMMA ListIs ==
    ASSUME BUInv
    PROVE  /\ List \in {stored, NoRecord} /\ (List # stored => grants.expired # {})
           /\ List \in Records \union {NoRecord}
  BY DEF List, Valid, Expired, BUInv, BrowserTyped

LEMMA ResumeSafe == ASSUME BUInv, NEW p \in Pages, Resume(p) PROVE BUInv'
<1>1. PICK rec : rec = List
  OBVIOUS
<1>2. PICK j : j = [item[p] EXCEPT !.found = rec]
  OBVIOUS
<1>3. /\ item[p] \in Items /\ up[p] \in Uploaders /\ asked[p] \in Cancels
      /\ PageFits(item[p], up[p], asked[p]) /\ item[p].pc = "rest" /\ item[p].attached
      /\ item[p].state # "NONE"
  BY OfPage DEF Resume
<1>4. /\ rec \in Records \union {NoRecord} /\ rec \in {stored, NoRecord}
      /\ (rec # stored => grants.expired # {})
  BY <1>1, ListIs
<1>5. /\ j \in Items /\ j.pc = item[p].pc /\ j.state = item[p].state /\ j.attached = item[p].attached
      /\ j.recovery = item[p].recovery /\ j.found = rec /\ j.known = item[p].known
      /\ j.reply = item[p].reply
  BY <1>2, <1>3, <1>4 DEF Items
<1>6. PageFits(j, up[p], asked[p])
  BY <1>3, <1>5 DEF PageFits, ItemFits, Alone, Attached, CancelFits
<1>7. /\ RemoteGoes /\ grants' = grants /\ page' = page /\ stored' = rec
      /\ item' = [item EXCEPT ![p] = j] /\ up' = [up EXCEPT ![p] = up[p]]
      /\ asked' = [asked EXCEPT ![p] = asked[p]]
  BY <1>1, <1>2, RemoteKept
  DEF Resume, SetItem, KeepPage, KeepRemote, BUInv, BrowserTyped, PagesTyped
<1>8. up[p].next <= arrived'[up[p].session]
  BY <1>3, <1>7, NextStays DEF Leads
<1>9. PageFits(j, up[p], asked[p]) /\ j.state # "NONE"
  BY <1>3, <1>5, <1>6
<1>10. CASE stored' = stored
  BY <1>3, <1>4, <1>5, <1>7, <1>8, <1>9, <1>10, PageStep
<1>11. CASE stored' # stored
  BY <1>3, <1>4, <1>5, <1>7, <1>8, <1>9, <1>11, PageStep
<1> QED BY <1>10, <1>11

LEMMA RetrySafe == ASSUME BUInv, NEW p \in Pages, Retry(p) PROVE BUInv'
<1>1. PICK j : j = [item[p] EXCEPT !.state = "QUEUED"]
  OBVIOUS
<1>2. /\ item[p] \in Items /\ up[p] \in Uploaders /\ asked[p] \in Cancels
      /\ PageFits(item[p], up[p], asked[p]) /\ item[p].state = "FAILED"
  BY OfPage DEF Retry
<1>3. /\ j \in Items /\ j.pc = item[p].pc /\ j.state = "QUEUED" /\ j.attached = item[p].attached
      /\ j.recovery = item[p].recovery /\ j.found = item[p].found /\ j.known = item[p].known
  BY <1>1, <1>2 DEF Items
<1>4. ~item[p].attached /\ item[p].pc = "rest" /\ item[p].recovery = NoRecord
  BY <1>2 DEF PageFits, ItemFits, Items
<1>5. PageFits(j, up[p], asked[p])
  BY <1>2, <1>3, <1>4 DEF PageFits, ItemFits, Alone, Attached, CancelFits
<1>6. /\ asked' = [asked EXCEPT ![p] = asked[p]] /\ UNCHANGED <<stored, up, page>> /\ RemoteGoes
      /\ item' = [item EXCEPT ![p] = j]
  BY <1>1, RemoteKept DEF Retry, SetItem, KeepPage, BUInv, BrowserTyped, PagesTyped
<1> QED BY <1>2, <1>3, <1>5, <1>6, ItemStep

\* Aborting the uploader's request ends its run, or leaves it where nothing is aborted.
LEMMA InterruptGoes ==
    ASSUME BUInv, NEW p \in Pages, NEW r \in Uploaders, r.pause, Interrupt(p, r), Unbroken
    PROVE  /\ RemoteGoes
           /\ \E t : /\ up' = [up EXCEPT ![p] = t] /\ Leads(r, t)
                     /\ t.pc = "rest" \/ (t.pc = r.pc /\ t.pc \notin {"UPLOAD", "QUERY", "sleep"})
<1>1. RemoteGoes
  BY RemoteKept, KeptGoes, UploadEndIsUnits DEF Interrupt
<1>2. Leads(r, r)
  BY DEF Leads
<1>3. CASE r.pc \in {"UPLOAD", "QUERY"}
  BY <1>1, <1>3, HaltGoes DEF Interrupt, SetUp
<1>4. CASE r.pc = "sleep"
  BY <1>1, <1>4, LoopGoes DEF Interrupt, SetUp
<1>5. CASE r.pc \notin {"UPLOAD", "QUERY", "sleep"}
  BY <1>1, <1>2, <1>5 DEF Interrupt, SetUp
<1> QED BY <1>3, <1>4, <1>5

\* A new state of the item, where its parts allow it.
LEMMA GiveStep ==
    ASSUME BUInv, NEW p \in Pages, RemoteGoes, NEW s, Give(p, s), UNCHANGED <<stored, up, page>>,
           NEW a \in Cancels, asked' = [asked EXCEPT ![p] = a], a.by \in {"nobody", asked[p].by},
           item[p].state # "NONE",
           s = "CANCELLED", item[p].pc = "rest" \/ item[p].attached,
           up[p].outcome = "CANCELLED" /\ up[p].pc = "put" => a.by = "uploader",
           a.by = "uploader" => a = asked[p],
           item[p].recovery # NoRecord => a = NoCancel
    PROVE  BUInv'
<1>1. PICK j : j = [item[p] EXCEPT !.state = "CANCELLED"]
  OBVIOUS
<1>2. /\ item[p] \in Items /\ up[p] \in Uploaders /\ asked[p] \in Cancels
      /\ PageFits(item[p], up[p], asked[p])
  BY OfPage
<1>3. /\ j \in Items /\ j.pc = item[p].pc /\ j.state = "CANCELLED" /\ j.attached = item[p].attached
      /\ j.recovery = item[p].recovery /\ j.found = item[p].found /\ j.known = item[p].known
      /\ j.reply = item[p].reply
  BY <1>1, <1>2 DEF Items
<1>4. PageFits(j, up[p], a)
  BY <1>2, <1>3 DEF PageFits, ItemFits, Alone, Attached, CancelFits
<1>5. item' = [item EXCEPT ![p] = j]
  BY <1>1 DEF Give, SetItem
<1> QED BY <1>2, <1>3, <1>4, <1>5, ItemStep

LEMMA CancelItemSafe == ASSUME BUInv, NEW p \in Pages, CancelItem(p) PROVE BUInv'
<1>1. /\ item[p] \in Items /\ up[p] \in Uploaders /\ asked[p] = NoCancel
      /\ PageFits(item[p], up[p], NoCancel) /\ item[p].state \in {"QUEUED", "ACTIVE", "FAILED"}
      /\ item[p].state # "NONE" /\ NoCancel \in Cancels /\ NoCancel.by = "nobody"
  BY OfPage DEF CancelItem, Cancels, NoCancel
<1>2. Unbroken /\ UNCHANGED <<page, stored>>
  BY DEF CancelItem, KeepPage
<1>3. asked' = asked => asked' = [asked EXCEPT ![p] = NoCancel]
  BY <1>1 DEF BUInv, BrowserTyped, PagesTyped
<1>4. CASE /\ item[p].state = "QUEUED" \/ (item[p].state = "FAILED" /\ ~item[p].known)
           /\ Give(p, "CANCELLED") /\ KeepRemote /\ UNCHANGED <<up, asked>>
  <2>1. item[p].pc = "rest" /\ ~item[p].attached
    BY <1>1, <1>4 DEF PageFits, ItemFits, Items
  <2>2. up[p].pc = "rest"
    BY <1>1, <2>1 DEF PageFits, Alone
  <2> QED BY <1>1, <1>2, <1>3, <1>4, <2>1, <2>2, RemoteKept, GiveStep
<1>5. CASE /\ SetItem(p, [item[p] EXCEPT !.pending = TRUE]) /\ KeepRemote /\ UNCHANGED <<up, asked>>
  <2>1. PICK j : j = [item[p] EXCEPT !.pending = TRUE]
    OBVIOUS
  <2>2. /\ j \in Items /\ j.pc = item[p].pc /\ j.state = item[p].state /\ j.attached = item[p].attached
        /\ j.recovery = item[p].recovery /\ j.found = item[p].found /\ j.known = item[p].known
        /\ j.reply = item[p].reply
    BY <1>1, <2>1 DEF Items
  <2>3. PageFits(j, up[p], NoCancel)
    BY <1>1, <2>2 DEF PageFits, ItemFits, Alone, Attached, CancelFits
  <2>4. /\ RemoteGoes /\ asked' = [asked EXCEPT ![p] = NoCancel]
        /\ item' = [item EXCEPT ![p] = j] /\ UNCHANGED <<stored, up, page>>
    BY <1>2, <1>3, <1>5, <2>1, RemoteKept DEF SetItem
  <2> QED BY <1>1, <2>2, <2>3, <2>4, ItemStep
<1>6. CASE /\ item[p].state = "FAILED" /\ item[p].known /\ ~item[p].attached
           /\ SetCancel(p, "queue", "asked") /\ KeepRemote /\ UNCHANGED <<up, item>>
  <2>1. PICK a : a = [by |-> "queue", pc |-> "asked"]
    OBVIOUS
  <2>2. a \in Cancels /\ a.by = "queue"
    BY <2>1 DEF Cancels
  <2>3. item[p].recovery = NoRecord
    BY <1>1, <1>6 DEF PageFits, ItemFits
  <2>4. PageFits(item[p], up[p], a)
    BY <1>1, <1>6, <2>2, <2>3 DEF PageFits, ItemFits, Alone, Attached, CancelFits
  <2>5. item' = [item EXCEPT ![p] = item[p]]
    BY <1>6 DEF BUInv, BrowserTyped, PagesTyped
  <2> QED BY <1>1, <1>2, <1>6, <2>1, <2>2, <2>4, <2>5, RemoteKept, ItemStep DEF SetCancel
<1>7. CASE /\ item[p].attached /\ up[p].outcome = "none"
           /\ SetCancel(p, "uploader", "asked") /\ UNCHANGED item
           /\ Interrupt(p, [up[p] EXCEPT !.pause = TRUE, !.cancel = TRUE])
  <2>1. PICK r : r = [up[p] EXCEPT !.pause = TRUE, !.cancel = TRUE]
    OBVIOUS
  <2>2. /\ r \in Uploaders /\ r.pause /\ r.cancel /\ r.outcome = "none" /\ r.pc = up[p].pc
        /\ r.deleted = up[p].deleted /\ r.phase = up[p].phase /\ r.session = up[p].session
        /\ r.next = up[p].next /\ r.reply = up[p].reply
    BY <1>1, <1>7, <2>1 DEF Uploaders
  <2>3. /\ RemoteGoes
        /\ \E t : /\ up' = [up EXCEPT ![p] = t] /\ Leads(r, t)
                  /\ t.pc = "rest" \/ (t.pc = r.pc /\ t.pc \notin {"UPLOAD", "QUERY", "sleep"})
    <3>1. Interrupt(p, r) /\ Unbroken
      BY <1>2, <1>7, <2>1
    <3> QED BY <2>2, <3>1, InterruptGoes
  <2>4. PICK t : /\ up' = [up EXCEPT ![p] = t] /\ Leads(r, t)
                 /\ t.pc = "rest" \/ (t.pc = r.pc /\ t.pc \notin {"UPLOAD", "QUERY", "sleep"})
    BY <2>3
  <2>5. PICK a : a = [by |-> "uploader", pc |-> "asked"]
    OBVIOUS
  <2>6. a \in Cancels /\ a.by = "uploader" /\ a.pc = "asked"
    BY <2>5 DEF Cancels
  <2>7. /\ t \in Uploaders /\ t.outcome = "none" /\ t.cancel /\ t.deleted = up[p].deleted
        /\ t.phase = "CANCELLED" => up[p].phase = "CANCELLED"
        /\ t.pc = "RENEW" => t.reply.kind # "pending" \/ (up[p].pc = "RENEW" /\ t.reply = up[p].reply)
    BY <2>2, <2>4 DEF Leads
  <2>8. PageFits(item[p], t, a)
    BY <1>1, <1>7, <2>2, <2>4, <2>6, <2>7 DEF PageFits, ItemFits, Alone, Attached, CancelFits
  <2>9. t.next <= arrived'[t.session]
    <3>1. t.session \in Sessions /\ arrived'[t.session] \in Sizes
      BY <2>3, <2>7 DEF Uploaders, RemoteGoes, RemoteTyped
    <3>2. up[p].next <= arrived'[up[p].session]
      BY <1>1, <2>3, NextStays DEF Leads
    <3> QED BY <2>2, <2>4, <3>1, <3>2, BrowserUploadAssumption DEF Leads, Sizes
  <2>10. item' = [item EXCEPT ![p] = item[p]]
    BY <1>7 DEF BUInv, BrowserTyped, PagesTyped
  <2>11. asked' = [asked EXCEPT ![p] = a]
    BY <1>7, <2>5 DEF SetCancel
  <2> QED BY <1>1, <1>2, <1>7, <2>3, <2>4, <2>6, <2>7, <2>8, <2>9, <2>10, <2>11, PageStep
<1> QED BY <1>4, <1>5, <1>6, <1>7 DEF CancelItem

LEMMA CleanUpSafe == ASSUME BUInv, NEW p \in Pages, CleanUp(p) PROVE BUInv'
<1>1. /\ item[p] \in Items /\ up[p] \in Uploaders /\ asked[p] = NoCancel
      /\ PageFits(item[p], up[p], NoCancel) /\ item[p].state = "ACTIVE"
      /\ up[p].phase = "CANCELLED" /\ NoCancel \in Cancels /\ NoCancel.by = "nobody"
  BY OfPage DEF CleanUp, Cancels, NoCancel
<1>2. PICK j : j = [item[p] EXCEPT !.state = "CANCELLED"]
  OBVIOUS
<1>3. PICK t : t = [up[p] EXCEPT !.deleted = "uploader"]
  OBVIOUS
<1>4. /\ RemoteGoes /\ page' = page /\ stored' = NoRecord
      /\ item' = [item EXCEPT ![p] = j] /\ up' = [up EXCEPT ![p] = t]
      /\ asked' = [asked EXCEPT ![p] = NoCancel]
  BY <1>1, <1>2, <1>3, RemoteKept
  DEF CleanUp, Give, SetItem, SetUp, KeepPage, BUInv, BrowserTyped, PagesTyped
<1>5. /\ j \in Items /\ j.pc = item[p].pc /\ j.state = "CANCELLED" /\ j.attached = item[p].attached
      /\ j.recovery = item[p].recovery /\ j.found = item[p].found /\ j.known = item[p].known
      /\ j.reply = item[p].reply
  BY <1>1, <1>2 DEF Items
<1>6. /\ t \in Uploaders /\ t.deleted = "uploader" /\ t.pc = up[p].pc /\ t.outcome = up[p].outcome
      /\ t.cancel = up[p].cancel /\ t.phase = up[p].phase /\ t.session = up[p].session
      /\ t.next = up[p].next /\ t.reply = up[p].reply
  BY <1>1, <1>3 DEF Uploaders
<1>7. item[p].recovery = NoRecord
  BY <1>1 DEF PageFits, ItemFits
<1>8. PageFits(j, t, NoCancel)
  BY <1>1, <1>5, <1>6, <1>7 DEF PageFits, ItemFits, Alone, Attached, CancelFits
<1>9. t.next <= arrived'[t.session]
  BY <1>1, <1>4, <1>6, NextStays DEF Leads
<1> QED BY <1>1, <1>4, <1>5, <1>6, <1>8, <1>9, PageStep

-----------------------------------------------------------------------------
(* The steps of a cancellation. *)

\* It comes a step further, and nothing else of the page changes.
LEMMA CancelStep ==
    ASSUME BUInv, NEW p \in Pages, RemoteGoes, asked[p] # NoCancel,
           NEW pc \in {"refused", "confirmed", "delete"}, SetCancel(p, asked[p].by, pc),
           UNCHANGED <<stored, item, up, page>>,
           asked[p].by = "uploader" => (pc # "delete" /\ asked[p].pc # "delete")
    PROVE  BUInv'
<1>1. /\ item[p] \in Items /\ up[p] \in Uploaders /\ asked[p] \in Cancels
      /\ PageFits(item[p], up[p], asked[p]) /\ item[p].state # "NONE"
  BY OfPage
<1>2. PICK a : a = [by |-> asked[p].by, pc |-> pc]
  OBVIOUS
<1>3. a \in Cancels /\ a.by = asked[p].by /\ a.pc = pc
  BY <1>1, <1>2 DEF Cancels
<1>4. PageFits(item[p], up[p], a)
  BY <1>1, <1>3 DEF PageFits, ItemFits, Alone, Attached, CancelFits
<1>5. item' = [item EXCEPT ![p] = item[p]] /\ asked' = [asked EXCEPT ![p] = a]
  BY <1>2 DEF SetCancel, BUInv, BrowserTyped, PagesTyped
<1>6. UNCHANGED <<stored, up, page>>
  OBVIOUS
<1> QED BY <1>1, <1>3, <1>4, <1>5, <1>6, ItemStep

LEMMA NoCancelIsOne == NoCancel \in Cancels /\ NoCancel.by = "nobody" /\ NoCancel.pc = "none"
  BY DEF Cancels, NoCancel

LEMMA ServeCancelSafe == ASSUME BUInv, NEW p \in Pages, ServeCancel(p) PROVE BUInv'
<1>1. asked[p].pc = "asked" /\ asked[p] # NoCancel
  BY NoCancelIsOne DEF ServeCancel
<1>3. UNCHANGED <<stored, item, up, page>>
  BY DEF ServeCancel, KeepPage
<1>4. KeepRemote \/ Delete
  BY DEF ServeCancel
<1>5. RemoteGoes
  <2>1. Unbroken \/ Break
    BY DEF ServeCancel
  <2>2. CASE Delete
    <3>1. /\ grants' \in [opened : 0 .. MaxSessions, live : SUBSET Sessions, expired : SUBSET Sessions]
          /\ grants'.expired = grants.expired
      BY <2>2 DEF Delete, BUInv, BrowserTyped, RemoteTyped
    <3>2. arrived' = arrived /\ RemoteTyped'
      BY <2>2, <3>1 DEF Delete, BUInv, BrowserTyped, RemoteTyped
    <3>3. \A s \in Sessions : arrived[s] <= arrived'[s]
      BY <3>2, BrowserUploadAssumption DEF BUInv, BrowserTyped, RemoteTyped, Sizes
    <3>4. breaks' \in 0 .. MaxBreaks
      BY <2>1, BrowserUploadAssumption DEF BUInv, BrowserTyped, Unbroken, Break
    <3> QED BY <3>1, <3>2, <3>3, <3>4 DEF RemoteGoes
  <2> QED BY <1>4, <2>1, <2>2, RemoteKept
<1>6. SetCancel(p, asked[p].by, "refused") \/ SetCancel(p, asked[p].by, "confirmed")
  BY DEF ServeCancel
<1> QED BY <1>1, <1>3, <1>5, <1>6, CancelStep

LEMMA CancelRefusedSafe == ASSUME BUInv, NEW p \in Pages, CancelRefused(p) PROVE BUInv'
<1>1. /\ item[p] \in Items /\ up[p] \in Uploaders /\ asked[p] \in Cancels
      /\ PageFits(item[p], up[p], asked[p]) /\ item[p].state # "NONE"
      /\ asked[p].pc = "refused" /\ asked[p] # NoCancel
  BY OfPage, NoCancelIsOne DEF CancelRefused
<1>2. /\ RemoteGoes /\ UNCHANGED <<stored, page>> /\ asked' = [asked EXCEPT ![p] = NoCancel]
  BY RemoteKept DEF CancelRefused, KeepPage
<1>3. item[p].recovery = NoRecord
  BY <1>1 DEF PageFits, ItemFits
<1>4. asked[p].by \in {"uploader", "settle", "queue"}
  BY <1>1 DEF Cancels
<1>5. CASE asked[p].by = "uploader"
  <2>1. item[p].attached /\ up[p].outcome # "CANCELLED"
    BY <1>1, <1>5 DEF PageFits, Alone, CancelFits
  <2>2. CASE Give(p, "CANCELLED") /\ UNCHANGED up
    BY <1>1, <1>2, <1>3, <2>1, <2>2, NoCancelIsOne, GiveStep
  <2>3. CASE up[p].outcome = "none" /\ SetUp(p, Publish(up[p], "PAUSED_ERROR")) /\ UNCHANGED item
    <3>1. PICK t : t = Publish(up[p], "PAUSED_ERROR")
      OBVIOUS
    <3>2. Leads(up[p], t) /\ t.pc = up[p].pc
      BY <1>1, <3>1, PublishGoes DEF Phases
    <3>3. PageFits(item[p], t, asked[p])
      BY <1>1, <2>1, <3>2, GoesOn
    <3>4. t \in Uploaders /\ t.deleted = up[p].deleted /\ t.outcome = "none" /\ t.next <= arrived'[t.session]
      BY <1>2, <2>3, <3>2, NextStays DEF Leads
    <3>5. PageFits(item[p], t, NoCancel)
      BY <1>1, <1>3, <2>1, <3>3, <3>4, NoCancelIsOne DEF PageFits, ItemFits, Alone, Attached, CancelFits
    <3>6. item' = [item EXCEPT ![p] = item[p]]
      BY <2>3 DEF BUInv, BrowserTyped, PagesTyped
    <3>7. up' = [up EXCEPT ![p] = t] /\ page' = page /\ stored' = stored
      BY <1>2, <2>3, <3>1 DEF SetUp
    <3> QED BY <1>1, <1>2, <1>3, <2>1, <3>4, <3>5, <3>6, <3>7, NoCancelIsOne, PageStep
  <2>4. up[p].outcome = "none" \/ up[p].outcome # "none"
    OBVIOUS
  <2> QED BY <1>5, <2>2, <2>3, <2>4 DEF CancelRefused
<1>6. CASE asked[p].by = "settle"
  <2>1. PICK j : j = [item[p] EXCEPT !.pc = "rest", !.state = "FAILED", !.pending = FALSE]
    OBVIOUS
  <2>2. SetItem(p, j) /\ UNCHANGED up
    BY <1>6, <2>1 DEF CancelRefused
  <2>3. item[p].pc = "settle" /\ ~item[p].attached /\ item[p].found = NoRecord
    BY <1>1, <1>6 DEF PageFits, ItemFits, CancelFits
  <2>4. /\ j \in Items /\ j.pc = "rest" /\ j.state = "FAILED" /\ ~j.attached
        /\ j.recovery = NoRecord /\ j.found = NoRecord
    BY <1>1, <1>3, <2>1, <2>3 DEF Items
  <2>5. PageFits(j, up[p], NoCancel)
    BY <1>1, <2>3, <2>4, NoCancelIsOne DEF PageFits, ItemFits, Alone, Attached, CancelFits
  <2>6. item' = [item EXCEPT ![p] = j] /\ UNCHANGED <<stored, up, page>>
    BY <1>2, <2>2 DEF SetItem
  <2> QED BY <1>1, <1>2, <1>3, <2>3, <2>4, <2>5, <2>6, NoCancelIsOne, ItemStep
<1>7. CASE asked[p].by = "queue"
  <2>1. UNCHANGED <<item, up>>
    BY <1>7 DEF CancelRefused
  <2>2. PageFits(item[p], up[p], NoCancel)
    BY <1>1, <1>3, <1>7, NoCancelIsOne DEF PageFits, ItemFits, Alone, Attached, CancelFits
  <2>3. item' = [item EXCEPT ![p] = item[p]] /\ UNCHANGED <<stored, up, page>>
    BY <1>2, <2>1 DEF BUInv, BrowserTyped, PagesTyped
  <2> QED BY <1>1, <1>2, <2>2, <2>3, NoCancelIsOne, ItemStep
<1> QED BY <1>4, <1>5, <1>6, <1>7

LEMMA CancelConfirmedSafe == ASSUME BUInv, NEW p \in Pages, CancelConfirmed(p) PROVE BUInv'
<1>1. /\ item[p] \in Items /\ up[p] \in Uploaders /\ asked[p] \in Cancels
      /\ PageFits(item[p], up[p], asked[p]) /\ item[p].state # "NONE"
      /\ asked[p].pc = "confirmed" /\ asked[p] # NoCancel
  BY OfPage, NoCancelIsOne DEF CancelConfirmed
<1>2. RemoteGoes /\ UNCHANGED <<stored, page>>
  BY RemoteKept DEF CancelConfirmed, KeepPage
<1>3. item[p].recovery = NoRecord
  BY <1>1 DEF PageFits, ItemFits
<1>4. CASE asked[p].by = "uploader" /\ up[p].outcome # "none"
  <2>1. item[p].attached /\ up[p].outcome # "CANCELLED"
    BY <1>1, <1>4 DEF PageFits, Alone, CancelFits
  <2>2. asked' = [asked EXCEPT ![p] = NoCancel] /\ Give(p, "CANCELLED") /\ UNCHANGED <<stored, up, page>>
    BY <1>2, <1>4 DEF CancelConfirmed
  <2> QED BY <1>1, <1>2, <1>3, <2>1, <2>2, NoCancelIsOne, GiveStep
<1>5. CASE asked[p].by = "uploader" /\ up[p].outcome = "none"
  <2>1. PICK e : e = [up[p] EXCEPT !.outcome = "CANCELLED", !.current = FALSE]
    OBVIOUS
  <2>2. PICK t : t = Publish(e, "CANCELLED")
    OBVIOUS
  <2>3. PICK a : a = [by |-> "uploader", pc |-> "delete"]
    OBVIOUS
  <2>4. /\ up' = [up EXCEPT ![p] = t] /\ asked' = [asked EXCEPT ![p] = a]
        /\ item' = [item EXCEPT ![p] = item[p]] /\ stored' = stored /\ page' = page
    BY <1>2, <1>5, <2>1, <2>2, <2>3
    DEF CancelConfirmed, SetUp, SetCancel, BUInv, BrowserTyped, PagesTyped
  <2>5. a \in Cancels /\ a.by = "uploader" /\ a.pc = "delete"
    BY <2>3 DEF Cancels
  <2>6. /\ t \in Uploaders /\ t.outcome = "CANCELLED" /\ t.phase = "CANCELLED" /\ t.pc = up[p].pc
        /\ t.cancel = up[p].cancel /\ t.deleted = up[p].deleted /\ t.session = up[p].session
        /\ t.next = up[p].next /\ t.reply = up[p].reply
    BY <1>1, <2>1, <2>2 DEF Publish, Uploaders, Phases
  <2>7. item[p].attached /\ up[p].cancel
    BY <1>1, <1>5 DEF PageFits, Alone, CancelFits
  <2>8. PageFits(item[p], t, a)
    BY <1>1, <1>3, <1>5, <2>5, <2>6, <2>7 DEF PageFits, ItemFits, Alone, Attached, CancelFits
  <2>9. t.next <= arrived'[t.session]
    BY <1>1, <1>2, <2>6, NextStays DEF Leads
  <2> QED BY <1>1, <1>2, <2>4, <2>5, <2>6, <2>8, <2>9, PageStep
<1>6. CASE asked[p].by # "uploader"
  <2>1. SetCancel(p, asked[p].by, "delete") /\ UNCHANGED <<stored, item, up, page>>
    BY <1>2, <1>6 DEF CancelConfirmed
  <2> QED BY <1>1, <1>2, <1>6, <2>1, CancelStep
<1> QED BY <1>4, <1>5, <1>6

LEMMA CancelDeleteSafe == ASSUME BUInv, NEW p \in Pages, CancelDelete(p) PROVE BUInv'
<1>1. /\ item[p] \in Items /\ up[p] \in Uploaders /\ asked[p] \in Cancels
      /\ PageFits(item[p], up[p], asked[p]) /\ item[p].state # "NONE"
      /\ asked[p].pc = "delete" /\ asked[p] # NoCancel /\ up[p].pc # "put"
  BY OfPage, NoCancelIsOne DEF CancelDelete, WriteIsOver, AtUp
<1>2. RemoteGoes /\ page' = page /\ asked' = [asked EXCEPT ![p] = NoCancel]
  BY RemoteKept DEF CancelDelete, KeepPage
<1>3. item[p].recovery = NoRecord
  BY <1>1 DEF PageFits, ItemFits
<1>4. asked[p].by \in {"uploader", "settle", "queue"}
  BY <1>1 DEF Cancels
<1>5. PICK gone : gone = [item[p] EXCEPT !.pc = IF @ = "settle" THEN "rest" ELSE @, !.pending = FALSE]
  OBVIOUS
<1>6. /\ gone \in Items /\ gone.state = item[p].state /\ gone.attached = item[p].attached
      /\ gone.pc = (IF item[p].pc = "settle" THEN "rest" ELSE item[p].pc)
      /\ gone.recovery = NoRecord /\ gone.found = item[p].found /\ gone.known = item[p].known
      /\ gone.reply = item[p].reply
  BY <1>1, <1>3, <1>5 DEF Items
<1>7. CASE /\ stored' = NoRecord /\ SetItem(p, [gone EXCEPT !.state = "CANCELLED"])
           /\ SetUp(p, [up[p] EXCEPT !.deleted = asked[p].by])
  <2>1. PICK j : j = [gone EXCEPT !.state = "CANCELLED"]
    OBVIOUS
  <2>2. PICK t : t = [up[p] EXCEPT !.deleted = asked[p].by]
    OBVIOUS
  <2>3. /\ j \in Items /\ j.state = "CANCELLED" /\ j.attached = item[p].attached
        /\ j.pc = gone.pc /\ j.recovery = NoRecord /\ j.found = item[p].found
        /\ j.known = item[p].known /\ j.reply = item[p].reply
    BY <1>6, <2>1 DEF Items
  <2>4. /\ t \in Uploaders /\ t.deleted = asked[p].by /\ t.pc = up[p].pc /\ t.outcome = up[p].outcome
        /\ t.cancel = up[p].cancel /\ t.phase = up[p].phase /\ t.session = up[p].session
        /\ t.next = up[p].next /\ t.reply = up[p].reply
    BY <1>1, <1>4, <2>2 DEF Uploaders
  <2>5. PageFits(j, t, NoCancel)
    BY <1>1, <1>3, <1>4, <1>6, <2>3, <2>4, NoCancelIsOne
    DEF PageFits, ItemFits, Alone, Attached, CancelFits, Gone
  <2>6. t.next <= arrived'[t.session]
    BY <1>1, <1>2, <2>4, NextStays DEF Leads
  <2>7. item' = [item EXCEPT ![p] = j] /\ up' = [up EXCEPT ![p] = t]
    BY <1>7, <2>1, <2>2 DEF SetItem, SetUp
  <2>8. t.deleted # "nobody" /\ j.state # "NONE"
    BY <1>4, <2>3, <2>4
  <2> QED BY <1>1, <1>2, <1>7, <2>3, <2>4, <2>5, <2>6, <2>7, <2>8, NoCancelIsOne, PageStep
<1>8. CASE /\ UNCHANGED stored /\ SetItem(p, gone)
           /\ SetUp(p, IF asked[p].by = "settle" THEN [up[p] EXCEPT !.phase = "CANCELLED"] ELSE up[p])
  <2>1. PICK t : t = IF asked[p].by = "settle" THEN [up[p] EXCEPT !.phase = "CANCELLED"] ELSE up[p]
    OBVIOUS
  <2>2. /\ t \in Uploaders /\ t.deleted = up[p].deleted /\ t.pc = up[p].pc /\ t.outcome = up[p].outcome
        /\ t.cancel = up[p].cancel /\ t.session = up[p].session
        /\ t.next = up[p].next /\ t.reply = up[p].reply
        /\ t.phase = "CANCELLED" => asked[p].by = "settle" \/ up[p].phase = "CANCELLED"
    BY <1>1, <2>1 DEF Uploaders, Phases
  <2>3. asked[p].by = "settle" => item[p].pc = "settle" /\ item[p].known /\ ~item[p].attached
                                  /\ item[p].state \in {"ACTIVE", "CANCELLED"}
    BY <1>1 DEF PageFits, ItemFits, CancelFits
  <2>4. PageFits(gone, t, NoCancel)
    BY <1>1, <1>3, <1>4, <1>6, <2>2, <2>3, NoCancelIsOne
    DEF PageFits, ItemFits, Alone, Attached, CancelFits
  <2>5. t.next <= arrived'[t.session]
    BY <1>1, <1>2, <2>2, NextStays DEF Leads
  <2>6. item' = [item EXCEPT ![p] = gone] /\ up' = [up EXCEPT ![p] = t] /\ stored' = stored
    BY <1>8, <2>1 DEF SetItem, SetUp
  <2> QED BY <1>1, <1>2, <1>3, <1>6, <2>2, <2>4, <2>5, <2>6, NoCancelIsOne, PageStep
<1> QED BY <1>5, <1>7, <1>8 DEF CancelDelete

-----------------------------------------------------------------------------
(* The steps of the browser and of time. *)

LEMMA NoItemIsOne ==
    /\ NoItem \in Items /\ NoItem.state = "NONE" /\ NoItem.pc = "rest" /\ ~NoItem.attached
    /\ NoItem.recovery = NoRecord /\ NoItem.found = NoRecord
  BY DEF NoItem, Items, Answered

LEMMA NoItemFits == PageFits(NoItem, NoUploader, NoCancel)
  BY NoItemIsOne, NoUploaderIsOne, NoCancelIsOne
  DEF PageFits, ItemFits, Alone, Attached, CancelFits, Gone

\* The page that opens has what the store had.
LEMMA OpenedPageIs ==
    ASSUME BUInv, NEW q \in Pages
    PROVE  /\ OpenedPage(q) \in Items /\ ~OpenedPage(q).attached /\ OpenedPage(q).found = NoRecord
           /\ OpenedPage(q).recovery = List /\ (OpenedPage(q).state = "NONE" <=> List = NoRecord)
           /\ PageFits(OpenedPage(q), NoUploader, NoCancel)
           /\ Arrived(List)
<1>1. PICK i : i = OpenedPage(q)
  OBVIOUS
<1>2. List \in Records \union {NoRecord} /\ List \in {stored, NoRecord}
  BY ListIs
<1>3. Arrived(List)
  BY <1>2 DEF Arrived, BUInv, NoneIsAhead
<1>4. CASE List = NoRecord
  <2>1. i = NoItem
    BY <1>1, <1>4, NoItemIsOne DEF OpenedPage, NoItem
  <2> QED BY <1>1, <1>3, <1>4, <2>1, NoItemIsOne, NoItemFits
<1>5. CASE List # NoRecord
  <2>1. /\ i \in Items /\ i.state = "QUEUED" /\ i.recovery = List /\ i.pc = "rest" /\ ~i.attached
        /\ i.found = NoRecord
    BY <1>1, <1>2, <1>5, NoItemIsOne DEF OpenedPage, Items
  <2>2. PageFits(i, NoUploader, NoCancel)
    BY <2>1, NoUploaderIsOne, NoCancelIsOne
    DEF PageFits, ItemFits, Alone, Attached, CancelFits, Gone
  <2> QED BY <1>1, <1>3, <1>5, <2>1, <2>2
<1> QED BY <1>4, <1>5

LEMMA NavigateSafe == ASSUME BUInv, Navigate(page) PROVE BUInv'
<1>1. PICK p : p = page
  OBVIOUS
<1>2. PICK n : n = p + 1
  OBVIOUS
<1>3. p \in Pages /\ n \in Pages /\ n # p /\ n > page /\ page' = n
  BY <1>1, <1>2, BrowserUploadAssumption DEF Navigate, BUInv, BrowserTyped, Pages
<1>4. item[n].state = "NONE" /\ item[n] = NoItem /\ up[n] = NoUploader /\ asked[n] = NoCancel
  BY <1>3 DEF BUInv, PagesFit, PageFits, ItemFits
<1>5. PICK i : i = OpenedPage(n)
  OBVIOUS
<1>6. /\ i \in Items /\ ~i.attached /\ i.found = NoRecord /\ i.recovery = List
      /\ (i.state = "NONE" <=> List = NoRecord) /\ PageFits(i, NoUploader, NoCancel)
  BY <1>3, <1>5, OpenedPageIs
<1>7. /\ stored' = List /\ item' = [item EXCEPT ![n] = i] /\ asked' = asked /\ Unbroken
  BY <1>1, <1>2, <1>5 DEF Navigate
<1>8. /\ item[p] \in Items /\ up[p] \in Uploaders /\ asked[p] \in Cancels
      /\ PageFits(item[p], up[p], asked[p])
  BY <1>3, OfPage
<1>9. /\ RemoteGoes
      /\ \E t : /\ up' = [up EXCEPT ![p] = t] /\ Leads(up[p], t) /\ PageFits(item[p], t, asked[p])
  <2>1. CASE item[p].attached
    <3>1. PICK r : r = [up[p] EXCEPT !.disposed = TRUE, !.pause = TRUE]
      OBVIOUS
    <3>2. Leads(up[p], r) /\ r.pc = up[p].pc /\ r.pause /\ r \in Uploaders
      BY <1>8, <3>1 DEF Leads, Uploaders
    <3>3. Interrupt(p, r)
      BY <1>1, <2>1, <3>1 DEF Navigate
    <3>4. RemoteGoes
      BY <1>3, <1>7, <3>2, <3>3, InterruptGoes
    <3>5. PICK t : up' = [up EXCEPT ![p] = t] /\ Leads(r, t) /\ (t.pc = "rest" \/ t.pc = r.pc)
      BY <1>3, <1>7, <3>2, <3>3, InterruptGoes
    <3>6. Leads(up[p], t) /\ PageFits(item[p], t, asked[p])
      BY <1>8, <2>1, <3>2, <3>5, GoesFar, GoesOn
    <3> QED BY <3>4, <3>5, <3>6
  <2>2. CASE ~item[p].attached
    <3>1. RemoteGoes /\ up' = up
      BY <1>1, <1>7, <2>2, RemoteKept DEF Navigate
    <3>2. up' = [up EXCEPT ![p] = up[p]] /\ Leads(up[p], up[p])
      BY <1>8, <3>1 DEF Leads, BUInv, BrowserTyped, PagesTyped
    <3> QED BY <1>8, <3>1, <3>2
  <2> QED BY <2>1, <2>2
<1>10. PICK t : up' = [up EXCEPT ![p] = t] /\ Leads(up[p], t) /\ PageFits(item[p], t, asked[p])
  BY <1>9
<1>11. /\ t \in Uploaders /\ t.deleted = up[p].deleted /\ t.next <= arrived'[t.session]
  BY <1>3, <1>9, <1>10, NextStays DEF Leads
<1>12. /\ item'[n] = i /\ up'[n] = NoUploader /\ item'[p] = item[p] /\ up'[p] = t
       /\ \A q \in Pages \ {p, n} : item'[q] = item[q] /\ up'[q] = up[q]
       /\ \A q \in Pages : asked'[q] = asked[q]
  BY <1>3, <1>4, <1>7, <1>10 DEF BUInv, BrowserTyped, PagesTyped
<1>13. List \in Records \union {NoRecord} /\ List \in {stored, NoRecord}
       /\ (List # stored => grants.expired # {})
  BY ListIs
<1>14. BrowserTyped'
  BY <1>3, <1>6, <1>7, <1>9, <1>10, <1>11, <1>13 DEF BUInv, BrowserTyped, PagesTyped, RemoteGoes
<1>15. PagesFit'
  <2>1. \A q \in Pages : PageFits(item[q], up[q], asked[q]) /\ (q > page => item[q].state = "NONE")
    BY DEF BUInv, PagesFit
  <2>2. \A q \in Pages : PageFits(item'[q], up'[q], asked'[q])
    BY <1>4, <1>6, <1>10, <1>12, <2>1
  <2>3. \A q \in Pages : q > n => q > page /\ q # p /\ q # n
    BY <1>1, <1>2, <1>3 DEF Pages, BUInv, BrowserTyped
  <2> QED BY <1>3, <1>12, <2>1, <2>2, <2>3 DEF PagesFit
<1>16. NoneIsAhead'
  <2>1. \A rec \in Records : rec.next <= arrived[rec.session] => rec.next <= arrived'[rec.session]
    BY <1>9, BrowserUploadAssumption DEF Records, RemoteGoes, BUInv, BrowserTyped, RemoteTyped, Sizes
  <2>2. \A q \in Pages : up[q].next <= arrived'[up[q].session]
    BY <1>9, OfPage, NextStays DEF Leads
  <2>3. List # NoRecord => List.next <= arrived'[List.session]
    BY <1>3, <1>13, <2>1, OpenedPageIs DEF Arrived
  <2>4. \A q \in Pages : /\ item[q].recovery \in Records \union {NoRecord}
                         /\ item[q].found \in Records \union {NoRecord}
    BY DEF BUInv, BrowserTyped, PagesTyped, Items
  <2>5. \A q \in Pages :
          /\ item[q].recovery # NoRecord =>
               item[q].recovery.next <= arrived'[item[q].recovery.session]
          /\ item[q].found # NoRecord => item[q].found.next <= arrived'[item[q].found.session]
    BY <2>1, <2>4 DEF BUInv, NoneIsAhead, Arrived
  <2>6. \A q \in Pages : up'[q].next <= arrived'[up'[q].session]
    <3>1. NoUploader.next <= arrived'[NoUploader.session]
      BY <1>3, <1>4, <2>2
    <3> QED BY <1>11, <1>12, <2>2, <3>1
  <2> QED BY <1>6, <1>7, <1>12, <2>3, <2>5, <2>6 DEF NoneIsAhead, Arrived
<1>17. RecordStays'
  <2>1. ASSUME \A q \in Pages : up'[q].deleted = "nobody", grants'.expired = {}, stored' = NoRecord,
               NEW q \in Pages, item'[q].attached \/ item'[q].recovery # NoRecord
        PROVE  FALSE
    <3>1. \A x \in Pages : up[x].deleted = "nobody"
      BY <1>3, <1>4, <1>11, <1>12, <2>1, NoUploaderIsOne
    <3>2. grants.expired = {} /\ stored = NoRecord
      BY <1>7, <1>9, <1>13, <2>1 DEF RemoteGoes
    <3>3. q # n
      BY <1>6, <1>7, <1>12, <2>1
    <3>4. item[q].attached \/ item[q].recovery # NoRecord
      BY <1>12, <2>1, <3>3
    <3> QED BY <3>1, <3>2, <3>4 DEF BUInv, RecordStays
  <2> QED BY <2>1 DEF RecordStays
<1>18. NothingLeftBehind'
  <2>1. ASSUME NEW q \in Pages, up'[q].deleted \in Gone,
               \A x \in Pages \ {q} : item'[x].state = "NONE"
        PROVE  stored' = NoRecord
    <3>1. q # n
      BY <1>12, <2>1, NoUploaderIsOne DEF Gone
    <3>2. up[q].deleted \in Gone
      BY <1>11, <1>12, <2>1, <3>1
    <3>3. i.state = "NONE"
      BY <1>3, <1>12, <2>1, <3>1
    <3> QED BY <1>6, <1>7, <3>3
  <2> QED BY <2>1 DEF NothingLeftBehind, Gone
<1> QED BY <1>14, <1>15, <1>16, <1>17, <1>18 DEF BUInv

LEMMA ReloadSafe == ASSUME BUInv, Reload(page) PROVE BUInv'
<1>1. PICK n : n = page + 1
  OBVIOUS
<1>2. n \in Pages /\ page' = n /\ n > page
  BY <1>1, BrowserUploadAssumption DEF Reload, BUInv, BrowserTyped, Pages
<1>3. /\ OpenedPage(n) \in Items /\ ~OpenedPage(n).attached /\ OpenedPage(n).found = NoRecord
      /\ OpenedPage(n).recovery = List
      /\ PageFits(OpenedPage(n), NoUploader, NoCancel) /\ Arrived(List)
  BY <1>2, OpenedPageIs
<1>4. /\ stored' = List /\ RemoteGoes /\ arrived' = arrived
      /\ item' = [q \in Pages |-> IF q = n THEN OpenedPage(q) ELSE NoItem]
      /\ up' = [q \in Pages |-> NoUploader] /\ asked' = [q \in Pages |-> NoCancel]
  BY <1>1, RemoteKept DEF Reload, KeepRemote
<1>5. List \in Records \union {NoRecord}
  BY ListIs
<1>6. BrowserTyped'
  BY <1>2, <1>3, <1>4, <1>5, NoItemIsOne, NoUploaderIsOne, NoCancelIsOne
  DEF BUInv, BrowserTyped, PagesTyped, RemoteGoes
<1>7. PagesFit'
  <2>1. \A q \in Pages : q > n => q # n
    BY <1>2 DEF Pages
  <2> QED BY <1>2, <1>3, <1>4, <2>1, NoItemIsOne, NoItemFits DEF PagesFit
<1>8. NoneIsAhead'
  <2>1. NoUploader.next <= arrived[NoUploader.session]
    <3>1. NoUploader.next = 0 /\ NoUploader.session = 1
      BY DEF NoUploader
    <3> QED BY <3>1, Numbers, BrowserUploadAssumption DEF BUInv, BrowserTyped, RemoteTyped, Sizes
  <2> QED BY <1>3, <1>4, <2>1, NoItemIsOne DEF NoneIsAhead, Arrived
<1>9. RecordStays'
  BY <1>3, <1>4, NoItemIsOne DEF RecordStays
<1>10. NothingLeftBehind'
  BY <1>4, NoUploaderIsOne DEF NothingLeftBehind
<1> QED BY <1>6, <1>7, <1>8, <1>9, <1>10 DEF BUInv

LEMMA ExpireSafe == ASSUME BUInv, Expire PROVE BUInv'
<1>1. PICK s \in 1 .. grants.opened : grants' = [grants EXCEPT !.expired = @ \union {s}]
  BY DEF Expire
<1>2. s \in Sessions
  BY BrowserUploadAssumption DEF BUInv, BrowserTyped, RemoteTyped, Sessions
<1>3. /\ grants' \in [opened : 0 .. MaxSessions, live : SUBSET Sessions, expired : SUBSET Sessions]
      /\ grants'.expired # {}
  BY <1>1, <1>2 DEF BUInv, BrowserTyped, RemoteTyped
<1>4. UNCHANGED <<sent, arrived, whole, stored, page, item, up, asked>>
  BY DEF Expire
<1>5. breaks' \in 0 .. MaxBreaks
  BY BrowserUploadAssumption DEF Expire, Break, BUInv, BrowserTyped
<1>6. BrowserTyped'
  BY <1>3, <1>4, <1>5 DEF BUInv, BrowserTyped, RemoteTyped, PagesTyped
<1>7. PagesFit' /\ NoneIsAhead' /\ NothingLeftBehind'
  BY <1>4 DEF BUInv, PagesFit, NoneIsAhead, Arrived, NothingLeftBehind
<1>8. RecordStays'
  BY <1>3 DEF RecordStays
<1> QED BY <1>6, <1>7, <1>8 DEF BUInv

-----------------------------------------------------------------------------
LEMMA BrowserStarts == BUInit => BUInv
<1> SUFFICES ASSUME BUInit PROVE BUInv
  OBVIOUS
<1>1. PICK i : i = [NoItem EXCEPT !.state = "QUEUED"]
  OBVIOUS
<1>2. /\ i \in Items /\ i.state = "QUEUED" /\ i.pc = "rest" /\ ~i.attached
      /\ i.recovery = NoRecord /\ i.found = NoRecord
  BY <1>1, NoItemIsOne DEF Items
<1>3. PageFits(i, NoUploader, NoCancel)
  BY <1>2, NoUploaderIsOne, NoCancelIsOne
  DEF PageFits, ItemFits, Alone, Attached, CancelFits, Gone
<1>4. item = [p \in Pages |-> IF p = 1 THEN i ELSE NoItem]
  BY <1>1 DEF BUInit
<1>5. BrowserTyped
  <2>1. 1 \in Pages /\ MaxBreaks \in 0 .. MaxBreaks /\ 0 \in 0 .. MaxSessions
    BY BrowserUploadAssumption DEF Pages
  <2> QED BY <1>2, <1>4, <2>1, Numbers, NoItemIsOne, NoUploaderIsOne, NoCancelIsOne
          DEF BUInit, BrowserTyped, RemoteTyped, PagesTyped
<1>6. PagesFit
  <2>1. \A p \in Pages : p > 1 => p # 1
    BY DEF Pages
  <2> QED BY <1>3, <1>4, <2>1, NoItemIsOne, NoItemFits DEF BUInit, PagesFit
<1>7. NoneIsAhead
  <2>1. NoUploader.next = 0 /\ NoUploader.session = 1
    BY DEF NoUploader
  <2> QED BY <1>2, <1>4, <2>1, Numbers, NoItemIsOne DEF BUInit, NoneIsAhead, Arrived
<1>8. RecordStays /\ NothingLeftBehind
  BY <1>2, <1>4, NoItemIsOne, NoUploaderIsOne DEF BUInit, RecordStays, NothingLeftBehind
<1> QED BY <1>5, <1>6, <1>7, <1>8 DEF BUInv

LEMMA BrowserSteps == BUInv /\ [BUNext]_buVars => BUInv'
<1> SUFFICES ASSUME BUInv, [BUNext]_buVars PROVE BUInv'
  OBVIOUS
<1>1. CASE UNCHANGED buVars
  BY <1>1 DEF buVars, BUInv, BrowserTyped, RemoteTyped, PagesTyped, PagesFit, NoneIsAhead, Arrived,
              RecordStays, NothingLeftBehind
<1>2. CASE Expire
  BY <1>2, ExpireSafe
<1>3. page \in Pages
  BY DEF BUInv, BrowserTyped
<1>4. CASE OfUser(page)
  BY <1>3, <1>4, PauseSafe, ResumeSafe, RetrySafe, CancelItemSafe, CleanUpSafe, NavigateSafe,
     ReloadSafe DEF OfUser
<1>5. ASSUME NEW p \in Pages, OfUploader(p) PROVE BUInv'
  BY <1>5, UploadChunkSafe, QueryStatusSafe, RenewSafe, RenewAnsweredSafe, CompleteSafe,
     CompleteAnsweredSafe, WakeSafe, PutDoneSafe, DeleteDoneSafe DEF OfUploader
<1>6. ASSUME NEW p \in Pages, OfQueue(p) PROVE BUInv'
  BY <1>6, RunItemSafe, ProvisionSafe, ProvisionedSafe, StoreRecordSafe, SettleItemSafe,
     ResumeRunSafe, ServeCancelSafe, CancelRefusedSafe, CancelConfirmedSafe, CancelDeleteSafe
  DEF OfQueue
<1> QED BY <1>1, <1>2, <1>4, <1>5, <1>6 DEF BUNext

LEMMA BrowserInvariant == BUSpec => []BUInv
  BY BrowserStarts, BrowserSteps, PTL DEF BUSpec

\* The variables of BrowserUpload have the types of their declarations.
THEOREM BrowserTypes == BUSpec => []TypeOKBrowserUpload
<1>1. BUInv => TypeOKBrowserUpload
  BY DEF BUInv, BrowserTyped, RemoteTyped, TypeOKBrowserUpload, Records
<1> QED BY <1>1, BrowserInvariant, PTL

\* ResumableWhileUnfinished: while an upload has its uploader, the control plane waits
\* for the file, no session expired and nothing was cancelled or deleted, the browser
\* has its record; and no record is ever ahead of the bytes Drive holds.
THEOREM UploadsResume == BUSpec => []ResumableWhileUnfinished
<1>1. BUInv => ResumableWhileUnfinished
  BY DEF BUInv, RecordStays, NoneIsAhead, Arrived, ResumableWhileUnfinished
<1> QED BY <1>1, BrowserInvariant, PTL

\* NothingLeftBehind: once a cancellation or a finished upload deleted the record, no
\* write that was on its way brings it back, unless another page is at the same upload.
THEOREM DeletedStaysDeleted == BUSpec => []NothingLeftBehind
<1>1. BUInv => NothingLeftBehind
  BY DEF BUInv
<1> QED BY <1>1, BrowserInvariant, PTL
=============================================================================
