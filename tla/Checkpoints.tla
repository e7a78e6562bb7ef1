---------------------------- MODULE Checkpoints ----------------------------
(***************************************************************************)
(* CheckpointPublisher (src/ytb_vps_v2/application/checkpoints.py): how a  *)
(* process copies the verified input, the valid artifacts and a snapshot   *)
(* of the database into the additive object store, publishes the manifest  *)
(* last and records the checkpoint in the database.                        *)
(*                                                                         *)
(* A content stands for its digest.  A stored object or workspace file is  *)
(* the content it was written with and whether it still has it; the store  *)
(* never replaces one (LocalAdditiveObjectStore, LocalArtifactWriter: the  *)
(* module DurableFile has their steps).  Each object put, each             *)
(* transaction and each reading pass over the store is an action.          *)
(***************************************************************************)
EXTENDS WorkState

CONSTANTS
    Publishers,  \* processes that may publish
    Workspaces,  \* workspace roots
    Times        \* values of the timestamp `at`

ASSUME PublishersAssumption == None \notin Publishers

VARIABLES
    files,   \* for each workspace and artifact name the file at its path, or None
    remote,  \* the object store: the objects by key
    pub      \* for each publisher the publish() call it is in

objects == <<files, remote>>

\* A file or object nobody damaged.
Whole(content) == [content |-> content, whole |-> TRUE]
Has(w, n, content) == files[w][n] = Whole(content)
Stored(key, content) == key \in DOMAIN remote /\ remote[key] = Whole(content)

\* The keys of a checkpoint: prefix / input, workspace, state and manifest.
InputKey(i) == <<i, "input", None>>
ArtifactKey(i, n) == <<i, "workspace", n>>
StateKey(i) == <<i, "state", None>>
ManifestKey(i) == <<i, "manifest", None>>

\* What the snapshot holds: records are told by their ids, which never change
\* their meaning.
StateSnapshot == [unit |-> unit, artifacts |-> artifacts, failures |-> failures,
                  recorded |-> {rec.id : rec \in records}]

\* The digests of some artifacts, None for the others.
Rows(names) == [n \in Names |-> IF n \in names THEN artifacts[n].digest ELSE None]

NotPublishing == [step |-> "idle"]

-----------------------------------------------------------------------------
\* A put: a file that has the expected content goes to a free key; a key that
\* has that very content already is as good.
CanPutObject(key, content) == key \notin DOMAIN remote \/ Stored(key, content)
PutObject(key, content) ==
    remote' = [k \in DOMAIN remote \union {key} |->
                 IF k = key THEN Whole(content) ELSE remote[k]]

\* The artifacts a manifest lists.
Listed(manifest) == {n \in Names : manifest.artifacts[n] # None}

\* Every object a manifest names is in the store with its digest.
ObjectsVerify(i, manifest) ==
    /\ Stored(StateKey(i), manifest.state)
    /\ Stored(InputKey(i), manifest.input)
    /\ \A n \in Listed(manifest) : Stored(ArtifactKey(i, n), manifest.artifacts[n])

\* The check _completed and _verify_checkpoint_record make of a recorded
\* checkpoint: its manifest, then everything the manifest names.
RecordVerifies(rec) ==
    /\ Stored(ManifestKey(rec.id), rec.evidence)
    /\ rec.evidence.id = rec.id
    /\ ObjectsVerify(rec.id, rec.evidence)

-----------------------------------------------------------------------------
Step(p, step) == pub[p].step = step
Go(p, step) == pub' = [pub EXCEPT ![p].step = step]

\* publish() is called with an id, a workspace and the time of the run.
Publish(p, i, w, at) ==
    pub' = [pub EXCEPT ![p] = [step |-> "completed", id |-> i, ws |-> w, at |-> at]]

\* A checkpoint recorded before is verified again and taken as it is.
Completed(p) ==
    /\ Step(p, "completed")
    /\ LET found == RecordsOf(pub[p].id) IN
       Go(p, IF found = {} THEN "collect"
             ELSE IF \A rec \in found : RecordVerifies(rec) THEN "done" ELSE "error")
    /\ UNCHANGED <<store, objects>>

\* SLIP (breaks RecordedIsRestorable): the side artifacts are forgotten.
CollectDocuments(p) ==
    /\ Step(p, "collect")
    /\ LET rows == Rows({n \in valid_artifacts : n[2] = "document"}) IN
       IF DurableInput /\ \A n \in valid_artifacts : Has(pub[p].ws, n, artifacts[n].digest)
       THEN pub' = [pub EXCEPT ![p] = [step |-> "snapshot", id |-> @.id, ws |-> @.ws,
                                       at |-> @.at, rows |-> rows]]
       ELSE Go(p, "error")
    /\ UNCHANGED <<store, objects>>

\* verified_input and valid_artifacts are read and every file is digested.
Collect(p) ==
    /\ Step(p, "collect")
    /\ LET rows == Rows(valid_artifacts) IN
       IF DurableInput /\ \A n \in valid_artifacts : Has(pub[p].ws, n, rows[n])
       THEN pub' = [pub EXCEPT ![p] = [step |-> "snapshot", id |-> @.id, ws |-> @.ws,
                                       at |-> @.at, rows |-> rows]]
       ELSE Go(p, "error")
    /\ UNCHANGED <<store, objects>>

\* create_snapshot, and the manifest of what was collected and snapshotted.
Snapshot(p) ==
    /\ Step(p, "snapshot")
    /\ pub' = [pub EXCEPT ![p] =
                 [step |-> "put", id |-> @.id, ws |-> @.ws,
                  todo |-> {InputKey(@.id), StateKey(@.id)}
                             \union {ArtifactKey(@.id, n) : n \in {x \in Names : @.rows[x] # None}},
                  manifest |-> [id |-> @.id, input |-> input, state |-> StateSnapshot,
                                artifacts |-> @.rows, at |-> @.at]]]
    /\ UNCHANGED <<store, objects>>

\* The objects go up one by one: the input, the artifacts in a fixed order, the
\* snapshot last.
Before(m, n) ==
    Owner(m) < Owner(n) \/ (Owner(m) = Owner(n) /\ m[2] = "document" /\ n[2] = "side")
NextKey(p, key) ==
    /\ key \in pub[p].todo
    /\ key[2] # "input" => InputKey(pub[p].id) \notin pub[p].todo
    /\ key[2] = "workspace" =>
          \A k \in pub[p].todo : k[2] = "workspace" /\ k # key => Before(key[3], k[3])
    /\ key[2] = "state" => pub[p].todo = {key}

ContentOf(p, key) ==
    CASE key[2] = "input" -> pub[p].manifest.input
      [] key[2] = "state" -> pub[p].manifest.state
      [] key[2] = "workspace" -> pub[p].manifest.artifacts[key[3]]

SourceIsThere(p, key) ==
    key[2] = "workspace" => Has(pub[p].ws, key[3], ContentOf(p, key))

\* SLIP (breaks ManifestIsComplete): the manifest follows whatever was put.
PutOrSkip(p) ==
    /\ Step(p, "put")
    /\ \E key \in pub[p].todo :
         /\ NextKey(p, key)
         /\ IF SourceIsThere(p, key) /\ CanPutObject(key, ContentOf(p, key))
            THEN PutObject(key, ContentOf(p, key)) ELSE UNCHANGED remote
         /\ pub' = [pub EXCEPT ![p].todo = @ \ {key},
                               ![p].step = IF pub[p].todo = {key} THEN "manifest"
                                           ELSE "put"]
    /\ UNCHANGED <<store, files>>

\* _put_exact of a data object: a file that changed and a key that is taken by
\* something else raise.
Put(p) ==
    /\ Step(p, "put")
    /\ \E key \in pub[p].todo :
         /\ NextKey(p, key)
         /\ IF SourceIsThere(p, key) /\ CanPutObject(key, ContentOf(p, key))
            THEN /\ PutObject(key, ContentOf(p, key))
                 /\ pub' = [pub EXCEPT ![p].todo = @ \ {key},
                                       ![p].step = IF pub[p].todo = {key} THEN "manifest"
                                                   ELSE "put"]
            ELSE Go(p, "error") /\ UNCHANGED remote
    /\ UNCHANGED <<store, files>>

\* The manifest goes last.  One that is there already, and readable, is adopted
\* when it differs in created_at only.
PutManifest(p) ==
    /\ Step(p, "manifest")
    /\ LET key == ManifestKey(pub[p].id)
           there == key \in DOMAIN remote
       IN
       \/ /\ CanPutObject(key, pub[p].manifest)
          /\ PutObject(key, pub[p].manifest)
          /\ Go(p, "record")
       \/ /\ there /\ ~Stored(key, pub[p].manifest)
          /\ IF remote[key].whole
                /\ [remote[key].content EXCEPT !.at = pub[p].manifest.at] = pub[p].manifest
             THEN pub' = [pub EXCEPT ![p].manifest = remote[key].content,
                                     ![p].step = "record"]
             ELSE Go(p, "error")
          /\ UNCHANGED remote
    /\ UNCHANGED <<store, files>>

\* record_checkpoint, the last step of publish().
Record(p) ==
    /\ Step(p, "record")
    /\ IF CanRecord(pub[p].id, pub[p].manifest)
       THEN record_checkpoint(pub[p].id, pub[p].manifest) /\ Go(p, "done")
       ELSE Go(p, "error") /\ UNCHANGED store
    /\ UNCHANGED objects

\* The object store fails a put: nothing is written and publish() raises.  A put
\* of the manifest that fails looks for a manifest that is there already.
StoreFails(p) ==
    /\ pub[p].step \in {"put", "manifest"}
    /\ pub[p].step = "manifest" => ManifestKey(pub[p].id) \notin DOMAIN remote
    /\ Go(p, "error")
    /\ UNCHANGED <<store, objects>>

PublishStep(p) ==
    Completed(p) \/ Collect(p) \/ Snapshot(p) \/ Put(p) \/ PutManifest(p) \/ Record(p)

-----------------------------------------------------------------------------
\* An object that was put with this content, be it damaged since.
WasPut(key, content) == key \in DOMAIN remote /\ remote[key].content = content

\* A manifest in the store is the promise that everything it names is there
\* (or was, before somebody damaged it): it is put last, also by a process that
\* takes over from one that died, whose snapshot may be another.
ManifestIsComplete ==
    \A key \in DOMAIN remote : key[2] = "manifest" =>
        LET i == key[1]
            m == remote[key].content
        IN /\ WasPut(StateKey(i), m.state)
           /\ WasPut(InputKey(i), m.input)
           /\ \A n \in Listed(m) : WasPut(ArtifactKey(i, n), m.artifacts[n])

\* A recorded checkpoint can be restored: the manifest lists exactly the
\* artifacts that are valid in its snapshot (inspect_staged_state demands it).
RecordedIsRestorable ==
    \A rec \in records : \A n \in Names :
        LET row == rec.evidence.state.artifacts[n] IN
        rec.evidence.artifacts[n] = IF row.row = "valid" THEN row.digest ELSE None
=============================================================================
