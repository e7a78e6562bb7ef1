------------------------------ MODULE Restore ------------------------------
(***************************************************************************)
(* CheckpointRestorer.restore (src/ytb_vps_v2/application/restore.py) with *)
(* its workspace (adapters/sqlite/restore.py, filesystem/integrity.py): a  *)
(* checkpoint is fetched into a staging directory beside the target,       *)
(* migrated, inspected, completed, verified once more, and renamed to the  *)
(* target, which must not exist.  Several calls may aim at one target; any *)
(* of them may fail or die anywhere, objects of the store and files being  *)
(* staged may be damaged.  A staging directory is named by its call.       *)
(*                                                                         *)
(* One file is materialized in one step: DurableFile is about that step.   *)
(* Directories keep their identity here, so the checks against a directory *)
(* swapped under a call are left out, and so are power failures.           *)
(***************************************************************************)
EXTENDS Integers

CONSTANTS
    Restorers,       \* calls of restore with one target
    Files,           \* relative paths of artifacts
    Nobody,          \* no directory
    MaxMishaps       \* bound: failing system calls, deaths and damages

ASSUME RestoreAssumption ==
    /\ Nobody \notin Restorers /\ {"manifest", "state", "input"} \cap Files = {}
    /\ MaxMishaps \in Nat

Parts == {"state", "input"} \union Files      \* what a restored directory holds
Objects == {"manifest"} \union Parts          \* what the store holds

VARIABLES
    ckpt,      \* the checkpoint: what its manifest and its snapshot say
    object,    \* the store: each object is "whole", "damaged" or "gone"
    target,    \* the call whose directory has the target's name, or Nobody
    staged,    \* the calls whose directory has its staging name
    aside,     \* the calls whose directory was moved to a quarantine name
    tree,      \* for each call what its directory holds, part by part
    rst,       \* for each call [pc, layout, migrated]
    mishaps    \* what is left of MaxMishaps

rsVars == <<ckpt, object, target, staged, aside, tree, rst, mishaps>>

\* What inspect_staged_state compares: the manifest against the trusted digest,
\* its keys, the schema, the job and the input of the snapshot, and its valid
\* artifact rows against the objects listed, of which some may differ in digest.
Sound == [trusted |-> TRUE, placed |-> TRUE, schema |-> 2, sameJob |-> TRUE,
          listed |-> Files, rows |-> Files, differ |-> {}]
Checkpoints ==
    {Sound, [Sound EXCEPT !.schema = 1], [Sound EXCEPT !.schema = 3],
     [Sound EXCEPT !.trusted = FALSE], [Sound EXCEPT !.placed = FALSE],
     [Sound EXCEPT !.sameJob = FALSE]}
    \union {[Sound EXCEPT !.listed = Files \ {f}] : f \in Files}
    \union {[Sound EXCEPT !.rows = Files \ {f}] : f \in Files}
    \union {[Sound EXCEPT !.differ = {f}] : f \in Files}

NotCalled == [pc |-> "idle", layout |-> {}, migrated |-> FALSE]
NoTree == [p \in Parts |-> "absent"]

RSInit ==
    /\ ckpt \in Checkpoints
    /\ object = [o \in Objects |-> "whole"]
    /\ target = Nobody
    /\ staged = {}
    /\ aside = {}
    /\ tree = [r \in Restorers |-> NoTree]
    /\ rst = [r \in Restorers |-> NotCalled]
    /\ mishaps = MaxMishaps

-----------------------------------------------------------------------------
RAt(r, pc) == rst[r].pc = pc
RGoto(r, pc) == rst' = [rst EXCEPT ![r].pc = pc]
Mishap == mishaps > 0 /\ mishaps' = mishaps - 1
\* An exception; from mkdtemp on the `finally` removes the staging directory.
RRaise(r) == RGoto(r, IF RAt(r, "idle") \/ RAt(r, "manifest") THEN "raised" ELSE "remove")

\* The target must not exist, however it is there.
Begin(r) ==
    /\ RAt(r, "idle")
    /\ IF target = Nobody THEN RGoto(r, "manifest") ELSE RRaise(r)
    /\ UNCHANGED <<ckpt, object, target, staged, aside, tree, mishaps>>

\* The canonical bytes of a manifest, of a schema the code knows.
parse_manifest_bytes == object["manifest"] = "whole"
KnownSchema == ckpt.schema \in 1 .. 2

\* The manifest has the trusted digest when it is read and when it is verified,
\* is canonical, and has the key that the layout of its objects asks for.
ReadManifest(r) ==
    /\ RAt(r, "manifest")
    /\ IF parse_manifest_bytes /\ ckpt.trusted /\ ckpt.placed
       THEN RGoto(r, "state") /\ staged' = staged \union {r}
       ELSE RRaise(r) /\ UNCHANGED staged
    /\ UNCHANGED <<ckpt, object, target, aside, tree, mishaps>>

\* verify, then materialize: the copy has the digest of the manifest or none is
\* published.
Fetch(r, part, next) ==
    /\ IF object[part] = "whole"
       THEN tree' = [tree EXCEPT ![r][part] = "whole"] /\ RGoto(r, next)
       ELSE RRaise(r) /\ UNCHANGED tree
    /\ UNCHANGED <<ckpt, object, target, staged, aside, mishaps>>

FetchState(r) == RAt(r, "state") /\ Fetch(r, "state", "migrate")

\* migrate_staged_state; a newer schema is refused.
MigrateState(r) ==
    /\ RAt(r, "migrate")
    /\ IF tree[r]["state"] = "damaged" \/ ~KnownSchema
       THEN RRaise(r) /\ UNCHANGED tree
       ELSE /\ tree' = [tree EXCEPT ![r]["state"] = IF ckpt.schema < 2 THEN "migrated" ELSE @]
            /\ rst' = [rst EXCEPT ![r] = [pc |-> "inspect", layout |-> {},
                                          migrated |-> ckpt.schema < 2]]
    /\ UNCHANGED <<ckpt, object, target, staged, aside, mishaps>>

\* inspect_staged_state: the snapshot is of this job and input, and its valid
\* rows are exactly the objects listed, with their digests.
Inspects(r) ==
    /\ tree[r]["state"] # "damaged"
    /\ ckpt.sameJob
    /\ \A f \in ckpt.rows : f \in ckpt.listed /\ f \notin ckpt.differ
    /\ ckpt.rows = ckpt.listed

InspectState(r) ==
    /\ RAt(r, "inspect")
    /\ IF Inspects(r)
       THEN rst' = [rst EXCEPT ![r] = [pc |-> "input", layout |-> ckpt.rows,
                                       migrated |-> @.migrated]]
       ELSE RRaise(r)
    /\ UNCHANGED <<ckpt, object, target, staged, aside, tree, mishaps>>

FetchInput(r) == RAt(r, "input") /\ Fetch(r, "input", "artifacts")

FetchArtifact(r) ==
    /\ RAt(r, "artifacts")
    /\ \E f \in rst[r].layout : tree[r][f] = "absent" /\ Fetch(r, f, "artifacts")

\* SLIP (breaks TargetIsExact): what was fetched with its digest is not read again.
FinalInspection(r) ==
    /\ RAt(r, "artifacts")
    /\ \A f \in rst[r].layout : tree[r][f] # "absent"
    /\ IF Inspects(r) /\ ckpt.rows = rst[r].layout
       THEN RGoto(r, "publish") ELSE RRaise(r)
    /\ UNCHANGED <<ckpt, object, target, staged, aside, tree, mishaps>>

\* The second inspection and the last digests.  A migrated database has no
\* digest to be compared with.
FinalVerification(r) ==
    /\ RAt(r, "artifacts")
    /\ \A f \in rst[r].layout : tree[r][f] # "absent"
    /\ IF /\ Inspects(r) /\ ckpt.rows = rst[r].layout
          /\ rst[r].migrated \/ tree[r]["state"] = "whole"
          /\ \A p \in {"input"} \union rst[r].layout : tree[r][p] = "whole"
       THEN RGoto(r, "publish") ELSE RRaise(r)
    /\ UNCHANGED <<ckpt, object, target, staged, aside, tree, mishaps>>

\* publish_directory_no_replace: the target is looked at and then renamed to,
\* atomically and without replacing ...
PublishTarget(r) ==
    /\ RAt(r, "publish")
    /\ IF target = Nobody THEN RGoto(r, "rename") ELSE RRaise(r)
    /\ UNCHANGED <<ckpt, object, target, staged, aside, tree, mishaps>>

\* SLIP (breaks TargetIsExact): a plain rename, the target having been looked at.
RenameOver(r) ==
    /\ RAt(r, "rename")
    /\ target' = r /\ staged' = staged \ {r} /\ RGoto(r, "sync")
    /\ UNCHANGED <<ckpt, object, aside, tree, mishaps>>

rename_no_replace(r) ==
    target = Nobody /\ target' = r /\ staged' = staged \ {r}

RenameToTarget(r) ==
    /\ RAt(r, "rename")
    /\ \/ rename_no_replace(r) /\ RGoto(r, "sync")
       \/ target # Nobody /\ RRaise(r) /\ UNCHANGED <<target, staged>>
    /\ UNCHANGED <<ckpt, object, aside, tree, mishaps>>

\* ... and the parent is synchronized; when that fails the directory goes back
\* to its staging name, or to a quarantine name, or stays where it is.
SyncTarget(r) ==
    /\ RAt(r, "sync")
    /\ \/ RGoto(r, "returned") /\ UNCHANGED mishaps
       \/ Mishap /\ RGoto(r, "rollback")
    /\ UNCHANGED <<ckpt, object, target, staged, aside, tree>>

Rollback(r) ==
    /\ RAt(r, "rollback")
    /\ \/ target' = Nobody /\ staged' = staged \union {r} /\ UNCHANGED <<aside, mishaps>>
       \/ Mishap /\ target' = Nobody /\ aside' = aside \union {r} /\ UNCHANGED staged
       \/ Mishap /\ UNCHANGED <<target, staged, aside>>
    /\ RRaise(r)
    /\ UNCHANGED <<ckpt, object, tree>>

\* _remove_owned_staging: only a directory that still has the staging name.
RemoveStaging(r) ==
    /\ RAt(r, "remove")
    /\ \/ staged' = staged \ {r} /\ UNCHANGED mishaps
       \/ Mishap /\ UNCHANGED staged
    /\ RGoto(r, "raised")
    /\ UNCHANGED <<ckpt, object, target, aside, tree>>

-----------------------------------------------------------------------------
\* Reading, copying, migrating or renaming fails.
CallFails(r) ==
    /\ rst[r].pc \notin {"idle", "sync", "rollback", "remove", "returned", "raised", "dead"}
    /\ Mishap
    /\ RRaise(r)
    /\ UNCHANGED <<ckpt, object, target, staged, aside, tree>>

Killed(r) ==
    /\ rst[r].pc \notin {"idle", "returned", "raised", "dead"}
    /\ Mishap
    /\ RGoto(r, "dead")
    /\ UNCHANGED <<ckpt, object, target, staged, aside, tree>>

DamageObject ==
    /\ Mishap
    /\ \E o \in Objects, how \in {"damaged", "gone"} : object' = [object EXCEPT ![o] = how]
    /\ UNCHANGED <<ckpt, target, staged, aside, tree, rst>>

\* A staged file is damaged before the last verification.  Of a migrated
\* database only what inspection looks at is noticed.
DamageStaged(r) ==
    /\ rst[r].pc \in {"migrate", "inspect", "input", "artifacts"}
    /\ Mishap
    /\ \E p \in Parts :
         /\ tree[r][p] # "absent"
         /\ \E how \in {"damaged"} \union IF tree[r][p] = "migrated" THEN {"altered"} ELSE {} :
              tree' = [tree EXCEPT ![r][p] = how]
    /\ UNCHANGED <<ckpt, object, target, staged, aside, rst>>

RStep(r) ==
    \/ Begin(r) \/ ReadManifest(r) \/ FetchState(r) \/ MigrateState(r) \/ InspectState(r)
    \/ FetchInput(r) \/ FetchArtifact(r) \/ FinalVerification(r) \/ PublishTarget(r)
    \/ RenameToTarget(r) \/ SyncTarget(r) \/ Rollback(r) \/ RemoveStaging(r)
    \/ CallFails(r) \/ Killed(r) \/ DamageStaged(r)

RSNext == (\E r \in Restorers : RStep(r)) \/ DamageObject
RSSpec == RSInit /\ [][RSNext]_rsVars

-----------------------------------------------------------------------------
\* Nothing but the whole checkpoint ever has the target's name: the snapshot,
\* the input and one file for every valid row, no more, each as the manifest
\* says, of a checkpoint that is trusted and whole, whatever was damaged, failed
\* or died on the way, and even if restore then raises.
Exact ==
    target # Nobody =>
        /\ ckpt \in {Sound, [Sound EXCEPT !.schema = 1]}
        /\ \A p \in Parts \ {"state"} : tree[target][p] = "whole"
        /\ tree[target]["state"] \in
             IF ckpt.schema = 2 THEN {"whole"} ELSE {"migrated", "altered"}

\* And what restore says is so: its directory is the target's if it returned,
\* for ever and whoever else restores there; if it raised, the target is not its
\* doing and the parent directory is as before, except after two failures in a
\* row of the way back.
TargetIsExact ==
    /\ Exact
    /\ \A r \in Restorers :
        /\ RAt(r, "returned") => target = r
        /\ RAt(r, "raised") /\ mishaps > MaxMishaps - 2 =>
              target # r /\ (r \in staged \union aside => mishaps < MaxMishaps)
=============================================================================
