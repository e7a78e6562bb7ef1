---------------------------- MODULE DurableFile ----------------------------
(***************************************************************************)
(* How a file gets its name for good: LocalArtifactWriter                  *)
(* (src/ytb_vps_v2/adapters/filesystem/artifacts.py) in a workspace, and   *)
(* publish_additively (integrity.py) under LocalAdditiveObjectStore.put,   *)
(* materialize and VerifiedInputArchiver.archive in a store.  Writers of   *)
(* one key meet in one directory: each looks whether the name is taken,    *)
(* writes a temporary of its own, links it to the name without replacing,  *)
(* synchronizes the directory, reads the name back, undoes its own link    *)
(* when something failed, and removes its temporary.                       *)
(*                                                                         *)
(* A file is an inode, named here by the writer that made it; a directory  *)
(* entry points to one.  What fsync has not reached may be gone after a    *)
(* power failure.  Reading a file is one step, the checks of its name      *)
(* before and after are steps of their own.                                *)
(***************************************************************************)
EXTENDS Integers

CONSTANTS
    Writers,     \* calls of write_bytes, write_file, put, archive, materialize
    Contents,    \* what a source may hold
    Elder,       \* the inode that had the name before any of the calls
    None,        \* no inode, no content
    MaxFaults    \* bound: failing system calls, deaths, removals, changed sources

ASSUME DurableFileAssumption ==
    /\ Elder \notin Writers /\ None \notin Writers \union {Elder}
    /\ "partial" \notin Contents /\ None \notin Contents

Inodes == Writers \union {Elder}

VARIABLES
    place,     \* what the directory is: [kind, system, folder]
    dest,      \* the inode that has the name, or None
    onDisk,    \* the same after a power failure
    data,      \* for each inode its content: None, "partial" or one of Contents
    flushed,   \* the inodes whose content was fsynced
    temps,     \* the writers whose temporary has its name
    source,    \* for each writer what its source holds
    call,      \* for each writer where it is: [pc, want, seen, created, ok]
    incidents, \* how the name may have lost a file: "undone", "removed", "folder",
               \* an entry not on disk: "unsynced", a folder made twice: "mkdir"
    faults     \* what is left of MaxFaults

dfVars == <<place, dest, onDisk, data, flushed, temps, source, call, incidents, faults>>

Idle == [pc |-> "idle", want |-> None, seen |-> None, created |-> FALSE, ok |-> FALSE]

\* A workspace or an object store, on a posix system or on Windows, with a
\* directory that is there or not, and a file that has the name or not.
DFInit ==
    /\ place \in [kind : {"artifact", "object"}, system : {"posix", "nt"},
                  folder : {"absent", "synced"}]
    /\ dest \in IF place.folder = "absent" THEN {None} ELSE {None, Elder}
    /\ onDisk = dest
    /\ \E c \in Contents : data = [i \in Inodes |-> IF i = dest THEN c ELSE None]
    /\ flushed = {dest} \ {None}
    /\ temps = {}
    /\ source \in [Writers -> Contents]
    /\ call = [w \in Writers |-> Idle]
    /\ incidents = {}
    /\ faults = MaxFaults

-----------------------------------------------------------------------------
Artifact == place.kind = "artifact"
Posix == place.system = "posix"
At(w, pc) == call[w].pc = pc
Goto(w, pc) == call' = [call EXCEPT ![w].pc = pc]
Fault == faults > 0 /\ faults' = faults - 1

\* An exception: what was created by the call is undone, then the `finally`.
Raise(w) == call' = [call EXCEPT ![w].pc =
    IF call[w].created THEN "undo" ELSE IF data[w] # None THEN "cleanup" ELSE "done"]

\* digest_file of the source, and the key checked.
Start(w) ==
    /\ At(w, "idle")
    /\ call' = [call EXCEPT ![w].pc = "folder", ![w].want = source[w]]
    /\ UNCHANGED <<place, dest, onDisk, data, flushed, temps, source, incidents, faults>>

destination_for(w) ==
    /\ place' = [place EXCEPT !.folder = "made"]
    /\ Goto(w, IF Artifact THEN "syncFolder" ELSE "look")

\* The directory is looked for, and made when it was missing ...
FindFolder(w) ==
    /\ At(w, "folder")
    /\ Goto(w, IF place.folder = "absent" THEN "makeFolder" ELSE "look")
    /\ UNCHANGED <<place, dest, onDisk, data, flushed, temps, source, incidents, faults>>

\* ... which fails when another call was faster, but for the chain of handles
\* on Windows.  Only an artifact's writer synchronizes the directory above.
MakeFolder(w) ==
    /\ At(w, "makeFolder")
    /\ IF place.folder = "absent"
       THEN destination_for(w) /\ UNCHANGED incidents
       ELSE IF Artifact /\ ~Posix
       THEN Goto(w, "syncFolder") /\ UNCHANGED <<place, incidents>>
       ELSE Raise(w) /\ incidents' = incidents \union {"mkdir"} /\ UNCHANGED place
    /\ UNCHANGED <<dest, onDisk, data, flushed, temps, source, faults>>

SyncFolder(w) ==
    /\ At(w, "syncFolder")
    /\ \/ place' = [place EXCEPT !.folder = "synced"] /\ Goto(w, "look") /\ UNCHANGED faults
       \/ Fault /\ Goto(w, "done") /\ UNCHANGED place
    /\ UNCHANGED <<dest, onDisk, data, flushed, temps, source, incidents>>

\* The name is opened: before anything is written, after a link that failed,
\* and to read the published file back.
Opened == [look |-> "lookAt", compare |-> "compareAt", readBack |-> "readAt"]
Open(w) ==
    /\ call[w].pc \in DOMAIN Opened
    /\ \/ /\ dest = None
          /\ IF At(w, "look") THEN Goto(w, "create") ELSE Raise(w)
       \/ /\ dest # None
          /\ call' = [call EXCEPT ![w].pc = Opened[@], ![w].seen = dest]
    /\ UNCHANGED <<place, dest, onDisk, data, flushed, temps, source, incidents, faults>>

\* What was read is what the writer has, and the name still has the file: an
\* artifact's writer compares identities, a store only needs a file there.
StillThere(w) == IF Artifact THEN dest = call[w].seen ELSE dest # None
Matches(w) == /\ StillThere(w)
              /\ data[IF Artifact THEN call[w].seen ELSE dest] = call[w].want

Check(w, from, to) ==
    /\ At(w, from)
    /\ IF Matches(w) THEN Goto(w, to) ELSE Raise(w)
    /\ UNCHANGED <<place, dest, onDisk, data, flushed, temps, source, incidents, faults>>

\* sync_directory ignores errors on Windows, so the entry may not be on disk.
SyncFails(w, next, ok) ==
    /\ Fault
    /\ IF Artifact \/ Posix
       THEN Raise(w) /\ UNCHANGED incidents
       ELSE /\ call' = [call EXCEPT ![w].pc = next, ![w].ok = ok]
            /\ incidents' = incidents \union {"unsynced"}
    /\ UNCHANGED onDisk

\* SLIP (breaks ReturnedIsKept): what is there already needs nothing more.
AdoptAtOnce(w) ==
    /\ At(w, "adopt")
    /\ call' = [call EXCEPT ![w].pc = "done", ![w].ok = TRUE]
    /\ UNCHANGED <<place, dest, onDisk, data, flushed, temps, source, incidents, faults>>

\* _matching_existing: a file that is there already is adopted once the
\* directory that names it is synchronized.
LookAt(w) == Check(w, "lookAt", "adopt")
Adopt(w) ==
    /\ At(w, "adopt")
    /\ \/ /\ onDisk' = dest
          /\ call' = [call EXCEPT ![w].pc = "done",
                                   ![w].ok = Artifact => source[w] = call[w].want]
          /\ UNCHANGED <<incidents, faults>>
       \/ SyncFails(w, "done", TRUE)
    /\ UNCHANGED <<place, dest, data, flushed, temps, source>>

\* create_temporary: a new inode under a name nobody else has.
Create(w) ==
    /\ At(w, "create")
    /\ data' = [data EXCEPT ![w] = "partial"]
    /\ temps' = temps \union {w}
    /\ Goto(w, "write")
    /\ UNCHANGED <<place, dest, onDisk, flushed, source, incidents, faults>>

\* SLIP (breaks PublishedIsWhole): the copy is left to the page cache.
WriteUnsynced(w) ==
    /\ At(w, "write")
    /\ data' = [data EXCEPT ![w] = source[w]]
    /\ Goto(w, "written")
    /\ UNCHANGED <<place, dest, onDisk, flushed, temps, source, incidents, faults>>

\* The copy, flushed and fsynced: what the source holds now.
Write(w) ==
    /\ At(w, "write")
    /\ \/ /\ data' = [data EXCEPT ![w] = source[w]]
          /\ flushed' = flushed \union {w}
          /\ Goto(w, "written")
          /\ UNCHANGED faults
       \/ Fault /\ Raise(w) /\ UNCHANGED <<data, flushed>>
    /\ UNCHANGED <<place, dest, onDisk, temps, source, incidents>>

\* Both the copy and the source have to be what they were at the start.
Written(w) ==
    /\ At(w, "written")
    /\ IF data[w] = call[w].want /\ source[w] = call[w].want
       THEN Goto(w, "link") ELSE Raise(w)
    /\ UNCHANGED <<place, dest, onDisk, data, flushed, temps, source, incidents, faults>>

\* os.link, or a rename without replacement on Windows, where the temporary's
\* own name is gone with it.
_publish_no_replace(w) ==
    /\ dest = None
    /\ dest' = w
    /\ temps' = IF Posix THEN temps ELSE temps \ {w}

\* Any OSError leads to a comparison.
Link(w) ==
    /\ At(w, "link")
    /\ \/ /\ _publish_no_replace(w)
          /\ call' = [call EXCEPT ![w].pc = "sync", ![w].created = TRUE]
          /\ UNCHANGED faults
       \/ /\ (dest # None /\ UNCHANGED faults) \/ Fault
          /\ Goto(w, "compare")
          /\ UNCHANGED <<dest, temps>>
    /\ UNCHANGED <<place, onDisk, data, flushed, source, incidents>>

CompareAt(w) == Check(w, "compareAt", "sync")

SyncParent(w) ==
    /\ At(w, "sync")
    /\ \/ onDisk' = dest /\ Goto(w, "readBack") /\ UNCHANGED <<incidents, faults>>
       \/ SyncFails(w, "readBack", FALSE)
    /\ UNCHANGED <<place, dest, data, flushed, temps, source>>

ReadAt(w) ==
    /\ At(w, "readAt")
    /\ IF Matches(w)
       THEN call' = [call EXCEPT ![w].pc = "cleanup", ![w].ok = TRUE]
       ELSE Raise(w)
    /\ UNCHANGED <<place, dest, onDisk, data, flushed, temps, source, incidents, faults>>

\* The rollback of the writer that created the name: _remove_published_identity
\* looks whose file has the name before it unlinks it ...
Undo(w) ==
    /\ At(w, "undo") /\ Artifact /\ Posix
    /\ Goto(w, IF dest = w THEN "unlink" ELSE "undone")
    /\ UNCHANGED <<place, dest, onDisk, data, flushed, temps, source, incidents, faults>>

Unlink(w) ==
    /\ At(w, "unlink")
    /\ dest' = None
    /\ incidents' = IF dest = None THEN incidents ELSE incidents \union {"undone"}
    /\ Goto(w, "undone")
    /\ UNCHANGED <<place, onDisk, data, flushed, temps, source, faults>>

\* ... on Windows its own file is deleted by handle, and publish_additively
\* unlinks the name, whoever has it.
Retract(w) ==
    /\ At(w, "undo") /\ ~(Artifact /\ Posix)
    /\ LET gone == dest # None /\ (Artifact => dest = w) IN
       /\ dest' = IF gone THEN None ELSE dest
       /\ incidents' = IF gone THEN incidents \union {"undone"} ELSE incidents
    /\ Goto(w, "undone")
    /\ UNCHANGED <<place, onDisk, data, flushed, temps, source, faults>>

\* The unlink may fail; the last synchronization may fail unnoticed.
UndoFails(w) ==
    /\ call[w].pc \in {"undo", "unlink"}
    /\ Fault
    /\ Goto(w, IF Artifact THEN "cleanup" ELSE "undone")
    /\ UNCHANGED <<place, dest, onDisk, data, flushed, temps, source, incidents>>

Undone(w) ==
    /\ At(w, "undone")
    /\ \/ onDisk' = dest /\ UNCHANGED faults
       \/ Fault /\ UNCHANGED onDisk
    /\ Goto(w, "cleanup")
    /\ UNCHANGED <<place, dest, data, flushed, temps, source, incidents>>

\* The `finally`: the temporary is removed under its own name.  An artifact's
\* writer that cannot do that, or cannot synchronize, raises after all; a store
\* ignores it.
Cleanup(w) ==
    /\ At(w, "cleanup")
    /\ \/ /\ temps' = temps \ {w}
          /\ onDisk' \in IF Artifact /\ Posix /\ w \in temps THEN {dest} ELSE {onDisk}
          /\ Goto(w, "done")
          /\ UNCHANGED faults
       \/ /\ Fault /\ w \in temps
          /\ temps' \in {temps, temps \ {w}}
          /\ call' = [call EXCEPT ![w].pc = "done", ![w].ok = @ /\ ~Artifact]
          /\ UNCHANGED onDisk
    /\ UNCHANGED <<place, dest, data, flushed, source, incidents>>

-----------------------------------------------------------------------------
\* The process of a call is killed: what it had made stays.
Die(w) ==
    /\ call[w].pc \notin {"idle", "done"}
    /\ Fault
    /\ call' = [call EXCEPT ![w] = [Idle EXCEPT !.pc = "done"]]
    /\ UNCHANGED <<place, dest, onDisk, data, flushed, temps, source, incidents>>

\* The power fails: every call ends, the name has what it had when the directory
\* was last synchronized, or what it had in memory, and content that was not
\* flushed is torn.  A directory whose parent was not synchronized may be gone.
PowerFails ==
    /\ Fault
    /\ call' = [w \in Writers |-> IF call[w].pc \in {"idle", "done"} THEN call[w]
                                  ELSE [Idle EXCEPT !.pc = "done"]]
    /\ data' = [i \in Inodes |-> IF data[i] = None \/ i \in flushed
                                 THEN data[i] ELSE "partial"]
    /\ \/ \E survivor \in {dest, onDisk} : dest' = survivor /\ onDisk' = survivor
          /\ UNCHANGED <<place, temps, incidents>>
       \/ /\ place.folder = "made"
          /\ place' = [place EXCEPT !.folder = "absent"]
          /\ dest' = None /\ onDisk' = None /\ temps' = {}
          /\ incidents' = incidents \union {"folder"}
    /\ UNCHANGED <<flushed, source>>

\* Somebody takes the published file away, or edits a source that is being read.
Remove ==
    /\ dest # None
    /\ Fault
    /\ dest' = None
    /\ incidents' = incidents \union {"removed"}
    /\ UNCHANGED <<place, onDisk, data, flushed, temps, source, call>>

ChangeSource(w) ==
    /\ call[w].pc \notin {"idle", "done"}
    /\ Fault
    /\ \E c \in Contents \ {source[w]} : source' = [source EXCEPT ![w] = c]
    /\ UNCHANGED <<place, dest, onDisk, data, flushed, temps, call, incidents>>

\* The calls, by the functions their steps belong to.
Prepare(w) ==
    \/ Start(w) \/ FindFolder(w) \/ MakeFolder(w) \/ Open(w) \/ LookAt(w) \/ Adopt(w)
    \/ Create(w) \/ Write(w) \/ Written(w) \/ Cleanup(w)
publish(w) == Link(w) \/ CompareAt(w) \/ SyncParent(w) \/ ReadAt(w) \/ Undone(w)
publish_additively(w) == publish(w) \/ Retract(w)
write_file(w) == /\ Artifact
                 /\ \/ Prepare(w) \/ SyncFolder(w)
                    \/ publish(w) \/ Undo(w) \/ Unlink(w) \/ Retract(w)
put(w) == ~Artifact /\ (Prepare(w) \/ publish_additively(w))
Disturbed(w) == UndoFails(w) \/ Die(w) \/ ChangeSource(w)

Step(w) == write_file(w) \/ put(w) \/ Disturbed(w)
DFNext == (\E w \in Writers : Step(w)) \/ PowerFails \/ Remove
DFSpec == DFInit /\ [][DFNext]_dfVars

-----------------------------------------------------------------------------
\* Whatever has the name, now or after a power failure, is a whole file whose
\* bytes are on disk: nobody ever sees half an artifact or a torn object.
PublishedIsWhole ==
    \A i \in {dest, onDisk} \ {None} : data[i] \in Contents /\ i \in flushed

\* A call that returned leaves its content under the name, even through a power
\* failure.  The code has three ways to break that promise, and no fourth: the
\* writer whose file was adopted undoes its link, somebody removes the file, or
\* the directory itself was made and not synchronized into its parent.
ReturnedIsKept ==
    incidents \subseteq {"mkdir"} => \A w \in Writers : call[w].ok /\ At(w, "done") =>
        \A i \in {dest, onDisk} : i # None /\ data[i] = call[w].want
=============================================================================
