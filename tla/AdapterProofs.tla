---------------------------- MODULE AdapterProofs ----------------------------
(***************************************************************************)
(* What a call of an adapter promises when it returns, for any number of   *)
(* calls, contents and faults.                                             *)
(*                                                                         *)
(* Files: nobody ever sees half a file, and a destination that a call      *)
(* returned keeps what it was given.  A file gets a name only by a link, a *)
(* link is of a file that was flushed, and what was flushed is never       *)
(* written again.  Restores: the name goes to a directory only once all of *)
(* it was verified.  Renders: the bytes that get the name are the bytes    *)
(* that were validated.  Tools: what was captured is what was written,     *)
(* unless the result says that it is not.  Cleanup: files may go only when *)
(* all that replaces them was seen in the store.                           *)
(***************************************************************************)
EXTENDS DurableFile, Restore, MediaRender, ToolCall, CleanupGuard, FiniteSetTheorems,
        SequenceTheorems, TLAPS

Fields == {"pc", "want", "seen", "created", "ok"}
\* Before a writer has a file of its own, and while its file waits for its name.
Early == {"idle", "folder", "makeFolder", "syncFolder", "look", "lookAt", "create", "write"}
Late == {"written", "link"}

Shape ==
    /\ DOMAIN call = Writers
    /\ \A w \in Writers : DOMAIN call[w] = Fields
    /\ DOMAIN data = Inodes /\ flushed \subseteq Inodes
    /\ source \in [Writers -> Contents]

Flushed ==
    /\ \A i \in flushed : data[i] \in Contents
    /\ {dest, onDisk} \ {None} \subseteq flushed
    /\ \A w \in Writers : /\ call[w].pc \in Early => w \notin flushed
                          /\ call[w].pc \in Late => w \in flushed

DFInv == Shape /\ Flushed

\* What most steps of a writer are: they move it along and touch no content.
Along(w) ==
    /\ DOMAIN call' = Writers
    /\ \A v \in Writers : DOMAIN call'[v] = Fields
    /\ \A v \in Writers \ {w} : call'[v] = call[v]
    /\ call'[w].pc \in Early => call[w].pc \in Early
    /\ call'[w].pc \in Late => call[w].pc \in Late
Named == {dest', onDisk'} \subseteq {dest, onDisk, None}
Untouched == UNCHANGED <<data, flushed, source>>

LEMMA AlongIsSafe ==
    ASSUME DFInv, NEW w \in Writers, Along(w), Named, Untouched
    PROVE  DFInv'
BY DEF DFInv, Shape, Flushed, Along, Named, Untouched

LEMMA DFInitInv == DFInit => DFInv
<1> SUFFICES ASSUME DFInit PROVE DFInv
  OBVIOUS
<1>1. call = [w \in Writers |-> Idle] /\ DOMAIN Idle = Fields /\ Idle.pc = "idle"
  BY DEF DFInit, Idle, Fields
<1>2. flushed = {dest} \ {None} /\ onDisk = dest /\ dest \in {None, Elder}
  BY DEF DFInit
<1>3. DOMAIN data = Inodes /\ \A i \in flushed : data[i] \in Contents
  BY <1>2 DEF DFInit, Inodes
<1>4. \A w \in Writers : w \notin flushed
  BY <1>2, DurableFileAssumption
<1> QED BY <1>1, <1>2, <1>3, <1>4 DEF DFInv, Shape, Flushed, DFInit, Early, Late, Inodes

-----------------------------------------------------------------------------
LEMMA RaiseGoesOn ==
    ASSUME DFInv, NEW w \in Writers, Raise(w)
    PROVE  Along(w)
BY DEF DFInv, Shape, Raise, Along, Early, Late, Fields

LEMMA GotoGoesOn ==
    ASSUME DFInv, NEW w \in Writers, NEW pc, Goto(w, pc),
           pc \in Early => call[w].pc \in Early, pc \in Late => call[w].pc \in Late
    PROVE  Along(w)
BY DEF DFInv, Shape, Goto, Along

LEMMA SyncFailsGoesOn ==
    ASSUME DFInv, NEW w \in Writers, NEW pc, NEW ok, SyncFails(w, pc, ok), pc \notin Early \union Late
    PROVE  Along(w)
BY RaiseGoesOn DEF DFInv, Shape, SyncFails, Along, Fields

LEMMA CheckGoesOn ==
    ASSUME DFInv, NEW w \in Writers, NEW from, NEW to, Check(w, from, to), to \notin Early \union Late
    PROVE  DFInv'
<1>1. Along(w)
  BY RaiseGoesOn, GotoGoesOn DEF Check
<1>2. Named /\ Untouched
  BY DEF Check, Named, Untouched
<1> QED BY <1>1, <1>2, AlongIsSafe

LEMMA WriterStep ==
    ASSUME DFInv, NEW w \in Writers, Step(w)
    PROVE  DFInv'
<1> USE DEF At, Early, Late
<1>1. CASE Start(w)
  <2>1. Along(w)
    BY <1>1 DEF Start, DFInv, Shape, Along, Fields
  <2> QED BY <1>1, <2>1, AlongIsSafe DEF Start, Named, Untouched
<1>2. CASE FindFolder(w)
  BY <1>2, GotoGoesOn, AlongIsSafe DEF FindFolder, Named, Untouched
<1>3. CASE MakeFolder(w)
  <2>1. Along(w)
    BY <1>3, GotoGoesOn, RaiseGoesOn DEF MakeFolder, destination_for
  <2> QED BY <1>3, <2>1, AlongIsSafe DEF MakeFolder, Named, Untouched
<1>4. CASE SyncFolder(w)
  <2>1. Along(w)
    BY <1>4, GotoGoesOn DEF SyncFolder
  <2> QED BY <1>4, <2>1, AlongIsSafe DEF SyncFolder, Named, Untouched
<1>5. CASE Open(w)
  <2>1. CASE dest # None
    <3>1. /\ Opened[call[w].pc] \in Early => call[w].pc \in Early
          /\ Opened[call[w].pc] \notin Late
      BY <1>5 DEF Open, Opened
    <3>2. call' = [call EXCEPT ![w].pc = Opened[@], ![w].seen = dest]
      BY <1>5, <2>1 DEF Open
    <3>3. Along(w)
      BY <3>1, <3>2 DEF DFInv, Shape, Along, Fields
    <3> QED BY <1>5, <3>3, AlongIsSafe DEF Open, Named, Untouched
  <2>2. CASE dest = None
    <3>1. Along(w)
      BY <1>5, <2>2, GotoGoesOn, RaiseGoesOn DEF Open
    <3> QED BY <1>5, <3>1, AlongIsSafe DEF Open, Named, Untouched
  <2> QED BY <2>1, <2>2
<1>6. CASE LookAt(w) BY <1>6, CheckGoesOn DEF LookAt
<1>7. CASE Adopt(w)
  <2>1. CASE SyncFails(w, "done", TRUE)
    <3>1. Along(w)
      BY <2>1, SyncFailsGoesOn
    <3> QED BY <1>7, <2>1, <3>1, AlongIsSafe DEF Adopt, SyncFails, Named, Untouched
  <2>2. CASE ~SyncFails(w, "done", TRUE)
    <3>1. call' = [call EXCEPT ![w].pc = "done",
                               ![w].ok = Artifact => source[w] = call[w].want]
      BY <1>7, <2>2 DEF Adopt
    <3>2. /\ DOMAIN call' = Writers /\ call'[w].pc = "done"
          /\ \A v \in Writers : DOMAIN call'[v] = Fields
          /\ \A v \in Writers \ {w} : call'[v] = call[v]
      BY <3>1 DEF DFInv, Shape, Fields
    <3>3. Along(w)
      BY <3>2 DEF Along
    <3> QED BY <1>7, <2>2, <3>3, AlongIsSafe DEF Adopt, Named, Untouched
  <2> QED BY <2>1, <2>2
<1>8. CASE Create(w)
  <2>1. Along(w)
    BY <1>8, GotoGoesOn DEF Create
  <2>2. w \notin flushed /\ data' = [data EXCEPT ![w] = "partial"]
    BY <1>8 DEF Create, DFInv, Flushed
  <2> QED BY <1>8, <2>1, <2>2 DEF Create, DFInv, Shape, Flushed, Along
<1>9. CASE Write(w)
  <2>1. CASE Raise(w) /\ UNCHANGED <<data, flushed>>
    BY <1>9, <2>1, RaiseGoesOn, AlongIsSafe DEF Write, Named, Untouched
  <2>2. CASE /\ data' = [data EXCEPT ![w] = source[w]]
             /\ flushed' = flushed \union {w}
             /\ Goto(w, "written")
    <3>1. source[w] \in Contents /\ w \in Inodes
      BY DEF DFInv, Shape, Inodes
    <3>2. \A i \in flushed' : data'[i] \in Contents
      BY <2>2, <3>1 DEF DFInv, Shape, Flushed
    <3>3. /\ DOMAIN call' = Writers
          /\ \A v \in Writers : DOMAIN call'[v] = Fields
          /\ \A v \in Writers \ {w} : call'[v] = call[v]
          /\ call'[w].pc = "written"
      BY <2>2 DEF DFInv, Shape, Goto, Fields
    <3>4. Shape'
      BY <1>9, <2>2, <3>1, <3>3 DEF Write, DFInv, Shape
    <3>5. \A v \in Writers : /\ call'[v].pc \in Early => v \notin flushed'
                             /\ call'[v].pc \in Late => v \in flushed'
      BY <2>2, <3>3 DEF DFInv, Flushed
    <3>6. {dest', onDisk'} \ {None} \subseteq flushed'
      BY <1>9, <2>2 DEF Write, DFInv, Flushed
    <3> QED BY <3>2, <3>4, <3>5, <3>6 DEF DFInv, Flushed
  <2> QED BY <1>9, <2>1, <2>2 DEF Write
<1>10. CASE Written(w)
  <2>1. Along(w)
    BY <1>10, GotoGoesOn, RaiseGoesOn DEF Written
  <2> QED BY <1>10, <2>1, AlongIsSafe DEF Written, Named, Untouched
<1>11. CASE Cleanup(w)
  <2>1. Along(w)
    <3>1. CASE Goto(w, "done") BY <3>1, GotoGoesOn
    <3>2. CASE call' = [call EXCEPT ![w].pc = "done", ![w].ok = @ /\ ~Artifact]
      BY <3>2 DEF DFInv, Shape, Along, Fields
    <3> QED BY <1>11, <3>1, <3>2 DEF Cleanup
  <2>2. Named /\ Untouched
    BY <1>11 DEF Cleanup, Named, Untouched
  <2> QED BY <2>1, <2>2, AlongIsSafe
<1>12. CASE Link(w)
  <2>1. CASE Goto(w, "compare") /\ UNCHANGED <<dest, temps>>
    BY <1>12, <2>1, GotoGoesOn, AlongIsSafe DEF Link, Named, Untouched
  <2>2. CASE /\ _publish_no_replace(w)
             /\ call' = [call EXCEPT ![w].pc = "sync", ![w].created = TRUE]
    <3>1. Along(w)
      BY <2>2 DEF DFInv, Shape, Along, Fields
    <3>2. dest' = w /\ onDisk' = onDisk /\ w \in flushed
      BY <1>12, <2>2 DEF Link, _publish_no_replace, DFInv, Flushed
    <3> QED BY <1>12, <3>1, <3>2 DEF Link, DFInv, Shape, Flushed, Along
  <2> QED BY <1>12, <2>1, <2>2 DEF Link
<1>13. CASE CompareAt(w) BY <1>13, CheckGoesOn DEF CompareAt
<1>14. CASE SyncParent(w)
  <2>1. Along(w)
    BY <1>14, GotoGoesOn, SyncFailsGoesOn DEF SyncParent
  <2>2. Named /\ Untouched
    BY <1>14 DEF SyncParent, SyncFails, Named, Untouched
  <2> QED BY <2>1, <2>2, AlongIsSafe
<1>15. CASE ReadAt(w)
  <2>1. Along(w)
    <3>1. CASE Raise(w) BY <3>1, RaiseGoesOn
    <3>2. CASE call' = [call EXCEPT ![w].pc = "cleanup", ![w].ok = TRUE]
      BY <3>2 DEF DFInv, Shape, Along, Fields
    <3> QED BY <1>15, <3>1, <3>2 DEF ReadAt
  <2> QED BY <1>15, <2>1, AlongIsSafe DEF ReadAt, Named, Untouched
<1>16. CASE Undo(w)
  BY <1>16, GotoGoesOn, AlongIsSafe DEF Undo, Named, Untouched
<1>17. CASE Unlink(w)
  BY <1>17, GotoGoesOn, AlongIsSafe DEF Unlink, Named, Untouched
<1>18. CASE Retract(w)
  <2>1. Along(w)
    BY <1>18, GotoGoesOn DEF Retract
  <2>2. Named /\ Untouched
    BY <1>18 DEF Retract, Named, Untouched
  <2> QED BY <2>1, <2>2, AlongIsSafe
<1>19. CASE UndoFails(w)
  <2>1. Along(w)
    BY <1>19, GotoGoesOn DEF UndoFails
  <2> QED BY <1>19, <2>1, AlongIsSafe DEF UndoFails, Named, Untouched
<1>20. CASE Undone(w)
  <2>1. Along(w)
    BY <1>20, GotoGoesOn DEF Undone
  <2>2. Named /\ Untouched
    BY <1>20 DEF Undone, Named, Untouched
  <2> QED BY <2>1, <2>2, AlongIsSafe
<1>21. CASE Die(w)
  <2>1. Along(w)
    BY <1>21 DEF Die, Idle, DFInv, Shape, Along, Fields
  <2> QED BY <1>21, <2>1, AlongIsSafe DEF Die, Named, Untouched
<1>22. CASE ChangeSource(w)
  BY <1>22 DEF ChangeSource, DFInv, Shape, Flushed
<1> QED
  BY <1>1, <1>2, <1>3, <1>4, <1>5, <1>6, <1>7, <1>8, <1>9, <1>10, <1>11, <1>12, <1>13, <1>14,
     <1>15, <1>16, <1>17, <1>18, <1>19, <1>20, <1>21, <1>22
     DEF Step, write_file, put, Disturbed, Prepare, publish, publish_additively

LEMMA PowerStep == ASSUME DFInv, PowerFails PROVE DFInv'
<1>1. /\ DOMAIN call' = Writers
      /\ \A w \in Writers : DOMAIN call'[w] = Fields
      /\ \A w \in Writers : call'[w] = call[w] \/ call'[w].pc = "done"
  BY DEF PowerFails, DFInv, Shape, Idle, Fields
<1>2. DOMAIN data' = Inodes /\ \A i \in flushed : data'[i] = data[i]
  BY DEF PowerFails, DFInv, Shape
<1>3. {dest', onDisk'} \subseteq {dest, onDisk, None} /\ flushed' = flushed /\ source' = source
  BY DEF PowerFails
<1> QED BY <1>1, <1>2, <1>3 DEF DFInv, Shape, Flushed, Early, Late

LEMMA DFStep == DFInv /\ [DFNext]_dfVars => DFInv'
<1> SUFFICES ASSUME DFInv, [DFNext]_dfVars PROVE DFInv'
  OBVIOUS
<1>1. CASE \E w \in Writers : Step(w) BY <1>1, WriterStep
<1>2. CASE PowerFails BY <1>2, PowerStep
<1>3. CASE Remove BY <1>3 DEF Remove, DFInv, Shape, Flushed
<1>4. CASE UNCHANGED dfVars BY <1>4 DEF dfVars, DFInv, Shape, Flushed
<1> QED BY <1>1, <1>2, <1>3, <1>4 DEF DFNext

\* Whatever has the name, now or after a power failure, is whole and on disk.
THEOREM NeverHalfAFile == DFSpec => []PublishedIsWhole
<1>1. DFInv => PublishedIsWhole
  BY DEF DFInv, Flushed, PublishedIsWhole
<1> QED BY <1>1, DFInitInv, DFStep, PTL DEF DFSpec


-----------------------------------------------------------------------------
(* While nobody takes a file away, a call that returned leaves its content. *)

Quiet == incidents \subseteq {"mkdir"}
\* Where a call has found a file under the name, and where it has seen the
\* directory on disk.
Found == {"lookAt", "adopt", "compareAt", "sync", "readBack", "readAt"}

Leaves(w) == dest # None /\ onDisk # None /\ data[dest] = call[w].want
Relies(w) ==
    /\ call[w].pc \in Found => dest # None
    /\ call[w].pc = "adopt" => data[dest] = call[w].want
    /\ call[w].pc \in {"readBack", "readAt"} => onDisk # None
    /\ call[w].ok => call[w].pc \in {"cleanup", "done"} /\ Leaves(w)

KeptInv == DFInv /\ (Quiet => onDisk \in {None, dest} /\ \A w \in Writers : Relies(w))

\* What a step of a quiet directory may do: give a free name, and bring the
\* directory to disk.
Steady ==
    /\ incidents \subseteq incidents'
    /\ Quiet' /\ dest # None => dest' = dest
    /\ onDisk' = onDisk \/ onDisk' = dest'
    /\ \A i \in flushed : data'[i] = data[i]

LEMMA SteadyKeeps ==
    ASSUME KeptInv, Steady, Quiet', NEW v \in Writers, call'[v] = call[v]
    PROVE  Relies(v)'
<1>1. Quiet /\ onDisk \in {None, dest} /\ Relies(v)
  BY DEF KeptInv, Steady, Quiet
<1>2. dest # None => dest' = dest /\ data'[dest] = data[dest]
  BY DEF Steady, KeptInv, DFInv, Flushed
<1>3. onDisk # None => dest # None /\ onDisk' # None
  BY <1>1, <1>2 DEF Steady
<1>4. Leaves(v) => Leaves(v)'
  BY <1>2, <1>3 DEF Leaves
<1>5. dest # None => dest' # None /\ data'[dest'] = data[dest]
  BY <1>2
<1>6. call'[v].ok => call'[v].pc \in {"cleanup", "done"} /\ Leaves(v)'
  BY <1>1, <1>4 DEF Relies
<1>7. call'[v].pc \in Found => dest' # None
  BY <1>1, <1>5 DEF Relies
<1>8. call'[v].pc = "adopt" => data'[dest'] = call'[v].want
  BY <1>1, <1>5 DEF Relies, Found
<1>9. call'[v].pc \in {"readBack", "readAt"} => onDisk' # None
  BY <1>1, <1>3 DEF Relies
<1> QED BY <1>6, <1>7, <1>8, <1>9 DEF Relies

LEMMA SteadyIsEnough ==
    ASSUME KeptInv, DFInv', Steady, NEW w \in Writers,
           \A v \in Writers \ {w} : call'[v] = call[v],
           Quiet' => Relies(w)'
    PROVE  KeptInv'
<1>1. ASSUME Quiet' PROVE onDisk' \in {None, dest'} /\ \A v \in Writers : Relies(v)'
  <2>1. Quiet /\ onDisk \in {None, dest}
    BY <1>1 DEF KeptInv, Steady, Quiet
  <2>2. onDisk' \in {None, dest'}
    BY <1>1, <2>1 DEF Steady
  <2> QED BY <1>1, <2>2, SteadyKeeps
<1> QED BY <1>1 DEF KeptInv
LEMMA GotoKeeps ==
    ASSUME KeptInv, DFInv', Steady, NEW w \in Writers, NEW pc, Goto(w, pc),
           Quiet' /\ Relies(w) =>
               /\ pc \in Found => dest' # None
               /\ pc = "adopt" => data'[dest'] = call[w].want
               /\ pc \in {"readBack", "readAt"} => onDisk' # None
               /\ pc \in {"cleanup", "done"} \/ ~call[w].ok
    PROVE  KeptInv'
<1>1. /\ \A v \in Writers \ {w} : call'[v] = call[v]
      /\ call'[w].pc = pc /\ call'[w].ok = call[w].ok /\ call'[w].want = call[w].want
  BY DEF Goto, KeptInv, DFInv, Shape, Fields
<1>2. ASSUME Quiet' PROVE Relies(w)'
  <2>1. Relies(w) /\ onDisk \in {None, dest}
    BY <1>2 DEF KeptInv, Steady, Quiet
  <2>2. call[w].ok => Leaves(w)
    BY <2>1 DEF Relies
  <2>3. Leaves(w) => Leaves(w)'
    <3>1. dest # None => dest' = dest /\ data'[dest] = data[dest]
      BY <1>2 DEF Steady, KeptInv, DFInv, Flushed
    <3> QED BY <1>1, <2>1, <3>1 DEF Steady, Leaves
  <2>4. call'[w].ok => Leaves(w)'
    BY <1>1, <2>2, <2>3
  <2>5. call'[w].ok => call'[w].pc \in {"cleanup", "done"}
    BY <1>1, <1>2, <2>1
  <2>6. /\ call'[w].pc \in Found => dest' # None
        /\ call'[w].pc = "adopt" => data'[dest'] = call'[w].want
        /\ call'[w].pc \in {"readBack", "readAt"} => onDisk' # None
    BY <1>1, <1>2, <2>1
  <2> QED BY <2>4, <2>5, <2>6 DEF Relies
<1> QED BY <1>1, <1>2, SteadyIsEnough

LEMMA RaiseKeeps ==
    ASSUME KeptInv, DFInv', Steady, NEW w \in Writers, Raise(w),
           call[w].pc \notin {"cleanup", "done"}
    PROVE  KeptInv'
<1> DEFINE pc == IF call[w].created THEN "undo"
                 ELSE IF data[w] # None THEN "cleanup" ELSE "done"
<1>1. Goto(w, pc) /\ pc \in {"undo", "cleanup", "done"}
  BY DEF Raise, Goto
<1>2. Relies(w) => ~call[w].ok
  BY DEF Relies
<1> HIDE DEF pc
<1> QED BY <1>1, <1>2, GotoKeeps DEF Found

\* The name is looked at: it has a file, and the file is the writer's.
LEMMA CheckRelies ==
    ASSUME KeptInv, DFInv', NEW w \in Writers, NEW from, NEW to, Check(w, from, to),
           from \in Found, to \in {"adopt", "sync"}
    PROVE  KeptInv'
<1>1. Steady /\ UNCHANGED <<dest, onDisk, data>>
  BY DEF Check, Steady
<1>2. call[w].pc = from /\ from \notin {"cleanup", "done"}
  BY DEF Check, At, Found
<1>3. CASE Raise(w)
  BY <1>1, <1>2, <1>3, RaiseKeeps
<1>4. CASE ~Raise(w)
  <2>1. Goto(w, to) /\ Matches(w)
    BY <1>4 DEF Check
  <2>2. Relies(w) => dest # None /\ ~call[w].ok
    BY <1>2 DEF Relies
  <2>3. data[dest] = call[w].want
    BY <2>1 DEF Matches, StillThere
  <2> QED BY <1>1, <2>1, <2>2, <2>3, GotoKeeps
<1> QED BY <1>3, <1>4

\* A step whose only effect on this is that it moves a writer among the places
\* before anything was found, or after it gave up.
LEMMA PlainKeeps ==
    ASSUME KeptInv, DFInv', NEW w \in Writers, NEW pc, Goto(w, pc), Steady,
           pc \notin Found, pc \in {"cleanup", "done"} \/ call[w].pc \notin {"cleanup", "done"}
    PROVE  KeptInv'
<1>1. Relies(w) => pc \in {"cleanup", "done"} \/ ~call[w].ok
  BY DEF Relies
<1>2. pc # "adopt" /\ pc \notin {"readBack", "readAt"}
  BY DEF Found
<1> QED BY <1>1, <1>2, GotoKeeps

LEMMA PrepareKeeps ==
    ASSUME KeptInv, DFInv', NEW w \in Writers,
           \/ Start(w) \/ FindFolder(w) \/ MakeFolder(w) \/ SyncFolder(w) \/ Create(w)
           \/ Write(w) \/ Written(w)
    PROVE  KeptInv'
<1> USE DEF At
<1>1. CASE Start(w)
  <2>1. Steady /\ call' = [call EXCEPT ![w].pc = "folder", ![w].want = source[w]]
    BY <1>1 DEF Start, Steady
  <2>2. /\ \A v \in Writers \ {w} : call'[v] = call[v]
        /\ call'[w].pc = "folder" /\ call'[w].ok = call[w].ok
    BY <2>1 DEF KeptInv, DFInv, Shape, Fields
  <2>3. Relies(w) => ~call[w].ok
    BY <1>1 DEF Start, Relies
  <2>4. Relies(w) => Relies(w)'
    BY <2>2, <2>3 DEF Relies, Found
  <2>5. Quiet' => Relies(w)
    BY <2>1 DEF KeptInv, Quiet, Steady
  <2> QED BY <2>1, <2>2, <2>4, <2>5, SteadyIsEnough
<1>2. CASE FindFolder(w)
  BY <1>2, PlainKeeps DEF FindFolder, Steady, Found
<1>3. CASE MakeFolder(w)
  <2>1. Steady
    BY <1>3 DEF MakeFolder, Steady
  <2> QED BY <1>3, <2>1, PlainKeeps, RaiseKeeps DEF MakeFolder, destination_for, Found
<1>4. CASE SyncFolder(w)
  BY <1>4, PlainKeeps DEF SyncFolder, Steady, Found
<1>5. CASE Create(w)
  <2>1. w \notin flushed
    BY <1>5 DEF Create, KeptInv, DFInv, Flushed, Early
  <2>2. Steady
    BY <1>5, <2>1 DEF Create, Steady, KeptInv, DFInv, Shape
  <2> QED BY <1>5, <2>2, PlainKeeps DEF Create, Found
<1>6. CASE Write(w)
  <2>1. w \notin flushed
    BY <1>6 DEF Write, KeptInv, DFInv, Flushed, Early
  <2>2. Steady
    BY <1>6, <2>1 DEF Write, Steady, KeptInv, DFInv, Shape
  <2> QED BY <1>6, <2>2, PlainKeeps, RaiseKeeps DEF Write, Found
<1>7. CASE Written(w)
  <2>1. Steady
    BY <1>7 DEF Written, Steady
  <2> QED BY <1>7, <2>1, PlainKeeps, RaiseKeeps DEF Written, Found
<1> QED BY <1>1, <1>2, <1>3, <1>4, <1>5, <1>6, <1>7

LEMMA PublishKeeps ==
    ASSUME KeptInv, DFInv', NEW w \in Writers,
           Open(w) \/ LookAt(w) \/ Adopt(w) \/ Link(w) \/ CompareAt(w) \/ SyncParent(w) \/ ReadAt(w)
    PROVE  KeptInv'
<1> USE DEF At
<1>1. CASE Open(w)
  <2>1. Steady /\ UNCHANGED <<dest, onDisk>>
    BY <1>1 DEF Open, Steady
  <2>2. CASE dest = None
    BY <1>1, <2>1, <2>2, PlainKeeps, RaiseKeeps DEF Open, Opened, Found
  <2>3. CASE dest # None
    <3>1. call' = [call EXCEPT ![w].pc = Opened[@], ![w].seen = dest]
      BY <1>1, <2>3 DEF Open
    <3>2. /\ \A v \in Writers \ {w} : call'[v] = call[v]
          /\ call'[w].pc = Opened[call[w].pc] /\ call'[w].ok = call[w].ok
      BY <3>1 DEF KeptInv, DFInv, Shape, Fields
    <3>3. /\ call[w].pc \in {"look", "compare", "readBack"}
          /\ call'[w].pc \in {"lookAt", "compareAt", "readAt"}
          /\ call'[w].pc = "readAt" => call[w].pc = "readBack"
      BY <1>1, <3>2 DEF Open, Opened
    <3>4. Relies(w) => ~call[w].ok
      BY <3>3 DEF Relies
    <3>5. Relies(w) => Relies(w)'
      BY <2>1, <2>3, <3>2, <3>3, <3>4 DEF Relies
    <3>6. Quiet' => Relies(w)
      BY <2>1 DEF KeptInv, Quiet, Steady
    <3> QED BY <2>1, <3>2, <3>5, <3>6, SteadyIsEnough
  <2> QED BY <2>2, <2>3
<1>2. CASE LookAt(w)
  BY <1>2, CheckRelies DEF LookAt, Found
<1>3. CASE CompareAt(w)
  BY <1>3, CheckRelies DEF CompareAt, Found
<1>4. CASE Adopt(w)
  <2>1. CASE SyncFails(w, "done", TRUE)
    <3>1. CASE Artifact \/ Posix
      <4>1. Steady /\ Raise(w)
        BY <1>4, <2>1, <3>1 DEF Adopt, SyncFails, Steady
      <4> QED BY <1>4, <4>1, RaiseKeeps DEF Adopt
    <3>2. CASE ~(Artifact \/ Posix)
      BY <2>1, <3>2 DEF SyncFails, KeptInv, Quiet
    <3> QED BY <3>1, <3>2
  <2>2. CASE ~SyncFails(w, "done", TRUE)
    <3>1. /\ onDisk' = dest /\ UNCHANGED <<incidents, dest, data>> /\ call[w].pc = "adopt"
          /\ call' = [call EXCEPT ![w].pc = "done",
                                  ![w].ok = Artifact => source[w] = call[w].want]
      BY <1>4, <2>2 DEF Adopt
    <3>2. /\ \A v \in Writers \ {w} : call'[v] = call[v]
          /\ call'[w].pc = "done" /\ call'[w].want = call[w].want
      BY <3>1 DEF KeptInv, DFInv, Shape, Fields
    <3>3. Steady
      BY <3>1 DEF Steady
    <3>4. Quiet' => Relies(w)
      BY <3>1 DEF KeptInv, Quiet
    <3>5. Relies(w) => Leaves(w)'
      BY <3>1, <3>2 DEF Relies, Leaves, Found
    <3>6. Relies(w) => Relies(w)'
      BY <3>2, <3>5 DEF Relies, Found
    <3> QED BY <3>2, <3>3, <3>4, <3>6, SteadyIsEnough
  <2> QED BY <2>1, <2>2
<1>5. CASE Link(w)
  <2>1. CASE Goto(w, "compare") /\ UNCHANGED <<dest, temps>>
    <3>1. Steady
      BY <1>5, <2>1 DEF Link, Steady
    <3> QED BY <1>5, <2>1, <3>1, PlainKeeps DEF Link, Found
  <2>2. CASE ~(Goto(w, "compare") /\ UNCHANGED <<dest, temps>>)
    <3>1. /\ dest = None /\ dest' = w /\ UNCHANGED <<incidents, onDisk, data>>
          /\ call[w].pc = "link"
          /\ call' = [call EXCEPT ![w].pc = "sync", ![w].created = TRUE]
      BY <1>5, <2>2 DEF Link, _publish_no_replace
    <3>2. /\ \A v \in Writers \ {w} : call'[v] = call[v]
          /\ call'[w].pc = "sync" /\ call'[w].ok = call[w].ok
      BY <3>1 DEF KeptInv, DFInv, Shape, Fields
    <3>3. Steady
      BY <3>1 DEF Steady
    <3>4. Quiet' => Relies(w)
      BY <3>1 DEF KeptInv, Quiet
    <3>5. Relies(w) => ~call[w].ok
      BY <3>1 DEF Relies
    <3>6. Relies(w) => Relies(w)'
      BY <3>1, <3>2, <3>5, DurableFileAssumption DEF Relies
    <3> QED BY <3>2, <3>3, <3>4, <3>6, SteadyIsEnough
  <2> QED BY <2>1, <2>2
<1>6. CASE SyncParent(w)
  <2>1. UNCHANGED <<dest, data>> /\ call[w].pc = "sync"
    BY <1>6 DEF SyncParent
  <2>2. Relies(w) => dest # None /\ ~call[w].ok
    BY <2>1 DEF Relies, Found
  <2>3. CASE SyncFails(w, "readBack", FALSE)
    <3>1. CASE Artifact \/ Posix
      <4>1. Steady /\ Raise(w)
        BY <2>1, <2>3, <3>1 DEF SyncFails, Steady
      <4> QED BY <2>1, <4>1, RaiseKeeps
    <3>2. CASE ~(Artifact \/ Posix)
      BY <2>3, <3>2 DEF SyncFails, KeptInv, Quiet
    <3> QED BY <3>1, <3>2
  <2>4. CASE ~SyncFails(w, "readBack", FALSE)
    <3>1. onDisk' = dest /\ Goto(w, "readBack") /\ UNCHANGED incidents
      BY <1>6, <2>4 DEF SyncParent
    <3>2. Steady
      BY <2>1, <3>1 DEF Steady
    <3> QED BY <2>1, <2>2, <3>1, <3>2, GotoKeeps
  <2> QED BY <2>3, <2>4
<1>7. CASE ReadAt(w)
  <2>1. UNCHANGED <<dest, onDisk, data, incidents>> /\ call[w].pc = "readAt"
    BY <1>7 DEF ReadAt
  <2>2. Steady
    BY <2>1 DEF Steady
  <2>3. CASE Raise(w)
    BY <2>1, <2>2, <2>3, RaiseKeeps
  <2>4. CASE ~Raise(w)
    <3>1. Matches(w) /\ call' = [call EXCEPT ![w].pc = "cleanup", ![w].ok = TRUE]
      BY <1>7, <2>4 DEF ReadAt
    <3>2. /\ \A v \in Writers \ {w} : call'[v] = call[v]
          /\ call'[w].pc = "cleanup" /\ call'[w].want = call[w].want
      BY <3>1 DEF KeptInv, DFInv, Shape, Fields
    <3>3. Quiet' => Relies(w)
      BY <2>1 DEF KeptInv, Quiet
    <3>4. data[dest] = call[w].want
      BY <3>1 DEF Matches, StillThere
    <3>5. Relies(w) => Leaves(w)'
      BY <2>1, <3>2, <3>4 DEF Relies, Leaves, Found
    <3>6. Relies(w) => Relies(w)'
      BY <3>2, <3>5 DEF Relies, Found
    <3> QED BY <2>2, <3>2, <3>3, <3>6, SteadyIsEnough
  <2> QED BY <2>3, <2>4
<1> QED BY <1>1, <1>2, <1>3, <1>4, <1>5, <1>6, <1>7

LEMMA EndKeeps ==
    ASSUME KeptInv, DFInv', NEW w \in Writers,
           \/ Undo(w) \/ Unlink(w) \/ Retract(w) \/ UndoFails(w) \/ Undone(w) \/ Cleanup(w)
           \/ Die(w) \/ ChangeSource(w)
    PROVE  KeptInv'
<1> USE DEF At
<1>1. CASE Undo(w)
  <2>1. Steady
    BY <1>1 DEF Undo, Steady
  <2> QED BY <1>1, <2>1, PlainKeeps DEF Undo, Found
<1>2. CASE Unlink(w)
  <2>1. Steady
    BY <1>2 DEF Unlink, Steady, Quiet
  <2> QED BY <1>2, <2>1, PlainKeeps DEF Unlink, Found
<1>3. CASE Retract(w)
  <2>1. Steady
    BY <1>3 DEF Retract, Steady, Quiet
  <2> QED BY <1>3, <2>1, PlainKeeps DEF Retract, Found
<1>4. CASE UndoFails(w)
  <2>1. Steady
    BY <1>4 DEF UndoFails, Steady
  <2> QED BY <1>4, <2>1, PlainKeeps DEF UndoFails, Found
<1>5. CASE Undone(w)
  <2>1. Steady
    BY <1>5 DEF Undone, Steady
  <2> QED BY <1>5, <2>1, PlainKeeps DEF Undone, Found
<1>6. CASE Cleanup(w)
  <2>1. Steady
    BY <1>6 DEF Cleanup, Steady
  <2>2. CASE Goto(w, "done")
    BY <1>6, <2>1, <2>2, PlainKeeps DEF Cleanup, Found
  <2>3. CASE ~Goto(w, "done")
    <3>1. /\ call' = [call EXCEPT ![w].pc = "done", ![w].ok = @ /\ ~Artifact]
          /\ UNCHANGED <<dest, onDisk, data, incidents>>
      BY <1>6, <2>3 DEF Cleanup
    <3>2. /\ \A v \in Writers \ {w} : call'[v] = call[v]
          /\ call'[w].pc = "done" /\ call'[w].want = call[w].want
          /\ call'[w].ok => call[w].ok
      BY <3>1 DEF KeptInv, DFInv, Shape, Fields
    <3>3. Quiet' => Relies(w)
      BY <3>1 DEF KeptInv, Quiet
    <3>4. Leaves(w) => Leaves(w)'
      BY <3>1, <3>2 DEF Leaves
    <3>5. Relies(w) => Relies(w)'
      BY <3>2, <3>4 DEF Relies, Found
    <3> QED BY <2>1, <3>2, <3>3, <3>5, SteadyIsEnough
  <2> QED BY <2>2, <2>3
<1>7. CASE Die(w)
  <2>1. Steady
    BY <1>7 DEF Die, Steady
  <2>2. /\ \A v \in Writers \ {w} : call'[v] = call[v]
        /\ call'[w].pc = "done" /\ ~call'[w].ok
    BY <1>7 DEF Die, Idle, KeptInv, DFInv, Shape
  <2>3. Relies(w)'
    BY <2>2 DEF Relies, Found
  <2> QED BY <2>1, <2>2, <2>3, SteadyIsEnough
<1>8. CASE ChangeSource(w)
  <2>1. Steady /\ call' = call
    BY <1>8 DEF ChangeSource, Steady
  <2> QED BY <2>1, SteadyKeeps, SteadyIsEnough
<1> QED BY <1>1, <1>2, <1>3, <1>4, <1>5, <1>6, <1>7, <1>8

\* A power failure takes what no call that returned relies on.
LEMMA PowerKeeps == ASSUME KeptInv, DFInv', PowerFails PROVE KeptInv'
<1> SUFFICES ASSUME Quiet' PROVE onDisk' \in {None, dest'} /\ \A w \in Writers : Relies(w)'
  BY DEF KeptInv
<1>1. /\ incidents \subseteq incidents'
      /\ \E survivor \in {dest, onDisk} : dest' = survivor /\ onDisk' = survivor
      /\ \A i \in flushed : data'[i] = data[i]
  BY DEF PowerFails, Quiet, KeptInv, DFInv, Shape
<1>2. onDisk \in {None, dest} /\ \A w \in Writers : Relies(w)
  BY <1>1 DEF KeptInv, Quiet
<1>3. ASSUME NEW w \in Writers PROVE Relies(w)'
  <2>1. /\ call'[w].pc \in {"idle", "done"}
        /\ call'[w] = call[w] \/ ~call'[w].ok
    BY DEF PowerFails, Idle
  <2>2. call[w].ok => Leaves(w)
    BY <1>2, <1>3 DEF Relies
  <2>3. call'[w].ok => Leaves(w)'
    BY <1>1, <1>2, <2>1, <2>2 DEF Leaves, KeptInv, DFInv, Flushed
  <2>4. call'[w].ok => call'[w].pc \in {"cleanup", "done"}
    BY <1>2, <1>3, <2>1 DEF Relies
  <2> QED BY <2>1, <2>3, <2>4 DEF Relies, Found
<1> QED BY <1>1, <1>3

LEMMA KeptStep == KeptInv /\ [DFNext]_dfVars => KeptInv'
<1> SUFFICES ASSUME KeptInv, [DFNext]_dfVars PROVE KeptInv'
  OBVIOUS
<1>1. DFInv'
  BY DFStep DEF KeptInv
<1>2. ASSUME NEW w \in Writers, Step(w) PROVE KeptInv'
  BY <1>1, <1>2, PrepareKeeps, PublishKeeps, EndKeeps
     DEF Step, write_file, put, Disturbed, Prepare, publish, publish_additively
<1>3. CASE PowerFails BY <1>1, <1>3, PowerKeeps
<1>4. CASE Remove
  BY <1>1, <1>4 DEF Remove, KeptInv, Quiet
<1>5. CASE UNCHANGED dfVars
  BY <1>1, <1>5 DEF dfVars, KeptInv, Quiet, Relies, Leaves
<1> QED BY <1>2, <1>3, <1>4, <1>5 DEF DFNext

\* A call that returned leaves its content under the name, even through a power
\* failure, unless one of the three accidents the code allows took it away.
THEOREM NeverLost == DFSpec => []ReturnedIsKept
<1>1. ASSUME DFInit PROVE KeptInv
  <2>1. DFInv
    BY <1>1, DFInitInv
  <2>2. onDisk = dest /\ \A w \in Writers : call[w] = Idle
    BY <1>1 DEF DFInit
  <2> QED BY <2>1, <2>2 DEF KeptInv, Relies, Idle, Found
<1>2. ASSUME KeptInv PROVE ReturnedIsKept
  BY <1>2 DEF KeptInv, Quiet, Relies, Leaves, ReturnedIsKept
<1> QED BY <1>1, <1>2, KeptStep, PTL DEF DFSpec

-----------------------------------------------------------------------------
\* Restores.

Unstaged == {"idle", "manifest"}
Staging == {"state", "migrate", "inspect", "input", "artifacts"}
Inspected == {"inspect", "input", "artifacts"}
Verified == {"publish", "rename"}
Placed == {"sync", "rollback", "returned"}
GivenUp == {"remove", "raised", "dead"}
Conditions == {"absent", "whole", "damaged", "migrated", "altered"}

RSTypeOK ==
    /\ ckpt \in Checkpoints
    /\ target \in Restorers \union {Nobody}
    /\ staged \subseteq Restorers /\ aside \subseteq Restorers
    /\ tree \in [Restorers -> [Parts -> Conditions]]
    /\ rst \in [Restorers -> [pc : Unstaged \union Staging \union Verified \union Placed \union GivenUp,
                              layout : SUBSET Files, migrated : BOOLEAN]]
    /\ mishaps \in Int /\ mishaps <= MaxMishaps

Accepted == ckpt.trusted /\ ckpt.placed
StateAsFetched(r) == tree[r]["state"] \in IF ckpt.schema < 2 THEN {"migrated", "altered"}
                                          ELSE {"whole"}
\* The directory of a call is the checkpoint.
Whole(r) == /\ ckpt \in {Sound, [Sound EXCEPT !.schema = 1]}
            /\ \A p \in Parts \ {"state"} : tree[r][p] = "whole"
            /\ StateAsFetched(r)

\* Where a call is, and what its directory and its name are by then.
Stands(r) ==
    /\ rst[r].pc \in Unstaged => r \notin staged
    /\ rst[r].pc \in Unstaged \union Staging \union Verified => target # r /\ r \notin aside
    /\ rst[r].pc \in Staging => Accepted
    /\ rst[r].pc = "migrate" => tree[r]["state"] \in {"whole", "damaged"}
    /\ rst[r].pc \in Inspected =>
         /\ KnownSchema /\ rst[r].migrated = (ckpt.schema < 2)
         /\ StateAsFetched(r) \/ tree[r]["state"] = "damaged"
    /\ rst[r].pc \in Verified => Whole(r)
    /\ rst[r].pc \in Placed => target = r /\ r \notin aside
    /\ rst[r].pc = "rollback" => mishaps < MaxMishaps
    /\ rst[r].pc \in {"remove", "raised"} =>
         /\ target = r => mishaps < MaxMishaps - 1
         /\ r \in aside => mishaps < MaxMishaps - 1
    /\ rst[r].pc = "raised" /\ r \in staged => mishaps < MaxMishaps
    /\ target = r => Whole(r)

RSInv == RSTypeOK /\ \A r \in Restorers : Stands(r)

\* What a call leaves of another.
Apart(r) ==
    /\ \A v \in Restorers \ {r} :
         /\ rst'[v] = rst[v] /\ tree'[v] = tree[v]
         /\ v \in staged' <=> v \in staged
         /\ v \in aside' <=> v \in aside
         /\ target' = v <=> target = v
    /\ ckpt' = ckpt /\ mishaps' <= mishaps

LEMMA OthersStand ==
    ASSUME RSTypeOK, RSTypeOK', NEW r \in Restorers, NEW v \in Restorers, v # r, Apart(r), Stands(v)
    PROVE  Stands(v)'
<1>1. mishaps < MaxMishaps => mishaps' < MaxMishaps
  BY RestoreAssumption DEF Apart, RSTypeOK
<1>2. mishaps < MaxMishaps - 1 => mishaps' < MaxMishaps - 1
  BY RestoreAssumption DEF Apart, RSTypeOK
<1>3. /\ rst'[v] = rst[v] /\ tree'[v] = tree[v] /\ ckpt' = ckpt
      /\ v \in staged' <=> v \in staged
      /\ v \in aside' <=> v \in aside
      /\ target' = v <=> target = v
  BY DEF Apart
<1> QED BY <1>1, <1>2, <1>3 DEF Stands, Whole, StateAsFetched, Accepted, KnownSchema

LEMMA StandingIsEnough ==
    ASSUME RSInv, NEW r \in Restorers, RSTypeOK', Apart(r), Stands(r)'
    PROVE  RSInv'
BY OthersStand DEF RSInv

LEMMA NoTreeTyped == NoTree \in [Parts -> Conditions]
BY DEF NoTree, Conditions

LEMMA RSInitInv == RSInit => RSInv
<1> SUFFICES ASSUME RSInit PROVE RSInv
  OBVIOUS
<1>1. RSTypeOK
  BY NoTreeTyped, RestoreAssumption DEF RSInit, RSTypeOK, NotCalled, Unstaged
<1>2. \A r \in Restorers : Stands(r)
  BY RestoreAssumption
     DEF RSInit, Stands, NotCalled, Unstaged, Staging, Inspected, Verified, Placed
<1> QED BY <1>1, <1>2 DEF RSInv

LEMMA SoundTyped ==
    ASSUME NEW c \in Checkpoints
    PROVE  c.schema \in 1 .. 3 /\ c.rows \subseteq Files
<1>1. Sound.schema = 2 /\ Sound.rows = Files
  BY DEF Sound
<1>2. CASE c \in {Sound, [Sound EXCEPT !.schema = 1], [Sound EXCEPT !.schema = 3],
                  [Sound EXCEPT !.trusted = FALSE], [Sound EXCEPT !.placed = FALSE],
                  [Sound EXCEPT !.sameJob = FALSE]}
  BY <1>2 DEF Sound
<1>3. CASE \E f \in Files : c \in {[Sound EXCEPT !.listed = Files \ {f}],
                                    [Sound EXCEPT !.rows = Files \ {f}],
                                    [Sound EXCEPT !.differ = {f}]}
  BY <1>3 DEF Sound
<1> QED BY <1>2, <1>3 DEF Checkpoints

\* Of the checkpoints there may be, the inspection and the checks before it leave
\* the two that are sound.
LEMMA InspectionIsExact ==
    ASSUME RSTypeOK, Accepted, KnownSchema, ckpt.sameJob, ckpt.rows = ckpt.listed,
           \A f \in ckpt.rows : f \notin ckpt.differ
    PROVE  ckpt \in {Sound, [Sound EXCEPT !.schema = 1]} /\ ckpt.rows = Files
<1>1. ckpt \in Checkpoints
  BY DEF RSTypeOK
<1>2. ckpt # [Sound EXCEPT !.schema = 3]
  BY DEF KnownSchema, Sound
<1>3. ckpt \notin {[Sound EXCEPT !.trusted = FALSE], [Sound EXCEPT !.placed = FALSE],
                   [Sound EXCEPT !.sameJob = FALSE]}
  BY DEF Accepted, Sound
<1>4. ASSUME NEW f \in Files PROVE ckpt # [Sound EXCEPT !.listed = Files \ {f}]
  BY <1>4 DEF Sound
<1>5. ASSUME NEW f \in Files PROVE ckpt # [Sound EXCEPT !.rows = Files \ {f}]
  BY <1>5 DEF Sound
<1>6. ASSUME NEW f \in Files PROVE ckpt # [Sound EXCEPT !.differ = {f}]
  BY <1>6 DEF Sound
<1>7. ckpt \in {Sound, [Sound EXCEPT !.schema = 1]}
  BY <1>1, <1>2, <1>3, <1>4, <1>5, <1>6 DEF Checkpoints
<1>8. Sound.rows = Files /\ [Sound EXCEPT !.schema = 1].rows = Files
  BY DEF Sound
<1> QED BY <1>7, <1>8

-----------------------------------------------------------------------------
\* A step that only moves a call.
LEMMA MovesApart ==
    ASSUME RSInv, NEW r \in Restorers, NEW pc, RGoto(r, pc),
           pc \in Unstaged \union Staging \union Verified \union Placed \union GivenUp
    PROVE  /\ rst' \in [Restorers -> [pc : Unstaged \union Staging \union Verified \union Placed \union GivenUp,
                              layout : SUBSET Files, migrated : BOOLEAN]]
           /\ rst'[r].pc = pc /\ rst'[r].layout = rst[r].layout
           /\ rst'[r].migrated = rst[r].migrated
           /\ \A v \in Restorers \ {r} : rst'[v] = rst[v]
BY DEF RGoto, RSInv, RSTypeOK

LEMMA AbandonKeeps ==
    ASSUME RSInv, NEW r \in Restorers, RRaise(r), rst[r].pc \notin Placed,
           UNCHANGED <<ckpt, target, staged, aside, tree>>, mishaps' \in Int, mishaps' <= mishaps,
           rst[r].pc \notin GivenUp
    PROVE  RSInv'
<1>1. PICK pc \in {"raised", "remove"} : RGoto(r, pc) /\ (pc = "raised" => rst[r].pc \in Unstaged)
  BY DEF RRaise, RAt, Unstaged
<1>2. /\ rst' \in [Restorers -> [pc : Unstaged \union Staging \union Verified \union Placed \union GivenUp,
                              layout : SUBSET Files, migrated : BOOLEAN]]
      /\ rst'[r].pc = pc
      /\ \A v \in Restorers \ {r} : rst'[v] = rst[v]
  BY <1>1, MovesApart DEF GivenUp
<1>3. RSTypeOK'
  BY <1>2, RestoreAssumption DEF RSInv, RSTypeOK
<1>4. Apart(r)
  BY <1>2 DEF Apart
<1>5. target # r /\ r \notin aside /\ (pc = "raised" => r \notin staged)
  BY <1>1 DEF RSInv, RSTypeOK, Stands
<1>6. Stands(r)'
  BY <1>1, <1>2, <1>5 DEF Stands, Unstaged, Staging, Inspected, Verified, Placed
<1> QED BY <1>3, <1>4, <1>6, StandingIsEnough

\* A step that moves a call on, when what it stands on is there.
LEMMA RestoreMoves ==
    ASSUME RSInv, NEW r \in Restorers, NEW pc, RGoto(r, pc),
           pc \in Unstaged \union Staging \union Verified \union Placed \union GivenUp,
           UNCHANGED <<ckpt, aside, tree>>, mishaps' \in Int, mishaps' <= mishaps,
           staged' \in {staged, staged \union {r}, staged \ {r}},
           target' = target,
           Stands(r)'
    PROVE  RSInv'
<1>1. /\ rst' \in [Restorers -> [pc : Unstaged \union Staging \union Verified \union Placed \union GivenUp,
                              layout : SUBSET Files, migrated : BOOLEAN]]
      /\ \A v \in Restorers \ {r} : rst'[v] = rst[v]
  BY MovesApart
<1>2. RSTypeOK'
  BY <1>1, RestoreAssumption DEF RSInv, RSTypeOK
<1>3. Apart(r)
  BY <1>1 DEF Apart
<1> QED BY <1>2, <1>3, StandingIsEnough

LEMMA FetchKeeps ==
    ASSUME RSInv, NEW r \in Restorers, NEW part \in Parts, NEW next, Fetch(r, part, next),
           \/ rst[r].pc = "state" /\ next = "migrate" /\ part = "state"
           \/ rst[r].pc = "input" /\ next = "artifacts" /\ part # "state"
           \/ rst[r].pc = "artifacts" /\ next = "artifacts" /\ part # "state"
    PROVE  RSInv'
<1>1. CASE object[part] # "whole"
  BY <1>1, AbandonKeeps DEF Fetch, Placed, GivenUp, RSInv, RSTypeOK
<1>2. CASE object[part] = "whole"
  <2>1. /\ tree' = [tree EXCEPT ![r][part] = "whole"] /\ RGoto(r, next)
        /\ UNCHANGED <<ckpt, object, target, staged, aside, mishaps>>
    BY <1>2 DEF Fetch
  <2>2. /\ rst' \in [Restorers -> [pc : Unstaged \union Staging \union Verified \union Placed \union GivenUp,
                              layout : SUBSET Files, migrated : BOOLEAN]]
        /\ rst'[r].pc = next /\ rst'[r].migrated = rst[r].migrated
        /\ \A v \in Restorers \ {r} : rst'[v] = rst[v]
    BY <2>1, MovesApart DEF Staging
  <2>3. tree' \in [Restorers -> [Parts -> Conditions]]
    BY <2>1 DEF RSInv, RSTypeOK, Conditions
  <2>4. \A v \in Restorers \ {r} : tree'[v] = tree[v]
    BY <2>1 DEF RSInv, RSTypeOK
  <2>5. tree'[r]["state"] = IF part = "state" THEN "whole" ELSE tree[r]["state"]
    BY <2>1 DEF RSInv, RSTypeOK, Parts
  <2>6. RSTypeOK'
    BY <2>1, <2>2, <2>3 DEF RSInv, RSTypeOK
  <2>7. Apart(r)
    BY <2>1, <2>2, <2>4 DEF Apart, RSInv, RSTypeOK
  <2>8. Stands(r)
    BY DEF RSInv
  <2>9. Stands(r)'
    BY <2>1, <2>2, <2>5, <2>8 
       DEF Stands, Unstaged, Staging, Inspected, Verified, Placed, Accepted, KnownSchema, StateAsFetched
  <2> QED BY <2>6, <2>7, <2>9, StandingIsEnough
<1> QED BY <1>1, <1>2

LEMMA VerifyKeeps ==
    ASSUME RSInv, NEW r \in Restorers, FinalVerification(r)
    PROVE  RSInv'
<1>1. CASE RRaise(r) /\ UNCHANGED <<ckpt, object, target, staged, aside, tree, mishaps>>
  BY <1>1, AbandonKeeps DEF FinalVerification, RAt, Placed, GivenUp, RSInv, RSTypeOK
<1>2. CASE ~(RRaise(r) /\ UNCHANGED <<ckpt, object, target, staged, aside, tree, mishaps>>)
  <2>1. /\ rst[r].pc = "artifacts" /\ Inspects(r) /\ ckpt.rows = rst[r].layout
        /\ rst[r].migrated \/ tree[r]["state"] = "whole"
        /\ \A p \in {"input"} \union rst[r].layout : tree[r][p] = "whole"
        /\ RGoto(r, "publish")
        /\ UNCHANGED <<ckpt, object, target, staged, aside, tree, mishaps>>
    BY <1>2 DEF FinalVerification, RAt
  <2>2. Stands(r)
    BY DEF RSInv
  <2>3. Accepted /\ KnownSchema
    BY <2>1, <2>2 DEF Stands, Staging, Inspected
  <2>4. ckpt \in {Sound, [Sound EXCEPT !.schema = 1]} /\ ckpt.rows = Files
    BY <2>1, <2>3, InspectionIsExact DEF Inspects, RSInv
  <2>5. \A p \in Parts \ {"state"} : tree[r][p] = "whole"
    BY <2>1, <2>4 DEF Parts
  <2>6. StateAsFetched(r)
    BY <2>1, <2>2 DEF Stands, Inspected, Inspects
  <2>7. Whole(r)
    BY <2>4, <2>5, <2>6 DEF Whole
  <2>8. rst'[r].pc = "publish"
    BY <2>1, MovesApart DEF Verified
  <2>9. Stands(r)'
    <3>1. Whole(r)'
      BY <2>1, <2>7 DEF Whole, StateAsFetched
    <3> QED BY <2>1, <2>2, <2>8, <3>1 DEF Stands, Unstaged, Staging, Inspected, Verified, Placed
  <2> QED BY <2>1, <2>9, RestoreMoves DEF Verified, RSInv, RSTypeOK
<1> QED BY <1>1, <1>2

LEMMA RestorerStep ==
    ASSUME RSInv, NEW r \in Restorers, RStep(r)
    PROVE  RSInv'
<1> DEFINE Groups == Unstaged \union Staging \union Verified \union Placed \union GivenUp
<1>a. Stands(r) /\ mishaps \in Int /\ RSTypeOK
  BY DEF RSInv, RSTypeOK
<1> USE DEF RAt
<1>1. CASE Begin(r)
  <2>1. CASE target # Nobody
    BY <1>1, <1>a, <2>1, AbandonKeeps DEF Begin, Placed, GivenUp
  <2>2. CASE target = Nobody
    <3>1. rst[r].pc = "idle" /\ RGoto(r, "manifest")
          /\ UNCHANGED <<ckpt, object, target, staged, aside, tree, mishaps>>
      BY <1>1, <2>2 DEF Begin
    <3>2. rst'[r].pc = "manifest"
      BY <3>1, MovesApart DEF Unstaged
    <3>3. Stands(r)'
      BY <1>a, <3>1, <3>2 DEF Stands, Unstaged, Staging, Inspected, Verified, Placed, Whole, StateAsFetched
    <3> QED BY <1>a, <3>1, <3>3, RestoreMoves DEF Unstaged
  <2> QED BY <2>1, <2>2
<1>2. CASE ReadManifest(r)
  <2>1. CASE RRaise(r) /\ UNCHANGED staged
    BY <1>2, <1>a, <2>1, AbandonKeeps DEF ReadManifest, Placed, GivenUp
  <2>2. CASE ~(RRaise(r) /\ UNCHANGED staged)
    <3>1. /\ rst[r].pc = "manifest" /\ RGoto(r, "state") /\ staged' = staged \union {r}
          /\ Accepted
          /\ UNCHANGED <<ckpt, object, target, aside, tree, mishaps>>
      BY <1>2, <2>2 DEF ReadManifest, Accepted
    <3>2. rst'[r].pc = "state"
      BY <3>1, MovesApart DEF Staging
    <3>3. Stands(r)'
      BY <1>a, <3>1, <3>2
         DEF Stands, Unstaged, Staging, Inspected, Verified, Placed, Accepted, Whole, StateAsFetched
    <3> QED BY <1>a, <3>1, <3>3, RestoreMoves DEF Staging
  <2> QED BY <2>1, <2>2
<1>3. CASE FetchState(r)
  BY <1>3, FetchKeeps DEF FetchState, Parts
<1>4. CASE FetchInput(r)
  BY <1>4, FetchKeeps DEF FetchInput, Parts
<1>5. CASE FetchArtifact(r)
  <2>1. PICK f \in rst[r].layout : Fetch(r, f, "artifacts")
    BY <1>5 DEF FetchArtifact
  <2>2. f \in Parts /\ f # "state"
    BY <1>a, RestoreAssumption DEF RSTypeOK, Parts
  <2> QED BY <1>5, <2>1, <2>2, FetchKeeps DEF FetchArtifact
<1>6. CASE MigrateState(r)
  <2>1. CASE RRaise(r) /\ UNCHANGED tree
    BY <1>6, <1>a, <2>1, AbandonKeeps DEF MigrateState, Placed, GivenUp
  <2>2. CASE ~(RRaise(r) /\ UNCHANGED tree)
    <3>1. /\ rst[r].pc = "migrate" /\ KnownSchema /\ tree[r]["state"] # "damaged"
          /\ tree' = [tree EXCEPT ![r]["state"] = IF ckpt.schema < 2 THEN "migrated" ELSE @]
          /\ rst' = [rst EXCEPT ![r] = [pc |-> "inspect", layout |-> {},
                                        migrated |-> ckpt.schema < 2]]
          /\ UNCHANGED <<ckpt, object, target, staged, aside, mishaps>>
      BY <1>6, <2>2 DEF MigrateState
    <3>2. ckpt.schema \in 1 .. 3
      BY <1>a, SoundTyped DEF RSTypeOK
    <3>3. /\ tree' \in [Restorers -> [Parts -> Conditions]]
          /\ \A v \in Restorers \ {r} : tree'[v] = tree[v]
          /\ tree'[r]["state"] = IF ckpt.schema < 2 THEN "migrated" ELSE tree[r]["state"]
      BY <1>a, <3>1 DEF RSTypeOK, Parts, Conditions
    <3>4. RSTypeOK'
      BY <1>a, <3>1, <3>3 DEF RSTypeOK, Staging
    <3>5. Apart(r)
      BY <1>a, <3>1, <3>3 DEF Apart, RSTypeOK
    <3>6. rst'[r].pc = "inspect" /\ rst'[r].migrated = (ckpt.schema < 2)
      BY <1>a, <3>1 DEF RSTypeOK
    <3>7. tree[r]["state"] = "whole"
      BY <1>a, <3>1 DEF Stands
    <3>8. Stands(r)'
      BY <1>a, <3>1, <3>3, <3>6, <3>7
         DEF Stands, Unstaged, Staging, Inspected, Verified, Placed, Accepted, KnownSchema, StateAsFetched
    <3> QED BY <3>4, <3>5, <3>8, StandingIsEnough
  <2> QED BY <2>1, <2>2
<1>7. CASE InspectState(r)
  <2>1. CASE RRaise(r)
    BY <1>7, <1>a, <2>1, AbandonKeeps DEF InspectState, Placed, GivenUp
  <2>2. CASE ~RRaise(r)
    <3>1. /\ rst[r].pc = "inspect"
          /\ rst' = [rst EXCEPT ![r] = [pc |-> "input", layout |-> ckpt.rows,
                                        migrated |-> rst[r].migrated]]
          /\ UNCHANGED <<ckpt, object, target, staged, aside, tree, mishaps>>
      BY <1>7, <2>2 DEF InspectState
    <3>3. ckpt.rows \subseteq Files
      BY <1>a, SoundTyped DEF RSTypeOK
    <3>5. RSTypeOK'
      BY <1>a, <3>1, <3>3 DEF RSTypeOK, Staging
    <3>6. Apart(r)
      BY <1>a, <3>1 DEF Apart, RSTypeOK
    <3>7. rst'[r].pc = "input" /\ rst'[r].migrated = rst[r].migrated
      BY <1>a, <3>1 DEF RSTypeOK
    <3>8. Stands(r)'
      BY <1>a, <3>1, <3>7
         DEF Stands, Unstaged, Staging, Inspected, Verified, Placed, Accepted, KnownSchema, StateAsFetched
    <3> QED BY <3>5, <3>6, <3>8, StandingIsEnough
  <2> QED BY <2>1, <2>2
<1>8. CASE FinalVerification(r)
  BY <1>8, VerifyKeeps
<1>9. CASE PublishTarget(r)
  <2>1. CASE target # Nobody
    BY <1>9, <1>a, <2>1, AbandonKeeps DEF PublishTarget, Placed, GivenUp
  <2>2. CASE target = Nobody
    <3>1. rst[r].pc = "publish" /\ RGoto(r, "rename")
          /\ UNCHANGED <<ckpt, object, target, staged, aside, tree, mishaps>>
      BY <1>9, <2>2 DEF PublishTarget
    <3>2. rst'[r].pc = "rename"
      BY <3>1, MovesApart DEF Verified
    <3>3. Stands(r)'
      BY <1>a, <3>1, <3>2
         DEF Stands, Unstaged, Staging, Inspected, Verified, Placed, Whole, StateAsFetched
    <3> QED BY <1>a, <3>1, <3>3, RestoreMoves DEF Verified
  <2> QED BY <2>1, <2>2
<1>10. CASE RenameToTarget(r)
  <2>1. CASE target # Nobody /\ RRaise(r) /\ UNCHANGED <<target, staged>>
    BY <1>10, <1>a, <2>1, AbandonKeeps DEF RenameToTarget, Placed, GivenUp
  <2>2. CASE rename_no_replace(r) /\ RGoto(r, "sync")
    <3>1. /\ rst[r].pc = "rename" /\ target = Nobody /\ target' = r /\ staged' = staged \ {r}
          /\ UNCHANGED <<ckpt, object, aside, tree, mishaps>>
      BY <1>10, <2>2 DEF RenameToTarget, rename_no_replace
    <3>2. /\ rst' \in [Restorers -> [pc : Groups, layout : SUBSET Files, migrated : BOOLEAN]]
          /\ rst'[r].pc = "sync"
          /\ \A v \in Restorers \ {r} : rst'[v] = rst[v]
      BY <2>2, MovesApart DEF Placed
    <3>3. RSTypeOK'
      BY <1>a, <3>1, <3>2 DEF RSTypeOK
    <3>4. Apart(r)
      BY <1>a, <3>1, <3>2, RestoreAssumption DEF Apart, RSTypeOK
    <3>5. Whole(r)'
      BY <1>a, <3>1 DEF Stands, Verified, Whole, StateAsFetched
    <3>6. Stands(r)'
      BY <1>a, <3>1, <3>2, <3>5 DEF Stands, Unstaged, Staging, Inspected, Verified, Placed
    <3> QED BY <3>3, <3>4, <3>6, StandingIsEnough
  <2> QED BY <1>10, <2>1, <2>2 DEF RenameToTarget
<1>11. CASE SyncTarget(r)
  <2>1. PICK pc \in {"returned", "rollback"} :
          /\ RGoto(r, pc) /\ mishaps' \in Int /\ mishaps' <= mishaps
          /\ pc = "rollback" => mishaps' < MaxMishaps
    BY <1>11, <1>a, RestoreAssumption DEF SyncTarget, Mishap, RSTypeOK
  <2>2. rst[r].pc = "sync" /\ UNCHANGED <<ckpt, object, target, staged, aside, tree>>
    BY <1>11 DEF SyncTarget
  <2>3. rst'[r].pc = pc
    BY <2>1, MovesApart DEF Placed
  <2>4. Stands(r)'
    BY <1>a, <2>1, <2>2, <2>3
       DEF Stands, Unstaged, Staging, Inspected, Verified, Placed, Whole, StateAsFetched
  <2> QED BY <2>1, <2>2, <2>4, RestoreMoves DEF Placed
<1>12. CASE Rollback(r)
  <2>1. /\ rst[r].pc = "rollback" /\ RGoto(r, "remove") /\ UNCHANGED <<ckpt, object, tree>>
    BY <1>12 DEF Rollback, RRaise
  <2>2. /\ rst' \in [Restorers -> [pc : Groups, layout : SUBSET Files, migrated : BOOLEAN]]
        /\ rst'[r].pc = "remove"
        /\ \A v \in Restorers \ {r} : rst'[v] = rst[v]
    BY <2>1, MovesApart DEF GivenUp
  <2>3. target = r /\ mishaps < MaxMishaps /\ r \notin aside
    BY <1>a, <2>1 DEF Stands, Placed
  <2>4. /\ target' \in {target, Nobody} /\ staged' \in {staged, staged \union {r}}
        /\ aside' \in {aside, aside \union {r}}
        /\ mishaps' \in Int /\ mishaps' <= mishaps
        /\ target' = r => mishaps' < MaxMishaps - 1
        /\ r \in aside' => mishaps' < MaxMishaps - 1
    BY <1>12, <1>a, <2>3, RestoreAssumption DEF Rollback, Mishap, RSTypeOK
  <2>5. RSTypeOK'
    BY <1>a, <2>1, <2>2, <2>4, RestoreAssumption DEF RSTypeOK
  <2>6. Apart(r)
    BY <1>a, <2>1, <2>2, <2>3, <2>4, RestoreAssumption DEF Apart, RSTypeOK
  <2>7. Stands(r)'
    BY <1>a, <2>1, <2>2, <2>3, <2>4
       DEF Stands, Unstaged, Staging, Inspected, Verified, Placed, Whole, StateAsFetched
  <2> QED BY <2>5, <2>6, <2>7, StandingIsEnough
<1>13. CASE RemoveStaging(r)
  <2>1. /\ rst[r].pc = "remove" /\ RGoto(r, "raised")
        /\ UNCHANGED <<ckpt, object, target, aside, tree>>
        /\ staged' \in {staged, staged \ {r}}
    BY <1>13 DEF RemoveStaging
  <2>2. /\ mishaps' \in Int /\ mishaps' <= mishaps
        /\ r \in staged' => mishaps' < MaxMishaps
    BY <1>13, <1>a, RestoreAssumption DEF RemoveStaging, Mishap, RSTypeOK
  <2>3. rst'[r].pc = "raised"
    BY <2>1, MovesApart DEF GivenUp
  <2>4. mishaps < MaxMishaps - 1 => mishaps' < MaxMishaps - 1
    BY <1>a, <2>2, RestoreAssumption
  <2>5. Stands(r)'
    BY <1>a, <2>1, <2>2, <2>3, <2>4
       DEF Stands, Unstaged, Staging, Inspected, Verified, Placed, Whole, StateAsFetched
  <2> QED BY <2>1, <2>2, <2>5, RestoreMoves DEF GivenUp
<1>14. CASE CallFails(r)
  <2>1. mishaps' \in Int /\ mishaps' <= mishaps
    BY <1>14, <1>a DEF CallFails, Mishap
  <2> QED BY <1>14, <2>1, AbandonKeeps DEF CallFails, Placed, GivenUp
<1>15. CASE Killed(r)
  <2>1. mishaps' \in Int /\ mishaps' <= mishaps
    BY <1>15, <1>a DEF Killed, Mishap
  <2>2. RGoto(r, "dead") /\ UNCHANGED <<ckpt, object, target, staged, aside, tree>>
    BY <1>15 DEF Killed
  <2>3. rst'[r].pc = "dead"
    BY <2>2, MovesApart DEF GivenUp
  <2>4. Stands(r)'
    BY <1>a, <2>2, <2>3
       DEF Stands, Unstaged, Staging, Inspected, Verified, Placed, Whole, StateAsFetched
  <2> QED BY <2>1, <2>2, <2>4, RestoreMoves DEF GivenUp
<1>16. CASE DamageStaged(r)
  <2>1. PICK p \in Parts, how \in {"damaged", "altered"} :
          /\ tree' = [tree EXCEPT ![r][p] = how]
          /\ how = "altered" => tree[r][p] = "migrated"
    BY <1>16 DEF DamageStaged
  <2>2. /\ rst[r].pc \in {"migrate", "inspect", "input", "artifacts"}
        /\ mishaps' \in Int /\ mishaps' <= mishaps
        /\ UNCHANGED <<ckpt, object, target, staged, aside, rst>>
    BY <1>16, <1>a DEF DamageStaged, Mishap
  <2>3. RSTypeOK'
    BY <1>a, <2>1, <2>2, RestoreAssumption DEF RSTypeOK, Conditions
  <2>4. Apart(r)
    BY <1>a, <2>1, <2>2 DEF Apart, RSTypeOK
  <2>5. \/ tree'[r]["state"] = tree[r]["state"]
        \/ tree'[r]["state"] = "damaged"
        \/ tree'[r]["state"] = "altered" /\ tree[r]["state"] = "migrated"
    BY <1>a, <2>1 DEF RSTypeOK
  <2>6. Stands(r)'
    BY <1>a, <2>2, <2>5
       DEF Stands, Unstaged, Staging, Inspected, Verified, Placed, Accepted, KnownSchema, StateAsFetched
  <2> QED BY <2>3, <2>4, <2>6, StandingIsEnough
<1> QED
  BY <1>1, <1>2, <1>3, <1>4, <1>5, <1>6, <1>7, <1>8, <1>9, <1>10, <1>11, <1>12, <1>13, <1>14,
     <1>15, <1>16 DEF RStep

LEMMA RSStep == RSInv /\ [RSNext]_rsVars => RSInv'
<1> SUFFICES ASSUME RSInv, [RSNext]_rsVars PROVE RSInv'
  OBVIOUS
<1>1. CASE DamageObject
  <2>1. /\ mishaps' \in Int /\ mishaps' <= mishaps
        /\ UNCHANGED <<ckpt, target, staged, aside, tree, rst>>
    BY <1>1 DEF DamageObject, Mishap, RSInv, RSTypeOK
  <2>2. RSTypeOK'
    BY <2>1, RestoreAssumption DEF RSInv, RSTypeOK
  <2>3. mishaps < MaxMishaps => mishaps' < MaxMishaps
    BY <2>1, RestoreAssumption DEF RSInv, RSTypeOK
  <2>4. mishaps < MaxMishaps - 1 => mishaps' < MaxMishaps - 1
    BY <2>1, RestoreAssumption DEF RSInv, RSTypeOK
  <2>5. \A r \in Restorers : Stands(r)'
    BY <2>1, <2>3, <2>4 DEF RSInv, Stands, Whole, StateAsFetched, Accepted, KnownSchema
  <2> QED BY <2>2, <2>5 DEF RSInv
<1>2. CASE UNCHANGED rsVars
  BY <1>2 DEF rsVars, RSInv, RSTypeOK, Stands, Whole, StateAsFetched, Accepted, KnownSchema
<1> QED BY <1>1, <1>2, RestorerStep DEF RSNext

\* Whatever has the target's name is the checkpoint, and restore tells the truth
\* about it, for any number of calls, artifacts, failures and damages.
THEOREM TargetsAreExact == RSSpec => []TargetIsExact
<1>1. ASSUME RSInv PROVE TargetIsExact
  <2>1. Exact
    <3> SUFFICES ASSUME target # Nobody PROVE Exact
      BY DEF Exact
    <3>1. Whole(target)
      BY <1>1 DEF RSInv, RSTypeOK, Stands
    <3>2. ckpt.schema \in {1, 2}
      BY <3>1 DEF Whole, Sound
    <3> QED BY <3>1, <3>2 DEF Whole, StateAsFetched, Exact
  <2>2. \A r \in Restorers : RAt(r, "returned") => target = r
    BY <1>1 DEF RSInv, Stands, RAt, Placed
  <2>3. \A r \in Restorers : RAt(r, "raised") /\ mishaps > MaxMishaps - 2 =>
              target # r /\ (r \in staged \union aside => mishaps < MaxMishaps)
    BY <1>1, RestoreAssumption DEF RSInv, RSTypeOK, Stands, RAt
  <2> QED BY <2>1, <2>2, <2>3 DEF TargetIsExact
<1> QED BY <1>1, RSInitInv, RSStep, PTL DEF RSSpec

-----------------------------------------------------------------------------
\* Renders.

Contained == {"none", "partial", "broken", "misshapen", "good", "foreign", "swapped"}
Unnamed == {"idle", "probe source", "digest tts", "stage", "encode", "claim", "pin", "decode",
            "probe output", "verify", "publish"}
Linked == {"sync", "check"}

MRTypeOK ==
    /\ host \in {"posix", "windows"}
    /\ final \in Renderers \union {Free, Stranger}
    /\ entry \in BOOLEAN /\ outage \in BOOLEAN
    /\ out \in [Renderers -> Contained]
    /\ synced \subseteq Renderers /\ tampered \subseteq Renderers
    /\ rnd \in [Renderers -> [pc : Unnamed \union Linked \union {"returned", "raised", "dead"},
                              digest : Contained]]

OnDisk(r) == host = "posix" => r \in synced
Touched(r) == host = "posix" /\ r \in tampered

\* What is known of a render: what it validated is what it staged, and on disk
\* where that is promised, unless somebody wrote to it since; then it is not
\* what was validated.  From its link on it has the name.
Holds(r) ==
    /\ r \notin tampered => out[r] # "foreign" /\ rnd[r].digest # "foreign"
    /\ rnd[r].pc \in {"verify", "publish"} \union Linked => rnd[r].digest \in MatchesPlan
    /\ rnd[r].pc \in {"publish", "returned"} \union Linked =>
         (out[r] = rnd[r].digest /\ OnDisk(r)) \/ (Touched(r) /\ out[r] # rnd[r].digest)
    /\ rnd[r].pc \in Unnamed => final # r
    /\ rnd[r].pc \in {"returned"} \union Linked => final = r
    /\ rnd[r].pc \in {"check", "returned"} /\ host = "posix" => entry
    /\ rnd[r].pc = "returned" => out[r] = rnd[r].digest
    /\ final = r => Touched(r) \/ (out[r] \in MatchesPlan /\ OnDisk(r))

MRInv == MRTypeOK /\ (Promised => \A r \in Renderers : Holds(r))

LEMMA MRInitInv == MRInit => MRInv
<1> SUFFICES ASSUME MRInit PROVE MRInv
  OBVIOUS
<1>1. entry \in BOOLEAN
  BY DEF MRInit
<1>2. MRTypeOK
  BY <1>1 DEF MRInit, MRTypeOK, NotRendering, Contained, Unnamed
<1>3. \A r \in Renderers : Holds(r)
  BY RenderAssumption DEF MRInit, Holds, NotRendering, Unnamed, Linked
<1> QED BY <1>2, <1>3 DEF MRInv

\* What a render does to the others: at most it takes a free name.
Minds(r) ==
    /\ UNCHANGED <<host, outage>>
    /\ \A v \in Renderers \ {r} :
         /\ rnd'[v] = rnd[v] /\ out'[v] = out[v]
         /\ v \in synced' <=> v \in synced
         /\ v \in tampered' <=> v \in tampered
    /\ final' = final \/ (final = Free /\ final' = r)
    /\ entry => entry' \/ final = Free

LEMMA OthersHold ==
    ASSUME NEW r \in Renderers, NEW v \in Renderers, v # r, Minds(r), Holds(v)
    PROVE  Holds(v)'
BY RenderAssumption DEF Minds, Holds, Touched, OnDisk, Linked

LEMMA MindingIsEnough ==
    ASSUME MRInv, NEW r \in Renderers, MRTypeOK', Minds(r), Promised => Holds(r)'
    PROVE  MRInv'
BY OthersHold DEF MRInv, Promised, Minds

\* A render that gives up leaves only what already has the name.
LEMMA GiveUpKeeps ==
    ASSUME MRInv, NEW r \in Renderers, GiveUp(r)
    PROVE  MRInv'
<1>1. MRTypeOK'
  BY DEF GiveUp, MGoto, MRInv, MRTypeOK, Contained
<1>2. Minds(r)
  BY DEF GiveUp, MGoto, Minds, MRInv, MRTypeOK
<1>3. Promised => Holds(r)'
  BY DEF GiveUp, MGoto, MRInv, MRTypeOK, Holds, Touched, OnDisk, Unnamed, Linked
<1> QED BY <1>1, <1>2, <1>3, MindingIsEnough

LEMMA FailureKeeps ==
    ASSUME MRInv, NEW r \in Renderers, StepFails(r) \/ KilledAt(r)
    PROVE  MRInv'
<1>1. PICK pc \in {"raised", "dead"} :
        /\ MGoto(r, pc)
        /\ out' = IF final = r THEN out ELSE [out EXCEPT ![r] = "none"]
        /\ UNCHANGED <<host, input, final, entry, synced, tampered, outage>>
  BY DEF StepFails, KilledAt
<1>2. MRTypeOK'
  BY <1>1 DEF MGoto, MRInv, MRTypeOK, Contained
<1>3. Minds(r)
  BY <1>1 DEF MGoto, Minds, MRInv, MRTypeOK
<1>4. Promised => Holds(r)'
  BY <1>1 DEF MGoto, MRInv, MRTypeOK, Holds, Touched, OnDisk, Unnamed, Linked
<1> QED BY <1>2, <1>3, <1>4, MindingIsEnough

\* A step that only moves a render on among what has no name.
LEMMA RenderMoves ==
    ASSUME MRInv, NEW r \in Renderers, NEW pc, MGoto(r, pc),
           pc \in Unnamed \ {"verify", "publish"}, rnd[r].pc \in Unnamed,
           UNCHANGED <<host, final, entry, out, synced, tampered, outage>>
    PROVE  MRInv'
<1>1. MRTypeOK'
  BY DEF MGoto, MRInv, MRTypeOK
<1>2. Minds(r)
  BY DEF MGoto, Minds, MRInv, MRTypeOK
<1>3. Promised => Holds(r)'
  BY DEF MGoto, MRInv, MRTypeOK, Holds, Touched, OnDisk, Unnamed, Linked
<1> QED BY <1>1, <1>2, <1>3, MindingIsEnough

LEMMA RenderKeeps ==
    ASSUME MRInv, NEW r \in Renderers, Render(r)
    PROVE  MRInv'
<1> USE DEF MAt
<1>1. ASSUME NEW from \in Unnamed, NEW to \in Unnamed \ {"verify", "publish"},
             _destination(r, from, to)
      PROVE  MRInv'
  <2>1. CASE final # Free
    BY <1>1, <2>1, GiveUpKeeps DEF _destination
  <2>2. CASE final = Free
    <3>1. MRTypeOK'
      BY <1>1, <2>2 DEF _destination, MGoto, MRInv, MRTypeOK, Contained
    <3>2. Minds(r)
      BY <1>1, <2>2 DEF _destination, MGoto, Minds, MRInv, MRTypeOK
    <3>3. Promised => Holds(r)'
      <4>1. /\ rnd'[r].pc = to /\ rnd'[r].digest = rnd[r].digest /\ out'[r] = "partial"
            /\ UNCHANGED <<host, final, entry, synced, tampered>>
        BY <1>1, <2>2 DEF _destination, MGoto, MRInv, MRTypeOK
      <4>2. final # r
        BY <2>2, RenderAssumption
      <4> QED BY <4>1, <4>2 DEF MRInv, Holds, Unnamed, Linked
    <3> QED BY <3>1, <3>2, <3>3, MindingIsEnough
  <2> QED BY <2>1, <2>2
<1>2. ASSUME NEW from \in Unnamed, NEW to \in Unnamed \ {"verify", "publish"}, NEW ok,
             Accept(r, from, ok, to)
      PROVE  MRInv'
  BY <1>2, GiveUpKeeps, RenderMoves DEF Accept
<1>3. CASE BeginRender(r)
  BY <1>1, <1>3, RenderMoves DEF BeginRender, Unnamed
<1>4. CASE _matches_plan(r)
  BY <1>2, <1>4 DEF _matches_plan, Unnamed
<1>5. CASE DigestTts(r)
  BY <1>2, <1>5 DEF DigestTts, Unnamed
<1>6. CASE Stage(r)
  BY <1>1, <1>6 DEF Stage, Unnamed
<1>7. CASE Encode(r)
  <2>1. PICK made \in {"broken", "misshapen", "good"} : out' = [out EXCEPT ![r] = made]
    BY <1>7 DEF Encode
  <2>2. MRTypeOK'
    BY <1>7, <2>1 DEF Encode, MGoto, MRInv, MRTypeOK, Contained, Unnamed
  <2>3. Minds(r)
    BY <1>7, <2>1 DEF Encode, MGoto, Minds, MRInv, MRTypeOK
  <2>4. Promised => Holds(r)'
    BY <1>7, <2>1 DEF Encode, MGoto, MRInv, MRTypeOK, Holds, Touched, OnDisk, Unnamed, Linked
  <2> QED BY <2>2, <2>3, <2>4, MindingIsEnough
<1>8. CASE claim_output(r) \/ pin(r) \/ Decode(r)
  BY <1>2, <1>8 DEF claim_output, pin, Decode, Unnamed
<1>9. CASE ProbeOutput(r)
  <2>1. CASE out[r] \notin MatchesPlan
    BY <1>9, <2>1, GiveUpKeeps DEF ProbeOutput
  <2>2. CASE out[r] \in MatchesPlan
    <3>1. /\ rnd' = [rnd EXCEPT ![r] = [pc |-> "verify", digest |-> out[r]]]
          /\ UNCHANGED <<host, input, final, entry, out, synced, tampered, outage, troubles>>
      BY <1>9, <2>2 DEF ProbeOutput
    <3>2. MRTypeOK'
      BY <3>1 DEF MRInv, MRTypeOK, Unnamed
    <3>3. Minds(r)
      BY <3>1 DEF Minds, MRInv, MRTypeOK
    <3>4. Promised => Holds(r)'
      BY <1>9, <2>2, <3>1 DEF ProbeOutput, MRInv, MRTypeOK, Holds, Touched, OnDisk, Unnamed, Linked
    <3> QED BY <3>2, <3>3, <3>4, MindingIsEnough
  <2> QED BY <2>1, <2>2
<1>10. CASE verify(r)
  <2>1. CASE out[r] # rnd[r].digest
    BY <1>10, <2>1, GiveUpKeeps DEF verify
  <2>2. CASE out[r] = rnd[r].digest
    <3>1. MRTypeOK'
      BY <1>10, <2>2 DEF verify, MGoto, MRInv, MRTypeOK, Unnamed
    <3>2. Minds(r)
      BY <1>10, <2>2 DEF verify, MGoto, Minds, MRInv, MRTypeOK
    <3>3. Promised => Holds(r)'
      <4>1. /\ rnd'[r].pc = "publish" /\ rnd'[r].digest = rnd[r].digest /\ rnd[r].pc = "verify"
            /\ UNCHANGED <<host, final, entry, out, tampered>>
        BY <1>10, <2>2 DEF verify, MGoto, MRInv, MRTypeOK
      <4>2. host = "posix" => r \in synced'
        BY <1>10, <2>2 DEF verify
      <4> QED BY <2>2, <4>1, <4>2 DEF MRInv, Holds, OnDisk, Unnamed, Linked
    <3> QED BY <3>1, <3>2, <3>3, MindingIsEnough
  <2> QED BY <2>1, <2>2
<1>11. ASSUME NEW to \in Linked, LinkNew(r, to), rnd[r].pc = "publish",
              host = "posix" => to = "sync"
       PROVE  MRInv'
  <2>1. CASE final # Free
    BY <1>11, <2>1, GiveUpKeeps DEF LinkNew
  <2>2. CASE final = Free
    <3>1. MRTypeOK'
      BY <1>11, <2>2 DEF LinkNew, MGoto, MRInv, MRTypeOK
    <3>2. Minds(r)
      BY <1>11, <2>2 DEF LinkNew, MGoto, Minds, MRInv, MRTypeOK
    <3>3. Promised => Holds(r)'
      <4>1. /\ rnd'[r].pc = to /\ rnd'[r].digest = rnd[r].digest /\ final' = r
            /\ UNCHANGED <<host, out, synced, tampered>>
        BY <1>11, <2>2 DEF LinkNew, MGoto, MRInv, MRTypeOK
      <4> QED BY <1>11, <4>1 DEF MRInv, Holds, Touched, OnDisk, Unnamed, Linked
    <3> QED BY <3>1, <3>2, <3>3, MindingIsEnough
  <2> QED BY <2>1, <2>2
<1>12. CASE publish_render(r)
  BY <1>11, <1>12 DEF publish_render, Linked
<1>13. CASE SyncName(r)
  <2>1. MRTypeOK'
    BY <1>13 DEF SyncName, MGoto, MRInv, MRTypeOK, Linked
  <2>2. Minds(r)
    BY <1>13 DEF SyncName, MGoto, Minds, MRInv, MRTypeOK
  <2>3. Promised => Holds(r)'
    BY <1>13 DEF SyncName, MGoto, MRInv, MRTypeOK, Holds, Touched, OnDisk, Unnamed, Linked
  <2> QED BY <2>1, <2>2, <2>3, MindingIsEnough
<1>14. CASE _verify_published(r)
  <2>1. CASE ~(final = r /\ out[r] = rnd[r].digest)
    BY <1>14, <2>1, GiveUpKeeps DEF _verify_published, Accept
  <2>2. CASE final = r /\ out[r] = rnd[r].digest
    <3>1. /\ rnd[r].pc = "check" /\ MGoto(r, "returned")
          /\ UNCHANGED <<host, input, final, entry, out, synced, tampered, outage, troubles>>
      BY <1>14, <2>2 DEF _verify_published, Accept
    <3>2. MRTypeOK'
      BY <3>1 DEF MGoto, MRInv, MRTypeOK
    <3>3. Minds(r)
      BY <3>1 DEF MGoto, Minds, MRInv, MRTypeOK
    <3>4. Promised => Holds(r)'
      BY <2>2, <3>1 DEF MGoto, MRInv, MRTypeOK, Holds, Touched, OnDisk, Unnamed, Linked
    <3> QED BY <3>2, <3>3, <3>4, MindingIsEnough
  <2> QED BY <2>1, <2>2
<1> QED
  BY <1>3, <1>4, <1>5, <1>6, <1>7, <1>8, <1>9, <1>10, <1>12, <1>13, <1>14
     DEF Render, validate_render

LEMMA TamperKeeps ==
    ASSUME MRInv, NEW r \in Renderers, Tamper(r)
    PROVE  MRInv'
<1>1. PICK bytes \in {"foreign", "swapped"} :
        /\ out' = [out EXCEPT ![r] = bytes]
        /\ host = "posix" => bytes = "foreign"
        /\ host = "windows" => rnd[r].pc \in {"claim", "pin"}
  BY DEF Tamper, Unpinned, MAt, MRInv, MRTypeOK
<1>2. /\ r \notin tampered /\ final # r
      /\ tampered' = tampered \union {r} /\ synced' = synced \ {r}
      /\ UNCHANGED <<host, input, final, entry, rnd, outage>>
  BY DEF Tamper
<1>3. MRTypeOK'
  BY <1>1, <1>2 DEF MRInv, MRTypeOK, Contained
<1>4. Minds(r)
  BY <1>1, <1>2 DEF Minds, MRInv, MRTypeOK
<1>5. Promised => Holds(r)'
  BY <1>1, <1>2 DEF MRInv, MRTypeOK, Holds, Touched, OnDisk, Unnamed, Linked
<1> QED BY <1>3, <1>4, <1>5, MindingIsEnough

LEMMA OutageKeeps == ASSUME MRInv, PowerGoes PROVE MRInv'
<1>1. PICK lost \in BOOLEAN :
        /\ lost => ~entry
        /\ final' = IF lost THEN Free ELSE final
        /\ \E torn \in SUBSET (Renderers \ synced) :
            out' = [r \in Renderers |-> IF r # final' THEN "none"
                                        ELSE IF r \in torn THEN "broken" ELSE out[r]]
  BY DEF PowerGoes
<1>2. /\ outage' = TRUE /\ entry' = (final' # Free) /\ synced' = Renderers
      /\ rnd' = [r \in Renderers |-> IF Working(r) THEN [rnd[r] EXCEPT !.pc = "dead"] ELSE rnd[r]]
      /\ UNCHANGED <<host, input, tampered>>
  BY DEF PowerGoes
<1>3. MRTypeOK'
  BY <1>1, <1>2 DEF MRInv, MRTypeOK, Contained
<1>4. ASSUME Promised', NEW r \in Renderers PROVE Holds(r)'
  <2>1. host = "posix" /\ host' = host /\ Holds(r)
    BY <1>2, <1>4 DEF Promised, MRInv
  <2>2. CASE rnd[r].pc \in {"idle", "raised", "dead"} \/ Working(r)
    <3>1. rnd'[r].pc \in {"idle", "raised", "dead"} /\ rnd'[r].digest = rnd[r].digest
      BY <1>2, <2>2 DEF MRInv, MRTypeOK, Working
    <3>2. rnd'[r].pc = "idle" => rnd[r].pc = "idle"
      BY <1>2, <2>2 DEF MRInv, MRTypeOK, Working
    <3>3. out'[r] \in {"none", "broken"} \/ out'[r] = out[r]
      BY <1>1
    <3>4. final' = r => /\ final = r
                        /\ r \in synced => out'[r] = out[r]
      BY <1>1, RenderAssumption
    <3> QED BY <1>2, <2>1, <3>1, <3>2, <3>3, <3>4
            DEF Holds, Unnamed, Linked, OnDisk, Touched
  <2>3. CASE rnd[r].pc = "returned"
    <3>1. rnd'[r] = rnd[r]
      BY <1>2, <2>3 DEF Working
    <3>2. final = r /\ entry /\ r \in synced
      BY <2>1, <2>3 DEF Holds, OnDisk
    <3>3. final' = r /\ out'[r] = out[r]
      BY <1>1, <3>2
    <3>4. entry'
      BY <1>2, <3>3, RenderAssumption
    <3> QED BY <1>2, <2>1, <2>3, <3>1, <3>2, <3>3, <3>4
            DEF Holds, Unnamed, Linked, OnDisk, Touched
  <2> QED BY <2>2, <2>3 DEF Working
<1> QED BY <1>3, <1>4 DEF MRInv

LEMMA MRStep == MRInv /\ [MRNext]_mrVars => MRInv'
<1> SUFFICES ASSUME MRInv, [MRNext]_mrVars PROVE MRInv'
  OBVIOUS
<1>1. ASSUME NEW name \in {"source", "tts"}, EditInput(name) PROVE MRInv'
  BY <1>1 DEF EditInput, MRInv, MRTypeOK, Holds, Promised, OnDisk, Touched
<1>2. CASE StrangerCreates
  BY <1>2, RenderAssumption
     DEF StrangerCreates, MRInv, MRTypeOK, Holds, Promised, OnDisk, Touched, Linked
<1>3. CASE UNCHANGED mrVars
  BY <1>3 DEF mrVars, MRInv, MRTypeOK, Holds, Promised, OnDisk, Touched
<1> QED
  BY <1>1, <1>2, <1>3, RenderKeeps, FailureKeeps, TamperKeeps, OutageKeeps DEF MRNext

\* What a render gave the name is the validated file, and a render that returned
\* has it, for any number of renders, edits, deaths and failing calls.
THEOREM NamesAreSound == MRSpec => []NamedIsSound
<1>1. MRInv => NamedIsSound
  BY DEF MRInv, Holds, NamedIsSound, MAt, Touched, MRTypeOK
<1> QED BY <1>1, MRInitInv, MRStep, PTL DEF MRSpec

-----------------------------------------------------------------------------
\* Tools.

Alive == {"wait", "kill", "join"}
Over == {"close stdout", "close stderr", "settle", "returned"}

TCTypeOK ==
    /\ DOMAIN tool = {"state", "code", "script", "killable"}
    /\ tool.script \in Seq(Streams)
    /\ DOMAIN heir = {"state", "writes"}
    /\ pipe \in [Streams -> Nat] /\ written \in [Streams -> Nat]
    /\ capture \in [Streams -> [raw : Nat, truncated : BOOLEAN]]
    /\ reader \in [Streams -> {"between", "inside", "done"}]
    /\ open \subseteq Streams
    /\ caller \in [pc : {"idle", "raised"} \union Alive \union Over,
                   timedOut : BOOLEAN, forced : BOOLEAN]

\* A reader came to the end: everything written was read or thrown away.
AtTheEnd(s) == /\ reader[s] = "done" /\ ~Held
               /\ ~capture[s].truncated => capture[s].raw = written[s]

\* Nothing is lost between a tool and the capture while the pipes are open, a
\* reader that is done saw the end of all that hold its pipe, and a caller that
\* did not have to force its readers found both done.
Reading ==
    /\ caller.pc = "idle" => \A s \in Streams : pipe[s] = 0 /\ written[s] = 0 /\ capture[s].raw = 0
    /\ caller.pc = "idle" => ~Held /\ tool.code = "none"
    /\ tool.state = "running" => tool.code = "none"
    /\ caller.pc \in Alive =>
         /\ open = Streams
         /\ \A s \in Streams :
              /\ ~capture[s].truncated => capture[s].raw + pipe[s] = written[s]
              /\ reader[s] = "done" => AtTheEnd(s)
    /\ caller.pc \in Over /\ ~caller.forced => \A s \in Streams : AtTheEnd(s)
    /\ caller.pc = "returned" =>
         /\ ~caller.forced /\ ~caller.timedOut /\ tool.code = "zero"
         /\ ~capture["stdout"].truncated

TCInv == TCTypeOK /\ Reading

LEMMA TCInitInv == TCInit => TCInv
BY DEF TCInit, TCInv, TCTypeOK, Reading, Held, Streams, Alive, Over

\* A chunk for a pipe that is read is in it, and nobody is at the end of one
\* that somebody holds.
LEMMA FillKeeps ==
    ASSUME TCInv, NEW s \in Streams, Fill(s), Held, Held',
           DOMAIN tool' = DOMAIN tool, tool'.script \in Seq(Streams),
           tool'.state = tool.state, tool'.code = tool.code,
           DOMAIN heir' = DOMAIN heir, UNCHANGED <<capture, reader, open, caller>>
    PROVE  TCInv'
<1>1. /\ pipe' \in [Streams -> Nat] /\ written' \in [Streams -> Nat]
      /\ open = Streams => \A t \in Streams :
            \E more \in {0, 1} : pipe'[t] = pipe[t] + more /\ written'[t] = written[t] + more
  BY DEF Fill, TCInv, TCTypeOK
<1>2. TCTypeOK'
  BY <1>1 DEF TCInv, TCTypeOK
<1>3. caller.pc # "idle" /\ \A t \in Streams : ~AtTheEnd(t)
  BY DEF TCInv, TCTypeOK, Reading, AtTheEnd
<1>4. caller.pc \in Alive =>
        /\ open' = Streams
        /\ \A t \in Streams :
             /\ ~capture'[t].truncated => capture'[t].raw + pipe'[t] = written'[t]
             /\ reader'[t] # "done"
  <2> SUFFICES ASSUME caller.pc \in Alive, NEW t \in Streams
               PROVE  /\ open' = Streams /\ reader'[t] # "done"
                      /\ ~capture'[t].truncated => capture'[t].raw + pipe'[t] = written'[t]
    BY DEF TCInv, Reading
  <2>1. open = Streams /\ reader[t] # "done"
    BY <1>3 DEF TCInv, Reading
  <2>2. ~capture[t].truncated => capture[t].raw + pipe[t] = written[t]
    BY DEF TCInv, Reading
  <2>3. capture[t].raw \in Nat /\ pipe[t] \in Nat /\ written[t] \in Nat
    BY DEF TCInv, TCTypeOK
  <2>4. PICK more \in {0, 1} : pipe'[t] = pipe[t] + more /\ written'[t] = written[t] + more
    BY <1>1, <2>1
  <2>5. more \in Nat
    OBVIOUS
  <2> QED BY <2>1, <2>2, <2>3, <2>4, <2>5
<1>5. caller.pc \in Over => caller.forced
  BY <1>3 DEF TCInv, Reading, Streams
<1> QED BY <1>2, <1>3, <1>4, <1>5 DEF TCInv, TCTypeOK, Reading

\* One chunk is taken from the pipe into the capture, or too much and dropped.
LEMMA ConsumeKeeps ==
    ASSUME TCInv, NEW s \in Streams, consume(s)
    PROVE  TCInv'
<1>1. CASE pipe[s] > 0
  <2>1. /\ pipe' = [pipe EXCEPT ![s] = @ - 1]
        /\ reader' = [reader EXCEPT ![s] = "between"]
        /\ UNCHANGED <<tool, heir, written, open, caller>>
    BY <1>1 DEF consume
  <2>2. PICK c \in [raw : Nat, truncated : BOOLEAN] :
          /\ capture' = [capture EXCEPT ![s] = c]
          /\ \/ c.raw = capture[s].raw + 1 /\ c.truncated = capture[s].truncated
             \/ c.truncated
    <3>1. capture[s].raw < Limit =>
            capture' = [capture EXCEPT ![s].raw = @ + 1]
      BY <1>1 DEF consume
    <3>2. ~(capture[s].raw < Limit) =>
            capture' = [capture EXCEPT ![s].truncated = TRUE]
      BY <1>1 DEF consume
    <3>3. capture[s] \in [raw : Nat, truncated : BOOLEAN] /\ DOMAIN capture = Streams
      BY DEF TCInv, TCTypeOK
    <3>4. CASE capture[s].raw < Limit
      <4> DEFINE c == [raw |-> capture[s].raw + 1, truncated |-> capture[s].truncated]
      <4>1. c \in [raw : Nat, truncated : BOOLEAN]
        BY <3>3
      <4>2. capture' = [capture EXCEPT ![s] = c]
        BY <3>1, <3>3, <3>4
      <4> QED BY <4>1, <4>2
    <3>5. CASE ~(capture[s].raw < Limit)
      <4> DEFINE c == [raw |-> capture[s].raw, truncated |-> TRUE]
      <4>1. c \in [raw : Nat, truncated : BOOLEAN]
        BY <3>3
      <4>2. capture' = [capture EXCEPT ![s] = c]
        BY <3>2, <3>3, <3>5
      <4> QED BY <4>1, <4>2
    <3> QED BY <3>4, <3>5
  <2>3. TCTypeOK'
    BY <1>1, <2>1, <2>2 DEF TCInv, TCTypeOK
  <2>4. reader[s] = "inside"
    BY DEF consume
  <2>5. \A t \in Streams : t # s =>
          /\ pipe'[t] = pipe[t] /\ capture'[t] = capture[t] /\ reader'[t] = reader[t]
    BY <2>1, <2>2 DEF TCInv, TCTypeOK
  <2>6. pipe'[s] = pipe[s] - 1 /\ capture'[s] = c /\ reader'[s] = "between"
    BY <2>1, <2>2 DEF TCInv, TCTypeOK
  <2>7. (caller.pc \in Over => caller.forced) /\ caller.pc \notin {"returned", "idle"}
    <3>1. ~AtTheEnd(s)
      BY <2>4 DEF AtTheEnd
    <3>2. caller.pc # "idle"
      BY <1>1 DEF TCInv, Reading
    <3> QED BY <3>1, <3>2 DEF TCInv, Reading, Over
  <2>8. caller.pc \in Alive => \A t \in Streams :
          /\ ~capture'[t].truncated => capture'[t].raw + pipe'[t] = written'[t]
          /\ reader'[t] = "done" => AtTheEnd(t)'
    <3> SUFFICES ASSUME caller.pc \in Alive, NEW t \in Streams
                 PROVE  /\ ~capture'[t].truncated => capture'[t].raw + pipe'[t] = written'[t]
                        /\ reader'[t] = "done" => AtTheEnd(t)'
      OBVIOUS
    <3>1. /\ ~capture[t].truncated => capture[t].raw + pipe[t] = written[t]
          /\ reader[t] = "done" => AtTheEnd(t)
      BY DEF TCInv, Reading
    <3>2. CASE t = s
      <4>1. reader'[t] # "done"
        BY <2>6, <3>2
      <4>2. capture[s].raw \in Nat /\ pipe[s] \in Nat /\ c.raw \in Nat /\ written[s] \in Nat
        BY DEF TCInv, TCTypeOK
      <4>3. ~c.truncated => c.raw = capture[s].raw + 1 /\ ~capture[s].truncated
        BY <2>2
      <4> QED BY <2>1, <2>6, <3>1, <3>2, <4>1, <4>2, <4>3
    <3>3. CASE t # s
      BY <2>1, <2>5, <3>1, <3>3 DEF AtTheEnd, Held
    <3> QED BY <3>2, <3>3
  <2> QED BY <2>1, <2>3, <2>7, <2>8 DEF TCInv, Reading
<1>2. CASE ~(pipe[s] > 0)
  <2>1. /\ reader' = [reader EXCEPT ![s] = "done"] /\ pipe[s] = 0 /\ ~Held
        /\ UNCHANGED <<tool, heir, pipe, capture, written, open, caller>>
    BY <1>2 DEF consume
  <2>2. TCTypeOK'
    BY <2>1 DEF TCInv, TCTypeOK
  <2>3. caller.pc \in Alive => \A t \in Streams :
          reader'[t] = "done" => AtTheEnd(t)'
    <3> SUFFICES ASSUME caller.pc \in Alive, NEW t \in Streams, reader'[t] = "done"
                 PROVE  AtTheEnd(t)'
      OBVIOUS
    <3>1. /\ ~capture[t].truncated => capture[t].raw + pipe[t] = written[t]
          /\ reader[t] = "done" => AtTheEnd(t)
      BY DEF TCInv, Reading
    <3>2. CASE t = s
      BY <2>1, <3>1, <3>2 DEF TCInv, TCTypeOK, AtTheEnd, Held
    <3>3. CASE t # s
      BY <2>1, <3>1, <3>3 DEF TCInv, TCTypeOK, AtTheEnd, Held
    <3> QED BY <3>2, <3>3
  <2>4. \A t \in Streams : AtTheEnd(t) => AtTheEnd(t)'
    BY <2>1 DEF TCInv, TCTypeOK, AtTheEnd, Held
  <2> QED BY <2>1, <2>2, <2>3, <2>4 DEF TCInv, Reading, Held
<1> QED BY <1>1, <1>2

LEMMA TCStep == TCInv /\ [TCNext]_tcVars => TCInv'
<1> SUFFICES ASSUME TCInv, [TCNext]_tcVars PROVE TCInv'
  OBVIOUS
<1> USE DEF TCInv, TCTypeOK, Reading, AtTheEnd, Held, Alive, Over
<1>1. CASE Popen
  <2>1. CASE CallGoto("raised") /\ UNCHANGED <<tool, open, reader>>
    BY <1>1, <2>1 DEF Popen, CallGoto
  <2>2. CASE ~(CallGoto("raised") /\ UNCHANGED <<tool, open, reader>>)
    <3>1. PICK script \in Scripts, killable \in BOOLEAN :
            tool' = [state |-> "running", code |-> "none",
                     script |-> script, killable |-> killable]
      BY <1>1, <2>2 DEF Popen
    <3>2. script \in Seq(Streams)
      BY ToolAssumption DEF Streams
    <3>3. /\ open' = Streams /\ reader' = [s \in Streams |-> "between"]
          /\ caller' = [caller EXCEPT !.pc = "wait"]
          /\ UNCHANGED <<heir, pipe, written, capture>>
      BY <1>1, <2>2 DEF Popen, CallGoto
    <3>4. TCTypeOK'
      BY <3>1, <3>2, <3>3
    <3>5. caller.pc = "idle" /\ \A s \in Streams : pipe[s] = 0 /\ written[s] = 0 /\ capture[s].raw = 0
      BY <1>1 DEF Popen
    <3>6. caller'.pc = "wait" /\ tool'.code = "none" /\ \A s \in Streams : reader'[s] = "between"
      BY <3>1, <3>3
    <3>7. \A s \in Streams : capture'[s].raw + pipe'[s] = written'[s]
      <4> HIDE DEF TCInv, TCTypeOK, Reading, AtTheEnd, Held
      <4> QED BY <3>3, <3>5
    <3> QED BY <3>3, <3>4, <3>6, <3>7
  <2> QED BY <2>1, <2>2
<1>2. CASE ToolWrites
  <2>1. Head(tool.script) \in Streams /\ Tail(tool.script) \in Seq(Streams)
    <3>1. tool.script \in Seq(Streams) /\ tool.script # <<>>
      BY <1>2 DEF ToolWrites
    <3> HIDE DEF TCInv
    <3> QED BY <3>1
  <2> QED BY <1>2, <2>1, FillKeeps DEF ToolWrites
<1>3. CASE ToolForks
  BY <1>3 DEF ToolForks
<1>4. CASE HeirEnds
  BY <1>4 DEF HeirEnds
<1>5. ASSUME NEW code \in {"zero", "error"}, ToolExits(code) PROVE TCInv'
  BY <1>5 DEF ToolExits
<1>6. ASSUME NEW s \in Streams, HeirWrites(s) PROVE TCInv'
  BY <1>6, FillKeeps DEF HeirWrites
<1>7. ASSUME NEW s \in Streams, EnterRead(s) PROVE TCInv'
  BY <1>7 DEF EnterRead
<1>8. ASSUME NEW s \in Streams, consume(s) PROVE TCInv'
  BY <1>8, ConsumeKeeps
<1>9. CASE WaitReturns BY <1>9 DEF WaitReturns, CallGoto
<1>10. CASE TimesOut BY <1>10 DEF TimesOut
<1>11. CASE Kill BY <1>11 DEF Kill, CallGoto
<1>12. CASE _join_readers BY <1>12 DEF _join_readers
<1>13. CASE _finish_readers BY <1>13 DEF _finish_readers, Close, CallGoto, Streams
<1>14. CASE Settle BY <1>14 DEF Settle, CallGoto, Streams
<1>15. CASE UNCHANGED tcVars BY <1>15 DEF tcVars
<1> QED
  BY <1>1, <1>2, <1>3, <1>4, <1>5, <1>6, <1>7, <1>8, <1>9, <1>10, <1>11, <1>12, <1>13, <1>14,
     <1>15 DEF TCNext, Calling, Outside

\* What a tool call returns is everything the tool wrote to stdout, whatever the
\* tool, the processes it left behind, the timer and the limit do.
THEOREM OutputsAreWhole == ToolSpec => []OutputIsWhole
<1>1. TCInv => OutputIsWhole
  BY DEF TCInv, TCTypeOK, Reading, AtTheEnd, OutputIsWhole, Held, Streams, Alive, Over
<1> QED BY <1>1, TCInitInv, TCStep, PTL DEF ToolSpec

-----------------------------------------------------------------------------
(* The cleanup guard.  Evidence by readback is never newer than the object  *)
(* was right, and an answer stays the answer to what was asked.             *)

CGTypeOK ==
    /\ held \in [Keys -> {"right", "lost"}]
    /\ lastRight \in [Keys -> Nat]
    /\ clock \in Nat
    /\ DOMAIN evidence \subseteq Keys
    /\ \A key \in DOMAIN evidence : evidence[key].observed_at \in Nat

\* Bytes that are there now were there a moment ago; bytes that were read back were
\* there when they were read.
SeenRight ==
    /\ \A key \in Keys : held[key] = "right" => lastRight[key] = clock
    /\ \A key \in DOMAIN evidence :
         evidence[key].method = "sha256-readback" => evidence[key].observed_at <= lastRight[key]

CGInv == CGTypeOK /\ SeenRight /\ AllowedLosesNothing

LEMMA StoredKeys == \A e \in Stored : e.key \in Keys
BY DEF Keys

LEMMA CGInitInv == CGInit => CGInv
<1> SUFFICES ASSUME CGInit PROVE CGInv
  OBVIOUS
<1> DEFINE kept == {e.key : e \in Stored}
<1>1. kept \subseteq Keys
  BY StoredKeys
<1>2. held = [key \in Keys |-> "right"] /\ lastRight = [key \in Keys |-> 0] /\ clock = 0
  BY DEF CGInit
<1>3. evidence = [key \in kept |->
                    [entry |-> Right(key), observed_at |-> 0, method |-> "sha256-readback"]]
  BY DEF CGInit
<1> HIDE DEF kept
<1>4. CGTypeOK /\ SeenRight
  BY <1>1, <1>2, <1>3 DEF CGTypeOK, SeenRight
<1>5. AllowedLosesNothing
  BY DEF CGInit, NoDecision, AllowedLosesNothing
<1> QED BY <1>4, <1>5 DEF CGInv

-----------------------------------------------------------------------------
(* What a question without a reason against it says. *)

LEMMA ElementsOfBoth ==
    ASSUME NEW S, NEW s \in Seq(S), NEW t \in Seq(S)
    PROVE  s \o t \in Seq(S) /\ Elements(s \o t) = Elements(s) \union Elements(t)
<1>1. s \o t \in Seq(S) /\ Len(s \o t) = Len(s) + Len(t)
  BY ConcatProperties
<1>2. \A i \in 1 .. Len(s \o t) : (s \o t)[i] = IF i <= Len(s) THEN s[i] ELSE t[i - Len(s)]
  BY ConcatProperties
<1>3. /\ Len(s) \in Nat /\ DOMAIN s = 1 .. Len(s)
      /\ Len(t) \in Nat /\ DOMAIN t = 1 .. Len(t)
      /\ DOMAIN (s \o t) = 1 .. (Len(s) + Len(t))
  BY <1>1, LenProperties
<1>4. ASSUME NEW x \in Elements(s \o t) PROVE x \in Elements(s) \union Elements(t)
  <2>1. PICK i \in 1 .. (Len(s) + Len(t)) : x = (s \o t)[i]
    BY <1>3 DEF Elements
  <2>2. CASE i <= Len(s)
    BY <2>1, <2>2, <1>1, <1>2, <1>3 DEF Elements
  <2>3. CASE ~ (i <= Len(s))
    <3>1. i - Len(s) \in DOMAIN t /\ x = t[i - Len(s)]
      BY <2>1, <2>3, <1>1, <1>2, <1>3
    <3> QED BY <3>1 DEF Elements
  <2> QED BY <2>2, <2>3
<1>5. ASSUME NEW x \in Elements(s) PROVE x \in Elements(s \o t)
  <2>1. PICK i \in 1 .. Len(s) : x = s[i]
    BY <1>3 DEF Elements
  <2>2. i \in DOMAIN (s \o t) /\ (s \o t)[i] = x
    BY <2>1, <1>1, <1>2, <1>3
  <2> QED BY <2>2 DEF Elements
<1>6. ASSUME NEW x \in Elements(t) PROVE x \in Elements(s \o t)
  <2>1. PICK i \in 1 .. Len(t) : x = t[i]
    BY <1>3 DEF Elements
  <2>2. Len(s) + i \in DOMAIN (s \o t) /\ (s \o t)[Len(s) + i] = x
    BY <2>1, <1>1, <1>2, <1>3
  <2> QED BY <2>2 DEF Elements
<1> QED BY <1>1, <1>4, <1>5, <1>6

\* The archive, the snapshot, the artifact and what the caller requires are all asked
\* for, when the manifest is the one that was stored.
LEMMA AllAreExpected ==
    ASSUME NEW proof, proof.manifest_entry = ManifestEntry, proof.manifest = Manifest,
           NEW required, NEW S, Stored \subseteq S,
           required.parts \in Seq(S), required.validations \in Seq(S)
    PROVE  Elements(ExpectedEntries(proof, required)) =
             {ManifestEntry, Archive, Snapshot, ArtifactEntry}
               \union Elements(required.parts) \union Elements(required.validations)
<1> DEFINE ones == {ArtifactEntry}
           first == <<ManifestEntry, Archive, Snapshot>>
           IsList(l) == l \in [1 .. Cardinality(ones) -> ones] /\ Elements(l) = ones
           list == CHOOSE l \in [1 .. Cardinality(ones) -> ones] : Elements(l) = ones
<1>1. Cardinality(ones) = 1
  BY FS_Singleton
<1>2. [i \in 1 .. 1 |-> ArtifactEntry] \in [1 .. Cardinality(ones) -> ones]
  BY <1>1
<1>3. Elements([i \in 1 .. 1 |-> ArtifactEntry]) = ones
  BY DEF Elements
<1>4. list \in [1 .. 1 -> ones] /\ Elements(list) = ones
  BY <1>1, <1>2, <1>3
<1>5. ArtifactEntry \in S /\ {ManifestEntry, Archive, Snapshot} \subseteq S
  BY DEF Stored
<1>6. list \in Seq(S)
  <2> HIDE DEF list
  <2>1. list \in [1 .. 1 -> S]
    BY <1>4, <1>5
  <2> QED BY <2>1, SeqDef
<1>7. first \in Seq(S)
  BY <1>5
<1>8. Elements(first) = {ManifestEntry, Archive, Snapshot}
  <2>1. /\ DOMAIN first = 1 .. 3
        /\ first[1] = ManifestEntry /\ first[2] = Archive /\ first[3] = Snapshot
    OBVIOUS
  <2> HIDE DEF first
  <2>2. Elements(first) = {first[1], first[2], first[3]}
    BY <2>1 DEF Elements
  <2> QED BY <2>1, <2>2
<1>9. ExpectedEntries(proof, required)
        = first \o list \o required.parts \o required.validations
  <2>1. /\ proof.manifest.artifacts = ones
        /\ proof.manifest.input_archive = Archive /\ proof.manifest.state_snapshot = Snapshot
    BY DEF Manifest
  <2> QED BY <2>1 DEF ExpectedEntries
<1> DEFINE parts == required.parts
           checks == required.validations
<1>p. parts \in Seq(S) /\ checks \in Seq(S)
  OBVIOUS
<1> HIDE DEF first, list, parts, checks
<1> DEFINE front == first \o list
           most == front \o parts
<1>10. front \in Seq(S) /\ Elements(front) = Elements(first) \union Elements(list)
  BY <1>6, <1>7, ElementsOfBoth
<1> HIDE DEF front
<1>11. most \in Seq(S) /\ Elements(most) = Elements(front) \union Elements(parts)
  BY <1>p, <1>10, ElementsOfBoth
<1> HIDE DEF most
<1>12. Elements(most \o checks) = Elements(most) \union Elements(checks)
  BY <1>p, <1>11, ElementsOfBoth
<1>13. ExpectedEntries(proof, required) = most \o checks
  BY <1>9 DEF most, front, parts, checks
<1> QED BY <1>4, <1>8, <1>10, <1>11, <1>12, <1>13 DEF parts, checks

\* A proof that passes for one of a manifest is of the stored manifest: whatever is
\* missing from it or too much shows in the digest or in the key.
LEMMA ProofIsOfTheStored ==
    ASSUME NEW proof \in Proofs,
           proof.manifest_entry.digest = canonical_manifest_bytes(proof.manifest),
           proof.manifest_entry.key = <<proof.manifest.state_snapshot.key[1], "manifest-v1.json">>
    PROVE  proof.manifest_entry = ManifestEntry /\ proof.manifest = Manifest
<1>1. ArtifactEntry # PublishedPart
  <2>1. ArtifactEntry.key[1] = "checkpoint" /\ PublishedPart.key[1] = "output"
    BY DEF ArtifactEntry, PublishedPart, Entry
  <2> QED BY <2>1
<1>2. /\ Manifest.artifacts = {ArtifactEntry} /\ Manifest.state_snapshot.key[1] = "checkpoint"
      /\ DOMAIN Manifest = {"input_archive", "state_snapshot", "artifacts"}
      /\ ManifestEntry.digest = Manifest /\ ManifestEntry.key = <<"checkpoint", "manifest-v1.json">>
      /\ DOMAIN ManifestEntry = {"key", "digest"}
  BY DEF Manifest, ManifestEntry, Entry, Snapshot
<1>3. /\ Proof.manifest_entry = ManifestEntry /\ Proof.manifest = Manifest
      /\ {"manifest_entry", "manifest", "published_parts", "validation_artifacts",
          "remote_work_keys", "required_work_keys", "snapshot_restorable"} = DOMAIN Proof
  BY DEF Proof
<1>4. proof.manifest_entry.digest = proof.manifest
  BY DEF canonical_manifest_bytes
<1>5. CASE proof = [Proof EXCEPT !.manifest_entry.digest.artifacts = {}]
  <2>1. proof.manifest = Manifest
    BY <1>3, <1>5
  <2>2. proof.manifest_entry.digest.artifacts = {}
    BY <1>2, <1>3, <1>5
  <2> QED BY <2>1, <2>2, <1>2, <1>4
<1>6. CASE proof = [Proof EXCEPT !.manifest_entry.key = <<"other", "manifest-v1.json">>]
  <2>1. proof.manifest = Manifest /\ proof.manifest_entry.key = <<"other", "manifest-v1.json">>
    BY <1>2, <1>3, <1>6
  <2>2. <<"other", "manifest-v1.json">>[1] # <<"checkpoint", "manifest-v1.json">>[1]
    OBVIOUS
  <2> QED BY <2>1, <2>2, <1>2
<1>7. CASE proof = [Proof EXCEPT !.manifest.artifacts = {}]
  <2>1. proof.manifest_entry.digest = Manifest /\ proof.manifest.artifacts = {}
    BY <1>2, <1>3, <1>7
  <2> QED BY <2>1, <1>2, <1>4
<1>8. CASE proof = [Proof EXCEPT !.manifest.artifacts = {ArtifactEntry, PublishedPart}]
  <2>1. /\ proof.manifest_entry.digest = Manifest
        /\ proof.manifest.artifacts = {ArtifactEntry, PublishedPart}
    BY <1>2, <1>3, <1>8
  <2>2. {ArtifactEntry, PublishedPart} # {ArtifactEntry}
    BY <1>1
  <2> QED BY <2>1, <2>2, <1>2, <1>4
<1>9. CASE \/ proof = Proof
           \/ proof = [Proof EXCEPT !.published_parts = <<>>]
           \/ proof = [Proof EXCEPT !.validation_artifacts = <<>>]
           \/ proof = [Proof EXCEPT !.remote_work_keys = <<>>]
           \/ proof = [Proof EXCEPT !.snapshot_restorable = FALSE]
  BY <1>3, <1>9
<1> QED BY <1>5, <1>6, <1>7, <1>8, <1>9 DEF Proofs

LEMMA ProofsNameTheWork ==
    ASSUME NEW proof \in Proofs
    PROVE  proof.required_work_keys = <<"publish">>
BY DEF Proofs, Proof

\* What callers may require: at least the published part and its validation.
Nameable == Stored \union {Stray}
LEMMA RequirementsAreNamed ==
    ASSUME NEW required \in Requirements
    PROVE  /\ required.parts \in Seq(Nameable) /\ PublishedPart \in Elements(required.parts)
           /\ required.validations \in Seq(Nameable) /\ Validation \in Elements(required.validations)
<1>1. {PublishedPart, Stray, Validation} \subseteq Nameable
  BY DEF Nameable, Stored
<1>2. /\ <<PublishedPart>> \in Seq(Nameable) /\ <<Validation>> \in Seq(Nameable)
      /\ <<PublishedPart, Stray>> \in Seq(Nameable)
  BY <1>1
<1>3. /\ PublishedPart \in Elements(<<PublishedPart>>)
      /\ Validation \in Elements(<<Validation>>)
      /\ PublishedPart \in Elements(<<PublishedPart, Stray>>)
  BY DEF Elements
<1>4. /\ required.parts \in {<<PublishedPart>>, <<PublishedPart, Stray>>}
      /\ required.validations = <<Validation>>
  BY DEF Requirements, Required
<1> QED BY <1>2, <1>3, <1>4

LEMMA QuestionsAreShaped ==
    ASSUME NEW q \in Questions
    PROVE  /\ q.proof \in Proofs /\ q.required \in Requirements
           /\ q.roots \in Seq(Seq(STRING)) /\ q.late \in {0, 1}
<1>1. /\ Question.proof = Proof /\ Question.required = Required /\ Question.roots = RightRoots
      /\ Question.late = 0
      /\ DOMAIN Question = {"proof", "required", "targets", "roots", "operator_enabled",
                            "swapped", "late"}
  BY DEF Question
<1>2. Proof \in Proofs /\ Required \in Requirements
  BY DEF Proofs, Requirements
<1>3. /\ q.proof \in Proofs /\ q.required \in Requirements
      /\ q.roots \in RootChoices \union {RightRoots} /\ q.late \in {0, 1}
  BY <1>1, <1>2 DEF Questions
<1> QED BY <1>3, RootsAssumption

\* No reason against it.
LEMMA NoReason ==
    ASSUME NEW proof, NEW required, NEW targets, NEW roots, NEW swapped, NEW now, NEW enabled,
           Reasons(proof, required, targets, roots, swapped, now, enabled) = {}
    PROVE  LET entries == Elements(ExpectedEntries(proof, required)) IN
           /\ enabled
           /\ \A e \in entries : e.key \in DOMAIN evidence
           /\ proof.manifest_entry.digest = canonical_manifest_bytes(proof.manifest)
           /\ proof.manifest_entry.key
                = <<proof.manifest.state_snapshot.key[1], "manifest-v1.json">>
           /\ \A key \in DOMAIN evidence : evidence[key].method = "sha256-readback"
           /\ ~ Stale(now)
           /\ proof.required_work_keys = required.work
           /\ preflight(targets, roots, swapped)
<1> DEFINE because(reason, condition) == IF condition THEN {reason} ELSE {}
           entries == ExpectedEntries(proof, required)
           expected == {e.key : e \in Elements(entries)}
           mismatching ==
             \/ Cardinality(expected) # Len(entries)
             \/ \E e \in Elements(entries) : e.key \in DOMAIN evidence /\ ~ _exact_evidence(e)
             \/ ~ DOMAIN evidence \subseteq expected
             \/ proof.manifest_entry.digest # canonical_manifest_bytes(proof.manifest)
             \/ proof.manifest_entry.key
                  # <<proof.manifest.state_snapshot.key[1], "manifest-v1.json">>
             \/ \E key \in DOMAIN evidence : evidence[key].method # "sha256-readback"
<1>1. /\ because("operator_disabled", ~ enabled) = {}
      /\ because("missing_evidence", ~ expected \subseteq DOMAIN evidence) = {}
      /\ because("mismatching_evidence", mismatching) = {}
      /\ because("stale_evidence", Stale(now)) = {}
      /\ because("work_not_durable", \/ proof.required_work_keys # required.work
                                     \/ proof.remote_work_keys # required.work) = {}
      /\ because("unsafe_deletion_target", ~ preflight(targets, roots, swapped)) = {}
  BY DEF Reasons
<1> HIDE DEF entries, expected, mismatching
<1>2. /\ enabled /\ expected \subseteq DOMAIN evidence /\ ~ mismatching /\ ~ Stale(now)
      /\ proof.required_work_keys = required.work /\ preflight(targets, roots, swapped)
  BY <1>1
<1>3. \A e \in Elements(entries) : e.key \in DOMAIN evidence
  BY <1>2 DEF expected
<1>4. /\ proof.manifest_entry.digest = canonical_manifest_bytes(proof.manifest)
      /\ proof.manifest_entry.key
           = <<proof.manifest.state_snapshot.key[1], "manifest-v1.json">>
      /\ \A key \in DOMAIN evidence : evidence[key].method = "sha256-readback"
  BY <1>2 DEF mismatching
<1> QED BY <1>2, <1>3, <1>4 DEF entries

\* Where the targets are that pass the policy.
LEMMA TargetsAreConfined ==
    ASSUME NEW targets, NEW roots \in Seq(Seq(STRING)), NEW swapped,
           preflight(targets, roots, swapped)
    PROVE  /\ \A path \in Elements(targets) :
                /\ Cardinality({root \in Elements(roots) : Under(path, root)}) = 1
                /\ Prefixes(path) \cap Links = {}
           /\ \A i, j \in DOMAIN targets : i # j => targets[i] \notin Prefixes(targets[j])
<1>1. IsFiniteSet(DOMAIN roots)
  <2>1. Len(roots) \in Nat /\ DOMAIN roots = 1 .. Len(roots)
    BY LenProperties
  <2> QED BY <2>1, FS_Interval
<1>2. ASSUME NEW i \in DOMAIN targets
      PROVE  /\ Cardinality({root \in Elements(roots) : Under(targets[i], root)}) = 1
             /\ Prefixes(targets[i]) \cap Links = {}
  <2> DEFINE places == {k \in DOMAIN roots : Under(targets[i], roots[k])}
             below == {root \in Elements(roots) : Under(targets[i], root)}
  <2>1. Cardinality(places) = 1 /\ Confined(targets[i])
    BY DEF preflight
  <2>2. IsFiniteSet(places)
    BY <1>1, FS_Subset
  <2>3. PICK k : places = {k}
    <3> HIDE DEF places
    <3> QED BY <2>1, <2>2, FS_Singleton
  <2>4. below = {roots[k]}
    BY <2>3 DEF Elements
  <2>5. Cardinality(below) = 1
    BY <2>4, FS_Singleton
  <2> QED BY <2>1, <2>5 DEF Confined
<1>3. \A i, j \in DOMAIN targets : i # j => targets[i] \notin Prefixes(targets[j])
  BY DEF preflight, _nested
<1> QED BY <1>2, <1>3 DEF Elements

\* What the guard allows loses nothing.
LEMMA AssessKeeps == ASSUME CGInv, assess PROVE CGInv'
<1>1. PICK q \in Questions :
        LET now == clock - q.late IN
        /\ now >= 0
        /\ Reasons(q.proof, q.required, q.targets, q.roots, q.swapped, now,
                   q.operator_enabled) = {}
        /\ decision' = [allowed |-> TRUE, question |-> q, now |-> now]
        /\ UNCHANGED <<held, lastRight, evidence, clock, changes>>
  BY DEF assess
<1> DEFINE now == clock - q.late
           entries == Elements(ExpectedEntries(q.proof, q.required))
           needed == {e.key : e \in Stored \union Elements(q.required.parts)
                                    \union Elements(q.required.validations)}
<1>2. /\ q.proof \in Proofs /\ q.required \in Requirements
      /\ q.roots \in Seq(Seq(STRING)) /\ q.late \in {0, 1}
  BY QuestionsAreShaped
<1>3. /\ q.operator_enabled
      /\ \A e \in entries : e.key \in DOMAIN evidence
      /\ q.proof.manifest_entry = ManifestEntry /\ q.proof.manifest = Manifest
      /\ \A key \in DOMAIN evidence : evidence[key].method = "sha256-readback"
      /\ ~ Stale(now)
      /\ q.required.work = <<"publish">>
      /\ preflight(q.targets, q.roots, q.swapped)
  <2>1. Reasons(q.proof, q.required, q.targets, q.roots, q.swapped, now,
                q.operator_enabled) = {}
    BY <1>1
  <2> HIDE DEF now
  <2>2. /\ q.operator_enabled
        /\ \A e \in entries : e.key \in DOMAIN evidence
        /\ q.proof.manifest_entry.digest = canonical_manifest_bytes(q.proof.manifest)
        /\ q.proof.manifest_entry.key
             = <<q.proof.manifest.state_snapshot.key[1], "manifest-v1.json">>
        /\ \A key \in DOMAIN evidence : evidence[key].method = "sha256-readback"
        /\ ~ Stale(now)
        /\ q.proof.required_work_keys = q.required.work
        /\ preflight(q.targets, q.roots, q.swapped)
    BY <2>1, NoReason
  <2>3. q.proof.manifest_entry = ManifestEntry /\ q.proof.manifest = Manifest
    BY <1>2, <2>2, ProofIsOfTheStored
  <2>4. q.proof.required_work_keys = <<"publish">>
    BY <1>2, ProofsNameTheWork
  <2> QED BY <2>2, <2>3, <2>4
<1>4. /\ q.required.parts \in Seq(Nameable) /\ PublishedPart \in Elements(q.required.parts)
      /\ q.required.validations \in Seq(Nameable)
      /\ Validation \in Elements(q.required.validations)
  BY <1>2, RequirementsAreNamed
<1>5. needed \subseteq DOMAIN evidence
  <2>1. entries = {ManifestEntry, Archive, Snapshot, ArtifactEntry}
                    \union Elements(q.required.parts) \union Elements(q.required.validations)
    BY <1>3, <1>4, AllAreExpected DEF Nameable
  <2>2. Stored \union Elements(q.required.parts) \union Elements(q.required.validations)
          \subseteq entries
    BY <2>1, <1>4 DEF Stored
  <2> HIDE DEF entries
  <2> QED BY <2>2, <1>3
<1>6. \A key \in needed : now - lastRight[key] <= MaxAge
  <2> SUFFICES ASSUME NEW key \in needed PROVE now - lastRight[key] <= MaxAge
    OBVIOUS
  <2>1. key \in DOMAIN evidence /\ evidence[key].method = "sha256-readback"
    BY <1>3, <1>5
  <2>2. now - evidence[key].observed_at <= MaxAge
    <3>1. ~ (now - evidence[key].observed_at > MaxAge)
      BY <1>3, <2>1 DEF Stale
    <3>2. evidence[key].observed_at \in Nat /\ now \in Int
      BY <2>1, <1>2 DEF CGInv, CGTypeOK
    <3> HIDE DEF now
    <3> QED BY <3>1, <3>2, AgeAssumption
  <2>3. evidence[key].observed_at <= lastRight[key] /\ lastRight[key] \in Nat
    BY <2>1 DEF CGInv, CGTypeOK, SeenRight
  <2>4. evidence[key].observed_at \in Nat /\ now \in Int
    BY <2>1, <1>2 DEF CGInv, CGTypeOK
  <2> HIDE DEF now
  <2> QED BY <2>2, <2>3, <2>4, AgeAssumption
<1>7. AllowedLosesNothing'
  <2>1. decision'.question = q /\ decision'.now = now /\ lastRight' = lastRight
    BY <1>1
  <2>2. /\ \A path \in Elements(q.targets) :
             /\ Cardinality({root \in Elements(q.roots) : Under(path, root)}) = 1
             /\ Prefixes(path) \cap Links = {}
        /\ \A i, j \in DOMAIN q.targets : i # j => q.targets[i] \notin Prefixes(q.targets[j])
    BY <1>2, <1>3, TargetsAreConfined
  <2> HIDE DEF now
  <2> QED BY <2>1, <2>2, <1>3, <1>6 DEF AllowedLosesNothing
<1>8. CGTypeOK' /\ SeenRight'
  <2>1. UNCHANGED <<held, lastRight, evidence, clock>>
    BY <1>1
  <2> QED BY <2>1 DEF CGInv, CGTypeOK, SeenRight
<1> QED BY <1>7, <1>8 DEF CGInv

\* The steps before an answer.
LEMMA ReadBackKeeps == ASSUME CGInv, ~ decision.allowed, ReadBack PROVE CGInv'
<1> DEFINE read == {key \in {e.key : e \in Stored} : held[key] = "right"}
<1>1. read \subseteq Keys
  BY StoredKeys
<1> HIDE DEF read
<1>2. /\ evidence' = [key \in DOMAIN evidence \union read |->
                        IF held[key] = "right"
                        THEN [entry |-> Right(key), observed_at |-> clock,
                              method |-> "sha256-readback"]
                        ELSE evidence[key]]
      /\ UNCHANGED <<held, lastRight, clock, decision>>
  BY DEF ReadBack, read
<1>3. \A key \in read : held[key] = "right"
  BY DEF read
<1>4. ASSUME NEW key \in DOMAIN evidence'
      PROVE  /\ key \in Keys /\ evidence'[key].observed_at \in Nat
             /\ evidence'[key].method = "sha256-readback" =>
                  evidence'[key].observed_at <= lastRight[key]
  <2>1. CASE held[key] = "right"
    <3>1. evidence'[key].observed_at = clock /\ key \in Keys
      BY <1>1, <1>2, <2>1 DEF CGInv, CGTypeOK
    <3>2. lastRight[key] = clock /\ clock \in Nat
      BY <2>1, <3>1 DEF CGInv, CGTypeOK, SeenRight
    <3> QED BY <3>1, <3>2
  <2>2. CASE held[key] # "right"
    <3>1. key \in DOMAIN evidence /\ evidence'[key] = evidence[key]
      BY <1>2, <1>3, <2>2
    <3> QED BY <3>1 DEF CGInv, CGTypeOK, SeenRight
  <2> QED BY <2>1, <2>2
<1>5. CGTypeOK' /\ SeenRight'
  BY <1>2, <1>4 DEF CGInv, CGTypeOK, SeenRight
<1> QED BY <1>2, <1>5 DEF CGInv, AllowedLosesNothing

LEMMA ClaimedKeeps ==
    ASSUME CGInv, ~ decision.allowed, NEW key \in Keys, Claimed(key) PROVE CGInv'
<1>1. /\ evidence' = [k \in DOMAIN evidence \union {key} |->
                        IF k = key THEN [entry |-> Right(key), observed_at |-> clock,
                                         method |-> "listing"]
                        ELSE evidence[k]]
      /\ UNCHANGED <<held, lastRight, clock, decision>>
  BY DEF Claimed
<1>2. ASSUME NEW k \in DOMAIN evidence'
      PROVE  /\ k \in Keys /\ evidence'[k].observed_at \in Nat
             /\ evidence'[k].method = "sha256-readback" =>
                  evidence'[k].observed_at <= lastRight[k]
  <2>1. CASE k = key
    BY <1>1, <2>1 DEF CGInv, CGTypeOK
  <2>2. CASE k # key
    <3>1. k \in DOMAIN evidence /\ evidence'[k] = evidence[k]
      BY <1>1, <2>2
    <3> QED BY <3>1 DEF CGInv, CGTypeOK, SeenRight
  <2> QED BY <2>1, <2>2
<1>3. CGTypeOK' /\ SeenRight'
  BY <1>1, <1>2 DEF CGInv, CGTypeOK, SeenRight
<1> QED BY <1>1, <1>3 DEF CGInv, AllowedLosesNothing

LEMMA ForgetKeeps ==
    ASSUME CGInv, ~ decision.allowed, NEW key \in Keys, Forget(key) PROVE CGInv'
<1>1. /\ evidence' = [k \in DOMAIN evidence \ {key} |-> evidence[k]]
      /\ UNCHANGED <<held, lastRight, clock, decision>>
  BY DEF Forget
<1>2. CGTypeOK' /\ SeenRight'
  BY <1>1 DEF CGInv, CGTypeOK, SeenRight
<1> QED BY <1>1, <1>2 DEF CGInv, AllowedLosesNothing

LEMMA DamageKeeps ==
    ASSUME CGInv, ~ decision.allowed, NEW key \in Keys, Damage(key) PROVE CGInv'
<1>1. /\ held' = [held EXCEPT ![key] = "lost"]
      /\ UNCHANGED <<lastRight, evidence, clock, decision>>
  BY DEF Damage
<1>2. CGTypeOK' /\ SeenRight'
  BY <1>1 DEF CGInv, CGTypeOK, SeenRight
<1> QED BY <1>1, <1>2 DEF CGInv, AllowedLosesNothing

LEMMA TickKeeps == ASSUME CGInv, ~ decision.allowed, Tick PROVE CGInv'
<1>1. /\ clock' = clock + 1
      /\ lastRight' = [key \in Keys |-> IF held[key] = "right" THEN clock' ELSE lastRight[key]]
      /\ UNCHANGED <<held, evidence, decision>>
  BY DEF Tick
<1>2. \A key \in Keys : lastRight'[key] \in Nat /\ lastRight[key] <= lastRight'[key]
  BY <1>1 DEF CGInv, CGTypeOK, SeenRight
<1>3. CGTypeOK'
  BY <1>1, <1>2 DEF CGInv, CGTypeOK
<1>4. SeenRight'
  <2>1. \A key \in Keys : held'[key] = "right" => lastRight'[key] = clock'
    BY <1>1
  <2>2. ASSUME NEW key \in DOMAIN evidence', evidence'[key].method = "sha256-readback"
        PROVE  evidence'[key].observed_at <= lastRight'[key]
    <3>1. /\ key \in Keys /\ evidence[key].observed_at <= lastRight[key]
          /\ evidence[key].observed_at \in Nat /\ lastRight[key] \in Nat
      BY <1>1, <2>2 DEF CGInv, CGTypeOK, SeenRight
    <3> QED BY <3>1, <1>1, <1>2
  <2> QED BY <2>1, <2>2 DEF SeenRight
<1> QED BY <1>1, <1>3, <1>4 DEF CGInv, AllowedLosesNothing

LEMMA CGStepInv == ASSUME CGInv, [CGNext]_cgVars PROVE CGInv'
<1>1. CASE assess
  BY <1>1, AssessKeeps
<1>2. CASE /\ ~ decision.allowed
           /\ \/ ReadBack \/ Tick
              \/ \E key \in Keys : Claimed(key) \/ Forget(key) \/ Damage(key)
  BY <1>2, ReadBackKeeps, TickKeeps, ClaimedKeeps, ForgetKeeps, DamageKeeps
<1>3. CASE UNCHANGED cgVars
  BY <1>3 DEF cgVars, CGInv, CGTypeOK, SeenRight, AllowedLosesNothing
<1> QED BY <1>1, <1>2, <1>3 DEF CGNext

\* An allowed deletion loses nothing (LocalCleanupGuard.assess): all that the stored
\* manifest or the caller names was in the remote store within max_age, and what goes lies
\* below one allowed root; for any roots, targets and links, and any loss of objects or of
\* evidence before the question.
THEOREM DeletionsLoseNothing == CGSpec => []AllowedLosesNothing
<1>1. CGInit => CGInv
  BY CGInitInv
<1>2. CGInv /\ [CGNext]_cgVars => CGInv'
  BY CGStepInv
<1>3. CGInv => AllowedLosesNothing
  BY DEF CGInv
<1> QED BY <1>1, <1>2, <1>3, PTL DEF CGSpec
=============================================================================
