---------------------------- MODULE MCMachines ----------------------------
(***************************************************************************)
(* Every machine that needs no other, each on a small instance: the        *)
(* statements of the lease tables, the requests and the browser of a       *)
(* source upload, and below the work state the writers of one name, the    *)
(* restores to one target, the chain of documents, the cleanup guard, a    *)
(* call of a media tool, the renders of one destination, an OCR worker, a  *)
(* speech task, the attempts in one job's workspace, the regions of a      *)
(* scene, and the enrollment of hosts.                                     *)
(* They share no state, so a behaviour is one of one subject, and the      *)
(* others stay where they are.                                             *)
(***************************************************************************)
EXTENDS LeaseRaces, MCSourceUpload, BrowserUpload, DurableFile, Restore, Documents,
        CleanupGuard, ToolCall, MediaRender, OcrWorker, SpeechTask, JobWorkspace,
        SceneRegions, Enrollment

VARIABLE subject

Cue(i, from, to) == [index |-> i, from |-> from, to |-> to, x |-> 1, y |-> 1,
                     source |-> "text", target |-> ""]
SomeCues == {<<>>, <<Cue(1, 0, 2)>>, <<Cue(1, 0, 1), Cue(3, 0, 2)>>,
             <<Cue(2, 0, 1), Cue(2, 1, 2)>>}

\* One part or two, of which some tile the two frames and some do not.
PartOf(k, n, from, to, chunks) ==
    [index |-> k, count |-> n, from |-> from, to |-> to, chunks |-> chunks]
SomeParts ==
    {<<PartOf(1, 1, from, to, c)>> :
        from \in 0 .. 1, to \in 0 .. 3, c \in {<<>>, <<0>>, <<0, 1>>, <<1, 0>>}}
    \union {<<PartOf(1, 2, 0, a, <<0>>), PartOf(k, 2, b, 2, c)>> :
        k \in 1 .. 2, a \in 0 .. 2, b \in 0 .. 2, c \in {<<0>>, <<1>>}}

Data == <<"data">>
Below(names) == Data \o names
SomeLinks == {Below(<<"link">>)}
AllRoots == <<Data>>
SomeRoots == {AllRoots, <<Data, Below(<<"work">>)>>}
GoodTargets == <<Below(<<"work">>), Below(<<"input">>)>>
SomeTargets == {<<>>, GoodTargets, AllRoots, <<<<"other", "work">>>>,
                <<Below(<<"work">>), Below(<<"work", "job">>)>>, <<Below(<<"link", "job">>)>>,
                <<Below(<<"work">>), Below(<<"work">>)>>}

SomeScripts == {<<>>, <<"stdout">>, <<"stderr", "stderr", "stdout">>,
                <<"stdout", "stdout", "stdout">>}
SomePoints == {<<1, -1, 1, 2>>}
SomePools == {<<>>, <<"d1">>, <<"d1", "d2">>, <<"d2", "d1", "d2", "d3">>}
\* A range anywhere on one axis, at either end of the other, on a grid of eighths.
Rectangle(x, w, y) == [a \in Axes |-> IF a = "x" THEN [from |-> x, length |-> w]
                                      ELSE [from |-> y, length |-> 1]]
SomeSettings ==
    {[n \in RegionNames |-> IF n = "logo" THEN Rectangle(1, w, 7) ELSE Rectangle(x, w, 0)] :
        x \in -1 .. 8, w \in 0 .. 9}
LowerHalf == [Identity EXCEPT !.y_offset = 1]

-----------------------------------------------------------------------------
\* A machine that is not the subject is parked in one of its initial states.
ParkedFile ==
    /\ place = [kind |-> "object", system |-> "posix", folder |-> "synced"]
    /\ dest = None /\ onDisk = None /\ data = [i \in Inodes |-> None]
    /\ flushed = {} /\ temps = {} /\ incidents = {} /\ faults = MaxFaults
    /\ source = [w \in Writers |-> CHOOSE c \in Contents : TRUE]
    /\ call = [w \in Writers |-> Idle]
ParkedRestore ==
    /\ ckpt = Sound /\ object = [o \in Objects |-> "whole"]
    /\ target = Nobody /\ staged = {} /\ aside = {} /\ mishaps = MaxMishaps
    /\ tree = [r \in Restorers |-> NoTree]
    /\ rst = [r \in Restorers |-> NotCalled]

ParkedTool ==
    /\ tool = [state |-> "none", code |-> "none", script |-> <<>>, killable |-> TRUE]
    /\ heir = [state |-> "none", writes |-> 0]
    /\ pipe = [s \in Streams |-> 0] /\ written = [s \in Streams |-> 0]
    /\ capture = [s \in Streams |-> [raw |-> 0, truncated |-> FALSE]]
    /\ reader = [s \in Streams |-> "done"] /\ open = {}
    /\ caller = [pc |-> "raised", timedOut |-> FALSE, forced |-> FALSE]
ParkedRender ==
    /\ host = "posix" /\ input = [i \in {"source", "tts"} |-> "planned"]
    /\ final = Free /\ entry = FALSE /\ out = [r \in Renderers |-> "none"]
    /\ synced = {} /\ tampered = {} /\ outage = FALSE /\ troubles = 0
    /\ rnd = [r \in Renderers |-> NotRendering]
ParkedOcr ==
    /\ chunk = [sink |-> "file", start |-> 0, step |-> 1, expected |-> 1, tolerance |-> 0,
                enabled |-> TRUE, points |-> CHOOSE p \in Points : TRUE]
    /\ worker = [pc |-> "killed", seen |-> <<>>, detected |-> Blank, records |-> <<>>]
    /\ file = [kind |-> "old", records |-> <<>>]
    /\ client = [pc |-> "off", got |-> <<>>, timedOut |-> FALSE, result |-> <<>>]

ParkedSpeech ==
    /\ pool = [files |-> <<>>, broken |-> {}] /\ blocked = <<>> /\ tasks = <<>>
    /\ voice = [pc |-> "failed", device |-> 0, left |-> 0, audio |-> "none"]
ParkedJob ==
    /\ slice = TRUE /\ encoders = Encodings /\ disk = Bare /\ archived = {} /\ row = NoVideo
    /\ attempt = [AtRest EXCEPT !.pc = "done"] /\ remote = NoVideo /\ setbacks = 0

ParkedScene == scene = [pc |-> "refused"]

\* One of the others is the subject.
ParkedBut(name) ==
    /\ name = "file" \/ ParkedFile
    /\ name = "restore" \/ ParkedRestore
    /\ name = "tool" \/ ParkedTool
    /\ name = "render" \/ ParkedRender
    /\ name = "ocr" \/ ParkedOcr
    /\ name = "speech" \/ ParkedSpeech
    /\ name = "job" \/ ParkedJob
    /\ name = "scene" \/ ParkedScene
    /\ name = "enrollment" \/ ENInit
    /\ name = "documents" \/ DOCInit
    /\ name = "cleanup" \/ CGInit
    /\ name = "races" \/ LRInit
    /\ name = "source" \/ SUInit
    /\ name = "browser" \/ BUInit

Subject(name) == subject = name /\ UNCHANGED subject

Init ==
    \/ subject = "file" /\ DFInit /\ ParkedBut("file")
    \/ subject = "restore" /\ RSInit /\ ParkedBut("restore")
    \/ subject = "documents" /\ DOCInit /\ ParkedBut("documents")
    \/ subject = "cleanup" /\ CGInit /\ ParkedBut("cleanup")
    \/ subject = "tool" /\ TCInit /\ ParkedBut("tool")
    \/ subject = "render" /\ MRInit /\ ParkedBut("render")
    \/ subject = "ocr" /\ OCRInit /\ ParkedBut("ocr")
    \/ subject = "speech" /\ STInit /\ ParkedBut("speech")
    \/ subject = "job" /\ JWInit /\ ParkedBut("job")
    \/ subject = "scene" /\ SRInit /\ ParkedBut("scene")
    \/ subject = "enrollment" /\ ENInit /\ ParkedBut("enrollment")
    \/ subject = "races" /\ LRInit /\ ParkedBut("races")
    \/ subject = "source" /\ SUInit /\ ParkedBut("source")
    \/ subject = "browser" /\ BUInit /\ ParkedBut("browser")

Next ==
    \/ /\ Subject("file") /\ DFNext
       /\ UNCHANGED <<rsVars, chain, cgVars, tcVars, mrVars, ocrVars, stVars, jwVars,
                      scene, enVars, lrVars, suVars, buVars>>
    \/ /\ Subject("restore") /\ RSNext
       /\ UNCHANGED <<dfVars, chain, cgVars, tcVars, mrVars, ocrVars, stVars, jwVars,
                      scene, enVars, lrVars, suVars, buVars>>
    \/ /\ Subject("documents") /\ DOCNext
       /\ UNCHANGED <<dfVars, rsVars, cgVars, tcVars, mrVars, ocrVars, stVars, jwVars,
                      scene, enVars, lrVars, suVars, buVars>>
    \/ /\ Subject("cleanup") /\ CGNext
       /\ UNCHANGED <<dfVars, rsVars, chain, tcVars, mrVars, ocrVars, stVars, jwVars,
                      scene, enVars, lrVars, suVars, buVars>>
    \/ /\ Subject("tool") /\ TCNext
       /\ UNCHANGED <<dfVars, rsVars, chain, cgVars, mrVars, ocrVars, stVars, jwVars,
                      scene, enVars, lrVars, suVars, buVars>>
    \/ /\ Subject("render") /\ MRNext
       /\ UNCHANGED <<dfVars, rsVars, chain, cgVars, tcVars, ocrVars, stVars, jwVars,
                      scene, enVars, lrVars, suVars, buVars>>
    \/ /\ Subject("ocr") /\ OCRNext
       /\ UNCHANGED <<dfVars, rsVars, chain, cgVars, tcVars, mrVars, stVars, jwVars,
                      scene, enVars, lrVars, suVars, buVars>>
    \/ /\ Subject("speech") /\ STNext
       /\ UNCHANGED <<dfVars, rsVars, chain, cgVars, tcVars, mrVars, ocrVars, jwVars,
                      scene, enVars, lrVars, suVars, buVars>>
    \/ /\ Subject("job") /\ JWNext
       /\ UNCHANGED <<dfVars, rsVars, chain, cgVars, tcVars, mrVars, ocrVars, stVars,
                      scene, enVars, lrVars, suVars, buVars>>
    \/ /\ Subject("scene") /\ SRNext
       /\ UNCHANGED <<dfVars, rsVars, chain, cgVars, tcVars, mrVars, ocrVars, stVars,
                      jwVars, enVars, lrVars, suVars, buVars>>
    \/ /\ Subject("enrollment") /\ ENNext
       /\ UNCHANGED <<dfVars, rsVars, chain, cgVars, tcVars, mrVars, ocrVars, stVars,
                      jwVars, scene, lrVars, suVars, buVars>>
    \/ /\ Subject("races") /\ LRNext
       /\ UNCHANGED <<dfVars, rsVars, chain, cgVars, tcVars, mrVars, ocrVars, stVars,
                      jwVars, scene, enVars, suVars, buVars>>
    \/ /\ Subject("source") /\ SUNext
       /\ UNCHANGED <<dfVars, rsVars, chain, cgVars, tcVars, mrVars, ocrVars, stVars,
                      jwVars, scene, enVars, lrVars, buVars>>
    \/ /\ Subject("browser") /\ BUNext
       /\ UNCHANGED <<dfVars, rsVars, chain, cgVars, tcVars, mrVars, ocrVars, stVars,
                      jwVars, scene, enVars, lrVars, suVars>>

Spec ==
    Init /\ [][Next]_<<subject, dfVars, rsVars, chain, cgVars, tcVars, mrVars, ocrVars,
                       stVars, jwVars, scene, enVars, lrVars, suVars, buVars>>

\* What stands for a process in one machine stands for one in the others.
Symmetry == Permutations(Writers)
=============================================================================
