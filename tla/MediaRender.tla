---------------------------- MODULE MediaRender ----------------------------
(***************************************************************************)
(* Rendering one file: render, probe and validate_render of                *)
(* adapters/ffmpeg/media.py, with its two stagings.  On POSIX ffmpeg       *)
(* writes into an inode without a name, which linkat names in the end; on  *)
(* Windows it writes a file of a private directory, which is pinned by a   *)
(* handle that nobody else may write beside, and then hard-linked.         *)
(*                                                                         *)
(* Several renders may want one destination.  A tool call (module          *)
(* ToolCall) fails or succeeds; a success says nothing of what was made.   *)
(***************************************************************************)
EXTENDS Naturals

CONSTANTS
    Renderers,   \* calls of render for one destination
    Free,        \* nothing has the destination's name
    Stranger,    \* a file that no render made
    MaxTroubles  \* bound: failing calls, edits, deaths and outages

ASSUME RenderAssumption ==
    /\ Free # Stranger /\ {Free, Stranger} \cap Renderers = {}
    /\ MaxTroubles \in Nat

VARIABLES
    host,     \* "posix" or "windows"
    input,    \* what the files of source and speech hold: "planned", "other"
    final,     \* what has the destination's name
    entry,    \* the name is on disk
    out,      \* the staged file of each render: its bytes
    synced,   \* the staged files whose bytes are on disk
    rnd,      \* each call: where it is, the digest that was validated
    tampered, \* the staged files somebody else wrote to or replaced
    outage,   \* the power failed
    troubles

mrVars == <<host, input, final, entry, out, synced, rnd, tampered, outage, troubles>>

Decodes == {"misshapen", "good", "foreign"}
MatchesPlan == {"good", "foreign"}

NotRendering == [pc |-> "idle", digest |-> "none"]

MRInit ==
    /\ host \in {"posix", "windows"}
    /\ input \in [{"source", "tts"} -> {"planned", "other"}]
    /\ final \in {Free, Stranger} /\ entry = (final = Stranger)
    /\ out = [r \in Renderers |-> "none"]
    /\ synced = {} /\ tampered = {} /\ outage = FALSE /\ troubles = 0
    /\ rnd = [r \in Renderers |-> NotRendering]

MAt(r, pc) == rnd[r].pc = pc
MGoto(r, pc) == rnd' = [rnd EXCEPT ![r].pc = pc]
Trouble == troubles < MaxTroubles /\ troubles' = troubles + 1

\* Whatever the reason, render raises and its staging goes; what already has
\* the destination's name stays.
GiveUp(r) ==
    /\ MGoto(r, "raised")
    /\ out' = IF final = r THEN out ELSE [out EXCEPT ![r] = "none"]
    /\ UNCHANGED <<host, input, final, entry, synced, tampered, outage, troubles>>

-----------------------------------------------------------------------------
\* The steps of render.

_destination(r, from, to) ==
    /\ MAt(r, from)
    /\ IF final # Free THEN GiveUp(r)
       ELSE /\ MGoto(r, to)
            /\ out' = [out EXCEPT ![r] = "partial"]
            /\ UNCHANGED <<host, input, final, entry, synced, tampered, outage, troubles>>

\* On POSIX the destination is looked at and staged before anything is read,
\* on Windows after it.
BeginRender(r) ==
    \/ host = "posix" /\ _destination(r, "idle", "probe source")
    \/ /\ host = "windows" /\ MAt(r, "idle") /\ MGoto(r, "probe source")
       /\ UNCHANGED <<host, input, final, entry, out, synced, tampered, outage, troubles>>

Accept(r, from, ok, to) ==
    /\ MAt(r, from)
    /\ IF ~ok THEN GiveUp(r)
       ELSE /\ MGoto(r, to)
            /\ UNCHANGED <<host, input, final, entry, out, synced, tampered, outage, troubles>>

_matches_plan(r) == Accept(r, "probe source", input["source"] = "planned", "digest tts")
DigestTts(r) == Accept(r, "digest tts", input["tts"] = "planned",
                       IF host = "posix" THEN "encode" ELSE "stage")
Stage(r) == _destination(r, "stage", "encode")

\* ffmpeg reads the files as they are now and writes something.
Encode(r) ==
    /\ MAt(r, "encode")
    /\ \E made \in {"broken", "misshapen", "good"} : out' = [out EXCEPT ![r] = made]
    /\ MGoto(r, IF host = "posix" THEN "decode" ELSE "claim")
    /\ synced' = synced \ {r}
    /\ UNCHANGED <<host, input, final, entry, tampered, outage, troubles>>

\* claim_output notes which file it is, pin opens that file and lets nobody
\* else write to it or rename it from then on.
claim_output(r) == Accept(r, "claim", out[r] # "none", "pin")
PathNamesSource(r) == out[r] # "swapped"
pin(r) == Accept(r, "pin", PathNamesSource(r), "decode")

Decode(r) == Accept(r, "decode", out[r] \in Decodes, "probe output")

ProbeOutput(r) ==
    /\ MAt(r, "probe output")
    /\ IF out[r] \notin MatchesPlan THEN GiveUp(r)
       ELSE /\ rnd' = [rnd EXCEPT ![r] = [pc |-> "verify", digest |-> out[r]]]
            /\ UNCHANGED <<host, input, final, entry, out, synced, tampered, outage, troubles>>

\* SLIP (breaks NamedIsSound): the inode is compared and never synchronized.
VerifyUnsynced(r) ==
    /\ MAt(r, "verify")
    /\ IF out[r] # rnd[r].digest THEN GiveUp(r)
       ELSE /\ MGoto(r, "publish")
            /\ UNCHANGED <<host, input, final, entry, out, synced, tampered, outage, troubles>>

\* fsync on POSIX alone, then the bytes against the validated digest.
verify(r) ==
    /\ MAt(r, "verify")
    /\ IF out[r] # rnd[r].digest THEN GiveUp(r)
       ELSE /\ MGoto(r, "publish")
            /\ synced' = IF host = "posix" THEN synced \union {r} ELSE synced
            /\ UNCHANGED <<host, input, final, entry, out, tampered, outage, troubles>>

\* SLIP (breaks NamedIsSound): the name is taken from whoever has it.
LinkOver(r, to) ==
    /\ final' = r /\ entry' = FALSE /\ MGoto(r, to)
    /\ UNCHANGED <<host, input, out, synced, tampered, outage, troubles>>

\* Neither linkat nor CreateHardLinkW replaces a name that is there.
LinkNew(r, to) ==
    IF final # Free THEN GiveUp(r)
    ELSE /\ final' = r /\ entry' = FALSE /\ MGoto(r, to)
         /\ UNCHANGED <<host, input, out, synced, tampered, outage, troubles>>

publish_render(r) ==
    /\ MAt(r, "publish")
    /\ \/ host = "posix" /\ LinkNew(r, "sync")
       \/ host = "windows" /\ PathNamesSource(r) /\ LinkNew(r, "check")

SyncName(r) ==
    /\ MAt(r, "sync")
    /\ entry' = (entry \/ final = r)
    /\ MGoto(r, "check")
    /\ UNCHANGED <<host, input, final, out, synced, tampered, outage, troubles>>

_verify_published(r) ==
    Accept(r, "check", final = r /\ out[r] = rnd[r].digest, "returned")

Working(r) == rnd[r].pc \notin {"idle", "returned", "raised", "dead"}

-----------------------------------------------------------------------------
\* What goes wrong.

\* A tool call, a system call or a synchronization fails.
StepFails(r) ==
    /\ Working(r) /\ troubles < MaxTroubles
    /\ MGoto(r, "raised") /\ troubles' = troubles + 1
    /\ out' = IF final = r THEN out ELSE [out EXCEPT ![r] = "none"]
    /\ UNCHANGED <<host, input, final, entry, synced, tampered, outage>>

KilledAt(r) ==
    /\ Working(r) /\ Trouble
    /\ MGoto(r, "dead")
    /\ out' = IF final = r THEN out ELSE [out EXCEPT ![r] = "none"]
    /\ UNCHANGED <<host, input, final, entry, synced, tampered, outage>>

EditInput(name) ==
    /\ Trouble
    /\ input' = [input EXCEPT ![name] = IF @ = "planned" THEN "other" ELSE "planned"]
    /\ UNCHANGED <<host, final, entry, out, synced, rnd, tampered, outage>>

\* Somebody writes to a staged file (on POSIX only what ffmpeg left behind can
\* reach it), or puts another in its place after it was claimed, while no
\* handle of the Windows adapter forbids it.
Unpinned(r) == host = "posix" \/ rnd[r].pc \in {"claim", "pin"}
Tamper(r) ==
    /\ out[r] # "none" /\ r \notin tampered /\ Working(r) /\ final # r
    /\ Trouble
    /\ \/ /\ Unpinned(r)
          /\ out' = [out EXCEPT ![r] = "foreign"]
       \/ /\ host = "windows" /\ rnd[r].pc = "pin"
          /\ out' = [out EXCEPT ![r] = "swapped"]
    /\ tampered' = tampered \union {r} /\ synced' = synced \ {r}
    /\ UNCHANGED <<host, input, final, entry, rnd, outage>>

StrangerCreates ==
    /\ final = Free /\ Trouble
    /\ final' = Stranger /\ entry' = TRUE
    /\ UNCHANGED <<host, input, out, synced, rnd, tampered, outage>>

\* Names and bytes that were never synchronized may be lost; files that have
\* no name are.
PowerGoes ==
    /\ ~outage /\ Trouble /\ outage' = TRUE
    /\ \E lost \in BOOLEAN :
        /\ lost => ~entry
        /\ final' = IF lost THEN Free ELSE final
        /\ \E torn \in SUBSET (Renderers \ synced) :
            out' = [r \in Renderers |-> IF r # final' THEN "none"
                                        ELSE IF r \in torn THEN "broken" ELSE out[r]]
    /\ entry' = (final' # Free)
    /\ rnd' = [r \in Renderers |-> IF Working(r) THEN [rnd[r] EXCEPT !.pc = "dead"] ELSE rnd[r]]
    /\ synced' = Renderers
    /\ UNCHANGED <<host, input, tampered>>

validate_render(r) == Decode(r) \/ ProbeOutput(r)
Render(r) ==
    \/ BeginRender(r) \/ _matches_plan(r) \/ DigestTts(r) \/ Stage(r) \/ Encode(r)
    \/ claim_output(r) \/ pin(r) \/ validate_render(r)
    \/ verify(r) \/ publish_render(r) \/ SyncName(r) \/ _verify_published(r)

MRNext ==
    \/ \E r \in Renderers : Render(r) \/ StepFails(r) \/ KilledAt(r) \/ Tamper(r)
    \/ \E name \in {"source", "tts"} : EditInput(name)
    \/ StrangerCreates \/ PowerGoes

MRSpec == MRInit /\ [][MRNext]_mrVars

-----------------------------------------------------------------------------
\* On POSIX a power failure keeps what was synchronized; the Windows adapter
\* synchronizes nothing, so nothing is said of it after one.
Promised == host = "posix" \/ ~outage

\* What a render gave the destination's name was decoded to its end and had
\* the size, rate, length and sound of the plan, and still is that file:
\* no crash, failing call or power failure leaves anything else there.  (On
\* POSIX a process that ffmpeg left behind may still write between the last
\* comparison and the link; render then raises.)  A render that returned has the
\* name for the very bytes it validated, and keeps it: neither a second render
\* nor a power failure takes it.
NamedIsSound ==
    Promised =>
        /\ final \in Renderers /\ (final \notin tampered \/ host = "windows")
             => out[final] \in MatchesPlan
        /\ \A r \in Renderers :
             MAt(r, "returned") => final = r /\ out[r] = rnd[r].digest
=============================================================================
