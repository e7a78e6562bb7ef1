----------------------------- MODULE SpeechTask -----------------------------
(***************************************************************************)
(* One call of CapCutTtsProvider.synthesize                                *)
(* (src/ytb_vps_v2/adapters/offline/capcut_tts.py): a task is made at the  *)
(* service with the credential of a device and paid with it, asked after   *)
(* until it succeeded, its audio is downloaded and converted.  A device    *)
(* the service blocks is passed over for the next one of the pool, every   *)
(* other failure ends the call.                                            *)
(*                                                                         *)
(* The service may answer anything, and any answer may be lost: then the   *)
(* service has done what it was asked, and the call does not know.         *)
(***************************************************************************)
EXTENDS Integers, Sequences

LOCAL INSTANCE SequencesExt

CONSTANTS
    Devices,        \* credentials
    Pools,          \* the files found for them: sequences of devices
    QueryAttempts   \* query_attempts: 40

ASSUME SpeechAssumption ==
    /\ Pools \subseteq Seq(Devices)
    /\ QueryAttempts \in Nat \ {0}

VARIABLES
    pool,     \* the credential files, the single one first, with the broken ones
    blocked,  \* the devices the service blocks, and what its answer says
    tasks,    \* the devices tasks were made with, in order
    voice     \* the call: its place, the device in use, queries left, the audio

stVars == <<pool, blocked, tasks, voice>>

Answers == {"words", "code"}

\* One file may be found twice, alone and in the directory of the pool, and is
\* one device.
_device_paths(files) ==
    FoldLeft(LAMBDA unique, d : IF Contains(unique, d) THEN unique ELSE Append(unique, d),
             <<>>, files)

STInit ==
    /\ \E files \in Pools, broken \in SUBSET Devices :
          pool = [files |-> files, broken |-> broken]
    /\ \E some \in SUBSET Devices : blocked \in [some -> Answers]
    /\ tasks = <<>>
    /\ voice = [pc |-> "called", device |-> 0, left |-> 0, audio |-> "none"]

Device == _device_paths(pool.files)[voice.device]
Goes(pc) == voice' = [voice EXCEPT !.pc = pc]
Gets(pc) == Goes(pc) /\ UNCHANGED <<pool, blocked, tasks>>

\* Every credential is read before the first is used: one that cannot be read
\* ends the call, whatever the others are.
_devices ==
    /\ voice.pc = "called"
    /\ IF pool.files = <<>> \/ \E d \in pool.broken : Contains(pool.files, d)
       THEN Gets("failed")
       ELSE /\ voice' = [voice EXCEPT !.pc = "new", !.device = 1]
            /\ UNCHANGED <<pool, blocked, tasks>>

\* No cue has a text.
NothingToSay == voice.pc = "called" /\ Gets("failed")

-----------------------------------------------------------------------------
\* The error of a blocked device leads to the next one.
NextDevice ==
    IF voice.device = Len(_device_paths(pool.files)) THEN Goes("failed")
    ELSE voice' = [voice EXCEPT !.pc = "new", !.device = @ + 1]

\* SLIP (breaks PaidOnce): every ProviderError leads to the next device.
AnyError == NextDevice

\* Every other error is raised.
_mp3_bytes == Goes("failed")

\* common_task/new: the device is blocked, the task is refused or made, and the
\* answer may be lost.  _is_shark_block knows a block by its words; the code it
\* also looks for it spells as json.dumps never does.
New ==
    /\ voice.pc = "new"
    /\ \/ /\ Device \in DOMAIN blocked /\ blocked[Device] = "words" /\ NextDevice
          /\ UNCHANGED tasks
       \/ _mp3_bytes /\ UNCHANGED tasks
       \/ /\ Device \notin DOMAIN blocked /\ tasks' = Append(tasks, Device)
          /\ \/ voice' = [voice EXCEPT !.pc = "query", !.left = QueryAttempts]
             \/ _mp3_bytes
    /\ UNCHANGED <<pool, blocked>>

\* common_task/query: any answer but a success with a URL is asked again.
NotYet ==
    /\ voice.pc = "query" /\ voice.left > 0
    /\ voice' = [voice EXCEPT !.left = @ - 1]
    /\ UNCHANGED <<pool, blocked, tasks>>

\* The task succeeded.
_audio_url == voice.pc = "query" /\ voice.left > 0 /\ Gets("download")

\* One answer is lost or unreadable, the URL names another host or a private
\* address, or the attempts are used up.
QueryFails == voice.pc = "query" /\ _mp3_bytes /\ UNCHANGED <<pool, blocked, tasks>>

\* The end of the body is the end of the audio: a connection that closes early
\* goes unnoticed once 128 bytes are there.
_download_audio ==
    /\ voice.pc = "download"
    /\ \E audio \in {"whole", "cut"} : voice' = [voice EXCEPT !.pc = "convert", !.audio = audio]
    /\ UNCHANGED <<pool, blocked, tasks>>

\* A redirect, another status, too many bytes or too few, no connection.
DownloadFails == voice.pc = "download" /\ _mp3_bytes /\ UNCHANGED <<pool, blocked, tasks>>

\* ffmpeg makes the WAVE file in a directory of the call's own, or fails.
Convert == voice.pc = "convert" /\ (Gets("spoken") \/ Gets("failed"))

STNext ==
    \/ _devices \/ NothingToSay \/ New
    \/ NotYet \/ _audio_url \/ QueryFails
    \/ _download_audio \/ DownloadFails \/ Convert
STSpec == STInit /\ [][STNext]_stVars

-----------------------------------------------------------------------------
\* A call never pays twice: it makes at most one task, whatever blocks, answers
\* and losses it meets; it comes to a device only when the service blocked all
\* before it, and what it returns is the audio of its one task.
PaidOnce ==
    /\ Len(tasks) <= 1
    /\ \A i \in 1 .. voice.device - 1 : _device_paths(pool.files)[i] \in DOMAIN blocked
    /\ voice.pc = "spoken" => tasks = <<Device>> /\ voice.audio # "none"
=============================================================================
