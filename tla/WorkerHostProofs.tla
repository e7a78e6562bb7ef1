-------------------------- MODULE WorkerHostProofs --------------------------
(***************************************************************************)
(* The machines of one worker host, for any number of attempts, devices,   *)
(* hosts and failures: no attempt works on a video that was not promised,  *)
(* a speech task is paid once, and a host's credential is its own.         *)
(***************************************************************************)
EXTENDS JobWorkspace, SpeechTask, Enrollment, SequenceTheorems, TLAPS

-----------------------------------------------------------------------------
(* The workspace of a job.  However many attempts, deaths and power         *)
(* failures there are, no attempt works on a video that was not promised.   *)

Videos == [of : {"promised", "torn", "other"}, as : {"sent"} \union Encodings]
Some == Videos \union {NoVideo}

Places == {"rest", "look", "download", "verify", "replace", "shape", "encode", "archive",
           "job", "stages", "upload", "complete", "done"}
Reasons == {"none", "refused", "download", "conflict", "upload", "broken"}

\* What the pipeline may work on: the promised video, or an encoding of it.
Right == IF slice THEN {AsSent} ELSE {[of |-> "promised", as |-> e] : e \in encoders}

JWTypeOK ==
    /\ slice \in BOOLEAN /\ encoders \subseteq Encodings
    /\ disk \in [source : Some, part : Some, normalized : Some, output : Some]
    /\ attempt \in [pc : Places, canonical : Some, why : Reasons]

\* What an attempt may rely on where it is.
Progress ==
    /\ In("download") => disk.source = NoVideo
    /\ In("replace") => disk.part = AsSent
    /\ In("shape") \/ In("encode") => disk.source = AsSent
    /\ In("encode") => ~slice
    /\ In("archive") \/ In("job") => attempt.canonical \in Right
    /\ In("stages") => row \in Right
    /\ In("upload") => disk.output \in Right

\* What stays when it is over.
Kept ==
    /\ archived \subseteq Right
    /\ row \in Right \union {NoVideo} /\ remote \in Right \union {NoVideo}

\* ffmpeg may make two encodings of one video.
Several == \E d, e \in encoders : d # e

Unhindered ==
    /\ attempt.why # "refused"
    /\ attempt.why = "conflict" => Several

JWInv == JWTypeOK /\ Progress /\ Kept /\ Unhindered

-----------------------------------------------------------------------------
\* An encoding of the promised video is one of its right forms.
LEMMA EncodedIsRight ==
    ASSUME JWTypeOK, ~slice, NEW e \in encoders
    PROVE  Encoded(AsSent, e) \in Right /\ Encoded(AsSent, e) \in Some
<1>1. Encoded(AsSent, e) = [of |-> "promised", as |-> e]
  BY DEF Encoded, AsSent, Video
<1> QED BY <1>1 DEF Right, Some, Videos, JWTypeOK

\* Two right forms differ only if ffmpeg makes two encodings.
LEMMA TwoForms ==
    ASSUME JWTypeOK, NEW u \in Right, NEW v \in Right, u # v
    PROVE  Several
BY DEF Right, Several

LEMMA VideosOfDisk == AsSent \in Some /\ Torn \in Some /\ Other \in Some /\ NoVideo \in Some
BY DEF AsSent, Torn, Other, Video, Some, Videos

-----------------------------------------------------------------------------
LEMMA JWInitInv == JWInit => JWInv
<1> SUFFICES ASSUME JWInit PROVE JWInv
  OBVIOUS
<1>1. JWTypeOK
  BY VideosOfDisk DEF JWInit, JWTypeOK, Bare, AtRest, Places, Reasons
<1>2. Progress /\ Kept /\ Unhindered
  BY DEF JWInit, Progress, Kept, Unhindered, AtRest, In
<1> QED BY <1>1, <1>2 DEF JWInv

LEMMA JWTypes == JWInv /\ [JWNext]_jwVars => JWTypeOK'
<1> SUFFICES ASSUME JWInv, [JWNext]_jwVars PROVE JWTypeOK'
  OBVIOUS
<1> USE VideosOfDisk
<1> USE DEF JWInv, JWTypeOK, Enter, Abandon, AtRest, OnlyDisk,
            Places, Reasons
<1>1. CASE TakeUp BY <1>1 DEF TakeUp
<1>2. CASE FindSource BY <1>2 DEF FindSource
<1>3. CASE Refuse BY <1>3 DEF Refuse
<1>4. CASE Receive BY <1>4 DEF Receive
<1>5. CASE VerifyPart BY <1>5 DEF VerifyPart
<1>6. CASE download_source BY <1>6 DEF download_source
<1>7. CASE _canonical_source BY <1>7 DEF _canonical_source
<1>8. CASE Normalize
  <2>1. PICK e \in encoders :
           /\ disk' = [disk EXCEPT !.normalized = Encoded(disk.source, e)]
           /\ attempt' = [attempt EXCEPT !.pc = "archive",
                                         !.canonical = Encoded(disk.source, e)]
    BY <1>8 DEF Normalize
  <2>2. Encoded(disk.source, e) \in Some
    <3>1. disk.source = AsSent
      BY <1>8 DEF Normalize, Progress, In
    <3>2. Encoded(AsSent, e) = [of |-> "promised", as |-> e]
      BY DEF Encoded, AsSent, Video
    <3> QED BY <3>1, <3>2 DEF Some, Videos
  <2> HIDE DEF Encoded
  <2> QED BY <1>8, <2>1, <2>2 DEF Normalize
<1>9. CASE archive BY <1>9 DEF archive
<1>10. CASE CreateRow BY <1>10 DEF CreateRow
<1>11. CASE run_native_pipeline
  <2>1. row \in Some
    BY <1>11, EncodedIsRight DEF run_native_pipeline, Progress, In, Right, Some, Videos, AsSent, Video
  <2> QED BY <1>11, <2>1 DEF run_native_pipeline
<1>12. CASE upload_resumable BY <1>12 DEF upload_resumable
<1>13. CASE Conclusion BY <1>13 DEF Conclusion, Finish, Bare
<1>14. CASE StepBreaks BY <1>14 DEF StepBreaks
<1>15. CASE WorkerIsKilled BY <1>15 DEF WorkerIsKilled
<1>16. CASE HostFails BY <1>16 DEF HostFails, AfterFailure
<1>17. CASE UNCHANGED jwVars BY <1>17 DEF jwVars
<1> QED BY <1>1, <1>2, <1>3, <1>4, <1>5, <1>6, <1>7, <1>8, <1>9, <1>10, <1>11, <1>12,
           <1>13, <1>14, <1>15, <1>16, <1>17 DEF JWNext

LEMMA JWSame == [JWNext]_jwVars => UNCHANGED <<slice, encoders>>
BY DEF JWNext, jwVars, OnlyDisk, TakeUp, FindSource, Refuse, Receive, VerifyPart,
       download_source, _canonical_source, Normalize, archive, CreateRow,
       run_native_pipeline, upload_resumable, Conclusion, Finish, StepBreaks,
       WorkerIsKilled, HostFails

LEMMA JWStep == JWInv /\ [JWNext]_jwVars => JWInv'
<1> SUFFICES ASSUME JWInv, [JWNext]_jwVars PROVE JWInv'
  OBVIOUS
<1>a. JWTypeOK /\ JWTypeOK'
  BY JWTypes DEF JWInv
<1>b. Right' = Right /\ encoders' = encoders /\ Several' = Several
  BY JWSame DEF Right, Several
<1> SUFFICES (Progress /\ Kept /\ Unhindered)'
  BY <1>a DEF JWInv
<1> USE <1>a, <1>b
<1> USE DEF JWInv, JWTypeOK, Progress, Kept, Unhindered, In, Enter, Abandon, AtRest, OnlyDisk
<1>1. CASE TakeUp BY <1>1 DEF TakeUp
<1>2. CASE FindSource BY <1>2 DEF FindSource, Reusable
<1>3. CASE Refuse BY <1>3 DEF Refuse
<1>4. CASE Receive BY <1>4 DEF Receive
<1>5. CASE VerifyPart BY <1>5 DEF VerifyPart
<1>6. CASE download_source BY <1>6 DEF download_source
<1>7. CASE _canonical_source BY <1>7 DEF _canonical_source, Right
<1>8. CASE Normalize
  <2>1. PICK e \in encoders :
           /\ disk' = [disk EXCEPT !.normalized = Encoded(disk.source, e)]
           /\ attempt' = [attempt EXCEPT !.pc = "archive",
                                         !.canonical = Encoded(disk.source, e)]
    BY <1>8 DEF Normalize
  <2>2. disk.source = AsSent /\ ~slice
    BY <1>8 DEF Normalize
  <2>3. Encoded(AsSent, e) \in Right
    BY <2>2, EncodedIsRight
  <2> QED BY <1>8, <2>1, <2>2, <2>3 DEF Normalize
<1>9. CASE archive BY <1>9 DEF archive
<1>10. CASE CreateRow
  <2>1. CASE row \in {NoVideo, attempt.canonical} /\ row' = attempt.canonical /\ Enter("stages")
    BY <1>10, <2>1 DEF CreateRow
  <2>2. CASE row \notin {NoVideo, attempt.canonical} /\ Abandon("conflict") /\ UNCHANGED row
    <3>1. Several
      BY <1>10, <2>2, TwoForms DEF CreateRow
    <3> QED BY <1>10, <2>2, <3>1 DEF CreateRow
  <2> QED BY <1>10, <2>1, <2>2 DEF CreateRow
<1>11. CASE run_native_pipeline BY <1>11 DEF run_native_pipeline
<1>12. CASE upload_resumable BY <1>12 DEF upload_resumable
<1>13. CASE Conclusion BY <1>13 DEF Conclusion, Finish, Bare
<1>14. CASE StepBreaks BY <1>14 DEF StepBreaks
<1>15. CASE WorkerIsKilled BY <1>15 DEF WorkerIsKilled
<1>16. CASE HostFails BY <1>16 DEF HostFails, AfterFailure
<1>17. CASE UNCHANGED jwVars BY <1>17 DEF jwVars
<1> QED BY <1>1, <1>2, <1>3, <1>4, <1>5, <1>6, <1>7, <1>8, <1>9, <1>10, <1>11, <1>12,
           <1>13, <1>14, <1>15, <1>16, <1>17 DEF JWNext

\* An attempt works on the promised video and is not hindered by what others
\* left, for every set of encodings and any number of setbacks.
THEOREM AttemptsAreSafe == JWSpec => []WorksOnTheClaimed
<1>1. JWInv => WorksOnTheClaimed
  <2> SUFFICES ASSUME JWInv PROVE WorksOnTheClaimed
    OBVIOUS
  <2>1. \A v \in Right : v.of = "promised" /\ (v.as = "sent" <=> slice)
    BY JobWorkspaceAssumption DEF JWInv, JWTypeOK, Right, AsSent, Video
  <2>2. \A v \in archived \union ({row, remote} \ {NoVideo}) : v \in Right
    BY DEF JWInv, Kept
  <2>3. Unhindered
    BY DEF JWInv
  <2> HIDE DEF Right, JWInv
  <2> QED BY <2>1, <2>2, <2>3 DEF Unhindered, Several, WorksOnTheClaimed
<1> QED BY <1>1, JWInitInv, JWStep, PTL DEF JWSpec

-----------------------------------------------------------------------------
(* Speech.  A call pays at most once, for every pool of devices and any     *)
(* answers.                                                                 *)

Steps == {"called", "new", "query", "download", "convert", "spoken", "failed"}
STTypeOK == voice \in [pc : Steps, device : Nat, left : Int, audio : {"none", "whole", "cut"}]

\* No task before the answer to common_task/new, and then the one of the device
\* in use.
Paid ==
    /\ voice.pc \in {"called", "new"} => tasks = <<>>
    /\ voice.pc \in {"query", "download", "convert", "spoken"} => tasks = <<Device>>
    /\ Len(tasks) <= 1
    /\ voice.pc \in {"convert", "spoken"} => voice.audio # "none"

\* Every device before the one in use is blocked.
PassedOver ==
    \A i \in 1 .. voice.device - 1 : _device_paths(pool.files)[i] \in DOMAIN blocked

STInv == STTypeOK /\ Paid /\ PassedOver

LEMMA STInitInv == STInit => STInv
BY DEF STInit, STInv, STTypeOK, Paid, PassedOver, Steps

LEMMA PoolStays == [STNext]_stVars => pool' = pool /\ blocked' = blocked
BY DEF STNext, stVars, _devices, NothingToSay, New, NotYet, _audio_url, QueryFails,
       _download_audio, DownloadFails, Convert, Gets

LEMMA STTypes == STInv /\ [STNext]_stVars => STTypeOK'
<1> SUFFICES ASSUME STTypeOK, [STNext]_stVars PROVE STTypeOK'
  BY DEF STInv
<1> USE DEF STTypeOK, Gets, Goes, Steps
<1>1. CASE _devices
  <2>1. CASE voice' = [voice EXCEPT !.pc = "failed"] BY <2>1
  <2>2. CASE voice' = [voice EXCEPT !.pc = "new", !.device = 1] BY <2>2
  <2> QED BY <1>1, <2>1, <2>2 DEF _devices
<1>2. CASE NothingToSay BY <1>2 DEF NothingToSay
<1>3. CASE New
  <2>1. QueryAttempts \in Int
    BY SpeechAssumption
  <2>2. ASSUME NEW d \in Nat, voice' = [voice EXCEPT !.pc = "new", !.device = d]
        PROVE  STTypeOK'
    BY <2>2
  <2>3. CASE voice' = [voice EXCEPT !.pc = "query", !.left = QueryAttempts] BY <2>1, <2>3
  <2>4. CASE voice' = [voice EXCEPT !.pc = "failed"] BY <2>4
  <2>5. NextDevice => STTypeOK'
    <3>1. voice.device + 1 \in Nat
      OBVIOUS
    <3> HIDE DEF STTypeOK
    <3> QED BY <2>2, <2>4, <3>1 DEF NextDevice
  <2> HIDE DEF STTypeOK
  <2> QED BY <1>3, <2>3, <2>4, <2>5 DEF New, _mp3_bytes
<1>4. CASE NotYet BY <1>4 DEF NotYet
<1>5. CASE _audio_url BY <1>5 DEF _audio_url
<1>6. CASE QueryFails BY <1>6 DEF QueryFails, _mp3_bytes
<1>7. CASE _download_audio BY <1>7 DEF _download_audio
<1>8. CASE DownloadFails BY <1>8 DEF DownloadFails, _mp3_bytes
<1>9. CASE Convert BY <1>9 DEF Convert
<1>10. CASE UNCHANGED stVars BY <1>10 DEF stVars
<1> QED BY <1>1, <1>2, <1>3, <1>4, <1>5, <1>6, <1>7, <1>8, <1>9, <1>10 DEF STNext

LEMMA STStep == STInv /\ [STNext]_stVars => STInv'
<1> SUFFICES ASSUME STInv, [STNext]_stVars PROVE STInv'
  OBVIOUS
<1>a. STTypeOK /\ STTypeOK'
  BY STTypes DEF STInv
<1>b. pool' = pool /\ blocked' = blocked
  BY PoolStays
<1>c. voice'.device = voice.device => Device' = Device
  BY <1>b DEF Device
<1>d. PassedOver'
  <2>1. CASE voice'.device = voice.device
    BY <1>b, <2>1 DEF STInv, PassedOver
  <2>2. CASE voice'.device # voice.device
    <3>1. CASE voice'.device = 1
      BY <1>a, <3>1 DEF PassedOver
    <3>2. CASE voice'.device # 1
      <4>1. /\ Device \in DOMAIN blocked
            /\ voice'.device = voice.device + 1
        BY <1>a, <2>2, <3>2
           DEF STTypeOK, STNext, stVars, _devices, NothingToSay, New, NextDevice, _mp3_bytes,
               NotYet, _audio_url, QueryFails, _download_audio, DownloadFails, Convert, Gets,
               Goes
      <4> SUFFICES ASSUME NEW i \in 1 .. voice'.device - 1
                   PROVE  _device_paths(pool.files)[i] \in DOMAIN blocked
        BY <1>b DEF PassedOver
      <4>2. CASE i = voice.device
        BY <4>1, <4>2 DEF Device
      <4>3. CASE i # voice.device
        BY <1>a, <4>1, <4>3 DEF STInv, STTypeOK, PassedOver
      <4> QED BY <4>2, <4>3
    <3> QED BY <3>1, <3>2
  <2> QED BY <2>1, <2>2
<1>e. Paid'
  <2> USE DEF STTypeOK, Paid, STInv, Gets, Goes
  <2>1. CASE _devices BY <1>a, <2>1 DEF _devices
  <2>2. CASE NothingToSay BY <1>a, <2>2 DEF NothingToSay
  <2>3. CASE New
    <3>1. tasks = <<>>
      BY <2>3 DEF New
    <3>2. CASE tasks' = tasks /\ (NextDevice \/ _mp3_bytes)
      <4>1. voice'.pc \in {"new", "failed"} /\ Len(tasks') <= 1
        BY <1>a, <3>1, <3>2 DEF NextDevice, _mp3_bytes
      <4> QED BY <3>1, <3>2, <4>1
    <3>3. CASE /\ tasks' = Append(tasks, Device)
               /\ \/ voice' = [voice EXCEPT !.pc = "query", !.left = QueryAttempts]
                  \/ _mp3_bytes
      <4>1. tasks' = <<Device>> /\ Len(tasks') = 1
        BY <3>1, <3>3
      <4>2. voice'.pc \in {"query", "failed"} /\ voice'.device = voice.device
        BY <1>a, <3>3 DEF _mp3_bytes
      <4> QED BY <1>c, <4>1, <4>2
    <3> QED BY <2>3, <3>2, <3>3 DEF New
  <2>4. CASE NotYet BY <1>a, <1>c, <2>4 DEF NotYet
  <2>5. CASE _audio_url BY <1>a, <1>c, <2>5 DEF _audio_url
  <2>6. CASE QueryFails BY <1>a, <1>c, <2>6 DEF QueryFails, _mp3_bytes
  <2>7. CASE _download_audio BY <1>a, <1>c, <2>7 DEF _download_audio
  <2>8. CASE DownloadFails BY <1>a, <1>c, <2>8 DEF DownloadFails, _mp3_bytes
  <2>9. CASE Convert BY <1>a, <1>c, <2>9 DEF Convert
  <2>10. CASE UNCHANGED stVars BY <1>c, <2>10 DEF stVars
  <2> QED BY <2>1, <2>2, <2>3, <2>4, <2>5, <2>6, <2>7, <2>8, <2>9, <2>10 DEF STNext
<1> QED BY <1>a, <1>d, <1>e DEF STInv

\* A call makes at most one task, passes over blocked devices alone, and returns
\* the audio of its own task.
THEOREM OneTaskPerCall == STSpec => []PaidOnce
<1>1. STInv => PaidOnce
  BY DEF STInv, STTypeOK, Paid, PassedOver, PaidOnce
<1> QED BY <1>1, STInitInv, STStep, PTL DEF STSpec

-----------------------------------------------------------------------------
(* Enrollment.  A credential is that of one worker row, for any number of   *)
(* hosts, tokens and tries, and through every lost answer, death and power  *)
(* failure.                                                                 *)

Ids == Nat \union {NoWorker}
Enrolling == [pc : {"asking", "save"}, token : Tokens, call : Nat, try : Nat, got : Ids]
                \union {NotEnrolling}
Rows == [of : Tokens, session : {"live", "ended"}]

\* What the steps need to know of the variables' types.
ENTypes ==
    /\ token \in [Tokens -> {"none", "open", "spent", "expired"}]
    /\ workers \in Seq(Rows)
    /\ flight \subseteq [host : Hosts, token : Tokens, call : Nat, try : Nat]
    /\ enroller \in [Hosts -> Enrolling]
    /\ saved \in [Hosts -> Ids] /\ durable \in [Hosts -> Ids] /\ serving \in [Hosts -> Ids]
    /\ lapses \in Nat

ENInv == ENTypes /\ CredentialIsItsOwn

\* No row and no credential yet.
LEMMA EnrollmentInit == ENInit => ENInv
BY EnrollmentAssumption DEF ENInit, ENInv, ENTypes, CredentialIsItsOwn, Known, NotEnrolling,
   Enrolling, Ids

\* Every place of the rows holds one.
LEMMA RowsAreRows ==
    ASSUME ENTypes, NEW w \in DOMAIN workers
    PROVE  workers[w].of \in Tokens
<1>1. workers \in Seq(Rows) /\ w \in 1 .. Len(workers)
  BY DEF ENTypes
<1>2. workers[w] \in Rows
  BY <1>1, ElementOfSeq
<1> QED BY <1>2 DEF Rows

\* Where no row comes and no host learns anything, what was so stays so.
LEMMA NobodyLearns ==
    ASSUME CredentialIsItsOwn,
           DOMAIN workers' = DOMAIN workers,
           \A w \in DOMAIN workers : workers'[w].of = workers[w].of,
           \A w \in DOMAIN workers : token[workers[w].of] = "spent"
                                        => token'[workers[w].of] = "spent",
           \A h \in Hosts : Known(h)' \subseteq Known(h)
    PROVE  CredentialIsItsOwn'
<1>1. /\ \A v, w \in DOMAIN workers' : workers'[v].of = workers'[w].of => v = w
      /\ \A w \in DOMAIN workers' : token'[workers'[w].of] = "spent"
  BY DEF CredentialIsItsOwn
<1>2. \A h \in Hosts : Known(h)' \subseteq DOMAIN workers'
  BY DEF CredentialIsItsOwn
<1>3. \A g, h \in Hosts : Known(g)' \cap Known(h)' # {} => g = h
  BY DEF CredentialIsItsOwn
<1> QED BY <1>1, <1>2, <1>3 DEF CredentialIsItsOwn

\* The same, for the server as it was.
LEMMA ServerKept ==
    ASSUME CredentialIsItsOwn, KeepServer, \A h \in Hosts : Known(h)' \subseteq Known(h)
    PROVE  CredentialIsItsOwn'
BY NobodyLearns DEF KeepServer

\* A row that is new has a number nobody knows and a token no other row has.
LEMMA EnrollKeeps ==
    ASSUME ENInv, NEW m \in flight, enrollWorker(m)
    PROVE  ENInv'
<1> DEFINE id == IF Usable(m.token) THEN Len(workers) + 1 ELSE NoWorker
<1>1. /\ m \in [host : Hosts, token : Tokens, call : Nat, try : Nat]
      /\ m.host \in Hosts /\ m.token \in Tokens
  BY DEF ENInv, ENTypes
<1>2. id \in Ids
  BY DEF Ids, ENInv, ENTypes
<1>3. /\ lapses' \in Nat /\ flight' \subseteq flight
      /\ saved' = saved /\ durable' = durable /\ serving' = serving
  BY DEF enrollWorker, Lapse, NoLapse, KeepFiles, ENInv, ENTypes
<1>4. /\ enroller' \in [Hosts -> Enrolling]
      /\ \A h \in Hosts : \/ enroller'[h].got \in {enroller[h].got, NoWorker}
                          \/ h = m.host /\ id # NoWorker /\ enroller'[h].got = id
  <2>1. CASE UNCHANGED enroller
    BY <2>1 DEF ENInv, ENTypes
  <2>2. CASE Current(m) /\ enroller' = [enroller EXCEPT ![m.host] =
                 IF id = NoWorker THEN NotEnrolling
                 ELSE [pc |-> "save", token |-> m.token, call |-> m.call, try |-> m.try,
                       got |-> id]]
    <3>2. CASE id = NoWorker
      <4>1. NotEnrolling \in Enrolling /\ NotEnrolling.got = NoWorker
        BY DEF NotEnrolling, Enrolling, Ids
      <4> QED BY <1>1, <2>2, <3>2, <4>1 DEF ENInv, ENTypes
    <3>3. CASE id # NoWorker
      <4>1. [pc |-> "save", token |-> m.token, call |-> m.call, try |-> m.try, got |-> id]
               \in Enrolling
        BY <1>1, <1>2 DEF Enrolling
      <4> HIDE DEF id
      <4> QED BY <1>1, <2>2, <3>3, <4>1 DEF ENInv, ENTypes
    <3> QED BY <3>2, <3>3
  <2> QED BY <2>1, <2>2 DEF enrollWorker
<1>5. CASE ~Usable(m.token)
  <2>1. KeepServer /\ id = NoWorker
    BY <1>5 DEF enrollWorker
  <2>2. \A h \in Hosts : Known(h)' \subseteq Known(h)
    BY <1>3, <1>4, <2>1 DEF Known
  <2>3. CredentialIsItsOwn'
    BY <2>1, <2>2, ServerKept DEF ENInv
  <2> QED BY <1>3, <1>4, <2>1, <2>3 DEF ENInv, ENTypes, KeepServer
<1>6. CASE Usable(m.token)
  <2> DEFINE fresh == [of |-> m.token, session |-> "live"]
             new == Len(workers) + 1
  <2>1. /\ workers' = Append(workers, fresh)
        /\ token' = [token EXCEPT ![m.token] = "spent"]
    BY <1>6 DEF enrollWorker
  <2>2. /\ workers \in Seq(Rows)
        /\ fresh \in Rows
    BY <1>1 DEF ENInv, ENTypes, Rows
  <2>3. /\ workers' \in Seq(Rows)
        /\ DOMAIN workers = 1 .. Len(workers) /\ Len(workers) \in Nat
        /\ DOMAIN workers' = DOMAIN workers \union {new}
        /\ new \notin DOMAIN workers
        /\ workers'[new] = fresh
        /\ \A w \in DOMAIN workers : workers'[w] = workers[w]
    BY <2>1, <2>2
  <2>4. \A w \in DOMAIN workers : workers[w].of \in Tokens
    BY RowsAreRows DEF ENInv
  <2>5. \A w \in DOMAIN workers : workers[w].of # m.token
    BY <1>6, <2>4 DEF Usable, ENInv, CredentialIsItsOwn
  <2>6. /\ \A v, w \in DOMAIN workers' : workers'[v].of = workers'[w].of => v = w
        /\ \A w \in DOMAIN workers' : token'[workers'[w].of] = "spent"
    <3>1. workers'[new].of = m.token
      BY <2>3
    <3>2. \A w \in DOMAIN workers : workers'[w].of = workers[w].of
      BY <2>3
    <3>3. token'[m.token] = "spent" /\ \A t \in Tokens : token[t] = "spent" => token'[t] = "spent"
      BY <1>1, <2>1 DEF ENInv, ENTypes
    <3>4. /\ \A v, w \in DOMAIN workers : workers[v].of = workers[w].of => v = w
          /\ \A w \in DOMAIN workers : token[workers[w].of] = "spent"
      BY DEF ENInv, CredentialIsItsOwn
    <3> HIDE DEF new
    <3>5. ASSUME NEW v \in DOMAIN workers', NEW w \in DOMAIN workers',
                 workers'[v].of = workers'[w].of
          PROVE  v = w
      BY <2>3, <2>5, <3>1, <3>2, <3>4, <3>5
    <3>6. ASSUME NEW w \in DOMAIN workers' PROVE token'[workers'[w].of] = "spent"
      BY <2>3, <2>4, <3>1, <3>2, <3>3, <3>4
    <3> QED BY <3>5, <3>6
  <2>7. \A h \in Hosts : /\ Known(h)' \subseteq Known(h) \union {new}
                         /\ new \in Known(h)' => h = m.host
    <3>1. id = new
      BY <1>6
    <3>2. \A h \in Hosts : new \notin Known(h)
      BY <2>3 DEF ENInv, CredentialIsItsOwn
    <3> HIDE DEF id, new
    <3> QED BY <1>3, <1>4, <3>1, <3>2 DEF Known
  <2>8. \A h \in Hosts : Known(h)' \subseteq DOMAIN workers'
    BY <2>3, <2>7 DEF ENInv, CredentialIsItsOwn
  <2>9. \A g, h \in Hosts : Known(g)' \cap Known(h)' # {} => g = h
    <3>1. \A g, h \in Hosts : Known(g) \cap Known(h) # {} => g = h
      BY DEF ENInv, CredentialIsItsOwn
    <3> HIDE DEF new
    <3> QED BY <2>7, <3>1
  <2>10. CredentialIsItsOwn'
    BY <2>6, <2>8, <2>9 DEF CredentialIsItsOwn
  <2>11. token' \in [Tokens -> {"none", "open", "spent", "expired"}]
    BY <1>1, <2>1 DEF ENInv, ENTypes
  <2> QED BY <1>3, <1>4, <2>3, <2>10, <2>11 DEF ENInv, ENTypes
<1> QED BY <1>5, <1>6


\* Every step of a host, the server or the network keeps the invariant.
LEMMA EnrollmentStep == ENInv /\ [ENNext]_enVars => ENInv'
<1> SUFFICES ASSUME ENInv, [ENNext]_enVars PROVE ENInv'
  OBVIOUS
<1> USE DEF ENInv
<1>0. /\ NoWorker \in Ids /\ NotEnrolling \in Enrolling /\ NotEnrolling.got = NoWorker
      /\ \A h \in Hosts : enroller[h] \in Enrolling
  BY DEF NotEnrolling, Enrolling, Ids, ENTypes
<1>1. CASE UNCHANGED enVars
  BY <1>1 DEF enVars, ENTypes, CredentialIsItsOwn, Known
<1>2. ASSUME NEW t \in Tokens, createEnrollment(t) \/ TokenExpires(t) PROVE ENInv'
  <2>1. /\ token' \in [Tokens -> {"none", "open", "spent", "expired"}]
        /\ \A u \in Tokens : token[u] = "spent" => token'[u] = "spent"
    BY <1>2 DEF createEnrollment, TokenExpires, ENTypes
  <2>2. /\ UNCHANGED <<workers, flight, enroller, saved, durable, serving>> /\ lapses' \in Nat
    BY <1>2 DEF createEnrollment, TokenExpires, KeepFiles, Lapse, NoLapse, ENTypes
  <2>3. CredentialIsItsOwn'
    BY <2>1, <2>2, NobodyLearns, RowsAreRows DEF Known
  <2> QED BY <2>1, <2>2, <2>3 DEF ENTypes
<1>3. ASSUME NEW h \in Hosts, NEW t \in Tokens, worker_enroll(h, t) PROVE ENInv'
  <2>1. KeepServer /\ KeepFiles /\ lapses' \in Nat
    BY <1>3 DEF worker_enroll, Lapse, ENTypes
  <2> DEFINE asking == [pc |-> "asking", token |-> t, call |-> lapses, try |-> 1,
                        got |-> NoWorker]
  <2>2. asking \in Enrolling /\ asking.got = NoWorker
    BY <1>0 DEF Enrolling, ENTypes
  <2>3. enroller' = [enroller EXCEPT ![h] = asking]
    BY <1>3 DEF worker_enroll
  <2>4. flight' \subseteq [host : Hosts, token : Tokens, call : Nat, try : Nat]
    BY <1>3 DEF worker_enroll, Sends, ENTypes
  <2> HIDE DEF asking
  <2>5. /\ enroller' \in [Hosts -> Enrolling]
        /\ \A g \in Hosts : enroller'[g].got \in {enroller[g].got, NoWorker}
    BY <2>2, <2>3 DEF ENTypes
  <2>6. CredentialIsItsOwn'
    BY <2>1, <2>5, ServerKept DEF Known, KeepFiles
  <2> QED BY <2>1, <2>4, <2>5, <2>6 DEF ENTypes, KeepServer, KeepFiles
<1>4. ASSUME NEW m \in flight, enrollWorker(m) \/ RequestIsLost(m) PROVE ENInv'
  <2>1. CASE RequestIsLost(m)
    <3>1. /\ KeepServer /\ KeepFiles /\ UNCHANGED enroller /\ lapses' \in Nat
          /\ flight' \subseteq flight
      BY <2>1 DEF RequestIsLost, Lapse, ENTypes
    <3>2. CredentialIsItsOwn'
      BY <3>1, ServerKept DEF Known, KeepFiles
    <3> QED BY <3>1, <3>2 DEF ENTypes, KeepServer, KeepFiles
  <2> QED BY <1>4, <2>1, EnrollKeeps
<1>5. ASSUME NEW h \in Hosts, TryAgain(h) PROVE ENInv'
  <2>1. /\ KeepServer /\ KeepFiles /\ lapses' \in Nat
        /\ enroller[h] \in [pc : {"asking", "save"}, token : Tokens, call : Nat, try : Nat,
                            got : Ids]
    BY <1>0, <1>5 DEF TryAgain, Lapse, ENTypes, Enrolling, NotEnrolling
  <2>2. CASE enroller[h].try < TRIES
    <3>1. /\ enroller' = [enroller EXCEPT ![h].try = @ + 1]
          /\ [enroller[h] EXCEPT !.try = enroller[h].try + 1] \in Enrolling
          /\ [enroller[h] EXCEPT !.try = enroller[h].try + 1].got = enroller[h].got
      BY <1>5, <2>1, <2>2 DEF TryAgain, Enrolling
    <3>2. flight' \subseteq [host : Hosts, token : Tokens, call : Nat, try : Nat]
      BY <1>5, <2>1, <2>2 DEF TryAgain, Sends, ENTypes
    <3>3. /\ enroller' \in [Hosts -> Enrolling]
          /\ \A g \in Hosts : enroller'[g].got = enroller[g].got
      BY <3>1 DEF ENTypes
    <3>4. CredentialIsItsOwn'
      BY <2>1, <3>3, ServerKept DEF Known, KeepFiles
    <3> QED BY <2>1, <3>2, <3>3, <3>4 DEF ENTypes, KeepServer, KeepFiles
  <2>3. CASE ~(enroller[h].try < TRIES)
    <3>1. /\ enroller' \in [Hosts -> Enrolling] /\ UNCHANGED flight
          /\ \A g \in Hosts : enroller'[g].got \in {enroller[g].got, NoWorker}
      BY <1>0, <1>5, <2>3 DEF TryAgain, ENTypes
    <3>2. CredentialIsItsOwn'
      BY <2>1, <3>1, ServerKept DEF Known, KeepFiles
    <3> QED BY <2>1, <3>1, <3>2 DEF ENTypes, KeepServer, KeepFiles
  <2> QED BY <2>2, <2>3
<1>6. ASSUME NEW h \in Hosts,
             save(h) \/ BootstrapDies(h) \/ worker_detach(h) \/ worker_run(h)
                \/ RunIsRefused(h) \/ HostLosesPower(h)
      PROVE  ENInv'
  <2>1. KeepServer /\ UNCHANGED flight /\ lapses' \in Nat
    BY <1>6 DEF save, BootstrapDies, worker_detach, worker_run, RunIsRefused, HostLosesPower,
       NoLapse, Lapse, KeepServer, ENTypes
  <2>2. enroller' \in {enroller, [enroller EXCEPT ![h] = NotEnrolling]}
    BY <1>6 DEF save, BootstrapDies, worker_detach, worker_run, RunIsRefused, HostLosesPower
  <2>3. /\ enroller' \in [Hosts -> Enrolling]
        /\ \A g \in Hosts : enroller'[g].got \in {enroller[g].got, NoWorker}
    BY <1>0, <2>2 DEF ENTypes
  <2>4. enroller[h].got \in Ids
    BY <1>0 DEF Enrolling
  <2>5. /\ saved' \in [Hosts -> Ids] /\ durable' \in [Hosts -> Ids]
        /\ serving' \in [Hosts -> Ids]
        /\ \A g \in Hosts : {saved'[g], durable'[g], serving'[g]} \ {NoWorker} \subseteq Known(g)
    <3>1. CASE save(h)
      BY <2>4, <3>1 DEF save, ENTypes, Known
    <3>2. CASE BootstrapDies(h)
      BY <3>2 DEF BootstrapDies, KeepFiles, ENTypes, Known
    <3>3. CASE worker_detach(h)
      BY <1>0, <3>3 DEF worker_detach, ENTypes, Known
    <3>4. CASE worker_run(h)
      BY <3>4 DEF worker_run, ENTypes, Known
    <3>5. CASE RunIsRefused(h)
      BY <1>0, <3>5 DEF RunIsRefused, ENTypes, Known
    <3>6. CASE HostLosesPower(h)
      BY <1>0, <3>6 DEF HostLosesPower, ENTypes, Known
    <3> QED BY <1>6, <3>1, <3>2, <3>3, <3>4, <3>5, <3>6
  <2>6. \A g \in Hosts : Known(g)' \subseteq Known(g)
    BY <2>3, <2>5 DEF Known
  <2>7. CredentialIsItsOwn'
    BY <2>1, <2>6, ServerKept
  <2> QED BY <2>1, <2>3, <2>5, <2>7 DEF ENTypes, KeepServer
<1>7. ASSUME NEW w \in DOMAIN workers, SessionEnds(w) PROVE ENInv'
  <2>1. /\ UNCHANGED <<token, flight, enroller, saved, durable, serving>> /\ lapses' \in Nat
        /\ workers' = [workers EXCEPT ![w].session = "ended"]
    BY <1>7 DEF SessionEnds, KeepFiles, Lapse, ENTypes
  <2>2. workers \in Seq(Rows)
    BY DEF ENTypes
  <2>3. workers' \in Seq(Rows)
    <3>1. w \in 1 .. Len(workers) /\ workers[w] \in Rows
      BY <2>2, ElementOfSeq
    <3>2. [workers[w] EXCEPT !.session = "ended"] \in Rows
      BY <3>1 DEF Rows
    <3> QED BY <2>1, <2>2, <3>1, <3>2, ExceptSeq
  <2>4. /\ DOMAIN workers' = DOMAIN workers
        /\ \A v \in DOMAIN workers : workers'[v].of = workers[v].of
    BY <2>1, <2>2
  <2>5. CredentialIsItsOwn'
    BY <2>1, <2>4, NobodyLearns DEF Known
  <2> QED BY <2>1, <2>3, <2>5 DEF ENTypes
<1> QED BY <1>1, <1>2, <1>3, <1>4, <1>5, <1>6, <1>7 DEF ENNext

\* A credential on a host, in its file, after a power failure or in the running
\* service, is that of one worker row, made with a token that was spent for this
\* row alone; and no two hosts ever speak for one worker, however often the
\* command is run, sent again or answered late.
THEOREM CredentialsAreOwn == ENSpec => []CredentialIsItsOwn
<1>1. ENInv => CredentialIsItsOwn
  BY DEF ENInv
<1> QED BY EnrollmentInit, EnrollmentStep, <1>1, PTL DEF ENSpec
=============================================================================
