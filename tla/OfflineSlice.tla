---------------------------- MODULE OfflineSlice ----------------------------
(***************************************************************************)
(* OfflineSliceRunner (src/ytb_vps_v2/application/offline_slice.py): one   *)
(* run() takes a job through its stages, from whatever the last process    *)
(* left behind, and returns when the proof and the final checkpoint are    *)
(* recorded and verified.                                                  *)
(*                                                                         *)
(* The stages that differ in the code differ here: TTS, RENDER and PUBLISH *)
(* own a side artifact, PUBLISH is after RENDER after TTS, BACKUP is last; *)
(* the stages before TTS are alike.  A provider gives the same answer for  *)
(* the same input, except speech synthesis: its voice is one of Voices.    *)
(* The document of a stage holds the digest of the one before, so the      *)
(* voice is part of every content from TTS on.                             *)
(***************************************************************************)
EXTENDS Checkpoints

CONSTANTS
    TTS, RENDER,   \* their places; PUBLISH and BACKUP are the last two
    Voices,        \* the audio a synthesis may return
    Calls,         \* requests: [ws, fresh, source, config]
    MaxRuns,       \* bound: calls of run()
    MaxFaults,     \* bound: crashes and failing providers, stores, puts and scans
    MaxDamages     \* bound: files and objects that somebody damages

BACKUP == StageCount
PUBLISH == StageCount - 1

ASSUME SliceAssumption ==
    /\ INGEST < TTS /\ TTS < RENDER /\ RENDER < PUBLISH
    /\ Sided = {TTS, RENDER, PUBLISH}
    /\ None \notin Voices
    /\ \A call \in Calls : call.ws \in Workspaces /\ call.fresh \in Workspaces \union {None}
    /\ {MaxRuns, MaxFaults, MaxDamages} \subseteq Nat

VARIABLES
    run,     \* for each process the run() it is in
    budget   \* what is left of MaxRuns, MaxFaults and MaxDamages, and whether a
             \* scan failed on intact work

slice == <<store, objects, pub, run, budget>>

\* The canonical document or the side file of a stage.  A checkpoint document
\* also names the proof; the digests it holds are those of the proof's record.
Content(s, voice, proof) ==
    [stage |-> s, voice |-> IF s < TTS THEN None ELSE voice,
     proof |-> IF s = BACKUP THEN proof ELSE None]

Document(s) == <<s, "document">>
Side(s) == <<s, "side">>
NoDocuments == [s \in Stages |-> None]
NotRunning == [pc |-> "idle"]

SliceInit ==
    /\ EmptyStore
    /\ files = [w \in Workspaces |-> [n \in Names |-> None]]
    /\ remote = [key \in {} |-> None]
    /\ pub = [p \in Publishers |-> NotPublishing]
    /\ run = [p \in Publishers |-> NotRunning]
    /\ budget = [runs |-> MaxRuns, faults |-> MaxFaults, damages |-> MaxDamages,
                 scared |-> FALSE]

-----------------------------------------------------------------------------
At(p, pc) == run[p].pc = pc
Jump(p, pc) == run' = [run EXCEPT ![p].pc = pc]
\* The call is over; who called and whether anything failed is kept.
Raise(p, how) == run' = [run EXCEPT ![p] = [pc |-> how, ws |-> @.ws, calm |-> @.calm]]
Over == {"idle", "returned", "raised", "fresh_required"}
KeepStore == UNCHANGED store
KeepAll == UNCHANGED <<objects, pub, budget>>

\* run() is called.
Begin(p) ==
    /\ run[p].pc \in Over /\ budget.runs > 0
    /\ \E call \in Calls, at \in Times :
         run' = [run EXCEPT ![p] =
                   [pc |-> "recover", call |-> call, ws |-> call.ws, at |-> at, stage |-> 1,
                    docs |-> NoDocuments, rows |-> Rows({}), damaged |-> None,
                    token |-> None, made |-> None, calm |-> TRUE]]
    /\ budget' = [budget EXCEPT !.runs = @ - 1]
    /\ pub' = [pub EXCEPT ![p] = NotPublishing]
    /\ UNCHANGED <<store, objects>>

Recover(p) ==
    /\ At(p, "recover")
    /\ recover_stale_work
    /\ Jump(p, "create") /\ KeepAll

CreateJob(p) ==
    /\ At(p, "create")
    /\ IF CanCreate(run[p].call.source, run[p].call.config)
       THEN create_job(run[p].call.source, run[p].call.config) /\ Jump(p, "input")
       ELSE KeepStore /\ Raise(p, "raised")
    /\ KeepAll

RecordInput(p) ==
    /\ At(p, "input")
    /\ IF CanRecordInput(run[p].call.source)
       THEN record_verified_input(run[p].call.source) /\ Jump(p, "units")
       ELSE KeepStore /\ Raise(p, "raised")
    /\ KeepAll

\* _ensure_units, stage by stage.
EnsureUnit(p) ==
    /\ At(p, "units")
    /\ LET s == run[p].stage IN
       /\ IF unit[s].status # "ABSENT" THEN KeepStore ELSE put_work_unit(s)
       /\ run' = [run EXCEPT ![p].stage = IF s = StageCount THEN 1 ELSE s + 1,
                             ![p].pc = IF s = StageCount THEN "scan" ELSE "units"]
    /\ KeepAll

-----------------------------------------------------------------------------
\* The rows of a stage are whole and its files are those of the rows, its
\* document fits the one before it, and a proof it names is recorded and verifies.
ReadsBack(w, s) ==
    /\ \A n \in NamesOf(s) : Valid(n) /\ Has(w, n, artifacts[n].digest)
    /\ LET doc == artifacts[Document(s)].digest IN
       /\ s > TTS => artifacts[Document(s - 1)].digest.voice = doc.voice
       /\ s \in Sided => artifacts[Side(s)].digest = doc
       /\ s = BACKUP => \E rec \in RecordsOf(doc.proof) : RecordVerifies(rec)

Succeeded == {s \in Stages : unit[s].status = "SUCCEEDED"}
\* A document is parsed with the one of the stage before it.
Readable(w) == {s \in Stages : \A u \in 1 .. s : u \in Succeeded /\ ReadsBack(w, u)}
FirstOf(S) == CHOOSE s \in S : \A u \in S : s <= u

\* SLIP (breaks RestartResumes): an attempt that failed is taken for damage.
DamageOrFailure(w) ==
    LET broken == Succeeded \ Readable(w)
        ended == {s \in Stages : unit[s].status \in {"INVALID", "FAILED"}}
    IN IF broken # {} THEN FirstOf(broken) ELSE IF ended # {} THEN FirstOf(ended) ELSE None

\* What _resume_workspace finds wrong: the first stage that SUCCEEDED and does
\* not read back, or else the first that is INVALID.
Damage(w) ==
    LET broken == Succeeded \ Readable(w)
        invalid == {s \in Stages : unit[s].status = "INVALID"}
    IN IF broken # {} THEN FirstOf(broken)
       ELSE IF invalid # {} THEN FirstOf(invalid) ELSE None

\* The stages whose results the run goes on with, when it takes `damaged` for the
\* first that is damaged, and rows that no unit explains.
Sound(w, damaged) == {s \in Readable(w) : damaged = None \/ s < damaged}
Strange(w) == {n \in valid_artifacts : /\ Owner(n) \notin Succeeded
                                       /\ \A u \in Succeeded \ Readable(w) : Owner(n) < u}
\* proof_repair_token: the digest of the checkpoint document that is damaged.
RepairToken(damaged) ==
    IF damaged = BACKUP /\ \E n \in NamesOf(BACKUP) : Valid(n)
    THEN artifacts[Document(BACKUP)].digest ELSE None

\* What the scan of w hands on.
Resume(p, w, damaged, calm) ==
    run' = [run EXCEPT
              ![p].pc = IF damaged = None THEN "stage" ELSE "invalidate",
              ![p].damaged = damaged,
              ![p].docs = [s \in Stages |->
                   IF s \in Sound(w, damaged) THEN artifacts[Document(s)].digest ELSE None],
              ![p].rows = Rows({n \in valid_artifacts : Owner(n) \in Sound(w, damaged)}),
              ![p].token = RepairToken(damaged),
              ![p].calm = calm]

\* Every stage is read back.
ScanReads(p) ==
    /\ At(p, "scan")
    /\ LET w == run[p].ws IN
       IF Strange(w) # {} THEN Raise(p, "raised") ELSE Resume(p, w, Damage(w), run[p].calm)
    /\ KeepStore /\ KeepAll

\* Reading a file or an object, or the tool that validates a video, fails while the
\* scan looks at a stage that is intact: that is taken for damage as well.
ScanFails(p) ==
    /\ At(p, "scan")
    /\ budget.faults > 0 /\ budget' = [budget EXCEPT !.faults = @ - 1, !.scared = TRUE]
    /\ \E s \in Readable(run[p].ws) : Resume(p, run[p].ws, s, FALSE)
    /\ KeepStore /\ UNCHANGED <<objects, pub>>

\* _resume_workspace up to apply_invalidation: it only reads.
Scan(p) == ScanReads(p) \/ ScanFails(p)

\* SLIP (breaks OneVoice): only the damaged stage is made invalid.
InvalidateOne(p) ==
    /\ At(p, "invalidate")
    /\ unit' = [unit EXCEPT ![run[p].damaged].status = "INVALID"]
    /\ artifacts' = [n \in Names |->
                       IF Owner(n) = run[p].damaged /\ Valid(n)
                       THEN [artifacts[n] EXCEPT !.row = "invalid"] ELSE artifacts[n]]
    /\ Jump(p, "fresh")
    /\ UNCHANGED <<job, input, failures, records>> /\ KeepAll

\* The damaged stage and all after it are invalid, even if the call then stops.
Invalidate(p) ==
    /\ At(p, "invalidate")
    /\ apply_invalidation({run[p].damaged})
    /\ Jump(p, "fresh") /\ KeepAll

\* The work goes on in another, empty workspace, or not at all.
CheckFresh(p) ==
    /\ At(p, "fresh")
    /\ LET w == run[p].call.fresh IN
       IF w # None /\ w # run[p].ws /\ \A n \in Names : files[w][n] = None
       THEN Jump(p, "copy") ELSE Raise(p, "fresh_required")
    /\ KeepStore /\ KeepAll

\* SLIP (breaks RestartResumes): a path that is taken is always a conflict.
CanWriteNew(w, n, content) == files[w][n] = None

\* Files that write_bytes and write_file may put at a path: no-replace.
CanWrite(w, n, content) == files[w][n] = None \/ Has(w, n, content)

Write(w, n, content) ==
    /\ files' = [files EXCEPT ![w][n] = Whole(content)]
    /\ UNCHANGED remote

\* One upstream artifact is digested and copied.
CopyUpstream(p) ==
    /\ At(p, "copy")
    /\ LET from == run[p].ws
           to == run[p].call.fresh
           todo == {n \in Names : run[p].rows[n] # None /\ files[to][n] = None}
       IN
       IF todo = {} THEN /\ run' = [run EXCEPT ![p].pc = "stage", ![p].ws = to]
                         /\ UNCHANGED objects
       ELSE \E n \in todo :
              /\ \A m \in todo \ {n} : Before(n, m)
              /\ IF Has(from, n, run[p].rows[n])
                 THEN Write(to, n, run[p].rows[n]) /\ UNCHANGED run
                 ELSE Raise(p, "fresh_required") /\ UNCHANGED objects
    /\ KeepStore /\ UNCHANGED <<pub, budget>>

-----------------------------------------------------------------------------
\* The head of the stage loop.
StartStage(p) ==
    /\ At(p, "stage")
    /\ LET s == run[p].stage IN
       IF s > StageCount THEN KeepStore /\ Jump(p, "finish")
       ELSE IF unit[s].status = "SUCCEEDED"
       THEN /\ KeepStore
            /\ IF run[p].docs[s] = None THEN Raise(p, "raised")
               ELSE run' = [run EXCEPT ![p].stage = s + 1]
       ELSE IF CanStart(s) THEN start_work_unit(s) /\ Jump(p, "prepare")
       ELSE KeepStore /\ Raise(p, "raised")
    /\ KeepAll

\* _prepare of a stage that asks a provider: media, OCR, translation, speech,
\* the renderer, which digests the audio it mixes, and the publication, which
\* digests the rendered video.
Prepare(p) ==
    /\ At(p, "prepare") /\ run[p].stage < BACKUP
    /\ LET s == run[p].stage
           upstream == IF s = 1 THEN Content(0, None, None) ELSE run[p].docs[s - 1]
           ready == /\ s = RENDER => Has(run[p].ws, Side(TTS), run[p].docs[TTS])
                    /\ s = PUBLISH => Has(run[p].ws, Side(RENDER), run[p].docs[RENDER])
       IN
       IF upstream # None /\ ready
       THEN \E voice \in IF s = TTS THEN Voices ELSE {upstream.voice} :
              run' = [run EXCEPT ![p].made = Content(s, voice, None),
                                 ![p].pc = IF s \in Sided THEN "side" ELSE "document"]
       ELSE Jump(p, "failing")
    /\ KeepStore /\ KeepAll

\* _effective_checkpoint_id: a base and the attempts of some stages.
EffectiveId(base, stages, token) ==
    [base |-> base, attempts |-> [s \in stages |-> unit[s].attempts],
     token |-> token, repair |-> 0]

\* _checkpoint_id_for_publication: the newest generation, or the next one when
\* that does not verify any more.
PublicationId(base) ==
    LET of == {rec \in records : [rec.id EXCEPT !.repair = 0] = base}
        newest == CHOOSE rec \in of : \A other \in of : other.id.repair <= rec.id.repair
    IN IF of = {} THEN base
       ELSE IF RecordVerifies(newest) THEN newest.id
       ELSE [newest.id EXCEPT !.repair = @ + 1]

ProofId(p) == PublicationId(EffectiveId("proof", Stages \ {BACKUP}, run[p].token))

\* _prepare of BACKUP: a checkpoint document that is there already is taken, if
\* it fits and its proof verifies; otherwise the proof checkpoint is published.
PrepareBackup(p) ==
    /\ At(p, "prepare") /\ run[p].stage = BACKUP
    /\ LET there == files[run[p].ws][Document(BACKUP)]
           upstream == run[p].docs[PUBLISH]
       IN
       IF upstream = None THEN Jump(p, "failing") /\ UNCHANGED pub
       ELSE IF there # None
       THEN /\ IF /\ there.whole /\ there.content.voice = upstream.voice
                  /\ \E rec \in RecordsOf(there.content.proof) : RecordVerifies(rec)
               THEN run' = [run EXCEPT ![p].made = there.content, ![p].pc = "document"]
               ELSE Jump(p, "failing")
            /\ UNCHANGED pub
       ELSE Publish(p, ProofId(p), run[p].ws, run[p].at) /\ Jump(p, "proof")
    /\ KeepStore /\ UNCHANGED <<objects, budget>>

\* publish() came back: _checkpoint_record and _verify_checkpoint_record.
Verified(p) == \E rec \in RecordsOf(pub[p].id) : RecordVerifies(rec)

Proof(p) ==
    /\ At(p, "proof") /\ pub[p].step \in {"done", "error"}
    /\ IF Step(p, "done") /\ Verified(p)
       THEN run' = [run EXCEPT ![p].pc = "document",
                               ![p].made = Content(BACKUP, run[p].docs[PUBLISH].voice, pub[p].id)]
       ELSE Jump(p, "failing")
    /\ KeepStore /\ KeepAll

\* _publish_prepared: the side file first ...
WriteSide(p) ==
    /\ At(p, "side")
    /\ LET n == Side(run[p].stage) IN
       IF CanWrite(run[p].ws, n, run[p].made)
       THEN Write(run[p].ws, n, run[p].made) /\ Jump(p, "document")
       ELSE Jump(p, "failing") /\ UNCHANGED objects
    /\ KeepStore /\ UNCHANGED <<pub, budget>>

\* ... then the document ...
WriteDocument(p) ==
    /\ At(p, "document")
    /\ LET n == Document(run[p].stage) IN
       IF CanWrite(run[p].ws, n, run[p].made)
       THEN Write(run[p].ws, n, run[p].made) /\ Jump(p, "commit")
       ELSE Jump(p, "failing") /\ UNCHANGED objects
    /\ KeepStore /\ UNCHANGED <<pub, budget>>

\* ... then the rows, in one transaction.
Commit(p) ==
    /\ At(p, "commit")
    /\ LET s == run[p].stage
           rows == [n \in NamesOf(s) |-> run[p].made]
       IN
       IF CanCommit(s, rows)
       THEN /\ commit_artifacts(s, rows)
            /\ run' = [run EXCEPT ![p].docs[s] = run[p].made, ![p].stage = s + 1,
                                  ![p].pc = "stage"]
       ELSE KeepStore /\ Jump(p, "failing")
    /\ KeepAll

\* The handler of a stage: the attempt is recorded, if it still runs.
FailStage(p) ==
    /\ At(p, "failing")
    /\ IF unit[run[p].stage].status = "RUNNING"
       THEN fail_work_unit(run[p].stage) ELSE KeepStore
    /\ Raise(p, "raised") /\ KeepAll

\* After the loop the proof is published once more, which verifies it, ...
FinishProof(p) ==
    /\ At(p, "finish")
    /\ Publish(p, run[p].docs[BACKUP].proof, run[p].ws, run[p].at)
    /\ Jump(p, "proven")
    /\ UNCHANGED <<store, objects, budget>>

\* SLIP (breaks ReturnedIsDurable): the proof is taken for the final checkpoint.
FinishWithProof(p) ==
    /\ At(p, "proven") /\ pub[p].step \in {"done", "error"}
    /\ IF Step(p, "done") /\ Verified(p)
       THEN /\ Publish(p, PublicationId(EffectiveId("proof", Stages \ {BACKUP}, None)),
                       run[p].ws, run[p].at)
            /\ Jump(p, "final")
       ELSE Raise(p, "raised") /\ UNCHANGED pub
    /\ UNCHANGED <<store, objects, budget>>

\* ... then the final checkpoint, whose snapshot has BACKUP SUCCEEDED, ...
FinishFinal(p) ==
    /\ At(p, "proven") /\ pub[p].step \in {"done", "error"}
    /\ IF Step(p, "done") /\ Verified(p)
       THEN /\ Publish(p, PublicationId(EffectiveId("final", Stages, None)),
                       run[p].ws, run[p].at)
            /\ Jump(p, "final")
       ELSE Raise(p, "raised") /\ UNCHANGED pub
    /\ UNCHANGED <<store, objects, budget>>

\* ... and the result is returned when that verifies too.
Return(p) ==
    /\ At(p, "final") /\ pub[p].step \in {"done", "error"}
    /\ Raise(p, IF Step(p, "done") /\ Verified(p) THEN "returned" ELSE "raised")
    /\ KeepStore /\ KeepAll

Publishing(p) ==
    /\ run[p].pc \in {"proof", "proven", "final"}
    /\ PublishStep(p)
    /\ UNCHANGED <<run, budget>>

RunStep(p) ==
    \/ Begin(p) \/ Recover(p) \/ CreateJob(p) \/ RecordInput(p) \/ EnsureUnit(p)
    \/ Scan(p) \/ Invalidate(p) \/ CheckFresh(p) \/ CopyUpstream(p)
    \/ StartStage(p) \/ Prepare(p) \/ PrepareBackup(p) \/ Proof(p)
    \/ WriteSide(p) \/ WriteDocument(p) \/ Commit(p) \/ FailStage(p)
    \/ FinishProof(p) \/ FinishFinal(p) \/ Return(p)
    \/ Publishing(p)

-----------------------------------------------------------------------------
Spend(what) == budget[what] > 0 /\ budget' = [budget EXCEPT ![what] = @ - 1]

\* The process dies, an operator interrupts it (OfflineSliceInterrupted), or an
\* error that no handler takes ends the call.
Crash(p) ==
    /\ run[p].pc \notin Over
    /\ Spend("faults")
    /\ run' = [run EXCEPT ![p] = NotRunning]
    /\ pub' = [pub EXCEPT ![p] = NotPublishing]
    /\ UNCHANGED <<store, objects>>

\* A provider or the disk fails inside a stage.
StageFails(p) ==
    /\ run[p].pc \in {"prepare", "side", "document"}
    /\ Spend("faults")
    /\ run' = [run EXCEPT ![p].pc = "failing", ![p].calm = FALSE]
    /\ UNCHANGED <<store, objects, pub>>

StoreFailsInRun(p) ==
    /\ run[p].pc \in {"proof", "proven", "final"}
    /\ Spend("faults")
    /\ StoreFails(p)
    /\ run' = [run EXCEPT ![p].calm = FALSE]

\* A file of a workspace is lost or altered.
DamageFile ==
    /\ Spend("damages")
    /\ \E w \in Workspaces, n \in Names :
         /\ files[w][n] # None /\ files[w][n].whole
         /\ \E left \in {None, [files[w][n] EXCEPT !.whole = FALSE]} :
              files' = [files EXCEPT ![w][n] = left]
    /\ UNCHANGED <<store, remote, pub, run>>

\* An object of the store is lost or altered.
DamageObject ==
    /\ Spend("damages")
    /\ \E key \in DOMAIN remote :
         /\ remote[key].whole
         /\ remote' = [remote EXCEPT ![key].whole = FALSE]
    /\ UNCHANGED <<store, files, pub, run>>

SliceNext ==
    \/ \E p \in Publishers :
          RunStep(p) \/ Crash(p) \/ StageFails(p) \/ StoreFailsInRun(p)
    \/ DamageFile \/ DamageObject

SliceSpec == SliceInit /\ [][SliceNext]_slice

-----------------------------------------------------------------------------
\* The valid results fit each other: what RENDER, PUBLISH and BACKUP hold was
\* made from the audio TTS holds now, whatever was damaged, lost and made again
\* in between.
OneVoice ==
    \A m, n \in valid_artifacts :
        Owner(m) >= TTS /\ Owner(n) >= TTS =>
            artifacts[m].digest.voice = artifacts[n].digest.voice

\* What run() returns is there: every stage SUCCEEDED, every row has its file in
\* the workspace, and the proof and a final checkpoint of just this state are
\* recorded, complete but for what somebody damaged.
ReturnedIsDurable ==
    \A p \in Publishers : At(p, "returned") =>
        /\ Succeeded = Stages
        /\ \A n \in Names : /\ Valid(n)
                            /\ budget.damages = MaxDamages =>
                                 Has(run[p].ws, n, artifacts[n].digest)
        /\ \E rec \in RecordsOf(pub[p].id) :
              /\ rec.id.base = "final"
              /\ rec.evidence.state.unit = unit /\ rec.evidence.state.artifacts = artifacts
        /\ RecordsOf(artifacts[Document(BACKUP)].digest.proof) # {}

\* Finished work is never thrown away without a reason: a unit loses SUCCEEDED only to
\* a file that does not match its row, in the workspace the run was given, to a proof
\* that does not verify, or to a scan that failed itself in this very run.
PaidWorkIsKept ==
    [][Succeeded \subseteq Succeeded' \/
         \E p \in Publishers :
            \/ \E n \in valid_artifacts : ~Has(run[p].ws, n, artifacts[n].digest)
            \/ /\ Valid(Document(BACKUP))
               /\ ~ \E rec \in RecordsOf(artifacts[Document(BACKUP)].digest.proof) :
                       RecordVerifies(rec)
            \/ At(p, "invalidate") /\ ~run[p].calm]_slice

\* Something a dead or failed run left behind, which later runs can neither use
\* nor replace: the state snapshot of a proof that was not recorded, the audio of an
\* attempt that did not commit.
Leftover ==
    \/ \E key \in DOMAIN remote :
          key[2] = "state" /\ key[1].base = "proof" /\ RecordsOf(key[1]) = {}
    \/ /\ Cardinality(Voices) > 1
       /\ \E w \in Workspaces : files[w][Side(TTS)] # None /\ ~Valid(Side(TTS))

\* The run wants another workspace where there is only this one, as for
\* run_native_pipeline, which names no other.
OutOfRoom(p) == At(p, "fresh_required") /\ Workspaces = {run[p].ws}

\* "Restart at every stage" (docs/rebuild/00-MASTER-PLAN.md): where nobody damaged
\* anything, a run that nothing disturbs does not fail, wherever the runs before
\* it stopped - unless they left one of the above, or the scan of one of them failed
\* and made work invalid for which there is no other workspace.
RestartResumes ==
    budget.damages = MaxDamages =>
        \A p \in Publishers :
            /\ At(p, "raised") /\ run[p].calm => Leftover
            /\ OutOfRoom(p) /\ run[p].calm =>
                  budget.scared /\ \E s \in Stages : unit[s].status = "INVALID"

\* The same without the first exception: "restart at every stage".
EveryRestartResumes ==
    budget.damages = MaxDamages =>
        \A p \in Publishers : ~(At(p, "raised") /\ run[p].calm)

\* And without the second: only "missing or corrupt output" makes a stage invalid and
\* asks for a fresh workspace.
WorkspaceSuffices ==
    budget.damages = MaxDamages =>
        \A p \in Publishers : ~(OutOfRoom(p) /\ run[p].calm)
=============================================================================
