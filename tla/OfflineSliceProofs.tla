------------------------- MODULE OfflineSliceProofs -------------------------
(***************************************************************************)
(* Theorems of WorkState, Checkpoints and OfflineSlice.                    *)
(***************************************************************************)
EXTENDS OfflineSlice, TLAPS, WellFoundedInduction, FiniteSetTheorems

\* Needed for the attempts in the history.
RunningWasStarted == \A s \in Stages : unit[s].status = "RUNNING" => unit[s].attempts > 0

\* The tables keep these together: which commits are possible depends on the rows
\* and the status, which failures are old on the attempts.
StoreInv ==
    /\ StoreTypeOK
    /\ RunningWasStarted
    /\ OwnedBySucceeded
    /\ RowsOfOneAge
    /\ HistoryOfFailures
    /\ DurableFirst
    /\ OneRecordPerId

LEMMA EmptyStoreInv == EmptyStore => StoreInv
  <1> SUFFICES ASSUME EmptyStore PROVE StoreInv
    OBVIOUS
  <1>1. StoreTypeOK /\ RunningWasStarted
    BY DEF EmptyStore, StoreTypeOK, RunningWasStarted, Statuses
  <1>2. OwnedBySucceeded /\ RowsOfOneAge
    BY DEF EmptyStore, OwnedBySucceeded, RowsOfOneAge, NamesOf, Valid, Invalid
  <1>3. HistoryOfFailures /\ DurableFirst /\ OneRecordPerId
    BY DEF EmptyStore, HistoryOfFailures, DurableFirst, OneRecordPerId
  <1>4. QED
    BY <1>1, <1>2, <1>3 DEF StoreInv

LEMMA CreateJobInv ==
  ASSUME StoreInv, NEW src, NEW cfg, create_job(src, cfg) PROVE StoreInv'
  BY DEF StoreInv, create_job, CanCreate, StoreTypeOK, RunningWasStarted, OwnedBySucceeded,
         RowsOfOneAge, HistoryOfFailures, DurableFirst, DurableInput, OneRecordPerId, Valid, Invalid

LEMMA RecordInputInv ==
  ASSUME StoreInv, NEW src, record_verified_input(src) PROVE StoreInv'
  BY DEF StoreInv, record_verified_input, CanRecordInput, StoreTypeOK, RunningWasStarted,
         OwnedBySucceeded, RowsOfOneAge, HistoryOfFailures, DurableFirst, DurableInput, OneRecordPerId,
         Valid, Invalid

\* Putting, starting, failing and recovering change units and the history only.
LEMMA UnitInv ==
  ASSUME StoreInv,
         \/ \E s \in Stages : put_work_unit(s) \/ start_work_unit(s) \/ fail_work_unit(s)
         \/ recover_stale_work
  PROVE  StoreInv'
  <1>1. artifacts' = artifacts /\ job' = job /\ input' = input /\ records' = records
    BY DEF put_work_unit, start_work_unit, fail_work_unit, recover_stale_work
  <1>2. StoreTypeOK' /\ RunningWasStarted'
    BY <1>1 DEF StoreInv, StoreTypeOK, RunningWasStarted, Statuses, put_work_unit, start_work_unit,
                fail_work_unit, recover_stale_work, CanStart
  <1>3. \A s \in Stages : unit'[s].status = "SUCCEEDED" <=> unit[s].status = "SUCCEEDED"
    BY DEF StoreInv, StoreTypeOK, put_work_unit, CanPut, start_work_unit, CanStart,
           fail_work_unit, recover_stale_work
  <1>4. OwnedBySucceeded' /\ RowsOfOneAge'
    BY <1>1, <1>3 DEF StoreInv, OwnedBySucceeded, RowsOfOneAge, Valid, Invalid
  <1>5. HistoryOfFailures'
    BY DEF StoreInv, StoreTypeOK, HistoryOfFailures, put_work_unit, CanPut,
           start_work_unit, CanStart, fail_work_unit, recover_stale_work
  <1>6. DurableFirst'
    BY <1>1 DEF StoreInv, StoreTypeOK, DurableFirst, DurableInput, put_work_unit, CanPut,
           start_work_unit, CanStart, fail_work_unit, recover_stale_work
  <1>7. OneRecordPerId'
    BY <1>1 DEF StoreInv, OneRecordPerId
  <1>8. QED
    BY <1>2, <1>4, <1>5, <1>6, <1>7 DEF StoreInv

LEMMA CommitInv ==
  ASSUME StoreInv, NEW s \in Stages, NEW rows, commit_artifacts(s, rows) PROVE StoreInv'
  <1> USE DEF commit_artifacts, CanCommit
  <1>1. StoreTypeOK' /\ RunningWasStarted'
    BY DEF StoreInv, StoreTypeOK, RunningWasStarted, Statuses
  <1>2. \A n \in Names : artifacts'[n] = IF n \in DOMAIN rows
                                         THEN [row |-> "valid", digest |-> rows[n]]
                                         ELSE artifacts[n]
    OBVIOUS
  <1>3. \A u \in Stages : u # s => unit'[u] = unit[u]
    BY DEF StoreInv, StoreTypeOK
  <1>4. unit'[s].status = "SUCCEEDED" /\ unit'[s].attempts = unit[s].attempts
    BY DEF StoreInv, StoreTypeOK
  <1>5. \A n \in Names : Owner(n) # s => artifacts'[n] = artifacts[n]
    BY <1>2 DEF NamesOf
  <1>6. OwnedBySucceeded'
    <2> SUFFICES ASSUME NEW u \in Stages
                 PROVE  unit'[u].status = "SUCCEEDED" <=> \E n \in NamesOf(u) : Valid(n)'
      BY DEF OwnedBySucceeded, NamesOf
    <2>1. CASE u = s
      BY <2>1, <1>2, <1>4 DEF NamesOf, Valid
    <2>2. CASE u # s
      BY <2>2, <1>3, <1>5 DEF StoreInv, OwnedBySucceeded, NamesOf, Valid
    <2>3. QED
      BY <2>1, <2>2
  <1>7. RowsOfOneAge'
    <2> SUFFICES ASSUME NEW u \in Stages, NEW m \in NamesOf(u), NEW n \in NamesOf(u),
                        Valid(m)', Invalid(n)'
                 PROVE  FALSE
      BY DEF RowsOfOneAge, NamesOf
    <2>1. CASE u = s
      BY <2>1, <1>2 DEF NamesOf, Valid, Invalid, IdentitiesAgree, StoreInv, RowsOfOneAge
    <2>2. CASE u # s
      BY <2>2, <1>5 DEF StoreInv, RowsOfOneAge, NamesOf, Valid, Invalid
    <2>3. QED
      BY <2>1, <2>2
  <1>8. HistoryOfFailures'
    BY <1>3, <1>4 DEF StoreInv, HistoryOfFailures
  <1>9. DurableFirst'
    BY <1>3, <1>4 DEF StoreInv, DurableFirst, DurableInput
  <1>10. OneRecordPerId'
    BY DEF StoreInv, OneRecordPerId
  <1>11. QED
    BY <1>1, <1>6, <1>7, <1>8, <1>9, <1>10 DEF StoreInv

LEMMA InvalidationInv ==
  ASSUME StoreInv, NEW owners, apply_invalidation(owners) PROVE StoreInv'
  <1> USE DEF apply_invalidation
  <1>1. StoreTypeOK' /\ RunningWasStarted'
    BY DEF StoreInv, StoreTypeOK, RunningWasStarted, Statuses, Valid
  <1>2. \A u \in Stages :
           /\ unit'[u].attempts = unit[u].attempts
           /\ unit'[u].status = IF u \in Affected(owners) /\ unit[u].status # "ABSENT"
                                THEN "INVALID" ELSE unit[u].status
    BY DEF StoreInv, StoreTypeOK
  <1>3. \A n \in Names :
           artifacts'[n].row = IF Owner(n) \in Affected(owners) /\ Valid(n)
                               THEN "invalid" ELSE artifacts[n].row
    BY DEF StoreInv, StoreTypeOK, Valid
  <1>4. OwnedBySucceeded' /\ RowsOfOneAge'
    BY <1>2, <1>3 DEF StoreInv, OwnedBySucceeded, RowsOfOneAge, NamesOf, Valid, Invalid
  <1>5. HistoryOfFailures'
    BY <1>2 DEF StoreInv, HistoryOfFailures
  <1>6. DurableFirst' /\ OneRecordPerId'
    BY <1>2 DEF StoreInv, DurableFirst, DurableInput, OneRecordPerId
  <1>7. QED
    BY <1>1, <1>4, <1>5, <1>6 DEF StoreInv

LEMMA RecordInv ==
  ASSUME StoreInv, NEW i, NEW evidence, record_checkpoint(i, evidence) PROVE StoreInv'
  <1> USE DEF record_checkpoint, CanRecord
  <1>1. /\ StoreTypeOK' /\ RunningWasStarted' /\ OwnedBySucceeded' /\ RowsOfOneAge'
        /\ HistoryOfFailures'
    BY DEF StoreInv, StoreTypeOK, RunningWasStarted, OwnedBySucceeded, RowsOfOneAge, HistoryOfFailures,
           Valid, Invalid
  <1>2. DurableFirst'
    BY DEF StoreInv, DurableFirst, DurableInput
  <1>3. OneRecordPerId'
    BY DEF StoreInv, OneRecordPerId, RecordsOf
  <1>4. QED
    BY <1>1, <1>2, <1>3 DEF StoreInv

LEMMA StoreStep == StoreInv /\ [StoreNext]_store => StoreInv'
  <1> SUFFICES ASSUME StoreInv, [StoreNext]_store PROVE StoreInv'
    OBVIOUS
  <1>1. CASE UNCHANGED store
    BY <1>1 DEF store, StoreInv, StoreTypeOK, RunningWasStarted, OwnedBySucceeded,
                RowsOfOneAge, HistoryOfFailures, DurableFirst, DurableInput, OneRecordPerId, Valid, Invalid
  <1>2. CASE StoreNext
    BY <1>2, CreateJobInv, RecordInputInv, UnitInv, CommitInv, InvalidationInv, RecordInv
       DEF StoreNext
  <1>3. QED
    BY <1>1, <1>2

\* Whatever any number of processes do to the database, in whatever order their
\* transactions take effect: its rows and units fit each other, the history names
\* attempts that failed, nothing runs before the input is durable and a checkpoint
\* id keeps its meaning (SqliteStateStore).
THEOREM StoreIsConsistent == StoreSpec => []StoreInv
  <1>1. EmptyStore => StoreInv
    BY EmptyStoreInv
  <1>2. StoreInv /\ [StoreNext]_store => StoreInv'
    BY StoreStep
  <1>3. QED
    BY <1>1, <1>2, PTL DEF StoreSpec

-----------------------------------------------------------------------------
\* The place of a run among the stages.
Fields == {"pc", "call", "ws", "at", "stage", "docs", "rows", "damaged", "token", "made", "calm"}
InOneStage == {"recover", "create", "input", "units", "scan", "invalidate", "fresh", "copy",
               "prepare", "proof", "side", "document", "commit", "failing"}
BetweenStages == {"stage", "finish", "proven", "final"}
RunInv ==
    /\ DOMAIN run = Publishers
    /\ \A p \in Publishers :
          /\ run[p].pc \in Over \union InOneStage \union BetweenStages
          /\ run[p].pc \notin Over => DOMAIN run[p] = Fields
          /\ run[p].pc \in InOneStage => run[p].stage \in Stages
          /\ run[p].pc = "stage" => run[p].stage \in Nat \ {0}

LEMMA RunInvInit == SliceInit => RunInv
  BY DEF SliceInit, RunInv, NotRunning, Over, InOneStage

\* What the scan hands on, whether it read every stage or failed at an intact one.
ScanDocs(w, damaged) == [s \in Stages |-> IF s \in Sound(w, damaged)
                                          THEN artifacts[Document(s)].digest ELSE None]
ScanRows(w, damaged) == Rows({n \in valid_artifacts : Owner(n) \in Sound(w, damaged)})
ScanSees(w, was, damaged, calm) ==
    \/ damaged = Damage(w) /\ calm = was
    \/ damaged \in Readable(w) /\ calm = FALSE

LEMMA ScanForm ==
  ASSUME NEW p \in Publishers, Scan(p)
  PROVE  /\ run[p].pc = "scan" /\ UNCHANGED <<store, objects, pub>>
         /\ \/ Raise(p, "raised") /\ Strange(run[p].ws) # {} /\ UNCHANGED budget
            \/ \E damaged, calm : /\ Resume(p, run[p].ws, damaged, calm)
                                  /\ ScanSees(run[p].ws, run[p].calm, damaged, calm)
  <1>1. CASE ScanReads(p)
    BY <1>1 DEF ScanReads, At, KeepStore, KeepAll, ScanSees
  <1>2. CASE ScanFails(p)
    <2>1. PICK s \in Readable(run[p].ws) : Resume(p, run[p].ws, s, FALSE)
      BY <1>2 DEF ScanFails
    <2>2. ScanSees(run[p].ws, run[p].calm, s, FALSE)
      BY DEF ScanSees
    <2>3. run[p].pc = "scan" /\ UNCHANGED <<store, objects, pub>>
      BY <1>2 DEF ScanFails, At, KeepStore
    <2>4. QED
      BY <2>1, <2>2, <2>3
  <1>3. QED
    BY <1>1, <1>2 DEF Scan

LEMMA ResumeFields ==
  ASSUME RunInv, NEW p \in Publishers, run[p].pc = "scan", NEW w, NEW damaged, NEW calm,
         Resume(p, w, damaged, calm)
  PROVE  /\ run'[p].pc = IF damaged = None THEN "stage" ELSE "invalidate"
         /\ run'[p].damaged = damaged /\ run'[p].calm = calm
         /\ run'[p].docs = ScanDocs(w, damaged) /\ run'[p].rows = ScanRows(w, damaged)
         /\ run'[p].token = RepairToken(damaged)
         /\ run'[p].ws = run[p].ws /\ run'[p].call = run[p].call
         /\ run'[p].stage = run[p].stage /\ run'[p].made = run[p].made
         /\ run'[p].at = run[p].at
         /\ DOMAIN run' = Publishers /\ DOMAIN run'[p] = Fields
         /\ \A q \in Publishers : q # p => run'[q] = run[q]
  <1> DEFINE pc == IF damaged = None THEN "stage" ELSE "invalidate"
             docs == ScanDocs(w, damaged)
             rows == ScanRows(w, damaged)
             token == RepairToken(damaged)
  <1>1. run' = [run EXCEPT ![p].pc = pc, ![p].damaged = damaged, ![p].docs = docs,
                           ![p].rows = rows, ![p].token = token, ![p].calm = calm]
    BY DEF Resume, ScanDocs, ScanRows
  <1> HIDE DEF pc, docs, rows, token
  <1>2. DOMAIN run[p] = Fields /\ DOMAIN run = Publishers
    BY DEF RunInv, Over
  <1>3. /\ run'[p].pc = pc /\ run'[p].damaged = damaged /\ run'[p].calm = calm
        /\ run'[p].docs = docs /\ run'[p].rows = rows /\ run'[p].token = token
        /\ DOMAIN run' = Publishers /\ DOMAIN run'[p] = Fields
        /\ \A q \in Publishers : q # p => run'[q] = run[q]
    BY <1>1, <1>2 DEF Fields
  <1>4. /\ run'[p].ws = run[p].ws /\ run'[p].call = run[p].call
        /\ run'[p].stage = run[p].stage /\ run'[p].made = run[p].made
        /\ run'[p].at = run[p].at
    BY <1>1, <1>2 DEF Fields
  <1>5. QED
    BY <1>3, <1>4 DEF pc, docs, rows, token

LEMMA RunInvStep == RunInv /\ [SliceNext]_slice => RunInv'
  <1> SUFFICES ASSUME RunInv, [SliceNext]_slice PROVE RunInv'
    OBVIOUS
  <1> USE DEF RunInv, Over, InOneStage, BetweenStages, At, Jump, Raise
  <1>1. CASE UNCHANGED slice
    BY <1>1 DEF slice
  <1>2. CASE DamageFile \/ DamageObject
    BY <1>2 DEF DamageFile, DamageObject
  <1>3. ASSUME NEW p \in Publishers, Crash(p) \/ StageFails(p) \/ StoreFailsInRun(p)
        PROVE  RunInv'
    BY <1>3 DEF Crash, StageFails, StoreFailsInRun, NotRunning, Fields
  <1>4. ASSUME NEW p \in Publishers, RunStep(p) PROVE RunInv'
    <2>1. CASE Begin(p)
      BY <2>1, StagesAssumption DEF Begin, Fields, Stages
    <2>2. CASE Recover(p) \/ CreateJob(p) \/ RecordInput(p)
      BY <2>2 DEF Recover, CreateJob, RecordInput, Fields
    <2>3. CASE EnsureUnit(p)
      BY <2>3, StagesAssumption DEF EnsureUnit, Stages, Fields
    <2>4. CASE Scan(p)
      <3>1. run[p].pc = "scan"
        BY <2>4, ScanForm
      <3>2. CASE Raise(p, "raised")
        BY <3>1, <3>2
      <3>3. CASE \E damaged, calm : Resume(p, run[p].ws, damaged, calm)
        <4>1. PICK damaged, calm : Resume(p, run[p].ws, damaged, calm)
          BY <3>3
        <4>2. /\ run'[p].pc \in {"stage", "invalidate"} /\ run'[p].stage = run[p].stage
              /\ DOMAIN run'[p] = Fields /\ DOMAIN run' = Publishers
              /\ \A q \in Publishers : q # p => run'[q] = run[q]
          <5> HIDE DEF RunInv
          <5>1. QED
            BY <3>1, <4>1, ResumeFields
        <4>3. run[p].stage \in Stages /\ Stages \subseteq Nat \ {0}
          BY <3>1 DEF Stages
        <4>4. QED
          BY <4>2, <4>3
      <3>4. QED
        BY <2>4, <3>2, <3>3, ScanForm
    <2>5. CASE Invalidate(p) \/ CheckFresh(p)
      BY <2>5 DEF Invalidate, CheckFresh, Fields
    <2>6. CASE CopyUpstream(p)
      BY <2>6 DEF CopyUpstream, Fields, Stages
    <2>7. CASE StartStage(p)
      BY <2>7, StagesAssumption DEF StartStage, Fields, Stages
    <2>8. CASE Prepare(p) \/ PrepareBackup(p) \/ Proof(p)
      <3>1. run[p].pc \in {"prepare", "proof"}
        BY <2>8 DEF Prepare, PrepareBackup, Proof
      <3>2. PICK pc \in {"side", "document", "failing", "proof"} :
               \/ \E made : run' = [run EXCEPT ![p].made = made, ![p].pc = pc]
               \/ run' = [run EXCEPT ![p].pc = pc]
        <4>1. CASE Prepare(p)
          BY <4>1 DEF Prepare
        <4>2. CASE PrepareBackup(p)
          BY <4>2 DEF PrepareBackup
        <4>3. CASE Proof(p)
          BY <4>3 DEF Proof
        <4>4. QED
          BY <2>8, <4>1, <4>2, <4>3
      <3>3. CASE run' = [run EXCEPT ![p].pc = pc]
        BY <3>1, <3>3 DEF Fields
      <3>4. CASE \E made : run' = [run EXCEPT ![p].made = made, ![p].pc = pc]
        <4>1. PICK made : run' = [run EXCEPT ![p].made = made, ![p].pc = pc]
          BY <3>4
        <4>2. QED
          BY <3>1, <4>1 DEF Fields
      <3>5. QED
        BY <3>2, <3>3, <3>4
    <2>9. CASE WriteSide(p) \/ WriteDocument(p) \/ FailStage(p)
      BY <2>9 DEF WriteSide, WriteDocument, FailStage, Fields
    <2>10. CASE Commit(p)
      BY <2>10 DEF Commit, Fields, Stages
    <2>11. CASE FinishProof(p) \/ FinishFinal(p) \/ Return(p) \/ Publishing(p)
      BY <2>11 DEF FinishProof, FinishFinal, Return, Publishing, Fields
    <2>12. QED
      BY <1>4, <2>1, <2>2, <2>3, <2>4, <2>5, <2>6, <2>7, <2>8, <2>9, <2>10, <2>11
         DEF RunStep
  <1>5. QED
    BY <1>1, <1>2, <1>3, <1>4 DEF SliceNext

\* A step of a run, a crash or a damage is one operation of the database at most.
LEMMA SliceStepsTheStore == RunInv /\ [SliceNext]_slice => [StoreNext]_store
  <1> SUFFICES ASSUME RunInv, [SliceNext]_slice PROVE [StoreNext]_store
    OBVIOUS
  <1>1. CASE UNCHANGED slice
    BY <1>1 DEF slice, store
  <1>2. CASE \/ DamageFile \/ DamageObject
             \/ \E p \in Publishers : Crash(p) \/ StageFails(p) \/ StoreFailsInRun(p)
    BY <1>2 DEF Crash, StageFails, StoreFailsInRun, StoreFails, DamageFile, DamageObject, store
  <1>3. ASSUME NEW p \in Publishers, RunStep(p) PROVE [StoreNext]_store
    <2>1. CASE \/ Begin(p) \/ Scan(p) \/ CheckFresh(p) \/ CopyUpstream(p) \/ Prepare(p)
               \/ PrepareBackup(p) \/ Proof(p) \/ WriteSide(p) \/ WriteDocument(p)
               \/ FinishProof(p) \/ FinishFinal(p) \/ Return(p)
      BY <2>1, ScanForm DEF Begin, CheckFresh, CopyUpstream, Prepare, PrepareBackup, Proof,
                  WriteSide, WriteDocument, FinishProof, FinishFinal, Return, KeepStore, store
    <2>2. CASE Recover(p)
      BY <2>2 DEF Recover, StoreNext
    <2>3. CASE CreateJob(p)
      BY <2>3 DEF CreateJob, KeepStore, StoreNext
    <2>4. CASE RecordInput(p)
      BY <2>4 DEF RecordInput, KeepStore, StoreNext
    <2>5. CASE EnsureUnit(p)
      BY <2>5 DEF EnsureUnit, KeepStore, StoreNext, RunInv, InOneStage, At
    <2>6. CASE Invalidate(p)
      BY <2>6 DEF Invalidate, StoreNext
    <2>7. CASE StartStage(p)
      BY <2>7, StagesAssumption DEF StartStage, KeepStore, StoreNext, RunInv, At, Stages
    <2>8. CASE Commit(p)
      BY <2>8 DEF Commit, KeepStore, StoreNext, RunInv, InOneStage, At
    <2>9. CASE FailStage(p)
      BY <2>9 DEF FailStage, KeepStore, StoreNext, RunInv, InOneStage, At
    <2>10. CASE Publishing(p)
      <3>1. CASE Record(p)
        BY <3>1 DEF Record, StoreNext
      <3>2. CASE Completed(p) \/ Collect(p) \/ Snapshot(p)
        BY <3>2 DEF Completed, Collect, Snapshot
      <3>3. CASE Put(p) \/ PutManifest(p)
        <4>1. CASE Put(p)
          BY <4>1 DEF Put
        <4>2. CASE PutManifest(p)
          BY <4>2 DEF PutManifest
        <4>3. QED
          BY <3>3, <4>1, <4>2
      <3>4. QED
        BY <2>10, <3>1, <3>2, <3>3 DEF Publishing, PublishStep
    <2>11. QED
      BY <1>3, <2>1, <2>2, <2>3, <2>4, <2>5, <2>6, <2>7, <2>8, <2>9, <2>10 DEF RunStep
  <1>4. QED
    BY <1>1, <1>2, <1>3 DEF SliceNext

\* The runner uses the database by its operations only (OfflineSliceRunner over
\* SqliteStateStore): what holds of any mix of them holds of runs that crash, are
\* repeated and overlap.
THEOREM SliceImplementsStore == SliceSpec => StoreSpec
  <1>1. SliceInit => RunInv /\ EmptyStore
    BY RunInvInit DEF SliceInit
  <1>2. RunInv /\ [SliceNext]_slice => RunInv'
    BY RunInvStep
  <1>3. RunInv /\ [SliceNext]_slice => [StoreNext]_store
    BY SliceStepsTheStore
  <1>4. QED
    BY <1>1, <1>2, <1>3, PTL DEF SliceSpec, StoreSpec

LEMMA SliceKeepsStoreInv == SliceSpec => []StoreInv
  BY SliceImplementsStore, StoreIsConsistent, PTL

\* The tables have their types in every run.
THEOREM TypesHold == SliceSpec => []StoreTypeOK
  <1>1. StoreInv => StoreTypeOK
    BY DEF StoreInv
  <1>2. QED
    BY <1>1, SliceKeepsStoreInv, PTL

\* For every number of stages, runners, crashes and repairs: a stage owns valid
\* rows exactly when its unit SUCCEEDED (start_work_unit, commit_artifacts,
\* apply_invalidation and recover_stale_work of state.py).
THEOREM UnitsOwnTheirRows == SliceSpec => []OwnedBySucceeded
  <1>1. StoreInv => OwnedBySucceeded
    BY DEF StoreInv
  <1>2. QED
    BY <1>1, SliceKeepsStoreInv, PTL

\* A result is replaced whole (commit_artifacts of state.py).
THEOREM ResultsAreReplacedWhole == SliceSpec => []RowsOfOneAge
  <1>1. StoreInv => RowsOfOneAge
    BY DEF StoreInv
  <1>2. QED
    BY <1>1, SliceKeepsStoreInv, PTL

\* retry_events name attempts that failed (fail_work_unit of state.py).
THEOREM HistoryIsTrue == SliceSpec => []HistoryOfFailures
  <1>1. StoreInv => HistoryOfFailures
    BY DEF StoreInv
  <1>2. QED
    BY <1>1, SliceKeepsStoreInv, PTL

\* Nothing runs and nothing is recorded before the input is durable, and a
\* checkpoint id is bound to one manifest for good (record_checkpoint).
THEOREM InputFirstAndIdsBound == SliceSpec => [](DurableFirst /\ OneRecordPerId)
  <1>1. StoreInv => DurableFirst /\ OneRecordPerId
    BY DEF StoreInv
  <1>2. QED
    BY <1>1, SliceKeepsStoreInv, PTL
-----------------------------------------------------------------------------
\* The keys a publication puts, and what it has put when some are left to do.
ObjectKeys(i) == {InputKey(i), StateKey(i)} \union {ArtifactKey(i, n) : n \in Names}
In(r, key, content) == key \in DOMAIN r /\ r[key].content = content
PutSoFar(r, c) ==
    /\ InputKey(c.id) \notin c.todo => In(r, InputKey(c.id), c.manifest.input)
    /\ StateKey(c.id) \notin c.todo => In(r, StateKey(c.id), c.manifest.state)
    /\ \A n \in Listed(c.manifest) :
          ArtifactKey(c.id, n) \notin c.todo =>
              In(r, ArtifactKey(c.id, n), c.manifest.artifacts[n])

\* A publication in order, over the objects r.
InOrder(r, c) ==
    /\ "step" \in DOMAIN c
    /\ c.step \in {"idle", "completed", "collect", "snapshot", "put", "manifest", "record",
                   "done", "error"}
    /\ c.step \in {"completed", "collect"} => DOMAIN c = {"step", "id", "ws", "at"}
    /\ c.step = "snapshot" => DOMAIN c = {"step", "id", "ws", "at", "rows"}
    /\ c.step \in {"put", "manifest"} => /\ DOMAIN c = {"step", "id", "ws", "todo", "manifest"}
                                         /\ c.todo \subseteq ObjectKeys(c.id)
                                         /\ PutSoFar(r, c)
    /\ c.step = "manifest" => c.todo = {}

\* A manifest is only ever put when everything it names is: that needs, of every
\* publication on its way, what it has put so far.
AllWhole(r) == \A key \in DOMAIN r : DOMAIN r[key] = {"content", "whole"}
PubInv ==
    /\ DOMAIN pub = Publishers
    /\ AllWhole(remote)
    /\ \A p \in Publishers : InOrder(remote, pub[p])
CompleteInv == PubInv /\ ManifestIsComplete

\* No object is removed, and none gets another content.
Stays == \A key \in DOMAIN remote :
            key \in DOMAIN remote' /\ remote'[key].content = remote[key].content

LEMMA PutStays ==
  ASSUME PubInv, NEW key, NEW content, CanPutObject(key, content), PutObject(key, content)
  PROVE  /\ Stays /\ AllWhole(remote')
         /\ In(remote', key, content)
         /\ DOMAIN remote' = DOMAIN remote \union {key}
  BY DEF PubInv, AllWhole, CanPutObject, PutObject, Stored, Whole, Stays, In

LEMMA StaysInOrder ==
  ASSUME Stays PROVE /\ \A key, content : In(remote, key, content) => In(remote', key, content)
                     /\ \A c : InOrder(remote, c) => InOrder(remote', c)
  <1>1. \A key, content : In(remote, key, content) => In(remote', key, content)
    BY DEF Stays, In
  <1>2. \A c : PutSoFar(remote, c) => PutSoFar(remote', c)
    BY <1>1 DEF PutSoFar
  <1>3. QED
    BY <1>1, <1>2 DEF InOrder

\* A step that puts no manifest keeps the promise.
LEMMA ManifestsStay ==
  ASSUME ManifestIsComplete, Stays,
         \A key \in DOMAIN remote' \ DOMAIN remote : key[2] # "manifest"
  PROVE  ManifestIsComplete'
  BY StaysInOrder DEF ManifestIsComplete, WasPut, Stays, In

\* One publisher moves to a state that is in order; the others stay as they are.
LEMMA OneMoves ==
  ASSUME PubInv, Stays, AllWhole(remote'), NEW p \in Publishers, NEW c,
         pub' = [pub EXCEPT ![p] = c], InOrder(remote', c)
  PROVE  PubInv'
  <1>1. pub'[p] = c /\ DOMAIN pub' = Publishers
    BY DEF PubInv
  <1>2. \A q \in Publishers : q # p => pub'[q] = pub[q]
    BY DEF PubInv
  <1>3. \A q \in Publishers : q # p => InOrder(remote', pub'[q])
    BY <1>2, StaysInOrder DEF PubInv
  <1>4. QED
    BY <1>1, <1>3 DEF PubInv

LEMMA QuietMove ==
  ASSUME CompleteInv, UNCHANGED remote, NEW p \in Publishers, NEW c,
         pub' = [pub EXCEPT ![p] = c], InOrder(remote, c)
  PROVE  CompleteInv'
  <1>1. Stays /\ AllWhole(remote')
    BY DEF Stays, CompleteInv, PubInv
  <1>2. ManifestIsComplete'
    BY <1>1, ManifestsStay DEF CompleteInv
  <1>3. PubInv'
    BY <1>1, OneMoves DEF CompleteInv
  <1>4. QED
    BY <1>2, <1>3 DEF CompleteInv

\* A publication that ends, or goes on to read.
LEMMA SimpleMove ==
  ASSUME CompleteInv, UNCHANGED remote, NEW p \in Publishers,
         NEW step \in {"collect", "record", "done", "error"}, Go(p, step),
         step = "collect" => pub[p].step = "completed"
  PROVE  CompleteInv'
  <1>1. pub' = [pub EXCEPT ![p] = [pub[p] EXCEPT !.step = step]]
    BY DEF Go
  <1>2. InOrder(remote, pub[p])
    BY DEF CompleteInv, PubInv
  <1>3. InOrder(remote, [pub[p] EXCEPT !.step = step])
    BY <1>2 DEF InOrder
  <1>4. QED
    BY <1>1, <1>3, QuietMove

LEMMA CollectMove ==
  ASSUME CompleteInv, NEW p \in Publishers, Collect(p) PROVE CompleteInv'
  <1>1. UNCHANGED remote
    BY DEF Collect, objects
  <1>2. CASE Go(p, "error")
    BY <1>1, <1>2, SimpleMove
  <1>3. ASSUME NEW rows, pub' = [pub EXCEPT ![p] = [step |-> "snapshot", id |-> pub[p].id,
                            ws |-> pub[p].ws, at |-> pub[p].at, rows |-> rows]]
        PROVE  CompleteInv'
    <2>1. InOrder(remote, [step |-> "snapshot", id |-> pub[p].id, ws |-> pub[p].ws,
                           at |-> pub[p].at, rows |-> rows])
      BY DEF InOrder
    <2>2. QED
      BY <1>1, <1>3, <2>1, QuietMove
  <1>4. QED
    BY <1>2, <1>3 DEF Collect

\* Everything the new manifest names is still to be put.
LEMMA SnapshotMove ==
  ASSUME CompleteInv, NEW p \in Publishers, Snapshot(p) PROVE CompleteInv'
  <1> DEFINE manifest == [id |-> pub[p].id, input |-> input, state |-> StateSnapshot,
                          artifacts |-> pub[p].rows, at |-> pub[p].at]
             todo == {InputKey(pub[p].id), StateKey(pub[p].id)}
                       \union {ArtifactKey(pub[p].id, n) :
                                 n \in {x \in Names : pub[p].rows[x] # None}}
             c == [step |-> "put", id |-> pub[p].id, ws |-> pub[p].ws, todo |-> todo,
                   manifest |-> manifest]
  <1>1. pub' = [pub EXCEPT ![p] = c] /\ UNCHANGED remote
    BY DEF Snapshot, objects
  <1>2. todo \subseteq ObjectKeys(pub[p].id)
    BY DEF ObjectKeys
  <1>3. Listed(manifest) = {x \in Names : pub[p].rows[x] # None}
    BY DEF Listed
  <1>4. PutSoFar(remote, c)
    BY <1>3 DEF PutSoFar
  <1>5. InOrder(remote, c)
    BY <1>2, <1>4 DEF InOrder
  <1>6. QED
    BY <1>1, <1>5, QuietMove

LEMMA PutMove ==
  ASSUME CompleteInv, NEW p \in Publishers, Put(p) PROVE CompleteInv'
  <1>1. PICK key \in pub[p].todo :
           IF SourceIsThere(p, key) /\ CanPutObject(key, ContentOf(p, key))
           THEN /\ PutObject(key, ContentOf(p, key))
                /\ pub' = [pub EXCEPT ![p].todo = @ \ {key},
                                      ![p].step = IF pub[p].todo = {key} THEN "manifest"
                                                  ELSE "put"]
           ELSE Go(p, "error") /\ UNCHANGED remote
    BY DEF Put
  <1>2. pub[p].step = "put"
    BY DEF Put, Step
  <1>3. CASE Go(p, "error") /\ UNCHANGED remote
    BY <1>3, SimpleMove
  <1>4. ASSUME CanPutObject(key, ContentOf(p, key)), PutObject(key, ContentOf(p, key)),
               pub' = [pub EXCEPT ![p].todo = @ \ {key},
                                  ![p].step = IF pub[p].todo = {key} THEN "manifest"
                                              ELSE "put"]
        PROVE  CompleteInv'
    <2>1. /\ DOMAIN pub[p] = {"step", "id", "ws", "todo", "manifest"}
          /\ pub[p].todo \subseteq ObjectKeys(pub[p].id)
          /\ PutSoFar(remote, pub[p])
      BY <1>2 DEF CompleteInv, PubInv, InOrder
    <2>2. /\ Stays /\ AllWhole(remote')
          /\ In(remote', key, ContentOf(p, key))
          /\ DOMAIN remote' = DOMAIN remote \union {key}
      BY <1>4, PutStays DEF CompleteInv
    <2> DEFINE c == [pub[p] EXCEPT !.todo = @ \ {key},
                                   !.step = IF pub[p].todo = {key} THEN "manifest" ELSE "put"]
    <2>3. pub' = [pub EXCEPT ![p] = c]
      BY <1>4
    <2>4. /\ c.id = pub[p].id /\ c.manifest = pub[p].manifest /\ c.todo = pub[p].todo \ {key}
          /\ c.step = IF pub[p].todo = {key} THEN "manifest" ELSE "put"
          /\ DOMAIN c = {"step", "id", "ws", "todo", "manifest"}
      BY <2>1
    <2> HIDE DEF c
    <2>5. PutSoFar(remote', pub[p])
      BY <2>1, <2>2, StaysInOrder DEF PutSoFar
    <2>6. PutSoFar(remote', c)
      <3>1. key = InputKey(c.id) => ContentOf(p, key) = c.manifest.input
        BY <2>4 DEF ContentOf, InputKey
      <3>2. key = StateKey(c.id) => ContentOf(p, key) = c.manifest.state
        BY <2>4 DEF ContentOf, StateKey
      <3>3. \A n \in Names : key = ArtifactKey(c.id, n) =>
                 ContentOf(p, key) = c.manifest.artifacts[n]
        BY <2>4 DEF ContentOf, ArtifactKey
      <3>4. QED
        BY <2>2, <2>4, <2>5, <3>1, <3>2, <3>3 DEF PutSoFar, Listed
    <2>7. InOrder(remote', c)
      BY <1>1, <2>1, <2>4, <2>6 DEF InOrder
    <2>8. PubInv'
      BY <2>2, <2>3, <2>7, OneMoves DEF CompleteInv
    <2>9. key[2] # "manifest"
      BY <1>1, <2>1 DEF ObjectKeys, InputKey, StateKey, ArtifactKey
    <2>10. ManifestIsComplete'
      BY <2>2, <2>9, ManifestsStay DEF CompleteInv
    <2>11. QED
      BY <2>8, <2>10 DEF CompleteInv
  <1>5. QED
    BY <1>1, <1>3, <1>4

\* The only step that puts a manifest: all it names has been put.
LEMMA ManifestMove ==
  ASSUME CompleteInv, NEW p \in Publishers, PutManifest(p) PROVE CompleteInv'
  <1> DEFINE key == ManifestKey(pub[p].id)
             m == pub[p].manifest
  <1>1. pub[p].step = "manifest"
    BY DEF PutManifest, Step
  <1>2. /\ DOMAIN pub[p] = {"step", "id", "ws", "todo", "manifest"}
        /\ PutSoFar(remote, pub[p]) /\ pub[p].todo = {}
    BY <1>1 DEF CompleteInv, PubInv, InOrder
  <1>3. CASE CanPutObject(key, m) /\ PutObject(key, m) /\ Go(p, "record")
    <2>1. /\ Stays /\ AllWhole(remote') /\ In(remote', key, m)
          /\ DOMAIN remote' = DOMAIN remote \union {key}
      BY <1>3, PutStays DEF CompleteInv
    <2>2. InOrder(remote', [pub[p] EXCEPT !.step = "record"])
      BY <1>2 DEF InOrder
    <2>3. pub' = [pub EXCEPT ![p] = [pub[p] EXCEPT !.step = "record"]]
      BY <1>3 DEF Go
    <2>4. PubInv'
      BY <2>1, <2>2, <2>3, OneMoves DEF CompleteInv
    <2>5. PutSoFar(remote', pub[p])
      BY <1>2, <2>1, StaysInOrder DEF PutSoFar
    <2>6. key[1] = pub[p].id
      BY DEF ManifestKey
    <2>7. ManifestIsComplete'
      <3> SUFFICES ASSUME NEW k \in DOMAIN remote', k[2] = "manifest"
                   PROVE  LET i == k[1]
                              x == remote'[k].content
                          IN /\ In(remote', StateKey(i), x.state)
                             /\ In(remote', InputKey(i), x.input)
                             /\ \A n \in Listed(x) :
                                   In(remote', ArtifactKey(i, n), x.artifacts[n])
        BY DEF ManifestIsComplete, WasPut, In
      <3>1. CASE k = key
        BY <3>1, <1>2, <2>1, <2>5, <2>6 DEF PutSoFar, In
      <3>2. CASE k # key
        <4>1. k \in DOMAIN remote /\ remote'[k].content = remote[k].content
          BY <3>2, <2>1 DEF Stays
        <4>2. QED
          BY <4>1, <2>1, StaysInOrder DEF CompleteInv, ManifestIsComplete, WasPut, In
      <3>3. QED
        BY <3>1, <3>2
    <2>8. QED
      BY <2>4, <2>7 DEF CompleteInv
  <1>4. CASE Go(p, "error") /\ UNCHANGED remote
    BY <1>4, SimpleMove
  <1>5. CASE UNCHANGED remote /\ pub' = [pub EXCEPT ![p].manifest = remote[key].content,
                                                   ![p].step = "record"]
    <2> DEFINE c == [pub[p] EXCEPT !.manifest = remote[key].content, !.step = "record"]
    <2>1. InOrder(remote, c)
      BY <1>2 DEF InOrder
    <2>2. pub' = [pub EXCEPT ![p] = c]
      BY <1>5
    <2>3. QED
      BY <1>5, <2>1, <2>2, QuietMove
  <1>6. QED
    BY <1>3, <1>4, <1>5 DEF PutManifest

LEMMA PublishMove ==
  ASSUME CompleteInv, NEW p \in Publishers, PublishStep(p) PROVE CompleteInv'
  <1>1. CASE Completed(p)
    <2>1. UNCHANGED remote /\ pub[p].step = "completed"
      BY <1>1 DEF Completed, objects, Step
    <2>2. PICK step \in {"collect", "done", "error"} : Go(p, step)
      BY <1>1 DEF Completed
    <2>3. QED
      BY <2>1, <2>2, SimpleMove
  <1>2. CASE Record(p)
    BY <1>2, SimpleMove DEF Record, objects
  <1>3. QED
    BY <1>1, <1>2, CollectMove, SnapshotMove, PutMove, ManifestMove DEF PublishStep

\* publish() begins, is left by a crash, or is called again.
LEMMA CallMove ==
  ASSUME CompleteInv, UNCHANGED remote, NEW p \in Publishers,
         \/ pub' = [pub EXCEPT ![p] = NotPublishing]
         \/ \E i, w, at : Publish(p, i, w, at)
  PROVE  CompleteInv'
  <1>1. CASE pub' = [pub EXCEPT ![p] = NotPublishing]
    <2>1. InOrder(remote, NotPublishing)
      BY DEF InOrder, NotPublishing
    <2>2. QED
      BY <1>1, <2>1, QuietMove
  <1>2. ASSUME NEW i, NEW w, NEW at, Publish(p, i, w, at) PROVE CompleteInv'
    <2> DEFINE c == [step |-> "completed", id |-> i, ws |-> w, at |-> at]
    <2>1. InOrder(remote, c)
      BY DEF InOrder
    <2>2. pub' = [pub EXCEPT ![p] = c]
      BY <1>2 DEF Publish
    <2>3. QED
      BY <2>1, <2>2, QuietMove
  <1>3. QED
    BY <1>1, <1>2

LEMMA NothingPublished ==
  ASSUME CompleteInv, UNCHANGED <<remote, pub>> PROVE CompleteInv'
  BY DEF CompleteInv, PubInv, ManifestIsComplete, WasPut

LEMMA DamageMove == ASSUME CompleteInv, DamageObject PROVE CompleteInv'
  <1>1. PICK key \in DOMAIN remote : remote' = [remote EXCEPT ![key].whole = FALSE]
    BY DEF DamageObject
  <1>2. Stays /\ AllWhole(remote') /\ DOMAIN remote' = DOMAIN remote
    BY <1>1 DEF CompleteInv, PubInv, AllWhole, Stays
  <1>3. ManifestIsComplete'
    BY <1>2, ManifestsStay DEF CompleteInv
  <1>4. UNCHANGED pub
    BY DEF DamageObject
  <1>5. PubInv'
    BY <1>2, <1>4, StaysInOrder DEF CompleteInv, PubInv
  <1>6. QED
    BY <1>3, <1>5 DEF CompleteInv

LEMMA CompleteStep == CompleteInv /\ [SliceNext]_slice => CompleteInv'
  <1> SUFFICES ASSUME CompleteInv, [SliceNext]_slice PROVE CompleteInv'
    OBVIOUS
  <1>1. CASE UNCHANGED slice
    BY <1>1, NothingPublished DEF slice, objects
  <1>2. CASE DamageFile
    BY <1>2, NothingPublished DEF DamageFile
  <1>3. CASE DamageObject
    BY <1>3, DamageMove
  <1>4. ASSUME NEW p \in Publishers, RunStep(p) \/ Crash(p) \/ StageFails(p) \/ StoreFailsInRun(p)
        PROVE  CompleteInv'
    <2>1. CASE Crash(p) \/ Begin(p)
      BY <2>1, CallMove DEF Crash, Begin, objects
    <2>2. CASE StageFails(p)
      BY <2>2, NothingPublished DEF StageFails, objects
    <2>3. CASE StoreFailsInRun(p)
      BY <2>3, SimpleMove DEF StoreFailsInRun, StoreFails, objects
    <2>4. CASE \/ Recover(p) \/ CreateJob(p) \/ RecordInput(p) \/ EnsureUnit(p) \/ Scan(p)
               \/ Invalidate(p) \/ CheckFresh(p) \/ StartStage(p) \/ Prepare(p) \/ Proof(p)
               \/ Commit(p) \/ FailStage(p) \/ Return(p)
      BY <2>4, NothingPublished, ScanForm
         DEF Recover, CreateJob, RecordInput, EnsureUnit, Invalidate, CheckFresh,
             StartStage, Prepare, Proof, Commit, FailStage, Return, KeepAll, objects
    <2>5. CASE CopyUpstream(p) \/ WriteSide(p) \/ WriteDocument(p)
      BY <2>5, NothingPublished DEF CopyUpstream, WriteSide, WriteDocument, Write, objects
    <2>6. CASE PrepareBackup(p) \/ FinishProof(p) \/ FinishFinal(p)
      <3>1. UNCHANGED remote
        BY <2>6 DEF PrepareBackup, FinishProof, FinishFinal, objects
      <3>2. (\E i, w, at : Publish(p, i, w, at)) \/ UNCHANGED pub
        <4>1. CASE PrepareBackup(p)
          BY <4>1 DEF PrepareBackup
        <4>2. CASE FinishProof(p)
          BY <4>2 DEF FinishProof
        <4>3. CASE FinishFinal(p)
          BY <4>3 DEF FinishFinal
        <4>4. QED
          BY <2>6, <4>1, <4>2, <4>3
      <3>3. QED
        BY <3>1, <3>2, CallMove, NothingPublished
    <2>7. CASE Publishing(p)
      BY <2>7, PublishMove DEF Publishing
    <2>8. QED
      BY <1>4, <2>1, <2>2, <2>3, <2>4, <2>5, <2>6, <2>7 DEF RunStep
  <1>5. QED
    BY <1>1, <1>2, <1>3, <1>4 DEF SliceNext

\* Whatever crashes, fails, is repeated by another process or is damaged: a manifest
\* in the object store names only what has been put (publish of checkpoints.py puts
\* the manifest last and put never replaces an object).
THEOREM ManifestsAreComplete == SliceSpec => []ManifestIsComplete
  <1>1. SliceInit => CompleteInv
    BY DEF SliceInit, CompleteInv, PubInv, AllWhole, InOrder, NotPublishing, ManifestIsComplete
  <1>2. CompleteInv /\ [SliceNext]_slice => CompleteInv'
    BY CompleteStep
  <1>3. CompleteInv => ManifestIsComplete
    BY DEF CompleteInv
  <1>4. QED
    BY <1>1, <1>2, <1>3, PTL DEF SliceSpec
-----------------------------------------------------------------------------
\* One process at a time works on the job.  No lock of the code sees to it: of two
\* runs each may commit over what the other has read, and none of the properties
\* from here on holds (TLC shows it); an operator starts one.
OneProcess == \A p, q \in Publishers : p = q

\* The unit of a stage SUCCEEDED only while those before it have, and its rows hold one
\* content.
InSequence ==
    \A s \in Stages : unit[s].status = "SUCCEEDED" =>
        \A u \in Stages : u < s => unit[u].status = "SUCCEEDED"
RowsAreAlike ==
    \A s \in Stages : unit[s].status = "SUCCEEDED" =>
        \A n \in NamesOf(s) : Valid(n) /\ artifacts[n].digest = artifacts[Document(s)].digest
RowsHaveFields ==
    artifacts = [n \in Names |-> [row |-> artifacts[n].row, digest |-> artifacts[n].digest]]
TablesFit == RowsHaveFields /\ InSequence /\ RowsAreAlike /\ OneVoice

\* What a run carries fits the units u and the artifacts a.
InLoop == {"stage", "prepare", "proof", "side", "document", "commit", "finish", "proven", "final"}
AfterScan == InLoop \union {"invalidate", "fresh", "copy"}
RunFits(r, u, a) ==
    /\ r.pc \notin Over => DOMAIN r.docs = Stages
    /\ r.pc \in {"scan", "invalidate", "fresh", "copy"} => r.stage = 1
    /\ r.pc \in AfterScan =>
          \A s \in Stages : r.docs[s] # None => r.docs[s] = a[Document(s)].digest
    /\ r.pc \in InLoop =>
          \A s \in Stages : s < r.stage =>
              u[s].status = "SUCCEEDED" /\ r.docs[s] = a[Document(s)].digest
    /\ r.pc \in {"side", "document", "commit"} /\ r.stage > TTS =>
          r.made.voice = r.docs[r.stage - 1].voice
    /\ r.pc = "invalidate" => r.damaged \in Stages
    /\ r.pc = "side" => r.stage \in Sided
    /\ r.pc = "proof" => r.stage = BACKUP
    /\ r.pc \in {"finish", "proven", "final"} => r.stage > StageCount

VoiceInv ==
    /\ OneProcess /\ RunInv /\ StoreInv
    /\ TablesFit
    /\ \A p \in Publishers : RunFits(run[p], unit, artifacts)

\* What does not touch the artifacts and leaves alone what SUCCEEDED.
QuietStore ==
    /\ artifacts' = artifacts
    /\ \A s \in Stages : unit'[s].status = "SUCCEEDED" <=> unit[s].status = "SUCCEEDED"

LEMMA DocumentIsAName ==
  ASSUME NEW s \in Stages PROVE Document(s) \in NamesOf(s) /\ Owner(Document(s)) = s
  BY DEF Document, NamesOf, Names, Owner

\* A row is a record of its two columns.
Row(a, n) == [row |-> a[n].row, digest |-> a[n].digest]
LEMMA RowFields ==
  ASSUME RowsHaveFields, NEW n \in Names
  PROVE  artifacts[n] = Row(artifacts, n) /\ DOMAIN artifacts[n] = {"row", "digest"}
  <1>1. artifacts[n] = Row(artifacts, n)
    BY DEF RowsHaveFields, Row
  <1>2. QED
    BY <1>1 DEF Row

LEMMA QuietSteps ==
  ASSUME StoreInv,
         \/ UNCHANGED store
         \/ \E src, cfg : create_job(src, cfg)
         \/ \E src : record_verified_input(src)
         \/ \E s \in Stages : put_work_unit(s) \/ start_work_unit(s) \/ fail_work_unit(s)
         \/ recover_stale_work
         \/ \E i, evidence : record_checkpoint(i, evidence)
  PROVE  QuietStore
  <1>1. artifacts' = artifacts
    BY DEF store, create_job, record_verified_input, put_work_unit, start_work_unit,
           fail_work_unit, recover_stale_work, record_checkpoint
  <1>2. ASSUME NEW s \in Stages
        PROVE  unit'[s].status = "SUCCEEDED" <=> unit[s].status = "SUCCEEDED"
    BY DEF StoreInv, StoreTypeOK, store, create_job, record_verified_input, put_work_unit, CanPut,
           start_work_unit, CanStart, fail_work_unit, recover_stale_work, record_checkpoint
  <1>3. QED
    BY <1>1, <1>2 DEF QuietStore

LEMMA QuietTables == ASSUME TablesFit, QuietStore PROVE TablesFit'
  <1>1. InSequence'
    BY DEF TablesFit, QuietStore, InSequence
  <1>2. RowsAreAlike'
    BY DEF TablesFit, QuietStore, RowsAreAlike, Valid
  <1>3. OneVoice'
    BY DEF TablesFit, QuietStore, OneVoice, valid_artifacts, Valid
  <1>4. RowsHaveFields'
    BY DEF TablesFit, QuietStore, RowsHaveFields
  <1>5. QED
    BY <1>1, <1>2, <1>3, <1>4 DEF TablesFit

LEMMA QuietFits ==
  ASSUME QuietStore, NEW r, RunFits(r, unit, artifacts) PROVE RunFits(r, unit', artifacts')
  BY DEF QuietStore, RunFits

\* The stage a run commits comes after what it found or made before.
LEMMA CommitTables ==
  ASSUME StoreInv, TablesFit, NEW s \in Stages, NEW made,
         commit_artifacts(s, [n \in NamesOf(s) |-> made]),
         \A v \in Stages : v < s => unit[v].status = "SUCCEEDED",
         s > TTS => made.voice = artifacts[Document(s - 1)].digest.voice
  PROVE  /\ TablesFit'
         /\ \A u \in Stages : u # s => unit'[u] = unit[u]
         /\ unit'[s].status = "SUCCEEDED"
         /\ \A n \in Names : Owner(n) # s => artifacts'[n] = artifacts[n]
         /\ \A n \in NamesOf(s) : artifacts'[n] = [row |-> "valid", digest |-> made]
  <1> USE DEF commit_artifacts, CanCommit
  <1>1. \A n \in Names : Owner(n) # s => artifacts'[n] = artifacts[n]
    BY DEF NamesOf
  <1>2. \A n \in NamesOf(s) : artifacts'[n] = [row |-> "valid", digest |-> made]
    BY DEF NamesOf
  <1>3. \A u \in Stages : u # s => unit'[u] = unit[u]
    BY DEF StoreInv, StoreTypeOK
  <1>4. unit'[s].status = "SUCCEEDED" /\ unit[s].status # "SUCCEEDED"
    BY DEF StoreInv, StoreTypeOK
  <1>5. \A u \in Stages : u > s => unit[u].status # "SUCCEEDED"
    BY <1>4 DEF TablesFit, InSequence
  <1>6. InSequence'
    BY <1>3, <1>4, <1>5 DEF TablesFit, InSequence, Stages
  <1>7. RowsAreAlike'
    <2> SUFFICES ASSUME NEW u \in Stages, unit'[u].status = "SUCCEEDED", NEW n \in NamesOf(u)
                 PROVE  /\ artifacts'[n].row = "valid"
                        /\ artifacts'[n].digest = artifacts'[Document(u)].digest
      BY DEF RowsAreAlike, Valid
    <2>1. CASE u = s
      BY <2>1, <1>2, DocumentIsAName
    <2>2. CASE u # s
      <3>1. n \in Names /\ Owner(n) = u /\ Document(u) \in Names /\ Owner(Document(u)) = u
        BY DocumentIsAName DEF NamesOf
      <3>2. QED
        BY <2>2, <3>1, <1>1, <1>3 DEF TablesFit, RowsAreAlike, Valid
    <2>3. QED
      BY <2>1, <2>2
  <1>8. ASSUME NEW n \in Names, Valid(n)', Owner(n) >= TTS, s > TTS
        PROVE  artifacts'[n].digest.voice = made.voice
    <2>1. CASE Owner(n) = s
      BY <2>1, <1>2 DEF NamesOf
    <2>2. CASE Owner(n) # s
      <3>1. s - 1 \in Stages /\ s - 1 < s /\ s - 1 >= TTS
        BY <1>8, StagesAssumption, SliceAssumption DEF Stages, INGEST, PUBLISH, BACKUP
      <3>2. Document(s - 1) \in Names /\ Owner(Document(s - 1)) = s - 1 /\ Valid(Document(s - 1))
        BY <3>1, DocumentIsAName DEF TablesFit, RowsAreAlike, NamesOf
      <3>3. Valid(n) /\ artifacts'[n] = artifacts[n]
        BY <2>2, <1>1, <1>8 DEF Valid
      <3>4. artifacts[n].digest.voice = artifacts[Document(s - 1)].digest.voice
        BY <3>1, <3>2, <3>3, <1>8 DEF TablesFit, OneVoice, valid_artifacts
      <3>5. QED
        BY <3>3, <3>4, <1>8
    <2>3. QED
      BY <2>1, <2>2
  <1>9. OneVoice'
    <2> SUFFICES ASSUME NEW m \in Names, NEW n \in Names, Valid(m)', Valid(n)',
                        Owner(m) >= TTS, Owner(n) >= TTS
                 PROVE  artifacts'[m].digest.voice = artifacts'[n].digest.voice
      BY DEF OneVoice, valid_artifacts
    <2>1. CASE s > TTS
      BY <2>1, <1>8
    <2>2. CASE ~(s > TTS)
      <3>1. \A x \in Names : Valid(x)' /\ Owner(x) # s /\ Owner(x) >= TTS => FALSE
        <4> SUFFICES ASSUME NEW x \in Names, Valid(x)', Owner(x) # s, Owner(x) >= TTS PROVE FALSE
          OBVIOUS
        <4>1. Owner(x) \in Stages /\ x \in NamesOf(Owner(x))
          BY StagesAssumption DEF NamesOf, Names, Owner
        <4>2. Valid(x)
          BY <1>1 DEF Valid
        <4>3. unit[Owner(x)].status = "SUCCEEDED"
          BY <4>1, <4>2 DEF StoreInv, OwnedBySucceeded
        <4>4. Owner(x) > s
          BY <4>1, <2>2, SliceAssumption, StagesAssumption DEF Stages, INGEST
        <4>5. QED
          BY <4>1, <4>3, <4>4, <1>5
      <3>2. CASE Owner(m) = s /\ Owner(n) = s
        BY <3>2, <1>2 DEF NamesOf
      <3>3. QED
        BY <3>1, <3>2
    <2>3. QED
      BY <2>1, <2>2
  <1>10. RowsHaveFields'
    <2>1. artifacts' = [n \in Names |-> artifacts'[n]]
      OBVIOUS
    <2>2. \A n \in Names : artifacts'[n] = Row(artifacts', n)
      BY <1>1, <1>2, RowFields DEF TablesFit, NamesOf, Row
    <2>3. QED
      BY <2>1, <2>2 DEF RowsHaveFields, Row
  <1>11. QED
    BY <1>1, <1>2, <1>3, <1>4, <1>6, <1>7, <1>9, <1>10 DEF TablesFit

LEMMA InvalidateTables ==
  ASSUME StoreInv, TablesFit, NEW d \in Stages, apply_invalidation({d})
  PROVE  /\ TablesFit'
         /\ \A n \in Names : artifacts'[n].digest = artifacts[n].digest
         /\ \A u \in Stages : u < d => unit'[u] = unit[u]
  <1> DEFINE A == Affected({d})
  <1>1. \A u \in Stages : u \in A <=> d <= u
    BY DEF Affected
  <1>2. \A n \in Names : Owner(n) \in Stages
    BY StagesAssumption DEF Names, Owner
  <1> HIDE DEF A
  <1>3. \A u \in Stages : unit'[u] = IF u \in A /\ unit[u].status # "ABSENT"
                                     THEN [unit[u] EXCEPT !.status = "INVALID"] ELSE unit[u]
    BY DEF apply_invalidation, A
  <1>4. \A n \in Names : artifacts'[n] = IF Owner(n) \in A /\ Valid(n)
                                         THEN [artifacts[n] EXCEPT !.row = "invalid"]
                                         ELSE artifacts[n]
    BY DEF apply_invalidation, A
  <1>5. \A u \in Stages :
           unit'[u].status = "SUCCEEDED" <=> unit[u].status = "SUCCEEDED" /\ u \notin A
    BY <1>3 DEF StoreInv, StoreTypeOK
  <1>6. \A n \in Names : /\ artifacts'[n].digest = artifacts[n].digest
                         /\ artifacts'[n] = Row(artifacts', n)
    BY <1>4, RowFields DEF TablesFit, Row
  <1>7. \A n \in Names : (artifacts'[n].row = "valid") <=> Valid(n) /\ Owner(n) \notin A
    BY <1>4, RowFields DEF TablesFit, Valid
  <1>8. InSequence'
    <2> SUFFICES ASSUME NEW s \in Stages, NEW u \in Stages, unit'[s].status = "SUCCEEDED", u < s
                 PROVE  unit'[u].status = "SUCCEEDED"
      BY DEF InSequence
    <2>1. u \notin A
      BY <1>1, <1>5 DEF Stages
    <2>2. QED
      BY <1>5, <2>1 DEF TablesFit, InSequence
  <1>9. RowsAreAlike'
    <2> SUFFICES ASSUME NEW s \in Stages, unit'[s].status = "SUCCEEDED", NEW n \in NamesOf(s)
                 PROVE  /\ artifacts'[n].row = "valid"
                        /\ artifacts'[n].digest = artifacts'[Document(s)].digest
      BY DEF RowsAreAlike, Valid
    <2>1. n \in Names /\ Owner(n) = s /\ Document(s) \in Names
      BY DocumentIsAName DEF NamesOf
    <2>2. QED
      BY <2>1, <1>5, <1>6, <1>7 DEF TablesFit, RowsAreAlike
  <1>10. OneVoice'
    <2> SUFFICES ASSUME NEW m \in Names, NEW n \in Names, Valid(m)', Valid(n)',
                        Owner(m) >= TTS, Owner(n) >= TTS
                 PROVE  artifacts'[m].digest.voice = artifacts'[n].digest.voice
      BY DEF OneVoice, valid_artifacts
    <2>1. Valid(m) /\ Valid(n)
      BY <1>7 DEF Valid
    <2>2. QED
      BY <2>1, <1>6 DEF TablesFit, OneVoice, valid_artifacts
  <1>11. RowsHaveFields'
    <2>1. artifacts' = [n \in Names |-> artifacts'[n]]
      BY DEF apply_invalidation
    <2>2. QED
      BY <1>6, <2>1 DEF RowsHaveFields, Row
  <1>12. ASSUME NEW u \in Stages, u < d PROVE unit'[u] = unit[u]
    <2>1. u \notin A
      BY <1>1, <1>12 DEF Stages
    <2>2. QED
      BY <1>3, <2>1
  <1>13. QED
    BY <1>6, <1>8, <1>9, <1>10, <1>11, <1>12 DEF TablesFit

-----------------------------------------------------------------------------
\* A set of numbers that is not empty has a least one.
LEMMA LeastExists ==
  ASSUME NEW T \in SUBSET Nat, T # {} PROVE \E n \in T : \A m \in T : n <= m
  <1> DEFINE R == OpToRel(<, Nat)
  <1>1. IsWellFoundedOn(R, Nat)
    BY NatLessThanWellFounded
  <1>2. \A m, n \in Nat : <<m, n>> \in R <=> m < n
    BY DEF OpToRel
  <1> HIDE DEF R
  <1>3. PICK x \in T : \A y \in T : ~(<<y, x>> \in R)
    BY <1>1, WFMin
  <1>4. ASSUME NEW y \in T PROVE x <= y
    <2>1. y \in Nat /\ x \in Nat
      OBVIOUS
    <2>2. <<y, x>> \in R <=> y < x
      BY <1>2, <2>1, Zenon
    <2>3. ~(<<y, x>> \in R)
      BY <1>3
    <2>4. QED
      BY <2>1, <2>2, <2>3
  <1>5. QED
    BY <1>4

LEMMA FirstIsThere ==
  ASSUME NEW S \in SUBSET Stages, S # {}
  PROVE  FirstOf(S) \in S /\ \A u \in S : FirstOf(S) <= u
  <1>1. S \in SUBSET Nat
    BY StagesAssumption DEF Stages
  <1>2. \E s \in S : \A u \in S : s <= u
    BY <1>1, LeastExists
  <1>3. QED
    BY <1>2 DEF FirstOf

LEMMA DamageIsAStage ==
  ASSUME NEW w, Damage(w) # None PROVE Damage(w) \in Stages
  <1> DEFINE broken == Succeeded \ Readable(w)
             invalid == {s \in Stages : unit[s].status = "INVALID"}
  <1>1. broken \in SUBSET Stages /\ invalid \in SUBSET Stages
    BY DEF Succeeded
  <1>2. Damage(w) = IF broken # {} THEN FirstOf(broken)
                    ELSE IF invalid # {} THEN FirstOf(invalid) ELSE None
    BY DEF Damage
  <1> HIDE DEF broken, invalid
  <1>3. QED
    BY <1>1, <1>2, FirstIsThere

\* What an assignment of the run's fields leaves.
LEMMA JumpFields ==
  ASSUME RunInv, NEW p \in Publishers, run[p].pc \notin Over, NEW pc, Jump(p, pc)
  PROVE  /\ run'[p].pc = pc
         /\ run'[p].stage = run[p].stage /\ run'[p].docs = run[p].docs
         /\ run'[p].made = run[p].made /\ run'[p].damaged = run[p].damaged
         /\ run'[p].ws = run[p].ws /\ run'[p].rows = run[p].rows /\ run'[p].call = run[p].call
  BY DEF RunInv, Jump, Fields

LEMMA RaiseFields ==
  ASSUME RunInv, NEW p \in Publishers, NEW how, Raise(p, how)
  PROVE  run'[p].pc = how /\ run'[p].ws = run[p].ws
  BY DEF RunInv, Raise

-----------------------------------------------------------------------------
\* What a step of the only process has to show.
FitsAfter(p) == TablesFit' /\ RunFits(run'[p], unit', artifacts')

LEMMA FitsOutside ==
  ASSUME NEW r, NEW u, NEW a,
         r.pc \in Over \union {"recover", "create", "input", "units", "failing"},
         r.pc \notin Over => DOMAIN r.docs = Stages
  PROVE  RunFits(r, u, a)
  BY DEF RunFits, AfterScan, InLoop, Over

LEMMA LeaveFits ==
  ASSUME VoiceInv, NEW p \in Publishers, QuietStore, run'[p].pc \in Over PROVE FitsAfter(p)
  BY FitsOutside, QuietTables DEF VoiceInv, FitsAfter

LEMMA FailingFits ==
  ASSUME VoiceInv, NEW p \in Publishers, QuietStore, run[p].pc \notin Over, Jump(p, "failing")
  PROVE  FitsAfter(p)
  <1>1. run'[p].pc = "failing" /\ run'[p].docs = run[p].docs
    BY JumpFields DEF VoiceInv
  <1>2. DOMAIN run[p].docs = Stages
    BY DEF VoiceInv, RunFits
  <1>3. QED
    BY <1>1, <1>2, FitsOutside, QuietTables DEF VoiceInv, FitsAfter

LEMMA SetUpFits ==
  ASSUME VoiceInv, NEW p \in Publishers,
         Begin(p) \/ Recover(p) \/ CreateJob(p) \/ RecordInput(p) \/ EnsureUnit(p)
  PROVE  FitsAfter(p)
  <1>1. CASE Begin(p)
    <2>1. run'[p].pc = "recover" /\ run'[p].docs = NoDocuments
      BY <1>1 DEF Begin, VoiceInv, RunInv
    <2>2. QuietStore
      BY <1>1, QuietSteps DEF Begin, VoiceInv
    <2>3. QED
      BY <2>1, <2>2, FitsOutside, QuietTables DEF VoiceInv, FitsAfter, NoDocuments
  <1>2. CASE Recover(p) \/ CreateJob(p) \/ RecordInput(p)
    <2>1. QuietStore
      BY <1>2, QuietSteps DEF Recover, CreateJob, RecordInput, KeepStore, VoiceInv
    <2>2. run[p].pc \notin Over /\ DOMAIN run[p].docs = Stages
      BY <1>2 DEF Recover, CreateJob, RecordInput, At, Over, VoiceInv, RunFits
    <2>3. CASE Raise(p, "raised")
      BY <2>1, <2>3, RaiseFields, LeaveFits DEF Over, VoiceInv
    <2>4. ASSUME NEW pc \in {"create", "input", "units"}, Jump(p, pc) PROVE FitsAfter(p)
      <3>1. run'[p].pc = pc /\ run'[p].docs = run[p].docs
        BY <2>2, <2>4, JumpFields DEF VoiceInv
      <3>2. QED
        BY <2>1, <2>2, <3>1, FitsOutside, QuietTables DEF VoiceInv, FitsAfter
    <2>5. QED
      BY <1>2, <2>3, <2>4 DEF Recover, CreateJob, RecordInput
  <1>3. CASE EnsureUnit(p)
    <2>1. run[p].pc = "units" /\ run[p].stage \in Stages
      BY <1>3 DEF EnsureUnit, At, VoiceInv, RunInv, InOneStage
    <2>2. QuietStore
      BY <1>3, <2>1, QuietSteps DEF EnsureUnit, KeepStore, VoiceInv
    <2> DEFINE stage == IF run[p].stage = StageCount THEN 1 ELSE run[p].stage + 1
               pc == IF run[p].stage = StageCount THEN "scan" ELSE "units"
    <2>3. run' = [run EXCEPT ![p].stage = stage, ![p].pc = pc]
      BY <1>3 DEF EnsureUnit
    <2>4. pc = "units" \/ (pc = "scan" /\ stage = 1)
      OBVIOUS
    <2> HIDE DEF stage, pc
    <2>5. run'[p].pc = pc /\ run'[p].stage = stage /\ run'[p].docs = run[p].docs
      BY <2>1, <2>3 DEF VoiceInv, RunInv, Fields, Over
    <2>6. DOMAIN run[p].docs = Stages
      BY <2>1 DEF VoiceInv, RunFits, Over
    <2>7. RunFits(run'[p], unit', artifacts')
      BY <2>4, <2>5, <2>6 DEF RunFits, AfterScan, InLoop, Over
    <2>8. QED
      BY <2>2, <2>7, QuietTables DEF VoiceInv, FitsAfter
  <1>4. QED
    BY <1>1, <1>2, <1>3

\* Whatever the scan takes for damaged is a stage.
LEMMA ScanSeesAStage ==
  ASSUME NEW w, NEW was, NEW damaged, NEW calm, ScanSees(w, was, damaged, calm)
  PROVE  damaged = None \/ damaged \in Stages
  BY DamageIsAStage DEF ScanSees, Readable

LEMMA ScanFits ==
  ASSUME VoiceInv, NEW p \in Publishers, Scan(p) PROVE FitsAfter(p)
  <1>1. run[p].pc = "scan" /\ UNCHANGED store
    BY ScanForm
  <1>2. QuietStore
    BY <1>1, QuietSteps DEF VoiceInv
  <1>3. CASE Raise(p, "raised")
    BY <1>2, <1>3, RaiseFields, LeaveFits DEF Over, VoiceInv
  <1>4. ASSUME NEW damaged, NEW calm, Resume(p, run[p].ws, damaged, calm),
               ScanSees(run[p].ws, run[p].calm, damaged, calm)
        PROVE  FitsAfter(p)
    <2> DEFINE pc == IF damaged = None THEN "stage" ELSE "invalidate"
               docs == ScanDocs(run[p].ws, damaged)
    <2>1. DOMAIN docs = Stages /\ \A s \in Stages : docs[s] # None =>
                                       docs[s] = artifacts[Document(s)].digest
      BY DEF ScanDocs
    <2>2. pc = "stage" \/ (pc = "invalidate" /\ damaged \in Stages)
      BY <1>4, ScanSeesAStage
    <2>3. /\ run'[p].pc = pc /\ run'[p].docs = docs /\ run'[p].damaged = damaged
          /\ run'[p].stage = run[p].stage
      BY <1>1, <1>4, ResumeFields DEF VoiceInv
    <2> HIDE DEF pc, docs
    <2>4. run[p].stage = 1
      BY <1>1 DEF VoiceInv, RunFits
    <2>5. RunFits(run'[p], unit, artifacts)
      BY <2>1, <2>2, <2>3, <2>4 DEF RunFits, AfterScan, InLoop, Over, Stages
    <2>6. QED
      BY <1>2, <2>5, QuietFits, QuietTables DEF VoiceInv, FitsAfter
  <1>5. QED
    BY <1>3, <1>4, ScanForm

LEMMA InvalidateFits ==
  ASSUME VoiceInv, NEW p \in Publishers, Invalidate(p) PROVE FitsAfter(p)
  <1>1. run[p].pc = "invalidate" /\ Jump(p, "fresh") /\ apply_invalidation({run[p].damaged})
    BY DEF Invalidate, At
  <1>2. RunFits(run[p], unit, artifacts) /\ run[p].damaged \in Stages /\ run[p].stage = 1
    BY <1>1 DEF VoiceInv, RunFits
  <1>3. TablesFit' /\ \A n \in Names : artifacts'[n].digest = artifacts[n].digest
    BY <1>1, <1>2, InvalidateTables DEF VoiceInv
  <1>4. /\ run'[p].pc = "fresh" /\ run'[p].stage = run[p].stage /\ run'[p].docs = run[p].docs
    BY <1>1, JumpFields DEF VoiceInv, Over
  <1>5. \A s \in Stages : Document(s) \in Names
    BY DocumentIsAName DEF NamesOf
  <1>6. RunFits(run'[p], unit', artifacts')
    BY <1>1, <1>2, <1>3, <1>4, <1>5 DEF RunFits, AfterScan, InLoop, Over
  <1>7. QED
    BY <1>3, <1>6 DEF FitsAfter

LEMMA FreshFits ==
  ASSUME VoiceInv, NEW p \in Publishers, CheckFresh(p) \/ CopyUpstream(p) PROVE FitsAfter(p)
  <1>1. run[p].pc \in {"fresh", "copy"} /\ UNCHANGED store
    BY DEF CheckFresh, CopyUpstream, At, KeepStore
  <1>2. QuietStore
    BY <1>1, QuietSteps DEF VoiceInv
  <1>3. RunFits(run[p], unit, artifacts) /\ run[p].stage = 1
    BY <1>1 DEF VoiceInv, RunFits
  <1>4. CASE Raise(p, "fresh_required")
    BY <1>2, <1>4, RaiseFields, LeaveFits DEF Over, VoiceInv
  <1>5. ASSUME run'[p].pc \in {"copy", "stage"}, run'[p].stage = run[p].stage,
               run'[p].docs = run[p].docs
        PROVE  FitsAfter(p)
    <2>1. RunFits(run'[p], unit, artifacts)
      BY <1>1, <1>3, <1>5 DEF RunFits, AfterScan, InLoop, Over, Stages
    <2>2. QED
      BY <1>2, <2>1, QuietFits, QuietTables DEF VoiceInv, FitsAfter
  <1>6. CASE Jump(p, "copy")
    BY <1>1, <1>5, <1>6, JumpFields DEF VoiceInv, Over
  <1>7. CASE run' = [run EXCEPT ![p].pc = "stage", ![p].ws = run[p].call.fresh]
    <2>1. run'[p].pc = "stage" /\ run'[p].stage = run[p].stage /\ run'[p].docs = run[p].docs
      BY <1>1, <1>7 DEF VoiceInv, RunInv, Fields, Over
    <2>2. QED
      BY <1>5, <2>1
  <1>8. CASE run' = run
    <2>1. CASE run[p].pc = "copy"
      BY <1>5, <1>8, <2>1
    <2>2. CASE run[p].pc = "fresh"
      <3>1. RunFits(run'[p], unit, artifacts)
        BY <1>3, <1>8
      <3>2. QED
        BY <1>2, <3>1, QuietFits, QuietTables DEF VoiceInv, FitsAfter
    <2>3. QED
      BY <1>1, <2>1, <2>2
  <1>9. QED
    BY <1>4, <1>6, <1>7, <1>8 DEF CheckFresh, CopyUpstream

LEMMA StartFits ==
  ASSUME VoiceInv, NEW p \in Publishers, StartStage(p) PROVE FitsAfter(p)
  <1> DEFINE s == run[p].stage
  <1>1. run[p].pc = "stage" /\ s \in Nat \ {0}
    BY DEF StartStage, At, VoiceInv, RunInv
  <1>2. QuietStore
    <2>1. s <= StageCount => s \in Stages
      BY <1>1, StagesAssumption DEF Stages
    <2>2. s > StageCount => UNCHANGED store
      BY DEF StartStage, KeepStore
    <2>3. UNCHANGED store \/ (s \in Stages /\ start_work_unit(s))
      BY <1>1, <2>1, <2>2, StagesAssumption DEF StartStage, KeepStore
    <2>4. QED
      BY <2>3, QuietSteps DEF VoiceInv
  <1>3. RunFits(run[p], unit, artifacts)
    BY DEF VoiceInv
  <1>4. CASE Raise(p, "raised")
    BY <1>2, <1>4, RaiseFields, LeaveFits DEF Over, VoiceInv
  <1>5. CASE s > StageCount /\ Jump(p, "finish")
    <2>1. run'[p].pc = "finish" /\ run'[p].stage = s /\ run'[p].docs = run[p].docs
      BY <1>1, <1>5, JumpFields DEF VoiceInv, Over
    <2>2. RunFits(run'[p], unit, artifacts)
      BY <1>1, <1>3, <1>5, <2>1 DEF RunFits, AfterScan, InLoop, Over
    <2>3. QED
      BY <1>2, <2>2, QuietFits, QuietTables DEF VoiceInv, FitsAfter
  <1>6. CASE Jump(p, "prepare")
    <2>1. run'[p].pc = "prepare" /\ run'[p].stage = s /\ run'[p].docs = run[p].docs
      BY <1>1, <1>6, JumpFields DEF VoiceInv, Over
    <2>2. RunFits(run'[p], unit, artifacts)
      BY <1>1, <1>3, <2>1 DEF RunFits, AfterScan, InLoop, Over
    <2>3. QED
      BY <1>2, <2>2, QuietFits, QuietTables DEF VoiceInv, FitsAfter
  <1>7. CASE /\ s <= StageCount /\ unit[s].status = "SUCCEEDED" /\ run[p].docs[s] # None
             /\ run' = [run EXCEPT ![p].stage = s + 1]
    <2>1. run'[p].pc = "stage" /\ run'[p].stage = s + 1 /\ run'[p].docs = run[p].docs
      BY <1>1, <1>7 DEF VoiceInv, RunInv, Fields, Over
    <2>2. s \in Stages
      BY <1>1, <1>7, StagesAssumption DEF Stages
    <2>3. \A v \in Stages : v < s + 1 => v < s \/ v = s
      BY <2>2 DEF Stages
    <2>4. RunFits(run'[p], unit, artifacts)
      BY <1>1, <1>3, <1>7, <2>1, <2>2, <2>3 DEF RunFits, AfterScan, InLoop, Over
    <2>5. QED
      BY <1>2, <2>4, QuietFits, QuietTables DEF VoiceInv, FitsAfter
  <1>8. QED
    BY <1>1, <1>4, <1>5, <1>6, <1>7, StagesAssumption DEF StartStage

\* A step from one place in a stage to the next.
LEMMA NextFits ==
  ASSUME VoiceInv, NEW p \in Publishers, QuietStore,
         run[p].pc \in {"prepare", "proof", "side", "document"},
         run'[p].pc \in {"proof", "side", "document", "commit"},
         run'[p].stage = run[p].stage, run'[p].docs = run[p].docs,
         run'[p].pc # "proof" /\ run[p].stage > TTS =>
             run'[p].made.voice = run[p].docs[run[p].stage - 1].voice,
         run'[p].pc = "side" => run[p].stage \in Sided,
         run'[p].pc = "proof" => run[p].stage = BACKUP
  PROVE  FitsAfter(p)
  <1>1. RunFits(run[p], unit, artifacts)
    BY DEF VoiceInv
  <1>2. RunFits(run'[p], unit, artifacts)
    BY <1>1 DEF RunFits, AfterScan, InLoop, Over
  <1>3. QED
    BY <1>2, QuietFits, QuietTables DEF VoiceInv, FitsAfter

LEMMA PrepareFits ==
  ASSUME VoiceInv, NEW p \in Publishers, Prepare(p) PROVE FitsAfter(p)
  <1> DEFINE s == run[p].stage
             upstream == IF s = 1 THEN Content(0, None, None) ELSE run[p].docs[s - 1]
  <1>1. run[p].pc = "prepare" /\ s < BACKUP /\ UNCHANGED store /\ run[p].stage \in Stages
    BY DEF Prepare, At, KeepStore, VoiceInv, RunInv, InOneStage
  <1>2. QuietStore
    BY <1>1, QuietSteps DEF VoiceInv
  <1>3. CASE Jump(p, "failing")
    BY <1>1, <1>2, <1>3, FailingFits DEF Over
  <1>4. ASSUME NEW voice \in IF s = TTS THEN Voices ELSE {upstream.voice},
               run' = [run EXCEPT ![p].made = Content(s, voice, None),
                                  ![p].pc = IF s \in Sided THEN "side" ELSE "document"]
        PROVE  FitsAfter(p)
    <2> DEFINE pc == IF s \in Sided THEN "side" ELSE "document"
               made == Content(s, voice, None)
    <2>1. pc \in {"side", "document"} /\ (pc = "side" => s \in Sided)
      OBVIOUS
    <2>2. s > TTS => made.voice = run[p].docs[s - 1].voice
      <3>1. s > TTS => s # TTS /\ s # 1 /\ ~(s < TTS)
        BY <1>1, SliceAssumption, StagesAssumption DEF INGEST, Stages
      <3>2. s > TTS => voice = run[p].docs[s - 1].voice
        BY <1>4, <3>1
      <3>3. QED
        BY <3>1, <3>2 DEF Content
    <2> HIDE DEF pc, made
    <2>3. run' = [run EXCEPT ![p].made = made, ![p].pc = pc]
      BY <1>4 DEF pc, made
    <2>4. /\ run'[p].pc = pc /\ run'[p].made = made /\ run'[p].stage = s
          /\ run'[p].docs = run[p].docs
      BY <1>1, <2>3 DEF VoiceInv, RunInv, Fields, Over
    <2>5. QED
      BY <1>1, <1>2, <2>1, <2>2, <2>4, NextFits
  <1>5. QED
    BY <1>3, <1>4 DEF Prepare

LEMMA BackupFits ==
  ASSUME VoiceInv, NEW p \in Publishers, PrepareBackup(p) \/ Proof(p) PROVE FitsAfter(p)
  <1>1. UNCHANGED store /\ run[p].pc \in {"prepare", "proof"} /\ run[p].stage = BACKUP
    BY DEF PrepareBackup, Proof, At, KeepStore, VoiceInv, RunFits
  <1>2. QuietStore
    BY <1>1, QuietSteps DEF VoiceInv
  <1>3. CASE Jump(p, "failing")
    BY <1>1, <1>2, <1>3, FailingFits DEF Over
  <1>4. CASE Jump(p, "proof") /\ run[p].pc = "prepare"
    <2>1. run'[p].pc = "proof" /\ run'[p].stage = run[p].stage /\ run'[p].docs = run[p].docs
      BY <1>1, <1>4, JumpFields DEF VoiceInv, Over
    <2>2. QED
      BY <1>1, <1>2, <2>1, NextFits
  <1>5. ASSUME NEW made, run' = [run EXCEPT ![p].made = made, ![p].pc = "document"],
               made.voice = run[p].docs[PUBLISH].voice
        PROVE  FitsAfter(p)
    <2>1. /\ run'[p].pc = "document" /\ run'[p].made = made /\ run'[p].stage = run[p].stage
          /\ run'[p].docs = run[p].docs
      BY <1>1, <1>5 DEF VoiceInv, RunInv, Fields, Over
    <2>2. run[p].stage - 1 = PUBLISH
      BY <1>1 DEF BACKUP, PUBLISH
    <2>3. QED
      BY <1>1, <1>2, <1>5, <2>1, <2>2, NextFits
  <1>6. CASE PrepareBackup(p)
    <2> DEFINE there == files[run[p].ws][Document(BACKUP)]
    <2>1. \/ Jump(p, "failing")
          \/ Jump(p, "proof") /\ run[p].pc = "prepare"
          \/ /\ there.content.voice = run[p].docs[PUBLISH].voice
             /\ run' = [run EXCEPT ![p].made = there.content, ![p].pc = "document"]
      BY <1>6 DEF PrepareBackup, At
    <2>2. QED
      BY <2>1, <1>3, <1>4, <1>5
  <1>7. CASE Proof(p)
    <2> DEFINE made == Content(BACKUP, run[p].docs[PUBLISH].voice, pub[p].id)
    <2>1. made.voice = run[p].docs[PUBLISH].voice
      BY SliceAssumption, StagesAssumption DEF Content, BACKUP, PUBLISH, INGEST, Stages
    <2>2. Jump(p, "failing") \/ run' = [run EXCEPT ![p].pc = "document", ![p].made = made]
      BY <1>7 DEF Proof
    <2> HIDE DEF made
    <2>3. QED
      BY <2>1, <2>2, <1>3, <1>5
  <1>8. QED
    BY <1>6, <1>7

LEMMA WriteFits ==
  ASSUME VoiceInv, NEW p \in Publishers, WriteSide(p) \/ WriteDocument(p) PROVE FitsAfter(p)
  <1>1. UNCHANGED store /\ run[p].pc \in {"side", "document"}
    BY DEF WriteSide, WriteDocument, At, KeepStore
  <1>2. QuietStore
    BY <1>1, QuietSteps DEF VoiceInv
  <1>3. CASE Jump(p, "failing")
    BY <1>1, <1>2, <1>3, FailingFits DEF Over
  <1>4. ASSUME NEW pc \in {"document", "commit"}, Jump(p, pc) PROVE FitsAfter(p)
    <2>1. /\ run'[p].pc = pc /\ run'[p].made = run[p].made /\ run'[p].stage = run[p].stage
          /\ run'[p].docs = run[p].docs
      BY <1>1, <1>4, JumpFields DEF VoiceInv, Over
    <2>2. run[p].stage > TTS => run[p].made.voice = run[p].docs[run[p].stage - 1].voice
      BY <1>1 DEF VoiceInv, RunFits
    <2>3. QED
      BY <1>1, <1>2, <2>1, <2>2, NextFits
  <1>5. QED
    BY <1>3, <1>4 DEF WriteSide, WriteDocument

LEMMA CommitFits ==
  ASSUME VoiceInv, NEW p \in Publishers, Commit(p) PROVE FitsAfter(p)
  <1> DEFINE s == run[p].stage
             made == run[p].made
  <1>1. run[p].pc = "commit" /\ s \in Stages
    BY DEF Commit, At, VoiceInv, RunInv, InOneStage
  <1>2. CASE UNCHANGED store /\ Jump(p, "failing")
    <2>1. QuietStore
      BY <1>2, QuietSteps DEF VoiceInv
    <2>2. QED
      BY <1>1, <1>2, <2>1, FailingFits DEF Over
  <1>3. CASE /\ commit_artifacts(s, [n \in NamesOf(s) |-> made])
             /\ run' = [run EXCEPT ![p].docs[s] = made, ![p].stage = s + 1, ![p].pc = "stage"]
    <2>1. RunFits(run[p], unit, artifacts) /\ DOMAIN run[p].docs = Stages
      BY <1>1 DEF VoiceInv, RunFits, Over
    <2>2. \A v \in Stages : v < s => unit[v].status = "SUCCEEDED"
      BY <1>1, <2>1 DEF RunFits, InLoop
    <2>3. s > TTS => made.voice = artifacts[Document(s - 1)].digest.voice
      <3>1. s > TTS => s - 1 \in Stages /\ s - 1 < s
        BY <1>1, SliceAssumption, StagesAssumption DEF INGEST, Stages, PUBLISH, BACKUP
      <3>2. QED
        BY <1>1, <2>1, <3>1 DEF RunFits, InLoop
    <2>4. /\ TablesFit'
          /\ \A u \in Stages : u # s => unit'[u] = unit[u]
          /\ unit'[s].status = "SUCCEEDED"
          /\ \A n \in Names : Owner(n) # s => artifacts'[n] = artifacts[n]
          /\ \A n \in NamesOf(s) : artifacts'[n] = [row |-> "valid", digest |-> made]
      BY <1>1, <1>3, <2>2, <2>3, CommitTables DEF VoiceInv
    <2>5. /\ run'[p].pc = "stage" /\ run'[p].stage = s + 1
          /\ run'[p].docs = [run[p].docs EXCEPT ![s] = made]
      BY <1>1, <1>3 DEF VoiceInv, RunInv, Fields, Over
    <2>6. \A v \in Stages : run'[p].docs[v] = IF v = s THEN made ELSE run[p].docs[v]
      BY <2>1, <2>5
    <2>7. artifacts'[Document(s)].digest = made
      <3>1. Document(s) \in NamesOf(s)
        BY <1>1, DocumentIsAName
      <3>2. QED
        BY <2>4, <3>1
    <2>8. \A v \in Stages : v # s => artifacts'[Document(v)] = artifacts[Document(v)]
      BY <2>4, DocumentIsAName DEF NamesOf
    <2>9. \A v \in Stages : v < s + 1 => v < s \/ v = s
      BY <1>1 DEF Stages
    <2>10. RunFits(run'[p], unit', artifacts')
      BY <1>1, <2>1, <2>4, <2>5, <2>6, <2>7, <2>8, <2>9 DEF RunFits, AfterScan, InLoop, Over
    <2>11. QED
      BY <2>4, <2>10 DEF FitsAfter
  <1>4. QED
    BY <1>2, <1>3 DEF Commit, KeepStore

LEMMA EndFits ==
  ASSUME VoiceInv, NEW p \in Publishers, FinishProof(p) \/ FinishFinal(p) \/ Return(p)
  PROVE  FitsAfter(p)
  <1>1. UNCHANGED store /\ run[p].pc \in {"finish", "proven", "final"}
    BY DEF FinishProof, FinishFinal, Return, At, KeepStore, store
  <1>2. QuietStore
    BY <1>1, QuietSteps DEF VoiceInv
  <1>3. ASSUME NEW how \in {"raised", "returned"}, Raise(p, how) PROVE FitsAfter(p)
    BY <1>2, <1>3, RaiseFields, LeaveFits DEF Over, VoiceInv
  <1>4. ASSUME NEW pc \in {"proven", "final"}, Jump(p, pc) PROVE FitsAfter(p)
    <2>1. run'[p].pc = pc /\ run'[p].stage = run[p].stage /\ run'[p].docs = run[p].docs
      BY <1>1, <1>4, JumpFields DEF VoiceInv, Over
    <2>2. RunFits(run[p], unit, artifacts)
      BY DEF VoiceInv
    <2>3. RunFits(run'[p], unit, artifacts)
      BY <1>1, <2>1, <2>2 DEF RunFits, AfterScan, InLoop, Over
    <2>4. QED
      BY <1>2, <2>3, QuietFits, QuietTables DEF VoiceInv, FitsAfter
  <1>5. QED
    BY <1>3, <1>4 DEF FinishProof, FinishFinal, Return

LEMMA RestFits ==
  ASSUME VoiceInv, NEW p \in Publishers,
         FailStage(p) \/ Publishing(p) \/ Crash(p) \/ StageFails(p) \/ StoreFailsInRun(p)
  PROVE  FitsAfter(p)
  <1>1. CASE FailStage(p)
    <2>1. run[p].stage \in Stages
      BY <1>1 DEF FailStage, At, VoiceInv, RunInv, InOneStage
    <2>2. QuietStore
      BY <1>1, <2>1, QuietSteps DEF FailStage, KeepStore, VoiceInv
    <2>3. QED
      BY <1>1, <2>2, RaiseFields, LeaveFits DEF FailStage, Over, VoiceInv
  <1>2. CASE Publishing(p)
    <2>1. QuietStore
      <3>1. UNCHANGED store \/ \E i, evidence : record_checkpoint(i, evidence)
        BY <1>2 DEF Publishing, PublishStep, Completed, Collect, Snapshot, Put, PutManifest, Record
      <3>2. QED
        BY <3>1, QuietSteps DEF VoiceInv
    <2>2. run' = run
      BY <1>2 DEF Publishing
    <2>3. QED
      BY <2>1, <2>2, QuietFits, QuietTables DEF VoiceInv, FitsAfter
  <1>3. CASE Crash(p)
    <2>1. QuietStore
      BY <1>3, QuietSteps DEF Crash, VoiceInv
    <2>2. run'[p] = NotRunning
      BY <1>3 DEF Crash, VoiceInv, RunInv
    <2>3. QED
      BY <2>1, <2>2, LeaveFits DEF NotRunning, Over
  <1>4. CASE StageFails(p)
    <2>1. QuietStore
      BY <1>4, QuietSteps DEF StageFails, VoiceInv
    <2>2. run'[p].pc = "failing" /\ run'[p].docs = run[p].docs
      BY <1>4 DEF StageFails, VoiceInv, RunInv, Fields, Over
    <2>3. DOMAIN run[p].docs = Stages
      BY <1>4 DEF StageFails, VoiceInv, RunFits, Over
    <2>4. QED
      BY <2>1, <2>2, <2>3, FitsOutside, QuietTables DEF VoiceInv, FitsAfter
  <1>5. CASE StoreFailsInRun(p)
    <2>1. QuietStore
      BY <1>5, QuietSteps DEF StoreFailsInRun, StoreFails, VoiceInv
    <2>2. /\ run'[p].pc = run[p].pc /\ run'[p].docs = run[p].docs
          /\ run'[p].stage = run[p].stage /\ run[p].pc \in {"proof", "proven", "final"}
      BY <1>5 DEF StoreFailsInRun, VoiceInv, RunInv, Fields, Over
    <2>3. RunFits(run[p], unit, artifacts)
      BY DEF VoiceInv
    <2>4. RunFits(run'[p], unit, artifacts)
      BY <2>2, <2>3 DEF RunFits, AfterScan, InLoop, Over
    <2>5. QED
      BY <2>1, <2>4, QuietFits, QuietTables DEF VoiceInv, FitsAfter
  <1>6. QED
    BY <1>1, <1>2, <1>3, <1>4, <1>5

LEMMA VoiceStep == VoiceInv /\ [SliceNext]_slice => VoiceInv'
  <1> SUFFICES ASSUME VoiceInv, [SliceNext]_slice PROVE VoiceInv'
    OBVIOUS
  <1>1. RunInv' /\ StoreInv' /\ OneProcess
    BY RunInvStep, SliceStepsTheStore, StoreStep DEF VoiceInv
  <1>2. ASSUME UNCHANGED <<store, run>> PROVE VoiceInv'
    <2>1. QuietStore
      BY <1>2, QuietSteps DEF VoiceInv
    <2>2. QED
      BY <1>1, <1>2, <2>1, QuietFits, QuietTables DEF VoiceInv
  <1>3. CASE UNCHANGED slice \/ DamageFile \/ DamageObject
    BY <1>2, <1>3 DEF slice, DamageFile, DamageObject
  <1>4. ASSUME NEW p \in Publishers, FitsAfter(p) PROVE VoiceInv'
    <2>1. \A q \in Publishers : q = p
      BY <1>1 DEF OneProcess
    <2>2. QED
      BY <1>1, <1>4, <2>1 DEF VoiceInv, FitsAfter
  <1>5. ASSUME NEW p \in Publishers, RunStep(p) \/ Crash(p) \/ StageFails(p) \/ StoreFailsInRun(p)
        PROVE  FitsAfter(p)
    BY <1>5, SetUpFits, ScanFits, InvalidateFits, FreshFits, StartFits, PrepareFits, BackupFits,
       WriteFits, CommitFits, EndFits, RestFits DEF RunStep
  <1>6. QED
    BY <1>3, <1>4, <1>5 DEF SliceNext

LEMMA VoiceStart == OneProcess /\ SliceInit => VoiceInv
  <1> SUFFICES ASSUME OneProcess, SliceInit PROVE VoiceInv
    OBVIOUS
  <1>1. RunInv /\ StoreInv
    BY RunInvInit, EmptyStoreInv DEF SliceInit
  <1>2. TablesFit
    BY DEF SliceInit, EmptyStore, TablesFit, RowsHaveFields, InSequence, RowsAreAlike, OneVoice,
           valid_artifacts, Valid
  <1>3. \A p \in Publishers : RunFits(run[p], unit, artifacts)
    BY FitsOutside DEF SliceInit, NotRunning, Over
  <1>4. QED
    BY <1>1, <1>2, <1>3 DEF VoiceInv

LEMMA SliceKeepsVoiceInv == OneProcess => (SliceSpec => []VoiceInv)
  <1>1. OneProcess /\ SliceInit => VoiceInv
    BY VoiceStart
  <1>2. VoiceInv /\ [SliceNext]_slice => VoiceInv'
    BY VoiceStep
  <1>3. QED
    BY <1>1, <1>2, PTL DEF SliceSpec

\* With one process at work, for every number of stages and voices: the audio of the
\* results that are valid is one, whatever is damaged, lost and made again in between
\* (_resume_workspace and _publish_prepared of offline_slice.py; commit_artifacts and
\* apply_invalidation of state.py).
THEOREM ResultsHaveOneVoice == OneProcess => (SliceSpec => []OneVoice)
  <1>1. VoiceInv => OneVoice
    BY DEF VoiceInv, TablesFit
  <1>2. QED
    BY <1>1, SliceKeepsVoiceInv, PTL

-----------------------------------------------------------------------------
\* A manifest lists what is valid in its snapshot, each with its digest.
Coherent(m) ==
    \A n \in Names : m.artifacts[n] = IF m.state.artifacts[n].row = "valid"
                                      THEN m.state.artifacts[n].digest ELSE None

\* A publication is going on only while the run waits for it, so that the artifacts
\* are still those it collected when it takes the snapshot.
Waiting == {"proof", "proven", "final"}
Active == {"completed", "collect", "snapshot", "put", "manifest", "record"}
PubFits(c, pc, a) ==
    /\ c.step \in Active => pc \in Waiting
    /\ c.step = "snapshot" => \A n \in Names : c.rows[n] = IF a[n].row = "valid"
                                                           THEN a[n].digest ELSE None
    /\ c.step \in {"put", "manifest", "record"} => Coherent(c.manifest)

RestInv ==
    /\ OneProcess /\ RunInv /\ PubInv
    /\ \A p \in Publishers : PubFits(pub[p], run[p].pc, artifacts)
    /\ \A key \in DOMAIN remote : key[2] = "manifest" => Coherent(remote[key].content)
    /\ \A rec \in records : Coherent(rec.evidence)

\* A step that puts no manifest and records nothing.
LEMMA RestMove ==
  ASSUME RestInv, RunInv', PubInv', NEW p \in Publishers,
         PubFits(pub'[p], run'[p].pc, artifacts'),
         \A key \in DOMAIN remote' : key[2] = "manifest" =>
             Coherent(remote'[key].content)
             \/ (key \in DOMAIN remote /\ remote'[key].content = remote[key].content),
         records' = records
  PROVE  RestInv'
  <1>1. \A q \in Publishers : q = p
    BY DEF RestInv, OneProcess
  <1>2. QED
    BY <1>1 DEF RestInv

\* The run goes on; no publication is in progress, or the run goes on waiting for it.
LEMMA RunMoves ==
  ASSUME RestInv, RunInv', PubInv', NEW p \in Publishers, UNCHANGED <<pub, remote, records>>,
         pub[p].step \in Active => run'[p].pc \in Waiting /\ artifacts' = artifacts
  PROVE  RestInv'
  <1>1. PubFits(pub[p], run[p].pc, artifacts)
    BY DEF RestInv
  <1>2. PubFits(pub'[p], run'[p].pc, artifacts')
    BY <1>1 DEF PubFits, Active
  <1>3. QED
    BY <1>2, RestMove DEF RestInv

\* A publication begins or is forgotten.
LEMMA CallFits ==
  ASSUME RestInv, RunInv', PubInv', NEW p \in Publishers, UNCHANGED <<remote, records>>,
         \/ pub' = [pub EXCEPT ![p] = NotPublishing]
         \/ run'[p].pc \in Waiting /\ \E i, w, at : Publish(p, i, w, at)
  PROVE  RestInv'
  <1>1. pub'[p].step = "idle" \/ (pub'[p].step = "completed" /\ run'[p].pc \in Waiting)
    BY DEF RestInv, PubInv, NotPublishing, Publish
  <1>2. PubFits(pub'[p], run'[p].pc, artifacts')
    BY <1>1 DEF PubFits, Active
  <1>3. QED
    BY <1>2, RestMove DEF RestInv

\* A publication takes a step and the run waits; the manifest is the one it had.
LEMMA GoFits ==
  ASSUME RestInv, RunInv', PubInv', NEW p \in Publishers, UNCHANGED <<remote, records, artifacts>>,
         run'[p].pc \in Waiting, NEW step \in {"collect", "record", "done", "error"}, Go(p, step),
         step = "record" => pub[p].step = "manifest"
  PROVE  RestInv'
  <1>1. PubFits(pub[p], run[p].pc, artifacts) /\ InOrder(remote, pub[p])
    BY DEF RestInv, PubInv
  <1>2. /\ pub'[p].step = step
        /\ step = "record" => pub'[p].manifest = pub[p].manifest
    BY <1>1 DEF RestInv, PubInv, Go, InOrder
  <1>3. PubFits(pub'[p], run'[p].pc, artifacts')
    BY <1>1, <1>2 DEF PubFits, Active
  <1>4. QED
    BY <1>3, RestMove DEF RestInv

LEMMA CollectFits ==
  ASSUME RestInv, RunInv', PubInv', NEW p \in Publishers, Collect(p), UNCHANGED run,
         run[p].pc \in Waiting
  PROVE  RestInv'
  <1>1. UNCHANGED <<remote, records, artifacts>>
    BY DEF Collect, objects, store
  <1>2. CASE Go(p, "error")
    BY <1>1, <1>2, GoFits
  <1>3. CASE pub' = [pub EXCEPT ![p] = [step |-> "snapshot", id |-> pub[p].id, ws |-> pub[p].ws,
                                        at |-> pub[p].at, rows |-> Rows(valid_artifacts)]]
    <2>1. pub'[p].step = "snapshot" /\ pub'[p].rows = Rows(valid_artifacts)
      BY <1>3 DEF RestInv, PubInv
    <2>2. \A n \in Names : pub'[p].rows[n] = IF artifacts[n].row = "valid"
                                             THEN artifacts[n].digest ELSE None
      BY <2>1 DEF Rows, valid_artifacts, Valid
    <2>3. PubFits(pub'[p], run'[p].pc, artifacts')
      BY <1>1, <2>1, <2>2 DEF PubFits, Active
    <2>4. QED
      BY <1>1, <2>3, RestMove DEF RestInv
  <1>4. QED
    BY <1>2, <1>3 DEF Collect

LEMMA SnapshotFits ==
  ASSUME RestInv, RunInv', PubInv', NEW p \in Publishers, Snapshot(p), UNCHANGED run,
         run[p].pc \in Waiting
  PROVE  RestInv'
  <1>1. UNCHANGED <<remote, records, artifacts>> /\ pub[p].step = "snapshot"
    BY DEF Snapshot, Step, objects, store
  <1>2. \A n \in Names : pub[p].rows[n] = IF artifacts[n].row = "valid"
                                          THEN artifacts[n].digest ELSE None
    BY <1>1 DEF RestInv, PubFits
  <1>3. /\ pub'[p].step = "put" /\ pub'[p].manifest.artifacts = pub[p].rows
        /\ pub'[p].manifest.state = StateSnapshot
    BY DEF Snapshot, RestInv, PubInv
  <1>4. Coherent(pub'[p].manifest)
    BY <1>2, <1>3 DEF Coherent, StateSnapshot
  <1>5. PubFits(pub'[p], run'[p].pc, artifacts')
    BY <1>3, <1>4 DEF PubFits, Active
  <1>6. QED
    BY <1>1, <1>5, RestMove DEF RestInv

LEMMA PutFits ==
  ASSUME RestInv, RunInv', PubInv', NEW p \in Publishers, Put(p), UNCHANGED run,
         run[p].pc \in Waiting
  PROVE  RestInv'
  <1>1. UNCHANGED <<records, artifacts>> /\ pub[p].step = "put"
    BY DEF Put, Step, store
  <1>2. PICK key \in pub[p].todo :
           IF SourceIsThere(p, key) /\ CanPutObject(key, ContentOf(p, key))
           THEN /\ PutObject(key, ContentOf(p, key))
                /\ pub' = [pub EXCEPT ![p].todo = @ \ {key},
                                      ![p].step = IF pub[p].todo = {key} THEN "manifest"
                                                  ELSE "put"]
           ELSE Go(p, "error") /\ UNCHANGED remote
    BY DEF Put
  <1>3. CASE Go(p, "error") /\ UNCHANGED remote
    BY <1>1, <1>3, GoFits
  <1>4. ASSUME CanPutObject(key, ContentOf(p, key)), PutObject(key, ContentOf(p, key)),
               pub' = [pub EXCEPT ![p].todo = @ \ {key},
                                  ![p].step = IF pub[p].todo = {key} THEN "manifest"
                                              ELSE "put"]
        PROVE  RestInv'
    <2>1. /\ DOMAIN pub[p] = {"step", "id", "ws", "todo", "manifest"}
          /\ pub[p].todo \subseteq ObjectKeys(pub[p].id)
      BY <1>1 DEF RestInv, PubInv, InOrder
    <2> DEFINE step == IF pub[p].todo = {key} THEN "manifest" ELSE "put"
               todo == pub[p].todo \ {key}
    <2>2. step \in {"put", "manifest"}
      OBVIOUS
    <2>3. pub' = [pub EXCEPT ![p].todo = todo, ![p].step = step]
      BY <1>4
    <2> HIDE DEF step, todo
    <2>4. pub'[p].step = step /\ pub'[p].manifest = pub[p].manifest
      BY <2>1, <2>3 DEF RestInv, PubInv
    <2>5. Coherent(pub[p].manifest)
      BY <1>1 DEF RestInv, PubFits
    <2>6. PubFits(pub'[p], run'[p].pc, artifacts')
      BY <2>2, <2>4, <2>5 DEF PubFits, Active
    <2>7. key[2] # "manifest"
      BY <1>2, <2>1 DEF ObjectKeys, InputKey, StateKey, ArtifactKey
    <2>8. Stays /\ DOMAIN remote' = DOMAIN remote \union {key}
      BY <1>4, PutStays DEF RestInv
    <2>9. QED
      BY <1>1, <2>6, <2>7, <2>8, RestMove DEF Stays
  <1>5. QED
    BY <1>2, <1>3, <1>4

LEMMA PutManifestFits ==
  ASSUME RestInv, RunInv', PubInv', NEW p \in Publishers, PutManifest(p), UNCHANGED run,
         run[p].pc \in Waiting
  PROVE  RestInv'
  <1> DEFINE key == ManifestKey(pub[p].id)
  <1>1. UNCHANGED <<records, artifacts>> /\ pub[p].step = "manifest"
    BY DEF PutManifest, Step, store
  <1>2. Coherent(pub[p].manifest) /\ DOMAIN pub[p] = {"step", "id", "ws", "todo", "manifest"}
    BY <1>1 DEF RestInv, PubFits, PubInv, InOrder
  <1>3. CASE CanPutObject(key, pub[p].manifest) /\ PutObject(key, pub[p].manifest) /\ Go(p, "record")
    <2>1. pub'[p].step = "record" /\ pub'[p].manifest = pub[p].manifest
      BY <1>2, <1>3 DEF RestInv, PubInv, Go
    <2>2. PubFits(pub'[p], run'[p].pc, artifacts')
      BY <1>2, <2>1 DEF PubFits, Active
    <2>3. /\ Stays /\ In(remote', key, pub[p].manifest)
          /\ DOMAIN remote' = DOMAIN remote \union {key}
      BY <1>3, PutStays DEF RestInv
    <2>4. \A k \in DOMAIN remote' : Coherent(remote'[k].content)
              \/ (k \in DOMAIN remote /\ remote'[k].content = remote[k].content)
      BY <1>2, <2>3 DEF Stays, In
    <2>5. QED
      BY <1>1, <2>2, <2>4, RestMove
  <1>4. CASE Go(p, "error") /\ UNCHANGED remote
    BY <1>1, <1>4, GoFits
  <1>5. CASE /\ key \in DOMAIN remote /\ UNCHANGED remote
             /\ pub' = [pub EXCEPT ![p].manifest = remote[key].content, ![p].step = "record"]
    <2>1. pub'[p].step = "record" /\ pub'[p].manifest = remote[key].content
      BY <1>2, <1>5 DEF RestInv, PubInv
    <2>2. key[2] = "manifest"
      BY DEF ManifestKey
    <2>3. Coherent(remote[key].content)
      BY <1>5, <2>2 DEF RestInv
    <2>4. PubFits(pub'[p], run'[p].pc, artifacts')
      BY <2>1, <2>3 DEF PubFits, Active
    <2>5. QED
      BY <1>1, <1>5, <2>4, RestMove
  <1>6. QED
    BY <1>3, <1>4, <1>5 DEF PutManifest

LEMMA RecordFits ==
  ASSUME RestInv, RunInv', PubInv', NEW p \in Publishers, Record(p), UNCHANGED run,
         run[p].pc \in Waiting
  PROVE  RestInv'
  <1>1. UNCHANGED <<remote, artifacts>> /\ pub[p].step = "record"
    BY DEF Record, Step, objects, store, record_checkpoint
  <1>2. CASE Go(p, "error") /\ UNCHANGED store
    BY <1>1, <1>2, GoFits DEF store
  <1>3. CASE record_checkpoint(pub[p].id, pub[p].manifest) /\ Go(p, "done")
    <2>1. Coherent(pub[p].manifest)
      BY <1>1 DEF RestInv, PubFits
    <2>2. \A rec \in records' : Coherent(rec.evidence)
      BY <1>3, <2>1 DEF record_checkpoint, RestInv
    <2>3. pub'[p].step = "done"
      BY <1>1, <1>3 DEF RestInv, PubInv, InOrder, Go
    <2>4. PubFits(pub'[p], run'[p].pc, artifacts')
      BY <2>3 DEF PubFits, Active
    <2>5. \A q \in Publishers : q = p
      BY DEF RestInv, OneProcess
    <2>6. QED
      BY <1>1, <2>2, <2>4, <2>5 DEF RestInv
  <1>4. QED
    BY <1>2, <1>3 DEF Record

LEMMA RestStep ==
  ASSUME RestInv, RunInv', PubInv', [SliceNext]_slice PROVE RestInv'
  <1>1. CASE UNCHANGED slice \/ DamageFile
    <2>1. UNCHANGED <<pub, run, remote, records, artifacts>>
      BY <1>1 DEF slice, store, objects, DamageFile
    <2>2. QED
      BY <2>1 DEF RestInv
  <1>2. CASE DamageObject
    <2>1. PICK key \in DOMAIN remote : remote' = [remote EXCEPT ![key].whole = FALSE]
      BY <1>2 DEF DamageObject
    <2>2. /\ DOMAIN remote' = DOMAIN remote
          /\ \A k \in DOMAIN remote : remote'[k].content = remote[k].content
      BY <2>1 DEF RestInv, PubInv, AllWhole
    <2>3. UNCHANGED <<pub, run, records, artifacts>>
      BY <1>2 DEF DamageObject, store
    <2>4. QED
      BY <2>2, <2>3 DEF RestInv
  <1>3. ASSUME NEW p \in Publishers, RunStep(p) \/ Crash(p) \/ StageFails(p) \/ StoreFailsInRun(p)
        PROVE  RestInv'
    <2>0. PubFits(pub[p], run[p].pc, artifacts)
      BY DEF RestInv
    <2>1. CASE Begin(p) \/ Crash(p)
      BY <2>1, CallFits DEF Begin, Crash, objects, store
    <2>2. CASE \/ Recover(p) \/ CreateJob(p) \/ RecordInput(p) \/ EnsureUnit(p) \/ Scan(p)
               \/ Invalidate(p) \/ CheckFresh(p) \/ CopyUpstream(p) \/ StartStage(p)
               \/ Prepare(p) \/ WriteSide(p) \/ WriteDocument(p) \/ Commit(p) \/ FailStage(p)
               \/ StageFails(p)
      <3>1. UNCHANGED <<pub, remote, records>>
        BY <2>2, ScanForm DEF Recover, CreateJob, RecordInput, EnsureUnit, Invalidate, CheckFresh,
             CopyUpstream, StartStage, Prepare, WriteSide, WriteDocument, Commit, FailStage,
             StageFails, KeepAll, KeepStore, objects, store, Write, recover_stale_work, create_job,
             record_verified_input, put_work_unit, start_work_unit, fail_work_unit,
             apply_invalidation, commit_artifacts
      <3>2. run[p].pc \notin Waiting
        BY <2>2, ScanForm DEF Recover, CreateJob, RecordInput, EnsureUnit, Invalidate, CheckFresh,
             CopyUpstream, StartStage, Prepare, WriteSide, WriteDocument, Commit, FailStage,
             StageFails, At, Waiting
      <3>3. QED
        BY <2>0, <3>1, <3>2, RunMoves DEF PubFits
    <2>3. CASE PrepareBackup(p)
      <3>1. UNCHANGED <<remote, records>> /\ run[p].pc = "prepare"
        BY <2>3 DEF PrepareBackup, At, KeepStore, objects, store
      <3>2. CASE UNCHANGED pub
        BY <2>0, <3>1, <3>2, RunMoves DEF PubFits, Waiting
      <3>3. CASE Publish(p, ProofId(p), run[p].ws, run[p].at) /\ Jump(p, "proof")
        <4>1. run'[p].pc \in Waiting
          BY <3>1, <3>3, JumpFields DEF RestInv, Over, Waiting
        <4>2. QED
          BY <3>1, <3>3, <4>1, CallFits
      <3>4. QED
        BY <2>3, <3>2, <3>3 DEF PrepareBackup
    <2>4. CASE Proof(p) \/ Return(p)
      <3>1. UNCHANGED <<pub, remote, records>> /\ pub[p].step \notin Active
        BY <2>4 DEF Proof, Return, KeepAll, KeepStore, objects, store, Active
      <3>2. QED
        BY <3>1, RunMoves
    <2>5. CASE FinishProof(p)
      <3>1. UNCHANGED <<remote, records>> /\ run[p].pc = "finish" /\ Jump(p, "proven")
        BY <2>5 DEF FinishProof, At, objects, store
      <3>2. run'[p].pc \in Waiting
        BY <3>1, JumpFields DEF RestInv, Over, Waiting
      <3>3. \E i, w, at : Publish(p, i, w, at)
        BY <2>5 DEF FinishProof
      <3>4. QED
        BY <3>1, <3>2, <3>3, CallFits
    <2>6. CASE FinishFinal(p)
      <3>1. /\ UNCHANGED <<remote, records>> /\ run[p].pc = "proven"
            /\ pub[p].step \notin Active
        BY <2>6 DEF FinishFinal, At, objects, store, Active
      <3>2. CASE UNCHANGED pub
        BY <3>1, <3>2, RunMoves
      <3>3. CASE Jump(p, "final") /\ \E i, w, at : Publish(p, i, w, at)
        <4>1. run'[p].pc \in Waiting
          BY <3>1, <3>3, JumpFields DEF RestInv, Over, Waiting
        <4>2. QED
          BY <3>1, <3>3, <4>1, CallFits
      <3>4. QED
        BY <2>6, <3>2, <3>3 DEF FinishFinal
    <2>7. CASE Publishing(p)
      <3>1. run[p].pc \in Waiting /\ UNCHANGED run /\ PublishStep(p)
        BY <2>7 DEF Publishing, Waiting
      <3>2. CASE Completed(p)
        <4>1. UNCHANGED <<remote, records, artifacts>>
          BY <3>2 DEF Completed, objects, store
        <4>2. PICK step \in {"collect", "done", "error"} : Go(p, step)
          BY <3>2 DEF Completed
        <4>3. QED
          BY <3>1, <4>1, <4>2, GoFits
      <3>3. QED
        BY <3>1, <3>2, CollectFits, SnapshotFits, PutFits, PutManifestFits, RecordFits
           DEF PublishStep
    <2>8. CASE StoreFailsInRun(p)
      <3>1. /\ UNCHANGED <<remote, records, artifacts>> /\ Go(p, "error")
            /\ run[p].pc \in Waiting /\ run' = [run EXCEPT ![p].calm = FALSE]
        BY <2>8 DEF StoreFailsInRun, StoreFails, objects, store, Waiting
      <3>2. run'[p].pc \in Waiting
        BY <3>1 DEF RestInv, RunInv, Fields, Over, Waiting
      <3>3. QED
        BY <3>1, <3>2, GoFits
    <2>9. QED
      BY <1>3, <2>1, <2>2, <2>3, <2>4, <2>5, <2>6, <2>7, <2>8 DEF RunStep
  <1>4. QED
    BY <1>1, <1>2, <1>3 DEF SliceNext

LEMMA CompleteStart == SliceInit => CompleteInv
  BY DEF SliceInit, CompleteInv, PubInv, AllWhole, InOrder, NotPublishing, ManifestIsComplete

LEMMA SliceKeepsRestInv == OneProcess => (SliceSpec => [](RestInv /\ CompleteInv))
  <1>1. OneProcess /\ SliceInit => RestInv /\ CompleteInv
    <2> SUFFICES ASSUME OneProcess, SliceInit PROVE RestInv /\ CompleteInv
      OBVIOUS
    <2>1. RunInv /\ CompleteInv
      BY RunInvInit, CompleteStart
    <2>2. QED
      BY <2>1 DEF SliceInit, EmptyStore, RestInv, CompleteInv, PubFits, NotPublishing, Active
  <1>2. RestInv /\ CompleteInv /\ [SliceNext]_slice => (RestInv /\ CompleteInv)'
    BY RestStep, CompleteStep, RunInvStep DEF RestInv, CompleteInv
  <1>3. QED
    BY <1>1, <1>2, PTL DEF SliceSpec

\* With one process at work: what is recorded as a checkpoint can be restored, its
\* manifest lists just what is valid in its snapshot (publish of checkpoints.py reads
\* the artifacts and the snapshot in two transactions).
THEOREM RecordsAreRestorable == OneProcess => (SliceSpec => []RecordedIsRestorable)
  <1>1. RestInv => RecordedIsRestorable
    BY DEF RestInv, RecordedIsRestorable, Coherent
  <1>2. QED
    BY <1>1, SliceKeepsRestInv, PTL

-----------------------------------------------------------------------------
\* A file f of a workspace has a content.
Holds(f, w, n, content) == f[w][n] = Whole(content)
\* The stages whose results the scan found and the run has still to come to.
Ahead(r, s) == r.stage < s \/ (r.stage = s /\ r.pc \in {"invalidate", "fresh", "copy", "stage"})

\* Where nobody damages files: the results a run goes on with are in its workspace,
\* and what it copies to another one is what it found.
FilesFit(r, f, a) ==
    /\ r.pc \in AfterScan =>
          \A s \in Stages : Ahead(r, s) /\ r.docs[s] # None =>
              \A n \in NamesOf(s) : /\ a[n].digest = r.docs[s]
                                    /\ Holds(f, r.ws, n, r.docs[s])
    /\ r.pc \in InLoop =>
          \A s \in Stages : s < r.stage =>
              \A n \in NamesOf(s) : Holds(f, r.ws, n, a[n].digest)
    /\ r.pc \in {"invalidate", "fresh", "copy"} =>
          \A s \in Stages : r.docs[s] # None => \A n \in NamesOf(s) : r.rows[n] = r.docs[s]
    /\ r.pc = "copy" =>
          \A n \in Names : f[r.call.fresh][n] # None =>
                                Holds(f, r.call.fresh, n, r.rows[n])
    /\ r.pc = "document" /\ r.stage \in Sided => Holds(f, r.ws, Side(r.stage), r.made)
    /\ r.pc = "commit" => \A n \in NamesOf(r.stage) : Holds(f, r.ws, n, r.made)

FilesTyped == DOMAIN files = Workspaces /\ \A w \in Workspaces : DOMAIN files[w] = Names
RunTyped(r) ==
    r.pc \notin Over =>
        /\ r.call \in Calls /\ r.ws \in Workspaces
        /\ r.pc = "copy" => r.call.fresh \in Workspaces \ {r.ws}
BudgetFits == /\ DOMAIN budget = {"runs", "faults", "damages", "scared"}
              /\ budget.damages \in Int /\ budget.damages <= MaxDamages
Undamaged == budget.damages = MaxDamages

FilesInv ==
    /\ FilesTyped /\ BudgetFits
    /\ \A p \in Publishers : RunTyped(run[p])
    /\ Undamaged => \A p \in Publishers : FilesFit(run[p], files, artifacts)

\* Types first: they do not depend on what the files are.
LEMMA WriteTyped ==
  ASSUME FilesTyped, NEW w \in Workspaces, NEW n \in Names, NEW content, Write(w, n, content)
  PROVE  /\ FilesTyped'
         /\ Holds(files', w, n, content)
         /\ \A v \in Workspaces, m \in Names : v # w \/ m # n => files'[v][m] = files[v][m]
  BY DEF FilesTyped, Write, Holds

LEMMA RunTypedStep ==
  ASSUME RunInv, NEW p \in Publishers, RunTyped(run[p]),
         RunStep(p) \/ Crash(p) \/ StageFails(p) \/ StoreFailsInRun(p)
  PROVE  RunTyped(run'[p])
  <1> USE DEF RunInv, Over, InOneStage, BetweenStages, At, Jump, Raise
  <1>2. CASE Begin(p)
    <2>1. PICK call \in Calls, at \in Times :
             run' = [run EXCEPT ![p] =
                   [pc |-> "recover", call |-> call, ws |-> call.ws, at |-> at, stage |-> 1,
                    docs |-> NoDocuments, rows |-> Rows({}), damaged |-> None,
                    token |-> None, made |-> None, calm |-> TRUE]]
      BY <1>2 DEF Begin
    <2>2. run'[p].pc = "recover" /\ run'[p].call = call /\ run'[p].ws = call.ws
      BY <2>1
    <2>3. QED
      BY <2>2, SliceAssumption DEF RunTyped
  <1>3. ASSUME \/ run'[p].pc \in Over
               \/ /\ run'[p].pc # "copy"
                  /\ run'[p].ws = run[p].ws /\ run'[p].call = run[p].call,
               run[p].pc \notin Over
        PROVE  RunTyped(run'[p])
    BY <1>3 DEF RunTyped
  <1>4. ASSUME NEW pc, pc # "copy", Jump(p, pc), run[p].pc \notin Over PROVE RunTyped(run'[p])
    BY <1>3, <1>4, JumpFields
  <1>5. ASSUME NEW how \in Over, Raise(p, how) PROVE RunTyped(run'[p])
    BY <1>5, RaiseFields DEF RunTyped
  <1>1. CASE Crash(p) \/ StageFails(p) \/ StoreFailsInRun(p)
    <2>1. CASE Crash(p)
      BY <2>1 DEF Crash, NotRunning, RunTyped
    <2>2. CASE StageFails(p)
      <3>1. /\ run'[p].pc = "failing" /\ run'[p].ws = run[p].ws /\ run'[p].call = run[p].call
            /\ run[p].pc \notin Over
        BY <2>2 DEF StageFails, Fields
      <3>2. QED
        BY <1>3, <3>1
    <2>3. CASE StoreFailsInRun(p)
      <3>1. /\ run'[p].pc = run[p].pc /\ run'[p].ws = run[p].ws /\ run'[p].call = run[p].call
            /\ run[p].pc \in {"proof", "proven", "final"}
        BY <2>3 DEF StoreFailsInRun, Fields
      <3>2. QED
        BY <1>3, <3>1
    <2>4. QED
      BY <1>1, <2>1, <2>2, <2>3
  <1>6. CASE Recover(p) \/ CreateJob(p) \/ RecordInput(p)
    BY <1>4, <1>5, <1>6 DEF Recover, CreateJob, RecordInput
  <1>7. CASE EnsureUnit(p)
    BY <1>3, <1>7 DEF EnsureUnit, Fields
  <1>8. CASE Scan(p)
    <2>1. run[p].pc = "scan"
      BY <1>8, ScanForm
    <2>2. CASE Raise(p, "raised")
      BY <1>5, <2>2
    <2>3. ASSUME NEW damaged, NEW calm, Resume(p, run[p].ws, damaged, calm)
          PROVE  RunTyped(run'[p])
      <3>1. /\ run'[p].pc \in {"stage", "invalidate"}
            /\ run'[p].ws = run[p].ws /\ run'[p].call = run[p].call
        <4> HIDE DEF RunInv
        <4>1. QED
          BY <2>1, <2>3, ResumeFields
      <3>2. QED
        BY <1>3, <2>1, <3>1
    <2>4. QED
      BY <1>8, <2>2, <2>3, ScanForm
  <1>9. CASE Invalidate(p) \/ CheckFresh(p)
    <2> DEFINE w == run[p].call.fresh
    <2>1. CASE w # None /\ w # run[p].ws /\ Jump(p, "copy") /\ run[p].pc = "fresh"
      <3>1. run'[p].ws = run[p].ws /\ run'[p].call = run[p].call
        BY <2>1, JumpFields
      <3>2. run[p].call \in Calls /\ run[p].ws \in Workspaces
        BY <2>1 DEF RunTyped
      <3>3. QED
        BY <2>1, <3>1, <3>2, SliceAssumption DEF RunTyped
    <2>2. QED
      BY <1>4, <1>5, <1>9, <2>1 DEF Invalidate, CheckFresh
  <1>10. CASE CopyUpstream(p)
    <2>1. run[p].pc = "copy"
      BY <1>10 DEF CopyUpstream
    <2>2. CASE Raise(p, "fresh_required") \/ run' = run
      BY <1>5, <2>2 DEF RunTyped
    <2>3. CASE run' = [run EXCEPT ![p].pc = "stage", ![p].ws = run[p].call.fresh]
      <3>1. /\ run'[p].pc = "stage" /\ run'[p].ws = run[p].call.fresh
            /\ run'[p].call = run[p].call
        BY <2>1, <2>3 DEF Fields
      <3>2. QED
        BY <2>1, <3>1, SliceAssumption DEF RunTyped
    <2>4. QED
      BY <1>10, <2>2, <2>3 DEF CopyUpstream
  <1>11. CASE StartStage(p)
    BY <1>3, <1>4, <1>5, <1>11 DEF StartStage, Fields
  <1>12. CASE Prepare(p) \/ PrepareBackup(p) \/ Proof(p)
    <2>1. run[p].pc \in {"prepare", "proof"}
      BY <1>12 DEF Prepare, PrepareBackup, Proof
    <2>2. PICK pc \in {"side", "document", "failing", "proof"} :
             \/ \E made : run' = [run EXCEPT ![p].made = made, ![p].pc = pc]
             \/ Jump(p, pc)
      <3>1. CASE Prepare(p)
        BY <3>1 DEF Prepare
      <3>2. CASE PrepareBackup(p)
        BY <3>2 DEF PrepareBackup
      <3>3. CASE Proof(p)
        BY <3>3 DEF Proof
      <3>4. QED
        BY <1>12, <3>1, <3>2, <3>3
    <2>3. ASSUME NEW made, run' = [run EXCEPT ![p].made = made, ![p].pc = pc]
          PROVE  RunTyped(run'[p])
      BY <1>3, <2>1, <2>3 DEF Fields
    <2>4. QED
      BY <1>4, <2>1, <2>2, <2>3
  <1>13. CASE WriteSide(p) \/ WriteDocument(p) \/ FailStage(p)
    BY <1>4, <1>5, <1>13 DEF WriteSide, WriteDocument, FailStage
  <1>14. CASE Commit(p)
    BY <1>3, <1>4, <1>14 DEF Commit, Fields
  <1>15. CASE FinishProof(p) \/ FinishFinal(p) \/ Return(p) \/ Publishing(p)
    BY <1>4, <1>5, <1>15 DEF FinishProof, FinishFinal, Return, Publishing
  <1>16. QED
    BY <1>1, <1>2, <1>6, <1>7, <1>8, <1>9, <1>10, <1>11, <1>12, <1>13, <1>14, <1>15 DEF RunStep

-----------------------------------------------------------------------------
\* What a step of the only process has to show about the files.
FilesAfter(p) == FilesTyped' /\ FilesFit(run'[p], files', artifacts')

LEMMA FilesOutside ==
  ASSUME NEW r, NEW f, NEW a, r.pc \notin AfterScan PROVE FilesFit(r, f, a)
  BY DEF FilesFit, AfterScan, InLoop

\* A run that begins, fails or ends carries nothing.
LEMMA LeaveFiles ==
  ASSUME FilesInv, NEW p \in Publishers, files' = files, run'[p].pc \notin AfterScan
  PROVE  FilesAfter(p)
  BY FilesOutside DEF FilesInv, FilesTyped, FilesAfter

LEMMA JumpOut ==
  ASSUME RunInv, FilesInv, NEW p \in Publishers, run[p].pc \notin Over, files' = files,
         NEW pc, pc \notin AfterScan, Jump(p, pc)
  PROVE  FilesAfter(p)
  BY JumpFields, LeaveFiles

LEMMA RaiseOut ==
  ASSUME RunInv, FilesInv, NEW p \in Publishers, files' = files, NEW how \in Over, Raise(p, how)
  PROVE  FilesAfter(p)
  BY RaiseFields, LeaveFiles DEF Over, AfterScan, InLoop

LEMMA SetUpFiles ==
  ASSUME VoiceInv, FilesInv, NEW p \in Publishers,
         \/ Begin(p) \/ Recover(p) \/ CreateJob(p) \/ RecordInput(p) \/ EnsureUnit(p)
         \/ FailStage(p) \/ Crash(p) \/ StageFails(p)
  PROVE  FilesAfter(p)
  <1>1. files' = files
    BY DEF Begin, Recover, CreateJob, RecordInput, EnsureUnit, FailStage, Crash, StageFails,
           KeepAll, objects
  <1>2. CASE Recover(p) \/ CreateJob(p) \/ RecordInput(p) \/ FailStage(p)
    <2>1. run[p].pc \notin Over
      BY <1>2 DEF Recover, CreateJob, RecordInput, FailStage, At, Over
    <2>2. \/ \E pc \in {"create", "input", "units"} : Jump(p, pc)
          \/ Raise(p, "raised")
      BY <1>2 DEF Recover, CreateJob, RecordInput, FailStage
    <2>3. QED
      BY <1>1, <2>1, <2>2, JumpOut, RaiseOut DEF VoiceInv, Over, AfterScan, InLoop
  <1>3. CASE EnsureUnit(p)
    <2>1. run'[p].pc \in {"units", "scan"}
      BY <1>3 DEF EnsureUnit, At, VoiceInv, RunInv, Fields, Over
    <2>2. QED
      BY <1>1, <2>1, LeaveFiles DEF AfterScan, InLoop
  <1>4. CASE Begin(p)
    <2>1. run'[p].pc = "recover"
      BY <1>4 DEF Begin, VoiceInv, RunInv
    <2>2. QED
      BY <1>1, <2>1, LeaveFiles DEF AfterScan, InLoop
  <1>5. CASE Crash(p)
    <2>1. run'[p].pc = "idle"
      BY <1>5 DEF Crash, VoiceInv, RunInv, NotRunning
    <2>2. QED
      BY <1>1, <2>1, LeaveFiles DEF AfterScan, InLoop
  <1>6. CASE StageFails(p)
    <2>1. run'[p].pc = "failing"
      BY <1>6 DEF StageFails, VoiceInv, RunInv, Fields, Over
    <2>2. QED
      BY <1>1, <2>1, LeaveFiles DEF AfterScan, InLoop
  <1>7. QED
    BY <1>2, <1>3, <1>4, <1>5, <1>6

\* What the scan takes over was read back.
LEMMA SoundIsThere ==
  ASSUME VoiceInv, NEW w, NEW damaged, NEW s \in Sound(w, damaged), NEW n \in NamesOf(s)
  PROVE  /\ Valid(n) /\ Owner(n) = s /\ n \in Names
         /\ artifacts[n].digest = artifacts[Document(s)].digest
         /\ Holds(files, w, n, artifacts[n].digest)
  <1>1. s \in Stages /\ s \in 1 .. s
    BY StagesAssumption DEF Sound, Readable, Stages
  <1>2. s \in Succeeded /\ ReadsBack(w, s)
    BY <1>1 DEF Sound, Readable
  <1>3. Valid(n) /\ Has(w, n, artifacts[n].digest)
    BY <1>2 DEF ReadsBack
  <1>4. artifacts[n].digest = artifacts[Document(s)].digest
    BY <1>2 DEF VoiceInv, TablesFit, RowsAreAlike, Succeeded
  <1>5. QED
    BY <1>3, <1>4 DEF Has, Holds, NamesOf

LEMMA ScanFiles ==
  ASSUME VoiceInv, FilesInv, NEW p \in Publishers, Scan(p) PROVE FilesAfter(p)
  <1>1. /\ run[p].pc = "scan" /\ UNCHANGED <<files, artifacts>> /\ FilesTyped'
        /\ run[p].stage = 1
    BY ScanForm DEF objects, store, FilesInv, FilesTyped, VoiceInv, RunFits
  <1>2. CASE Raise(p, "raised")
    BY <1>1, <1>2, RaiseOut DEF VoiceInv, Over
  <1>3. ASSUME NEW damaged, NEW calm, Resume(p, run[p].ws, damaged, calm) PROVE FilesAfter(p)
    <2> DEFINE w == run[p].ws
               pc == IF damaged = None THEN "stage" ELSE "invalidate"
               docs == ScanDocs(w, damaged)
               rows == ScanRows(w, damaged)
    <2>1. ASSUME NEW s \in Stages, docs[s] # None, NEW n \in NamesOf(s)
          PROVE  /\ artifacts[n].digest = docs[s] /\ Holds(files, w, n, docs[s])
                 /\ rows[n] = docs[s]
      <3>1. s \in Sound(w, damaged) /\ docs[s] = artifacts[Document(s)].digest
        BY <2>1 DEF ScanDocs
      <3>2. /\ Valid(n) /\ Owner(n) = s /\ n \in Names
            /\ artifacts[n].digest = docs[s] /\ Holds(files, w, n, docs[s])
        BY <2>1, <3>1, SoundIsThere
      <3>3. n \in {x \in valid_artifacts : Owner(x) \in Sound(w, damaged)}
        BY <3>1, <3>2 DEF valid_artifacts
      <3>4. rows[n] = artifacts[n].digest
        BY <3>2, <3>3 DEF Rows, ScanRows
      <3>5. QED
        BY <3>2, <3>4
    <2>2. pc \in {"stage", "invalidate"}
      OBVIOUS
    <2>3. /\ run'[p].pc = pc /\ run'[p].docs = docs /\ run'[p].rows = rows
          /\ run'[p].stage = 1 /\ run'[p].ws = w
      BY <1>1, <1>3, ResumeFields DEF VoiceInv
    <2> HIDE DEF pc, docs, rows
    <2>4. \A s \in Stages : ~(s < 1)
      BY DEF Stages
    <2>5. FilesFit(run'[p], files, artifacts)
      BY <2>1, <2>2, <2>3, <2>4 DEF FilesFit, InLoop
    <2>6. QED
      BY <1>1, <2>5 DEF FilesAfter
  <1>4. QED
    BY <1>2, <1>3, ScanForm

LEMMA InvalidateFiles ==
  ASSUME VoiceInv, FilesInv, NEW p \in Publishers, FilesFit(run[p], files, artifacts), Invalidate(p)
  PROVE  FilesAfter(p)
  <1>1. /\ run[p].pc = "invalidate" /\ Jump(p, "fresh") /\ apply_invalidation({run[p].damaged})
        /\ files' = files /\ FilesTyped'
    BY DEF Invalidate, At, KeepAll, objects, FilesInv, FilesTyped
  <1>2. run[p].damaged \in Stages /\ run[p].stage = 1
    BY <1>1 DEF VoiceInv, RunFits
  <1>3. \A n \in Names : artifacts'[n].digest = artifacts[n].digest
    BY <1>1, <1>2, InvalidateTables DEF VoiceInv
  <1>4. /\ run'[p].pc = "fresh" /\ run'[p].stage = run[p].stage /\ run'[p].docs = run[p].docs
        /\ run'[p].rows = run[p].rows /\ run'[p].ws = run[p].ws
    BY <1>1, JumpFields DEF VoiceInv, Over
  <1>5. \A s \in Stages : NamesOf(s) \subseteq Names
    BY DEF NamesOf
  <1>6. FilesFit(run'[p], files', artifacts')
    BY <1>1, <1>2, <1>3, <1>4, <1>5 DEF FilesFit, AfterScan, InLoop, Ahead
  <1>7. QED
    BY <1>1, <1>6 DEF FilesAfter

LEMMA FreshFiles ==
  ASSUME VoiceInv, FilesInv, NEW p \in Publishers, FilesFit(run[p], files, artifacts), CheckFresh(p)
  PROVE  FilesAfter(p)
  <1>1. /\ run[p].pc = "fresh" /\ UNCHANGED <<files, artifacts>> /\ FilesTyped'
        /\ run[p].stage = 1
    BY DEF CheckFresh, At, KeepAll, KeepStore, objects, store, FilesInv, FilesTyped, VoiceInv, RunFits
  <1>2. CASE Raise(p, "fresh_required")
    BY <1>1, <1>2, RaiseOut DEF VoiceInv, Over
  <1>3. CASE Jump(p, "copy") /\ \A n \in Names : files[run[p].call.fresh][n] = None
    <2>1. /\ run'[p].pc = "copy" /\ run'[p].stage = 1 /\ run'[p].docs = run[p].docs
          /\ run'[p].rows = run[p].rows /\ run'[p].ws = run[p].ws /\ run'[p].call = run[p].call
      BY <1>1, <1>3, JumpFields DEF VoiceInv, Over
    <2>2. FilesFit(run'[p], files, artifacts)
      BY <1>1, <1>3, <2>1 DEF FilesFit, AfterScan, InLoop, Ahead
    <2>3. QED
      BY <1>1, <2>2 DEF FilesAfter
  <1>4. QED
    BY <1>2, <1>3 DEF CheckFresh

LEMMA CopyFiles ==
  ASSUME VoiceInv, FilesInv, NEW p \in Publishers, FilesFit(run[p], files, artifacts),
         CopyUpstream(p)
  PROVE  FilesAfter(p)
  <1> DEFINE from == run[p].ws
             to == run[p].call.fresh
             todo == {n \in Names : run[p].rows[n] # None /\ files[to][n] = None}
  <1>1. run[p].pc = "copy" /\ artifacts' = artifacts /\ run[p].stage = 1
    BY DEF CopyUpstream, At, KeepStore, store, VoiceInv, RunFits
  <1>2. from \in Workspaces /\ to \in Workspaces /\ to # from
    BY <1>1 DEF FilesInv, RunTyped, Over
  <1>3. \A s \in Stages : run[p].docs[s] # None => \A n \in NamesOf(s) :
           /\ artifacts[n].digest = run[p].docs[s] /\ Holds(files, from, n, run[p].docs[s])
           /\ run[p].rows[n] = run[p].docs[s]
    BY <1>1 DEF FilesFit, AfterScan, Ahead, Stages
  <1>4. \A n \in Names : files[to][n] # None => Holds(files, to, n, run[p].rows[n])
    BY <1>1 DEF FilesFit
  <1>5. \A s \in Stages : NamesOf(s) \subseteq Names
    BY DEF NamesOf
  <1>6. \A s \in Stages : ~(s < 1)
    BY DEF Stages
  <1>7. CASE /\ todo = {} /\ UNCHANGED objects
             /\ run' = [run EXCEPT ![p].pc = "stage", ![p].ws = to]
    <2>1. /\ run'[p].pc = "stage" /\ run'[p].ws = to /\ run'[p].stage = 1
          /\ run'[p].docs = run[p].docs
      BY <1>1, <1>7 DEF VoiceInv, RunInv, Fields, Over
    <2>2. ASSUME NEW s \in Stages, run[p].docs[s] # None, NEW n \in NamesOf(s)
          PROVE  artifacts[n].digest = run[p].docs[s] /\ Holds(files, to, n, run[p].docs[s])
      <3>1. n \in Names /\ n \notin todo
        BY <1>5, <1>7, <2>2
      <3>2. run[p].rows[n] = run[p].docs[s] /\ artifacts[n].digest = run[p].docs[s]
        BY <1>3, <2>2
      <3>3. files[to][n] # None
        BY <2>2, <3>1, <3>2
      <3>4. QED
        BY <1>4, <3>1, <3>2, <3>3
    <2>3. FilesFit(run'[p], files, artifacts)
      BY <1>6, <2>1, <2>2 DEF FilesFit, InLoop
    <2>4. QED
      BY <1>1, <1>7, <2>3 DEF FilesAfter, FilesInv, FilesTyped, objects
  <1>8. CASE Raise(p, "fresh_required") /\ UNCHANGED objects
    BY <1>8, RaiseOut DEF VoiceInv, Over, objects
  <1>9. ASSUME NEW n \in Names, Write(to, n, run[p].rows[n]), UNCHANGED run PROVE FilesAfter(p)
    <2>1. /\ FilesTyped' /\ Holds(files', to, n, run[p].rows[n])
          /\ \A v \in Workspaces, m \in Names : v # to \/ m # n => files'[v][m] = files[v][m]
      BY <1>2, <1>9, WriteTyped DEF FilesInv
    <2>2. \A m \in Names : files'[to][m] # None => Holds(files', to, m, run[p].rows[m])
      BY <1>2, <1>4, <2>1 DEF Holds
    <2>3. \A m \in Names : \A c : Holds(files, from, m, c) => Holds(files', from, m, c)
      BY <1>2, <2>1 DEF Holds
    <2>4. FilesFit(run[p], files', artifacts)
      BY <1>1, <1>3, <1>5, <2>2, <2>3 DEF FilesFit, InLoop
    <2>5. QED
      BY <1>1, <1>9, <2>1, <2>4 DEF FilesAfter
  <1>10. QED
    BY <1>7, <1>8, <1>9 DEF CopyUpstream

\* A step that writes nothing and goes on in the loop.
LEMMA GoOnFiles ==
  ASSUME FilesInv, NEW p \in Publishers, FilesFit(run[p], files, artifacts),
         UNCHANGED <<files, artifacts>>, run[p].pc \in InLoop,
         run'[p].pc \in InLoop \ {"stage", "commit"},
         run'[p].stage = run[p].stage, run'[p].docs = run[p].docs, run'[p].ws = run[p].ws,
         run'[p].pc = "document" => run[p].stage \notin Sided
  PROVE  FilesAfter(p)
  <1>1. FilesFit(run'[p], files, artifacts)
    BY DEF FilesFit, AfterScan, InLoop, Ahead
  <1>2. QED
    BY <1>1 DEF FilesAfter, FilesInv, FilesTyped

LEMMA StartFiles ==
  ASSUME VoiceInv, FilesInv, NEW p \in Publishers, FilesFit(run[p], files, artifacts),
         StartStage(p)
  PROVE  FilesAfter(p)
  <1> DEFINE s == run[p].stage
  <1>1. run[p].pc = "stage" /\ s \in Nat \ {0} /\ UNCHANGED files
    BY DEF StartStage, At, VoiceInv, RunInv, KeepAll, objects
  <1>2. artifacts' = artifacts
    BY DEF StartStage, KeepStore, store, start_work_unit
  <1>3. CASE Raise(p, "raised")
    BY <1>1, <1>3, RaiseOut DEF VoiceInv, Over
  <1>4. ASSUME NEW pc \in {"finish", "prepare"}, Jump(p, pc) PROVE FilesAfter(p)
    <2>1. /\ run'[p].pc = pc /\ run'[p].stage = s /\ run'[p].docs = run[p].docs
          /\ run'[p].ws = run[p].ws
      BY <1>1, <1>4, JumpFields DEF VoiceInv, Over
    <2>2. QED
      BY <1>1, <1>2, <2>1, GoOnFiles DEF InLoop
  <1>5. CASE /\ s <= StageCount /\ run[p].docs[s] # None
             /\ run' = [run EXCEPT ![p].stage = s + 1]
    <2>1. /\ run'[p].pc = "stage" /\ run'[p].stage = s + 1 /\ run'[p].docs = run[p].docs
          /\ run'[p].ws = run[p].ws
      BY <1>1, <1>5 DEF VoiceInv, RunInv, Fields, Over
    <2>2. s \in Stages
      BY <1>1, <1>5, StagesAssumption DEF Stages
    <2>3. \A n \in NamesOf(s) : Holds(files, run[p].ws, n, artifacts[n].digest)
      BY <1>1, <1>5, <2>2 DEF FilesFit, AfterScan, InLoop, Ahead
    <2>4. \A v \in Stages : v < s + 1 => v < s \/ v = s
      BY <2>2 DEF Stages
    <2>5. \A v \in Stages : s + 1 < v \/ s + 1 = v => s < v
      BY <2>2 DEF Stages
    <2>6. FilesFit(run'[p], files, artifacts)
      BY <1>1, <2>1, <2>2, <2>3, <2>4, <2>5 DEF FilesFit, AfterScan, InLoop, Ahead
    <2>7. QED
      BY <1>1, <1>2, <2>6 DEF FilesAfter, FilesInv, FilesTyped
  <1>6. QED
    BY <1>1, <1>3, <1>4, <1>5, StagesAssumption DEF StartStage

LEMMA PrepareFiles ==
  ASSUME VoiceInv, FilesInv, NEW p \in Publishers, FilesFit(run[p], files, artifacts),
         Prepare(p) \/ PrepareBackup(p) \/ Proof(p)
  PROVE  FilesAfter(p)
  <1>1. run[p].pc \in {"prepare", "proof"} /\ UNCHANGED <<files, artifacts>>
    BY DEF Prepare, PrepareBackup, Proof, At, KeepStore, KeepAll, store, objects
  <1>2. CASE Jump(p, "failing")
    BY <1>1, <1>2, JumpOut DEF VoiceInv, Over, AfterScan, InLoop
  <1>3. CASE Jump(p, "proof")
    <2>1. /\ run'[p].pc = "proof" /\ run'[p].stage = run[p].stage
          /\ run'[p].docs = run[p].docs /\ run'[p].ws = run[p].ws
      BY <1>1, <1>3, JumpFields DEF VoiceInv, Over
    <2>2. QED
      BY <1>1, <2>1, GoOnFiles DEF InLoop
  <1>4. ASSUME NEW made, NEW pc \in {"side", "document"},
               pc = "document" => run[p].stage \notin Sided,
               run' = [run EXCEPT ![p].made = made, ![p].pc = pc]
        PROVE  FilesAfter(p)
    <2>1. /\ run'[p].pc = pc /\ run'[p].stage = run[p].stage
          /\ run'[p].docs = run[p].docs /\ run'[p].ws = run[p].ws
      BY <1>1, <1>4 DEF VoiceInv, RunInv, Fields, Over
    <2>2. QED
      BY <1>1, <1>4, <2>1, GoOnFiles DEF InLoop
  <1>5. CASE Prepare(p)
    BY <1>2, <1>4, <1>5 DEF Prepare
  <1>6. run[p].stage = BACKUP => run[p].stage \notin Sided
    BY SliceAssumption, StagesAssumption DEF BACKUP, PUBLISH, Stages, INGEST
  <1>7. CASE PrepareBackup(p)
    BY <1>2, <1>3, <1>4, <1>6, <1>7 DEF PrepareBackup
  <1>8. CASE Proof(p)
    <2>1. run[p].stage = BACKUP
      BY <1>8 DEF Proof, At, VoiceInv, RunFits
    <2> DEFINE made == Content(BACKUP, run[p].docs[PUBLISH].voice, pub[p].id)
    <2>2. Jump(p, "failing") \/ run' = [run EXCEPT ![p].pc = "document", ![p].made = made]
      BY <1>8 DEF Proof
    <2> HIDE DEF made
    <2>3. CASE run' = [run EXCEPT ![p].pc = "document", ![p].made = made]
      <3>1. /\ run'[p].pc = "document" /\ run'[p].stage = run[p].stage
            /\ run'[p].docs = run[p].docs /\ run'[p].ws = run[p].ws
        BY <1>1, <2>3 DEF VoiceInv, RunInv, Fields, Over
      <3>2. QED
        BY <1>1, <1>6, <2>1, <3>1, GoOnFiles DEF InLoop
    <2>4. QED
      BY <1>2, <2>2, <2>3
  <1>9. QED
    BY <1>5, <1>7, <1>8

LEMMA OwnersOfNames ==
  ASSUME NEW s \in Stages
  PROVE  /\ Document(s) \in Names /\ Owner(Document(s)) = s
         /\ s \in Sided => Side(s) \in Names
         /\ Owner(Side(s)) = s /\ Side(s) # Document(s)
         /\ \A n \in NamesOf(s) : n = Document(s) \/ (s \in Sided /\ n = Side(s))
  BY DEF Document, Side, Names, Owner, NamesOf

\* A write of the stage's own files disturbs no other stage.
LEMMA OwnWrite ==
  ASSUME VoiceInv, FilesInv, NEW p \in Publishers, FilesFit(run[p], files, artifacts),
         run[p].pc \in {"side", "document"}, run[p].stage \in Stages, artifacts' = artifacts,
         NEW n \in NamesOf(run[p].stage), Write(run[p].ws, n, run[p].made),
         NEW pc \in {"document", "commit"}, Jump(p, pc),
         pc = "document" /\ run[p].stage \in Sided => n = Side(run[p].stage),
         pc = "commit" => /\ run[p].pc = "document" /\ n = Document(run[p].stage)
  PROVE  FilesAfter(p)
  <1> DEFINE s == run[p].stage
             w == run[p].ws
             made == run[p].made
  <1>1. w \in Workspaces
    BY DEF FilesInv, RunTyped, Over
  <1>2. n \in Names /\ Owner(n) = s
    BY DEF NamesOf
  <1>3. /\ FilesTyped' /\ Holds(files', w, n, made)
        /\ \A v \in Workspaces, m \in Names : v # w \/ m # n => files'[v][m] = files[v][m]
    BY <1>1, <1>2, WriteTyped DEF FilesInv
  <1>4. /\ run'[p].pc = pc /\ run'[p].stage = s /\ run'[p].docs = run[p].docs
        /\ run'[p].ws = w /\ run'[p].made = made
    BY JumpFields DEF VoiceInv, Over
  <1>5. \A m \in Names : \A c : m # n /\ Holds(files, w, m, c) => Holds(files', w, m, c)
    BY <1>1, <1>3 DEF Holds
  <1>6. \A u \in Stages : u # s => \A m \in NamesOf(u) : m \in Names /\ m # n
    BY <1>2 DEF NamesOf
  <1>7. \A u \in Stages : u < s \/ s < u => u # s
    BY DEF Stages
  <1>8. \A u \in Stages : s < u /\ run[p].docs[u] # None => \A m \in NamesOf(u) :
            artifacts[m].digest = run[p].docs[u] /\ Holds(files', w, m, run[p].docs[u])
    BY <1>5, <1>6, <1>7 DEF FilesFit, AfterScan, InLoop, Ahead
  <1>9. \A u \in Stages : u < s => \A m \in NamesOf(u) : Holds(files', w, m, artifacts[m].digest)
    BY <1>5, <1>6, <1>7 DEF FilesFit, InLoop
  <1>10. pc = "commit" => \A m \in NamesOf(s) : Holds(files', w, m, made)
    <2> SUFFICES ASSUME pc = "commit", NEW m \in NamesOf(s) PROVE Holds(files', w, m, made)
      OBVIOUS
    <2>1. CASE m = n
      BY <2>1, <1>3
    <2>2. CASE m # n
      <3>1. m = Side(s) /\ s \in Sided /\ m \in Names
        BY <2>2, OwnersOfNames
      <3>2. Holds(files, w, m, made)
        BY <3>1 DEF FilesFit
      <3>3. QED
        BY <2>2, <3>1, <3>2, <1>5
    <2>3. QED
      BY <2>1, <2>2
  <1>11. FilesFit(run'[p], files', artifacts)
    BY <1>3, <1>4, <1>8, <1>9, <1>10 DEF FilesFit, AfterScan, InLoop, Ahead
  <1>12. QED
    BY <1>3, <1>11 DEF FilesAfter

LEMMA WriteFilesFit ==
  ASSUME VoiceInv, FilesInv, NEW p \in Publishers, FilesFit(run[p], files, artifacts),
         WriteSide(p) \/ WriteDocument(p)
  PROVE  FilesAfter(p)
  <1>1. run[p].pc \in {"side", "document"} /\ artifacts' = artifacts /\ run[p].stage \in Stages
    BY DEF WriteSide, WriteDocument, At, KeepStore, store, VoiceInv, RunInv, InOneStage
  <1>2. CASE Jump(p, "failing") /\ UNCHANGED objects
    BY <1>1, <1>2, JumpOut DEF VoiceInv, Over, AfterScan, InLoop, objects
  <1>3. CASE /\ run[p].pc = "side" /\ Jump(p, "document")
             /\ Write(run[p].ws, Side(run[p].stage), run[p].made)
    <2>1. run[p].stage \in Sided
      BY <1>3 DEF VoiceInv, RunFits
    <2>2. Side(run[p].stage) \in NamesOf(run[p].stage)
      BY <1>1, <2>1, OwnersOfNames DEF NamesOf
    <2>3. QED
      BY <1>1, <1>3, <2>2, OwnWrite
  <1>4. CASE /\ run[p].pc = "document" /\ Jump(p, "commit")
             /\ Write(run[p].ws, Document(run[p].stage), run[p].made)
    <2>1. Document(run[p].stage) \in NamesOf(run[p].stage)
      BY <1>1, DocumentIsAName
    <2>2. QED
      BY <1>1, <1>4, <2>1, OwnWrite
  <1>5. QED
    BY <1>2, <1>3, <1>4 DEF WriteSide, WriteDocument, At

LEMMA CommitFiles ==
  ASSUME VoiceInv, FilesInv, NEW p \in Publishers, FilesFit(run[p], files, artifacts), Commit(p)
  PROVE  FilesAfter(p)
  <1> DEFINE s == run[p].stage
             made == run[p].made
  <1>1. run[p].pc = "commit" /\ s \in Stages /\ files' = files /\ FilesTyped'
    BY DEF Commit, At, VoiceInv, RunInv, InOneStage, KeepAll, objects, FilesInv, FilesTyped
  <1>2. CASE Jump(p, "failing")
    BY <1>1, <1>2, JumpOut DEF VoiceInv, Over, AfterScan, InLoop
  <1>3. CASE /\ commit_artifacts(s, [n \in NamesOf(s) |-> made])
             /\ run' = [run EXCEPT ![p].docs[s] = made, ![p].stage = s + 1, ![p].pc = "stage"]
    <2>1. DOMAIN run[p].docs = Stages
      BY <1>1 DEF VoiceInv, RunFits, Over
    <2>2. /\ \A n \in Names : Owner(n) # s => artifacts'[n] = artifacts[n]
          /\ \A n \in NamesOf(s) : artifacts'[n].digest = made
      BY <1>3 DEF commit_artifacts, NamesOf
    <2>3. /\ run'[p].pc = "stage" /\ run'[p].stage = s + 1 /\ run'[p].ws = run[p].ws
          /\ run'[p].docs = [run[p].docs EXCEPT ![s] = made]
      BY <1>1, <1>3 DEF VoiceInv, RunInv, Fields, Over
    <2>4. \A u \in Stages : u # s => /\ run'[p].docs[u] = run[p].docs[u]
                                     /\ \A n \in NamesOf(u) : artifacts'[n] = artifacts[n]
      BY <2>1, <2>2, <2>3 DEF NamesOf
    <2>5. \A u \in Stages : u < s + 1 => u = s \/ (u < s /\ u # s)
      BY <1>1 DEF Stages
    <2>6. \A u \in Stages : s + 1 < u \/ s + 1 = u => s < u /\ u # s
      BY <1>1 DEF Stages
    <2>7. ASSUME NEW u \in Stages, u < s + 1, NEW n \in NamesOf(u)
          PROVE  Holds(files, run[p].ws, n, artifacts'[n].digest)
      <3>1. CASE u = s
        BY <1>1, <2>2, <2>7, <3>1 DEF FilesFit
      <3>2. CASE u < s /\ u # s
        BY <1>1, <2>4, <2>7, <3>2 DEF FilesFit, InLoop
      <3>3. QED
        BY <2>5, <2>7, <3>1, <3>2
    <2>8. ASSUME NEW u \in Stages, s < u, u # s, run'[p].docs[u] # None, NEW n \in NamesOf(u)
          PROVE  /\ artifacts'[n].digest = run'[p].docs[u]
                 /\ Holds(files, run[p].ws, n, run'[p].docs[u])
      BY <1>1, <2>4, <2>8 DEF FilesFit, AfterScan, InLoop, Ahead
    <2>9. FilesFit(run'[p], files', artifacts')
      BY <1>1, <2>3, <2>6, <2>7, <2>8 DEF FilesFit, AfterScan, InLoop, Ahead
    <2>10. QED
      BY <1>1, <2>9 DEF FilesAfter
  <1>4. QED
    BY <1>2, <1>3 DEF Commit

LEMMA EndFiles ==
  ASSUME VoiceInv, FilesInv, NEW p \in Publishers, FilesFit(run[p], files, artifacts),
         \/ FinishProof(p) \/ FinishFinal(p) \/ Return(p) \/ Publishing(p) \/ StoreFailsInRun(p)
  PROVE  FilesAfter(p)
  <1>1. run[p].pc \in {"finish", "proven", "final", "proof"}
    BY DEF FinishProof, FinishFinal, Return, Publishing, StoreFailsInRun, At
  <1>2. UNCHANGED <<files, artifacts>>
    <2>1. CASE FinishProof(p) \/ FinishFinal(p) \/ Return(p) \/ StoreFailsInRun(p)
      BY <2>1 DEF FinishProof, FinishFinal, Return, StoreFailsInRun, StoreFails, KeepStore, KeepAll,
                  store, objects
    <2>2. CASE Publishing(p)
      BY <2>2 DEF Publishing, PublishStep, Completed, Collect, Snapshot, Put, PutManifest, Record,
                  record_checkpoint, store, objects
    <2>3. QED
      BY <2>1, <2>2
  <1>3. ASSUME NEW how \in {"raised", "returned"}, Raise(p, how) PROVE FilesAfter(p)
    BY <1>2, <1>3, RaiseOut DEF VoiceInv, Over
  <1>4. ASSUME run'[p].pc \in {"finish", "proven", "final", "proof"},
               run'[p].stage = run[p].stage, run'[p].docs = run[p].docs, run'[p].ws = run[p].ws
        PROVE  FilesAfter(p)
    BY <1>1, <1>2, <1>4, GoOnFiles DEF InLoop
  <1>5. ASSUME NEW pc \in {"proven", "final"}, Jump(p, pc) PROVE FilesAfter(p)
    BY <1>1, <1>4, <1>5, JumpFields DEF VoiceInv, Over
  <1>6. CASE FinishProof(p) \/ FinishFinal(p) \/ Return(p)
    BY <1>3, <1>5, <1>6 DEF FinishProof, FinishFinal, Return
  <1>7. CASE Publishing(p)
    BY <1>1, <1>4, <1>7 DEF Publishing
  <1>8. CASE StoreFailsInRun(p)
    <2>1. /\ run'[p].pc = run[p].pc /\ run'[p].stage = run[p].stage
          /\ run'[p].docs = run[p].docs /\ run'[p].ws = run[p].ws
      BY <1>1, <1>8 DEF StoreFailsInRun, VoiceInv, RunInv, Fields, Over
    <2>2. QED
      BY <1>1, <1>4, <2>1
  <1>9. QED
    BY <1>6, <1>7, <1>8

LEMMA BudgetStep == BudgetFits /\ [SliceNext]_slice => BudgetFits' /\ (Undamaged' => Undamaged)
  <1> SUFFICES ASSUME BudgetFits, [SliceNext]_slice PROVE BudgetFits' /\ (Undamaged' => Undamaged)
    OBVIOUS
  <1>1. CASE budget' = budget
    BY <1>1 DEF BudgetFits, Undamaged
  <1>2. CASE DamageFile \/ DamageObject
    BY <1>2, SliceAssumption DEF DamageFile, DamageObject, Spend, BudgetFits, Undamaged
  <1>3. ASSUME NEW p \in Publishers,
               \/ Begin(p) \/ Crash(p) \/ StageFails(p) \/ StoreFailsInRun(p)
        PROVE  BudgetFits' /\ (Undamaged' => Undamaged)
    BY <1>3 DEF Begin, Crash, StageFails, StoreFailsInRun, Spend, BudgetFits, Undamaged
  <1>4. ASSUME NEW p \in Publishers, ScanFails(p)
        PROVE  BudgetFits' /\ (Undamaged' => Undamaged)
    BY <1>4 DEF ScanFails, BudgetFits, Undamaged
  <1>5. ASSUME NEW p \in Publishers, RunStep(p), ~Begin(p), ~ScanFails(p) PROVE budget' = budget
    BY <1>5 DEF RunStep, Recover, CreateJob, RecordInput, EnsureUnit, Scan, ScanReads, Invalidate,
       CheckFresh, CopyUpstream, StartStage, Prepare, PrepareBackup, Proof, WriteSide,
       WriteDocument, Commit, FailStage, FinishProof, FinishFinal, Return, Publishing, KeepAll
  <1>6. QED
    BY <1>1, <1>2, <1>3, <1>4, <1>5 DEF SliceNext, slice

\* The types stay, whatever the files hold.
LEMMA FilesTypedStep ==
  ASSUME VoiceInv, FilesInv, NEW p \in Publishers,
         RunStep(p) \/ Crash(p) \/ StageFails(p) \/ StoreFailsInRun(p)
  PROVE  FilesTyped'
  <1>1. CASE files' = files
    BY <1>1 DEF FilesInv, FilesTyped
  <1>2. ASSUME NEW w, NEW n, NEW content, Write(w, n, content) PROVE FilesTyped'
    BY <1>2 DEF FilesInv, FilesTyped, Write
  <1>3. CASE CopyUpstream(p) \/ WriteSide(p) \/ WriteDocument(p)
    BY <1>1, <1>2, <1>3 DEF CopyUpstream, WriteSide, WriteDocument, objects
  <1>4. CASE Publishing(p)
    BY <1>1, <1>4 DEF Publishing, PublishStep, Completed, Collect, Snapshot, Put, PutManifest,
                      Record, objects
  <1>5. CASE ~(CopyUpstream(p) \/ WriteSide(p) \/ WriteDocument(p) \/ Publishing(p))
    BY <1>1, <1>5, ScanForm DEF RunStep, Begin, Recover, CreateJob, RecordInput, EnsureUnit, Invalidate,
       CheckFresh, StartStage, Prepare, PrepareBackup, Proof, Commit, FailStage, FinishProof,
       FinishFinal, Return, KeepAll, objects, Crash, StageFails, StoreFailsInRun, StoreFails
  <1>6. QED
    BY <1>3, <1>4, <1>5

LEMMA FilesStep == VoiceInv /\ FilesInv /\ [SliceNext]_slice => FilesInv'
  <1> SUFFICES ASSUME VoiceInv, FilesInv, [SliceNext]_slice PROVE FilesInv'
    OBVIOUS
  <1>1. BudgetFits' /\ (Undamaged' => Undamaged)
    BY BudgetStep DEF FilesInv
  <1>2. CASE UNCHANGED slice
    <2>1. UNCHANGED <<files, run, artifacts>>
      BY <1>2 DEF slice, objects, store
    <2>2. QED
      BY <1>1, <2>1 DEF FilesInv, FilesTyped
  <1>3. CASE DamageFile \/ DamageObject
    <2>1. ~Undamaged'
      BY <1>3 DEF DamageFile, DamageObject, Spend, FilesInv, BudgetFits, Undamaged
    <2>2. FilesTyped'
      BY <1>3 DEF DamageFile, DamageObject, FilesInv, FilesTyped
    <2>3. run' = run
      BY <1>3 DEF DamageFile, DamageObject
    <2>4. QED
      BY <1>1, <2>1, <2>2, <2>3 DEF FilesInv
  <1>4. ASSUME NEW p \in Publishers, RunStep(p) \/ Crash(p) \/ StageFails(p) \/ StoreFailsInRun(p)
        PROVE  FilesInv'
    <2>1. \A q \in Publishers : q = p
      BY DEF VoiceInv, OneProcess
    <2>2. FilesTyped' /\ RunTyped(run'[p])
      BY <1>4, FilesTypedStep, RunTypedStep DEF VoiceInv, FilesInv
    <2>3. ASSUME Undamaged PROVE FilesAfter(p)
      <3>1. FilesFit(run[p], files, artifacts)
        BY <2>3 DEF FilesInv
      <3>2. QED
        BY <1>4, <3>1, SetUpFiles, ScanFiles, InvalidateFiles, FreshFiles, CopyFiles, StartFiles,
           PrepareFiles, WriteFilesFit, CommitFiles, EndFiles DEF RunStep
    <2>4. QED
      BY <1>1, <2>1, <2>2, <2>3 DEF FilesInv, FilesAfter
  <1>5. QED
    BY <1>2, <1>3, <1>4 DEF SliceNext

LEMMA FilesStart == SliceInit => FilesInv
  <1> SUFFICES ASSUME SliceInit PROVE FilesInv
    OBVIOUS
  <1>1. FilesTyped /\ BudgetFits
    BY SliceAssumption DEF SliceInit, FilesTyped, BudgetFits
  <1>2. \A p \in Publishers : RunTyped(run[p]) /\ FilesFit(run[p], files, artifacts)
    BY FilesOutside DEF SliceInit, NotRunning, RunTyped, Over, AfterScan, InLoop
  <1>3. QED
    BY <1>1, <1>2 DEF FilesInv

-----------------------------------------------------------------------------
\* A checkpoint with this id is recorded.
Known(recs, i) == \E rec \in recs : rec.id = i

\* A final checkpoint is of a job that is done, and its id tells the state: a stage
\* whose attempts are those of the id has the results it had then.
FinalFits(rec, u, a) ==
    rec.id.base = "final" =>
        /\ rec.id.attempts \in [Stages -> Nat]
        /\ rec.evidence.state.unit =
              [s \in Stages |-> [status |-> "SUCCEEDED", attempts |-> rec.id.attempts[s]]]
        /\ rec.evidence.state.artifacts =
              [n \in Names |-> [row |-> "valid", digest |-> rec.evidence.state.artifacts[n].digest]]
        /\ \A s \in Stages :
              /\ rec.id.attempts[s] <= u[s].attempts
              /\ rec.id.attempts[s] = u[s].attempts =>
                    /\ u[s].status \in {"SUCCEEDED", "INVALID"}
                    /\ \A n \in NamesOf(s) :
                          a[n].digest = rec.evidence.state.artifacts[n].digest

\* There is a newest generation of every checkpoint.
Repairs(recs) ==
    \E bound \in Nat : \A rec \in recs : rec.id.repair \in Nat /\ rec.id.repair <= bound

\* The proof a checkpoint document names is recorded.
ProofKnown(r, recs) ==
    /\ r.pc \in {"finish", "proven", "final"} => r.stage \in Nat
    /\ r.pc \in AfterScan /\ r.docs[BACKUP] # None => Known(recs, r.docs[BACKUP].proof)
    /\ r.pc \in InLoop /\ r.stage > StageCount => Known(recs, r.docs[BACKUP].proof)
    /\ r.pc \in {"document", "commit"} /\ r.stage = BACKUP => Known(recs, r.made.proof)

\* What a run waits for: the proof first, then the proof again, which is found, then
\* the final checkpoint of the units u and the artifacts a.
PubKnown(r, c, u, a) ==
    /\ r.pc \in Waiting => {"step", "id"} \subseteq DOMAIN c
    /\ r.pc \in {"proof", "final"} => c.id.repair \in Nat
    /\ r.pc = "proof" => c.id.base = "proof"
    /\ r.pc = "proven" => /\ c.step \in {"completed", "done", "error"}
                          /\ c.id = r.docs[BACKUP].proof
    /\ r.pc = "final" =>
          /\ c.id.base = "final" /\ c.id.attempts = [s \in Stages |-> u[s].attempts]
          /\ c.step \in {"put", "manifest", "record"} =>
                /\ "state" \in DOMAIN c.manifest
                /\ c.manifest.state.unit = u /\ c.manifest.state.artifacts = a

RecordsInv ==
    /\ Repairs(records)
    /\ \A rec \in records : FinalFits(rec, unit, artifacts)
    /\ \A p \in Publishers : /\ ProofKnown(run[p], records)
                             /\ PubKnown(run[p], pub[p], unit, artifacts)
    /\ ReturnedIsDurable

\* No operation of the database goes back in the attempts of a stage, and a result
\* is replaced in a new attempt only.
LEMMA StageMoves ==
  ASSUME StoreInv, TablesFit, [StoreNext]_store, NEW s \in Stages
  PROVE  /\ unit'[s].attempts >= unit[s].attempts
         /\ unit'[s].attempts = unit[s].attempts /\ unit[s].status \in {"SUCCEEDED", "INVALID"} =>
               /\ unit'[s].status \in {"SUCCEEDED", "INVALID"}
               /\ \A n \in NamesOf(s) : artifacts'[n].digest = artifacts[n].digest
  <1>0. unit[s].attempts \in Nat /\ unit[s].status \in Statuses
    BY DEF StoreInv, StoreTypeOK
  <1>1. CASE UNCHANGED <<unit, artifacts>>
    BY <1>0, <1>1
  <1>2. ASSUME NEW v \in Stages, put_work_unit(v) \/ start_work_unit(v) \/ fail_work_unit(v)
        PROVE  /\ unit'[s].attempts >= unit[s].attempts
               /\ unit'[s].attempts = unit[s].attempts
                  /\ unit[s].status \in {"SUCCEEDED", "INVALID"} =>
                     unit'[s].status \in {"SUCCEEDED", "INVALID"}
               /\ artifacts' = artifacts
    BY <1>0, <1>2 DEF StoreInv, StoreTypeOK, put_work_unit, CanPut, start_work_unit, CanStart,
                      fail_work_unit
  <1>3. CASE recover_stale_work
    BY <1>0, <1>3 DEF StoreInv, StoreTypeOK, recover_stale_work
  <1>4. ASSUME NEW v \in Stages, NEW rows, commit_artifacts(v, rows)
        PROVE  /\ unit'[s].attempts = unit[s].attempts
               /\ unit[s].status \in {"SUCCEEDED", "INVALID"} =>
                     /\ unit'[s] = unit[s]
                     /\ \A n \in NamesOf(s) : artifacts'[n] = artifacts[n]
    <2>1. unit' = [unit EXCEPT ![v].status = "SUCCEEDED"] /\ unit[v].status = "RUNNING"
      BY <1>4 DEF commit_artifacts, CanCommit
    <2>2. \A n \in Names : Owner(n) # v => artifacts'[n] = artifacts[n]
      BY <1>4 DEF commit_artifacts, CanCommit, NamesOf
    <2>3. unit'[s].attempts = unit[s].attempts /\ (s # v => unit'[s] = unit[s])
      BY <2>1 DEF StoreInv, StoreTypeOK
    <2>4. QED
      BY <2>1, <2>2, <2>3 DEF NamesOf
  <1>5. ASSUME NEW owners, apply_invalidation(owners)
        PROVE  /\ unit'[s].attempts = unit[s].attempts
               /\ unit'[s].status \in {unit[s].status, "INVALID"}
               /\ \A n \in NamesOf(s) : artifacts'[n].digest = artifacts[n].digest
    <2>1. /\ unit'[s].attempts = unit[s].attempts
          /\ unit'[s].status \in {unit[s].status, "INVALID"}
      BY <1>5 DEF apply_invalidation, StoreInv, StoreTypeOK
    <2>2. \A n \in Names : \/ artifacts'[n] = artifacts[n]
                           \/ artifacts'[n] = [artifacts[n] EXCEPT !.row = "invalid"]
      BY <1>5 DEF apply_invalidation
    <2>3. \A n \in Names : artifacts'[n].digest = artifacts[n].digest
      BY <2>2, RowFields DEF TablesFit
    <2>4. QED
      BY <2>1, <2>3 DEF NamesOf
  <1>6. CASE \/ UNCHANGED store
             \/ \E src, cfg : create_job(src, cfg)
             \/ \E src : record_verified_input(src)
             \/ \E i, evidence : record_checkpoint(i, evidence)
    BY <1>1, <1>6 DEF store, create_job, record_verified_input, record_checkpoint
  <1>7. QED
    BY <1>0, <1>2, <1>3, <1>4, <1>5, <1>6 DEF StoreNext

LEMMA FinalStays ==
  ASSUME StoreInv, TablesFit, [StoreNext]_store, NEW rec, FinalFits(rec, unit, artifacts)
  PROVE  FinalFits(rec, unit', artifacts')
  <1> SUFFICES ASSUME rec.id.base = "final", NEW s \in Stages
               PROVE  /\ rec.id.attempts[s] <= unit'[s].attempts
                      /\ rec.id.attempts[s] = unit'[s].attempts =>
                            /\ unit'[s].status \in {"SUCCEEDED", "INVALID"}
                            /\ \A n \in NamesOf(s) :
                                  artifacts'[n].digest = rec.evidence.state.artifacts[n].digest
    BY DEF FinalFits
  <1>1. /\ rec.id.attempts[s] \in Nat /\ rec.id.attempts[s] <= unit[s].attempts
        /\ rec.id.attempts[s] = unit[s].attempts =>
              /\ unit[s].status \in {"SUCCEEDED", "INVALID"}
              /\ \A n \in NamesOf(s) : artifacts[n].digest = rec.evidence.state.artifacts[n].digest
    BY DEF FinalFits
  <1>2. unit[s].attempts \in Nat /\ unit'[s].attempts \in Nat
    <2>1. StoreInv'
      BY StoreStep
    <2>2. QED
      BY <2>1 DEF StoreInv, StoreTypeOK
  <1>3. /\ unit'[s].attempts >= unit[s].attempts
        /\ unit'[s].attempts = unit[s].attempts /\ unit[s].status \in {"SUCCEEDED", "INVALID"} =>
              /\ unit'[s].status \in {"SUCCEEDED", "INVALID"}
              /\ \A n \in NamesOf(s) : artifacts'[n].digest = artifacts[n].digest
    BY StageMoves
  <1>4. rec.id.attempts[s] <= unit'[s].attempts
    BY <1>1, <1>2, <1>3
  <1>5. rec.id.attempts[s] = unit'[s].attempts =>
           unit'[s].attempts = unit[s].attempts /\ rec.id.attempts[s] = unit[s].attempts
    BY <1>1, <1>2, <1>3
  <1>6. QED
    BY <1>1, <1>3, <1>4, <1>5

\* The newest generation exists, so the next one keeps the base and the attempts.
LEMMA PublicationIdFits ==
  ASSUME Repairs(records), NEW b, NEW stages, NEW token
  PROVE  LET i == PublicationId(EffectiveId(b, stages, token))
         IN  /\ i.base = b /\ i.attempts = [s \in stages |-> unit[s].attempts]
             /\ i.repair \in Nat
  <1> DEFINE base == EffectiveId(b, stages, token)
             of == {rec \in records : [rec.id EXCEPT !.repair = 0] = base}
             IsNewest(rec) == \A other \in of : other.id.repair <= rec.id.repair
             newest == CHOOSE rec \in of : IsNewest(rec)
  <1>1. /\ DOMAIN base = {"base", "attempts", "token", "repair"} /\ base.base = b
        /\ base.attempts = [s \in stages |-> unit[s].attempts] /\ base.repair = 0
    BY DEF EffectiveId
  <1>2. PublicationId(base) = IF of = {} THEN base
                              ELSE IF RecordVerifies(newest) THEN newest.id
                              ELSE [newest.id EXCEPT !.repair = @ + 1]
    BY DEF PublicationId
  <1>3. \A rec \in of : rec \in records /\ [rec.id EXCEPT !.repair = 0] = base
    OBVIOUS
  <1>4. \A rec \in of : rec.id.repair \in Nat
    BY <1>3 DEF Repairs
  <1> HIDE DEF base, of
  <1>5. ASSUME of # {} PROVE newest \in of
    <2>1. PICK bound \in Nat : \A rec \in of : rec.id.repair <= bound
      BY <1>3 DEF Repairs
    <2> DEFINE bounds == {m \in Nat : \A rec \in of : rec.id.repair <= m}
    <2>2. bounds \in SUBSET Nat /\ bounds # {}
      BY <2>1
    <2>3. PICK m \in bounds : \A k \in bounds : m <= k
      BY <2>2, LeastExists
    <2>4. m \in Nat /\ \A rec \in of : rec.id.repair <= m
      BY <2>3
    <2>5. PICK rec \in of : rec.id.repair = m
      <3> SUFFICES ASSUME \A rec \in of : rec.id.repair # m PROVE FALSE
        OBVIOUS
      <3>1. m # 0
        BY <1>4, <1>5, <2>4
      <3>2. m - 1 \in Nat /\ \A rec \in of : rec.id.repair <= m - 1
        BY <1>4, <2>4, <3>1
      <3>3. m - 1 \in bounds
        BY <3>2
      <3>4. QED
        BY <2>3, <2>4, <3>3
    <2>6. IsNewest(rec)
      BY <2>4, <2>5
    <2>7. QED
      BY <2>6
  <1>6. ASSUME of # {}
        PROVE  /\ DOMAIN newest.id = DOMAIN base /\ newest.id.base = b
               /\ newest.id.attempts = base.attempts /\ newest.id.repair \in Nat
    <2>1. newest \in of
      BY <1>5, <1>6
    <2> HIDE DEF newest
    <2>2. [newest.id EXCEPT !.repair = 0] = base /\ newest.id.repair \in Nat
      BY <1>3, <1>4, <2>1
    <2>3. DOMAIN newest.id = DOMAIN base
      BY <2>2
    <2>4. QED
      BY <1>1, <2>2, <2>3
  <1> HIDE DEF newest
  <1> DEFINE i == PublicationId(base)
  <1>7. i.base = b /\ i.attempts = base.attempts /\ i.repair \in Nat
    <2>1. CASE of = {}
      BY <1>1, <1>2, <2>1
    <2>2. CASE of # {} /\ RecordVerifies(newest)
      BY <1>2, <1>6, <2>2
    <2>3. CASE of # {} /\ ~RecordVerifies(newest)
      <3>1. i = [newest.id EXCEPT !.repair = @ + 1]
        BY <1>2, <2>3
      <3>2. QED
        BY <1>1, <1>6, <2>3, <3>1
    <2>4. QED
      BY <2>1, <2>2, <2>3
  <1>8. QED
    BY <1>1, <1>7 DEF base

-----------------------------------------------------------------------------
\* What a step of the only process has to show about the records.
KnownAfter(p) == ProofKnown(run'[p], records') /\ PubKnown(run'[p], pub'[p], unit', artifacts')

LEMMA KnownOutside ==
  ASSUME NEW r, NEW recs, NEW c, NEW u, NEW a, r.pc \notin AfterScan
  PROVE  ProofKnown(r, recs) /\ PubKnown(r, c, u, a)
  BY DEF ProofKnown, PubKnown, AfterScan, InLoop, Waiting

\* The run goes on with what it carries, and waits for no publication.
LEMMA KnownGoesOn ==
  ASSUME VoiceInv, RecordsInv, NEW p \in Publishers, records \subseteq records',
         run[p].pc \in AfterScan, run'[p].pc \notin Waiting,
         run'[p].docs = run[p].docs, run'[p].stage = run[p].stage,
         run'[p].pc = "finish" => run[p].stage \in Nat,
         run'[p].pc \in {"document", "commit"} /\ run[p].stage = BACKUP =>
             Known(records', run'[p].made.proof)
  PROVE  KnownAfter(p)
  <1>1. ProofKnown(run[p], records)
    BY DEF RecordsInv
  <1>2. run[p].pc \notin InLoop => ~(run[p].stage > StageCount)
    BY StagesAssumption DEF VoiceInv, RunFits, AfterScan
  <1>3. \A i : Known(records, i) => Known(records', i)
    BY DEF Known
  <1>4. ProofKnown(run'[p], records')
    BY <1>1, <1>2, <1>3 DEF ProofKnown, AfterScan, Waiting
  <1>5. PubKnown(run'[p], pub'[p], unit', artifacts')
    BY DEF PubKnown, Waiting
  <1>6. QED
    BY <1>4, <1>5 DEF KnownAfter

\* The run begins to wait, or goes on waiting.
LEMMA KnownWaits ==
  ASSUME VoiceInv, RecordsInv, NEW p \in Publishers, records \subseteq records',
         run[p].pc \in InLoop, run'[p].pc \in Waiting,
         run'[p].docs = run[p].docs, run'[p].stage = run[p].stage,
         run[p].pc \in {"finish", "proven", "final"} \/ run'[p].pc = "proof"
  PROVE  ProofKnown(run'[p], records')
  <1>1. ProofKnown(run[p], records)
    BY DEF RecordsInv
  <1>2. \A i : Known(records, i) => Known(records', i)
    BY DEF Known
  <1>3. QED
    BY <1>1, <1>2 DEF ProofKnown, AfterScan, Waiting, InLoop

LEMMA JumpKnown ==
  ASSUME VoiceInv, RecordsInv, NEW p \in Publishers, records \subseteq records',
         run[p].pc \notin Over, NEW pc, pc \notin AfterScan, Jump(p, pc)
  PROVE  KnownAfter(p)
  BY JumpFields, KnownOutside DEF VoiceInv, KnownAfter

LEMMA RaiseKnown ==
  ASSUME VoiceInv, NEW p \in Publishers, NEW how \in Over, Raise(p, how)
  PROVE  KnownAfter(p)
  BY RaiseFields, KnownOutside DEF VoiceInv, KnownAfter, Over, AfterScan, InLoop

LEMMA SetUpKnown ==
  ASSUME VoiceInv, RecordsInv, NEW p \in Publishers, records \subseteq records',
         \/ Begin(p) \/ Recover(p) \/ CreateJob(p) \/ RecordInput(p) \/ EnsureUnit(p)
         \/ FailStage(p) \/ Crash(p) \/ StageFails(p)
  PROVE  KnownAfter(p)
  <1>2. CASE Recover(p) \/ CreateJob(p) \/ RecordInput(p) \/ FailStage(p)
    <2>1. run[p].pc \notin Over
      BY <1>2 DEF Recover, CreateJob, RecordInput, FailStage, At, Over
    <2>2. \/ \E pc \in {"create", "input", "units"} : Jump(p, pc)
          \/ Raise(p, "raised")
      BY <1>2 DEF Recover, CreateJob, RecordInput, FailStage
    <2>3. QED
      BY <2>1, <2>2, JumpKnown, RaiseKnown DEF Over, AfterScan, InLoop
  <1>3. CASE EnsureUnit(p)
    <2>1. run'[p].pc \in {"units", "scan"}
      BY <1>3 DEF EnsureUnit, At, VoiceInv, RunInv, Fields, Over
    <2>2. QED
      BY <2>1, KnownOutside DEF KnownAfter, AfterScan, InLoop
  <1>4. CASE Begin(p)
    <2>1. run'[p].pc = "recover"
      BY <1>4 DEF Begin, VoiceInv, RunInv
    <2>2. QED
      BY <2>1, KnownOutside DEF KnownAfter, AfterScan, InLoop
  <1>5. CASE Crash(p)
    <2>1. run'[p].pc = "idle"
      BY <1>5 DEF Crash, VoiceInv, RunInv, NotRunning
    <2>2. QED
      BY <2>1, KnownOutside DEF KnownAfter, AfterScan, InLoop
  <1>6. CASE StageFails(p)
    <2>1. run'[p].pc = "failing"
      BY <1>6 DEF StageFails, VoiceInv, RunInv, Fields, Over
    <2>2. QED
      BY <2>1, KnownOutside DEF KnownAfter, AfterScan, InLoop
  <1>7. QED
    BY <1>2, <1>3, <1>4, <1>5, <1>6

\* The scan takes a checkpoint document over only when its proof is recorded.
LEMMA ScanKnown ==
  ASSUME VoiceInv, RecordsInv, NEW p \in Publishers, records' = records, Scan(p)
  PROVE  KnownAfter(p)
  <1>1. run[p].pc = "scan" /\ run[p].stage = 1
    BY ScanForm DEF VoiceInv, RunFits
  <1>2. CASE Raise(p, "raised")
    BY <1>1, <1>2, RaiseKnown DEF Over
  <1>3. ASSUME NEW damaged, NEW calm, Resume(p, run[p].ws, damaged, calm) PROVE KnownAfter(p)
    <2> DEFINE w == run[p].ws
               pc == IF damaged = None THEN "stage" ELSE "invalidate"
               docs == ScanDocs(w, damaged)
    <2>1. ASSUME docs[BACKUP] # None PROVE Known(records, docs[BACKUP].proof)
      <3>1. BACKUP \in Stages
        BY StagesAssumption DEF BACKUP, Stages
      <3>2. BACKUP \in Sound(w, damaged) /\ docs[BACKUP] = artifacts[Document(BACKUP)].digest
        BY <2>1, <3>1 DEF ScanDocs
      <3>3. ReadsBack(w, BACKUP)
        BY <3>1, <3>2, StagesAssumption DEF Sound, Readable, Stages
      <3>4. \E rec \in RecordsOf(artifacts[Document(BACKUP)].digest.proof) : RecordVerifies(rec)
        BY <3>3 DEF ReadsBack
      <3>5. QED
        BY <3>2, <3>4 DEF RecordsOf, Known
    <2>2. pc \in {"stage", "invalidate"}
      OBVIOUS
    <2>3. run'[p].pc = pc /\ run'[p].docs = docs /\ run'[p].stage = 1
      BY <1>1, <1>3, ResumeFields DEF VoiceInv
    <2> HIDE DEF pc, docs
    <2>4. ~(1 > StageCount)
      BY StagesAssumption
    <2>5. ProofKnown(run'[p], records')
      BY <2>1, <2>2, <2>3, <2>4 DEF ProofKnown
    <2>6. PubKnown(run'[p], pub'[p], unit', artifacts')
      BY <2>2, <2>3 DEF PubKnown, Waiting
    <2>7. QED
      BY <2>5, <2>6 DEF KnownAfter
  <1>4. QED
    BY <1>2, <1>3, ScanForm

LEMMA FreshKnown ==
  ASSUME VoiceInv, RecordsInv, NEW p \in Publishers, records' = records,
         Invalidate(p) \/ CheckFresh(p) \/ CopyUpstream(p)
  PROVE  KnownAfter(p)
  <1>1. run[p].pc \in {"invalidate", "fresh", "copy"}
    BY DEF Invalidate, CheckFresh, CopyUpstream, At
  <1>2. CASE Raise(p, "fresh_required")
    BY <1>2, RaiseKnown DEF Over
  <1>3. ASSUME NEW pc \in {"fresh", "copy"}, Jump(p, pc) PROVE KnownAfter(p)
    <2>1. run'[p].pc = pc /\ run'[p].stage = run[p].stage /\ run'[p].docs = run[p].docs
      BY <1>1, <1>3, JumpFields DEF VoiceInv, Over
    <2>2. QED
      BY <1>1, <2>1, KnownGoesOn DEF AfterScan, Waiting
  <1>4. CASE run' = [run EXCEPT ![p].pc = "stage", ![p].ws = run[p].call.fresh]
    <2>1. run'[p].pc = "stage" /\ run'[p].stage = run[p].stage /\ run'[p].docs = run[p].docs
      BY <1>1, <1>4 DEF VoiceInv, RunInv, Fields, Over
    <2>2. QED
      BY <1>1, <2>1, KnownGoesOn DEF AfterScan, Waiting
  <1>5. CASE run' = run
    BY <1>1, <1>5, KnownGoesOn DEF AfterScan, Waiting
  <1>6. QED
    BY <1>2, <1>3, <1>4, <1>5 DEF Invalidate, CheckFresh, CopyUpstream

LEMMA StartKnown ==
  ASSUME VoiceInv, RecordsInv, NEW p \in Publishers, records' = records, StartStage(p)
  PROVE  KnownAfter(p)
  <1> DEFINE s == run[p].stage
  <1>1. run[p].pc = "stage" /\ s \in Nat \ {0}
    BY DEF StartStage, At, VoiceInv, RunInv
  <1>2. CASE Raise(p, "raised")
    BY <1>2, RaiseKnown DEF Over
  <1>3. ASSUME NEW pc \in {"finish", "prepare"}, Jump(p, pc) PROVE KnownAfter(p)
    <2>1. run'[p].pc = pc /\ run'[p].stage = s /\ run'[p].docs = run[p].docs
      BY <1>1, <1>3, JumpFields DEF VoiceInv, Over
    <2>2. QED
      BY <1>1, <2>1, KnownGoesOn DEF AfterScan, InLoop, Waiting
  <1>4. CASE /\ s <= StageCount /\ run[p].docs[s] # None
             /\ run' = [run EXCEPT ![p].stage = s + 1]
    <2>1. run'[p].pc = "stage" /\ run'[p].stage = s + 1 /\ run'[p].docs = run[p].docs
      BY <1>1, <1>4 DEF VoiceInv, RunInv, Fields, Over
    <2>2. s + 1 > StageCount => s = BACKUP
      BY <1>1, <1>4, StagesAssumption DEF BACKUP
    <2>3. ProofKnown(run'[p], records')
      BY <1>1, <1>4, <2>1, <2>2 DEF RecordsInv, ProofKnown, AfterScan, InLoop
    <2>4. PubKnown(run'[p], pub'[p], unit', artifacts')
      BY <2>1 DEF PubKnown, Waiting
    <2>5. QED
      BY <2>3, <2>4 DEF KnownAfter
  <1>5. QED
    BY <1>1, <1>2, <1>3, <1>4, StagesAssumption DEF StartStage

\* A publication begins with the id the run gives it.
LEMMA PublishFields ==
  ASSUME PubInv, NEW p \in Publishers, NEW i, NEW w, NEW at, Publish(p, i, w, at)
  PROVE  /\ {"step", "id"} \subseteq DOMAIN pub'[p]
         /\ pub'[p].step = "completed" /\ pub'[p].id = i
  BY DEF PubInv, Publish

LEMMA PrepareKnown ==
  ASSUME VoiceInv, RecordsInv, PubInv, NEW p \in Publishers, records' = records,
         Prepare(p) \/ PrepareBackup(p) \/ Proof(p)
  PROVE  KnownAfter(p)
  <1>1. run[p].pc \in {"prepare", "proof"}
    BY DEF Prepare, PrepareBackup, Proof, At
  <1>2. CASE Jump(p, "failing")
    BY <1>1, <1>2, JumpKnown DEF Over, AfterScan, InLoop
  <1>3. ASSUME NEW made, NEW pc \in {"side", "document"},
               run[p].stage = BACKUP => Known(records, made.proof),
               run' = [run EXCEPT ![p].made = made, ![p].pc = pc]
        PROVE  KnownAfter(p)
    <2>1. /\ run'[p].pc = pc /\ run'[p].stage = run[p].stage
          /\ run'[p].docs = run[p].docs /\ run'[p].made = made
      BY <1>1, <1>3 DEF VoiceInv, RunInv, Fields, Over
    <2>2. QED
      BY <1>1, <1>3, <2>1, KnownGoesOn DEF AfterScan, InLoop, Waiting
  <1>4. CASE Prepare(p)
    <2>1. run[p].stage # BACKUP
      <3>1. run[p].stage \in Stages /\ run[p].stage < BACKUP
        BY <1>4 DEF Prepare, At, VoiceInv, RunInv, InOneStage
      <3>2. QED
        BY <3>1, StagesAssumption DEF Stages, BACKUP
    <2>2. QED
      BY <1>2, <1>3, <1>4, <2>1 DEF Prepare
  <1>5. CASE PrepareBackup(p)
    <2> DEFINE there == files[run[p].ws][Document(BACKUP)]
    <2>1. \/ Jump(p, "failing")
          \/ /\ \E rec \in RecordsOf(there.content.proof) : RecordVerifies(rec)
             /\ run' = [run EXCEPT ![p].made = there.content, ![p].pc = "document"]
          \/ Publish(p, ProofId(p), run[p].ws, run[p].at) /\ Jump(p, "proof")
      BY <1>5 DEF PrepareBackup
    <2>2. CASE /\ \E rec \in RecordsOf(there.content.proof) : RecordVerifies(rec)
               /\ run' = [run EXCEPT ![p].made = there.content, ![p].pc = "document"]
      <3>1. Known(records, there.content.proof)
        BY <2>2 DEF RecordsOf, Known
      <3>2. QED
        BY <1>3, <2>2, <3>1
    <2>3. CASE Publish(p, ProofId(p), run[p].ws, run[p].at) /\ Jump(p, "proof")
      <3>1. run'[p].pc = "proof" /\ run'[p].stage = run[p].stage /\ run'[p].docs = run[p].docs
        BY <1>1, <2>3, JumpFields DEF VoiceInv, Over
      <3>2. ProofKnown(run'[p], records')
        BY <1>1, <3>1, KnownWaits DEF InLoop, Waiting
      <3>3. ProofId(p).base = "proof" /\ ProofId(p).repair \in Nat
        BY PublicationIdFits DEF ProofId, RecordsInv
      <3>4. {"step", "id"} \subseteq DOMAIN pub'[p] /\ pub'[p].id = ProofId(p)
        BY <2>3, PublishFields
      <3>5. PubKnown(run'[p], pub'[p], unit', artifacts')
        BY <3>1, <3>3, <3>4 DEF PubKnown
      <3>6. QED
        BY <3>2, <3>5 DEF KnownAfter
    <2>4. QED
      BY <1>2, <2>1, <2>2, <2>3
  <1>6. CASE Proof(p)
    <2> DEFINE made == Content(BACKUP, run[p].docs[PUBLISH].voice, pub[p].id)
    <2>1. Jump(p, "failing") \/
          (Verified(p) /\ run' = [run EXCEPT ![p].pc = "document", ![p].made = made])
      BY <1>6 DEF Proof
    <2>2. Verified(p) => Known(records, made.proof)
      BY DEF Verified, RecordsOf, Known, Content
    <2> HIDE DEF made
    <2>3. CASE Verified(p) /\ run' = [run EXCEPT ![p].pc = "document", ![p].made = made]
      <3>1. /\ run'[p].pc = "document" /\ run'[p].stage = run[p].stage
            /\ run'[p].docs = run[p].docs /\ run'[p].made = made
        BY <1>1, <2>3 DEF VoiceInv, RunInv, Fields, Over
      <3>2. QED
        BY <1>1, <2>2, <2>3, <3>1, KnownGoesOn DEF AfterScan, InLoop, Waiting
    <2>4. QED
      BY <1>2, <2>1, <2>3
  <1>7. QED
    BY <1>4, <1>5, <1>6

LEMMA WriteKnown ==
  ASSUME VoiceInv, RecordsInv, NEW p \in Publishers, records' = records,
         WriteSide(p) \/ WriteDocument(p)
  PROVE  KnownAfter(p)
  <1>1. run[p].pc \in {"side", "document"}
    BY DEF WriteSide, WriteDocument, At
  <1>2. CASE Jump(p, "failing")
    BY <1>1, <1>2, JumpKnown DEF Over, AfterScan, InLoop
  <1>3. ASSUME NEW pc \in {"document", "commit"}, Jump(p, pc),
               run[p].stage = BACKUP => run[p].pc = "document"
        PROVE  KnownAfter(p)
    <2>1. /\ run'[p].pc = pc /\ run'[p].stage = run[p].stage
          /\ run'[p].docs = run[p].docs /\ run'[p].made = run[p].made
      BY <1>1, <1>3, JumpFields DEF VoiceInv, Over
    <2>2. run[p].stage = BACKUP => Known(records', run[p].made.proof)
      BY <1>3 DEF RecordsInv, ProofKnown
    <2>3. QED
      BY <1>1, <2>1, <2>2, KnownGoesOn DEF AfterScan, InLoop, Waiting
  <1>4. CASE WriteSide(p)
    <2>1. run[p].stage \in Sided
      BY <1>4 DEF WriteSide, At, VoiceInv, RunFits
    <2>2. run[p].stage # BACKUP
      BY <2>1, SliceAssumption, StagesAssumption DEF BACKUP, PUBLISH, Stages, INGEST
    <2>3. QED
      BY <1>2, <1>3, <1>4, <2>2 DEF WriteSide
  <1>5. CASE WriteDocument(p)
    BY <1>2, <1>3, <1>5 DEF WriteDocument, At
  <1>6. QED
    BY <1>4, <1>5

LEMMA CommitKnown ==
  ASSUME VoiceInv, RecordsInv, NEW p \in Publishers, records' = records, Commit(p)
  PROVE  KnownAfter(p)
  <1> DEFINE s == run[p].stage
             made == run[p].made
  <1>1. run[p].pc = "commit" /\ s \in Stages
    BY DEF Commit, At, VoiceInv, RunInv, InOneStage
  <1>2. CASE Jump(p, "failing")
    BY <1>1, <1>2, JumpKnown DEF Over, AfterScan, InLoop
  <1>3. CASE run' = [run EXCEPT ![p].docs[s] = made, ![p].stage = s + 1, ![p].pc = "stage"]
    <2>1. DOMAIN run[p].docs = Stages
      BY <1>1 DEF VoiceInv, RunFits, Over
    <2>2. /\ run'[p].pc = "stage" /\ run'[p].stage = s + 1
          /\ run'[p].docs = [run[p].docs EXCEPT ![s] = made]
      BY <1>1, <1>3 DEF VoiceInv, RunInv, Fields, Over
    <2>3. BACKUP \in Stages /\ (s + 1 > StageCount => s = BACKUP)
      BY <1>1, StagesAssumption DEF BACKUP, Stages
    <2>4. /\ s = BACKUP => run'[p].docs[BACKUP] = made /\ Known(records, made.proof)
          /\ s # BACKUP => run'[p].docs[BACKUP] = run[p].docs[BACKUP]
      BY <1>1, <2>1, <2>2, <2>3 DEF RecordsInv, ProofKnown
    <2>5. run[p].docs[BACKUP] # None => Known(records, run[p].docs[BACKUP].proof)
      BY <1>1 DEF RecordsInv, ProofKnown, AfterScan, InLoop
    <2>6. ProofKnown(run'[p], records')
      BY <2>2, <2>3, <2>4, <2>5 DEF ProofKnown
    <2>7. PubKnown(run'[p], pub'[p], unit', artifacts')
      BY <2>2 DEF PubKnown, Waiting
    <2>8. QED
      BY <2>6, <2>7 DEF KnownAfter
  <1>4. QED
    BY <1>2, <1>3 DEF Commit

LEMMA EndKnown ==
  ASSUME VoiceInv, RecordsInv, PubInv, NEW p \in Publishers, records' = records, unit' = unit,
         FinishProof(p) \/ FinishFinal(p) \/ Return(p)
  PROVE  KnownAfter(p)
  <1>1. run[p].pc \in {"finish", "proven", "final"}
    BY DEF FinishProof, FinishFinal, Return, At
  <1>2. ASSUME NEW how \in {"raised", "returned"}, Raise(p, how) PROVE KnownAfter(p)
    BY <1>2, RaiseKnown DEF Over
  <1>3. ASSUME NEW pc \in {"proven", "final"}, Jump(p, pc)
        PROVE  run'[p].pc = pc /\ run'[p].docs = run[p].docs /\ ProofKnown(run'[p], records')
    <2>1. run'[p].pc = pc /\ run'[p].stage = run[p].stage /\ run'[p].docs = run[p].docs
      BY <1>1, <1>3, JumpFields DEF VoiceInv, Over
    <2>2. QED
      BY <1>1, <2>1, KnownWaits DEF InLoop, Waiting
  <1>4. CASE FinishProof(p)
    <2>1. /\ Jump(p, "proven")
          /\ Publish(p, run[p].docs[BACKUP].proof, run[p].ws, run[p].at)
      BY <1>4 DEF FinishProof
    <2>2. /\ run'[p].pc = "proven" /\ run'[p].docs = run[p].docs /\ ProofKnown(run'[p], records')
      BY <1>3, <2>1
    <2>3. /\ {"step", "id"} \subseteq DOMAIN pub'[p] /\ pub'[p].step = "completed"
          /\ pub'[p].id = run[p].docs[BACKUP].proof
      BY <2>1, PublishFields
    <2>4. PubKnown(run'[p], pub'[p], unit', artifacts')
      BY <2>2, <2>3 DEF PubKnown
    <2>5. QED
      BY <2>2, <2>4 DEF KnownAfter
  <1>5. CASE FinishFinal(p) /\ ~Raise(p, "raised")
    <2> DEFINE i == PublicationId(EffectiveId("final", Stages, None))
    <2>1. Jump(p, "final") /\ Publish(p, i, run[p].ws, run[p].at)
      BY <1>5 DEF FinishFinal
    <2>2. /\ run'[p].pc = "final" /\ ProofKnown(run'[p], records')
      BY <1>3, <2>1
    <2>3. /\ i.base = "final" /\ i.attempts = [s \in Stages |-> unit[s].attempts]
          /\ i.repair \in Nat
      BY PublicationIdFits DEF RecordsInv
    <2> HIDE DEF i
    <2>4. /\ {"step", "id"} \subseteq DOMAIN pub'[p] /\ pub'[p].step = "completed"
          /\ pub'[p].id = i
      BY <2>1, PublishFields
    <2>5. PubKnown(run'[p], pub'[p], unit', artifacts')
      BY <2>2, <2>3, <2>4 DEF PubKnown
    <2>6. QED
      BY <2>2, <2>5 DEF KnownAfter
  <1>6. CASE Return(p)
    BY <1>2, <1>6 DEF Return
  <1>7. QED
    BY <1>2, <1>4, <1>5, <1>6

\* While a run waits, the units and the artifacts stay, and so does the id.
LEMMA WaitKnown ==
  ASSUME VoiceInv, RecordsInv, PubInv, NEW p \in Publishers, records \subseteq records',
         UNCHANGED <<unit, artifacts>>, run[p].pc \in Waiting,
         run'[p].pc = run[p].pc, run'[p].docs = run[p].docs, run'[p].stage = run[p].stage,
         {"step", "id"} \subseteq DOMAIN pub'[p], pub'[p].id = pub[p].id,
         run[p].pc = "proven" => pub'[p].step \in {"completed", "done", "error"},
         run[p].pc = "final" /\ pub'[p].step \in {"put", "manifest", "record"} =>
             /\ "state" \in DOMAIN pub'[p].manifest
             /\ pub'[p].manifest.state.unit = unit
             /\ pub'[p].manifest.state.artifacts = artifacts
  PROVE  KnownAfter(p)
  <1>1. ProofKnown(run'[p], records')
    BY KnownWaits DEF InLoop, Waiting
  <1>2. PubKnown(run'[p], pub'[p], unit', artifacts')
    BY DEF RecordsInv, PubKnown, Waiting
  <1>3. QED
    BY <1>1, <1>2 DEF KnownAfter

\* A publication takes a step and keeps what it has.
LEMMA GoKnown ==
  ASSUME VoiceInv, RecordsInv, PubInv, NEW p \in Publishers, records \subseteq records',
         UNCHANGED <<unit, artifacts>>, run[p].pc \in Waiting,
         run'[p].pc = run[p].pc, run'[p].docs = run[p].docs, run'[p].stage = run[p].stage,
         NEW step \in {"collect", "record", "done", "error"}, Go(p, step),
         step = "collect" => run[p].pc # "proven",
         step = "record" => pub[p].step = "manifest"
  PROVE  KnownAfter(p)
  <1>1. {"step", "id"} \subseteq DOMAIN pub[p] /\ InOrder(remote, pub[p])
    BY DEF RecordsInv, PubKnown, PubInv
  <1>2. /\ {"step", "id"} \subseteq DOMAIN pub'[p]
        /\ pub'[p].step = step /\ pub'[p].id = pub[p].id
    BY <1>1 DEF PubInv, Go
  <1>3. step = "record" => run[p].pc # "proven" /\ pub'[p].manifest = pub[p].manifest
    BY <1>1 DEF RecordsInv, PubKnown, PubInv, Go, InOrder
  <1>4. QED
    BY <1>1, <1>2, <1>3, WaitKnown DEF RecordsInv, PubKnown

LEMMA PublishingKnown ==
  ASSUME VoiceInv, RecordsInv, PubInv, NEW p \in Publishers, records \subseteq records',
         UNCHANGED <<unit, artifacts>>, Publishing(p)
  PROVE  KnownAfter(p)
  <1>1. run[p].pc \in Waiting /\ run' = run
    BY DEF Publishing, Waiting
  <1>2. InOrder(remote, pub[p]) /\ PubKnown(run[p], pub[p], unit, artifacts)
    BY DEF RecordsInv, PubInv
  <1>3. pub[p].step \in {"collect", "snapshot", "put", "manifest", "record"} =>
            run[p].pc # "proven"
    BY <1>2 DEF PubKnown
  <1>4. CASE Completed(p)
    <2>1. run[p].pc = "proven" => RecordsOf(pub[p].id) # {}
      <3>1. SUFFICES ASSUME run[p].pc = "proven" PROVE RecordsOf(pub[p].id) # {}
        OBVIOUS
      <3>2. run[p].stage > StageCount /\ pub[p].id = run[p].docs[BACKUP].proof
        BY <1>2, <3>1 DEF VoiceInv, RunFits, PubKnown
      <3>3. Known(records, pub[p].id)
        BY <3>1, <3>2 DEF RecordsInv, ProofKnown, InLoop
      <3>4. QED
        BY <3>3 DEF Known, RecordsOf
    <2>2. PICK step \in {"collect", "done", "error"} :
             Go(p, step) /\ (step = "collect" => RecordsOf(pub[p].id) = {})
      BY <1>4 DEF Completed
    <2>3. QED
      BY <1>1, <2>1, <2>2, GoKnown
  <1>5. CASE Collect(p)
    <2>1. pub[p].step = "collect"
      BY <1>5 DEF Collect, Step
    <2>2. CASE Go(p, "error")
      BY <1>1, <2>2, GoKnown
    <2>3. ASSUME NEW rows, pub' = [pub EXCEPT ![p] = [step |-> "snapshot", id |-> pub[p].id,
                              ws |-> pub[p].ws, at |-> pub[p].at, rows |-> rows]]
          PROVE  KnownAfter(p)
      <3>1. /\ {"step", "id"} \subseteq DOMAIN pub'[p] /\ pub'[p].id = pub[p].id
            /\ pub'[p].step = "snapshot"
        BY <2>3 DEF PubInv
      <3>2. QED
        BY <1>1, <1>3, <2>1, <3>1, WaitKnown
    <2>4. QED
      BY <1>5, <2>2, <2>3 DEF Collect
  <1>6. CASE Snapshot(p)
    <2>1. pub[p].step = "snapshot"
      BY <1>6 DEF Snapshot, Step
    <2>2. /\ {"step", "id"} \subseteq DOMAIN pub'[p] /\ pub'[p].id = pub[p].id
          /\ pub'[p].step = "put" /\ pub'[p].manifest.state = StateSnapshot
          /\ "state" \in DOMAIN pub'[p].manifest
      BY <1>6 DEF Snapshot, PubInv
    <2>3. StateSnapshot.unit = unit /\ StateSnapshot.artifacts = artifacts
      BY DEF StateSnapshot
    <2>4. QED
      BY <1>1, <1>3, <2>1, <2>2, <2>3, WaitKnown
  <1>7. CASE Put(p)
    <2>1. pub[p].step = "put"
      BY <1>7 DEF Put, Step
    <2>2. PICK key \in pub[p].todo :
             \/ pub' = [pub EXCEPT ![p].todo = @ \ {key},
                                   ![p].step = IF pub[p].todo = {key} THEN "manifest" ELSE "put"]
             \/ Go(p, "error")
      BY <1>7 DEF Put
    <2>3. CASE Go(p, "error")
      BY <1>1, <2>3, GoKnown
    <2>4. CASE pub' = [pub EXCEPT ![p].todo = @ \ {key},
                                  ![p].step = IF pub[p].todo = {key} THEN "manifest" ELSE "put"]
      <3> DEFINE step == IF pub[p].todo = {key} THEN "manifest" ELSE "put"
                 todo == pub[p].todo \ {key}
      <3>1. step \in {"put", "manifest"}
        OBVIOUS
      <3>2. pub' = [pub EXCEPT ![p].todo = todo, ![p].step = step]
        BY <2>4
      <3> HIDE DEF step, todo
      <3>3. DOMAIN pub[p] = {"step", "id", "ws", "todo", "manifest"}
        BY <1>2, <2>1 DEF InOrder
      <3>4. /\ {"step", "id"} \subseteq DOMAIN pub'[p] /\ pub'[p].id = pub[p].id
            /\ pub'[p].step = step /\ pub'[p].manifest = pub[p].manifest
        BY <3>2, <3>3 DEF PubInv
      <3>5. QED
        BY <1>1, <1>2, <1>3, <2>1, <3>1, <3>4, WaitKnown DEF PubKnown
    <2>5. QED
      BY <2>2, <2>3, <2>4
  <1>8. CASE PutManifest(p)
    <2> DEFINE key == ManifestKey(pub[p].id)
    <2>1. pub[p].step = "manifest"
      BY <1>8 DEF PutManifest, Step
    <2>2. CASE Go(p, "record") \/ Go(p, "error")
      BY <1>1, <2>1, <2>2, GoKnown
    <2>3. CASE /\ [remote[key].content EXCEPT !.at = pub[p].manifest.at] = pub[p].manifest
               /\ pub' = [pub EXCEPT ![p].manifest = remote[key].content, ![p].step = "record"]
      <3> DEFINE m == remote[key].content
      <3>1. DOMAIN pub[p] = {"step", "id", "ws", "todo", "manifest"}
        BY <1>2, <2>1 DEF InOrder
      <3>2. [m EXCEPT !.at = pub[p].manifest.at] = pub[p].manifest
        BY <2>3
      <3>3. pub' = [pub EXCEPT ![p].manifest = m, ![p].step = "record"]
        BY <2>3
      <3> HIDE DEF m
      <3>4. /\ {"step", "id"} \subseteq DOMAIN pub'[p] /\ pub'[p].id = pub[p].id
            /\ pub'[p].step = "record" /\ pub'[p].manifest = m
        BY <3>1, <3>3 DEF PubInv
      <3>5. "state" \in DOMAIN pub[p].manifest =>
               "state" \in DOMAIN m /\ m.state = pub[p].manifest.state
        BY <3>2
      <3>6. QED
        BY <1>1, <1>2, <1>3, <2>1, <3>4, <3>5, WaitKnown DEF PubKnown
    <2>4. QED
      BY <1>8, <2>2, <2>3 DEF PutManifest
  <1>9. CASE Record(p)
    BY <1>1, <1>9, GoKnown DEF Record
  <1>10. QED
    BY <1>4, <1>5, <1>6, <1>7, <1>8, <1>9 DEF Publishing, PublishStep

LEMMA FailKnown ==
  ASSUME VoiceInv, RecordsInv, PubInv, NEW p \in Publishers, records' = records,
         UNCHANGED <<unit, artifacts>>, StoreFailsInRun(p)
  PROVE  KnownAfter(p)
  <1>1. run[p].pc \in Waiting /\ Go(p, "error") /\ run' = [run EXCEPT ![p].calm = FALSE]
    BY DEF StoreFailsInRun, StoreFails, Waiting
  <1>2. /\ run'[p].pc = run[p].pc /\ run'[p].docs = run[p].docs
        /\ run'[p].stage = run[p].stage
    BY <1>1 DEF VoiceInv, RunInv, Fields, Over, Waiting
  <1>3. QED
    BY <1>1, <1>2, GoKnown

\* A final checkpoint is recorded when every stage has succeeded.
LEMMA NewFinalFits ==
  ASSUME VoiceInv, RecordsInv, NEW p \in Publishers, run[p].pc \in Waiting,
         pub[p].step = "record"
  PROVE  /\ FinalFits([id |-> pub[p].id, evidence |-> pub[p].manifest], unit, artifacts)
         /\ pub[p].id.repair \in Nat
  <1> DEFINE rec == [id |-> pub[p].id, evidence |-> pub[p].manifest]
             c == pub[p]
  <1>1. PubKnown(run[p], c, unit, artifacts)
    BY DEF RecordsInv
  <1>2. run[p].pc \in {"proof", "final"} /\ c.id.repair \in Nat
    BY <1>1 DEF PubKnown, Waiting
  <1>3. CASE run[p].pc = "proof"
    BY <1>1, <1>2, <1>3 DEF PubKnown, FinalFits
  <1>4. CASE run[p].pc = "final"
    <2>1. /\ c.id.attempts = [s \in Stages |-> unit[s].attempts]
          /\ c.manifest.state.unit = unit /\ c.manifest.state.artifacts = artifacts
      BY <1>1, <1>4 DEF PubKnown
    <2>2. \A s \in Stages : unit[s].status = "SUCCEEDED"
      <3>1. run[p].stage > StageCount /\ run[p].stage \in Nat
        BY <1>4 DEF VoiceInv, RunFits, RecordsInv, ProofKnown
      <3>2. \A s \in Stages : s < run[p].stage
        BY <3>1, StagesAssumption DEF Stages
      <3>3. QED
        BY <1>4, <3>2 DEF VoiceInv, RunFits, InLoop
    <2>3. /\ \A s \in Stages : unit[s].attempts \in Nat
          /\ unit = [s \in Stages |-> [status |-> unit[s].status, attempts |-> unit[s].attempts]]
      BY DEF VoiceInv, StoreInv, StoreTypeOK
    <2>4. \A n \in Names : artifacts[n].row = "valid"
      <3>1. \A n \in Names : Owner(n) \in Stages /\ n \in NamesOf(Owner(n))
        BY StagesAssumption DEF Names, Owner, NamesOf
      <3>2. QED
        BY <2>2, <3>1 DEF VoiceInv, TablesFit, RowsAreAlike, Valid
    <2>5. artifacts = [n \in Names |-> [row |-> "valid", digest |-> artifacts[n].digest]]
      BY <2>4 DEF VoiceInv, TablesFit, RowsHaveFields
    <2>6. c.id.attempts \in [Stages -> Nat]
      BY <2>1, <2>3
    <2>7. unit = [s \in Stages |-> [status |-> "SUCCEEDED", attempts |-> c.id.attempts[s]]]
      BY <2>1, <2>2, <2>3
    <2>8. \A s \in Stages : c.id.attempts[s] = unit[s].attempts /\ c.id.attempts[s] <= unit[s].attempts
      BY <2>1, <2>3
    <2>9. rec.id = c.id /\ rec.evidence.state.unit = unit /\ rec.evidence.state.artifacts = artifacts
      BY <2>1
    <2> HIDE DEF rec
    <2>10. FinalFits(rec, unit, artifacts)
      BY <2>2, <2>5, <2>6, <2>7, <2>8, <2>9 DEF FinalFits
    <2>11. QED
      BY <1>2, <2>10 DEF rec
  <1>5. QED
    BY <1>2, <1>3, <1>4

\* Records are only added, one at a time, by the run that waits.
LEMMA RecordsStep ==
  ASSUME VoiceInv, RecordsInv, [SliceNext]_slice
  PROVE  /\ records \subseteq records' /\ Repairs(records')
         /\ \A rec \in records' : FinalFits(rec, unit', artifacts')
  <1>1. [StoreNext]_store
    BY SliceStepsTheStore DEF VoiceInv
  <1>2. \A rec \in records : FinalFits(rec, unit', artifacts')
    BY <1>1, FinalStays DEF VoiceInv, RecordsInv
  <1>3. CASE records' = records
    BY <1>2, <1>3 DEF RecordsInv
  <1>4. ASSUME NEW p \in Publishers, Publishing(p), Record(p), records' # records
        PROVE  /\ records \subseteq records' /\ Repairs(records')
               /\ \A rec \in records' : FinalFits(rec, unit', artifacts')
    <2> DEFINE new == [id |-> pub[p].id, evidence |-> pub[p].manifest]
    <2>1. /\ run[p].pc \in Waiting /\ pub[p].step = "record"
          /\ records' = records \union {new} /\ UNCHANGED <<unit, artifacts>>
      BY <1>4 DEF Publishing, Record, Step, Waiting, record_checkpoint, store
    <2>2. FinalFits(new, unit, artifacts) /\ new.id.repair \in Nat
      BY <2>1, NewFinalFits
    <2> HIDE DEF new
    <2>3. PICK bound \in Nat : \A rec \in records : rec.id.repair \in Nat /\ rec.id.repair <= bound
      BY DEF RecordsInv, Repairs
    <2>4. bound + new.id.repair \in Nat
      BY <2>2, <2>3
    <2>5. \A rec \in records' : rec.id.repair \in Nat /\ rec.id.repair <= bound + new.id.repair
      BY <2>1, <2>2, <2>3
    <2>6. Repairs(records')
      BY <2>4, <2>5 DEF Repairs
    <2>7. QED
      BY <1>2, <2>1, <2>2, <2>6
  <1>5. ASSUME ~ \E p \in Publishers : Publishing(p) /\ Record(p) PROVE records' = records
    <2>1. CASE UNCHANGED slice \/ DamageFile \/ DamageObject
      BY <2>1 DEF slice, store, DamageFile, DamageObject
    <2>2. ASSUME NEW p \in Publishers, Publishing(p) PROVE records' = records
      BY <1>5, <2>2 DEF Publishing, PublishStep, Completed, Collect, Snapshot, Put, PutManifest, store
    <2>3. ASSUME NEW p \in Publishers,
                 \/ Begin(p) \/ Recover(p) \/ CreateJob(p) \/ RecordInput(p) \/ EnsureUnit(p)
                 \/ Scan(p) \/ Invalidate(p) \/ CheckFresh(p) \/ CopyUpstream(p)
          PROVE  records' = records
      BY <2>3, ScanForm DEF Begin, Recover, CreateJob, RecordInput, EnsureUnit, Invalidate, CheckFresh,
         CopyUpstream, KeepStore, store, recover_stale_work, create_job, record_verified_input,
         put_work_unit, apply_invalidation
    <2>4. ASSUME NEW p \in Publishers,
                 \/ StartStage(p) \/ Prepare(p) \/ PrepareBackup(p) \/ Proof(p)
                 \/ WriteSide(p) \/ WriteDocument(p) \/ Commit(p) \/ FailStage(p)
                 \/ FinishProof(p) \/ FinishFinal(p) \/ Return(p)
                 \/ Crash(p) \/ StageFails(p) \/ StoreFailsInRun(p)
          PROVE  records' = records
      BY <2>4 DEF StartStage, Prepare, PrepareBackup, Proof, WriteSide, WriteDocument, Commit,
         FailStage, FinishProof, FinishFinal, Return, Crash, StageFails, StoreFailsInRun, StoreFails,
         KeepStore, store, start_work_unit, commit_artifacts, fail_work_unit
    <2>5. QED
      BY <2>1, <2>2, <2>3, <2>4 DEF SliceNext, RunStep
  <1>6. QED
    BY <1>3, <1>4, <1>5

\* Where a preparation leads.
LEMMA PreparedPlaces ==
  ASSUME VoiceInv, NEW p \in Publishers, Prepare(p) \/ PrepareBackup(p) \/ Proof(p)
  PROVE  \E pc \in {"side", "document", "failing", "proof"} :
            \/ \E made : run' = [run EXCEPT ![p].made = made, ![p].pc = pc]
            \/ Jump(p, pc)
  <1>1. DOMAIN run[p] = Fields /\ p \in DOMAIN run
    BY DEF Prepare, PrepareBackup, Proof, At, Over, VoiceInv, RunInv
  <1>2. CASE Prepare(p)
    BY <1>2 DEF Prepare
  <1>3. CASE PrepareBackup(p)
    BY <1>3 DEF PrepareBackup
  <1>4. CASE Proof(p)
    <2> DEFINE made == Content(BACKUP, run[p].docs[PUBLISH].voice, pub[p].id)
    <2>1. Jump(p, "failing") \/ run' = [run EXCEPT ![p].pc = "document", ![p].made = made]
      BY <1>4 DEF Proof
    <2>2. run' = [run EXCEPT ![p].pc = "document", ![p].made = made] =>
             run' = [run EXCEPT ![p].made = made, ![p].pc = "document"]
      BY <1>1 DEF Fields
    <2> HIDE DEF made
    <2>3. QED
      BY <2>1, <2>2
  <1>5. QED
    BY <1>2, <1>3, <1>4

\* Only Return ends a call with a result.
LEMMA NotReturned ==
  ASSUME VoiceInv, NEW p \in Publishers,
         RunStep(p) \/ Crash(p) \/ StageFails(p) \/ StoreFailsInRun(p), ~Return(p)
  PROVE  run'[p].pc # "returned"
  <1> USE DEF VoiceInv, RunInv
  <1>1. ASSUME NEW pc, pc # "returned", Jump(p, pc) \/ Raise(p, pc), run[p].pc \notin Over
        PROVE  run'[p].pc # "returned"
    BY <1>1, JumpFields, RaiseFields
  <1>2. CASE Begin(p) \/ Crash(p)
    BY <1>2 DEF Begin, Crash, NotRunning
  <1>3. CASE \/ Recover(p) \/ CreateJob(p) \/ RecordInput(p) \/ Invalidate(p) \/ CheckFresh(p)
             \/ WriteSide(p) \/ WriteDocument(p) \/ FailStage(p) \/ FinishProof(p)
             \/ FinishFinal(p)
    <2>1. run[p].pc \notin Over
      BY <1>3 DEF Recover, CreateJob, RecordInput, Invalidate, CheckFresh, WriteSide,
         WriteDocument, FailStage, FinishProof, FinishFinal, At, Over
    <2>2. \E pc \in {"create", "input", "units", "raised", "fresh", "copy", "fresh_required",
                     "document", "commit", "failing", "proven", "final"} :
             Jump(p, pc) \/ Raise(p, pc)
      BY <1>3 DEF Recover, CreateJob, RecordInput, Invalidate, CheckFresh, WriteSide,
         WriteDocument, FailStage, FinishProof, FinishFinal
    <2>3. QED
      BY <1>1, <2>1, <2>2
  <1>4. CASE EnsureUnit(p) \/ StageFails(p) \/ StoreFailsInRun(p)
    <2>1. run[p].pc \notin Over
      BY <1>4 DEF EnsureUnit, StageFails, StoreFailsInRun, At, Over
    <2>2. DOMAIN run[p] = Fields /\ p \in DOMAIN run
      BY <2>1
    <2>3. CASE EnsureUnit(p)
      BY <2>2, <2>3 DEF EnsureUnit, Fields
    <2>4. CASE StageFails(p)
      BY <2>2, <2>4 DEF StageFails, Fields
    <2>5. CASE StoreFailsInRun(p)
      BY <2>1, <2>2, <2>5 DEF StoreFailsInRun, Fields, Over
    <2>6. QED
      BY <1>4, <2>3, <2>4, <2>5
  <1>5. CASE Scan(p)
    <2>1. run[p].pc = "scan" /\ run[p].pc \notin Over
      BY <1>5, ScanForm DEF Over
    <2>2. CASE Raise(p, "raised")
      BY <1>1, <2>1, <2>2
    <2>3. ASSUME NEW damaged, NEW calm, Resume(p, run[p].ws, damaged, calm)
          PROVE  run'[p].pc # "returned"
      <3>1. RunInv
        OBVIOUS
      <3> HIDE DEF RunInv
      <3>2. QED
        BY <2>1, <2>3, <3>1, ResumeFields
    <2>4. QED
      BY <1>5, <2>2, <2>3, ScanForm
  <1>6. CASE CopyUpstream(p) \/ StartStage(p) \/ Commit(p) \/ Publishing(p)
    <2>1. run[p].pc \notin Over /\ DOMAIN run[p] = Fields
      BY <1>6 DEF CopyUpstream, StartStage, Commit, Publishing, At, Over
    <2>2. CASE CopyUpstream(p)
      BY <1>1, <2>1, <2>2 DEF CopyUpstream, Fields, Over
    <2>3. CASE StartStage(p)
      BY <1>1, <2>1, <2>3 DEF StartStage, At, Fields
    <2>4. CASE Commit(p)
      BY <1>1, <2>1, <2>4 DEF Commit, Fields
    <2>5. CASE Publishing(p)
      BY <2>5 DEF Publishing
    <2>6. QED
      BY <1>6, <2>2, <2>3, <2>4, <2>5
  <1>7. CASE Prepare(p) \/ PrepareBackup(p) \/ Proof(p)
    <2>1. run[p].pc \notin Over /\ DOMAIN run[p] = Fields
      BY <1>7 DEF Prepare, PrepareBackup, Proof, At, Over
    <2>2. \E pc \in {"side", "document", "failing", "proof"} :
             \/ \E made : run' = [run EXCEPT ![p].made = made, ![p].pc = pc]
             \/ Jump(p, pc)
      BY <1>7, PreparedPlaces
    <2>3. ASSUME NEW made, NEW pc \in {"side", "document", "failing", "proof"},
                 run' = [run EXCEPT ![p].made = made, ![p].pc = pc]
          PROVE  run'[p].pc = pc
      BY <2>1, <2>3 DEF Fields
    <2>4. QED
      BY <1>1, <2>1, <2>2, <2>3
  <1>8. QED
    BY <1>2, <1>3, <1>4, <1>5, <1>6, <1>7 DEF RunStep

\* What is returned: every stage was found or made, its files are where the run left
\* them, and the id of the final checkpoint tells the state.
LEMMA ReturnIsDurable ==
  ASSUME VoiceInv, FilesInv, RecordsInv, NEW p \in Publishers, Return(p),
         run'[p].pc = "returned"
  PROVE  /\ Succeeded = Stages
         /\ \A n \in Names : /\ Valid(n)
                             /\ Undamaged => Has(run'[p].ws, n, artifacts[n].digest)
         /\ \E rec \in RecordsOf(pub[p].id) :
               /\ rec.id.base = "final"
               /\ rec.evidence.state.unit = unit /\ rec.evidence.state.artifacts = artifacts
         /\ RecordsOf(artifacts[Document(BACKUP)].digest.proof) # {}
  <1>1. run[p].pc = "final" /\ Verified(p) /\ run'[p].ws = run[p].ws
    <2>1. run[p].pc = "final" /\ \E how \in {"returned", "raised"} :
             Raise(p, how) /\ (how = "returned" => Verified(p))
      BY DEF Return, At
    <2>2. QED
      BY <2>1, RaiseFields DEF VoiceInv
  <1>2. /\ RunFits(run[p], unit, artifacts) /\ ProofKnown(run[p], records)
        /\ PubKnown(run[p], pub[p], unit, artifacts)
    BY DEF VoiceInv, RecordsInv
  <1>3. \A s \in Stages : s < run[p].stage
    <2>1. run[p].stage > StageCount /\ run[p].stage \in Nat
      BY <1>1, <1>2 DEF RunFits, ProofKnown
    <2>2. QED
      BY <2>1, StagesAssumption DEF Stages
  <1>4. \A s \in Stages : /\ unit[s].status = "SUCCEEDED"
                          /\ run[p].docs[s] = artifacts[Document(s)].digest
    BY <1>1, <1>2, <1>3 DEF RunFits, InLoop
  <1>5. \A n \in Names : Owner(n) \in Stages /\ n \in NamesOf(Owner(n))
    BY StagesAssumption DEF Names, Owner, NamesOf
  <1>6. \A n \in Names : Valid(n)
    BY <1>4, <1>5 DEF VoiceInv, TablesFit, RowsAreAlike
  <1>7. ASSUME Undamaged, NEW n \in Names PROVE Has(run'[p].ws, n, artifacts[n].digest)
    <2>1. FilesFit(run[p], files, artifacts)
      BY <1>7 DEF FilesInv
    <2>2. Holds(files, run[p].ws, n, artifacts[n].digest)
      BY <1>1, <1>3, <1>5, <2>1 DEF FilesFit, InLoop
    <2>3. QED
      BY <1>1, <2>2 DEF Holds, Has
  <1>8. PICK rec \in records : rec.id = pub[p].id
    BY <1>1 DEF Verified, RecordsOf
  <1>9. rec.id.base = "final" /\ rec.id.attempts = [s \in Stages |-> unit[s].attempts]
    BY <1>1, <1>2, <1>8 DEF PubKnown
  <1>10. FinalFits(rec, unit, artifacts)
    BY DEF RecordsInv
  <1>11. rec.evidence.state.unit = unit
    <2>1. unit = [s \in Stages |-> [status |-> unit[s].status, attempts |-> unit[s].attempts]]
      BY DEF VoiceInv, StoreInv, StoreTypeOK
    <2>2. unit = [s \in Stages |-> [status |-> "SUCCEEDED", attempts |-> unit[s].attempts]]
      BY <1>4, <2>1
    <2>3. \A s \in Stages : rec.id.attempts[s] = unit[s].attempts
      BY <1>9
    <2>4. rec.evidence.state.unit =
              [s \in Stages |-> [status |-> "SUCCEEDED", attempts |-> rec.id.attempts[s]]]
      BY <1>9, <1>10 DEF FinalFits
    <2>5. QED
      BY <2>2, <2>3, <2>4
  <1>12. rec.evidence.state.artifacts = artifacts
    <2> DEFINE a == rec.evidence.state.artifacts
    <2>1. \A n \in Names : artifacts[n].digest = a[n].digest
      BY <1>5, <1>9, <1>10 DEF FinalFits
    <2>2. artifacts = [n \in Names |-> [row |-> "valid", digest |-> artifacts[n].digest]]
      BY <1>6 DEF Valid, VoiceInv, TablesFit, RowsHaveFields
    <2>3. a = [n \in Names |-> [row |-> "valid", digest |-> a[n].digest]]
      BY <1>9, <1>10 DEF FinalFits
    <2> HIDE DEF a
    <2>4. artifacts = a
      BY <2>1, <2>2, <2>3
    <2>5. QED
      BY <2>4 DEF a
  <1>13. RecordsOf(artifacts[Document(BACKUP)].digest.proof) # {}
    <2>1. BACKUP \in Stages
      BY StagesAssumption DEF BACKUP, Stages
    <2>2. run[p].stage > StageCount
      BY <1>1, <1>2 DEF RunFits
    <2>3. Known(records, run[p].docs[BACKUP].proof)
      BY <1>1, <1>2, <2>2 DEF ProofKnown, InLoop
    <2>4. QED
      BY <1>4, <2>1, <2>3 DEF Known, RecordsOf
  <1>14. rec \in RecordsOf(pub[p].id)
    BY <1>8 DEF RecordsOf
  <1>15. QED
    BY <1>4, <1>6, <1>7, <1>9, <1>11, <1>12, <1>13, <1>14 DEF Succeeded

LEMMA ReturnedStep ==
  ASSUME VoiceInv, FilesInv, RecordsInv, [SliceNext]_slice PROVE ReturnedIsDurable'
  <1>1. CASE UNCHANGED slice \/ DamageFile \/ DamageObject
    <2>1. UNCHANGED <<job, input, unit, artifacts, failures, records, pub, run>>
      BY <1>1 DEF slice, store, DamageFile, DamageObject
    <2>2. ASSUME Undamaged' PROVE Undamaged /\ files' = files
      <3>1. CASE UNCHANGED slice
        BY <2>2, <3>1 DEF slice, objects, Undamaged
      <3>2. ~(DamageFile \/ DamageObject)
        BY <2>2 DEF DamageFile, DamageObject, Spend, FilesInv, BudgetFits, Undamaged
      <3>3. QED
        BY <1>1, <3>1, <3>2
    <2>3. QED
      BY <2>1, <2>2 DEF RecordsInv, ReturnedIsDurable, At, Succeeded, Valid, Has, RecordsOf, Undamaged
  <1>2. ASSUME NEW p \in Publishers, RunStep(p) \/ Crash(p) \/ StageFails(p) \/ StoreFailsInRun(p)
        PROVE  ReturnedIsDurable'
    <2>1. \A q \in Publishers : q = p
      BY DEF VoiceInv, OneProcess
    <2>2. CASE run'[p].pc # "returned"
      BY <2>1, <2>2 DEF ReturnedIsDurable, At
    <2>3. CASE run'[p].pc = "returned"
      <3>1. Return(p)
        BY <1>2, <2>3, NotReturned
      <3>2. UNCHANGED <<job, input, unit, artifacts, failures, records, pub, files, budget>>
        BY <3>1 DEF Return, KeepStore, KeepAll, store, objects
      <3>3. /\ Succeeded = Stages
            /\ \A n \in Names : /\ Valid(n)
                                /\ Undamaged => Has(run'[p].ws, n, artifacts[n].digest)
            /\ \E rec \in RecordsOf(pub[p].id) :
                  /\ rec.id.base = "final"
                  /\ rec.evidence.state.unit = unit /\ rec.evidence.state.artifacts = artifacts
            /\ RecordsOf(artifacts[Document(BACKUP)].digest.proof) # {}
        BY <2>3, <3>1, ReturnIsDurable
      <3>4. QED
        BY <2>1, <3>2, <3>3 DEF ReturnedIsDurable, At, Succeeded, Valid, Has, RecordsOf, Undamaged
    <2>4. QED
      BY <2>2, <2>3
  <1>3. QED
    BY <1>1, <1>2 DEF SliceNext

LEMMA KnownStep ==
  ASSUME VoiceInv, RecordsInv, PubInv, records \subseteq records', NEW p \in Publishers,
         RunStep(p) \/ Crash(p) \/ StageFails(p) \/ StoreFailsInRun(p)
  PROVE  KnownAfter(p)
  <1>1. CASE \/ Begin(p) \/ Recover(p) \/ CreateJob(p) \/ RecordInput(p) \/ EnsureUnit(p)
             \/ FailStage(p) \/ Crash(p) \/ StageFails(p)
    BY <1>1, SetUpKnown
  <1>2. CASE \/ Scan(p) \/ Invalidate(p) \/ CheckFresh(p) \/ CopyUpstream(p) \/ StartStage(p)
    <2>1. records' = records
      BY <1>2, ScanForm DEF Invalidate, CheckFresh, CopyUpstream, StartStage, KeepStore, store,
         apply_invalidation, start_work_unit
    <2>2. QED
      BY <1>2, <2>1, ScanKnown, FreshKnown, StartKnown
  <1>3. CASE \/ Prepare(p) \/ PrepareBackup(p) \/ Proof(p) \/ WriteSide(p) \/ WriteDocument(p)
             \/ Commit(p)
    <2>1. records' = records
      BY <1>3 DEF Prepare, PrepareBackup, Proof, WriteSide, WriteDocument, Commit, KeepStore, store,
         commit_artifacts
    <2>2. QED
      BY <1>3, <2>1, PrepareKnown, WriteKnown, CommitKnown
  <1>4. CASE FinishProof(p) \/ FinishFinal(p) \/ Return(p) \/ StoreFailsInRun(p)
    <2>1. UNCHANGED <<unit, artifacts, records>>
      BY <1>4 DEF FinishProof, FinishFinal, Return, StoreFailsInRun, StoreFails, KeepStore, store
    <2>2. QED
      BY <1>4, <2>1, EndKnown, FailKnown
  <1>5. CASE Publishing(p)
    <2>1. UNCHANGED <<unit, artifacts>>
      BY <1>5 DEF Publishing, PublishStep, Completed, Collect, Snapshot, Put, PutManifest, Record,
         record_checkpoint, store
    <2>2. QED
      BY <1>5, <2>1, PublishingKnown
  <1>6. QED
    BY <1>1, <1>2, <1>3, <1>4, <1>5 DEF RunStep

LEMMA RecordsInvStep ==
  VoiceInv /\ FilesInv /\ CompleteInv /\ RecordsInv /\ [SliceNext]_slice => RecordsInv'
  <1> SUFFICES ASSUME VoiceInv, FilesInv, CompleteInv, RecordsInv, [SliceNext]_slice
               PROVE  RecordsInv'
    OBVIOUS
  <1>1. /\ records \subseteq records' /\ Repairs(records')
        /\ \A rec \in records' : FinalFits(rec, unit', artifacts')
    BY RecordsStep
  <1>2. ReturnedIsDurable'
    BY ReturnedStep
  <1>3. CASE UNCHANGED slice \/ DamageFile \/ DamageObject
    <2>1. UNCHANGED <<run, pub, unit, artifacts, records>>
      BY <1>3 DEF slice, store, DamageFile, DamageObject
    <2>2. QED
      BY <1>1, <1>2, <2>1 DEF RecordsInv
  <1>4. ASSUME NEW p \in Publishers, RunStep(p) \/ Crash(p) \/ StageFails(p) \/ StoreFailsInRun(p)
        PROVE  RecordsInv'
    <2>1. \A q \in Publishers : q = p
      BY DEF VoiceInv, OneProcess
    <2>2. KnownAfter(p)
      BY <1>1, <1>4, KnownStep DEF CompleteInv
    <2>3. QED
      BY <1>1, <1>2, <2>1, <2>2 DEF RecordsInv, KnownAfter
  <1>5. QED
    BY <1>3, <1>4 DEF SliceNext

LEMMA RecordsStart == SliceInit => RecordsInv
  <1> SUFFICES ASSUME SliceInit PROVE RecordsInv
    OBVIOUS
  <1>1. records = {} /\ \A p \in Publishers : run[p].pc = "idle"
    BY DEF SliceInit, EmptyStore, NotRunning
  <1>2. Repairs(records)
    BY <1>1 DEF Repairs
  <1>3. \A p \in Publishers : /\ ProofKnown(run[p], records)
                              /\ PubKnown(run[p], pub[p], unit, artifacts)
    BY <1>1, KnownOutside DEF AfterScan, InLoop
  <1>4. ReturnedIsDurable
    BY <1>1 DEF ReturnedIsDurable, At
  <1>5. QED
    BY <1>1, <1>2, <1>3, <1>4 DEF RecordsInv

\* With one process at work, for every number of stages, crashes, failures and damaged
\* files: what run() returns is there.  Every stage SUCCEEDED, every row has its file in
\* the workspace of the run unless somebody damaged it, and the proof and a final
\* checkpoint of just this state are recorded (run, _publish_final and
\* _checkpoint_id_for_publication of offline_slice.py).
THEOREM ReturnsAreDurable == OneProcess => (SliceSpec => []ReturnedIsDurable)
  <1>1. OneProcess /\ SliceInit => VoiceInv /\ FilesInv /\ CompleteInv /\ RecordsInv
    BY VoiceStart, FilesStart, CompleteStart, RecordsStart
  <1>2. VoiceInv /\ FilesInv /\ CompleteInv /\ RecordsInv /\ [SliceNext]_slice
           => (VoiceInv /\ FilesInv /\ CompleteInv /\ RecordsInv)'
    BY VoiceStep, FilesStep, CompleteStep, RecordsInvStep
  <1>3. RecordsInv => ReturnedIsDurable
    BY DEF RecordsInv
  <1>4. QED
    BY <1>1, <1>2, <1>3, PTL DEF SliceSpec

-----------------------------------------------------------------------------
\* An absent file is not one that nobody damaged.
NoneIsNoFile == \A content : None # Whole(content)

\* Why a run is about to invalidate: a file of its workspace that does not match its
\* row, a proof that does not verify, nothing that succeeded, or a scan that failed.
Mismatch(p) == \E n \in valid_artifacts : ~Has(run[p].ws, n, artifacts[n].digest)
Unproven == /\ Valid(Document(BACKUP))
            /\ ~ \E rec \in RecordsOf(artifacts[Document(BACKUP)].digest.proof) :
                    RecordVerifies(rec)
Culprit(p) == \/ Mismatch(p) \/ Unproven \/ ~run[p].calm
              \/ \A s \in Succeeded : s < run[p].damaged
CulpritInv == \A p \in Publishers : run[p].pc = "invalidate" => Culprit(p)

\* Where the rows fit each other, only the files and the proof can fail to read back.
LEMMA BrokenHasCulprit ==
  ASSUME VoiceInv, NEW p \in Publishers, NEW u \in Stages, u \in Succeeded,
         ~ReadsBack(run[p].ws, u)
  PROVE  Mismatch(p) \/ Unproven
  <1> DEFINE w == run[p].ws
             doc == artifacts[Document(u)].digest
  <1>1. unit[u].status = "SUCCEEDED"
    BY DEF Succeeded
  <1>2. \A n \in NamesOf(u) : n \in Names /\ Valid(n) /\ artifacts[n].digest = doc
    BY <1>1 DEF VoiceInv, TablesFit, RowsAreAlike, NamesOf
  <1>3. CASE \E n \in NamesOf(u) : ~Has(w, n, artifacts[n].digest)
    BY <1>2, <1>3 DEF Mismatch, valid_artifacts
  <1>4. CASE \A n \in NamesOf(u) : Has(w, n, artifacts[n].digest)
    <2>1. \A n \in NamesOf(u) : Valid(n) /\ Has(w, n, artifacts[n].digest)
      BY <1>2, <1>4
    <2>2. u > TTS => artifacts[Document(u - 1)].digest.voice = doc.voice
      <3> SUFFICES ASSUME u > TTS PROVE artifacts[Document(u - 1)].digest.voice = doc.voice
        OBVIOUS
      <3>1. u - 1 \in Stages /\ u - 1 < u /\ u - 1 >= TTS /\ u >= TTS
        BY SliceAssumption, StagesAssumption DEF Stages, INGEST, PUBLISH, BACKUP
      <3>2. unit[u - 1].status = "SUCCEEDED"
        BY <1>1, <3>1 DEF VoiceInv, TablesFit, InSequence
      <3>3. Document(u - 1) \in valid_artifacts /\ Document(u) \in valid_artifacts
        BY <1>1, <3>1, <3>2, DocumentIsAName
           DEF VoiceInv, TablesFit, RowsAreAlike, NamesOf, valid_artifacts
      <3>4. Owner(Document(u - 1)) = u - 1 /\ Owner(Document(u)) = u
        BY <3>1, DocumentIsAName
      <3>5. QED
        BY <3>1, <3>3, <3>4 DEF VoiceInv, TablesFit, OneVoice
    <2>3. u \in Sided => artifacts[Side(u)].digest = doc
      BY <1>2, OwnersOfNames DEF NamesOf
    <2>4. u = BACKUP /\ ~ \E rec \in RecordsOf(doc.proof) : RecordVerifies(rec)
      BY <2>1, <2>2, <2>3 DEF ReadsBack
    <2>5. Valid(Document(BACKUP))
      BY <1>2, <2>4, DocumentIsAName
    <2>6. QED
      BY <2>4, <2>5 DEF Unproven
  <1>5. QED
    BY <1>3, <1>4

LEMMA ScanFindsCulprit ==
  ASSUME VoiceInv, NEW p \in Publishers, Damage(run[p].ws) # None
  PROVE  Mismatch(p) \/ Unproven \/ \A s \in Succeeded : s < Damage(run[p].ws)
  <1> DEFINE w == run[p].ws
             d == Damage(w)
             broken == Succeeded \ Readable(w)
             invalid == {s \in Stages : unit[s].status = "INVALID"}
  <1>1. broken \in SUBSET Stages /\ invalid \in SUBSET Stages
    BY DEF Succeeded
  <1>2. d = IF broken # {} THEN FirstOf(broken)
            ELSE IF invalid # {} THEN FirstOf(invalid) ELSE None
    BY DEF Damage
  <1>3. CASE broken # {}
    <2>1. d \in Succeeded /\ d \notin Readable(w)
      BY <1>1, <1>2, <1>3, FirstIsThere
    <2>2. d \in Stages
      BY <2>1 DEF Succeeded
    <2>3. PICK u \in 1 .. d : u \notin Succeeded \/ ~ReadsBack(w, u)
      BY <2>1, <2>2 DEF Readable
    <2>4. u \in Stages /\ (u < d \/ u = d)
      BY <2>2, StagesAssumption DEF Stages
    <2>5. u \in Succeeded
      BY <2>1, <2>2, <2>4 DEF VoiceInv, TablesFit, InSequence, Succeeded
    <2>6. QED
      BY <2>3, <2>4, <2>5, BrokenHasCulprit
  <1>4. CASE broken = {} /\ invalid # {}
    <2>1. d \in invalid
      BY <1>1, <1>2, <1>4, FirstIsThere
    <2>2. d \in Stages /\ unit[d].status = "INVALID"
      BY <2>1
    <2>3. ASSUME NEW s \in Succeeded PROVE s < d
      <3>1. s \in Stages /\ unit[s].status = "SUCCEEDED"
        BY DEF Succeeded
      <3>2. ~(d < s) /\ d # s
        BY <2>2, <3>1 DEF VoiceInv, TablesFit, InSequence
      <3>3. QED
        BY <2>2, <3>1, <3>2 DEF Stages
    <2>4. QED
      BY <2>3
  <1>5. QED
    BY <1>2, <1>3, <1>4

\* Damage does not make a file match or a checkpoint verify.
LEMMA DamageKeepsCulprit ==
  ASSUME NoneIsNoFile, FilesInv, PubInv, CulpritInv, DamageFile \/ DamageObject
  PROVE  CulpritInv'
  <1>1. UNCHANGED <<store, run>>
    BY DEF DamageFile, DamageObject
  <1>2. UNCHANGED <<unit, artifacts, records>>
    BY <1>1 DEF store
  <1>3. \A w \in Workspaces, n \in Names : \A c : Has(w, n, c)' => Has(w, n, c)
    <2>1. CASE DamageObject
      BY <2>1 DEF DamageObject, Has
    <2>2. CASE DamageFile
      <3>1. PICK w \in Workspaces, n \in Names :
               \E left \in {None, [files[w][n] EXCEPT !.whole = FALSE]} :
                  files' = [files EXCEPT ![w][n] = left]
        BY <2>2 DEF DamageFile
      <3>2. PICK left \in {None, [files[w][n] EXCEPT !.whole = FALSE]} :
                  files' = [files EXCEPT ![w][n] = left]
        BY <3>1
      <3>3. ASSUME NEW c PROVE left # Whole(c)
        <4>1. CASE left = None
          BY <4>1 DEF NoneIsNoFile
        <4>2. CASE left = [files[w][n] EXCEPT !.whole = FALSE]
          <5>1. "whole" \in DOMAIN left => left.whole = FALSE
            BY <4>2
          <5>2. Whole(c).whole = TRUE /\ "whole" \in DOMAIN Whole(c)
            BY DEF Whole
          <5>3. QED
            BY <5>1, <5>2
        <4>3. QED
          BY <4>1, <4>2
      <3>4. files'[w][n] = left
        BY <3>2 DEF FilesInv, FilesTyped
      <3>5. \A v \in Workspaces, m \in Names : v # w \/ m # n => files'[v][m] = files[v][m]
        BY <3>2 DEF FilesInv, FilesTyped
      <3>6. QED
        BY <3>3, <3>4, <3>5 DEF Has
    <2>3. QED
      BY <2>1, <2>2
  <1>4. \A rec \in records : RecordVerifies(rec)' => RecordVerifies(rec)
    <2>1. \A key, c : Stored(key, c)' => Stored(key, c)
      <3>1. CASE DamageFile
        BY <3>1 DEF DamageFile, Stored
      <3>2. CASE DamageObject
        <4>1. PICK k \in DOMAIN remote : remote' = [remote EXCEPT ![k].whole = FALSE]
          BY <3>2 DEF DamageObject
        <4>2. DOMAIN remote' = DOMAIN remote /\ remote'[k].whole = FALSE
          BY <4>1 DEF PubInv, AllWhole
        <4>3. \A key \in DOMAIN remote : key # k => remote'[key] = remote[key]
          BY <4>1
        <4>4. \A c : remote'[k] # Whole(c)
          BY <4>2 DEF Whole
        <4>5. QED
          BY <4>2, <4>3, <4>4 DEF Stored
      <3>3. QED
        BY <3>1, <3>2
    <2>2. QED
      BY <2>1 DEF RecordVerifies, ObjectsVerify
  <1>5. ASSUME NEW p \in Publishers, run'[p].pc = "invalidate" PROVE Culprit(p)'
    <2>1. run[p].pc = "invalidate" /\ Culprit(p) /\ run[p].ws \in Workspaces
      BY <1>1, <1>5 DEF CulpritInv, FilesInv, RunTyped, Over
    <2>2. CASE Mismatch(p)
      BY <1>1, <1>2, <1>3, <2>1, <2>2 DEF Culprit, Mismatch, valid_artifacts, Valid
    <2>3. CASE Unproven
      BY <1>2, <1>4, <2>3 DEF Culprit, Unproven, Valid, RecordsOf
    <2>4. CASE \A s \in Succeeded : s < run[p].damaged
      BY <1>1, <1>2, <2>4 DEF Culprit, Succeeded
    <2>5. CASE ~run[p].calm
      BY <1>1, <2>5 DEF Culprit
    <2>6. QED
      BY <2>1, <2>2, <2>3, <2>4, <2>5 DEF Culprit
  <1>6. QED
    BY <1>5 DEF CulpritInv

\* The only step that leads to an invalidation is the scan.
LEMMA OnlyScanInvalidates ==
  ASSUME VoiceInv, NEW p \in Publishers,
         RunStep(p) \/ Crash(p) \/ StageFails(p) \/ StoreFailsInRun(p),
         run'[p].pc = "invalidate"
  PROVE  Scan(p) /\ ~Raise(p, "raised")
  <1> USE DEF VoiceInv, RunInv
  <1>1. ASSUME NEW pc, pc # "invalidate", Jump(p, pc) \/ Raise(p, pc), run[p].pc \notin Over
        PROVE  FALSE
    BY <1>1, JumpFields, RaiseFields
  <1>2. CASE Begin(p) \/ Crash(p)
    BY <1>2 DEF Begin, Crash, NotRunning
  <1>3. CASE \/ Recover(p) \/ CreateJob(p) \/ RecordInput(p) \/ Invalidate(p) \/ CheckFresh(p)
             \/ WriteSide(p) \/ WriteDocument(p) \/ FailStage(p) \/ FinishProof(p)
             \/ FinishFinal(p) \/ Return(p)
    <2>1. run[p].pc \notin Over
      BY <1>3 DEF Recover, CreateJob, RecordInput, Invalidate, CheckFresh, WriteSide,
         WriteDocument, FailStage, FinishProof, FinishFinal, Return, At, Over
    <2>2. \E pc \in {"create", "input", "units", "raised", "fresh", "copy", "fresh_required",
                     "document", "commit", "failing", "proven", "final", "returned"} :
             Jump(p, pc) \/ Raise(p, pc)
      BY <1>3 DEF Recover, CreateJob, RecordInput, Invalidate, CheckFresh, WriteSide,
         WriteDocument, FailStage, FinishProof, FinishFinal, Return
    <2>3. QED
      BY <1>1, <2>1, <2>2
  <1>4. CASE EnsureUnit(p) \/ StageFails(p) \/ StoreFailsInRun(p)
    <2>1. run[p].pc \notin Over \union {"invalidate"}
      BY <1>4 DEF EnsureUnit, StageFails, StoreFailsInRun, At, Over
    <2>2. DOMAIN run[p] = Fields /\ p \in DOMAIN run
      BY <2>1
    <2>3. CASE EnsureUnit(p)
      BY <2>2, <2>3 DEF EnsureUnit, Fields
    <2>4. CASE StageFails(p)
      BY <2>2, <2>4 DEF StageFails, Fields
    <2>5. CASE StoreFailsInRun(p)
      BY <2>1, <2>2, <2>5 DEF StoreFailsInRun, Fields, Over
    <2>6. QED
      BY <1>4, <2>3, <2>4, <2>5
  <1>5. CASE Scan(p)
    <2>1. run[p].pc \notin Over
      BY <1>5, ScanForm DEF Over
    <2>2. QED
      BY <1>1, <1>5, <2>1
  <1>6. CASE CopyUpstream(p) \/ StartStage(p) \/ Commit(p) \/ Publishing(p)
    <2>1. /\ run[p].pc \notin Over \union {"invalidate"} /\ DOMAIN run[p] = Fields
      BY <1>6 DEF CopyUpstream, StartStage, Commit, Publishing, At, Over
    <2>2. CASE CopyUpstream(p)
      BY <1>1, <2>1, <2>2 DEF CopyUpstream, Fields, Over
    <2>3. CASE StartStage(p)
      BY <1>1, <2>1, <2>3 DEF StartStage, At, Fields
    <2>4. CASE Commit(p)
      BY <1>1, <2>1, <2>4 DEF Commit, Fields
    <2>5. CASE Publishing(p)
      BY <2>1, <2>5 DEF Publishing
    <2>6. QED
      BY <1>6, <2>2, <2>3, <2>4, <2>5
  <1>7. CASE Prepare(p) \/ PrepareBackup(p) \/ Proof(p)
    <2>1. run[p].pc \notin Over /\ DOMAIN run[p] = Fields
      BY <1>7 DEF Prepare, PrepareBackup, Proof, At, Over
    <2>2. \E pc \in {"side", "document", "failing", "proof"} :
             \/ \E made : run' = [run EXCEPT ![p].made = made, ![p].pc = pc]
             \/ Jump(p, pc)
      BY <1>7, PreparedPlaces
    <2>3. ASSUME NEW made, NEW pc \in {"side", "document", "failing", "proof"},
                 run' = [run EXCEPT ![p].made = made, ![p].pc = pc]
          PROVE  run'[p].pc = pc
      BY <2>1, <2>3 DEF Fields
    <2>4. QED
      BY <1>1, <2>1, <2>2, <2>3
  <1>8. QED
    BY <1>2, <1>3, <1>4, <1>5, <1>6, <1>7 DEF RunStep

LEMMA CulpritStep ==
  ASSUME NoneIsNoFile, VoiceInv, FilesInv, PubInv, CulpritInv, [SliceNext]_slice
  PROVE  CulpritInv'
  <1>1. CASE UNCHANGED slice
    BY <1>1 DEF slice, store, objects, CulpritInv, Culprit, Mismatch, Unproven, valid_artifacts, Valid,
       Has, RecordsOf, RecordVerifies, ObjectsVerify, Stored, Succeeded
  <1>2. CASE DamageFile \/ DamageObject
    BY <1>2, DamageKeepsCulprit
  <1>3. ASSUME NEW p \in Publishers, RunStep(p) \/ Crash(p) \/ StageFails(p) \/ StoreFailsInRun(p)
        PROVE  CulpritInv'
    <2>1. \A q \in Publishers : q = p
      BY DEF VoiceInv, OneProcess
    <2> SUFFICES ASSUME run'[p].pc = "invalidate" PROVE Culprit(p)'
      BY <2>1 DEF CulpritInv
    <2>2. Scan(p) /\ ~Raise(p, "raised")
      BY <1>3, OnlyScanInvalidates
    <2>3. PICK damaged, calm : /\ Resume(p, run[p].ws, damaged, calm)
                               /\ ScanSees(run[p].ws, run[p].calm, damaged, calm)
      BY <2>2, ScanForm
    <2>4. run[p].pc = "scan" /\ UNCHANGED <<unit, artifacts, records, files, remote>>
      BY <2>2, ScanForm DEF store, objects
    <2>5. /\ damaged # None /\ run'[p].damaged = damaged /\ run'[p].ws = run[p].ws
          /\ run'[p].calm = calm
      BY <2>3, <2>4, ResumeFields DEF VoiceInv
    <2>6. CASE damaged \in Readable(run[p].ws) /\ calm = FALSE
      BY <2>5, <2>6 DEF Culprit
    <2>7. CASE damaged = Damage(run[p].ws)
      <3>1. Mismatch(p) \/ Unproven \/ \A s \in Succeeded : s < damaged
        BY <2>5, <2>7, ScanFindsCulprit
      <3>2. CASE Mismatch(p)
        BY <2>4, <2>5, <3>2 DEF Culprit, Mismatch, valid_artifacts, Valid, Has
      <3>3. CASE Unproven
        BY <2>4, <3>3 DEF Culprit, Unproven, Valid, RecordsOf, RecordVerifies, ObjectsVerify,
           Stored
      <3>4. CASE \A s \in Succeeded : s < damaged
        BY <2>4, <2>5, <3>4 DEF Culprit, Succeeded
      <3>5. QED
        BY <3>1, <3>2, <3>3, <3>4
    <2>8. QED
      BY <2>3, <2>6, <2>7 DEF ScanSees
  <1>4. QED
    BY <1>1, <1>2, <1>3 DEF SliceNext

\* Nothing but an invalidation takes SUCCEEDED away.
LEMMA SuccessStays ==
  ASSUME VoiceInv, [SliceNext]_slice, ~ \E p \in Publishers : Invalidate(p)
  PROVE  Succeeded \subseteq Succeeded'
  <1>1. ASSUME QuietStore PROVE Succeeded \subseteq Succeeded'
    BY <1>1 DEF QuietStore, Succeeded
  <1>2. CASE UNCHANGED slice \/ DamageFile \/ DamageObject
    <2>1. UNCHANGED store
      BY <1>2 DEF slice, DamageFile, DamageObject
    <2>2. QED
      BY <1>1, <2>1, QuietSteps DEF VoiceInv
  <1>3. ASSUME NEW p \in Publishers, RunStep(p) \/ Crash(p) \/ StageFails(p) \/ StoreFailsInRun(p)
        PROVE  Succeeded \subseteq Succeeded'
    <2>1. CASE \/ Begin(p) \/ Recover(p) \/ CreateJob(p) \/ RecordInput(p) \/ Scan(p)
               \/ CheckFresh(p) \/ CopyUpstream(p) \/ Prepare(p) \/ PrepareBackup(p) \/ Proof(p)
               \/ WriteSide(p) \/ WriteDocument(p) \/ FinishProof(p) \/ FinishFinal(p)
               \/ Return(p) \/ Crash(p) \/ StageFails(p) \/ StoreFailsInRun(p)
      <3>1. \/ UNCHANGED store
            \/ \E src, cfg : create_job(src, cfg)
            \/ \E src : record_verified_input(src)
            \/ recover_stale_work
        BY <2>1, ScanForm DEF Begin, Recover, CreateJob, RecordInput, CheckFresh, CopyUpstream,
           Prepare, PrepareBackup, Proof, WriteSide, WriteDocument, FinishProof, FinishFinal,
           Return, Crash, StageFails, StoreFailsInRun, StoreFails, KeepStore, store
      <3>2. QED
        BY <1>1, <3>1, QuietSteps DEF VoiceInv
    <2>2. CASE EnsureUnit(p) \/ FailStage(p)
      <3>1. run[p].stage \in Stages
        BY <2>2 DEF EnsureUnit, FailStage, At, VoiceInv, RunInv, InOneStage
      <3>2. UNCHANGED store \/ put_work_unit(run[p].stage) \/ fail_work_unit(run[p].stage)
        BY <2>2 DEF EnsureUnit, FailStage, KeepStore
      <3>3. QED
        BY <1>1, <3>1, <3>2, QuietSteps DEF VoiceInv
    <2>3. CASE StartStage(p)
      <3> DEFINE s == run[p].stage
      <3>1. s \in Nat \ {0}
        BY <2>3 DEF StartStage, At, VoiceInv, RunInv
      <3>2. UNCHANGED store \/ (s <= StageCount /\ start_work_unit(s))
        BY <2>3, <3>1, StagesAssumption DEF StartStage, KeepStore
      <3>3. s <= StageCount => s \in Stages
        BY <3>1, StagesAssumption DEF Stages
      <3>4. QED
        BY <1>1, <3>2, <3>3, QuietSteps DEF VoiceInv
    <2>4. CASE Commit(p)
      <3>1. run[p].stage \in Stages
        BY <2>4 DEF Commit, At, VoiceInv, RunInv, InOneStage
      <3>2. UNCHANGED unit \/ unit' = [unit EXCEPT ![run[p].stage].status = "SUCCEEDED"]
        BY <2>4 DEF Commit, commit_artifacts, KeepStore, store
      <3>3. \A s \in Stages : unit[s].status = "SUCCEEDED" => unit'[s].status = "SUCCEEDED"
        BY <3>1, <3>2 DEF VoiceInv, StoreInv, StoreTypeOK
      <3>4. QED
        BY <3>3 DEF Succeeded
    <2>5. CASE Publishing(p)
      <3>1. UNCHANGED store \/ \E i, evidence : record_checkpoint(i, evidence)
        BY <2>5 DEF Publishing, PublishStep, Completed, Collect, Snapshot, Put, PutManifest, Record
      <3>2. QED
        BY <1>1, <3>1, QuietSteps DEF VoiceInv
    <2>6. QED
      BY <1>3, <2>1, <2>2, <2>3, <2>4, <2>5 DEF RunStep
  <1>4. QED
    BY <1>2, <1>3 DEF SliceNext

\* An invalidation of nothing that succeeded keeps what did.
LEMMA InvalidateHasReason ==
  ASSUME VoiceInv, CulpritInv, NEW p \in Publishers, Invalidate(p)
  PROVE  \/ Succeeded \subseteq Succeeded' \/ Mismatch(p) \/ Unproven
         \/ At(p, "invalidate") /\ ~run[p].calm
  <1>1. run[p].pc = "invalidate" /\ apply_invalidation({run[p].damaged})
    BY DEF Invalidate, At
  <1>2. run[p].damaged \in Stages
    BY <1>1 DEF VoiceInv, RunFits
  <1>3. CASE \A s \in Succeeded : s < run[p].damaged
    <2>1. \A s \in Stages : s < run[p].damaged => unit'[s] = unit[s]
      BY <1>1, <1>2, InvalidateTables DEF VoiceInv
    <2>2. QED
      BY <1>3, <2>1 DEF Succeeded
  <1>4. QED
    BY <1>1, <1>3 DEF CulpritInv, Culprit, At

LEMMA PaidStep ==
  ASSUME VoiceInv, CulpritInv, [SliceNext]_slice
  PROVE  [Succeeded \subseteq Succeeded' \/
            \E p \in Publishers :
               \/ \E n \in valid_artifacts : ~Has(run[p].ws, n, artifacts[n].digest)
               \/ /\ Valid(Document(BACKUP))
                  /\ ~ \E rec \in RecordsOf(artifacts[Document(BACKUP)].digest.proof) :
                          RecordVerifies(rec)
               \/ At(p, "invalidate") /\ ~run[p].calm]_slice
  <1>1. CASE \E p \in Publishers : Invalidate(p)
    BY <1>1, InvalidateHasReason DEF Mismatch, Unproven
  <1>2. CASE ~ \E p \in Publishers : Invalidate(p)
    BY <1>2, SuccessStays
  <1>3. QED
    BY <1>1, <1>2

\* With one process at work: nothing that was finished is thrown away without a reason,
\* however runs crash, fail and resume.  Only a file of the workspace that does not match
\* its row, a proof that does not verify, or a scan of this run that failed while it
\* looked, takes SUCCEEDED from a unit (_resume_workspace of offline_slice.py).
THEOREM WorkIsKept == OneProcess /\ NoneIsNoFile => (SliceSpec => PaidWorkIsKept)
  <1> DEFINE Inv == NoneIsNoFile /\ VoiceInv /\ FilesInv /\ CompleteInv /\ CulpritInv
  <1>1. OneProcess /\ NoneIsNoFile /\ SliceInit => Inv
    <2>1. SliceInit => CulpritInv
      BY DEF SliceInit, NotRunning, CulpritInv
    <2>2. QED
      BY <2>1, VoiceStart, FilesStart, CompleteStart
  <1>2. Inv /\ [SliceNext]_slice => Inv'
    BY VoiceStep, FilesStep, CompleteStep, CulpritStep DEF CompleteInv, NoneIsNoFile
  <1>3. Inv /\ [SliceNext]_slice =>
          [Succeeded \subseteq Succeeded' \/
            \E p \in Publishers :
               \/ \E n \in valid_artifacts : ~Has(run[p].ws, n, artifacts[n].digest)
               \/ /\ Valid(Document(BACKUP))
                  /\ ~ \E rec \in RecordsOf(artifacts[Document(BACKUP)].digest.proof) :
                          RecordVerifies(rec)
               \/ At(p, "invalidate") /\ ~run[p].calm]_slice
    BY PaidStep
  <1> HIDE DEF Inv
  <1>4. QED
    BY <1>1, <1>2, <1>3, PTL DEF SliceSpec, PaidWorkIsKept

-----------------------------------------------------------------------------
\* All the calls are of one job.
OneJob == \A c, d \in Calls : c.source = d.source /\ c.config = d.config
\* None is no file, no stage, no job and no content.
NoneIsNothing ==
    /\ NoneIsNoFile
    /\ None \notin Stages
    /\ \A source, config : None # [source |-> source, config |-> config]
    /\ \A s, voice, proof : None # Content(s, voice, proof)

\* The job and the input are those of the calls.
JobFits(j, i) ==
    /\ j # None => \A call \in Calls : j = [source |-> call.source, config |-> call.config]
    /\ i # None => \A call \in Calls : i = call.source

\* How far a run is with setting up: the job, the input, the units u are there, and
\* only the unit of the stage the run is in is RUNNING.
WithUnits == {"scan", "failing"} \union AfterScan
InStage == {"prepare", "proof", "side", "document", "commit", "failing"}
SetUp(r, j, i, u) ==
    /\ r.pc \in {"recover", "create", "input"} => r.stage = 1
    /\ r.pc \in {"input", "units"} \union WithUnits => j # None
    /\ r.pc \in {"units"} \union WithUnits => i = j.source
    /\ r.pc = "units" => \A s \in Stages : s < r.stage => u[s].status # "ABSENT"
    /\ r.pc \in WithUnits => \A s \in Stages : u[s].status # "ABSENT"
    /\ r.pc \in InStage => u[r.stage].status = "RUNNING"
    /\ r.pc \in {"create", "input", "units"} \union WithUnits =>
          \A s \in Stages : u[s].status = "RUNNING" => r.pc \in InStage /\ s = r.stage

SetUpInv ==
    /\ JobFits(job, input)
    /\ \A p \in Publishers : SetUp(run[p], job, input, unit)
SetUpAfter(p) == JobFits(job', input') /\ SetUp(run'[p], job', input', unit')

LEMMA NotSetUp ==
  ASSUME NEW r, NEW j, NEW i, NEW u, r.pc \in Over PROVE SetUp(r, j, i, u)
  BY DEF SetUp, Over, WithUnits, AfterScan, InLoop, InStage

\* A run that goes on with the units it has.
LEMMA SetUpMoves ==
  ASSUME NEW r, NEW next, NEW j, NEW i, NEW u, SetUp(r, j, i, u),
         r.pc \in WithUnits, next.pc \in WithUnits,
         r.pc \in InStage <=> next.pc \in InStage,
         next.pc \in InStage => next.stage = r.stage
  PROVE  SetUp(next, j, i, u)
  BY DEF SetUp, WithUnits, AfterScan, InLoop, InStage

LEMMA SetUpLeave ==
  ASSUME SetUpInv, NEW p \in Publishers, UNCHANGED <<job, input>>, run'[p].pc \in Over
  PROVE  SetUpAfter(p)
  BY NotSetUp DEF SetUpInv, SetUpAfter

LEMMA SetUpGoesOn ==
  ASSUME SetUpInv, NEW p \in Publishers, UNCHANGED <<job, input, unit>>,
         run[p].pc \in WithUnits, run'[p].pc \in WithUnits \union Over,
         run'[p].pc \notin Over => (run[p].pc \in InStage <=> run'[p].pc \in InStage),
         run'[p].pc \in InStage => run'[p].stage = run[p].stage
  PROVE  SetUpAfter(p)
  <1>1. SetUp(run[p], job, input, unit)
    BY DEF SetUpInv
  <1>2. CASE run'[p].pc \in Over
    BY <1>2, SetUpLeave
  <1>3. CASE run'[p].pc \in WithUnits
    <2>1. run'[p].pc \notin Over
      BY <1>3 DEF WithUnits, AfterScan, InLoop, Over
    <2>2. SetUp(run'[p], job, input, unit)
      BY <1>1, <1>3, <2>1, SetUpMoves
    <2>3. QED
      BY <2>2 DEF SetUpInv, SetUpAfter
  <1>4. QED
    BY <1>2, <1>3

LEMMA SetUpBegins ==
  ASSUME OneJob, NoneIsNothing, VoiceInv, FilesInv, SetUpInv, NEW p \in Publishers,
         Begin(p) \/ Crash(p) \/ Recover(p) \/ CreateJob(p) \/ RecordInput(p)
  PROVE  SetUpAfter(p)
  <1>0. SetUp(run[p], job, input, unit) /\ JobFits(job, input)
    BY DEF SetUpInv
  <1>1. CASE Begin(p) \/ Crash(p)
    <2>1. UNCHANGED <<job, input>>
      BY <1>1 DEF Begin, Crash, store
    <2>2. CASE Begin(p)
      <3>1. run'[p].pc = "recover" /\ run'[p].stage = 1
        BY <2>2 DEF Begin, VoiceInv, RunInv
      <3>2. QED
        BY <1>0, <2>1, <3>1 DEF SetUpAfter, SetUp, WithUnits, AfterScan, InLoop, InStage
    <2>3. CASE Crash(p)
      <3>1. run'[p].pc \in Over
        BY <2>3 DEF Crash, VoiceInv, RunInv, NotRunning, Over
      <3>2. QED
        BY <2>1, <3>1, SetUpLeave
    <2>4. QED
      BY <1>1, <2>2, <2>3
  <1>2. CASE Recover(p)
    <2>1. run'[p].pc = "create" /\ run'[p].stage = run[p].stage /\ UNCHANGED <<job, input>>
      BY <1>2, JumpFields DEF Recover, At, Over, VoiceInv, recover_stale_work
    <2>2. \A s \in Stages : unit'[s].status # "RUNNING"
      BY <1>2 DEF Recover, recover_stale_work, VoiceInv, StoreInv, StoreTypeOK
    <2>3. run[p].stage = 1
      BY <1>0, <1>2 DEF Recover, At, SetUp
    <2>4. QED
      BY <1>0, <2>1, <2>2, <2>3 DEF SetUpAfter, SetUp, WithUnits, AfterScan, InLoop, InStage
  <1>3. CASE CreateJob(p)
    <2>1. run[p].pc = "create" /\ run[p].call \in Calls
      BY <1>3 DEF CreateJob, At, FilesInv, RunTyped, Over
    <2>2. \A s \in Stages : unit[s].status # "RUNNING"
      BY <1>0, <2>1 DEF SetUp, InStage
    <2>3. CASE KeepStore /\ Raise(p, "raised")
      BY <2>3, RaiseFields, SetUpLeave DEF KeepStore, store, VoiceInv, Over
    <2>4. CASE create_job(run[p].call.source, run[p].call.config) /\ Jump(p, "input")
      <3>1. run'[p].pc = "input" /\ run'[p].stage = run[p].stage
        BY <2>1, <2>4, JumpFields DEF VoiceInv, Over
      <3>2. /\ job' = [source |-> run[p].call.source, config |-> run[p].call.config]
            /\ UNCHANGED <<input, unit>>
        BY <2>4 DEF create_job
      <3>3. \A call \in Calls : job' = [source |-> call.source, config |-> call.config]
        BY <2>1, <3>2 DEF OneJob
      <3>4. job' # None
        BY <3>2 DEF NoneIsNothing
      <3>5. run[p].stage = 1
        BY <1>0, <2>1 DEF SetUp
      <3>6. QED
        BY <1>0, <2>2, <3>1, <3>2, <3>3, <3>4, <3>5
           DEF SetUpAfter, SetUp, JobFits, WithUnits, AfterScan, InLoop, InStage
    <2>5. QED
      BY <1>3, <2>3, <2>4 DEF CreateJob
  <1>4. CASE RecordInput(p)
    <2>1. run[p].pc = "input" /\ run[p].call \in Calls
      BY <1>4 DEF RecordInput, At, FilesInv, RunTyped, Over
    <2>2. job # None /\ \A s \in Stages : unit[s].status # "RUNNING"
      BY <1>0, <2>1 DEF SetUp, InStage
    <2>3. CASE KeepStore /\ Raise(p, "raised")
      BY <2>3, RaiseFields, SetUpLeave DEF KeepStore, store, VoiceInv, Over
    <2>4. CASE record_verified_input(run[p].call.source) /\ Jump(p, "units")
      <3>1. run'[p].pc = "units" /\ run'[p].stage = run[p].stage
        BY <2>1, <2>4, JumpFields DEF VoiceInv, Over
      <3>2. input' = run[p].call.source /\ job.source = input' /\ UNCHANGED <<job, unit>>
        BY <2>4 DEF record_verified_input, CanRecordInput
      <3>3. \A call \in Calls : input' = call.source
        BY <2>1, <3>2 DEF OneJob
      <3>4. \A s \in Stages : ~(s < run[p].stage)
        BY <1>0, <2>1 DEF SetUp, Stages
      <3>5. QED
        BY <1>0, <2>2, <3>1, <3>2, <3>3, <3>4
           DEF SetUpAfter, SetUp, JobFits, WithUnits, AfterScan, InLoop, InStage
    <2>5. QED
      BY <1>4, <2>3, <2>4 DEF RecordInput
  <1>5. QED
    BY <1>1, <1>2, <1>3, <1>4

LEMMA SetUpUnits ==
  ASSUME VoiceInv, SetUpInv, NEW p \in Publishers, EnsureUnit(p) PROVE SetUpAfter(p)
  <1> DEFINE s == run[p].stage
             stage == IF s = StageCount THEN 1 ELSE s + 1
             pc == IF s = StageCount THEN "scan" ELSE "units"
  <1>1. run[p].pc = "units" /\ s \in Stages /\ SetUp(run[p], job, input, unit)
    BY DEF EnsureUnit, At, VoiceInv, RunInv, InOneStage, SetUpInv
  <1>2. UNCHANGED <<job, input>>
    BY DEF EnsureUnit, KeepStore, store, put_work_unit
  <1>3. /\ unit'[s].status \notin {"ABSENT", "RUNNING"}
        /\ \A u \in Stages : u # s => unit'[u] = unit[u]
    <2>1. CASE unit[s].status # "ABSENT" /\ KeepStore
      <3>1. unit[s].status # "RUNNING"
        BY <1>1 DEF SetUp, InStage
      <3>2. QED
        BY <2>1, <3>1 DEF KeepStore, store
    <2>2. CASE put_work_unit(s)
      BY <1>1, <2>2 DEF put_work_unit, VoiceInv, StoreInv, StoreTypeOK
    <2>3. QED
      BY <2>1, <2>2 DEF EnsureUnit
  <1>4. run' = [run EXCEPT ![p].stage = stage, ![p].pc = pc]
    BY DEF EnsureUnit
  <1>5. /\ pc = "units" => stage = s + 1
        /\ pc = "scan" => s = StageCount
        /\ pc \in {"units", "scan"}
    OBVIOUS
  <1> HIDE DEF stage, pc
  <1>6. run'[p].pc = pc /\ run'[p].stage = stage
    BY <1>1, <1>4 DEF VoiceInv, RunInv, Fields, Over
  <1>7. /\ \A u \in Stages : u < s + 1 => u < s \/ u = s
        /\ s = StageCount => \A u \in Stages : u < s \/ u = s
    BY <1>1, StagesAssumption DEF Stages
  <1>8. /\ \A u \in Stages : u < s \/ u = s => unit'[u].status # "ABSENT"
        /\ \A u \in Stages : unit'[u].status # "RUNNING"
    BY <1>1, <1>3 DEF SetUp, InStage
  <1>9. SetUp(run'[p], job', input', unit')
    BY <1>1, <1>2, <1>5, <1>6, <1>7, <1>8 DEF SetUp, WithUnits, AfterScan, InLoop, InStage
  <1>10. QED
    BY <1>2, <1>9 DEF SetUpInv, SetUpAfter

LEMMA SetUpStarts ==
  ASSUME VoiceInv, SetUpInv, NEW p \in Publishers, Invalidate(p) \/ StartStage(p)
  PROVE  SetUpAfter(p)
  <1>0. SetUp(run[p], job, input, unit)
    BY DEF SetUpInv
  <1>1. CASE Invalidate(p)
    <2>1. run[p].pc = "invalidate" /\ run'[p].pc = "fresh" /\ UNCHANGED <<job, input>>
      BY <1>1, JumpFields DEF Invalidate, At, Over, VoiceInv, apply_invalidation
    <2>2. \A s \in Stages : unit[s].status \notin {"ABSENT", "RUNNING"}
      BY <1>0, <2>1 DEF SetUp, WithUnits, AfterScan, InStage
    <2>3. \A s \in Stages : unit'[s].status \notin {"ABSENT", "RUNNING"}
      BY <1>1, <2>2 DEF Invalidate, apply_invalidation, VoiceInv, StoreInv, StoreTypeOK
    <2>4. SetUp(run'[p], job', input', unit')
      BY <1>0, <2>1, <2>3 DEF SetUp, WithUnits, AfterScan, InLoop, InStage
    <2>5. QED
      BY <2>1, <2>4 DEF SetUpInv, SetUpAfter
  <1>2. CASE StartStage(p)
    <2> DEFINE s == run[p].stage
    <2>1. run[p].pc = "stage" /\ s \in Nat \ {0}
      BY <1>2 DEF StartStage, At, VoiceInv, RunInv
    <2>2. CASE KeepStore /\ run'[p].pc \in {"stage", "finish"} \union Over
      BY <2>1, <2>2, SetUpGoesOn
         DEF KeepStore, store, WithUnits, AfterScan, InLoop, InStage, Over
    <2>3. CASE KeepStore /\ (Jump(p, "finish") \/ Raise(p, "raised"))
      BY <2>1, <2>2, <2>3, JumpFields, RaiseFields DEF VoiceInv, Over
    <2>4. CASE KeepStore /\ run' = [run EXCEPT ![p].stage = s + 1]
      <3>1. run'[p].pc = "stage"
        BY <2>1, <2>4 DEF VoiceInv, RunInv, Fields, Over
      <3>2. QED
        BY <2>2, <2>4, <3>1
    <2>5. CASE s <= StageCount /\ start_work_unit(s) /\ Jump(p, "prepare")
      <3>1. run'[p].pc = "prepare" /\ run'[p].stage = s
        BY <2>1, <2>5, JumpFields DEF VoiceInv, Over
      <3>2. s \in Stages
        BY <2>1, <2>5, StagesAssumption DEF Stages
      <3>3. UNCHANGED <<job, input>> /\ unit'[s].status = "RUNNING"
            /\ \A u \in Stages : u # s => unit'[u] = unit[u]
        BY <2>5, <3>2 DEF start_work_unit, VoiceInv, StoreInv, StoreTypeOK
      <3>4. \A u \in Stages : unit[u].status \notin {"ABSENT", "RUNNING"}
        BY <1>0, <2>1 DEF SetUp, WithUnits, AfterScan, InLoop, InStage
      <3>5. SetUp(run'[p], job', input', unit')
        BY <1>0, <2>1, <3>1, <3>3, <3>4 DEF SetUp, WithUnits, AfterScan, InLoop, InStage
      <3>6. QED
        BY <3>3, <3>5 DEF SetUpInv, SetUpAfter
    <2>6. QED
      BY <1>2, <2>1, <2>3, <2>4, <2>5, StagesAssumption DEF StartStage
  <1>3. QED
    BY <1>1, <1>2

LEMMA SetUpEnds ==
  ASSUME VoiceInv, SetUpInv, NEW p \in Publishers, Commit(p) \/ FailStage(p)
  PROVE  SetUpAfter(p)
  <1> DEFINE s == run[p].stage
  <1>0. /\ SetUp(run[p], job, input, unit) /\ run[p].pc \in {"commit", "failing"}
        /\ s \in Stages
    BY DEF SetUpInv, Commit, FailStage, At, VoiceInv, RunInv, InOneStage
  <1>1. CASE FailStage(p)
    <2>1. run'[p].pc = "raised" /\ UNCHANGED <<job, input>>
      BY <1>1, RaiseFields DEF FailStage, KeepStore, store, VoiceInv, fail_work_unit
    <2>2. QED
      BY <2>1, SetUpLeave DEF Over
  <1>2. CASE KeepStore /\ Jump(p, "failing")
    <2>1. run'[p].pc = "failing" /\ run'[p].stage = s
      BY <1>0, <1>2, JumpFields DEF VoiceInv, Over
    <2>2. QED
      BY <1>0, <1>2, <2>1, SetUpGoesOn DEF KeepStore, store, WithUnits, AfterScan, InLoop, InStage
  <1>3. CASE /\ commit_artifacts(s, [n \in NamesOf(s) |-> run[p].made])
             /\ run' = [run EXCEPT ![p].docs[s] = run[p].made, ![p].stage = s + 1,
                                   ![p].pc = "stage"]
    <2>1. run'[p].pc = "stage" /\ UNCHANGED <<job, input>>
      BY <1>0, <1>3 DEF VoiceInv, RunInv, Fields, Over, commit_artifacts
    <2>2. unit'[s].status = "SUCCEEDED" /\ \A u \in Stages : u # s => unit'[u] = unit[u]
      BY <1>0, <1>3 DEF commit_artifacts, VoiceInv, StoreInv, StoreTypeOK
    <2>3. \A u \in Stages : unit[u].status = "RUNNING" => u = s
      BY <1>0 DEF SetUp, WithUnits, AfterScan, InLoop
    <2>4. \A u \in Stages : unit'[u].status \notin {"ABSENT", "RUNNING"}
      BY <1>0, <2>2, <2>3 DEF SetUp, WithUnits, AfterScan, InLoop
    <2>5. SetUp(run'[p], job', input', unit')
      BY <1>0, <2>1, <2>4 DEF SetUp, WithUnits, AfterScan, InLoop, InStage
    <2>6. QED
      BY <2>1, <2>5 DEF SetUpInv, SetUpAfter
  <1>4. QED
    BY <1>1, <1>2, <1>3 DEF Commit

\* All other steps leave the units alone.
LEMMA SetUpRest ==
  ASSUME VoiceInv, SetUpInv, NEW p \in Publishers,
         \/ Scan(p) \/ CheckFresh(p) \/ CopyUpstream(p) \/ Prepare(p) \/ PrepareBackup(p)
         \/ Proof(p) \/ WriteSide(p) \/ WriteDocument(p) \/ StageFails(p)
         \/ FinishProof(p) \/ FinishFinal(p) \/ Return(p) \/ Publishing(p) \/ StoreFailsInRun(p)
  PROVE  SetUpAfter(p)
  <1>1. UNCHANGED <<job, input, unit>>
    <2>1. CASE Publishing(p)
      BY <2>1 DEF Publishing, PublishStep, Completed, Collect, Snapshot, Put, PutManifest, Record,
                  record_checkpoint, store
    <2>2. QED
      BY <2>1, ScanForm DEF CheckFresh, CopyUpstream, Prepare, PrepareBackup, Proof, WriteSide,
                  WriteDocument, StageFails, FinishProof, FinishFinal, Return, StoreFailsInRun,
                  StoreFails, KeepStore, store
  <1>2. ASSUME NEW how \in Over, Raise(p, how) PROVE SetUpAfter(p)
    BY <1>1, <1>2, RaiseFields, SetUpLeave DEF VoiceInv
  <1>3. ASSUME NEW pc \in WithUnits, Jump(p, pc), run[p].pc \in WithUnits,
               run[p].pc \in InStage <=> pc \in InStage
        PROVE  SetUpAfter(p)
    <2>1. run'[p].pc = pc /\ run'[p].stage = run[p].stage
      BY <1>3, JumpFields DEF VoiceInv, WithUnits, AfterScan, InLoop, Over
    <2>2. QED
      BY <1>1, <1>3, <2>1, SetUpGoesOn
  <1>4. CASE Scan(p) \/ CheckFresh(p) \/ CopyUpstream(p)
    <2>1. run[p].pc \in {"scan", "fresh", "copy"}
      BY <1>4, ScanForm DEF CheckFresh, CopyUpstream, At
    <2>2. CASE run'[p].pc \in {"stage", "invalidate", "fresh", "copy"} \union Over
      BY <1>1, <2>1, <2>2, SetUpGoesOn DEF WithUnits, AfterScan, InLoop, InStage, Over
    <2>3. CASE Scan(p) /\ ~Raise(p, "raised")
      <3>1. PICK damaged, calm : Resume(p, run[p].ws, damaged, calm)
        BY <2>3, ScanForm
      <3>2. run[p].pc = "scan"
        BY <2>3, ScanForm
      <3>3. run'[p].pc \in {"stage", "invalidate"}
        BY <3>1, <3>2, ResumeFields DEF VoiceInv
      <3>4. QED
        BY <2>2, <3>3
    <2>4. CASE run' = [run EXCEPT ![p].pc = "stage", ![p].ws = run[p].call.fresh]
      <3>1. run'[p].pc = "stage"
        BY <2>1, <2>4 DEF VoiceInv, RunInv, Fields, Over
      <3>2. QED
        BY <2>2, <3>1
    <2>5. CASE Jump(p, "copy")
      BY <2>1, <2>2, <2>5, JumpFields DEF VoiceInv, Over
    <2>6. CASE run' = run
      BY <2>1, <2>2, <2>6, <1>1 DEF SetUpInv, SetUpAfter
    <2>7. QED
      BY <1>2, <1>4, <2>3, <2>4, <2>5, <2>6 DEF CheckFresh, CopyUpstream, Over
  <1>5. CASE Prepare(p) \/ PrepareBackup(p) \/ Proof(p) \/ StageFails(p)
    <2>1. run[p].pc \in {"prepare", "proof", "side", "document"}
      BY <1>5 DEF Prepare, PrepareBackup, Proof, StageFails, At
    <2>2. ASSUME NEW pc \in {"side", "document", "failing"},
                 run'[p].pc = pc, run'[p].stage = run[p].stage
          PROVE  SetUpAfter(p)
      BY <1>1, <2>1, <2>2, SetUpGoesOn DEF WithUnits, AfterScan, InLoop, InStage, Over
    <2>3. ASSUME NEW pc \in {"side", "document"}, NEW made,
                 run' = [run EXCEPT ![p].made = made, ![p].pc = pc]
          PROVE  SetUpAfter(p)
      <3>1. run'[p].pc = pc /\ run'[p].stage = run[p].stage
        BY <2>1, <2>3 DEF VoiceInv, RunInv, Fields, Over
      <3>2. QED
        BY <2>2, <3>1
    <2>4. CASE StageFails(p)
      <3>1. run'[p].pc = "failing" /\ run'[p].stage = run[p].stage
        BY <2>1, <2>4 DEF StageFails, VoiceInv, RunInv, Fields, Over
      <3>2. QED
        BY <2>2, <3>1
    <2>5. CASE Jump(p, "failing") \/ Jump(p, "proof")
      BY <1>3, <2>1, <2>5 DEF WithUnits, AfterScan, InLoop, InStage
    <2>6. CASE Proof(p)
      <3> DEFINE made == Content(BACKUP, run[p].docs[PUBLISH].voice, pub[p].id)
      <3>1. Jump(p, "failing") \/ run' = [run EXCEPT ![p].made = made, ![p].pc = "document"]
        BY <2>6 DEF Proof
      <3> HIDE DEF made
      <3>2. QED
        BY <2>3, <2>5, <3>1
    <2>7. QED
      BY <1>5, <2>3, <2>4, <2>5, <2>6 DEF Prepare, PrepareBackup
  <1>6. CASE WriteSide(p) \/ WriteDocument(p)
    <2>1. run[p].pc \in {"side", "document"}
      BY <1>6 DEF WriteSide, WriteDocument, At
    <2>2. \E pc \in {"document", "commit", "failing"} : Jump(p, pc)
      BY <1>6 DEF WriteSide, WriteDocument
    <2>3. QED
      BY <1>3, <2>1, <2>2 DEF WithUnits, AfterScan, InLoop, InStage
  <1>7. CASE FinishProof(p) \/ FinishFinal(p) \/ Return(p)
    <2>1. run[p].pc \in {"finish", "proven", "final"}
      BY <1>7 DEF FinishProof, FinishFinal, Return, At
    <2>2. (\E pc \in {"proven", "final"} : Jump(p, pc)) \/ \E how \in Over : Raise(p, how)
      BY <1>7 DEF FinishProof, FinishFinal, Return, Over
    <2>3. QED
      BY <1>2, <1>3, <2>1, <2>2 DEF WithUnits, AfterScan, InLoop, InStage
  <1>8. CASE Publishing(p)
    BY <1>1, <1>8 DEF Publishing, SetUpInv, SetUpAfter
  <1>9. CASE StoreFailsInRun(p)
    <2>1. run'[p].pc = run[p].pc /\ run'[p].stage = run[p].stage /\ run[p].pc \in Waiting
      BY <1>9 DEF StoreFailsInRun, VoiceInv, RunInv, Fields, Over, Waiting
    <2>2. QED
      BY <1>1, <2>1, SetUpGoesOn DEF Waiting, WithUnits, AfterScan, InLoop, Over
  <1>10. QED
    BY <1>4, <1>5, <1>6, <1>7, <1>8, <1>9

LEMMA SetUpStep ==
  ASSUME OneJob, NoneIsNothing, VoiceInv, FilesInv, SetUpInv, [SliceNext]_slice PROVE SetUpInv'
  <1>1. CASE UNCHANGED slice \/ DamageFile \/ DamageObject
    BY <1>1 DEF slice, store, DamageFile, DamageObject, SetUpInv
  <1>2. ASSUME NEW p \in Publishers, RunStep(p) \/ Crash(p) \/ StageFails(p) \/ StoreFailsInRun(p)
        PROVE  SetUpInv'
    <2>1. SetUpAfter(p)
      BY <1>2, SetUpBegins, SetUpUnits, SetUpStarts, SetUpEnds, SetUpRest DEF RunStep
    <2>2. \A q \in Publishers : q = p
      BY DEF VoiceInv, OneProcess
    <2>3. QED
      BY <2>1, <2>2 DEF SetUpInv, SetUpAfter
  <1>3. QED
    BY <1>1, <1>2 DEF SliceNext

LEMMA SetUpStart == SliceInit => SetUpInv
  BY NotSetUp DEF SliceInit, EmptyStore, NotRunning, Over, SetUpInv, JobFits

\* A content is one that the stage makes.
Proper(s, content) ==
    /\ content = Content(s, content.voice, content.proof)
    /\ s = TTS => content.voice \in Voices

\* So is what the files, the rows and a run hold, be it damaged or not; and the rows of a
\* stage are all there or all missing, all valid or all invalid.
FilesProper(f) ==
    \A w \in Workspaces, n \in Names : f[w][n] # None =>
        DOMAIN f[w][n] = {"content", "whole"} /\ Proper(Owner(n), f[w][n].content)
RowsAgree(a) == \A s \in Stages : \A m, n \in NamesOf(s) : a[m].row = a[n].row
RowsProper(a) == \A n \in Names : a[n].row = "valid" => Proper(Owner(n), a[n].digest)
RunProper(r) ==
    /\ r.pc \in {"side", "document", "commit"} => Proper(r.stage, r.made)
    /\ r.pc \in {"invalidate", "fresh", "copy"} =>
          \A n \in Names : r.rows[n] # None => Proper(Owner(n), r.rows[n])

ContentInv ==
    /\ FilesProper(files) /\ RowsAgree(artifacts) /\ RowsProper(artifacts)
    /\ \A p \in Publishers : RunProper(run[p])

LEMMA ContentIsProper ==
  ASSUME NEW s, NEW voice, NEW proof, s = TTS => voice \in Voices
  PROVE  Proper(s, Content(s, voice, proof))
  <1> DEFINE c == Content(s, voice, proof)
  <1>1. /\ c.voice = IF s < TTS THEN None ELSE voice
        /\ c.proof = IF s = BACKUP THEN proof ELSE None
    BY DEF Content
  <1>2. Content(s, c.voice, c.proof) = c
    BY <1>1 DEF Content
  <1>3. s = TTS => ~(s < TTS)
    BY SliceAssumption, StagesAssumption DEF INGEST, PUBLISH, BACKUP, Stages
  <1>4. QED
    BY <1>1, <1>2, <1>3 DEF Proper

LEMMA ProperIsThere == ASSUME NoneIsNothing, NEW s, NEW c, Proper(s, c) PROVE c # None
  BY DEF Proper, NoneIsNothing

\* Files: what is written is what the run made or found.
LEMMA FilesProperStep ==
  ASSUME VoiceInv, FilesInv, ContentInv, NoneIsNothing, [SliceNext]_slice PROVE FilesProper(files')
  <1>1. CASE files' = files
    BY <1>1 DEF ContentInv
  <1>2. CASE DamageFile
    <2>0. PICK w \in Workspaces, n \in Names :
             /\ files[w][n] # None
             /\ \E left \in {None, [files[w][n] EXCEPT !.whole = FALSE]} :
                   files' = [files EXCEPT ![w][n] = left]
      BY <1>2 DEF DamageFile
    <2>1. PICK left \in {None, [files[w][n] EXCEPT !.whole = FALSE]} :
             files' = [files EXCEPT ![w][n] = left]
      BY <2>0
    <2>2. DOMAIN files[w][n] = {"content", "whole"} /\ Proper(Owner(n), files[w][n].content)
      BY <2>0 DEF ContentInv, FilesProper
    <2>3. left # None => /\ left.content = files[w][n].content
                         /\ DOMAIN left = {"content", "whole"}
      BY <2>1, <2>2
    <2>4. \A v \in Workspaces, m \in Names :
             files'[v][m] = IF v = w /\ m = n THEN left ELSE files[v][m]
      BY <2>1 DEF FilesInv, FilesTyped
    <2>5. QED
      BY <2>2, <2>3, <2>4 DEF ContentInv, FilesProper
  <1>3. ASSUME NEW w \in Workspaces, NEW n \in Names, NEW content, Write(w, n, content),
               Proper(Owner(n), content)
        PROVE  FilesProper(files')
    <2>1. files'[w][n] = Whole(content)
          /\ \A v \in Workspaces, m \in Names : v # w \/ m # n => files'[v][m] = files[v][m]
      BY <1>3, WriteTyped DEF FilesInv, Holds
    <2>2. QED
      BY <1>3, <2>1 DEF ContentInv, FilesProper, Whole
  <1>4. ASSUME NEW p \in Publishers, WriteSide(p) \/ WriteDocument(p) PROVE FilesProper(files')
    <2>1. /\ run[p].pc \in {"side", "document"} /\ run[p].ws \in Workspaces
          /\ run[p].stage \in Stages
          /\ run[p].pc = "side" => run[p].stage \in Sided
          /\ Proper(run[p].stage, run[p].made)
      BY <1>4 DEF WriteSide, WriteDocument, At, FilesInv, RunTyped, Over, VoiceInv, RunInv,
                  InOneStage, RunFits, ContentInv, RunProper
    <2>2. \/ UNCHANGED objects
          \/ /\ run[p].pc = "side"
             /\ Write(run[p].ws, Side(run[p].stage), run[p].made)
          \/ Write(run[p].ws, Document(run[p].stage), run[p].made)
      BY <1>4 DEF WriteSide, WriteDocument, At
    <2>3. QED
      BY <1>1, <1>3, <2>1, <2>2, OwnersOfNames DEF objects
  <1>5. ASSUME NEW p \in Publishers, CopyUpstream(p) PROVE FilesProper(files')
    <2>1. run[p].pc = "copy" /\ run[p].call.fresh \in Workspaces
      BY <1>5 DEF CopyUpstream, At, FilesInv, RunTyped, Over
    <2>2. \/ UNCHANGED objects
          \/ \E n \in Names : /\ run[p].rows[n] # None
                              /\ Write(run[p].call.fresh, n, run[p].rows[n])
      BY <1>5 DEF CopyUpstream
    <2>3. \A n \in Names : run[p].rows[n] # None => Proper(Owner(n), run[p].rows[n])
      BY <2>1 DEF ContentInv, RunProper
    <2>4. QED
      BY <1>1, <1>3, <2>1, <2>2, <2>3 DEF objects
  <1>6. ASSUME NEW p \in Publishers, RunStep(p) \/ Crash(p) \/ StageFails(p) \/ StoreFailsInRun(p),
               ~(CopyUpstream(p) \/ WriteSide(p) \/ WriteDocument(p))
        PROVE  files' = files
    <2>1. CASE Publishing(p)
      BY <2>1 DEF Publishing, PublishStep, Completed, Collect, Snapshot, Put, PutManifest,
                  Record, objects
    <2>2. QED
      BY <1>6, <2>1, ScanForm DEF RunStep, Begin, Recover, CreateJob, RecordInput, EnsureUnit, Invalidate,
         CheckFresh, StartStage, Prepare, PrepareBackup, Proof, Commit, FailStage, FinishProof,
         FinishFinal, Return, KeepAll, objects, Crash, StageFails, StoreFailsInRun, StoreFails
  <1>7. CASE UNCHANGED slice \/ DamageObject
    BY <1>1, <1>7 DEF slice, objects, DamageObject
  <1>8. QED
    BY <1>1, <1>2, <1>4, <1>5, <1>6, <1>7 DEF SliceNext

\* The artifacts: two steps change them.
LEMMA ArtifactsMove ==
  ASSUME VoiceInv, [SliceNext]_slice
  PROVE  \/ artifacts' = artifacts
         \/ \E p \in Publishers : Commit(p) \/ Invalidate(p)
  <1>1. CASE UNCHANGED slice \/ DamageFile \/ DamageObject
    BY <1>1 DEF slice, store, DamageFile, DamageObject
  <1>2. ASSUME NEW p \in Publishers, Publishing(p) PROVE artifacts' = artifacts
    BY <1>2 DEF Publishing, PublishStep, Completed, Collect, Snapshot, Put, PutManifest, Record,
                record_checkpoint, store
  <1>3. ASSUME NEW p \in Publishers, RunStep(p) \/ Crash(p) \/ StageFails(p) \/ StoreFailsInRun(p),
               ~(Publishing(p) \/ Commit(p) \/ Invalidate(p))
        PROVE  artifacts' = artifacts
    BY <1>3, ScanForm DEF RunStep, Begin, Recover, CreateJob, RecordInput, EnsureUnit, CheckFresh,
       CopyUpstream, StartStage, Prepare, PrepareBackup, Proof, WriteSide, WriteDocument, FailStage,
       FinishProof, FinishFinal, Return, Crash, StageFails, StoreFailsInRun, StoreFails, KeepStore,
       store, recover_stale_work, create_job, record_verified_input, put_work_unit, start_work_unit,
       fail_work_unit
  <1>4. QED
    BY <1>1, <1>2, <1>3 DEF SliceNext

LEMMA RowsStep ==
  ASSUME VoiceInv, ContentInv, [SliceNext]_slice PROVE RowsAgree(artifacts') /\ RowsProper(artifacts')
  <1>0. \A n \in Names : Owner(n) \in Stages /\ n \in NamesOf(Owner(n))
    BY StagesAssumption DEF Names, Owner, NamesOf
  <1>1. CASE artifacts' = artifacts
    BY <1>1 DEF ContentInv
  <1>2. ASSUME NEW p \in Publishers, Commit(p), artifacts' # artifacts
        PROVE  RowsAgree(artifacts') /\ RowsProper(artifacts')
    <2> DEFINE s == run[p].stage
               made == run[p].made
    <2>1. commit_artifacts(s, [n \in NamesOf(s) |-> made]) /\ run[p].pc = "commit"
      BY <1>2 DEF Commit, KeepStore, store, At
    <2>2. \A n \in Names : artifacts'[n] = IF Owner(n) = s THEN [row |-> "valid", digest |-> made]
                                           ELSE artifacts[n]
      BY <2>1 DEF commit_artifacts, NamesOf
    <2>3. Proper(s, made)
      BY <2>1 DEF ContentInv, RunProper
    <2>4. RowsAgree(artifacts')
      BY <2>2 DEF ContentInv, RowsAgree, NamesOf
    <2>5. RowsProper(artifacts')
      BY <2>2, <2>3 DEF ContentInv, RowsProper
    <2>6. QED
      BY <2>4, <2>5
  <1>3. ASSUME NEW p \in Publishers, Invalidate(p)
        PROVE  RowsAgree(artifacts') /\ RowsProper(artifacts')
    <2>1. apply_invalidation({run[p].damaged})
      BY <1>3 DEF Invalidate
    <2>2. \A n \in Names : DOMAIN artifacts[n] = {"row", "digest"}
      BY RowFields DEF VoiceInv, TablesFit
    <2>3. \A n \in Names : /\ artifacts'[n].row = IF Owner(n) \in Affected({run[p].damaged}) /\ Valid(n)
                                                  THEN "invalid" ELSE artifacts[n].row
                           /\ artifacts'[n].digest = artifacts[n].digest
      BY <2>1, <2>2 DEF apply_invalidation
    <2>4. RowsAgree(artifacts')
      BY <2>3 DEF ContentInv, RowsAgree, NamesOf, Valid
    <2>5. RowsProper(artifacts')
      BY <2>3 DEF ContentInv, RowsProper
    <2>6. QED
      BY <2>4, <2>5
  <1>4. QED
    BY <1>1, <1>2, <1>3, ArtifactsMove

LEMMA RunProperOutside ==
  ASSUME NEW r, r.pc \notin {"side", "document", "commit", "invalidate", "fresh", "copy"}
  PROVE  RunProper(r)
  BY DEF RunProper

\* What the run takes from the scan, and what it makes.
LEMMA ScanProper ==
  ASSUME VoiceInv, ContentInv, NEW p \in Publishers,
         Scan(p) \/ Invalidate(p) \/ CheckFresh(p) \/ CopyUpstream(p)
  PROVE  RunProper(run'[p])
  <1>1. RunProper(run[p])
    BY DEF ContentInv
  <1>2. CASE Scan(p)
    <2>1. run[p].pc = "scan"
      BY <1>2, ScanForm
    <2>2. CASE Raise(p, "raised")
      BY <2>2, RaiseFields, RunProperOutside DEF VoiceInv
    <2>3. ASSUME NEW damaged, NEW calm, Resume(p, run[p].ws, damaged, calm)
          PROVE  RunProper(run'[p])
      <3> DEFINE rows == ScanRows(run[p].ws, damaged)
      <3>1. \A n \in Names : rows[n] # None => Proper(Owner(n), rows[n])
        BY DEF ContentInv, RowsProper, Rows, valid_artifacts, Valid, ScanRows
      <3>2. run'[p].pc \in {"stage", "invalidate"} /\ run'[p].rows = rows
        BY <2>1, <2>3, ResumeFields DEF VoiceInv
      <3> HIDE DEF rows
      <3>3. QED
        BY <3>1, <3>2 DEF RunProper
    <2>4. QED
      BY <1>2, <2>2, <2>3, ScanForm
  <1>3. CASE Invalidate(p) \/ CheckFresh(p) \/ CopyUpstream(p)
    <2>1. run[p].pc \in {"invalidate", "fresh", "copy"}
      BY <1>3 DEF Invalidate, CheckFresh, CopyUpstream, At
    <2>2. CASE Raise(p, "fresh_required")
      BY <2>2, RaiseFields, RunProperOutside DEF VoiceInv
    <2>3. ASSUME NEW pc \in {"fresh", "copy"}, Jump(p, pc) PROVE RunProper(run'[p])
      <3>1. run'[p].pc = pc /\ run'[p].rows = run[p].rows
        BY <2>1, <2>3, JumpFields DEF VoiceInv, Over
      <3>2. QED
        BY <1>1, <2>1, <3>1 DEF RunProper
    <2>4. CASE run' = [run EXCEPT ![p].pc = "stage", ![p].ws = run[p].call.fresh]
      <3>1. run'[p].pc = "stage"
        BY <2>1, <2>4 DEF VoiceInv, RunInv, Fields, Over
      <3>2. QED
        BY <3>1, RunProperOutside
    <2>5. CASE run' = run
      BY <1>1, <2>5
    <2>6. QED
      BY <1>3, <2>2, <2>3, <2>4, <2>5 DEF Invalidate, CheckFresh, CopyUpstream
  <1>4. QED
    BY <1>2, <1>3

LEMMA MadeProper ==
  ASSUME VoiceInv, FilesInv, ContentInv, NEW p \in Publishers,
         \/ Prepare(p) \/ PrepareBackup(p) \/ Proof(p) \/ WriteSide(p) \/ WriteDocument(p)
         \/ Commit(p)
  PROVE  RunProper(run'[p])
  <1>1. /\ run[p].pc \in {"prepare", "proof", "side", "document", "commit"}
        /\ run[p].stage \in Stages
    BY DEF Prepare, PrepareBackup, Proof, WriteSide, WriteDocument, Commit, At, VoiceInv, RunInv,
           InOneStage
  <1>2. RunProper(run[p])
    BY DEF ContentInv
  <1>3. ASSUME NEW pc \in {"failing", "proof"}, Jump(p, pc) PROVE RunProper(run'[p])
    BY <1>1, <1>3, JumpFields, RunProperOutside DEF VoiceInv, Over
  <1>4. ASSUME NEW pc \in {"side", "document"}, NEW made, Proper(run[p].stage, made),
               run' = [run EXCEPT ![p].made = made, ![p].pc = pc]
        PROVE  RunProper(run'[p])
    <2>1. run'[p].pc = pc /\ run'[p].made = made /\ run'[p].stage = run[p].stage
      BY <1>1, <1>4 DEF VoiceInv, RunInv, Fields, Over
    <2>2. QED
      BY <1>4, <2>1 DEF RunProper
  <1>5. CASE Prepare(p)
    <2> DEFINE s == run[p].stage
               upstream == IF s = 1 THEN Content(0, None, None) ELSE run[p].docs[s - 1]
    <2>1. CASE Jump(p, "failing")
      BY <1>3, <2>1
    <2>2. ASSUME NEW voice \in IF s = TTS THEN Voices ELSE {upstream.voice},
                 run' = [run EXCEPT ![p].made = Content(s, voice, None),
                                    ![p].pc = IF s \in Sided THEN "side" ELSE "document"]
          PROVE  RunProper(run'[p])
      <3> DEFINE pc == IF s \in Sided THEN "side" ELSE "document"
                 made == Content(s, voice, None)
      <3>1. Proper(s, made)
        BY <2>2, ContentIsProper
      <3>2. pc \in {"side", "document"} /\ run' = [run EXCEPT ![p].made = made, ![p].pc = pc]
        BY <2>2
      <3> HIDE DEF pc, made
      <3>3. QED
        BY <1>4, <3>1, <3>2
    <2>3. QED
      BY <1>5, <2>1, <2>2 DEF Prepare
  <1>6. CASE PrepareBackup(p)
    <2> DEFINE there == files[run[p].ws][Document(BACKUP)]
    <2>1. run[p].stage = BACKUP /\ run[p].ws \in Workspaces
      BY <1>1, <1>6 DEF PrepareBackup, FilesInv, RunTyped, Over
    <2>2. \/ Jump(p, "failing") \/ Jump(p, "proof")
          \/ there # None /\ run' = [run EXCEPT ![p].made = there.content, ![p].pc = "document"]
      BY <1>6 DEF PrepareBackup
    <2>3. there # None => Proper(BACKUP, there.content)
      BY <1>1, <2>1, OwnersOfNames DEF ContentInv, FilesProper
    <2>4. QED
      BY <1>3, <1>4, <2>1, <2>2, <2>3
  <1>7. CASE Proof(p)
    <2> DEFINE made == Content(BACKUP, run[p].docs[PUBLISH].voice, pub[p].id)
    <2>1. run[p].stage = BACKUP
      BY <1>7 DEF Proof, At, VoiceInv, RunFits
    <2>2. BACKUP # TTS
      BY SliceAssumption, StagesAssumption DEF BACKUP, PUBLISH, Stages, INGEST
    <2>3. Proper(BACKUP, made)
      BY <2>2, ContentIsProper
    <2>4. Jump(p, "failing") \/ run' = [run EXCEPT ![p].made = made, ![p].pc = "document"]
      BY <1>7 DEF Proof
    <2> HIDE DEF made
    <2>5. QED
      BY <1>3, <1>4, <2>1, <2>3, <2>4
  <1>8. CASE WriteSide(p) \/ WriteDocument(p)
    <2>1. run[p].pc \in {"side", "document"}
      BY <1>8 DEF WriteSide, WriteDocument, At
    <2>2. PICK pc \in {"document", "commit", "failing"} : Jump(p, pc)
      BY <1>8 DEF WriteSide, WriteDocument
    <2>3. run'[p].pc = pc /\ run'[p].made = run[p].made /\ run'[p].stage = run[p].stage
      BY <1>1, <2>2, JumpFields DEF VoiceInv, Over
    <2>4. QED
      BY <1>2, <2>1, <2>3 DEF RunProper
  <1>9. CASE Commit(p)
    <2>1. CASE Jump(p, "failing")
      BY <1>3, <2>1
    <2>2. CASE run' = [run EXCEPT ![p].docs[run[p].stage] = run[p].made,
                                  ![p].stage = run[p].stage + 1, ![p].pc = "stage"]
      <3>1. run'[p].pc = "stage"
        BY <1>1, <2>2 DEF VoiceInv, RunInv, Fields, Over
      <3>2. QED
        BY <3>1, RunProperOutside
    <2>3. QED
      BY <1>9, <2>1, <2>2 DEF Commit
  <1>10. QED
    BY <1>5, <1>6, <1>7, <1>8, <1>9

\* All other steps lead to places where a run carries neither.
LEMMA RestProper ==
  ASSUME VoiceInv, ContentInv, NEW p \in Publishers,
         \/ Begin(p) \/ Crash(p) \/ Recover(p) \/ CreateJob(p) \/ RecordInput(p) \/ EnsureUnit(p)
         \/ StartStage(p) \/ FailStage(p) \/ StageFails(p) \/ FinishProof(p) \/ FinishFinal(p)
         \/ Return(p) \/ Publishing(p) \/ StoreFailsInRun(p)
  PROVE  RunProper(run'[p])
  <1>1. CASE Recover(p) \/ CreateJob(p) \/ RecordInput(p) \/ FailStage(p) \/ FinishProof(p)
             \/ FinishFinal(p) \/ Return(p) \/ StartStage(p)
    <2>1. run[p].pc \notin Over /\ run[p].pc \in {"create", "input", "recover", "stage", "failing",
                                                  "finish", "proven", "final"}
      BY <1>1 DEF Recover, CreateJob, RecordInput, FailStage, FinishProof, FinishFinal, Return,
                  StartStage, At, Over
    <2>2. \/ \E pc \in {"create", "input", "units", "prepare", "finish", "proven", "final"} :
                Jump(p, pc)
          \/ \E how \in {"raised", "returned"} : Raise(p, how)
          \/ run[p].pc = "stage" /\ run' = [run EXCEPT ![p].stage = run[p].stage + 1]
      BY <1>1 DEF Recover, CreateJob, RecordInput, FailStage, FinishProof, FinishFinal, Return,
                  StartStage, At
    <2>3. CASE run[p].pc = "stage" /\ run' = [run EXCEPT ![p].stage = run[p].stage + 1]
      <3>1. run'[p].pc = "stage"
        BY <2>1, <2>3 DEF VoiceInv, RunInv, Fields
      <3>2. QED
        BY <3>1, RunProperOutside
    <2>4. QED
      BY <2>1, <2>2, <2>3, JumpFields, RaiseFields, RunProperOutside DEF VoiceInv
  <1>2. CASE EnsureUnit(p)
    <2>1. run'[p].pc \in {"units", "scan"}
      BY <1>2 DEF EnsureUnit, At, VoiceInv, RunInv, Fields, Over
    <2>2. QED
      BY <2>1, RunProperOutside
  <1>3. CASE Begin(p) \/ Crash(p) \/ StageFails(p)
    <2>1. run'[p].pc \in {"recover", "idle", "failing"}
      BY <1>3 DEF Begin, Crash, StageFails, NotRunning, VoiceInv, RunInv, Fields, Over
    <2>2. QED
      BY <2>1, RunProperOutside
  <1>4. CASE Publishing(p)
    BY <1>4 DEF Publishing, ContentInv
  <1>5. CASE StoreFailsInRun(p)
    <2>1. run'[p].pc \in Waiting
      BY <1>5 DEF StoreFailsInRun, VoiceInv, RunInv, Fields, Over, Waiting
    <2>2. QED
      BY <2>1, RunProperOutside DEF Waiting
  <1>6. QED
    BY <1>1, <1>2, <1>3, <1>4, <1>5

LEMMA ContentStep ==
  ASSUME VoiceInv, FilesInv, ContentInv, NoneIsNothing, [SliceNext]_slice PROVE ContentInv'
  <1>1. FilesProper(files') /\ RowsAgree(artifacts') /\ RowsProper(artifacts')
    BY FilesProperStep, RowsStep
  <1>2. ASSUME NEW p \in Publishers PROVE RunProper(run'[p])
    <2>1. CASE run' = run
      BY <2>1 DEF ContentInv
    <2>2. CASE UNCHANGED slice \/ DamageFile \/ DamageObject
      BY <2>1, <2>2 DEF slice, DamageFile, DamageObject
    <2>3. ASSUME NEW q \in Publishers, RunStep(q) \/ Crash(q) \/ StageFails(q) \/ StoreFailsInRun(q)
          PROVE  RunProper(run'[p])
      <3>1. q = p
        BY DEF VoiceInv, OneProcess
      <3>2. QED
        BY <2>3, <3>1, ScanProper, MadeProper, RestProper DEF RunStep
    <2>4. QED
      BY <2>2, <2>3 DEF SliceNext
  <1>3. QED
    BY <1>1, <1>2 DEF ContentInv, FilesProper, RowsAgree, RowsProper

LEMMA ContentStart == SliceInit => ContentInv
  <1> SUFFICES ASSUME SliceInit PROVE ContentInv
    OBVIOUS
  <1>1. FilesProper(files)
    BY DEF SliceInit, FilesProper
  <1>2. RowsAgree(artifacts) /\ RowsProper(artifacts)
    BY DEF SliceInit, EmptyStore, RowsAgree, RowsProper, NamesOf
  <1>3. \A p \in Publishers : RunProper(run[p])
    BY RunProperOutside DEF SliceInit, NotRunning
  <1>4. QED
    BY <1>1, <1>2, <1>3 DEF ContentInv

\* The scan found every result there is, up to the stage that is damaged; what is made from
\* the audio was found with the audio.
Found(r, u) ==
    /\ r.pc \in InLoop \union {"fresh", "copy"} =>
          \A s \in Stages : u[s].status = "SUCCEEDED" => r.docs[s] # None
    /\ r.pc = "invalidate" =>
          \A s \in Stages : s < r.damaged /\ u[s].status = "SUCCEEDED" => r.docs[s] # None
    /\ r.pc \in {"invalidate", "fresh", "copy"} =>
          /\ \A s \in Stages : s > TTS /\ r.docs[s] # None =>
                r.docs[TTS] # None /\ r.docs[TTS].voice = r.docs[s].voice
          /\ \A n \in Names : r.rows[n] # None => r.docs[Owner(n)] # None

FoundInv == \A p \in Publishers : Found(run[p], unit)

LEMMA FoundOutside == ASSUME NEW r, NEW u, r.pc \notin AfterScan PROVE Found(r, u)
  BY DEF Found, AfterScan

\* The places of the stages that differ.
LEMMA Places ==
  /\ {TTS, RENDER, PUBLISH, BACKUP} \subseteq Stages
  /\ 1 < TTS /\ TTS < RENDER /\ RENDER < PUBLISH /\ PUBLISH < BACKUP /\ BACKUP = PUBLISH + 1
  /\ BACKUP \notin Sided
  BY SliceAssumption, StagesAssumption DEF BACKUP, PUBLISH, Stages, INGEST

LEMMA SuccessIsSound ==
  ASSUME NoneIsNothing, NEW w, NEW was, NEW damaged, NEW calm,
         ScanSees(w, was, damaged, calm), NEW s \in Succeeded, damaged = None \/ s < damaged
  PROVE  s \in Sound(w, damaged)
  <1> DEFINE broken == Succeeded \ Readable(w)
             invalid == {t \in Stages : unit[t].status = "INVALID"}
  <1>1. broken \in SUBSET Stages /\ s \in Stages
    BY DEF Succeeded
  <1>2. CASE damaged = Damage(w)
    <2>1. Damage(w) = IF broken # {} THEN FirstOf(broken)
                      ELSE IF invalid # {} THEN FirstOf(invalid) ELSE None
      BY DEF Damage
    <2>2. s \notin broken
      <3> SUFFICES ASSUME s \in broken PROVE FALSE
        OBVIOUS
      <3> HIDE DEF broken, invalid
      <3>1. Damage(w) \in Stages /\ Damage(w) <= s
        BY <1>1, <2>1, FirstIsThere
      <3>2. QED
        BY <1>1, <1>2, <3>1 DEF NoneIsNothing, Stages
    <2>3. QED
      BY <2>2 DEF Sound
  <1>3. CASE damaged \in Readable(w)
    <2>1. damaged \in Stages /\ s < damaged
      BY <1>3 DEF Readable, NoneIsNothing
    <2>2. s \in Readable(w)
      BY <1>1, <1>3, <2>1, StagesAssumption DEF Readable, Stages
    <2>3. QED
      BY <2>1, <2>2 DEF Sound
  <1>4. QED
    BY <1>2, <1>3 DEF ScanSees

LEMMA SoundBelow ==
  ASSUME NEW w, NEW damaged, damaged = None \/ damaged \in Stages,
         NEW s \in Sound(w, damaged), NEW t \in Stages, t < s
  PROVE  t \in Sound(w, damaged)
  <1>1. s \in Readable(w) /\ s \in Stages /\ (damaged = None \/ s < damaged)
    BY DEF Sound, Readable
  <1>2. t \in Readable(w)
    BY <1>1, StagesAssumption DEF Readable, Stages
  <1>3. damaged = None \/ t < damaged
    BY <1>1, StagesAssumption DEF Stages
  <1>4. QED
    BY <1>2, <1>3 DEF Sound

\* The documents of what SUCCEEDED are contents.
LEMMA SuccessHasRows ==
  ASSUME VoiceInv, ContentInv, NoneIsNothing, NEW s \in Stages, unit[s].status = "SUCCEEDED"
  PROVE  /\ \A n \in NamesOf(s) : Valid(n) /\ artifacts[n].digest = artifacts[Document(s)].digest
         /\ Valid(Document(s)) /\ Proper(s, artifacts[Document(s)].digest)
         /\ artifacts[Document(s)].digest # None
  <1>1. \A n \in NamesOf(s) : Valid(n) /\ artifacts[n].digest = artifacts[Document(s)].digest
    BY DEF VoiceInv, TablesFit, RowsAreAlike
  <1>2. Document(s) \in NamesOf(s) /\ Owner(Document(s)) = s /\ Document(s) \in Names
    BY DocumentIsAName DEF NamesOf
  <1>3. Proper(s, artifacts[Document(s)].digest)
    BY <1>1, <1>2 DEF ContentInv, RowsProper, Valid
  <1>4. QED
    BY <1>1, <1>2, <1>3, ProperIsThere

LEMMA ScanFound ==
  ASSUME VoiceInv, ContentInv, NoneIsNothing, NEW p \in Publishers, Scan(p)
  PROVE  Found(run'[p], unit')
  <1>1. run[p].pc = "scan" /\ unit' = unit
    BY ScanForm DEF store
  <1>2. CASE Raise(p, "raised")
    BY <1>2, RaiseFields, FoundOutside DEF VoiceInv, AfterScan, InLoop
  <1>3. ASSUME NEW damaged, NEW calm, Resume(p, run[p].ws, damaged, calm),
               ScanSees(run[p].ws, run[p].calm, damaged, calm)
        PROVE  Found(run'[p], unit')
    <2> DEFINE w == run[p].ws
               pc == IF damaged = None THEN "stage" ELSE "invalidate"
               docs == ScanDocs(w, damaged)
               rows == ScanRows(w, damaged)
    <2>0. damaged = None \/ damaged \in Stages
      BY <1>3, ScanSeesAStage
    <2>1. \A s \in Sound(w, damaged) : s \in Stages /\ unit[s].status = "SUCCEEDED"
      BY StagesAssumption DEF Sound, Readable, Succeeded, Stages
    <2>2. \A s \in Sound(w, damaged) :
             /\ docs[s] = artifacts[Document(s)].digest /\ docs[s] # None
             /\ Valid(Document(s)) /\ Document(s) \in Names
      BY <2>1, SuccessHasRows, OwnersOfNames DEF ScanDocs
    <2>3. \A s \in Stages : docs[s] # None => s \in Sound(w, damaged)
      BY DEF ScanDocs
    <2>4. \A s \in Stages :
             unit[s].status = "SUCCEEDED" /\ (damaged = None \/ s < damaged) => docs[s] # None
      BY <1>3, <2>2, SuccessIsSound DEF Succeeded
    <2>5. ASSUME NEW s \in Stages, s > TTS, docs[s] # None
          PROVE  docs[TTS] # None /\ docs[TTS].voice = docs[s].voice
      <3>1. s \in Sound(w, damaged) /\ TTS \in Sound(w, damaged) /\ TTS \in Stages
        BY <2>0, <2>3, <2>5, Places, SoundBelow DEF Stages
      <3>2. Document(s) \in valid_artifacts /\ Document(TTS) \in valid_artifacts
        BY <2>2, <3>1 DEF valid_artifacts
      <3>3. Owner(Document(s)) = s /\ Owner(Document(TTS)) = TTS
        BY <3>1, OwnersOfNames
      <3>4. artifacts[Document(TTS)].digest.voice = artifacts[Document(s)].digest.voice
        BY <2>5, <3>1, <3>2, <3>3, Places DEF VoiceInv, TablesFit, OneVoice, Stages
      <3>5. QED
        BY <2>2, <3>1, <3>4
    <2>6. \A n \in Names : rows[n] # None => docs[Owner(n)] # None
      BY <2>2 DEF Rows, valid_artifacts, ScanRows
    <2>7. pc = (IF damaged = None THEN "stage" ELSE "invalidate")
      OBVIOUS
    <2>8. /\ run'[p].pc = pc /\ run'[p].docs = docs /\ run'[p].rows = rows
          /\ run'[p].damaged = damaged
      BY <1>1, <1>3, ResumeFields DEF VoiceInv
    <2> HIDE DEF pc, docs, rows
    <2>9. QED
      BY <1>1, <2>4, <2>5, <2>6, <2>7, <2>8 DEF Found, InLoop
  <1>4. QED
    BY <1>2, <1>3, ScanForm

LEMMA CommitFound ==
  ASSUME VoiceInv, ContentInv, FoundInv, NoneIsNothing, NEW p \in Publishers, Commit(p)
  PROVE  Found(run'[p], unit')
  <1> DEFINE s == run[p].stage
             made == run[p].made
  <1>1. run[p].pc = "commit" /\ s \in Stages
    BY DEF Commit, At, VoiceInv, RunInv, InOneStage
  <1>2. CASE Jump(p, "failing")
    BY <1>1, <1>2, JumpFields, FoundOutside DEF VoiceInv, Over, AfterScan, InLoop
  <1>3. CASE /\ commit_artifacts(s, [n \in NamesOf(s) |-> made])
             /\ run' = [run EXCEPT ![p].docs[s] = made, ![p].stage = s + 1, ![p].pc = "stage"]
    <2>1. DOMAIN run[p].docs = Stages
      BY <1>1 DEF VoiceInv, RunFits, Over
    <2>2. \A u \in Stages : u # s => unit'[u] = unit[u]
      BY <1>3 DEF commit_artifacts, VoiceInv, StoreInv, StoreTypeOK
    <2>3. /\ run'[p].pc = "stage" /\ run'[p].docs = [run[p].docs EXCEPT ![s] = made]
      BY <1>1, <1>3 DEF VoiceInv, RunInv, Fields, Over
    <2>4. made # None
      BY <1>1, ProperIsThere DEF ContentInv, RunProper
    <2>5. \A u \in Stages : unit[u].status = "SUCCEEDED" => run[p].docs[u] # None
      BY <1>1 DEF FoundInv, Found, InLoop
    <2>6. \A u \in Stages : unit'[u].status = "SUCCEEDED" => run'[p].docs[u] # None
      BY <2>1, <2>2, <2>3, <2>4, <2>5
    <2>7. QED
      BY <2>3, <2>6 DEF Found
  <1>4. QED
    BY <1>2, <1>3 DEF Commit

\* Every other step leaves what was found, or goes where it does not matter.
CarriesOn(p) ==
    /\ run[p].pc \in AfterScan /\ run'[p].pc \in InLoop \union {"fresh", "copy"}
    /\ run'[p].docs = run[p].docs /\ run'[p].rows = run[p].rows
    /\ run'[p].pc \in {"fresh", "copy"} => run[p].pc \in {"invalidate", "fresh", "copy"}

LEMMA OthersCarryOn ==
  ASSUME VoiceInv, NEW p \in Publishers, ~Scan(p), ~Commit(p),
         RunStep(p) \/ Crash(p) \/ StageFails(p) \/ StoreFailsInRun(p)
  PROVE  run'[p].pc \notin AfterScan \/ CarriesOn(p)
  <1>1. ASSUME NEW pc, Jump(p, pc), run[p].pc \in AfterScan,
               pc \in AfterScan =>
                  /\ pc # "invalidate"
                  /\ pc \in {"fresh", "copy"} => run[p].pc \in {"invalidate", "fresh", "copy"}
        PROVE  run'[p].pc \notin AfterScan \/ CarriesOn(p)
    <2>1. run[p].pc \notin Over
      BY <1>1 DEF AfterScan, InLoop, Over
    <2>2. run'[p].pc = pc /\ run'[p].docs = run[p].docs /\ run'[p].rows = run[p].rows
      BY <1>1, <2>1, JumpFields DEF VoiceInv
    <2>3. QED
      BY <1>1, <2>2 DEF CarriesOn, AfterScan
  <1>2. ASSUME NEW how \in Over, Raise(p, how) PROVE run'[p].pc \notin AfterScan
    BY <1>2, RaiseFields DEF VoiceInv, Over, AfterScan, InLoop
  <1>3. ASSUME NEW pc, pc \notin AfterScan, Jump(p, pc), run[p].pc \notin Over
        PROVE  run'[p].pc \notin AfterScan
    BY <1>3, JumpFields DEF VoiceInv
  <1>4. ASSUME run'[p].pc \in InLoop, run[p].pc \in AfterScan, run'[p].docs = run[p].docs,
               run'[p].rows = run[p].rows
        PROVE  CarriesOn(p)
    BY <1>4 DEF CarriesOn, InLoop
  <1>5. CASE Begin(p) \/ Crash(p) \/ StageFails(p) \/ EnsureUnit(p)
    <2>1. run'[p].pc \in {"recover", "idle", "failing", "units", "scan"}
      BY <1>5 DEF Begin, Crash, StageFails, EnsureUnit, At, NotRunning, VoiceInv, RunInv, Fields, Over
    <2>2. QED
      BY <2>1 DEF AfterScan, InLoop
  <1>6. CASE Recover(p) \/ CreateJob(p) \/ RecordInput(p) \/ FailStage(p) \/ Return(p)
    <2>1. run[p].pc \notin Over
      BY <1>6 DEF Recover, CreateJob, RecordInput, FailStage, Return, At, Over
    <2>2. \/ \E pc \in {"create", "input", "units"} : Jump(p, pc)
          \/ \E how \in {"raised", "returned"} : Raise(p, how)
      BY <1>6 DEF Recover, CreateJob, RecordInput, FailStage, Return
    <2>3. QED
      BY <1>2, <1>3, <2>1, <2>2 DEF Over, AfterScan, InLoop
  <1>7. CASE Invalidate(p) \/ CheckFresh(p) \/ CopyUpstream(p)
    <2>1. run[p].pc \in {"invalidate", "fresh", "copy"}
      BY <1>7 DEF Invalidate, CheckFresh, CopyUpstream, At
    <2>2. \/ \E pc \in {"fresh", "copy"} : Jump(p, pc)
          \/ Raise(p, "fresh_required")
          \/ run[p].pc = "copy" /\ run' = run
          \/ run' = [run EXCEPT ![p].pc = "stage", ![p].ws = run[p].call.fresh]
      BY <1>7 DEF Invalidate, CheckFresh, CopyUpstream, At
    <2>3. CASE run' = [run EXCEPT ![p].pc = "stage", ![p].ws = run[p].call.fresh]
      <3>1. /\ run'[p].pc = "stage" /\ run'[p].docs = run[p].docs
            /\ run'[p].rows = run[p].rows
        BY <2>1, <2>3 DEF VoiceInv, RunInv, Fields, Over
      <3>2. QED
        BY <1>4, <2>1, <3>1 DEF AfterScan, InLoop
    <2>4. CASE run[p].pc = "copy" /\ run' = run
      BY <2>4 DEF CarriesOn, AfterScan
    <2>5. QED
      BY <1>1, <1>2, <2>1, <2>2, <2>3, <2>4 DEF Over, AfterScan
  <1>8. CASE StartStage(p)
    <2>1. run[p].pc = "stage"
      BY <1>8 DEF StartStage, At
    <2>2. \/ \E pc \in {"finish", "prepare"} : Jump(p, pc)
          \/ Raise(p, "raised")
          \/ run' = [run EXCEPT ![p].stage = run[p].stage + 1]
      BY <1>8 DEF StartStage
    <2>3. CASE run' = [run EXCEPT ![p].stage = run[p].stage + 1]
      <3>1. /\ run'[p].pc = "stage" /\ run'[p].docs = run[p].docs
            /\ run'[p].rows = run[p].rows
        BY <2>1, <2>3 DEF VoiceInv, RunInv, Fields, Over
      <3>2. QED
        BY <1>4, <2>1, <3>1 DEF AfterScan, InLoop
    <2>4. QED
      BY <1>1, <1>2, <2>1, <2>2, <2>3 DEF Over, AfterScan, InLoop
  <1>9. CASE Prepare(p) \/ PrepareBackup(p) \/ Proof(p)
    <2>1. run[p].pc \in {"prepare", "proof"}
      BY <1>9 DEF Prepare, PrepareBackup, Proof, At
    <2>2. ASSUME NEW pc \in {"side", "document"}, NEW made,
                 run' = [run EXCEPT ![p].made = made, ![p].pc = pc]
          PROVE  CarriesOn(p)
      <3>1. /\ run'[p].pc = pc /\ run'[p].docs = run[p].docs
            /\ run'[p].rows = run[p].rows
        BY <2>1, <2>2 DEF VoiceInv, RunInv, Fields, Over
      <3>2. QED
        BY <1>4, <2>1, <3>1 DEF AfterScan, InLoop
    <2>3. CASE Jump(p, "failing") \/ Jump(p, "proof")
      BY <1>1, <2>1, <2>3 DEF AfterScan, InLoop
    <2>4. CASE Proof(p)
      <3> DEFINE made == Content(BACKUP, run[p].docs[PUBLISH].voice, pub[p].id)
      <3>1. Jump(p, "failing") \/ run' = [run EXCEPT ![p].made = made, ![p].pc = "document"]
        BY <2>4 DEF Proof
      <3> HIDE DEF made
      <3>2. QED
        BY <2>2, <2>3, <3>1
    <2>5. CASE Prepare(p) \/ PrepareBackup(p)
      BY <2>2, <2>3, <2>5 DEF Prepare, PrepareBackup
    <2>6. QED
      BY <1>9, <2>4, <2>5
  <1>10. CASE WriteSide(p) \/ WriteDocument(p) \/ FinishProof(p) \/ FinishFinal(p)
    <2>1. run[p].pc \in {"side", "document", "finish", "proven"}
      BY <1>10 DEF WriteSide, WriteDocument, FinishProof, FinishFinal, At
    <2>2. \/ \E pc \in {"document", "commit", "failing", "proven", "final"} : Jump(p, pc)
          \/ Raise(p, "raised")
      BY <1>10 DEF WriteSide, WriteDocument, FinishProof, FinishFinal
    <2>3. QED
      BY <1>1, <1>2, <2>1, <2>2 DEF Over, AfterScan, InLoop
  <1>11. CASE Publishing(p) \/ StoreFailsInRun(p)
    <2>1. run[p].pc \in {"proof", "proven", "final"}
      BY <1>11 DEF Publishing, StoreFailsInRun
    <2>2. /\ run'[p].pc = run[p].pc /\ run'[p].docs = run[p].docs
          /\ run'[p].rows = run[p].rows
      BY <1>11, <2>1 DEF Publishing, StoreFailsInRun, VoiceInv, RunInv, Fields, Over
    <2>3. QED
      BY <1>4, <2>1, <2>2 DEF AfterScan, InLoop
  <1>12. QED
    BY <1>5, <1>6, <1>7, <1>8, <1>9, <1>10, <1>11 DEF RunStep

\* Commits and invalidations apart, the units that SUCCEEDED stay what they are.
LEMMA OthersAreQuiet ==
  ASSUME VoiceInv, NEW p \in Publishers, ~Invalidate(p), ~Commit(p),
         RunStep(p) \/ Crash(p) \/ StageFails(p) \/ StoreFailsInRun(p)
  PROVE  QuietStore
  <1>1. ASSUME UNCHANGED store PROVE QuietStore
    BY <1>1, QuietSteps DEF VoiceInv
  <1>2. CASE Recover(p) \/ CreateJob(p) \/ RecordInput(p)
    BY <1>2, QuietSteps DEF Recover, CreateJob, RecordInput, KeepStore, VoiceInv
  <1>3. CASE EnsureUnit(p) \/ FailStage(p)
    <2>1. run[p].stage \in Stages
      BY <1>3 DEF EnsureUnit, FailStage, At, VoiceInv, RunInv, InOneStage
    <2>2. QED
      BY <1>3, <2>1, QuietSteps DEF EnsureUnit, FailStage, KeepStore, VoiceInv
  <1>4. CASE StartStage(p)
    <2>1. UNCHANGED store \/ (run[p].stage <= StageCount /\ start_work_unit(run[p].stage))
      <3>1. run[p].stage \in Nat
        BY <1>4 DEF StartStage, At, VoiceInv, RunInv
      <3>2. QED
        BY <1>4, <3>1, StagesAssumption DEF StartStage, KeepStore
    <2>2. run[p].stage \in Nat \ {0}
      BY <1>4 DEF StartStage, At, VoiceInv, RunInv
    <2>3. run[p].stage <= StageCount => run[p].stage \in Stages
      BY <2>2, StagesAssumption DEF Stages
    <2>4. QED
      BY <1>1, <2>1, <2>3, QuietSteps DEF VoiceInv
  <1>5. CASE Publishing(p)
    BY <1>1, <1>5, QuietSteps DEF Publishing, PublishStep, Completed, Collect, Snapshot, Put,
                                  PutManifest, Record, VoiceInv
  <1>6. CASE ~(Recover(p) \/ CreateJob(p) \/ RecordInput(p) \/ EnsureUnit(p) \/ FailStage(p)
               \/ StartStage(p) \/ Publishing(p))
    <2>1. UNCHANGED store
      BY <1>6, ScanForm DEF RunStep, Begin, CheckFresh, CopyUpstream, Prepare, PrepareBackup, Proof,
         WriteSide, WriteDocument, FinishProof, FinishFinal, Return, Crash, StageFails,
         StoreFailsInRun, StoreFails, KeepStore
    <2>2. QED
      BY <1>1, <2>1
  <1>7. QED
    BY <1>2, <1>3, <1>4, <1>5, <1>6

LEMMA FoundStep ==
  ASSUME VoiceInv, ContentInv, FoundInv, NoneIsNothing, [SliceNext]_slice PROVE FoundInv'
  <1>1. CASE UNCHANGED slice \/ DamageFile \/ DamageObject
    BY <1>1 DEF slice, store, DamageFile, DamageObject, FoundInv
  <1>2. ASSUME NEW p \in Publishers, RunStep(p) \/ Crash(p) \/ StageFails(p) \/ StoreFailsInRun(p)
        PROVE  Found(run'[p], unit')
    <2>0. Found(run[p], unit)
      BY DEF FoundInv
    <2>1. CASE Scan(p) \/ Commit(p)
      BY <2>1, ScanFound, CommitFound
    <2>2. CASE Invalidate(p)
      <3>1. /\ run[p].pc = "invalidate" /\ Jump(p, "fresh")
            /\ apply_invalidation({run[p].damaged})
        BY <2>2 DEF Invalidate, At
      <3>2. /\ run'[p].pc = "fresh" /\ run'[p].docs = run[p].docs
            /\ run'[p].rows = run[p].rows
        BY <3>1, JumpFields DEF VoiceInv, Over
      <3>3. run[p].damaged \in Stages
        BY <3>1 DEF VoiceInv, RunFits
      <3>4. \A s \in Stages : unit'[s].status = "SUCCEEDED" =>
                unit[s].status = "SUCCEEDED" /\ s < run[p].damaged
        <4> SUFFICES ASSUME NEW s \in Stages, unit'[s].status = "SUCCEEDED"
                     PROVE  unit[s].status = "SUCCEEDED" /\ s < run[p].damaged
          OBVIOUS
        <4>1. unit'[s] = IF s \in Affected({run[p].damaged}) /\ unit[s].status # "ABSENT"
                         THEN [unit[s] EXCEPT !.status = "INVALID"] ELSE unit[s]
          BY <3>1 DEF apply_invalidation
        <4>2. ~(s \in Affected({run[p].damaged}) /\ unit[s].status # "ABSENT")
          BY <4>1 DEF VoiceInv, StoreInv, StoreTypeOK
        <4>3. unit[s].status = "SUCCEEDED" /\ s \notin Affected({run[p].damaged})
          BY <4>1, <4>2
        <4>4. ~(run[p].damaged <= s)
          BY <4>3 DEF Affected
        <4>5. QED
          BY <3>3, <4>3, <4>4, StagesAssumption DEF Stages
      <3>5. QED
        BY <2>0, <3>1, <3>2, <3>4 DEF Found, InLoop
    <2>3. CASE ~Scan(p) /\ ~Commit(p) /\ ~Invalidate(p)
      <3>1. QuietStore
        BY <1>2, <2>3, OthersAreQuiet
      <3>2. run'[p].pc \notin AfterScan \/ CarriesOn(p)
        BY <1>2, <2>3, OthersCarryOn
      <3>3. CASE CarriesOn(p)
        <4>1. run[p].pc # "invalidate"
          <5> SUFFICES ASSUME run[p].pc = "invalidate" PROVE FALSE
            OBVIOUS
          <5>1. Crash(p)
            BY <1>2, <2>3, ScanForm DEF RunStep, Begin, Recover, CreateJob, RecordInput, EnsureUnit,
               CheckFresh, CopyUpstream, StartStage, Prepare, PrepareBackup, Proof, WriteSide,
               WriteDocument, FailStage, FinishProof, FinishFinal, Return, Publishing,
               StageFails, StoreFailsInRun, At, Over
          <5>2. run'[p].pc = "idle"
            BY <5>1 DEF Crash, NotRunning, VoiceInv, RunInv
          <5>3. QED
            BY <3>3, <5>2 DEF CarriesOn, InLoop
        <4>2. QED
          BY <2>0, <3>1, <3>3, <4>1 DEF CarriesOn, Found, QuietStore, AfterScan, InLoop
      <3>4. QED
        BY <3>2, <3>3, FoundOutside
    <2>4. QED
      BY <2>1, <2>2, <2>3
  <1>3. ASSUME NEW p \in Publishers, NEW q \in Publishers PROVE p = q
    BY DEF VoiceInv, OneProcess
  <1>4. QED
    BY <1>1, <1>2, <1>3 DEF SliceNext, FoundInv

LEMMA FoundStart == SliceInit => FoundInv
  BY FoundOutside DEF SliceInit, NotRunning, FoundInv, AfterScan, InLoop

\* Where each step of a run leads.
LEMMA Leads ==
  ASSUME VoiceInv, NEW p \in Publishers
  PROVE  /\ Begin(p) => run'[p].pc = "recover"
         /\ Crash(p) => run'[p].pc = "idle"
         /\ Recover(p) => run'[p].pc = "create"
         /\ CreateJob(p) => run'[p].pc \in {"input", "raised"}
         /\ RecordInput(p) => run'[p].pc \in {"units", "raised"}
         /\ EnsureUnit(p) => run'[p].pc \in {"units", "scan"}
         /\ Scan(p) => run'[p].pc \in {"stage", "invalidate", "raised"}
         /\ Invalidate(p) => run'[p].pc = "fresh"
         /\ CheckFresh(p) => run'[p].pc \in {"copy", "fresh_required"}
         /\ CopyUpstream(p) => run'[p].pc \in {"copy", "stage", "fresh_required"}
         /\ StartStage(p) => run'[p].pc \in {"stage", "finish", "prepare", "raised"}
         /\ Prepare(p) => run'[p].pc \in {"side", "document", "failing"}
         /\ PrepareBackup(p) => run'[p].pc \in {"document", "proof", "failing"}
         /\ Proof(p) => run'[p].pc \in {"document", "failing"}
         /\ WriteSide(p) => run'[p].pc \in {"document", "failing"}
         /\ WriteDocument(p) => run'[p].pc \in {"commit", "failing"}
         /\ Commit(p) => run'[p].pc \in {"stage", "failing"}
         /\ FailStage(p) => run'[p].pc = "raised"
         /\ StageFails(p) => run'[p].pc = "failing"
         /\ FinishProof(p) => run'[p].pc = "proven"
         /\ FinishFinal(p) => run'[p].pc \in {"final", "raised"}
         /\ Return(p) => run'[p].pc \in {"returned", "raised"}
         /\ Publishing(p) \/ StoreFailsInRun(p) => run'[p].pc = run[p].pc
  <1> USE DEF At
  <1>1. ASSUME NEW pc, Jump(p, pc), run[p].pc \notin Over PROVE run'[p].pc = pc
    BY <1>1, JumpFields DEF VoiceInv
  <1>2. ASSUME NEW how, Raise(p, how) PROVE run'[p].pc = how
    BY <1>2, RaiseFields DEF VoiceInv
  <1>3. /\ Begin(p) => run'[p].pc = "recover"
        /\ Crash(p) => run'[p].pc = "idle"
        /\ StageFails(p) => run'[p].pc = "failing"
        /\ EnsureUnit(p) => run'[p].pc \in {"units", "scan"}
    BY DEF Begin, Crash, StageFails, EnsureUnit, NotRunning, VoiceInv, RunInv, Fields, Over
  <1>4. /\ Recover(p) => run'[p].pc = "create"
        /\ CreateJob(p) => run'[p].pc \in {"input", "raised"}
        /\ RecordInput(p) => run'[p].pc \in {"units", "raised"}
        /\ Invalidate(p) => run'[p].pc = "fresh"
        /\ CheckFresh(p) => run'[p].pc \in {"copy", "fresh_required"}
    BY <1>1, <1>2 DEF Recover, CreateJob, RecordInput, Invalidate, CheckFresh, Over
  <1>5. /\ WriteSide(p) => run'[p].pc \in {"document", "failing"}
        /\ WriteDocument(p) => run'[p].pc \in {"commit", "failing"}
        /\ FailStage(p) => run'[p].pc = "raised"
        /\ FinishProof(p) => run'[p].pc = "proven"
        /\ FinishFinal(p) => run'[p].pc \in {"final", "raised"}
        /\ Return(p) => run'[p].pc \in {"returned", "raised"}
    BY <1>1, <1>2 DEF WriteSide, WriteDocument, FailStage, FinishProof, FinishFinal, Return, Over
  <1>6. CopyUpstream(p) => run'[p].pc \in {"copy", "stage", "fresh_required"}
    <2> SUFFICES ASSUME CopyUpstream(p) PROVE run'[p].pc \in {"copy", "stage", "fresh_required"}
      OBVIOUS
    <2>1. run[p].pc = "copy"
      BY DEF CopyUpstream
    <2>2. \/ run' = run \/ Raise(p, "fresh_required")
          \/ run' = [run EXCEPT ![p].pc = "stage", ![p].ws = run[p].call.fresh]
      BY DEF CopyUpstream
    <2>3. QED
      BY <1>2, <2>1, <2>2 DEF VoiceInv, RunInv, Fields, Over
  <1>7. StartStage(p) => run'[p].pc \in {"stage", "finish", "prepare", "raised"}
    <2> SUFFICES ASSUME StartStage(p) PROVE run'[p].pc \in {"stage", "finish", "prepare", "raised"}
      OBVIOUS
    <2>1. run[p].pc = "stage"
      BY DEF StartStage
    <2>2. \/ Jump(p, "finish") \/ Jump(p, "prepare") \/ Raise(p, "raised")
          \/ run' = [run EXCEPT ![p].stage = run[p].stage + 1]
      BY DEF StartStage
    <2>3. run[p].pc \notin Over
      BY <2>1 DEF Over
    <2>4. CASE run' = [run EXCEPT ![p].stage = run[p].stage + 1]
      BY <2>1, <2>3, <2>4 DEF VoiceInv, RunInv, Fields
    <2>5. QED
      BY <1>1, <1>2, <2>2, <2>3, <2>4
  <1>8. Scan(p) => run'[p].pc \in {"stage", "invalidate", "raised"}
    <2> SUFFICES ASSUME Scan(p) PROVE run'[p].pc \in {"stage", "invalidate", "raised"}
      OBVIOUS
    <2>1. run[p].pc = "scan"
      BY ScanForm
    <2>2. CASE Raise(p, "raised")
      BY <1>2, <2>2
    <2>3. ASSUME NEW damaged, NEW calm, Resume(p, run[p].ws, damaged, calm)
          PROVE  run'[p].pc \in {"stage", "invalidate"}
      BY <2>1, <2>3, ResumeFields DEF VoiceInv
    <2>4. QED
      BY <2>2, <2>3, ScanForm
  <1>9. Prepare(p) => run'[p].pc \in {"side", "document", "failing"}
    <2> SUFFICES ASSUME Prepare(p) PROVE run'[p].pc \in {"side", "document", "failing"}
      OBVIOUS
    <2> DEFINE s == run[p].stage
               upstream == IF s = 1 THEN Content(0, None, None) ELSE run[p].docs[s - 1]
    <2>1. run[p].pc = "prepare"
      BY DEF Prepare
    <2>2. ASSUME NEW voice \in IF s = TTS THEN Voices ELSE {upstream.voice},
                 run' = [run EXCEPT ![p].made = Content(s, voice, None),
                                    ![p].pc = IF s \in Sided THEN "side" ELSE "document"]
          PROVE  run'[p].pc \in {"side", "document"}
      <3> DEFINE pc == IF s \in Sided THEN "side" ELSE "document"
                 made == Content(s, voice, None)
      <3>1. pc \in {"side", "document"} /\ run' = [run EXCEPT ![p].made = made, ![p].pc = pc]
        BY <2>2
      <3> HIDE DEF pc, made
      <3>2. QED
        BY <2>1, <3>1 DEF VoiceInv, RunInv, Fields, Over
    <2>3. CASE Jump(p, "failing")
      BY <1>1, <2>1, <2>3 DEF Over
    <2>4. QED
      BY <2>2, <2>3 DEF Prepare
  <1>10. PrepareBackup(p) => run'[p].pc \in {"document", "proof", "failing"}
    <2> SUFFICES ASSUME PrepareBackup(p) PROVE run'[p].pc \in {"document", "proof", "failing"}
      OBVIOUS
    <2>1. run[p].pc = "prepare"
      BY DEF PrepareBackup
    <2>2. \/ Jump(p, "failing") \/ Jump(p, "proof")
          \/ \E made : run' = [run EXCEPT ![p].made = made, ![p].pc = "document"]
      BY DEF PrepareBackup
    <2>3. CASE Jump(p, "failing") \/ Jump(p, "proof")
      BY <1>1, <2>1, <2>3 DEF Over
    <2>4. ASSUME NEW made, run' = [run EXCEPT ![p].made = made, ![p].pc = "document"]
          PROVE  run'[p].pc = "document"
      BY <2>1, <2>4 DEF VoiceInv, RunInv, Fields, Over
    <2>5. QED
      BY <2>2, <2>3, <2>4
  <1>11. Proof(p) => run'[p].pc \in {"document", "failing"}
    <2> SUFFICES ASSUME Proof(p) PROVE run'[p].pc \in {"document", "failing"}
      OBVIOUS
    <2> DEFINE made == Content(BACKUP, run[p].docs[PUBLISH].voice, pub[p].id)
    <2>1. run[p].pc = "proof"
      BY DEF Proof
    <2>2. Jump(p, "failing") \/ run' = [run EXCEPT ![p].pc = "document", ![p].made = made]
      BY DEF Proof
    <2> HIDE DEF made
    <2>3. CASE run' = [run EXCEPT ![p].pc = "document", ![p].made = made]
      BY <2>1, <2>3 DEF VoiceInv, RunInv, Fields, Over
    <2>4. CASE Jump(p, "failing")
      BY <1>1, <2>1, <2>4 DEF Over
    <2>5. QED
      BY <2>2, <2>3, <2>4
  <1>12. Publishing(p) \/ StoreFailsInRun(p) => run'[p].pc = run[p].pc
    BY DEF Publishing, StoreFailsInRun, VoiceInv, RunInv, Fields, Over
  <1>13. Commit(p) => run'[p].pc \in {"stage", "failing"}
    <2> SUFFICES ASSUME Commit(p) PROVE run'[p].pc \in {"stage", "failing"}
      OBVIOUS
    <2>1. run[p].pc = "commit"
      BY DEF Commit
    <2>2. \/ Jump(p, "failing")
          \/ run' = [run EXCEPT ![p].docs[run[p].stage] = run[p].made,
                                ![p].stage = run[p].stage + 1, ![p].pc = "stage"]
      BY DEF Commit
    <2>3. CASE Jump(p, "failing")
      BY <1>1, <2>1, <2>3 DEF Over
    <2>4. QED
      BY <2>1, <2>2, <2>3 DEF VoiceInv, RunInv, Fields, Over
  <1>14. QED
    BY <1>3, <1>4, <1>5, <1>6, <1>7, <1>8, <1>9, <1>10, <1>11, <1>12, <1>13

\* Where nobody damages files: a file is whole, one that is made from the audio lies with the
\* document of that audio, and a checkpoint document names a proof of the records recs.
FilesGood(f, recs) ==
    \A w \in Workspaces, n \in Names : f[w][n] # None =>
        /\ f[w][n] = Whole(f[w][n].content)
        /\ Owner(n) > TTS => /\ f[w][Document(TTS)] # None
                             /\ f[w][Document(TTS)].content.voice = f[w][n].content.voice
        /\ Owner(n) = BACKUP => Known(recs, f[w][n].content.proof)

\* A checkpoint document that is not this run's is taken before another is made.
BackupFree(r, f) ==
    /\ r.pc = "proof" => f[r.ws][Document(BACKUP)] = None
    /\ r.pc = "document" /\ r.stage = BACKUP =>
          f[r.ws][Document(BACKUP)] \in {None, Whole(r.made)}

\* What a run makes from the audio has the voice of the audio.
LEMMA MadeVoice ==
  ASSUME VoiceInv, NEW p \in Publishers, run[p].pc \in {"side", "document", "commit"},
         run[p].stage \in Stages, run[p].stage > TTS
  PROVE  run[p].made.voice = artifacts[Document(TTS)].digest.voice
  <1> DEFINE s == run[p].stage
  <1>1. s - 1 \in Stages /\ TTS \in Stages /\ s - 1 < s /\ TTS < s /\ s - 1 >= TTS
    BY Places, StagesAssumption DEF Stages
  <1>2. /\ unit[s - 1].status = "SUCCEEDED" /\ unit[TTS].status = "SUCCEEDED"
        /\ run[p].docs[s - 1] = artifacts[Document(s - 1)].digest
        /\ run[p].made.voice = run[p].docs[s - 1].voice
    BY <1>1 DEF VoiceInv, RunFits, InLoop
  <1>3. Document(s - 1) \in valid_artifacts /\ Document(TTS) \in valid_artifacts
    BY <1>1, <1>2, DocumentIsAName DEF VoiceInv, TablesFit, RowsAreAlike, valid_artifacts, NamesOf
  <1>4. Owner(Document(s - 1)) = s - 1 /\ Owner(Document(TTS)) = TTS
    BY <1>1, DocumentIsAName
  <1>5. artifacts[Document(s - 1)].digest.voice = artifacts[Document(TTS)].digest.voice
    BY <1>1, <1>3, <1>4, Places DEF VoiceInv, TablesFit, OneVoice, Stages
  <1>6. QED
    BY <1>2, <1>5

LEMMA WriteGood ==
  ASSUME FilesTyped, FilesGood(files, records), records \subseteq records',
         NEW w \in Workspaces, NEW n \in Names, NEW content,
         CanWrite(w, n, content), Write(w, n, content),
         Owner(n) > TTS => /\ files[w][Document(TTS)] # None
                           /\ files[w][Document(TTS)].content.voice = content.voice,
         Owner(n) = BACKUP => Known(records, content.proof)
  PROVE  FilesGood(files', records')
  <1>1. /\ files'[w][n] = Whole(content)
        /\ \A v \in Workspaces, m \in Names : v # w \/ m # n => files'[v][m] = files[v][m]
    BY WriteTyped DEF Holds
  <1>2. \A i : Known(records, i) => Known(records', i)
    BY DEF Known
  <1>3. \A v \in Workspaces, m \in Names : files[v][m] # None => files'[v][m] = files[v][m]
    BY <1>1 DEF CanWrite, Has
  <1>4. Document(TTS) \in Names
    BY Places, OwnersOfNames
  <1>5. \A v \in Workspaces, m \in Names :
            files[v][m] = None /\ files'[v][m] # None => v = w /\ m = n
    BY <1>1
  <1> SUFFICES ASSUME NEW v \in Workspaces, NEW m \in Names, files'[v][m] # None
               PROVE  /\ files'[v][m] = Whole(files'[v][m].content)
                      /\ Owner(m) > TTS =>
                            /\ files'[v][Document(TTS)] # None
                            /\ files'[v][Document(TTS)].content.voice = files'[v][m].content.voice
                      /\ Owner(m) = BACKUP => Known(records', files'[v][m].content.proof)
    BY DEF FilesGood
  <1>6. CASE files[v][m] # None
    BY <1>2, <1>3, <1>4, <1>6 DEF FilesGood
  <1>7. CASE v = w /\ m = n
    <2>1. files'[v][m] = Whole(content) /\ Whole(content).content = content
      BY <1>1, <1>7 DEF Whole
    <2>2. QED
      BY <1>2, <1>3, <1>4, <1>7, <2>1
  <1>8. QED
    BY <1>5, <1>6, <1>7

LEMMA OwnWriteGood ==
  ASSUME NoneIsNothing, VoiceInv, FilesInv, Undamaged, RecordsInv, FilesGood(files, records), NEW p \in Publishers,
         records \subseteq records', WriteSide(p) \/ WriteDocument(p)
  PROVE  FilesGood(files', records')
  <1> DEFINE s == run[p].stage
             w == run[p].ws
             made == run[p].made
  <1>1. /\ run[p].pc \in {"side", "document"} /\ s \in Stages /\ w \in Workspaces
        /\ run[p].pc = "side" => s \in Sided /\ WriteSide(p)
    BY DEF WriteSide, WriteDocument, At, VoiceInv, RunInv, InOneStage, FilesInv, RunTyped, Over,
           RunFits
  <1>2. \A i : Known(records, i) => Known(records', i)
    BY DEF Known
  <1>3. CASE files' = files
    BY <1>2, <1>3 DEF FilesGood
  <1>4. \/ files' = files
        \/ \E n \in Names : /\ Owner(n) = s /\ CanWrite(w, n, made) /\ Write(w, n, made)
                            /\ s = BACKUP => run[p].pc = "document"
    <2>1. CASE WriteSide(p)
      <3>1. s \in Sided
        BY <2>1 DEF WriteSide, At, VoiceInv, RunFits
      <3>2. Side(s) \in Names /\ Owner(Side(s)) = s /\ s # BACKUP
        BY <1>1, <3>1, OwnersOfNames, Places
      <3>3. QED
        BY <2>1, <3>2 DEF WriteSide, objects
    <2>2. CASE WriteDocument(p)
      <3>1. Document(s) \in Names /\ Owner(Document(s)) = s
        BY <1>1, OwnersOfNames
      <3>2. QED
        BY <2>2, <3>1 DEF WriteDocument, objects, At
    <2>3. QED
      BY <2>1, <2>2
  <1>5. ASSUME NEW n \in Names, Owner(n) = s, CanWrite(w, n, made), Write(w, n, made),
               s = BACKUP => run[p].pc = "document"
        PROVE  FilesGood(files', records')
    <2>1. s = BACKUP => Known(records, made.proof)
      BY <1>5 DEF RecordsInv, ProofKnown
    <2>2. ASSUME s > TTS
          PROVE  files[w][Document(TTS)] # None
                 /\ files[w][Document(TTS)].content.voice = made.voice
      <3>1. TTS \in Stages /\ TTS < s
        BY <1>1, <2>2, Places DEF Stages
      <3>2. Document(TTS) \in NamesOf(TTS) /\ Document(TTS) \in Names
        BY <3>1, DocumentIsAName, OwnersOfNames
      <3>3. files[w][Document(TTS)] = Whole(artifacts[Document(TTS)].digest)
        BY <1>1, <3>1, <3>2 DEF FilesInv, FilesFit, InLoop, Holds
      <3>4. made.voice = artifacts[Document(TTS)].digest.voice
        BY <1>1, <2>2, MadeVoice
      <3>5. files[w][Document(TTS)] # None
        BY <3>3 DEF NoneIsNothing, NoneIsNoFile
      <3>6. QED
        BY <3>3, <3>4, <3>5 DEF Whole
    <2>3. QED
      BY <1>1, <1>5, <2>1, <2>2, WriteGood DEF FilesInv
  <1>6. QED
    BY <1>3, <1>4, <1>5

\* The files are copied in the order of their stages: the audio's document is there before
\* what was made from the audio.
LEMMA CopyGood ==
  ASSUME NoneIsNothing, VoiceInv, FilesInv, Undamaged, RecordsInv, FoundInv,
         FilesGood(files, records), NEW p \in Publishers, records \subseteq records', CopyUpstream(p)
  PROVE  FilesGood(files', records')
  <1> DEFINE from == run[p].ws
             to == run[p].call.fresh
             rows == run[p].rows
             todo == {n \in Names : rows[n] # None /\ files[to][n] = None}
  <1>1. run[p].pc = "copy" /\ to \in Workspaces
    BY DEF CopyUpstream, At, FilesInv, RunTyped, Over
  <1>2. \A i : Known(records, i) => Known(records', i)
    BY DEF Known
  <1>3. CASE UNCHANGED objects
    BY <1>2, <1>3 DEF FilesGood, objects
  <1>4. ASSUME NEW n \in todo, \A m \in todo \ {n} : Before(n, m), Write(to, n, rows[n])
        PROVE  FilesGood(files', records')
    <2> DEFINE s == Owner(n)
               docs == run[p].docs
    <2>1. n \in Names /\ rows[n] # None /\ files[to][n] = None
      OBVIOUS
    <2>2. s \in Stages /\ n \in NamesOf(s)
      BY <2>1, StagesAssumption DEF Names, Owner, NamesOf
    <2>3. docs[s] # None /\ rows[n] = docs[s]
      BY <1>1, <2>1, <2>2 DEF FoundInv, Found, FilesInv, FilesFit
    <2>4. s = BACKUP => Known(records, rows[n].proof)
      BY <1>1, <2>3 DEF RecordsInv, ProofKnown, AfterScan
    <2>5. ASSUME s > TTS
          PROVE  files[to][Document(TTS)] # None
                 /\ files[to][Document(TTS)].content.voice = rows[n].voice
      <3>1. docs[TTS] # None /\ docs[TTS].voice = docs[s].voice
        BY <1>1, <2>2, <2>3, <2>5 DEF FoundInv, Found
      <3>2. TTS \in Stages /\ Document(TTS) \in NamesOf(TTS) /\ Document(TTS) \in Names
            /\ Owner(Document(TTS)) = TTS
        BY Places, DocumentIsAName, OwnersOfNames
      <3>3. rows[Document(TTS)] = docs[TTS]
        BY <1>1, <3>1, <3>2 DEF FilesInv, FilesFit
      <3>4. files[to][Document(TTS)] # None
        <4> SUFFICES ASSUME files[to][Document(TTS)] = None PROVE FALSE
          OBVIOUS
        <4>1. Document(TTS) \in todo \ {n}
          BY <2>2, <2>5, <3>1, <3>2, <3>3 DEF Stages
        <4>2. Before(n, Document(TTS))
          BY <1>4, <4>1
        <4>3. ~(s < TTS) /\ s # TTS
          BY <2>2, <2>5, <3>2 DEF Stages
        <4>4. QED
          BY <3>2, <4>2, <4>3 DEF Before
      <3>5. files[to][Document(TTS)] = Whole(docs[TTS])
        BY <1>1, <3>2, <3>3, <3>4 DEF FilesInv, FilesFit, Holds
      <3>6. QED
        BY <2>3, <3>1, <3>4, <3>5 DEF Whole
    <2>6. CanWrite(to, n, rows[n])
      BY <2>1 DEF CanWrite
    <2>7. QED
      BY <1>1, <1>4, <2>1, <2>4, <2>5, <2>6, WriteGood DEF FilesInv
  <1>5. QED
    BY <1>3, <1>4 DEF CopyUpstream

\* The other steps leave the files alone.
LEMMA FilesMove ==
  ASSUME NEW p \in Publishers, RunStep(p) \/ Crash(p) \/ StageFails(p) \/ StoreFailsInRun(p)
  PROVE  files' = files \/ CopyUpstream(p) \/ WriteSide(p) \/ WriteDocument(p)
  <1>1. CASE Publishing(p)
    BY <1>1 DEF Publishing, PublishStep, Completed, Collect, Snapshot, Put, PutManifest,
                Record, objects
  <1>2. QED
    BY <1>1, ScanForm DEF RunStep, Begin, Recover, CreateJob, RecordInput, EnsureUnit, Invalidate,
       CheckFresh, StartStage, Prepare, PrepareBackup, Proof, Commit, FailStage, FinishProof,
       FinishFinal, Return, KeepAll, objects, Crash, StageFails, StoreFailsInRun, StoreFails

\* The records only grow, by the one a publication ends with.
LEMMA RecordsGrow ==
  ASSUME NEW p \in Publishers, RunStep(p) \/ Crash(p) \/ StageFails(p) \/ StoreFailsInRun(p)
  PROVE  /\ records \subseteq records'
         /\ \/ records' = records
            \/ /\ Publishing(p) /\ Record(p)
               /\ record_checkpoint(pub[p].id, pub[p].manifest) /\ Go(p, "done")
  <1>1. CASE Publishing(p)
    BY <1>1 DEF Publishing, PublishStep, Completed, Collect, Snapshot, Put, PutManifest,
                Record, record_checkpoint, store
  <1>2. CASE ~Publishing(p)
    BY <1>2, ScanForm DEF RunStep, Begin, Recover, CreateJob, RecordInput, EnsureUnit, Invalidate,
       CheckFresh, CopyUpstream, StartStage, Prepare, PrepareBackup, Proof, WriteSide, WriteDocument,
       Commit, FailStage, FinishProof, FinishFinal, Return, Crash, StageFails, StoreFailsInRun,
       StoreFails, KeepStore, store, recover_stale_work, create_job, record_verified_input,
       put_work_unit, start_work_unit, fail_work_unit, commit_artifacts, apply_invalidation
  <1>3. QED
    BY <1>1, <1>2

LEMMA FilesGoodStep ==
  ASSUME NoneIsNothing, VoiceInv, FilesInv, Undamaged, RecordsInv, FoundInv,
         FilesGood(files, records), NEW p \in Publishers,
         RunStep(p) \/ Crash(p) \/ StageFails(p) \/ StoreFailsInRun(p)
  PROVE  FilesGood(files', records')
  <1>1. records \subseteq records'
    BY RecordsGrow
  <1>2. \A i : Known(records, i) => Known(records', i)
    BY <1>1 DEF Known
  <1>3. CASE files' = files
    BY <1>2, <1>3 DEF FilesGood
  <1>4. QED
    BY <1>1, <1>3, FilesMove, OwnWriteGood, CopyGood

LEMMA BackupFreeStep ==
  ASSUME VoiceInv, FilesInv, Undamaged, FilesGood(files, records), NEW p \in Publishers,
         BackupFree(run[p], files),
         RunStep(p) \/ Crash(p) \/ StageFails(p) \/ StoreFailsInRun(p)
  PROVE  BackupFree(run'[p], files')
  <1>1. CASE run'[p].pc \notin {"proof", "document"}
    BY <1>1 DEF BackupFree
  <1>2. CASE Prepare(p) \/ WriteSide(p)
    <2>1. run'[p].pc # "proof"
      BY <1>2, Leads
    <2>2. run'[p].pc = "document" => run'[p].stage # BACKUP
      <3>1. CASE WriteSide(p)
        <4>1. run[p].pc = "side" /\ run[p].stage \in Sided
          BY <3>1 DEF WriteSide, At, VoiceInv, RunFits
        <4>2. \E pc : Jump(p, pc)
          BY <3>1 DEF WriteSide
        <4>3. run'[p].stage = run[p].stage
          BY <4>1, <4>2, JumpFields DEF VoiceInv, Over
        <4>4. QED
          BY <4>1, <4>3, Places
      <3>2. CASE Prepare(p)
        <4>1. run[p].pc = "prepare" /\ run[p].stage \in Stages /\ run[p].stage < BACKUP
          BY <3>2 DEF Prepare, At, VoiceInv, RunInv, InOneStage
        <4>2. \/ \E pc : Jump(p, pc)
              \/ \E made, pc : run' = [run EXCEPT ![p].made = made, ![p].pc = pc]
          BY <3>2 DEF Prepare
        <4>3. run'[p].stage = run[p].stage
          BY <4>1, <4>2, JumpFields DEF VoiceInv, Over, RunInv, Fields
        <4>4. QED
          BY <4>1, <4>3, Places DEF Stages
      <3>3. QED
        BY <1>2, <3>1, <3>2
    <2>3. QED
      BY <2>1, <2>2 DEF BackupFree
  <1>3. CASE PrepareBackup(p)
    <2> DEFINE there == files[run[p].ws][Document(BACKUP)]
    <2>1. run[p].pc = "prepare" /\ run[p].stage = BACKUP /\ files' = files
          /\ run[p].ws \in Workspaces
      BY <1>3 DEF PrepareBackup, At, objects, FilesInv, RunTyped, Over
    <2>2. CASE Jump(p, "failing")
      BY <2>1, <2>2, JumpFields DEF VoiceInv, Over, BackupFree
    <2>3. CASE there = None /\ Jump(p, "proof")
      <3>1. run'[p].pc = "proof" /\ run'[p].ws = run[p].ws
        BY <2>1, <2>3, JumpFields DEF VoiceInv, Over
      <3>2. QED
        BY <2>1, <2>3, <3>1 DEF BackupFree
    <2>4. CASE /\ there # None
               /\ run' = [run EXCEPT ![p].made = there.content, ![p].pc = "document"]
      <3>1. run'[p].pc = "document" /\ run'[p].ws = run[p].ws /\ run'[p].made = there.content
        BY <2>1, <2>4 DEF VoiceInv, Over, RunInv, Fields
      <3>2. Document(BACKUP) \in Names
        BY Places, OwnersOfNames
      <3>3. there = Whole(there.content)
        BY <2>1, <2>4, <3>2 DEF FilesGood
      <3>4. QED
        BY <2>1, <3>1, <3>3 DEF BackupFree
    <2>5. QED
      BY <1>3, <2>2, <2>3, <2>4 DEF PrepareBackup
  <1>4. CASE Proof(p)
    <2> DEFINE made == Content(BACKUP, run[p].docs[PUBLISH].voice, pub[p].id)
    <2>1. run[p].pc = "proof" /\ files' = files
      BY <1>4 DEF Proof, At, KeepAll, objects
    <2>2. Jump(p, "failing") \/ run' = [run EXCEPT ![p].pc = "document", ![p].made = made]
      BY <1>4 DEF Proof
    <2> HIDE DEF made
    <2>3. run'[p].ws = run[p].ws /\ run'[p].pc # "proof"
      BY <2>1, <2>2, JumpFields DEF VoiceInv, Over, RunInv, Fields
    <2>4. QED
      BY <2>1, <2>3 DEF BackupFree
  <1>5. CASE Publishing(p) \/ StoreFailsInRun(p)
    <2>1. files' = files
      <3>1. CASE Publishing(p)
        BY <3>1 DEF Publishing, PublishStep, Completed, Collect, Snapshot, Put, PutManifest,
                    Record, objects
      <3>2. CASE StoreFailsInRun(p)
        BY <3>2 DEF StoreFailsInRun, StoreFails, objects
      <3>3. QED
        BY <1>5, <3>1, <3>2
    <2>2. run[p].pc \in {"proof", "proven", "final"}
      BY <1>5 DEF Publishing, StoreFailsInRun
    <2>3. run'[p].pc = run[p].pc /\ run'[p].ws = run[p].ws
      BY <1>5, <2>2 DEF Publishing, StoreFailsInRun, VoiceInv, RunInv, Fields, Over
    <2>4. QED
      BY <2>1, <2>2, <2>3 DEF BackupFree
  <1>6. QED
    BY <1>1, <1>2, <1>3, <1>4, <1>5, Leads DEF RunStep

\* The attempt an id names is over: a later one goes on, or the results are those it had.
Past(attempts, v) ==
    /\ attempts \in Nat /\ attempts <= v.attempts
    /\ attempts = v.attempts => v.status \in {"SUCCEEDED", "INVALID"}

\* The id of a final checkpoint, and a manifest for an id.
FinalId(i) ==
    /\ i = [base |-> "final", attempts |-> i.attempts, token |-> None, repair |-> 0]
    /\ i.attempts = [s \in Stages |-> i.attempts[s]]
ManifestForm(i, m) ==
    /\ m = [id |-> i, input |-> m.input, state |-> m.state, artifacts |-> m.artifacts, at |-> m.at]
    /\ m.artifacts = [n \in Names |-> m.artifacts[n]]

\* Where nobody damages objects: an object r[key] holds what a publication under the same key
\* would put now, if it is of the units u and the artifacts a as they are now.
ObjectFits(key, r, u, a) ==
    /\ r[key] = Whole(r[key].content)
    /\ key[2] = "input" => \A call \in Calls : r[key].content = call.source
    /\ key[2] = "workspace" =>
          /\ key[3] \in Names
          /\ Past(key[1].attempts[Owner(key[3])], u[Owner(key[3])])
          /\ key[1].attempts[Owner(key[3])] = u[Owner(key[3])].attempts =>
                r[key].content = a[key[3]].digest
    /\ key[2] = "state" /\ key[1].base = "final" =>
          FinalId(key[1]) /\ \A s \in Stages : Past(key[1].attempts[s], u[s])
    /\ key[2] = "manifest" => ManifestForm(key[1], r[key].content)

\* So does the snapshot of a final checkpoint that is not recorded.
AllOf(of, u) == \A s \in Stages : u[s] = [status |-> "SUCCEEDED", attempts |-> of[s]]
SnapshotIsNow(key, r, u, a, lost, recs) ==
    key[2] = "state" /\ key[1].base = "final" /\ ~Known(recs, key[1]) /\ AllOf(key[1].attempts, u) =>
        r[key].content = [unit |-> u, artifacts |-> a, failures |-> lost,
                          recorded |-> {rec.id : rec \in recs}]
ObjectsGood ==
    \A key \in DOMAIN remote : /\ ObjectFits(key, remote, unit, artifacts)
                               /\ SnapshotIsNow(key, remote, unit, artifacts, failures, records)

LEMMA PastStays ==
  ASSUME StoreInv, TablesFit, [StoreNext]_store, NEW s \in Stages, NEW attempts,
         Past(attempts, unit[s])
  PROVE  /\ Past(attempts, unit'[s])
         /\ attempts = unit'[s].attempts =>
               /\ attempts = unit[s].attempts
               /\ \A n \in NamesOf(s) : artifacts'[n].digest = artifacts[n].digest
  <1>1. unit[s].attempts \in Nat /\ unit'[s].attempts \in Nat
    <2>1. StoreInv'
      BY StoreStep
    <2>2. QED
      BY <2>1 DEF StoreInv, StoreTypeOK
  <1>2. /\ unit'[s].attempts >= unit[s].attempts
        /\ unit'[s].attempts = unit[s].attempts /\ unit[s].status \in {"SUCCEEDED", "INVALID"} =>
              /\ unit'[s].status \in {"SUCCEEDED", "INVALID"}
              /\ \A n \in NamesOf(s) : artifacts'[n].digest = artifacts[n].digest
    BY StageMoves
  <1>3. attempts = unit'[s].attempts =>
           attempts = unit[s].attempts /\ unit'[s].attempts = unit[s].attempts
    BY <1>1, <1>2 DEF Past
  <1>4. attempts \in Nat /\ attempts <= unit'[s].attempts
    BY <1>1, <1>2 DEF Past
  <1>5. QED
    BY <1>2, <1>3, <1>4 DEF Past

LEMMA ObjectStays ==
  ASSUME StoreInv, TablesFit, [StoreNext]_store, NEW key, ObjectFits(key, remote, unit, artifacts),
         remote'[key] = remote[key]
  PROVE  ObjectFits(key, remote', unit', artifacts')
  <1>1. ASSUME key[2] = "workspace"
        PROVE  /\ Past(key[1].attempts[Owner(key[3])], unit'[Owner(key[3])])
               /\ key[1].attempts[Owner(key[3])] = unit'[Owner(key[3])].attempts =>
                     remote'[key].content = artifacts'[key[3]].digest
    <2> DEFINE s == Owner(key[3])
    <2>1. s \in Stages /\ key[3] \in NamesOf(s) /\ Past(key[1].attempts[s], unit[s])
      BY <1>1, StagesAssumption DEF ObjectFits, Names, Owner, NamesOf
    <2>2. /\ Past(key[1].attempts[s], unit'[s])
          /\ key[1].attempts[s] = unit'[s].attempts =>
                /\ key[1].attempts[s] = unit[s].attempts
                /\ \A n \in NamesOf(s) : artifacts'[n].digest = artifacts[n].digest
      BY <2>1, PastStays
    <2>3. QED
      BY <1>1, <2>1, <2>2 DEF ObjectFits
  <1>2. ASSUME key[2] = "state", key[1].base = "final", NEW s \in Stages
        PROVE  Past(key[1].attempts[s], unit'[s])
    BY <1>2, PastStays DEF ObjectFits
  <1>3. QED
    BY <1>1, <1>2 DEF ObjectFits

\* Of the operations of the database none but a record is possible after which all stages are
\* done in attempts that were over before.
LEMMA NothingHappened ==
  ASSUME StoreInv, TablesFit, [StoreNext]_store, NEW of,
         \A s \in Stages : Past(of[s], unit[s]), AllOf(of, unit')
  PROVE  UNCHANGED <<unit, artifacts, failures>>
  <1>1. \A s \in Stages : /\ unit'[s].status = "SUCCEEDED"
                          /\ unit[s].attempts = unit'[s].attempts
                          /\ unit[s].status \in {"SUCCEEDED", "INVALID"}
    <2> SUFFICES ASSUME NEW s \in Stages
                 PROVE  /\ unit'[s].status = "SUCCEEDED"
                        /\ unit[s].attempts = unit'[s].attempts
                        /\ unit[s].status \in {"SUCCEEDED", "INVALID"}
      OBVIOUS
    <2>0. unit'[s] = [status |-> "SUCCEEDED", attempts |-> of[s]]
      BY DEF AllOf
    <2>1. unit'[s].status = "SUCCEEDED" /\ unit'[s].attempts = of[s]
      BY <2>0
    <2>2. of[s] = unit[s].attempts
      BY <2>1, PastStays
    <2>3. QED
      BY <2>1, <2>2 DEF Past
  <1>2. ASSUME NEW s \in Stages, put_work_unit(s) \/ fail_work_unit(s) PROVE FALSE
    BY <1>1, <1>2 DEF put_work_unit, CanPut, fail_work_unit
  <1>3. ASSUME NEW s \in Stages, start_work_unit(s) PROVE FALSE
    <2>1. unit'[s].attempts = unit[s].attempts + 1 /\ unit[s].attempts \in Nat
      BY <1>3 DEF start_work_unit, StoreInv, StoreTypeOK
    <2>2. QED
      BY <1>1, <2>1
  <1>4. ASSUME NEW s \in Stages, NEW rows, commit_artifacts(s, rows) PROVE FALSE
    BY <1>1, <1>4 DEF commit_artifacts, CanCommit
  <1>5. CASE recover_stale_work
    <2>1. \A s \in Stages : unit'[s] = unit[s]
      BY <1>1, <1>5 DEF recover_stale_work
    <2>2. unit' = [s \in Stages |-> unit'[s]] /\ unit = [s \in Stages |-> unit[s]]
      BY <1>5 DEF recover_stale_work, StoreInv, StoreTypeOK
    <2>3. unit' = unit
      BY <2>1, <2>2
    <2>4. QED
      BY <1>5, <2>3 DEF recover_stale_work
  <1>6. ASSUME NEW owners, apply_invalidation(owners) PROVE UNCHANGED <<unit, artifacts, failures>>
    <2>1. \A s \in Stages : s \notin Affected(owners)
      <3> SUFFICES ASSUME NEW s \in Stages, s \in Affected(owners) PROVE FALSE
        OBVIOUS
      <3>1. unit'[s] = [unit[s] EXCEPT !.status = "INVALID"]
        BY <1>1, <1>6 DEF apply_invalidation
      <3>2. unit'[s].status = "INVALID"
        BY <3>1 DEF StoreInv, StoreTypeOK
      <3>3. QED
        BY <1>1, <3>2
    <2>2. \A n \in Names : Owner(n) \notin Affected(owners)
      BY <2>1 DEF Affected
    <2>3. (\A s \in Stages : unit'[s] = unit[s]) /\ (\A n \in Names : artifacts'[n] = artifacts[n])
      BY <1>6, <2>1, <2>2 DEF apply_invalidation
    <2>4. unit' = [s \in Stages |-> unit'[s]] /\ unit = [s \in Stages |-> unit[s]]
      BY <1>6 DEF apply_invalidation, StoreInv, StoreTypeOK
    <2>5. artifacts' = [n \in Names |-> artifacts'[n]] /\ artifacts = [n \in Names |-> artifacts[n]]
      BY <1>6 DEF apply_invalidation, TablesFit, RowsHaveFields
    <2>6. unit' = unit /\ artifacts' = artifacts
      BY <2>3, <2>4, <2>5
    <2>7. QED
      BY <1>6, <2>6 DEF apply_invalidation
  <1>7. CASE \/ UNCHANGED store
             \/ \E src, cfg : create_job(src, cfg)
             \/ \E src : record_verified_input(src)
             \/ \E i, evidence : record_checkpoint(i, evidence)
    BY <1>7 DEF store, create_job, record_verified_input, record_checkpoint
  <1>8. QED
    BY <1>2, <1>3, <1>4, <1>5, <1>6, <1>7 DEF StoreNext

LEMMA SnapshotStays ==
  ASSUME StoreInv, TablesFit, [StoreNext]_store, NEW key, ObjectFits(key, remote, unit, artifacts),
         SnapshotIsNow(key, remote, unit, artifacts, failures, records), remote'[key] = remote[key],
         records' = records \/ Known(records', key[1]) \/ ~AllOf(key[1].attempts, unit')
  PROVE  SnapshotIsNow(key, remote', unit', artifacts', failures', records')
  <1> SUFFICES ASSUME key[2] = "state", key[1].base = "final", ~Known(records', key[1]),
                      AllOf(key[1].attempts, unit')
               PROVE  remote'[key].content =
                         [unit |-> unit', artifacts |-> artifacts', failures |-> failures',
                          recorded |-> {rec.id : rec \in records'}]
    BY DEF SnapshotIsNow
  <1>1. UNCHANGED <<unit, artifacts, failures>>
    BY NothingHappened DEF ObjectFits
  <1>2. records' = records
    OBVIOUS
  <1>3. QED
    BY <1>1, <1>2 DEF SnapshotIsNow

\* Where nobody damages objects: what is recorded verifies, and no id was repaired.
IdForm(i) == i = [base |-> i.base, attempts |-> i.attempts, token |-> i.token, repair |-> 0]
RecordsGood == \A rec \in records : RecordVerifies(rec) /\ IdForm(rec.id)

\* The manifest a publication under the id i would make now.
ManifestNow(i, at) ==
    [id |-> i, input |-> input, state |-> StateSnapshot, artifacts |-> Rows(valid_artifacts),
     at |-> at]

\* A publication a run waits for is of the units and artifacts as they are now, and
\* nobody recorded its id in between; when it fails without cause, there is a leftover.
IdIsNow(p) ==
    /\ run[p].pc = "proof" =>
          \E token : pub[p].id = EffectiveId("proof", Stages \ {BACKUP}, token)
    /\ run[p].pc = "final" => pub[p].id = EffectiveId("final", Stages, None)
PubGood(p) ==
    LET c == pub[p]
        i == pub[p].id
    IN  run[p].pc \in Waiting =>
        /\ {"step", "id", "ws"} \subseteq DOMAIN c /\ c.ws = run[p].ws
        /\ IdIsNow(p)
        /\ c.step \in Active \ {"completed"} => ~Known(records, i)
        /\ c.step = "snapshot" => c.rows = Rows(valid_artifacts)
        /\ c.step \in {"put", "manifest", "record"} => c.manifest = ManifestNow(i, c.manifest.at)
        /\ c.step = "put" => c.todo \subseteq {InputKey(i), StateKey(i)}
                                      \union {ArtifactKey(i, n) : n \in valid_artifacts}
        /\ c.step = "record" => Stored(ManifestKey(i), c.manifest)
        /\ c.step = "done" => Known(records, i)
        /\ c.step = "error" /\ run[p].calm => Leftover

\* All that a publication depends on.
PublishInv ==
    /\ OneJob /\ NoneIsNothing
    /\ VoiceInv /\ FilesInv /\ RecordsInv /\ CompleteInv /\ RestInv /\ SetUpInv
    /\ Undamaged /\ ObjectsGood /\ RecordsGood
    /\ \A p \in Publishers : PubGood(p)

\* As long as every record verifies, a checkpoint is published under its plain id.
LEMMA IdIsKept ==
  ASSUME RecordsGood, NEW b, NEW stages, NEW token
  PROVE  PublicationId(EffectiveId(b, stages, token)) = EffectiveId(b, stages, token)
  <1> DEFINE base == EffectiveId(b, stages, token)
             of == {rec \in records : [rec.id EXCEPT !.repair = 0] = base}
             IsNewest(rec) == \A other \in of : other.id.repair <= rec.id.repair
             newest == CHOOSE rec \in of : IsNewest(rec)
  <1>1. PublicationId(base) = IF of = {} THEN base
                              ELSE IF RecordVerifies(newest) THEN newest.id
                              ELSE [newest.id EXCEPT !.repair = @ + 1]
    BY DEF PublicationId
  <1>2. \A rec \in of : /\ rec \in records /\ [rec.id EXCEPT !.repair = 0] = base
                        /\ RecordVerifies(rec) /\ IdForm(rec.id)
    BY DEF RecordsGood
  <1> HIDE DEF of, base
  <1>3. \A rec \in of : rec.id.repair = 0 /\ rec.id = base
    <2> SUFFICES ASSUME NEW rec \in of PROVE rec.id.repair = 0 /\ rec.id = base
      OBVIOUS
    <2>1. rec.id = [base |-> rec.id.base, attempts |-> rec.id.attempts, token |-> rec.id.token,
                    repair |-> 0]
      BY <1>2 DEF IdForm
    <2>2. [rec.id EXCEPT !.repair = 0] = rec.id
      BY <2>1
    <2>3. QED
      BY <1>2, <2>1, <2>2
  <1>4. ASSUME of # {} PROVE newest \in of
    <2>1. PICK rec \in of : TRUE
      BY <1>4
    <2>2. IsNewest(rec)
      BY <1>3
    <2>3. QED
      BY <2>1, <2>2
  <1> HIDE DEF newest
  <1>5. PublicationId(base) = base
    BY <1>1, <1>2, <1>3, <1>4
  <1>6. QED
    BY <1>5 DEF base

\* What holds while a run waits for the proof or the final checkpoint to be published.
LEMMA WhileWaiting ==
  ASSUME PublishInv, NEW p \in Publishers, run[p].pc \in {"proof", "final"}
  PROVE  /\ DurableInput /\ \A call \in Calls : input = call.source
         /\ IdForm(pub[p].id)
         /\ \A n \in valid_artifacts :
               /\ n \in Names /\ Owner(n) \in Stages
               /\ unit[Owner(n)].status = "SUCCEEDED"
               /\ pub[p].id.attempts[Owner(n)] = unit[Owner(n)].attempts
               /\ Has(pub[p].ws, n, artifacts[n].digest)
               /\ Rows(valid_artifacts)[n] = artifacts[n].digest
         /\ run[p].pc = "proof" => /\ pub[p].id.base = "proof"
                                   /\ unit[BACKUP].status = "RUNNING"
         /\ run[p].pc = "final" =>
               /\ FinalId(pub[p].id) /\ pub[p].id.base = "final"
               /\ AllOf(pub[p].id.attempts, unit)
  <1> DEFINE i == pub[p].id
  <1>1. /\ run[p].pc \in Waiting /\ run[p].pc \in WithUnits /\ run[p].pc \in InLoop
        /\ run[p].pc \in AfterScan /\ run[p].pc \notin Over
    BY DEF Waiting, WithUnits, AfterScan, InLoop, Over
  <1>2. DurableInput /\ \A call \in Calls : input = call.source
    <2>1. job # None /\ input = job.source
      BY <1>1 DEF PublishInv, SetUpInv, SetUp
    <2>2. \A call \in Calls : job = [source |-> call.source, config |-> call.config]
      BY <2>1 DEF PublishInv, SetUpInv, JobFits
    <2>3. \A call \in Calls : job.source = call.source
      BY <2>2
    <2>4. QED
      BY <2>1, <2>3 DEF DurableInput
  <1>3. /\ IdIsNow(p) /\ pub[p].ws = run[p].ws
    BY <1>1 DEF PublishInv, PubGood
  <1>4. ASSUME run[p].pc = "proof"
        PROVE  /\ i.base = "proof" /\ IdForm(i)
               /\ \A s \in Stages \ {BACKUP} : i.attempts[s] = unit[s].attempts
               /\ unit[BACKUP].status = "RUNNING" /\ run[p].stage = BACKUP
    <2>1. PICK token : i = EffectiveId("proof", Stages \ {BACKUP}, token)
      BY <1>3, <1>4 DEF IdIsNow
    <2>2. run[p].stage = BACKUP
      BY <1>4 DEF PublishInv, VoiceInv, RunFits
    <2>3. unit[BACKUP].status = "RUNNING"
      BY <1>4, <2>2 DEF PublishInv, SetUpInv, SetUp, InStage
    <2>4. QED
      BY <2>1, <2>2, <2>3 DEF EffectiveId, IdForm
  <1>5. ASSUME run[p].pc = "final"
        PROVE  /\ FinalId(i) /\ IdForm(i) /\ i.base = "final"
               /\ \A s \in Stages : i.attempts[s] = unit[s].attempts
               /\ \A s \in Stages : unit[s].status = "SUCCEEDED" /\ s < run[p].stage
    <2>1. i = EffectiveId("final", Stages, None)
      BY <1>3, <1>5 DEF IdIsNow
    <2>2. \A s \in Stages : s < run[p].stage
      BY <1>5, StagesAssumption DEF PublishInv, RecordsInv, ProofKnown, VoiceInv, RunFits, Stages
    <2>3. \A s \in Stages : unit[s].status = "SUCCEEDED"
      BY <1>1, <2>2 DEF PublishInv, VoiceInv, RunFits
    <2>4. QED
      BY <2>1, <2>2, <2>3 DEF EffectiveId, IdForm, FinalId
  <1>6. ASSUME run[p].pc = "final" PROVE AllOf(i.attempts, unit)
    <2> SUFFICES ASSUME NEW s \in Stages
                 PROVE  unit[s] = [status |-> "SUCCEEDED", attempts |-> i.attempts[s]]
      BY DEF AllOf
    <2>1. unit[s].status = "SUCCEEDED" /\ i.attempts[s] = unit[s].attempts
      BY <1>5, <1>6
    <2>2. unit[s] = [status |-> unit[s].status, attempts |-> unit[s].attempts]
      BY DEF PublishInv, VoiceInv, StoreInv, StoreTypeOK
    <2>3. QED
      BY <2>1, <2>2
  <1>7. ASSUME NEW n \in valid_artifacts
        PROVE  /\ n \in Names /\ Owner(n) \in Stages
               /\ unit[Owner(n)].status = "SUCCEEDED"
               /\ i.attempts[Owner(n)] = unit[Owner(n)].attempts
               /\ Has(pub[p].ws, n, artifacts[n].digest)
               /\ Rows(valid_artifacts)[n] = artifacts[n].digest
    <2> DEFINE s == Owner(n)
    <2>1. n \in Names /\ s \in Stages /\ n \in NamesOf(s)
      BY StagesAssumption DEF valid_artifacts, Names, Owner, NamesOf
    <2>2. unit[s].status = "SUCCEEDED"
      BY <2>1 DEF valid_artifacts, PublishInv, VoiceInv, StoreInv, OwnedBySucceeded
    <2>3. s < run[p].stage /\ i.attempts[s] = unit[s].attempts
      <3>1. CASE run[p].pc = "proof"
        <4>1. s # BACKUP
          BY <1>4, <2>2, <3>1
        <4>2. s < BACKUP
          BY <2>1, <4>1, StagesAssumption DEF Stages, BACKUP
        <4>3. QED
          BY <1>4, <2>1, <3>1, <4>1, <4>2
      <3>2. CASE run[p].pc = "final"
        BY <1>5, <2>1, <3>2
      <3>3. QED
        BY <3>1, <3>2
    <2>4. Holds(files, run[p].ws, n, artifacts[n].digest)
      BY <1>1, <2>1, <2>3 DEF PublishInv, FilesInv, FilesFit
    <2>5. Rows(valid_artifacts)[n] = artifacts[n].digest
      BY <2>1 DEF Rows
    <2>6. QED
      BY <1>3, <2>1, <2>2, <2>3, <2>4, <2>5 DEF Has, Holds
  <1>8. QED
    BY <1>2, <1>4, <1>5, <1>6, <1>7

\* What a publication under the id i puts before its manifest.
Puts(i, key, content) ==
    \/ key = InputKey(i) /\ content = input
    \/ key = StateKey(i) /\ content = StateSnapshot
    \/ \E n \in valid_artifacts : key = ArtifactKey(i, n) /\ content = artifacts[n].digest

LEMMA WhatIsPut ==
  ASSUME PublishInv, NEW p \in Publishers, run[p].pc \in {"proof", "final"}, pub[p].step = "put",
         NEW key \in pub[p].todo
  PROVE  Puts(pub[p].id, key, ContentOf(p, key)) /\ SourceIsThere(p, key)
  <1> DEFINE i == pub[p].id
  <1>1. /\ pub[p].todo \subseteq {InputKey(i), StateKey(i)}
                                   \union {ArtifactKey(i, n) : n \in valid_artifacts}
        /\ pub[p].manifest = ManifestNow(i, pub[p].manifest.at)
    BY DEF PublishInv, PubGood, Waiting
  <1>2. /\ pub[p].manifest.input = input /\ pub[p].manifest.state = StateSnapshot
        /\ pub[p].manifest.artifacts = Rows(valid_artifacts)
    BY <1>1 DEF ManifestNow
  <1>3. CASE key = InputKey(i)
    BY <1>2, <1>3 DEF Puts, ContentOf, SourceIsThere, InputKey
  <1>4. CASE key = StateKey(i)
    BY <1>2, <1>4 DEF Puts, ContentOf, SourceIsThere, StateKey
  <1>5. ASSUME NEW n \in valid_artifacts, key = ArtifactKey(i, n)
        PROVE  Puts(i, key, ContentOf(p, key)) /\ SourceIsThere(p, key)
    <2>1. key[2] = "workspace" /\ key[3] = n
      BY <1>5 DEF ArtifactKey
    <2>2. Rows(valid_artifacts)[n] = artifacts[n].digest /\ Has(pub[p].ws, n, artifacts[n].digest)
      BY WhileWaiting
    <2>3. ContentOf(p, key) = artifacts[n].digest
      BY <1>2, <2>1, <2>2 DEF ContentOf
    <2>4. QED
      BY <1>5, <2>1, <2>2, <2>3 DEF Puts, SourceIsThere
  <1>6. QED
    BY <1>1, <1>3, <1>4, <1>5

\* What is put fits.
LEMMA PutObjectFits ==
  ASSUME PublishInv, NEW p \in Publishers, run[p].pc \in {"proof", "final"},
         NEW key, NEW content, NEW r, r[key] = Whole(content),
         \/ Puts(pub[p].id, key, content)
         \/ key = ManifestKey(pub[p].id) /\ ManifestForm(pub[p].id, content)
  PROVE  /\ ObjectFits(key, r, unit, artifacts)
         /\ SnapshotIsNow(key, r, unit, artifacts, failures, records)
  <1> DEFINE i == pub[p].id
  <1>1. r[key].content = content /\ r[key] = Whole(r[key].content)
    BY DEF Whole
  <1>2. CASE key = InputKey(i) /\ content = input
    BY <1>1, <1>2, WhileWaiting DEF ObjectFits, SnapshotIsNow, InputKey
  <1>3. CASE key = ManifestKey(i) /\ ManifestForm(i, content)
    BY <1>1, <1>3 DEF ObjectFits, SnapshotIsNow, ManifestKey
  <1>4. ASSUME NEW n \in valid_artifacts, key = ArtifactKey(i, n), content = artifacts[n].digest
        PROVE  /\ ObjectFits(key, r, unit, artifacts)
               /\ SnapshotIsNow(key, r, unit, artifacts, failures, records)
    <2>1. key[1] = i /\ key[2] = "workspace" /\ key[3] = n
      BY <1>4 DEF ArtifactKey
    <2>2. /\ n \in Names /\ Owner(n) \in Stages
          /\ unit[Owner(n)].status = "SUCCEEDED" /\ i.attempts[Owner(n)] = unit[Owner(n)].attempts
      BY WhileWaiting
    <2>3. unit[Owner(n)].attempts \in Nat
      BY <2>2 DEF PublishInv, VoiceInv, StoreInv, StoreTypeOK
    <2>4. Past(i.attempts[Owner(n)], unit[Owner(n)])
      BY <2>2, <2>3 DEF Past
    <2>5. QED
      BY <1>1, <1>4, <2>1, <2>2, <2>4 DEF ObjectFits, SnapshotIsNow
  <1>5. CASE key = StateKey(i) /\ content = StateSnapshot
    <2>1. key[1] = i /\ key[2] = "state"
      BY <1>5 DEF StateKey
    <2>2. SnapshotIsNow(key, r, unit, artifacts, failures, records)
      BY <1>1, <1>5 DEF SnapshotIsNow, StateSnapshot
    <2>3. CASE run[p].pc = "proof"
      <3>1. i.base = "proof"
        BY <2>3, WhileWaiting
      <3>2. QED
        BY <1>1, <2>1, <2>2, <3>1 DEF ObjectFits
    <2>4. CASE run[p].pc = "final"
      <3>1. FinalId(i) /\ AllOf(i.attempts, unit)
        BY <2>4, WhileWaiting
      <3>2. ASSUME NEW s \in Stages PROVE Past(i.attempts[s], unit[s])
        <4>1. unit[s] = [status |-> "SUCCEEDED", attempts |-> i.attempts[s]]
          BY <3>1 DEF AllOf
        <4>2. unit[s].status = "SUCCEEDED" /\ unit[s].attempts = i.attempts[s]
          BY <4>1
        <4>3. unit[s].attempts \in Nat
          BY DEF PublishInv, VoiceInv, StoreInv, StoreTypeOK
        <4>4. QED
          BY <4>2, <4>3 DEF Past
      <3>3. QED
        BY <1>1, <2>1, <2>2, <3>1, <3>2 DEF ObjectFits
    <2>5. QED
      BY <2>3, <2>4
  <1>6. QED
    BY <1>2, <1>3, <1>4, <1>5 DEF Puts

\* A key that is taken holds the same, but for the snapshot of a proof that was not
\* recorded: a leftover.
LEMMA PutIsPossible ==
  ASSUME PublishInv, NEW p \in Publishers, run[p].pc \in {"proof", "final"},
         ~Known(records, pub[p].id), NEW key, NEW content, Puts(pub[p].id, key, content),
         ~CanPutObject(key, content)
  PROVE  Leftover
  <1> DEFINE i == pub[p].id
  <1>1. key \in DOMAIN remote /\ remote[key] # Whole(content)
    BY DEF CanPutObject, Stored
  <1>2. /\ ObjectFits(key, remote, unit, artifacts)
        /\ SnapshotIsNow(key, remote, unit, artifacts, failures, records)
    BY <1>1 DEF PublishInv, ObjectsGood
  <1>3. remote[key] = Whole(remote[key].content)
    BY <1>2 DEF ObjectFits
  <1>4. remote[key].content # content
    BY <1>1, <1>3
  <1>5. CASE key = InputKey(i) /\ content = input
    <2>1. PICK call \in Calls : TRUE
      <3>1. run[p].call \in Calls
        BY DEF PublishInv, FilesInv, RunTyped, Over
      <3>2. QED
        BY <3>1
    <2>2. remote[key].content = call.source /\ input = call.source
      BY <1>2, <1>5, <2>1, WhileWaiting DEF ObjectFits, InputKey
    <2>3. QED
      BY <1>4, <1>5, <2>2
  <1>6. ASSUME NEW n \in valid_artifacts, key = ArtifactKey(i, n), content = artifacts[n].digest
        PROVE  FALSE
    <2>1. key[1] = i /\ key[2] = "workspace" /\ key[3] = n
      BY <1>6 DEF ArtifactKey
    <2>2. i.attempts[Owner(n)] = unit[Owner(n)].attempts
      BY WhileWaiting
    <2>3. remote[key].content = artifacts[n].digest
      BY <1>2, <2>1, <2>2 DEF ObjectFits
    <2>4. QED
      BY <1>4, <1>6, <2>3
  <1>7. CASE key = StateKey(i) /\ content = StateSnapshot
    <2>1. key[1] = i /\ key[2] = "state"
      BY <1>7 DEF StateKey
    <2>2. CASE run[p].pc = "proof"
      <3>1. i.base = "proof"
        BY <2>2, WhileWaiting
      <3>2. RecordsOf(i) = {}
        BY DEF Known, RecordsOf
      <3>3. QED
        BY <1>1, <2>1, <3>1, <3>2 DEF Leftover
    <2>3. CASE run[p].pc = "final"
      <3>1. i.base = "final" /\ AllOf(i.attempts, unit)
        BY <2>3, WhileWaiting
      <3>2. remote[key].content = StateSnapshot
        BY <1>2, <2>1, <3>1 DEF SnapshotIsNow, StateSnapshot
      <3>3. QED
        BY <1>4, <1>7, <3>2
    <2>4. QED
      BY <2>2, <2>3
  <1>8. QED
    BY <1>5, <1>6, <1>7 DEF Puts

\* A manifest that is there under the id differs in its time only.
LEMMA ManifestIsAlike ==
  ASSUME PublishInv, NEW p \in Publishers, run[p].pc \in {"proof", "final"},
         pub[p].step = "manifest", ManifestKey(pub[p].id) \in DOMAIN remote
  PROVE  LET there == remote[ManifestKey(pub[p].id)]
         IN  /\ there.whole
             /\ there.content = ManifestNow(pub[p].id, there.content.at)
             /\ [there.content EXCEPT !.at = pub[p].manifest.at] = pub[p].manifest
  <1> DEFINE i == pub[p].id
             key == ManifestKey(i)
             m == remote[key].content
             now == pub[p].manifest
  <1>1. now = ManifestNow(i, now.at)
    BY DEF PublishInv, PubGood, Waiting
  <1>2. /\ now.input = input /\ now.state = StateSnapshot
        /\ now.artifacts = Rows(valid_artifacts)
    BY <1>1 DEF ManifestNow
  <1>3. key[1] = i /\ key[2] = "manifest"
    BY DEF ManifestKey
  <1>4. remote[key] = Whole(m) /\ ManifestForm(i, m)
    BY <1>3 DEF PublishInv, ObjectsGood, ObjectFits
  <1>5. WasPut(StateKey(i), m.state) /\ WasPut(InputKey(i), m.input)
    BY <1>3 DEF PublishInv, CompleteInv, ManifestIsComplete
  <1>6. pub[p].todo = {} /\ PutSoFar(remote, pub[p])
    BY DEF PublishInv, CompleteInv, PubInv, InOrder
  <1>7. m.state = now.state /\ m.input = now.input
    BY <1>5, <1>6 DEF PutSoFar, In, WasPut
  <1>8. Coherent(m) /\ Coherent(now)
    BY <1>3 DEF PublishInv, RestInv, PubFits
  <1>9. \A n \in Names : m.artifacts[n] = now.artifacts[n]
    BY <1>7, <1>8 DEF Coherent
  <1>10. now.artifacts = [n \in Names |-> now.artifacts[n]]
    BY <1>2 DEF Rows
  <1>11. m.artifacts = [n \in Names |-> m.artifacts[n]]
    BY <1>4 DEF ManifestForm
  <1>12. m.artifacts = now.artifacts
    BY <1>9, <1>10, <1>11
  <1>13. m = [id |-> i, input |-> m.input, state |-> m.state, artifacts |-> m.artifacts, at |-> m.at]
    BY <1>4 DEF ManifestForm
  <1>14. m = ManifestNow(i, m.at)
    BY <1>2, <1>7, <1>12, <1>13 DEF ManifestNow
  <1>15. [m EXCEPT !.at = now.at] = now
    BY <1>1, <1>14 DEF ManifestNow
  <1>16. remote[key].whole
    BY <1>4 DEF Whole
  <1> HIDE DEF m, now, key, i
  <1>17. QED
    BY <1>14, <1>15, <1>16 DEF m, now, key, i

LEMMA PutKeeps ==
  ASSUME NEW key, NEW content, CanPutObject(key, content), PutObject(key, content)
  PROVE  /\ DOMAIN remote' = DOMAIN remote \union {key}
         /\ remote'[key] = Whole(content)
         /\ \A k \in DOMAIN remote : remote'[k] = remote[k]
  BY DEF CanPutObject, PutObject, Stored

\* A put that fits keeps the objects good.
LEMMA PutGood ==
  ASSUME PublishInv, NEW p \in Publishers, run[p].pc \in {"proof", "final"},
         UNCHANGED <<unit, artifacts, failures, records>>,
         NEW key, NEW content, CanPutObject(key, content), PutObject(key, content),
         \/ Puts(pub[p].id, key, content)
         \/ key = ManifestKey(pub[p].id) /\ ManifestForm(pub[p].id, content)
  PROVE  ObjectsGood'
  <1> SUFFICES ASSUME NEW k \in DOMAIN remote'
               PROVE  /\ ObjectFits(k, remote', unit', artifacts')
                      /\ SnapshotIsNow(k, remote', unit', artifacts', failures', records')
    BY DEF ObjectsGood
  <1>1. /\ DOMAIN remote' = DOMAIN remote \union {key}
        /\ remote'[key] = Whole(content)
        /\ \A x \in DOMAIN remote : remote'[x] = remote[x]
    BY PutKeeps
  <1>2. CASE k = key
    <2>1. /\ ObjectFits(key, remote', unit, artifacts)
          /\ SnapshotIsNow(key, remote', unit, artifacts, failures, records)
      BY <1>1, PutObjectFits
    <2>2. QED
      BY <1>2, <2>1
  <1>3. CASE k # key
    <2>1. k \in DOMAIN remote /\ remote'[k] = remote[k]
      BY <1>1, <1>3
    <2>2. /\ ObjectFits(k, remote, unit, artifacts)
          /\ SnapshotIsNow(k, remote, unit, artifacts, failures, records)
      BY <2>1 DEF PublishInv, ObjectsGood
    <2>3. /\ ObjectFits(k, remote', unit, artifacts)
          /\ SnapshotIsNow(k, remote', unit, artifacts, failures, records)
      BY <2>1, <2>2 DEF ObjectFits, SnapshotIsNow
    <2>4. QED
      BY <2>3
  <1>4. QED
    BY <1>2, <1>3

\* A publication that has begun to put is that of the proof or of the final checkpoint.
LEMMA PutsForWhom ==
  ASSUME PublishInv, NEW p \in Publishers, pub[p].step \in Active \ {"completed"}
  PROVE  run[p].pc \in {"proof", "final"}
  <1>1. run[p].pc \in Waiting
    BY DEF PublishInv, RestInv, PubFits
  <1>2. run[p].pc # "proven"
    BY DEF PublishInv, RecordsInv, PubKnown, Active
  <1>3. QED
    BY <1>1, <1>2 DEF Waiting

LEMMA PuttingGood ==
  ASSUME PublishInv, NEW p \in Publishers, Put(p) \/ PutManifest(p) PROVE ObjectsGood'
  <1>1. pub[p].step \in {"put", "manifest"} /\ UNCHANGED <<unit, artifacts, failures, records>>
    BY DEF Put, PutManifest, Step, store
  <1>2. run[p].pc \in {"proof", "final"}
    BY <1>1, PutsForWhom DEF Active
  <1>3. CASE UNCHANGED remote
    BY <1>1, <1>3 DEF PublishInv, ObjectsGood, ObjectFits, SnapshotIsNow
  <1>4. CASE Put(p)
    <2>1. pub[p].step = "put"
      BY <1>4 DEF Put, Step
    <2>2. PICK key \in pub[p].todo :
             \/ CanPutObject(key, ContentOf(p, key)) /\ PutObject(key, ContentOf(p, key))
             \/ UNCHANGED remote
      BY <1>4 DEF Put
    <2>3. Puts(pub[p].id, key, ContentOf(p, key))
      BY <1>2, <2>1, WhatIsPut
    <2>4. QED
      BY <1>1, <1>2, <1>3, <2>2, <2>3, PutGood
  <1>5. CASE PutManifest(p)
    <2> DEFINE i == pub[p].id
               m == pub[p].manifest
    <2>1. m = ManifestNow(i, m.at)
      BY <1>2, <1>5 DEF PutManifest, Step, PublishInv, PubGood, Waiting
    <2>2. ManifestForm(i, m)
      BY <2>1 DEF ManifestNow, ManifestForm, Rows
    <2>3. \/ CanPutObject(ManifestKey(i), m) /\ PutObject(ManifestKey(i), m)
          \/ UNCHANGED remote
      BY <1>5 DEF PutManifest
    <2>4. QED
      BY <1>1, <1>2, <1>3, <2>2, <2>3, PutGood
  <1>6. QED
    BY <1>4, <1>5

\* The other steps leave the store of objects alone.
LEMMA RemoteMoves ==
  ASSUME NEW p \in Publishers, RunStep(p) \/ Crash(p) \/ StageFails(p) \/ StoreFailsInRun(p)
  PROVE  remote' = remote \/ (Publishing(p) /\ (Put(p) \/ PutManifest(p)))
  <1>1. CASE Publishing(p)
    BY <1>1 DEF Publishing, PublishStep, Completed, Collect, Snapshot, Record, objects
  <1>2. CASE CopyUpstream(p) \/ WriteSide(p) \/ WriteDocument(p)
    BY <1>2 DEF CopyUpstream, WriteSide, WriteDocument, Write, objects
  <1>3. CASE ~(CopyUpstream(p) \/ WriteSide(p) \/ WriteDocument(p) \/ Publishing(p))
    BY <1>3, ScanForm DEF RunStep, Begin, Recover, CreateJob, RecordInput, EnsureUnit, Invalidate,
       CheckFresh, StartStage, Prepare, PrepareBackup, Proof, Commit, FailStage, FinishProof,
       FinishFinal, Return, KeepAll, objects, Crash, StageFails, StoreFailsInRun, StoreFails
  <1>4. QED
    BY <1>1, <1>2, <1>3

LEMMA AllOfFields ==
  ASSUME NEW of, NEW u, AllOf(of, u)
  PROVE  \A s \in Stages : u[s].status = "SUCCEEDED" /\ u[s].attempts = of[s]
  <1> SUFFICES ASSUME NEW s \in Stages PROVE u[s].status = "SUCCEEDED" /\ u[s].attempts = of[s]
    OBVIOUS
  <1>1. u[s] = [status |-> "SUCCEEDED", attempts |-> of[s]]
    BY DEF AllOf
  <1>2. QED
    BY <1>1

LEMMA ObjectsGoodStep ==
  ASSUME PublishInv, NEW p \in Publishers, [SliceNext]_slice,
         RunStep(p) \/ Crash(p) \/ StageFails(p) \/ StoreFailsInRun(p)
  PROVE  ObjectsGood'
  <1>1. CASE Put(p) \/ PutManifest(p)
    BY <1>1, PuttingGood
  <1>2. ASSUME remote' = remote, NEW key \in DOMAIN remote
        PROVE  /\ ObjectFits(key, remote', unit', artifacts')
               /\ SnapshotIsNow(key, remote', unit', artifacts', failures', records')
    <2>1. [StoreNext]_store
      BY SliceStepsTheStore DEF PublishInv, VoiceInv
    <2>2. /\ ObjectFits(key, remote, unit, artifacts)
          /\ SnapshotIsNow(key, remote, unit, artifacts, failures, records)
      BY DEF PublishInv, ObjectsGood
    <2>3. ObjectFits(key, remote', unit', artifacts')
      BY <1>2, <2>1, <2>2, ObjectStays DEF PublishInv, VoiceInv
    <2>4. CASE ~(key[2] = "state" /\ key[1].base = "final")
      BY <2>3, <2>4 DEF SnapshotIsNow
    <2>5. ASSUME key[2] = "state", key[1].base = "final"
          PROVE records' = records \/ Known(records', key[1]) \/ ~AllOf(key[1].attempts, unit')
      <3> SUFFICES ASSUME records' # records, AllOf(key[1].attempts, unit')
                   PROVE  Known(records', key[1])
        OBVIOUS
      <3> DEFINE i == pub[p].id
      <3>1. Record(p) /\ record_checkpoint(i, pub[p].manifest)
        BY RecordsGrow
      <3>2. unit' = unit /\ Known(records', i)
        BY <3>1 DEF record_checkpoint, Known
      <3>3. run[p].pc \in {"proof", "final"}
        BY <3>1, PutsForWhom DEF Record, Step, Active
      <3>4. AllOf(key[1].attempts, unit)
        BY <3>2
      <3>5. \A s \in Stages : /\ unit[s].status = "SUCCEEDED"
                              /\ unit[s].attempts = key[1].attempts[s]
        BY <3>4, AllOfFields
      <3>6. run[p].pc = "final"
        <4>1. BACKUP \in Stages
          BY Places
        <4>2. QED
          BY <3>3, <3>5, <4>1, WhileWaiting
      <3>7. FinalId(i) /\ i.base = "final" /\ AllOf(i.attempts, unit)
        BY <3>6, WhileWaiting
      <3>8. \A s \in Stages : unit[s].attempts = i.attempts[s]
        BY <3>7, AllOfFields
      <3>9. \A s \in Stages : i.attempts[s] = key[1].attempts[s]
        BY <3>5, <3>8
      <3>10. FinalId(key[1])
        BY <2>2, <2>5 DEF ObjectFits
      <3>11. /\ i.attempts = [s \in Stages |-> i.attempts[s]]
             /\ key[1].attempts = [s \in Stages |-> key[1].attempts[s]]
        BY <3>7, <3>10 DEF FinalId
      <3>12. i.attempts = key[1].attempts
        BY <3>9, <3>11
      <3>13. i = key[1]
        BY <3>7, <3>10, <3>12 DEF FinalId
      <3>14. QED
        BY <3>2, <3>13
    <2>6. CASE key[2] = "state" /\ key[1].base = "final"
      <3>1. StoreInv /\ TablesFit /\ remote'[key] = remote[key]
        BY <1>2 DEF PublishInv, VoiceInv
      <3>2. records' = records \/ Known(records', key[1]) \/ ~AllOf(key[1].attempts, unit')
        BY <2>5, <2>6
      <3>3. SnapshotIsNow(key, remote', unit', artifacts', failures', records')
        BY <2>1, <2>2, <3>1, <3>2, SnapshotStays
      <3>4. QED
        BY <2>3, <3>3
    <2>7. QED
      BY <2>3, <2>4, <2>6
  <1>3. QED
    BY <1>1, <1>2, RemoteMoves DEF ObjectsGood

\* What publish() records verifies.
LEMMA NewRecordVerifies ==
  ASSUME PublishInv, NEW p \in Publishers, Record(p)
  PROVE  RecordVerifies([id |-> pub[p].id, evidence |-> pub[p].manifest])
  <1> DEFINE i == pub[p].id
             m == pub[p].manifest
             key == ManifestKey(i)
             rec == [id |-> i, evidence |-> m]
  <1>1. pub[p].step = "record" /\ run[p].pc \in {"proof", "final"}
    BY PutsForWhom DEF Record, Step, Active
  <1>2. m = ManifestNow(i, m.at) /\ Stored(key, m)
    BY <1>1 DEF PublishInv, PubGood, Waiting
  <1>3. m.id = i
    BY <1>2 DEF ManifestNow
  <1>4. key \in DOMAIN remote /\ remote[key].content = m /\ key[1] = i /\ key[2] = "manifest"
    BY <1>2 DEF Stored, Whole, ManifestKey
  <1>5. /\ WasPut(StateKey(i), m.state) /\ WasPut(InputKey(i), m.input)
        /\ \A n \in Listed(m) : WasPut(ArtifactKey(i, n), m.artifacts[n])
    BY <1>4 DEF PublishInv, CompleteInv, ManifestIsComplete
  <1>6. \A k, content : WasPut(k, content) => Stored(k, content)
    BY DEF PublishInv, ObjectsGood, ObjectFits, WasPut, Stored
  <1>7. ObjectsVerify(i, m)
    BY <1>5, <1>6 DEF ObjectsVerify
  <1>8. rec.id = i /\ rec.evidence = m
    OBVIOUS
  <1> HIDE DEF rec, i, m, key
  <1>9. RecordVerifies(rec)
    BY <1>2, <1>3, <1>7, <1>8 DEF RecordVerifies, key
  <1>10. QED
    BY <1>9 DEF rec, i, m

LEMMA RecordsGoodStep ==
  ASSUME PublishInv, NEW p \in Publishers,
         RunStep(p) \/ Crash(p) \/ StageFails(p) \/ StoreFailsInRun(p)
  PROVE  RecordsGood'
  <1>1. \A k \in DOMAIN remote : k \in DOMAIN remote' /\ remote'[k] = remote[k]
    <2>1. CASE remote' = remote
      BY <2>1
    <2>2. CASE Put(p)
      <3>1. PICK key \in pub[p].todo :
               \/ CanPutObject(key, ContentOf(p, key)) /\ PutObject(key, ContentOf(p, key))
               \/ UNCHANGED remote
        BY <2>2 DEF Put
      <3>2. QED
        BY <2>1, <3>1, PutKeeps
    <2>3. CASE PutManifest(p)
      <3>1. \/ /\ CanPutObject(ManifestKey(pub[p].id), pub[p].manifest)
               /\ PutObject(ManifestKey(pub[p].id), pub[p].manifest)
            \/ UNCHANGED remote
        BY <2>3 DEF PutManifest
      <3>2. QED
        BY <2>1, <3>1, PutKeeps
    <2>4. QED
      BY <2>1, <2>2, <2>3, RemoteMoves
  <1>2. \A k, content : Stored(k, content) => Stored(k, content)'
    BY <1>1 DEF Stored
  <1>3. \A rec : RecordVerifies(rec) => RecordVerifies(rec)'
    BY <1>2 DEF RecordVerifies, ObjectsVerify
  <1>4. \A rec \in records : RecordVerifies(rec)' /\ IdForm(rec.id)
    BY <1>3 DEF PublishInv, RecordsGood
  <1>5. CASE records' = records
    BY <1>4, <1>5 DEF RecordsGood
  <1>6. CASE records' # records
    <2>1. PICK new : new = [id |-> pub[p].id, evidence |-> pub[p].manifest]
      OBVIOUS
    <2>2. Record(p) /\ records' = records \union {new}
      BY <1>6, <2>1, RecordsGrow DEF record_checkpoint
    <2>3. RecordVerifies(new)
      BY <2>1, <2>2, NewRecordVerifies
    <2>4. RecordVerifies(new)'
      BY <1>3, <2>3
    <2>5. run[p].pc \in {"proof", "final"}
      BY <2>2, PutsForWhom DEF Record, Step, Active
    <2>6. new.id = pub[p].id
      BY <2>1
    <2>7. IdForm(new.id)
      BY <2>5, <2>6, WhileWaiting
    <2>8. \A rec \in records' : RecordVerifies(rec)' /\ IdForm(rec.id)
      BY <1>4, <2>2, <2>4, <2>7
    <2>9. QED
      BY <2>8 DEF RecordsGood
  <1>7. QED
    BY <1>5, <1>6

\* A publication that is called for.
LEMMA CallGood ==
  ASSUME PublishInv, NEW p \in Publishers, NEW i, NEW at, Publish(p, i, run[p].ws, at),
         run'[p].ws = run[p].ws, unit' = unit,
         run'[p].pc = "proof" => \E token : i = EffectiveId("proof", Stages \ {BACKUP}, token),
         run'[p].pc = "final" => i = EffectiveId("final", Stages, None)
  PROVE  PubGood(p)'
  <1>1. pub'[p] = [step |-> "completed", id |-> i, ws |-> run[p].ws, at |-> at]
    BY DEF Publish, PublishInv, CompleteInv, PubInv
  <1>2. /\ {"step", "id", "ws"} \subseteq DOMAIN pub'[p] /\ pub'[p].ws = run'[p].ws
        /\ pub'[p].step = "completed" /\ pub'[p].id = i
    BY <1>1
  <1>3. IdIsNow(p)'
    BY <1>2 DEF IdIsNow, EffectiveId
  <1>4. QED
    BY <1>2, <1>3 DEF PubGood, Active

\* The publication goes on under its id.
LEMMA SameCall ==
  ASSUME PublishInv, NEW p \in Publishers, run[p].pc \in Waiting,
         run'[p].pc = run[p].pc, run'[p].ws = run[p].ws,
         unit' = unit, pub'[p].id = pub[p].id, pub'[p].ws = pub[p].ws,
         {"step", "id", "ws"} \subseteq DOMAIN pub'[p]
  PROVE  /\ {"step", "id", "ws"} \subseteq DOMAIN pub'[p] /\ pub'[p].ws = run'[p].ws
         /\ IdIsNow(p)'
  BY DEF PublishInv, PubGood, IdIsNow, EffectiveId

LEMMA GoKeeps ==
  ASSUME PublishInv, NEW p \in Publishers, run[p].pc \in Waiting, NEW step, Go(p, step)
  PROVE  /\ pub'[p] = [pub[p] EXCEPT !.step = step] /\ pub'[p].step = step
         /\ pub'[p].id = pub[p].id /\ pub'[p].ws = pub[p].ws
         /\ DOMAIN pub'[p] = DOMAIN pub[p] /\ {"step", "id", "ws"} \subseteq DOMAIN pub'[p]
  <1>1. {"step", "id", "ws"} \subseteq DOMAIN pub[p]
    BY DEF PublishInv, PubGood
  <1>2. pub'[p] = [pub[p] EXCEPT !.step = step]
    BY DEF Go, PublishInv, CompleteInv, PubInv
  <1>3. QED
    BY <1>1, <1>2

LEMMA CompletedGood ==
  ASSUME PublishInv, NEW p \in Publishers, Completed(p), run[p].pc \in Waiting, run' = run
  PROVE  PubGood(p)'
  <1> DEFINE found == RecordsOf(pub[p].id)
  <1>1. UNCHANGED <<unit, records>>
    BY DEF Completed, store
  <1>2. CASE Go(p, "collect") /\ found = {}
    <2>1. pub'[p].step = "collect" /\ pub'[p].id = pub[p].id
      BY <1>2, GoKeeps
    <2>2. ~Known(records', pub'[p].id)
      BY <1>1, <1>2, <2>1 DEF Known, RecordsOf
    <2>3. /\ {"step", "id", "ws"} \subseteq DOMAIN pub'[p] /\ pub'[p].ws = run'[p].ws
          /\ IdIsNow(p)'
      BY <1>1, <1>2, GoKeeps, SameCall
    <2>4. QED
      BY <2>1, <2>2, <2>3 DEF PubGood
  <1>3. CASE Go(p, "done") /\ found # {}
    <2>1. pub'[p].step = "done" /\ pub'[p].id = pub[p].id
      BY <1>3, GoKeeps
    <2>2. Known(records', pub'[p].id)
      BY <1>1, <1>3, <2>1 DEF Known, RecordsOf
    <2>3. /\ {"step", "id", "ws"} \subseteq DOMAIN pub'[p] /\ pub'[p].ws = run'[p].ws
          /\ IdIsNow(p)'
      BY <1>1, <1>3, GoKeeps, SameCall
    <2>4. QED
      BY <2>1, <2>2, <2>3 DEF PubGood, Active
  <1>4. \A rec \in found : RecordVerifies(rec)
    BY DEF RecordsOf, PublishInv, RecordsGood
  <1>5. QED
    BY <1>2, <1>3, <1>4 DEF Completed

LEMMA CollectGood ==
  ASSUME PublishInv, NEW p \in Publishers, Collect(p), run[p].pc \in Waiting, run' = run
  PROVE  PubGood(p)'
  <1> DEFINE c == [step |-> "snapshot", id |-> pub[p].id, ws |-> pub[p].ws, at |-> pub[p].at,
                   rows |-> Rows(valid_artifacts)]
  <1>1. UNCHANGED <<unit, records, artifacts>> /\ pub[p].step = "collect"
    BY DEF Collect, store, Step
  <1>2. run[p].pc \in {"proof", "final"} /\ ~Known(records, pub[p].id)
    BY <1>1, PutsForWhom DEF Active, PublishInv, PubGood
  <1>3. \A n \in valid_artifacts : Has(pub[p].ws, n, Rows(valid_artifacts)[n])
    <2> SUFFICES ASSUME NEW n \in valid_artifacts
                 PROVE  Has(pub[p].ws, n, Rows(valid_artifacts)[n])
      OBVIOUS
    <2>1. /\ Has(pub[p].ws, n, artifacts[n].digest)
          /\ Rows(valid_artifacts)[n] = artifacts[n].digest
      BY <1>2, WhileWaiting
    <2>2. QED
      BY <2>1
  <1>4. DurableInput
    BY <1>2, WhileWaiting
  <1>5. pub' = [pub EXCEPT ![p] = c]
    BY <1>3, <1>4 DEF Collect
  <1>6. pub'[p] = c
    BY <1>5 DEF PublishInv, CompleteInv, PubInv
  <1>7. /\ pub'[p].step = "snapshot" /\ pub'[p].id = pub[p].id /\ pub'[p].ws = pub[p].ws
        /\ {"step", "id", "ws"} \subseteq DOMAIN pub'[p] /\ pub'[p].rows = Rows(valid_artifacts)
    BY <1>6
  <1>8. /\ {"step", "id", "ws"} \subseteq DOMAIN pub'[p] /\ pub'[p].ws = run'[p].ws
        /\ IdIsNow(p)'
    BY <1>1, <1>7, SameCall
  <1>9. pub'[p].rows = Rows(valid_artifacts)'
    BY <1>1, <1>7 DEF Rows, valid_artifacts, Valid
  <1>10. ~Known(records', pub'[p].id)
    BY <1>1, <1>2, <1>7
  <1>11. QED
    BY <1>7, <1>8, <1>9, <1>10 DEF PubGood

LEMMA SnapshotGood ==
  ASSUME PublishInv, NEW p \in Publishers, Snapshot(p), run[p].pc \in Waiting, run' = run
  PROVE  PubGood(p)'
  <1> DEFINE i == pub[p].id
             m == ManifestNow(i, pub[p].at)
             todo == {InputKey(i), StateKey(i)}
                        \union {ArtifactKey(i, n) : n \in {x \in Names : pub[p].rows[x] # None}}
             c == [step |-> "put", id |-> i, ws |-> pub[p].ws, todo |-> todo, manifest |-> m]
  <1>1. /\ UNCHANGED <<input, unit, records, artifacts, failures>>
        /\ pub[p].step = "snapshot"
    BY DEF Snapshot, store, Step
  <1>2. run[p].pc \in {"proof", "final"} /\ ~Known(records, i) /\ pub[p].rows = Rows(valid_artifacts)
    BY <1>1, PutsForWhom DEF Active, PublishInv, PubGood
  <1>3. pub' = [pub EXCEPT ![p] = c]
    BY <1>2 DEF Snapshot, ManifestNow
  <1>4. pub'[p] = c
    BY <1>3 DEF PublishInv, CompleteInv, PubInv
  <1>5. /\ pub'[p].step = "put" /\ pub'[p].id = i /\ pub'[p].ws = pub[p].ws
        /\ {"step", "id", "ws"} \subseteq DOMAIN pub'[p]
        /\ pub'[p].manifest = m /\ pub'[p].todo = todo
    BY <1>4
  <1>6. /\ {"step", "id", "ws"} \subseteq DOMAIN pub'[p] /\ pub'[p].ws = run'[p].ws
        /\ IdIsNow(p)'
    BY <1>1, <1>5, SameCall
  <1>7. {x \in Names : pub[p].rows[x] # None} \subseteq valid_artifacts
    BY <1>2 DEF Rows
  <1>8. todo \subseteq {InputKey(i), StateKey(i)} \union {ArtifactKey(i, n) : n \in valid_artifacts}
    BY <1>7
  <1>9. valid_artifacts' = valid_artifacts
    BY <1>1 DEF valid_artifacts, Valid
  <1> HIDE DEF todo, m
  <1>10. pub'[p].todo \subseteq {InputKey(pub'[p].id), StateKey(pub'[p].id)}
                           \union {ArtifactKey(pub'[p].id, n) : n \in valid_artifacts'}
    BY <1>5, <1>8, <1>9
  <1>11. m.at = pub[p].at
    BY DEF m, ManifestNow
  <1>12. (pub[p].manifest = ManifestNow(pub[p].id, pub[p].manifest.at))'
    BY <1>1, <1>5, <1>11 DEF m, ManifestNow, StateSnapshot, Rows, valid_artifacts, Valid
  <1>13. ~Known(records', pub'[p].id)
    BY <1>1, <1>2, <1>5
  <1>14. QED
    BY <1>5, <1>6, <1>10, <1>12, <1>13 DEF PubGood

LEMMA PutGoesOn ==
  ASSUME PublishInv, NEW p \in Publishers, Put(p), run[p].pc \in Waiting, run' = run
  PROVE  PubGood(p)'
  <1> DEFINE i == pub[p].id
             m == pub[p].manifest
  <1>1. /\ UNCHANGED <<input, unit, records, artifacts, failures, files>>
        /\ pub[p].step = "put"
    BY DEF Put, store, Step
  <1>2. /\ run[p].pc \in {"proof", "final"} /\ ~Known(records, i)
        /\ m = ManifestNow(i, m.at)
        /\ pub[p].todo \subseteq {InputKey(i), StateKey(i)}
                                   \union {ArtifactKey(i, n) : n \in valid_artifacts}
    BY <1>1, PutsForWhom DEF Active, PublishInv, PubGood
  <1>3. PICK key \in pub[p].todo :
           IF SourceIsThere(p, key) /\ CanPutObject(key, ContentOf(p, key))
           THEN /\ PutObject(key, ContentOf(p, key))
                /\ pub' = [pub EXCEPT ![p].todo = @ \ {key},
                                      ![p].step = IF pub[p].todo = {key} THEN "manifest"
                                                  ELSE "put"]
           ELSE Go(p, "error") /\ UNCHANGED remote
    BY DEF Put
  <1>4. Puts(i, key, ContentOf(p, key)) /\ SourceIsThere(p, key)
    BY <1>1, <1>2, WhatIsPut
  <1>5. CASE ~CanPutObject(key, ContentOf(p, key))
    <2>1. Go(p, "error") /\ UNCHANGED remote
      BY <1>3, <1>5
    <2>2. Leftover
      BY <1>2, <1>4, <1>5, PutIsPossible
    <2>3. Leftover'
      BY <1>1, <2>1, <2>2 DEF Leftover, RecordsOf, Valid
    <2>4. /\ {"step", "id", "ws"} \subseteq DOMAIN pub'[p] /\ pub'[p].ws = run'[p].ws
          /\ IdIsNow(p)'
      BY <1>1, <2>1, GoKeeps, SameCall
    <2>5. pub'[p].step = "error"
      BY <2>1, GoKeeps
    <2>6. QED
      BY <2>3, <2>4, <2>5 DEF PubGood, Active
  <1>6. CASE CanPutObject(key, ContentOf(p, key))
    <2> DEFINE step == IF pub[p].todo = {key} THEN "manifest" ELSE "put"
               todo == pub[p].todo \ {key}
               c == [pub[p] EXCEPT !.todo = todo, !.step = step]
    <2>1. pub' = [pub EXCEPT ![p] = c]
      BY <1>3, <1>4, <1>6
    <2>2. pub'[p] = c
      BY <2>1 DEF PublishInv, CompleteInv, PubInv
    <2>3. DOMAIN pub[p] = {"step", "id", "ws", "todo", "manifest"}
      BY <1>1 DEF PublishInv, CompleteInv, PubInv, InOrder
    <2>4. step \in {"put", "manifest"} /\ todo \subseteq pub[p].todo
      OBVIOUS
    <2> HIDE DEF step, todo
    <2>5. /\ pub'[p].step = step /\ pub'[p].id = i /\ pub'[p].ws = pub[p].ws
          /\ {"step", "id", "ws"} \subseteq DOMAIN pub'[p]
          /\ pub'[p].manifest = m /\ pub'[p].todo = todo
      BY <2>2, <2>3
    <2>6. /\ {"step", "id", "ws"} \subseteq DOMAIN pub'[p] /\ pub'[p].ws = run'[p].ws
          /\ IdIsNow(p)'
      BY <1>1, <2>5, SameCall
    <2>7. valid_artifacts' = valid_artifacts
      BY <1>1 DEF valid_artifacts, Valid
    <2>8. pub'[p].todo \subseteq {InputKey(pub'[p].id), StateKey(pub'[p].id)}
                             \union {ArtifactKey(pub'[p].id, n) : n \in valid_artifacts'}
      BY <1>2, <2>4, <2>5, <2>7
    <2> HIDE DEF m
    <2>9. (pub[p].manifest = ManifestNow(pub[p].id, pub[p].manifest.at))'
      BY <1>1, <1>2, <2>5 DEF ManifestNow, StateSnapshot, Rows, valid_artifacts, Valid
    <2>10. ~Known(records', pub'[p].id)
      BY <1>1, <1>2, <2>5
    <2>11. QED
      BY <2>4, <2>5, <2>6, <2>8, <2>9, <2>10 DEF PubGood
  <1>7. QED
    BY <1>5, <1>6

LEMMA PutManifestGood ==
  ASSUME PublishInv, NEW p \in Publishers, PutManifest(p), run[p].pc \in Waiting, run' = run
  PROVE  PubGood(p)'
  <1> DEFINE i == pub[p].id
             m == pub[p].manifest
             key == ManifestKey(i)
             there == remote[key]
  <1>1. /\ UNCHANGED <<input, unit, records, artifacts, failures>>
        /\ pub[p].step = "manifest"
    BY DEF PutManifest, store, Step
  <1>2. /\ run[p].pc \in {"proof", "final"} /\ ~Known(records, i)
        /\ m = ManifestNow(i, m.at)
    BY <1>1, PutsForWhom DEF Active, PublishInv, PubGood
  <1>3. DOMAIN pub[p] = {"step", "id", "ws", "todo", "manifest"}
    BY <1>1 DEF PublishInv, CompleteInv, PubInv, InOrder
  <1>4. ASSUME NEW next, next = ManifestNow(i, next.at),
               key \in DOMAIN remote' /\ remote'[key] = Whole(next),
               pub'[p] = [pub[p] EXCEPT !.manifest = next, !.step = "record"]
        PROVE  PubGood(p)'
    <2>1. /\ pub'[p].step = "record" /\ pub'[p].id = i /\ pub'[p].ws = pub[p].ws
          /\ {"step", "id", "ws"} \subseteq DOMAIN pub'[p] /\ pub'[p].manifest = next
      BY <1>3, <1>4
    <2>2. /\ {"step", "id", "ws"} \subseteq DOMAIN pub'[p] /\ pub'[p].ws = run'[p].ws
          /\ IdIsNow(p)'
      BY <1>1, <2>1, SameCall
    <2>3. (pub[p].manifest = ManifestNow(pub[p].id, pub[p].manifest.at))'
      BY <1>1, <1>4, <2>1 DEF ManifestNow, StateSnapshot, Rows, valid_artifacts, Valid
    <2>4. Stored(ManifestKey(pub[p].id), pub[p].manifest)'
      BY <1>4, <2>1 DEF Stored
    <2>5. ~Known(records', pub'[p].id)
      BY <1>1, <1>2, <2>1
    <2>6. QED
      BY <2>1, <2>2, <2>3, <2>4, <2>5 DEF PubGood
  <1>5. CASE CanPutObject(key, m) /\ PutObject(key, m) /\ Go(p, "record")
    <2>1. key \in DOMAIN remote' /\ remote'[key] = Whole(m)
      BY <1>5, PutKeeps
    <2>2. pub'[p] = [pub[p] EXCEPT !.step = "record"]
      BY <1>5, GoKeeps
    <2>3. pub'[p] = [pub[p] EXCEPT !.manifest = m, !.step = "record"]
      BY <1>3, <2>2
    <2>4. QED
      BY <1>2, <1>4, <2>1, <2>3
  <1>6. ASSUME key \in DOMAIN remote, UNCHANGED remote,
               IF there.whole /\ [there.content EXCEPT !.at = m.at] = m
               THEN pub' = [pub EXCEPT ![p].manifest = there.content, ![p].step = "record"]
               ELSE Go(p, "error")
        PROVE  PubGood(p)'
    <2>1. /\ there.whole /\ there.content = ManifestNow(i, there.content.at)
          /\ [there.content EXCEPT !.at = m.at] = m
      BY <1>1, <1>2, <1>6, ManifestIsAlike
    <2>2. pub' = [pub EXCEPT ![p].manifest = there.content, ![p].step = "record"]
      BY <1>6, <2>1
    <2>3. pub'[p] = [pub[p] EXCEPT !.manifest = there.content, !.step = "record"]
      BY <2>2 DEF PublishInv, CompleteInv, PubInv
    <2>4. there = Whole(there.content)
      <3>1. ObjectFits(key, remote, unit, artifacts)
        BY <1>6 DEF PublishInv, ObjectsGood
      <3>2. QED
        BY <3>1 DEF ObjectFits
    <2>5. key \in DOMAIN remote' /\ remote'[key] = Whole(there.content)
      BY <1>6, <2>4
    <2> HIDE DEF there
    <2>6. QED
      BY <1>4, <2>1, <2>3, <2>5
  <1>7. QED
    BY <1>5, <1>6 DEF PutManifest

LEMMA RecordGoesOn ==
  ASSUME PublishInv, NEW p \in Publishers, Record(p), run[p].pc \in Waiting, run' = run
  PROVE  PubGood(p)'
  <1> DEFINE i == pub[p].id
             m == pub[p].manifest
  <1>1. pub[p].step = "record"
    BY DEF Record, Step
  <1>2. run[p].pc \in {"proof", "final"} /\ ~Known(records, i)
    BY <1>1, PutsForWhom DEF Active, PublishInv, PubGood
  <1>3. CanRecord(i, m)
    <2>1. DurableInput
      BY <1>2, WhileWaiting
    <2>2. RecordsOf(i) = {}
      BY <1>2 DEF Known, RecordsOf
    <2>3. QED
      BY <2>1, <2>2 DEF CanRecord
  <1>4. record_checkpoint(i, m) /\ Go(p, "done")
    BY <1>3 DEF Record
  <1>5. unit' = unit /\ Known(records', i)
    <2> DEFINE new == [id |-> i, evidence |-> m]
    <2>1. new \in records' /\ unit' = unit
      BY <1>4 DEF record_checkpoint
    <2>2. new.id = i
      OBVIOUS
    <2> HIDE DEF new
    <2>3. QED
      BY <2>1, <2>2 DEF Known
  <1>6. pub'[p].step = "done" /\ pub'[p].id = i
    BY <1>4, GoKeeps
  <1>7. /\ {"step", "id", "ws"} \subseteq DOMAIN pub'[p] /\ pub'[p].ws = run'[p].ws
        /\ IdIsNow(p)'
    BY <1>4, <1>5, GoKeeps, SameCall
  <1>8. QED
    BY <1>5, <1>6, <1>7 DEF PubGood, Active

\* The put that fails is not the run's fault.
LEMMA StoreFailsGood ==
  ASSUME PublishInv, NEW p \in Publishers, StoreFailsInRun(p) PROVE PubGood(p)'
  <1>1. run[p].pc \in Waiting /\ unit' = unit /\ Go(p, "error")
    BY DEF StoreFailsInRun, StoreFails, Waiting, store
  <1>2. run'[p].pc = run[p].pc /\ run'[p].ws = run[p].ws /\ run'[p].calm = FALSE
    BY <1>1 DEF StoreFailsInRun, PublishInv, VoiceInv, RunInv, Fields, Over, Waiting
  <1>3. pub'[p].step = "error"
    BY <1>1, GoKeeps
  <1>4. /\ {"step", "id", "ws"} \subseteq DOMAIN pub'[p] /\ pub'[p].ws = run'[p].ws
        /\ IdIsNow(p)'
    BY <1>1, <1>2, GoKeeps, SameCall
  <1>5. QED
    BY <1>2, <1>3, <1>4 DEF PubGood, Active

LEMMA PublishingGood ==
  ASSUME PublishInv, NEW p \in Publishers, Publishing(p) PROVE PubGood(p)'
  <1>1. run[p].pc \in Waiting /\ run' = run /\ PublishStep(p)
    BY DEF Publishing, Waiting
  <1>2. QED
    BY <1>1, CompletedGood, CollectGood, SnapshotGood, PutGoesOn, PutManifestGood, RecordGoesOn
       DEF PublishStep

LEMMA PubGoodStep ==
  ASSUME PublishInv, NEW p \in Publishers,
         RunStep(p) \/ Crash(p) \/ StageFails(p) \/ StoreFailsInRun(p)
  PROVE  PubGood(p)'
  <1>1. CASE run'[p].pc \notin Waiting
    BY <1>1 DEF PubGood
  <1>2. CASE PrepareBackup(p) /\ run'[p].pc = "proof"
    <2>1. run[p].pc = "prepare" /\ unit' = unit
      BY <1>2 DEF PrepareBackup, At, KeepStore, store
    <2>2. \/ Jump(p, "failing")
          \/ \E made : run' = [run EXCEPT ![p].made = made, ![p].pc = "document"]
          \/ Publish(p, ProofId(p), run[p].ws, run[p].at) /\ Jump(p, "proof")
      BY <1>2 DEF PrepareBackup
    <2>3. ~Jump(p, "failing")
      BY <1>2, <2>1, JumpFields DEF PublishInv, VoiceInv, Over
    <2>4. ASSUME NEW made, run' = [run EXCEPT ![p].made = made, ![p].pc = "document"] PROVE FALSE
      <3>1. run'[p].pc = "document"
        BY <2>1, <2>4 DEF PublishInv, VoiceInv, RunInv, Fields, Over
      <3>2. QED
        BY <1>2, <3>1
    <2>5. Publish(p, ProofId(p), run[p].ws, run[p].at) /\ Jump(p, "proof")
      BY <2>2, <2>3, <2>4
    <2>6. ProofId(p) = EffectiveId("proof", Stages \ {BACKUP}, run[p].token)
      BY IdIsKept DEF ProofId, PublishInv
    <2>7. run'[p].ws = run[p].ws
      BY <2>1, <2>5, JumpFields DEF PublishInv, VoiceInv, Over
    <2>8. QED
      BY <1>2, <2>1, <2>5, <2>6, <2>7, CallGood
  <1>3. CASE FinishProof(p)
    <2>1. /\ run[p].pc = "finish" /\ unit' = unit /\ Jump(p, "proven")
          /\ Publish(p, run[p].docs[BACKUP].proof, run[p].ws, run[p].at)
      BY <1>3 DEF FinishProof, At, store
    <2>2. run'[p].ws = run[p].ws /\ run'[p].pc = "proven"
      BY <2>1, JumpFields DEF PublishInv, VoiceInv, Over
    <2>3. QED
      BY <2>1, <2>2, CallGood
  <1>4. CASE FinishFinal(p) /\ run'[p].pc = "final"
    <2>1. run[p].pc = "proven" /\ unit' = unit
      BY <1>4 DEF FinishFinal, At, store
    <2>2. ~Raise(p, "raised")
      BY <1>4, RaiseFields DEF PublishInv, VoiceInv
    <2>3. /\ Publish(p, PublicationId(EffectiveId("final", Stages, None)), run[p].ws, run[p].at)
          /\ Jump(p, "final")
      BY <1>4, <2>2 DEF FinishFinal
    <2>4. PublicationId(EffectiveId("final", Stages, None)) = EffectiveId("final", Stages, None)
      BY IdIsKept DEF PublishInv
    <2>5. run'[p].ws = run[p].ws
      BY <2>1, <2>3, JumpFields DEF PublishInv, VoiceInv, Over
    <2>6. QED
      BY <1>4, <2>1, <2>3, <2>4, <2>5, CallGood
  <1>5. CASE Publishing(p) \/ StoreFailsInRun(p)
    BY <1>5, PublishingGood, StoreFailsGood
  <1>6. QED
    BY <1>1, <1>2, <1>3, <1>4, <1>5, Leads DEF RunStep, Waiting, PublishInv

\* A run that nothing disturbs fails over a leftover only.
RaisedGood(p) == run[p].pc \in {"failing", "raised"} /\ run[p].calm => Leftover

\* All that a run depends on.
RunsWell ==
    /\ PublishInv /\ ContentInv /\ FoundInv /\ FilesGood(files, records)
    /\ \A p \in Publishers : BackupFree(run[p], files) /\ RaisedGood(p)

\* A step after which a run that nothing disturbs fails.
Fails(p) == run'[p].pc \in {"failing", "raised"} /\ run'[p].calm

LEMMA CalmIsKept ==
  ASSUME RunsWell, NEW p \in Publishers
  PROVE  /\ \A pc : run[p].pc \notin Over /\ Jump(p, pc) =>
               run'[p].pc = pc /\ run'[p].calm = run[p].calm
         /\ \A how : Raise(p, how) => run'[p].pc = how /\ run'[p].calm = run[p].calm
  BY DEF RunsWell, PublishInv, VoiceInv, RunInv, Jump, Raise, Fields

LEMMA SetUpSucceeds ==
  ASSUME RunsWell, NEW p \in Publishers, CreateJob(p) \/ RecordInput(p), Fails(p) PROVE FALSE
  <1> DEFINE call == run[p].call
  <1>1. run[p].pc \in {"create", "input"} /\ run[p].pc \notin Over /\ call \in Calls
    BY DEF CreateJob, RecordInput, At, RunsWell, PublishInv, FilesInv, RunTyped, Over
  <1>2. /\ job # None => job = [source |-> call.source, config |-> call.config]
        /\ input # None => input = call.source
    BY <1>1 DEF RunsWell, PublishInv, SetUpInv, JobFits
  <1>3. CASE CreateJob(p)
    <2>1. CanCreate(call.source, call.config)
      BY <1>2 DEF CanCreate
    <2>2. Jump(p, "input")
      BY <1>3, <2>1 DEF CreateJob
    <2>3. QED
      BY <1>1, <2>2, CalmIsKept DEF Fails
  <1>4. CASE RecordInput(p)
    <2>1. job # None
      BY <1>4 DEF RecordInput, At, RunsWell, PublishInv, SetUpInv, SetUp
    <2>2. CanRecordInput(call.source)
      BY <1>2, <2>1 DEF CanRecordInput
    <2>3. Jump(p, "units")
      BY <1>4, <2>2 DEF RecordInput
    <2>4. QED
      BY <1>1, <2>3, CalmIsKept DEF Fails
  <1>5. QED
    BY <1>3, <1>4

LEMMA ScanSucceeds ==
  ASSUME RunsWell, NEW p \in Publishers, Scan(p), Fails(p) PROVE FALSE
  <1>1. Strange(run[p].ws) = {}
    <2> SUFFICES ASSUME NEW n \in valid_artifacts, Owner(n) \notin Succeeded PROVE FALSE
      BY DEF Strange
    <2>1. n \in Names /\ Valid(n) /\ Owner(n) \in Stages /\ n \in NamesOf(Owner(n))
      BY StagesAssumption DEF valid_artifacts, Names, Owner, NamesOf
    <2>2. unit[Owner(n)].status = "SUCCEEDED"
      BY <2>1 DEF RunsWell, PublishInv, VoiceInv, StoreInv, OwnedBySucceeded
    <2>3. QED
      BY <2>1, <2>2 DEF Succeeded
  <1>2. run[p].pc = "scan"
    BY ScanForm
  <1>3. PICK damaged, calm : Resume(p, run[p].ws, damaged, calm)
    BY <1>1, ScanForm
  <1>4. run'[p].pc \in {"stage", "invalidate"}
    BY <1>2, <1>3, ResumeFields DEF RunsWell, PublishInv, VoiceInv
  <1>5. QED
    BY <1>4 DEF Fails

LEMMA StartSucceeds ==
  ASSUME RunsWell, NEW p \in Publishers, StartStage(p), Fails(p) PROVE FALSE
  <1> DEFINE s == run[p].stage
  <1>1. run[p].pc = "stage" /\ run[p].pc \notin Over /\ run[p].pc \in InLoop
        /\ run[p].pc \in WithUnits /\ run[p].pc \notin InStage /\ s \in Nat \ {0}
    BY DEF StartStage, At, Over, InLoop, WithUnits, AfterScan, InStage, RunsWell, PublishInv,
           VoiceInv, RunInv
  <1>2. Raise(p, "raised")
    <2>1. \/ Jump(p, "finish") \/ Jump(p, "prepare") \/ Raise(p, "raised")
          \/ run' = [run EXCEPT ![p].stage = s + 1]
      BY DEF StartStage
    <2>2. CASE run' = [run EXCEPT ![p].stage = s + 1]
      <3>1. run'[p].pc = "stage"
        BY <1>1, <2>2 DEF RunsWell, PublishInv, VoiceInv, RunInv, Fields
      <3>2. QED
        BY <3>1 DEF Fails
    <2>3. QED
      BY <1>1, <2>1, <2>2, CalmIsKept DEF Fails
  <1>3. s \in Stages
    <2>1. ~(s > StageCount)
      <3>1. CASE s > StageCount
        <4>1. Jump(p, "finish")
          BY <3>1 DEF StartStage
        <4>2. QED
          BY <1>1, <4>1, CalmIsKept DEF Fails
      <3>2. QED
        BY <3>1
    <2>2. QED
      BY <1>1, <2>1, StagesAssumption DEF Stages
  <1>4. unit[s].status # "SUCCEEDED"
    <2> SUFFICES ASSUME unit[s].status = "SUCCEEDED" PROVE FALSE
      OBVIOUS
    <2>1. run[p].docs[s] # None
      BY <1>1, <1>3 DEF RunsWell, FoundInv, Found
    <2>2. run' = [run EXCEPT ![p].stage = s + 1]
      BY <1>3, <2>1, StagesAssumption DEF StartStage, Stages
    <2>3. run'[p].pc = "stage"
      BY <1>1, <2>2 DEF RunsWell, PublishInv, VoiceInv, RunInv, Fields
    <2>4. QED
      BY <2>3 DEF Fails
  <1>5. /\ job # None /\ input = job.source
        /\ unit[s].status # "ABSENT" /\ unit[s].status # "RUNNING"
    BY <1>1, <1>3 DEF RunsWell, PublishInv, SetUpInv, SetUp
  <1>6. unit[s].status \in Statuses
    BY <1>3 DEF RunsWell, PublishInv, VoiceInv, StoreInv, StoreTypeOK
  <1>7. CanStart(s)
    BY <1>4, <1>5, <1>6 DEF CanStart, Statuses, DurableInput
  <1>8. Jump(p, "prepare")
    BY <1>3, <1>4, <1>7, StagesAssumption DEF StartStage, Stages
  <1>9. QED
    BY <1>1, <1>8, CalmIsKept DEF Fails

LEMMA CommitSucceeds ==
  ASSUME RunsWell, NEW p \in Publishers, Commit(p), Fails(p) PROVE FALSE
  <1> DEFINE s == run[p].stage
             rows == [n \in NamesOf(s) |-> run[p].made]
  <1>1. run[p].pc = "commit" /\ run[p].pc \notin Over /\ s \in Stages
    BY DEF Commit, At, Over, RunsWell, PublishInv, VoiceInv, RunInv, InOneStage
  <1>2. unit[s].status = "RUNNING"
    BY <1>1 DEF RunsWell, PublishInv, SetUpInv, SetUp, InStage
  <1>3. \A n \in NamesOf(s) : ~Valid(n)
    BY <1>1, <1>2 DEF RunsWell, PublishInv, VoiceInv, StoreInv, OwnedBySucceeded
  <1>4. \A m, n \in NamesOf(s) : Invalid(m) <=> Invalid(n)
    BY <1>1 DEF RunsWell, ContentInv, RowsAgree, Invalid
  <1>5. DOMAIN rows = NamesOf(s) /\ NamesOf(s) # {}
    BY <1>1, DocumentIsAName
  <1> HIDE DEF rows
  <1>6. CanCommit(s, rows)
    BY <1>2, <1>3, <1>4, <1>5 DEF CanCommit, IdentitiesAgree
  <1>7. run' = [run EXCEPT ![p].docs[s] = run[p].made, ![p].stage = s + 1, ![p].pc = "stage"]
    BY <1>6 DEF Commit, rows
  <1>8. run'[p].pc = "stage"
    BY <1>1, <1>7 DEF RunsWell, PublishInv, VoiceInv, RunInv, Fields
  <1>9. QED
    BY <1>8 DEF Fails

\* The results of the stages before are there, in the tables, in the run and in its files.
LEMMA BeforeIsThere ==
  ASSUME RunsWell, NEW p \in Publishers, run[p].pc \in InLoop,
         NEW s \in Stages, s < run[p].stage
  PROVE  /\ unit[s].status = "SUCCEEDED" /\ run[p].docs[s] = artifacts[Document(s)].digest
         /\ run[p].docs[s] # None
         /\ \A n \in NamesOf(s) : Has(run[p].ws, n, run[p].docs[s])
  <1>1. unit[s].status = "SUCCEEDED" /\ run[p].docs[s] = artifacts[Document(s)].digest
    BY DEF RunsWell, PublishInv, VoiceInv, RunFits
  <1>2. /\ \A n \in NamesOf(s) : artifacts[n].digest = artifacts[Document(s)].digest
        /\ artifacts[Document(s)].digest # None
    BY <1>1, SuccessHasRows DEF RunsWell, PublishInv
  <1>3. \A n \in NamesOf(s) : Holds(files, run[p].ws, n, artifacts[n].digest)
    BY DEF RunsWell, PublishInv, FilesInv, FilesFit
  <1>4. QED
    BY <1>1, <1>2, <1>3 DEF Holds, Has

LEMMA PrepareSucceeds ==
  ASSUME RunsWell, NEW p \in Publishers, Prepare(p), Fails(p) PROVE FALSE
  <1> DEFINE s == run[p].stage
             upstream == IF s = 1 THEN Content(0, None, None) ELSE run[p].docs[s - 1]
             ready == /\ s = RENDER => Has(run[p].ws, Side(TTS), run[p].docs[TTS])
                      /\ s = PUBLISH => Has(run[p].ws, Side(RENDER), run[p].docs[RENDER])
  <1>1. run[p].pc = "prepare" /\ run[p].pc \in InLoop /\ run[p].pc \notin Over /\ s \in Stages
    BY DEF Prepare, At, InLoop, Over, RunsWell, PublishInv, VoiceInv, RunInv, InOneStage
  <1>2. upstream # None
    <2>1. CASE s = 1
      BY <2>1 DEF RunsWell, PublishInv, NoneIsNothing
    <2>2. CASE s # 1
      <3>1. s - 1 \in Stages /\ s - 1 < s
        BY <1>1, <2>2, StagesAssumption DEF Stages
      <3>2. QED
        BY <1>1, <2>2, <3>1, BeforeIsThere
    <2>3. QED
      BY <2>1, <2>2
  <1>3. ready
    <2>1. /\ TTS \in Stages /\ RENDER \in Stages /\ TTS \in Sided /\ RENDER \in Sided
      BY Places, SliceAssumption
    <2>2. Side(TTS) \in NamesOf(TTS) /\ Side(RENDER) \in NamesOf(RENDER)
      BY <2>1, OwnersOfNames DEF NamesOf
    <2>3. (s = RENDER => TTS < s) /\ (s = PUBLISH => RENDER < s)
      BY Places
    <2>4. QED
      BY <1>1, <2>1, <2>2, <2>3, BeforeIsThere
  <1>4. \E voice \in IF s = TTS THEN Voices ELSE {upstream.voice} :
           run' = [run EXCEPT ![p].made = Content(s, voice, None),
                              ![p].pc = IF s \in Sided THEN "side" ELSE "document"]
    BY <1>2, <1>3 DEF Prepare
  <1> HIDE DEF upstream, ready
  <1>5. ASSUME NEW voice,
               run' = [run EXCEPT ![p].made = Content(s, voice, None),
                                  ![p].pc = IF s \in Sided THEN "side" ELSE "document"]
        PROVE  FALSE
    <2> DEFINE pc == IF s \in Sided THEN "side" ELSE "document"
               made == Content(s, voice, None)
    <2>1. pc \in {"side", "document"} /\ run' = [run EXCEPT ![p].made = made, ![p].pc = pc]
      BY <1>5
    <2> HIDE DEF pc, made
    <2>2. run'[p].pc = pc
      BY <1>1, <2>1 DEF RunsWell, PublishInv, VoiceInv, RunInv, Fields
    <2>3. QED
      BY <2>1, <2>2 DEF Fails
  <1>6. QED
    BY <1>4, <1>5

LEMMA BackupSucceeds ==
  ASSUME RunsWell, NEW p \in Publishers, PrepareBackup(p), Fails(p) PROVE FALSE
  <1> DEFINE w == run[p].ws
             there == files[w][Document(BACKUP)]
             upstream == run[p].docs[PUBLISH]
  <1>1. /\ run[p].pc = "prepare" /\ run[p].pc \in InLoop /\ run[p].pc \notin Over
        /\ run[p].stage = BACKUP /\ w \in Workspaces
    BY DEF PrepareBackup, At, InLoop, Over, RunsWell, PublishInv, FilesInv, RunTyped
  <1>2. /\ TTS \in Stages /\ PUBLISH \in Stages /\ BACKUP \in Stages
        /\ TTS < BACKUP /\ PUBLISH < BACKUP /\ TTS < PUBLISH /\ PUBLISH >= TTS /\ TTS >= TTS
    BY Places DEF Stages
  <1>3. upstream # None /\ upstream = artifacts[Document(PUBLISH)].digest
        /\ unit[PUBLISH].status = "SUCCEEDED"
    BY <1>1, <1>2, BeforeIsThere
  <1>4. /\ unit[TTS].status = "SUCCEEDED"
        /\ Has(w, Document(TTS), artifacts[Document(TTS)].digest)
    BY <1>1, <1>2, BeforeIsThere, DocumentIsAName
  <1>5. artifacts[Document(TTS)].digest.voice = upstream.voice
    <2>1. Document(TTS) \in valid_artifacts /\ Document(PUBLISH) \in valid_artifacts
      BY <1>2, <1>3, <1>4, DocumentIsAName
         DEF RunsWell, PublishInv, VoiceInv, TablesFit, RowsAreAlike, valid_artifacts, NamesOf
    <2>2. Owner(Document(TTS)) = TTS /\ Owner(Document(PUBLISH)) = PUBLISH
      BY <1>2, DocumentIsAName
    <2>3. QED
      BY <1>2, <1>3, <2>1, <2>2 DEF RunsWell, PublishInv, VoiceInv, TablesFit, OneVoice
  <1>6. ASSUME there # None
        PROVE  /\ there.whole /\ there.content.voice = upstream.voice
               /\ \E rec \in RecordsOf(there.content.proof) : RecordVerifies(rec)
    <2>1. Document(BACKUP) \in Names /\ Owner(Document(BACKUP)) = BACKUP
      BY <1>2, OwnersOfNames
    <2>2. /\ there = Whole(there.content)
          /\ files[w][Document(TTS)].content.voice = there.content.voice
          /\ Known(records, there.content.proof)
      BY <1>1, <1>2, <1>6, <2>1 DEF RunsWell, FilesGood
    <2>3. files[w][Document(TTS)].content = artifacts[Document(TTS)].digest
      BY <1>4 DEF Has, Whole
    <2>4. there.whole
      BY <2>2 DEF Whole
    <2>5. \E rec \in RecordsOf(there.content.proof) : RecordVerifies(rec)
      BY <2>2 DEF Known, RecordsOf, RunsWell, PublishInv, RecordsGood
    <2>6. QED
      BY <1>5, <2>2, <2>3, <2>4, <2>5
  <1>7. CASE there # None
    <2>1. run' = [run EXCEPT ![p].made = there.content, ![p].pc = "document"]
      BY <1>3, <1>6, <1>7 DEF PrepareBackup
    <2>2. run'[p].pc = "document"
      BY <1>1, <2>1 DEF RunsWell, PublishInv, VoiceInv, RunInv, Fields
    <2>3. QED
      BY <2>2 DEF Fails
  <1>8. CASE there = None
    <2>1. Jump(p, "proof")
      BY <1>3, <1>8 DEF PrepareBackup
    <2>2. QED
      BY <1>1, <2>1, CalmIsKept DEF Fails
  <1>9. QED
    BY <1>7, <1>8

\* Where the run waits, it fails with the publication.
LEMMA WaitSucceeds ==
  ASSUME RunsWell, NEW p \in Publishers, Proof(p) \/ FinishFinal(p) \/ Return(p), Fails(p)
  PROVE  Leftover'
  <1>1. /\ run[p].pc \in Waiting /\ run[p].pc \notin Over /\ pub[p].step \in {"done", "error"}
        /\ UNCHANGED <<objects, records, artifacts>>
    BY DEF Proof, FinishFinal, Return, At, Waiting, Over, KeepAll, KeepStore, store, objects
  <1>2. CASE pub[p].step = "done"
    <2>1. Known(records, pub[p].id)
      BY <1>1, <1>2 DEF RunsWell, PublishInv, PubGood
    <2>2. Verified(p)
      BY <2>1 DEF Known, RecordsOf, RunsWell, PublishInv, RecordsGood, Verified
    <2>3. CASE Proof(p)
      <3> DEFINE made == Content(BACKUP, run[p].docs[PUBLISH].voice, pub[p].id)
      <3>1. run' = [run EXCEPT ![p].pc = "document", ![p].made = made]
        BY <1>2, <2>2, <2>3 DEF Proof, Step
      <3> HIDE DEF made
      <3>2. run'[p].pc = "document"
        BY <1>1, <3>1 DEF RunsWell, PublishInv, VoiceInv, RunInv, Fields
      <3>3. QED
        BY <3>2 DEF Fails
    <2>4. CASE FinishFinal(p)
      <3>1. Jump(p, "final")
        BY <1>2, <2>2, <2>4 DEF FinishFinal, Step
      <3>2. QED
        BY <1>1, <3>1, CalmIsKept DEF Fails
    <2>5. CASE Return(p)
      <3>1. Raise(p, "returned")
        BY <1>2, <2>2, <2>5 DEF Return, Step
      <3>2. QED
        BY <3>1, CalmIsKept DEF Fails
    <2>6. QED
      BY <2>3, <2>4, <2>5
  <1>3. CASE pub[p].step = "error"
    <2>1. Jump(p, "failing") \/ Raise(p, "raised")
      BY <1>3 DEF Proof, FinishFinal, Return, Step
    <2>2. run[p].calm
      BY <1>1, <2>1, CalmIsKept DEF Fails
    <2>3. Leftover
      BY <1>1, <1>3, <2>2 DEF RunsWell, PublishInv, PubGood
    <2>4. QED
      BY <1>1, <2>3 DEF Leftover, RecordsOf, Valid, objects
  <1>4. QED
    BY <1>1, <1>2, <1>3

LEMMA FailStageFails ==
  ASSUME RunsWell, NEW p \in Publishers, FailStage(p), Fails(p) PROVE Leftover'
  <1>1. /\ run[p].pc = "failing" /\ Raise(p, "raised") /\ UNCHANGED <<objects, records, artifacts>>
    BY DEF FailStage, At, KeepAll, KeepStore, store, objects, fail_work_unit
  <1>2. run[p].calm
    BY <1>1, CalmIsKept DEF Fails
  <1>3. Leftover
    BY <1>1, <1>2 DEF RunsWell, RaisedGood
  <1>4. QED
    BY <1>1, <1>3 DEF Leftover, RecordsOf, Valid, objects

LEMMA TwoVoices ==
  ASSUME IsFiniteSet(Voices), NEW a \in Voices, NEW b \in Voices, a # b
  PROVE  Cardinality(Voices) > 1
  <1>1. IsFiniteSet({a}) /\ Cardinality({a}) = 1
    BY FS_Singleton
  <1>2. /\ IsFiniteSet({a} \union {b})
        /\ Cardinality({a} \union {b})
             = IF b \in {a} THEN Cardinality({a}) ELSE Cardinality({a}) + 1
    BY <1>1, FS_AddElement, Zenon
  <1>3. Cardinality({a} \union {b}) = 2
    BY <1>1, <1>2
  <1>4. {a} \union {b} \subseteq Voices
    OBVIOUS
  <1>5. Cardinality({a} \union {b}) <= Cardinality(Voices)
    BY <1>4, FS_Subset, Zenon
  <1>6. Cardinality(Voices) \in Nat
    BY FS_CardinalityType, Zenon
  <1>7. QED
    BY <1>3, <1>5, <1>6

\* Contents of one stage differ in the voice or in the proof.
LEMMA ProperSame ==
  ASSUME NEW s, NEW c, NEW d, Proper(s, c), Proper(s, d),
         s < TTS \/ c.voice = d.voice, s = BACKUP => c.proof = d.proof
  PROVE  c = d
  <1>1. c = Content(s, c.voice, c.proof) /\ d = Content(s, d.voice, d.proof)
    BY DEF Proper
  <1>2. Content(s, c.voice, c.proof) = Content(s, d.voice, d.proof)
    BY DEF Content
  <1>3. QED
    BY <1>1, <1>2

\* A write of a stage conflicts with the audio of another attempt only.
LEMMA WriteFails ==
  ASSUME RunsWell, IsFiniteSet(Voices), NEW p \in Publishers, WriteSide(p) \/ WriteDocument(p),
         Fails(p)
  PROVE  Leftover'
  <1> DEFINE s == run[p].stage
             w == run[p].ws
             made == run[p].made
  <1>1. /\ run[p].pc \in {"side", "document"} /\ run[p].pc \notin Over /\ run[p].pc \in InLoop
        /\ run[p].pc \in InStage /\ run[p].pc \in WithUnits
        /\ s \in Stages /\ w \in Workspaces
        /\ run[p].pc = "side" => WriteSide(p)
    BY DEF WriteSide, WriteDocument, At, RunsWell, PublishInv, VoiceInv, RunInv, InOneStage,
           FilesInv, RunTyped, Over, InLoop, InStage, WithUnits, AfterScan
  <1>2. run[p].pc = "side" => s \in Sided
    BY DEF RunsWell, PublishInv, VoiceInv, RunFits
  <1>3. PICK n \in NamesOf(s) :
           /\ ~CanWrite(w, n, made) /\ UNCHANGED <<objects, records, artifacts>>
           /\ run[p].pc = "side" => n = Side(s)
           /\ run[p].pc = "document" => n = Document(s)
    <2>1. CASE WriteSide(p)
      <3>1. run[p].pc = "side" /\ s \in Sided
        BY <1>2, <2>1 DEF WriteSide, At
      <3>2. Side(s) \in NamesOf(s)
        BY <1>1, <3>1, OwnersOfNames DEF NamesOf
      <3>3. ~CanWrite(w, Side(s), made)
        <4>1. CASE CanWrite(w, Side(s), made)
          <5>1. Jump(p, "document")
            BY <2>1, <4>1 DEF WriteSide
          <5>2. QED
            BY <1>1, <5>1, CalmIsKept DEF Fails
        <4>2. QED
          BY <4>1
      <3>4. QED
        BY <2>1, <3>1, <3>2, <3>3 DEF WriteSide, KeepStore, store
    <2>2. CASE WriteDocument(p)
      <3>1. run[p].pc = "document" /\ Document(s) \in NamesOf(s)
        BY <1>1, <2>2, DocumentIsAName DEF WriteDocument, At
      <3>2. ~CanWrite(w, Document(s), made)
        <4>1. CASE CanWrite(w, Document(s), made)
          <5>1. Jump(p, "commit")
            BY <2>2, <4>1 DEF WriteDocument
          <5>2. QED
            BY <1>1, <5>1, CalmIsKept DEF Fails
        <4>2. QED
          BY <4>1
      <3>3. QED
        BY <2>2, <3>1, <3>2 DEF WriteDocument, KeepStore, store
    <2>3. QED
      BY <2>1, <2>2
  <1>4. n \in Names /\ Owner(n) = s
    BY DEF NamesOf
  <1>5. /\ files[w][n] # None /\ files[w][n] = Whole(files[w][n].content)
        /\ files[w][n].content # made
    BY <1>1, <1>3, <1>4 DEF RunsWell, FilesGood, CanWrite, Has
  <1>6. Proper(s, made) /\ Proper(s, files[w][n].content)
    BY <1>1, <1>4, <1>5 DEF RunsWell, ContentInv, RunProper, FilesProper
  <1>7. s # BACKUP
    <2> SUFFICES ASSUME s = BACKUP PROVE FALSE
      OBVIOUS
    <2>1. run[p].pc = "document" /\ n = Document(BACKUP)
      BY <1>1, <1>2, <1>3, Places
    <2>2. files[w][n] \in {None, Whole(made)}
      BY <2>1 DEF RunsWell, BackupFree
    <2>3. QED
      BY <1>5, <2>2 DEF Whole
  <1>8. ~(s < TTS) /\ files[w][n].content.voice # made.voice
    BY <1>5, <1>6, <1>7, ProperSame
  <1>9. ~(s > TTS)
    <2> SUFFICES ASSUME s > TTS PROVE FALSE
      OBVIOUS
    <2>1. TTS \in Stages /\ TTS < s /\ Document(TTS) \in NamesOf(TTS)
      BY <1>1, Places, DocumentIsAName DEF Stages
    <2>2. files[w][Document(TTS)].content.voice = files[w][n].content.voice
      BY <1>1, <1>4, <1>5 DEF RunsWell, FilesGood
    <2>3. Has(w, Document(TTS), artifacts[Document(TTS)].digest)
      BY <1>1, <2>1, BeforeIsThere
    <2>4. made.voice = artifacts[Document(TTS)].digest.voice
      BY <1>1, MadeVoice DEF RunsWell, PublishInv
    <2>5. QED
      BY <1>8, <2>2, <2>3, <2>4 DEF Has, Whole
  <1>10. s = TTS
    BY <1>1, <1>8, <1>9, Places DEF Stages
  <1>11. Cardinality(Voices) > 1
    BY <1>6, <1>8, <1>10, TwoVoices DEF Proper
  <1>12. Side(TTS) \in Names /\ Owner(Side(TTS)) = TTS /\ Side(TTS) \in NamesOf(TTS) /\ s \in Sided
    BY <1>10, Places, OwnersOfNames, SliceAssumption DEF NamesOf
  <1>13. ~Valid(Side(TTS))
    <2>1. unit[s].status = "RUNNING"
      BY <1>1 DEF RunsWell, PublishInv, SetUpInv, SetUp
    <2>2. unit[TTS].status # "SUCCEEDED" /\ TTS \in Stages
      BY <1>1, <1>10, <2>1
    <2>3. QED
      BY <1>12, <2>2 DEF RunsWell, PublishInv, VoiceInv, StoreInv, OwnedBySucceeded
  <1>14. files[w][Side(TTS)] # None
    <2>1. CASE run[p].pc = "side"
      BY <1>3, <1>5, <1>10, <2>1
    <2>2. CASE run[p].pc = "document"
      <3>1. Holds(files, w, Side(TTS), made)
        BY <1>10, <1>12, <2>2 DEF RunsWell, PublishInv, FilesInv, FilesFit
      <3>2. QED
        BY <3>1 DEF Holds, RunsWell, PublishInv, NoneIsNothing, NoneIsNoFile
    <2>3. QED
      BY <1>1, <2>1, <2>2
  <1>15. files' = files /\ artifacts' = artifacts
    BY <1>3 DEF objects
  <1>16. QED
    BY <1>1, <1>11, <1>13, <1>14, <1>15 DEF Leftover, Valid

\* A run that nothing disturbs fails over a leftover only.
LEMMA RaisedGoodStep ==
  ASSUME RunsWell, IsFiniteSet(Voices), NEW p \in Publishers,
         RunStep(p) \/ Crash(p) \/ StageFails(p) \/ StoreFailsInRun(p)
  PROVE  RaisedGood(p)'
  <1> SUFFICES ASSUME Fails(p) PROVE Leftover'
    BY DEF RaisedGood, Fails
  <1>1. VoiceInv
    BY DEF RunsWell, PublishInv
  <1>2. ~StageFails(p)
    <2> SUFFICES ASSUME StageFails(p) PROVE FALSE
      OBVIOUS
    <2>1. run'[p].calm = FALSE
      BY <1>1 DEF StageFails, VoiceInv, RunInv, Fields, Over
    <2>2. QED
      BY <2>1 DEF Fails
  <1>3. ~(Publishing(p) \/ StoreFailsInRun(p))
    <2> SUFFICES ASSUME Publishing(p) \/ StoreFailsInRun(p) PROVE FALSE
      OBVIOUS
    <2>1. run'[p].pc = run[p].pc /\ run[p].pc \in {"proof", "proven", "final"}
      BY <1>1, Leads DEF Publishing, StoreFailsInRun
    <2>2. QED
      BY <2>1 DEF Fails
  <1>4. ~(Begin(p) \/ Crash(p) \/ Recover(p) \/ EnsureUnit(p) \/ Invalidate(p) \/ CheckFresh(p)
          \/ CopyUpstream(p) \/ FinishProof(p))
    <2>1. run'[p].pc \in {"failing", "raised"}
      BY DEF Fails
    <2>2. QED
      BY <1>1, <2>1, Leads
  <1>5. QED
    BY <1>2, <1>3, <1>4, SetUpSucceeds, ScanSucceeds, StartSucceeds, PrepareSucceeds,
       BackupSucceeds, WaitSucceeds, WriteFails, CommitSucceeds, FailStageFails DEF RunStep

\* Where there is one workspace and no scan failed: nothing is invalid, no run wants to make
\* anything again, and every valid row has its file.
OneRoom == \A v, w \in Workspaces : v = w
Redoes == {"invalidate", "fresh", "copy", "fresh_required"}
RoomGood ==
    /\ \A s \in Stages : unit[s].status # "INVALID"
    /\ \A p \in Publishers : run[p].pc \notin Redoes
    /\ \A w \in Workspaces, n \in valid_artifacts : Holds(files, w, n, artifacts[n].digest)
RoomInv == OneRoom /\ ~budget.scared => RoomGood

\* A run that asks for another workspace has made a stage invalid.
Asks(p) == run[p].pc = "fresh" \/ OutOfRoom(p)
AskedInv == \A p \in Publishers : Asks(p) => \E s \in Stages : unit[s].status = "INVALID"

\* Nothing but an invalidation makes a unit INVALID.
LEMMA NothingGetsInvalid ==
  ASSUME VoiceInv, NEW p \in Publishers, ~Invalidate(p),
         RunStep(p) \/ Crash(p) \/ StageFails(p) \/ StoreFailsInRun(p),
         NEW s \in Stages, unit'[s].status = "INVALID"
  PROVE  unit[s].status = "INVALID"
  <1> USE DEF StoreInv, StoreTypeOK
  <1>1. CASE unit' = unit
    BY <1>1
  <1>2. CASE Recover(p)
    BY <1>2 DEF Recover, recover_stale_work
  <1>3. ASSUME NEW u \in Stages, \/ put_work_unit(u) \/ start_work_unit(u) \/ fail_work_unit(u)
               \/ unit' = [unit EXCEPT ![u].status = "SUCCEEDED"]
        PROVE  unit[s].status = "INVALID"
    BY <1>3 DEF put_work_unit, start_work_unit, fail_work_unit, VoiceInv
  <1>4. CASE EnsureUnit(p) \/ FailStage(p) \/ Commit(p)
    <2>1. run[p].stage \in Stages
      BY <1>4 DEF EnsureUnit, FailStage, Commit, At, VoiceInv, RunInv, InOneStage
    <2>2. \/ unit' = unit \/ put_work_unit(run[p].stage) \/ fail_work_unit(run[p].stage)
          \/ unit' = [unit EXCEPT ![run[p].stage].status = "SUCCEEDED"]
      BY <1>4 DEF EnsureUnit, FailStage, Commit, commit_artifacts, KeepStore, store
    <2>3. QED
      BY <1>1, <1>3, <2>1, <2>2
  <1>5. CASE StartStage(p)
    <2> DEFINE u == run[p].stage
    <2>1. u \in Nat \ {0}
      BY <1>5 DEF StartStage, At, VoiceInv, RunInv
    <2>2. unit' = unit \/ (u <= StageCount /\ start_work_unit(u))
      BY <1>5, <2>1, StagesAssumption DEF StartStage, KeepStore, store
    <2>3. u <= StageCount => u \in Stages
      BY <2>1, StagesAssumption DEF Stages
    <2>4. QED
      BY <1>1, <1>3, <2>2, <2>3
  <1>6. CASE Publishing(p)
    BY <1>1, <1>6 DEF Publishing, PublishStep, Completed, Collect, Snapshot, Put, PutManifest,
                      Record, record_checkpoint, store
  <1>7. CASE ~(Recover(p) \/ EnsureUnit(p) \/ FailStage(p) \/ Commit(p) \/ StartStage(p)
               \/ Publishing(p))
    <2>1. unit' = unit
      BY <1>7, ScanForm DEF RunStep, Begin, CreateJob, RecordInput, CheckFresh, CopyUpstream, Prepare,
         PrepareBackup, Proof, WriteSide, WriteDocument, FinishProof, FinishFinal, Return, Crash,
         StageFails, StoreFailsInRun, StoreFails, KeepStore, store, create_job,
         record_verified_input
    <2>2. QED
      BY <1>1, <2>1
  <1>8. QED
    BY <1>2, <1>4, <1>5, <1>6, <1>7

LEMMA AskedStep ==
  ASSUME VoiceInv, FilesInv, SetUpInv, AskedInv, [SliceNext]_slice PROVE AskedInv'
  <1>1. CASE UNCHANGED slice \/ DamageFile \/ DamageObject
    <2>1. UNCHANGED <<unit, run>>
      BY <1>1 DEF slice, store, DamageFile, DamageObject
    <2>2. QED
      BY <2>1 DEF AskedInv, Asks, OutOfRoom, At
  <1>2. ASSUME NEW p \in Publishers, RunStep(p) \/ Crash(p) \/ StageFails(p) \/ StoreFailsInRun(p)
        PROVE  AskedInv'
    <2>1. \A q \in Publishers : q = p
      BY DEF VoiceInv, OneProcess
    <2> SUFFICES ASSUME Asks(p)' PROVE \E s \in Stages : unit'[s].status = "INVALID"
      BY <2>1 DEF AskedInv
    <2>2. run'[p].pc \in {"fresh", "fresh_required"}
      BY DEF Asks, OutOfRoom, At
    <2>3. CASE Invalidate(p)
      <3> DEFINE d == run[p].damaged
      <3>1. run[p].pc = "invalidate" /\ apply_invalidation({d})
        BY <2>3 DEF Invalidate, At
      <3>2. d \in Stages /\ unit[d].status # "ABSENT"
        BY <3>1 DEF VoiceInv, RunFits, SetUpInv, SetUp, WithUnits, AfterScan
      <3>3. d \in Affected({d})
        BY <3>2, StagesAssumption DEF Affected, Stages
      <3>4. unit'[d] = [unit[d] EXCEPT !.status = "INVALID"]
        BY <3>1, <3>2, <3>3 DEF apply_invalidation
      <3>5. unit'[d].status = "INVALID"
        BY <3>2, <3>4 DEF VoiceInv, StoreInv, StoreTypeOK
      <3>6. QED
        BY <3>2, <3>5
    <2>4. CASE CheckFresh(p)
      <3>1. run[p].pc = "fresh" /\ unit' = unit
        BY <2>4 DEF CheckFresh, At, KeepStore, store
      <3>2. QED
        BY <3>1 DEF AskedInv, Asks
    <2>5. CASE CopyUpstream(p)
      <3>1. run[p].pc = "copy"
        BY <2>5 DEF CopyUpstream, At
      <3>2. run[p].call.fresh \in Workspaces \ {run[p].ws}
        BY <3>1 DEF FilesInv, RunTyped, Over
      <3>3. run'[p].pc = "fresh_required"
        BY <2>2, <2>5, Leads
      <3>4. Raise(p, "fresh_required")
        <4>1. run' # run
          BY <3>1, <3>3
        <4>2. \/ run' = run \/ Raise(p, "fresh_required")
              \/ run' = [run EXCEPT ![p].pc = "stage", ![p].ws = run[p].call.fresh]
          BY <2>5 DEF CopyUpstream
        <4>3. CASE run' = [run EXCEPT ![p].pc = "stage", ![p].ws = run[p].call.fresh]
          BY <3>1, <3>3, <4>3 DEF VoiceInv, RunInv, Fields, Over
        <4>4. QED
          BY <4>1, <4>2, <4>3
      <3>5. run'[p].ws = run[p].ws
        BY <3>4, RaiseFields DEF VoiceInv
      <3>6. QED
        BY <3>2, <3>3, <3>5 DEF Asks, OutOfRoom
    <2>6. CASE Publishing(p) \/ StoreFailsInRun(p)
      BY <2>2, <2>6, Leads DEF Publishing, StoreFailsInRun
    <2>7. QED
      BY <1>2, <2>2, <2>3, <2>4, <2>5, <2>6, Leads DEF RunStep
  <1>3. QED
    BY <1>1, <1>2 DEF SliceNext

\* A file that is whole stays.
LEMMA HeldIsKept ==
  ASSUME VoiceInv, FilesInv, NoneIsNoFile, NEW p \in Publishers, run[p].pc # "copy",
         RunStep(p) \/ Crash(p) \/ StageFails(p) \/ StoreFailsInRun(p),
         NEW v \in Workspaces, NEW m \in Names, NEW c, Holds(files, v, m, c)
  PROVE  Holds(files', v, m, c)
  <1>1. CASE files' = files
    BY <1>1 DEF Holds
  <1>2. ASSUME NEW n \in Names, NEW content, CanWrite(run[p].ws, n, content),
               Write(run[p].ws, n, content), run[p].ws \in Workspaces
        PROVE  Holds(files', v, m, c)
    <2>1. /\ Holds(files', run[p].ws, n, content)
          /\ v # run[p].ws \/ m # n => files'[v][m] = files[v][m]
      BY <1>2, WriteTyped DEF FilesInv
    <2>2. CASE v # run[p].ws \/ m # n
      BY <2>1, <2>2 DEF Holds
    <2>3. CASE v = run[p].ws /\ m = n
      <3>1. files[v][m] # None
        BY DEF Holds, NoneIsNoFile
      <3>2. files[v][m] = Whole(content)
        BY <1>2, <2>3, <3>1 DEF CanWrite, Has
      <3>3. QED
        BY <2>1, <2>3, <3>2 DEF Holds
    <2>4. QED
      BY <2>2, <2>3
  <1>3. CASE WriteSide(p)
    <2>1. run[p].pc = "side" /\ run[p].stage \in Sided /\ run[p].ws \in Workspaces
      BY <1>3 DEF WriteSide, At, VoiceInv, RunFits, FilesInv, RunTyped, Over
    <2>2. Side(run[p].stage) \in Names
      BY <2>1, OwnersOfNames, StagesAssumption
    <2>3. QED
      BY <1>1, <1>2, <1>3, <2>1, <2>2 DEF WriteSide, objects
  <1>4. CASE WriteDocument(p)
    <2>1. run[p].pc = "document" /\ run[p].stage \in Stages /\ run[p].ws \in Workspaces
      BY <1>4 DEF WriteDocument, At, VoiceInv, RunInv, InOneStage, FilesInv, RunTyped, Over
    <2>2. Document(run[p].stage) \in Names
      BY <2>1, OwnersOfNames
    <2>3. QED
      BY <1>1, <1>2, <1>4, <2>1, <2>2 DEF WriteDocument, objects
  <1>5. ~CopyUpstream(p)
    BY DEF CopyUpstream, At
  <1>6. QED
    BY <1>1, <1>3, <1>4, <1>5, FilesMove

\* A scan that does not fail finds nothing wrong there.
LEMMA ScanIsContent ==
  ASSUME RunsWell, RoomGood, NEW p \in Publishers, run[p].pc = "scan" PROVE Damage(run[p].ws) = None
  <1> DEFINE w == run[p].ws
             d == Damage(w)
             broken == Succeeded \ Readable(w)
             invalid == {s \in Stages : unit[s].status = "INVALID"}
  <1> SUFFICES ASSUME d # None PROVE FALSE
    OBVIOUS
  <1>0. VoiceInv /\ w \in Workspaces /\ NoneIsNoFile
    BY DEF RunsWell, PublishInv, FilesInv, RunTyped, Over, NoneIsNothing
  <1>1. ~Mismatch(p)
    BY <1>0 DEF RoomGood, Holds, Mismatch, Has
  <1>2. ~Unproven
    <2> SUFFICES ASSUME Valid(Document(BACKUP))
                 PROVE  \E rec \in RecordsOf(artifacts[Document(BACKUP)].digest.proof) :
                           RecordVerifies(rec)
      BY DEF Unproven
    <2> DEFINE n == Document(BACKUP)
               doc == artifacts[n].digest
    <2>1. n \in Names /\ Owner(n) = BACKUP
      BY Places, OwnersOfNames
    <2>2. files[w][n] = Whole(doc)
      BY <1>0, <2>1 DEF RoomGood, Holds, valid_artifacts
    <2>3. files[w][n] # None /\ files[w][n].content = doc
      BY <1>0, <2>2 DEF NoneIsNoFile, Whole
    <2>4. Known(records, doc.proof)
      BY <1>0, <2>1, <2>3 DEF RunsWell, FilesGood
    <2>5. PICK rec \in records : rec.id = doc.proof
      BY <2>4 DEF Known
    <2>6. RecordVerifies(rec)
      BY DEF RunsWell, PublishInv, RecordsGood
    <2>7. QED
      BY <2>5, <2>6 DEF RecordsOf
  <1>3. \A s \in Succeeded : s < d
    BY <1>0, <1>1, <1>2, ScanFindsCulprit
  <1>4. broken # {} /\ d = FirstOf(broken)
    BY DEF Damage, RoomGood
  <1>5. broken \in SUBSET Stages
    BY DEF Succeeded
  <1> HIDE DEF broken, invalid
  <1>6. d \in broken /\ d \in Stages
    BY <1>4, <1>5, FirstIsThere
  <1>7. d < d /\ d \in Nat
    BY <1>3, <1>6, StagesAssumption DEF broken, Stages
  <1>8. QED
    BY <1>7

LEMMA RoomGoodStep ==
  ASSUME RunsWell, OneRoom, RoomGood, ~budget'.scared, NEW p \in Publishers,
         RunStep(p) \/ Crash(p) \/ StageFails(p) \/ StoreFailsInRun(p)
  PROVE  RoomGood'
  <1>1. VoiceInv /\ FilesInv /\ NoneIsNoFile /\ run[p].pc \notin Redoes
        /\ FilesFit(run[p], files, artifacts)
    BY DEF RunsWell, PublishInv, NoneIsNothing, RoomGood, FilesInv
  <1>2. ~Invalidate(p) /\ ~CheckFresh(p) /\ ~CopyUpstream(p) /\ run[p].pc # "copy"
    BY <1>1 DEF Invalidate, CheckFresh, CopyUpstream, At, Redoes
  <1>3. run'[p].pc \notin Redoes
    <2>1. CASE Scan(p)
      <3>1. ~ScanFails(p)
        <4> SUFFICES ASSUME ScanFails(p) PROVE FALSE
          OBVIOUS
        <4>1. budget' = [budget EXCEPT !.faults = @ - 1, !.scared = TRUE]
          BY DEF ScanFails
        <4>2. budget'.scared = TRUE
          BY <1>1, <4>1 DEF FilesInv, BudgetFits
        <4>3. QED
          BY <4>2
      <3>2. run[p].pc = "scan" /\ ScanReads(p)
        BY <2>1, <3>1, ScanForm DEF Scan
      <3>3. Raise(p, "raised") \/ Resume(p, run[p].ws, None, run[p].calm)
        BY <3>2, ScanIsContent DEF ScanReads
      <3>4. run'[p].pc \in {"raised", "stage"}
        BY <1>1, <3>2, <3>3, RaiseFields, ResumeFields DEF VoiceInv
      <3>5. QED
        BY <3>4 DEF Redoes
    <2>2. CASE Publishing(p) \/ StoreFailsInRun(p)
      BY <1>1, <2>2, Leads
    <2>3. CASE ~(Scan(p) \/ Publishing(p) \/ StoreFailsInRun(p))
      BY <1>1, <1>2, <2>3, Leads DEF RunStep, Redoes
    <2>4. QED
      BY <2>1, <2>2, <2>3
  <1>4. \A s \in Stages : unit'[s].status # "INVALID"
    BY <1>1, <1>2, NothingGetsInvalid DEF RoomGood
  <1>5. ASSUME NEW w \in Workspaces, NEW n \in Names, artifacts'[n] = artifacts[n],
               artifacts'[n].row = "valid"
        PROVE  Holds(files', w, n, artifacts'[n].digest)
    <2>1. Holds(files, w, n, artifacts[n].digest)
      BY <1>5 DEF RoomGood, valid_artifacts, Valid
    <2>2. QED
      BY <1>1, <1>2, <1>5, <2>1, HeldIsKept
  <1>6. ASSUME NEW w \in Workspaces, NEW n \in Names, artifacts'[n].row = "valid"
        PROVE  Holds(files', w, n, artifacts'[n].digest)
    <2>1. CASE artifacts' = artifacts
      BY <1>5, <1>6, <2>1
    <2>2. CASE Commit(p) /\ artifacts' # artifacts
      <3> DEFINE s == run[p].stage
                 made == run[p].made
      <3>1. /\ run[p].pc = "commit" /\ files' = files /\ run[p].ws \in Workspaces
            /\ commit_artifacts(s, [m \in NamesOf(s) |-> made])
        BY <1>1, <2>2 DEF Commit, At, KeepAll, KeepStore, store, objects, FilesInv, RunTyped, Over
      <3>2. /\ n \notin NamesOf(s) => artifacts'[n] = artifacts[n]
            /\ n \in NamesOf(s) => artifacts'[n].digest = made
        BY <3>1 DEF commit_artifacts
      <3>3. n \in NamesOf(s) => Holds(files, w, n, made)
        BY <1>1, <3>1 DEF FilesFit, OneRoom
      <3>4. QED
        BY <1>5, <1>6, <3>1, <3>2, <3>3
    <2>3. ~Commit(p) => artifacts' = artifacts
      BY <1>1, <1>2, OthersAreQuiet DEF QuietStore
    <2>4. QED
      BY <2>1, <2>2, <2>3
  <1>7. \A q \in Publishers : q = p
    BY <1>1 DEF VoiceInv, OneProcess
  <1>8. QED
    BY <1>3, <1>4, <1>6, <1>7 DEF RoomGood, valid_artifacts, Valid

LEMMA ScaredStays ==
  ASSUME BudgetFits, [SliceNext]_slice, ~budget'.scared PROVE ~budget.scared
  <1>1. CASE budget' = budget
    BY <1>1
  <1>2. CASE DamageFile \/ DamageObject
    BY <1>2 DEF DamageFile, DamageObject, Spend, BudgetFits
  <1>3. ASSUME NEW p \in Publishers,
               \/ Begin(p) \/ Crash(p) \/ StageFails(p) \/ StoreFailsInRun(p)
        PROVE  ~budget.scared
    BY <1>3 DEF Begin, Crash, StageFails, StoreFailsInRun, Spend, BudgetFits
  <1>4. ASSUME NEW p \in Publishers, ScanFails(p) PROVE FALSE
    <2>1. budget' = [budget EXCEPT !.faults = @ - 1, !.scared = TRUE]
      BY <1>4 DEF ScanFails
    <2>2. QED
      BY <2>1 DEF BudgetFits
  <1>5. ASSUME NEW p \in Publishers, RunStep(p), ~Begin(p), ~ScanFails(p) PROVE budget' = budget
    BY <1>5 DEF RunStep, Recover, CreateJob, RecordInput, EnsureUnit, Scan, ScanReads, Invalidate,
       CheckFresh, CopyUpstream, StartStage, Prepare, PrepareBackup, Proof, WriteSide,
       WriteDocument, Commit, FailStage, FinishProof, FinishFinal, Return, Publishing, KeepAll
  <1>6. QED
    BY <1>1, <1>2, <1>3, <1>4, <1>5 DEF SliceNext, slice

LEMMA RoomStep ==
  ASSUME RunsWell, RoomInv, [SliceNext]_slice, Undamaged' PROVE RoomInv'
  <1> SUFFICES ASSUME OneRoom, ~budget'.scared PROVE RoomGood'
    BY DEF RoomInv, OneRoom
  <1>1. RoomGood
    BY ScaredStays DEF RoomInv, RunsWell, PublishInv, FilesInv
  <1>2. CASE DamageFile \/ DamageObject
    <2>1. budget.damages \in Int /\ budget' = [budget EXCEPT !["damages"] = budget.damages - 1]
          /\ DOMAIN budget = {"runs", "faults", "damages", "scared"}
      BY <1>2 DEF DamageFile, DamageObject, Spend, RunsWell, PublishInv, FilesInv, BudgetFits
    <2>2. budget'.damages # budget.damages
      BY <2>1
    <2>3. QED
      BY <2>2 DEF Undamaged, RunsWell, PublishInv
  <1>3. CASE UNCHANGED slice
    BY <1>1, <1>3 DEF slice, store, objects, RoomGood, Holds, valid_artifacts, Valid
  <1>4. QED
    BY <1>1, <1>2, <1>3, RoomGoodStep DEF SliceNext

\* Where nobody damages anything: what the stores, the files and the runs hold is good.
AllGood ==
    /\ FilesGood(files, records) /\ ObjectsGood /\ RecordsGood
    /\ \A p \in Publishers : BackupFree(run[p], files) /\ PubGood(p) /\ RaisedGood(p)

ResumeInv == SetUpInv /\ ContentInv /\ FoundInv /\ AskedInv /\ (Undamaged => AllGood /\ RoomInv)

LEMMA AllGoodStep ==
  ASSUME RunsWell, IsFiniteSet(Voices), [SliceNext]_slice, Undamaged' PROVE AllGood'
  <1>1. VoiceInv /\ FilesInv /\ RecordsInv /\ FoundInv /\ Undamaged /\ NoneIsNothing /\ PublishInv
        /\ FilesGood(files, records)
    BY DEF RunsWell, PublishInv
  <1>2. CASE DamageFile \/ DamageObject
    <2>1. budget.damages \in Int /\ budget' = [budget EXCEPT !["damages"] = budget.damages - 1]
          /\ DOMAIN budget = {"runs", "faults", "damages", "scared"}
      BY <1>1, <1>2 DEF DamageFile, DamageObject, Spend, FilesInv, BudgetFits
    <2>2. budget'.damages # budget.damages
      BY <2>1
    <2>3. QED
      BY <1>1, <2>2 DEF Undamaged
  <1>3. CASE UNCHANGED slice
    <2>1. UNCHANGED <<job, input, unit, artifacts, failures, records, files, remote, pub, run, budget>>
      BY <1>3 DEF slice, store, objects
    <2>2. AllGood
      BY DEF RunsWell, PublishInv, AllGood
    <2>3. (FilesGood(files, records) /\ ObjectsGood)'
      BY <2>1, <2>2 DEF AllGood, FilesGood, ObjectsGood
    <2>4. RecordsGood'
      BY <2>1, <2>2 DEF AllGood, RecordsGood, RecordVerifies, ObjectsVerify, Stored
    <2>5. \A p \in Publishers : BackupFree(run[p], files)'
      BY <2>1, <2>2 DEF AllGood, BackupFree
    <2>6. Leftover' <=> Leftover
      BY <2>1 DEF Leftover, RecordsOf, Valid
    <2>7. \A p \in Publishers : RaisedGood(p)'
      BY <2>1, <2>2, <2>6 DEF AllGood, RaisedGood
    <2>8. \A p \in Publishers : PubGood(p)'
      <3> SUFFICES ASSUME NEW p \in Publishers PROVE PubGood(p)'
        OBVIOUS
      <3>1. PubGood(p)
        BY <2>2 DEF AllGood
      <3>2. (IdIsNow(p)' <=> IdIsNow(p)) /\ (Rows(valid_artifacts))' = Rows(valid_artifacts)
        BY <2>1 DEF IdIsNow, EffectiveId, valid_artifacts, Valid, Rows
      <3>3. \A i, at : (ManifestNow(i, at))' = ManifestNow(i, at)
        BY <2>1, <3>2 DEF ManifestNow, StateSnapshot
      <3>4. valid_artifacts' = valid_artifacts
        BY <2>1 DEF valid_artifacts, Valid
      <3>5. QED
        BY <2>1, <2>6, <3>1, <3>2, <3>3, <3>4 DEF PubGood, Stored
    <2>9. QED
      BY <2>3, <2>4, <2>5, <2>7, <2>8 DEF AllGood
  <1>4. ASSUME NEW p \in Publishers, RunStep(p) \/ Crash(p) \/ StageFails(p) \/ StoreFailsInRun(p)
        PROVE  AllGood'
    <2>1. \A q \in Publishers : q = p
      BY <1>1 DEF VoiceInv, OneProcess
    <2>2. FilesGood(files', records') /\ ObjectsGood' /\ RecordsGood'
      BY <1>1, <1>4, FilesGoodStep, ObjectsGoodStep, RecordsGoodStep
    <2>3. BackupFree(run'[p], files')
      BY <1>1, <1>4, BackupFreeStep DEF RunsWell
    <2>4. PubGood(p)' /\ RaisedGood(p)'
      BY <1>1, <1>4, PubGoodStep, RaisedGoodStep
    <2>5. \A q \in Publishers : (BackupFree(run[q], files) /\ PubGood(q) /\ RaisedGood(q))'
      BY <2>1, <2>3, <2>4 DEF BackupFree
    <2>6. FilesGood(files, records)'
      BY <2>2 DEF FilesGood
    <2>7. QED
      BY <2>2, <2>5, <2>6 DEF AllGood
  <1>5. QED
    BY <1>2, <1>3, <1>4 DEF SliceNext

LEMMA ResumeStep ==
  ASSUME OneJob, NoneIsNothing, IsFiniteSet(Voices),
         VoiceInv, FilesInv, CompleteInv, RestInv, RecordsInv, ResumeInv, [SliceNext]_slice
  PROVE  ResumeInv'
  <1>1. SetUpInv' /\ ContentInv' /\ FoundInv' /\ AskedInv'
    BY SetUpStep, ContentStep, FoundStep, AskedStep DEF ResumeInv
  <1>2. ASSUME Undamaged' PROVE AllGood' /\ RoomInv'
    <2>1. Undamaged
      BY <1>2, BudgetStep DEF FilesInv
    <2>2. RunsWell
      BY <2>1 DEF RunsWell, PublishInv, ResumeInv, AllGood
    <2>3. RoomInv
      BY <2>1 DEF ResumeInv
    <2>4. QED
      BY <1>2, <2>2, <2>3, AllGoodStep, RoomStep
  <1>3. QED
    BY <1>1, <1>2 DEF ResumeInv

LEMMA ResumeStart == SliceInit => ResumeInv
  <1> SUFFICES ASSUME SliceInit PROVE ResumeInv
    OBVIOUS
  <1>1. /\ records = {} /\ DOMAIN remote = {}
        /\ \A w \in Workspaces, n \in Names : files[w][n] = None
        /\ \A p \in Publishers : run[p].pc = "idle"
    BY DEF SliceInit, EmptyStore, NotRunning
  <1>2. FilesGood(files, records) /\ ObjectsGood /\ RecordsGood
    BY <1>1 DEF FilesGood, ObjectsGood, RecordsGood
  <1>3. \A p \in Publishers : BackupFree(run[p], files) /\ PubGood(p) /\ RaisedGood(p)
    BY <1>1 DEF BackupFree, PubGood, RaisedGood, Waiting
  <1>4. AskedInv /\ RoomInv
    BY DEF SliceInit, EmptyStore, NotRunning, AskedInv, Asks, OutOfRoom, At, RoomInv, RoomGood, Redoes,
           valid_artifacts, Valid
  <1>5. QED
    BY <1>2, <1>3, <1>4, SetUpStart, ContentStart, FoundStart DEF ResumeInv, AllGood

\* "Restart at every stage", with one process that works on one job and for every number
\* of stages, crashes and failures: where nobody damaged anything, a run of
\* OfflineSliceRunner.run (offline_slice.py) that nothing disturbs does not fail, wherever
\* the runs before it stopped, unless they left the state snapshot of a proof that was not
\* recorded or the audio of an attempt that did not commit.  With one workspace it asks for
\* another one only after a scan that failed itself, and only while a stage is invalid.
THEOREM RestartsResume ==
  OneProcess /\ OneJob /\ NoneIsNothing /\ IsFiniteSet(Voices) => (SliceSpec => []RestartResumes)
  <1> SUFFICES ASSUME OneProcess, OneJob, NoneIsNothing, IsFiniteSet(Voices)
               PROVE  SliceSpec => []RestartResumes
    OBVIOUS
  <1> DEFINE Others == VoiceInv /\ FilesInv /\ CompleteInv /\ RestInv /\ RecordsInv
  <1>1. SliceInit => Others /\ ResumeInv
    <2> SUFFICES ASSUME SliceInit PROVE RestInv
      BY VoiceStart, FilesStart, CompleteStart, RecordsStart, ResumeStart
    <2>1. RunInv /\ CompleteInv
      BY RunInvInit, CompleteStart
    <2>2. QED
      BY <2>1 DEF SliceInit, EmptyStore, RestInv, CompleteInv, PubFits, NotPublishing, Active
  <1>2. Others /\ [SliceNext]_slice => Others'
    BY VoiceStep, FilesStep, CompleteStep, RecordsInvStep, RestStep, RunInvStep
       DEF RestInv, CompleteInv
  <1>3. Others /\ ResumeInv /\ [SliceNext]_slice => ResumeInv'
    BY ResumeStep
  <1>4. ResumeInv => RestartResumes
    <2> SUFFICES ASSUME ResumeInv, Undamaged, NEW p \in Publishers
                 PROVE  /\ At(p, "raised") /\ run[p].calm => Leftover
                        /\ OutOfRoom(p) /\ run[p].calm =>
                              budget.scared /\ \E s \in Stages : unit[s].status = "INVALID"
      BY DEF RestartResumes, Undamaged
    <2>1. At(p, "raised") /\ run[p].calm => Leftover
      BY DEF ResumeInv, AllGood, RaisedGood, At
    <2>2. OutOfRoom(p) => \E s \in Stages : unit[s].status = "INVALID"
      BY DEF ResumeInv, AskedInv, Asks
    <2>3. OutOfRoom(p) => budget.scared
      <3>1. OutOfRoom(p) => OneRoom /\ run[p].pc \in Redoes
        BY DEF OutOfRoom, OneRoom, Redoes, At
      <3>2. QED
        BY <3>1 DEF ResumeInv, RoomInv, RoomGood
    <2>4. QED
      BY <2>1, <2>2, <2>3
  <1> HIDE DEF Others
  <1>5. QED
    BY <1>1, <1>2, <1>3, <1>4, PTL DEF SliceSpec
=============================================================================
