----------------------------- MODULE WorkState -----------------------------
(***************************************************************************)
(* SqliteStateStore (src/ytb_vps_v2/adapters/sqlite/state.py): the tables  *)
(* of one job in job-v2.sqlite and the operations on them.  Every          *)
(* operation runs in one BEGIN IMMEDIATE transaction, so it is one atomic  *)
(* action; one that raises rolls back and changes nothing, so its          *)
(* condition is a guard and `Can...` names it for the callers that see the *)
(* exception.  Any number of processes may have the file open: Next lets   *)
(* any operation happen at any time.                                       *)
(*                                                                         *)
(* A stage is its place in STAGE_ORDER (1 is INGEST, the last is BACKUP)   *)
(* and has one work unit.  An artifact's name stands for its name and path,*)
(* which never part, and tells its owner.  Timestamps and error texts are  *)
(* left out; retry_events are counted by attempt.                          *)
(***************************************************************************)
EXTENDS Integers, FiniteSets

CONSTANTS
    StageCount,  \* how many stages STAGE_ORDER has
    Sided,       \* the stages that own a side artifact (TTS, RENDER, PUBLISH)
    None         \* no row

Stages == 1 .. StageCount
INGEST == 1
Names == (Stages \X {"document"}) \union (Sided \X {"side"})
Owner(n) == n[1]
NamesOf(s) == {n \in Names : Owner(n) = s}
Statuses == {"ABSENT", "PENDING", "RUNNING", "SUCCEEDED", "FAILED", "INVALID"}

ASSUME StagesAssumption == StageCount \in Nat \ {0} /\ Sided \subseteq Stages
VARIABLES
    job,        \* jobs and config_fingerprints: source and config, or None
    input,      \* input_archives: the digest of the verified archive, or None
    unit,       \* work_units: status and attempts of each stage
    artifacts,  \* artifacts: for each name its row (none, valid, invalid) and digest
    failures,   \* retry_events: for each stage the attempts that failed
    records     \* checkpoint_snapshots: [id, evidence] of each row

store == <<job, input, unit, artifacts, failures, records>>

\* An empty database after both migrations.
EmptyStore ==
    /\ job = None
    /\ input = None
    /\ unit = [s \in Stages |-> [status |-> "ABSENT", attempts |-> 0]]
    /\ artifacts = [n \in Names |-> [row |-> "none", digest |-> None]]
    /\ failures = [s \in Stages |-> {}]
    /\ records = {}

-----------------------------------------------------------------------------
Valid(n) == artifacts[n].row = "valid"
Invalid(n) == artifacts[n].row = "invalid"
valid_artifacts == {n \in Names : Valid(n)}

\* Matching verified input: what checkpoints and every stage but INGEST need.
DurableInput == job # None /\ input = job.source

CanCreate(src, cfg) == job = None \/ job = [source |-> src, config |-> cfg]

create_job(src, cfg) ==
    /\ CanCreate(src, cfg)
    /\ job' = [source |-> src, config |-> cfg]
    /\ UNCHANGED <<input, unit, artifacts, failures, records>>

CanRecordInput(src) == job # None /\ job.source = src /\ input \in {None, src}

record_verified_input(src) ==
    /\ CanRecordInput(src)
    /\ input' = src
    /\ UNCHANGED <<job, unit, artifacts, failures, records>>

\* Only a unit that is not there, or is as new, is accepted.
CanPut(s) == /\ job # None
             /\ unit[s].status \in {"ABSENT", "PENDING"}
             /\ unit[s].attempts = 0

put_work_unit(s) ==
    /\ CanPut(s)
    /\ unit' = [unit EXCEPT ![s].status = "PENDING"]
    /\ UNCHANGED <<job, input, artifacts, failures, records>>

CanStart(s) == /\ unit[s].status \in {"PENDING", "FAILED", "INVALID"}
               /\ s = INGEST \/ DurableInput

start_work_unit(s) ==
    /\ CanStart(s)
    /\ unit' = [unit EXCEPT ![s] = [status |-> "RUNNING", attempts |-> @.attempts + 1]]
    /\ UNCHANGED <<job, input, artifacts, failures, records>>

\* The attempt that failed is the one the row shows, whoever started it.
fail_work_unit(s) ==
    /\ unit[s].status = "RUNNING"
    /\ unit' = [unit EXCEPT ![s].status = "FAILED"]
    /\ failures' = [failures EXCEPT ![s] = @ \union {unit[s].attempts}]
    /\ UNCHANGED <<job, input, artifacts, records>>

\* SLIP (breaks PaidWorkIsKept): units that already succeeded are reset too.
RecoverEverything ==
    /\ unit' = [s \in Stages |->
                  IF unit[s].status \in {"RUNNING", "SUCCEEDED"}
                  THEN [unit[s] EXCEPT !.status = "PENDING"] ELSE unit[s]]
    /\ UNCHANGED <<job, input, artifacts, failures, records>>

\* Every RUNNING unit goes back to PENDING, neither its age nor its owner asked.
recover_stale_work ==
    /\ unit' = [s \in Stages |->
                  IF unit[s].status = "RUNNING"
                  THEN [unit[s] EXCEPT !.status = "PENDING"] ELSE unit[s]]
    /\ UNCHANGED <<job, input, artifacts, failures, records>>

-----------------------------------------------------------------------------
\* The identities a stage has invalid rows for are the ones it must submit
\* again; a new name must have no row (PRIMARY KEY and UNIQUE of the table).
IdentitiesAgree(s, rows) ==
    LET stale == {n \in NamesOf(s) : Invalid(n)} IN
    /\ stale = {} \/ stale = DOMAIN rows
    /\ \A n \in DOMAIN rows : ~Valid(n)

CanCommit(s, rows) ==
    /\ DOMAIN rows # {} /\ DOMAIN rows \subseteq NamesOf(s)
    /\ unit[s].status = "RUNNING"
    /\ IdentitiesAgree(s, rows)

\* rows: the digest of each submitted artifact.
commit_artifacts(s, rows) ==
    /\ CanCommit(s, rows)
    /\ artifacts' = [n \in Names |->
                       IF n \in DOMAIN rows THEN [row |-> "valid", digest |-> rows[n]]
                       ELSE artifacts[n]]
    /\ unit' = [unit EXCEPT ![s].status = "SUCCEEDED"]
    /\ UNCHANGED <<job, input, failures, records>>

\* plan_invalidation: a stage depends on the one before it, so the closure of
\* the changed owners is everything from the first of them on.
Affected(owners) == {s \in Stages : \E o \in owners : o <= s}

\* SLIP (breaks OwnedBySucceeded): units lose their state, artifacts stay valid.
InvalidateUnitsOnly(owners) ==
    /\ job # None
    /\ unit' = [s \in Stages |->
                  IF s \in Affected(owners) /\ unit[s].status # "ABSENT"
                  THEN [unit[s] EXCEPT !.status = "INVALID"] ELSE unit[s]]
    /\ UNCHANGED <<job, input, artifacts, failures, records>>

apply_invalidation(owners) ==
    /\ job # None
    /\ unit' = [s \in Stages |->
                  IF s \in Affected(owners) /\ unit[s].status # "ABSENT"
                  THEN [unit[s] EXCEPT !.status = "INVALID"] ELSE unit[s]]
    /\ artifacts' = [n \in Names |->
                       IF Owner(n) \in Affected(owners) /\ Valid(n)
                       THEN [artifacts[n] EXCEPT !.row = "invalid"] ELSE artifacts[n]]
    /\ UNCHANGED <<job, input, failures, records>>

RecordsOf(i) == {rec \in records : rec.id = i}
CanRecord(i, evidence) ==
    DurableInput /\ RecordsOf(i) \subseteq {[id |-> i, evidence |-> evidence]}

record_checkpoint(i, evidence) ==
    /\ CanRecord(i, evidence)
    /\ records' = records \union {[id |-> i, evidence |-> evidence]}
    /\ UNCHANGED <<job, input, unit, artifacts, failures>>

-----------------------------------------------------------------------------
\* What any number of processes may do to the tables, with any source, digest,
\* checkpoint id and manifest.
StoreNext ==
    \/ \E src, cfg : create_job(src, cfg)
    \/ \E src : record_verified_input(src)
    \/ \E s \in Stages : put_work_unit(s) \/ start_work_unit(s) \/ fail_work_unit(s)
    \/ recover_stale_work
    \/ \E s \in Stages : \E rows : commit_artifacts(s, rows)
    \/ \E owners : apply_invalidation(owners)
    \/ \E i, evidence : record_checkpoint(i, evidence)

StoreSpec == EmptyStore /\ [][StoreNext]_store

-----------------------------------------------------------------------------
\* The types of the tables; sources, digests, ids and manifests may be anything.
StoreTypeOK ==
    /\ job # None => DOMAIN job = {"source", "config"}
    /\ unit \in [Stages -> [status : Statuses, attempts : Nat]]
    /\ DOMAIN artifacts = Names
    /\ \A n \in Names : artifacts[n].row \in {"none", "valid", "invalid"}
    /\ failures \in [Stages -> SUBSET (Nat \ {0})]
    /\ \A rec \in records : DOMAIN rec = {"id", "evidence"}

\* A stage owns a valid artifact exactly when its unit SUCCEEDED: the resume
\* calls "Non-succeeded work owns a valid artifact" a corrupted database, and
\* "Succeeded stage lacks verified canonical output" another.  Holds although
\* invalidation, recovery and commits of several processes mix in any order.
OwnedBySucceeded ==
    \A s \in Stages :
        unit[s].status = "SUCCEEDED" <=> \E n \in NamesOf(s) : Valid(n)

\* No stage owns valid and invalid rows at once: a result is replaced whole,
\* never in parts.
RowsOfOneAge ==
    \A s \in Stages : ~ \E m, n \in NamesOf(s) : Valid(m) /\ Invalid(n)

\* The retry history names attempts that were made, and never an attempt that is
\* still running or that succeeded.
HistoryOfFailures ==
    \A s \in Stages :
        /\ \A a \in failures[s] : a <= unit[s].attempts
        /\ unit[s].status \in {"RUNNING", "SUCCEEDED"} => unit[s].attempts \notin failures[s]

\* Nothing is recorded or computed before the input is durable (MASTER-PLAN,
\* Phase 5: expensive stages cannot start before verified input durability).
DurableFirst ==
    (\E s \in Stages \ {INGEST} : unit[s].attempts > 0) \/ records # {} => DurableInput

\* A checkpoint id is bound to one manifest and one snapshot for good, whatever
\* retries and repairs publish under it.
OneRecordPerId ==
    \A rec, other \in records : rec.id = other.id => rec = other
=============================================================================
