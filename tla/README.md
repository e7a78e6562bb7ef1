# YTB VPS scene: formal models

TLA+ models of the repository: a Next.js control plane on Neon PostgreSQL
(`web/`), media workers on VPS hosts (`src/ytb_vps_v2/`), Google Drive as the
store of media, and the previous generation of the pipeline (`app/ytb_vps/`).
An administrator uploads a video through the browser to Drive, draws the regions
to blur and queues a job; a worker claims it under a lease, downloads, runs its
stages, and uploads the result.

Contents: 1 inventory, 2 modules, 3 runs (bounds, violated statements, fairness),
4 proofs, 5 observations, 6 not modelled, 7 plan.

## 1. Inventory

| Part | Code | State it keeps | Operations |
| --- | --- | --- | --- |
| Worker control plane | `web/src/lib/repositories/neon-worker-control-plane.ts`, `application/{worker-control,job-queue}.ts`, `domain/{control-plane,worker}.ts` | tables `jobs`, `job_leases`, `job_attempts`, `workers`, `worker_enrollment_tokens`, OUTPUT rows of `artifacts` | create enrollment, enroll, heartbeat, revoke, queue, claim, renew, progress, reserve and complete output, sweep |
| Cancellation, login limiter, audit | `repositories/neon-control-plane.ts` | `jobs.state`, `auth_login_windows`, `audit_events` | request a cancel, count logins |
| Worker routes | `web/src/app/api/v1/worker/**/route.ts`, `app/page.tsx` | none (a request each) | authenticate, stamp the time, call the repository and Drive |
| Media worker | `src/ytb_vps_v2/interfaces/{worker,cli}.py`, `application/media_job.py`, `adapters/control_plane/http.py` | an execution, its heartbeat thread, a workspace directory, the credential file | enroll, detach, poll, claim, execute, heartbeat, report |
| Source uploads | `application/uploads.ts`, `repositories/neon-drive-control-plane.ts` | `projects`, SOURCE rows of `artifacts`, provisioning claims, reserved bytes | provision, create session, complete, cancel, delete |
| Drive connection and workspace | `application/{drive-connection,drive-access,drive-workspace,free-tier-health}.ts`, `adapters/google/*` | OAuth nonces, the credential, usage snapshots | connect, refresh, list, delete |
| Browser uploader | `browser/{resumable-uploader,upload-store}.ts`, `components/use-upload-queue.ts` | the queue's items, one record in IndexedDB | start, pause, resume, cancel, retry, recover |
| Work state | `adapters/sqlite/state.py`, `application/invalidation.py` | work units, artifacts, checkpoints, verified inputs of one job in SQLite | start, commit, fail, recover, invalidate, record |
| Checkpoints and restore | `application/{checkpoints,restore,cleanup}.py`, `adapters/{sqlite,filesystem}/*` | snapshots, manifests, objects; a staging directory and its target | publish, restore, judge a cleanup |
| Filesystem adapters | `adapters/filesystem/*` | files of a workspace, an object store, an archive | publish once, materialize, archive, replace a directory |
| Media pipeline | `application/offline_slice.py`, `domain/{pipeline,parts,timeline}.py`, `adapters/native_media_job.py` | the stages over the work state | run, resume |
| Media, OCR, speech adapters | `adapters/ffmpeg/media.py`, `adapters/ocr/*`, `containers/ocr-v2/worker.py`, `adapters/offline/capcut_tts.py`, `adapters/drive/media_transfer.py` | a subprocess with its pipes, a paid task, a transfer | probe, render, detect, synthesize, download, upload |
| Legacy pipeline | `app/ytb_vps/` | JSON state, a queue | superseded |
| Containers, tools, operations | `containers/`, `tools/`, `ops/`, `systemd/` | none of their own | - |

**How they interact.** A route authenticates a worker in one statement
(`requireWorkerSession`), takes `new Date()` as the time of its operation, and
runs one more SQL statement that does all of the operation's work in common
table expressions. There is no session, no transaction over two statements and
no lock between them: everything two requests may do to each other happens
between those statements, and, because the neon client runs at READ COMMITTED,
inside them. Uploads are longer: `createSession`, `complete`, `cancel` and the
workspace's `delete` make up to ten statements and Drive calls in a row, and
requests for one project overlap at every `await`; a provisioning claim of five
minutes is held by `createSession` alone, while the others write by the row's id
and are refused only as long as somebody holds it, or, when they delete, never.
The browser talks to Drive itself, with a session URI the control plane made, and
keeps one record per upload so that a reload can go on.

Workers know the control plane only through HTTP calls that are sent up to three
times. Leases last 90 s, a worker renews every 30 s from a thread that runs only
while a long phase does. Nothing sweeps expired leases but the loading of the
dashboard (`page.tsx:82`), although a claim also takes jobs with expired leases.
Inside an execution the offline slice runs stage after stage; each stage calls a
provider, writes files, commits one SQLite transaction, and between stages
checkpoints go to an object store that only ever adds. Whatever a process leaves
when it dies, the next one finds: rows, files, objects, and a workspace.

**What is hard.** Leases that expire while their holder works; claims, renewals,
reports, cancels, completions and sweeps in any order and overlapping; tokens
counted in rows that get deleted; answers lost after the statement committed; a
thread and its executor that both talk about the same lease; errors that take
different ways up the stack; evidence from Drive that is old when it is written
down; rows reused for the next upload; a session URI renewed while the user
cancels; a file linked but not synchronized, adopted by a second writer and
removed by the first; a process that dies between a snapshot, its manifest and
its record; a paid call whose answer is lost; a pipe somebody keeps open.
`PROJECT.json` lists each hazard with its line and the properties that cover it.

**What makes each part correct.**

- *Worker control plane*: one live lease at a time and an ended job without anything
  open (the code breaks both, section 3); a lease row and an attempt row agree; tokens only grow; a cancel sticks; an end is final; a
  published output ends its job; a token makes one worker, a credential is of one
  row.
- *Media worker*: what it believes of a job is so; a failure is reported; a
  cancel before the upload never ends in COMPLETED; jobs get done although
  workers die and answers are lost; it works on the video it claimed and on the
  regions that were drawn.
- *Source uploads*: one owner provisions; the project, the row and the
  reservation agree; a READY source has and keeps its file (overlapping requests
  break this, section 3); the browser can always resume, and leaves nothing behind.
- *Work state, slice, checkpoints*: a stage owns results exactly when it
  succeeded, and they fit each other; paid work is kept; a run resumes whatever
  the last one left; a manifest never names an object that was not put, and a
  recorded one can be restored.
- *Adapters*: nobody sees half a file; a call's output is whole, its tool ends, a
  render's name is on what was validated; a paid task is paid once.

## 2. Modules

| Module | Models |
| --- | --- |
| `JobLease` | the worker control plane, one action per repository operation, but two for the claim: its snapshot and its write |
| `FencedQueue` | what it promises about one job: grants with growing tokens, one holder, reports and publication by the holder only, ends and cancels that stick |
| `JobLeaseRefinement` | the refinement mapping from `JobLease` to `FencedQueue` |
| `LeaseRaces` | claim, renewal, progress and sweep taken apart into time stamp, snapshot and commit |
| `Enrollment` | enrollment tokens, worker sessions, the credential file and the commands around it |
| `MediaWorker` | the executor, its heartbeat thread, lost calls and crashes, on top of `JobLease` |
| `JobWorkspace` | the files, the archive, the row and the Drive output that the attempts at one job leave |
| `SceneRegions` | the rectangles of a scene from the browser to pixels of the source |
| `SourceUpload` | the requests over one project's source: `createSession`, `complete`, `cancel`, `delete`, with the rows in Neon and the files in Drive |
| `BrowserUpload` | the browser's end: queue item, uploader, record, two pages |
| `WorkState` | `SqliteStateStore`, one action per transaction |
| `Checkpoints` | `CheckpointPublisher` over the additive store, one action per put |
| `OfflineSlice` | `OfflineSliceRunner.run` on top of `WorkState` and `Checkpoints` |
| `Restore` | `CheckpointRestorer.restore` with its staging directory |
| `DurableFile` | writers of one name, with fsync and power failures |
| `Documents` | the documents of the stages and their verification |
| `CleanupGuard` | the decision whether local files may go |
| `ToolCall` | one call of ffmpeg with its pipes and reader threads |
| `MediaRender` | one render, from staging to its name |
| `OcrWorker` | an OCR worker and the host that reads it |
| `SpeechTask` | one paid synthesis |
| `*Proofs` | the theorems about a module; `SourceUploadProofs` (both ends of an upload), `AdapterProofs`, `WorkerHostProofs` and `RegionProofs` are about several (section 4) |
| `MC*` | the small instances of each |

`MediaWorker` composes with `JobLease` and `OfflineSlice` with `WorkState` and
`Checkpoints`: a step of the client is a step of the store together with what the
client does with the answer. `MCMachines` puts the machines that share no state beside
each other, one of them running in each behaviour.

**JobLease.** Variables are columns: `jobState`, `progress`, `cancelAsked`
(`cancel_requested_at is not null`), `created` (the rank of `created_at`),
`hasSource` (the project has a READY source and settings), `lease` (a row of
`job_leases` or `NoLease`), `attempts` (the rows of `job_attempts`; `OPEN` is
`ended_at is null`), `output` (the status of the OUTPUT artifact of each
content; its id is derived from job, size and checksum, hence the index), and
`workerState`, `readiness` (capabilities and doctor report) and `silent` (the age
of `heartbeat_at`). Times are distances from now, so `Tick` counts leases down
and silences up. `inFlight` lets requests that authenticated before a revocation
run after it. `RequestCancel` is the write of `requestJobCancellation`: the read
before it only chooses which write to send, and either write tests the state
again. In `ExpireWorkersAndLeases`, two common table expressions may both update
the attempt of a cancelled job; PostgreSQL keeps one of the two without saying
which, so the model chooses.

`claimJob` is two actions, because it decides by a table it does not lock. At READ
COMMITTED, `BeginClaim` is the snapshot (the gate `not exists(... expires_at>$2)`,
the eligible worker, the jobs that are claimable and those whose lease it saw
expired) and `FinishClaim` the locks, the upsert and the commit, with other
statements in between. `for update of j` looks at the rows of `jobs` again
(`Candidates`) and the upsert at the lease row again (`TakesRow`), but nothing looks
at the gate again. `skip locked` passes over a row that another claim is writing at
that moment; in the model that claim has already committed, so a candidate with a
live lease may be passed over or not (`Skipped`). The other statements decide by rows
they write, except the sweep and the reports, whose races are in `LeaseRaces`; here
they stay one step each. `Moves` may hold every transition of `assertJobTransition`
with any percent: the progress route asks no more (`job-queue.ts:96-113`).

**LeaseRaces.** A call is stamped (`Stamp*`), reads a snapshot (`Read*`) and
commits (`Commit*`). A claim holds the lock of its candidate row from its
snapshot on (`for update ... skip locked`); other claims skip that row, and the
commits of reports and sweeps wait for it. Conditions on the rows a statement
writes are evaluated again at the commit, conditions on rows it only reads are
not: `TakesRow` looks at the lease as it is by then, `CommitProgress` tests
`jobs.state` but not the lease, `CommitSweep` not the expiry (section 5 tells what
comes of it). Two stamps of time are compared here, which
`JobLease` leaves out: there a claim takes less than a tick.

**Enrollment.** `token` and `workers` are the tables (a row is named by its place;
whoever knows it has the secret), `flight` the requests that may still arrive,
`enroller[h]` the `worker-enroll` of a host, `saved`, `durable` and `serving` its
credential file, that file after a power failure, and what `worker-run` read from
it. A request may be sent by several hosts with one token, sent again, arrive
after its sender gave up, or be answered to nobody. A replaced file may come
back when the power fails, because the rename is not synchronized.

**MediaWorker.** `doing` is the program counter of `run_once` and `execute`,
`stage` its `reported_state` (which determines `reported_percent`), `beat` what
the heartbeat thread found, `result` how the last execution ended. Each call is
an action of `JobLease` joined with what the executor does with the answer.
`Unanswered` is a call whose request or answers were lost: the statement may have
run, and the client either sends it again or raises. `BreakPhase` is a phase that
raises; both ways up the stack are possible. `Crash` forgets the execution and
leaves lease and job alone. A claim is sent (`ClaimJob`) and answered
(`ClaimAnswered`); a statement whose client gave up or died in between runs on
(`ClaimRunsOn`), so a worker that polls again may have two under way.

**JobWorkspace.** What `execute` does between its reports. A video is the promised
bytes or others, as sent or in one of ffmpeg's encodings; `disk` has the source,
its part file and its normalized copy, `archived` the input of the offline slice,
`row` the job's row, `remote` the output. An attempt that fails or is killed
leaves all of it to the next one; a power failure may undo a rename that was not
synchronized.

**SceneRegions.** A coordinate is a step of a grid between 0 and 1. `rectangle` is
the schema of the route, `_expand_to_minimum` and `_rectangle` are the worker's
arithmetic in integers (Python's `round` goes to the even neighbour), `BoxHolds`
what the documents of the pipeline check. The two float computations
`x + width > 1` are the same expression on the same doubles in JavaScript and
Python, so exact fractions lose nothing there.

**SourceUpload.** `req[r]` is a running handler: which one (`op`), the call it
makes next (`pc`), its intent, the row it read (`art`), the placeholder it found
(`file`) and the bytes it saw. Every `await` is an action; an action with the
name of a repository operation is that statement, and an `IF` in it is the
exception or the early return of the caller. `Leave` is `return` or `throw`,
which in `createSession` runs into the `finally` that releases the claim. The
other variables are columns (`sourceStatus`, `artifact`, `reservation`, `claim`;
the row's id is the project's, so one row is used for every upload), Drive
(`drive`) and the resumable sessions in browsers' hands (`sessions`): their bytes
arrive at any time (`UploadBytes`), also after a cancel, while the placeholder is
there. `Fenced` is the condition three statements share: the token of the live
claim, or no live claim at all. `EndSource` is the statement that moves row,
project and reservation together. Left out: the sizes in the capacity sum and the
quota row (a refusal is `Fail`), observed bytes, checksums, audits, and the
provisioning of folders.

**BrowserUpload.** Everything between two awaits is one step. `item` is the queue's
item and `runItem`, `up` the uploader's `run()`, `asked` a cancellation under way,
`stored` the record in IndexedDB, `grants`, `arrived` and `whole` Drive's view of
the sessions and the present file, `sent` the source at the control plane. Answers
may be lost, chunks may arrive in part, sessions expire, the user pauses, cancels,
retries, leaves or reloads the page at any await.

**WorkState, Checkpoints, OfflineSlice.** `unit` and `artifacts` are the tables of
one job, each operation one transaction with `Can...` as the condition under which
it does not raise. `remote` is the object store; a manifest is put last and a
checkpoint recorded after it. `run[p]` is the program counter and the locals of one
`run()`, `files` the workspaces. The stages differ in the model where they differ in the
code: TTS, RENDER and PUBLISH own a second artifact, the voice of TTS is not
reproducible, BACKUP holds the proof. `Leftover` names the two things a stopped run
leaves that later runs can neither use nor replace.

The scan at the start of a run ends in two ways. `ScanReads` finds the first stage
that does not read back. `ScanFails` is the except clause of `offline_slice.py:747`
when nothing is damaged: a read of a file, a request to the store or the validation of
a video fails, the stage it was looking at is taken for damaged, and that stage and
all after it are made INVALID. The work then goes on in the fresh workspace the request
names. `native_media_job.py:125-131` names none, so for the worker there is no other
(`OutOfRoom`): this run and every later one, in which no scan fails any more, raise
`FreshWorkspaceRequired` because a stage is INVALID. `calm` says that nothing failed in
a run itself, `scared` that a scan failed on intact work in any run.

**DurableFile, Restore, Documents, CleanupGuard.** In `DurableFile` a name points
to an inode in memory (`dest`) and on disk (`onDisk`), `flushed` is what fsync has
reached, and every system call of the publication is a step that may fail.
`Restore` has staging, inspection, rename and the way back as steps of concurrent
calls. `Documents` builds the chain stage by stage, each document as its stage
makes it or with one thing wrong, and the parsers accept or refuse. `CleanupGuard`
gathers evidence while the store changes and asks the guard.

**ToolCall, MediaRender, OcrWorker, SpeechTask.** `ToolCall` has the tool, a child
that inherits its pipes (`heir`), two bounded pipes, two reader threads and the
caller with its timeout. `MediaRender` uses the outcome of such a call: on POSIX
an inode without a name is validated, synchronized and linked, on Windows a
private file is pinned and hard-linked. `OcrWorker` has both sinks of the worker
and the host's parser; `SpeechTask` the device pool, the task and its polls.

## 3. Runs

| Run | Instance | Shows |
| --- | --- | --- |
| `one_job_retried` | 1 job, 2 workers, 2 contents, TTL 2, tokens to 2, every legal report, 1 request in flight, source unstable | `AttemptLedger`, `FencesGrow`, `PublishedIsTheEnd`, `CancelSticks`, `HistoryIsFinal`, `ImplementsFencedQueue` |
| `executor_faults` | 1 job, 2 workers, TTL 1, 2 faults of any kind, source unstable | `ReplyIsTrue`, `EarlyCancelNeverCompletes` |
| `executor_progress` | 1 job, 2 workers, TTL 2, 1 fault of any kind | liveness: `QueuedJobIsWorkedOff`, `CancelIsFinished` |
| `slice_restarts` | 5 stages, 3 runs, 2 workspaces, 2 voices, 1 time, 1 fault, 1 damage | `OwnedBySucceeded`, `ManifestIsComplete`, `RecordedIsRestorable`, `OneVoice`, `ReturnedIsDurable`, `RestartResumes`, `PaidWorkIsKept` |
| `machines` | each machine of `MCMachines` in turn: the statements of two jobs and two workers (TTL 2, clock to 2, tokens to 2), two requests on a source (1 file, 2 intents with 1 and 2 chunks, all six faults), a browser (2 chunks, 2 sessions, 2 pages, 2 attempts, 1 break), and the machines below the work state | `TokenNamesOneGrant`, `NeverStolen`; `SourceStatusAgrees`, `ChargedForItsOwnIntent`, `OwnerIsAlone`; `ResumableWhileUnfinished`, `NothingLeftBehind`; `PublishedIsWhole`, `ReturnedIsKept`, `TargetIsExact`, `ChainIsCoherent`, `AllowedLosesNothing`, `OutputIsWhole`, `NamedIsSound`, `ResultIsRight`, `PaidOnce`, `WorksOnTheClaimed`, `SceneIsHonoured`, `CredentialIsItsOwn` |
| `two_jobs`, `reported_completion`, `executor_silent`, `late_completion`, `slice_restart_blocked`, `slice_scan_failure`, `tool_call_held` | the smallest instance | a statement of a document, comment or test that does not hold |

**Bounds.** `MaxFence` bounds claims of one job; two are the least at which a job
changes hands. `TTL` is 90 s in ticks; one tick already separates live from expired, two
let a renewal matter (without fairness time need not pass, so a safety run with TTL 1
still has leases that outlive any number of calls). `MaxInFlight` bounds requests that
outrun a revocation. `MaxTime` lets a lease be taken, be renewed on the way, expire and
be taken again. `MaxFaults` bounds faults: two allow a lost answer during the recovery
from another fault. Two jobs and two workers are enough for the properties that relate
jobs or workers pairwise. A claim statement takes less than a tick (`Tick` waits for
it), and of several claims that one worker has under way with one snapshot the model
keeps one. Every report has the same percent in `one_job_retried`, so that the percent
refuses none after the first. Two requests are enough for every race of one statement
against another's evidence, and one file for the properties of `machines`, which do not
tell files apart; `late_completion` needs a second file, that of the upload which
replaces the first. In the browser, two chunks make a partly uploaded file, two sessions
a renewal, two pages a reload with a page left behind.

In the slice, five stages keep TTS, RENDER, PUBLISH, BACKUP and one that stands for
INGEST to TRANSLATE, which are alike; three runs are a run, the one that resumes it, and
one that starts from what both left. Two workspaces are the job's and the repair
workspace, and two voices let a repeated TTS differ. The time of a call is in the
documents of its checkpoints; the run has one time, because it holds with two in 2.5
million states but takes too long, and the theorems have any number. `OutOfRoom` needs
an instance with one workspace: `slice_scan_failure` has one and shows that the state is
reached; that it is reached only as the second part of `RestartResumes` says is proved.
In `machines` two writers, restorers and renderers are enough for a race with each
other, two to three faults for a failure on the way back from a failure, three devices
for a block after a block; `Units` 8 with sides 7, 9 and 30 has sources below, at and
above the minimum of eight pixels, rounding to the even neighbour and every position at
an edge; two hosts and two tokens let hosts share a token and a host use two, and three
lapses a lost answer, its second request and a power failure. `PROJECT.json` says what
each run is about; the configurations name every bound.

Symmetry is used in workers, contents, requests, voices, writers, restorers and
renderers (in `machines` one pair of values stands for all of them), never in the
liveness run; `ImplementsFencedQueue` is a safety property. Deadlock checking is off in
all runs: the bounded instances run out of tokens, runs or faults, and a system without
work may stop.

**What the violated statements show.**

1. `two_jobs`: the first version "does not run two heavy media jobs at once" (design of
   2026-07-19, lines 316-317). Two claims that overlap each see no live lease in their
   snapshots and take a job each (`neon-worker-control-plane.ts:440`).
2. `reported_completion`: a terminal report "must also close the attempt with its true
   outcome, drop the lease, and free the worker" (lines 575-578). The progress route
   takes UPLOADING to COMPLETED from the holder, and line 579 counts it as no end: the
   job is COMPLETED, without a published output, its attempt open, and its lease holds
   the gate shut until it expires. The executor of this repository does not send that
   report.
3. `executor_silent`: "The executor already best-effort reported
   FAILED_RETRYABLE" (`worker.py:98`). Errors of the transfers, of
   `output_session` and of `complete` are not reported; the job keeps a live lease
   until it expires, and nobody gets any job meanwhile.
4. `late_completion`: "marks ready only from exact fresh server metadata"
   (`uploads.test.ts:499`). A `complete` asks Drive about the file it read of the row and
   then writes by the row's id, which is the project's: after a cancel and a new upload
   in between, the new upload is READY on the evidence of the old one.
5. `slice_restart_blocked`: "restart at every stage" (`00-MASTER-PLAN.md:26`). A
   run that stops between the put of the proof's snapshot and `record_checkpoint`
   leaves a key that every later run wants to put with another snapshot, and
   conflicts with.
6. `slice_scan_failure`: "Missing or corrupt output" makes a stage invalid
   (`2026-07-16-phase-7-offline-vertical-slice.md:22`). So does a read, a store or a
   validation that fails once (`offline_slice.py:747`), and with the one workspace that
   `native_media_job.py:125-131` names, every later undisturbed run asks for another.
7. `tool_call_held`: `test_media.py:511` says that live readers force the pipes to
   close. `close()` of a buffered pipe waits for the lock that the reader holds
   while it waits for data, so a process that keeps the pipe open keeps the call,
   whatever its timeout. With a tool that can be killed and no child, every call
   ends.

**Fairness.** `MWSpec` has none. `TimelySpec` assumes that workers are enrolled
and go on (`worker-run` polls in an endless loop and systemd restarts it), that
phases end, that the heartbeat thread runs, that a statement the server has begun
comes to its end whether or not its client waits, and that time passes; and one timing
assumption, `Timely`: an executor inside `execute` whose thread is alive speaks
to the control plane before its lease runs out (it renews every 30 s of 90 s and
a call with its retries is shorter than the rest), and a claim follows its
heartbeat within 90 s. The digest of a very large file is outside the heartbeat
(`media_job.py:300`) and might break that assumption. Nothing is assumed of
administrators for `QueuedJobIsWorkedOff`. `CancelIsFinished` has a premise of its
own: the dashboard is loaded again and again, and every load sweeps. Only the end
of an unacknowledged cancel needs it. `ToolFairness` assumes that the caller and
the reader threads are scheduled, and nothing of the tool or its children.
`RestartResumes` needs no fairness: it says that an undisturbed run never comes to
an error.

## 4. Proofs

Each theorem holds for every value of the constants that satisfies the named
assumptions of its module; the runs of section 3 show the same formulas on a
small instance.

| Module | Theorem | States |
| --- | --- | --- |
| `JobLeaseProofs` | `TypeCorrect`, `Safety` | `[]TypeOK`, `[]IInv` |
| | `LedgersAgree`, `TokensFence` | `[]AttemptLedger`, `[](AttemptLedger /\ FencesGrow)` |
| | `PublishedEnds` | `[]PublishedIsTheEnd` |
| | `CancelNeverUndone` | `[]CancelSticks` |
| | `HistoryNeverChanges` | `HistoryIsFinal` |
| | `QueueIsImplemented` | `ImplementsFencedQueue` |
| `LeaseRacesProofs` | `TokensNameGrants` | `[]TokenNamesOneGrant` |
| | `ClaimsStealNothing` | `NeverStolen` |
| `MediaWorkerProofs` | `RepliesAreTrue` | `[]ReplyIsTrue` |
| | `EarlyCancelsStop` | `EarlyCancelNeverCompletes` |
| | `ExecutorsUseTheTables` | `MWSpec => Spec`: a behaviour of tables and executors is one of the tables |
| `SourceUploadProofs` | `TypeCorrect` | `[]TypeOK` |
| | `StatusAgrees` | `[]SourceStatusAgrees` |
| | `FenceHolds` | `OwnerIsAlone` |
| | `Charged` | `[]ChargedForItsOwnIntent` |
| | `BrowserTypes` | `[]TypeOKBrowserUpload` |
| | `UploadsResume` | `[]ResumableWhileUnfinished` |
| | `DeletedStaysDeleted` | `[]NothingLeftBehind` |
| `OfflineSliceProofs` | `TypesHold`, `UnitsOwnTheirRows`, `ResultsAreReplacedWhole`, `HistoryIsTrue`, `InputFirstAndIdsBound` | what the work state promises whatever operations any processes mix |
| | `SliceImplementsStore` | every step of a run is an operation of `WorkState` or leaves it alone |
| | `ManifestsAreComplete` | `[]ManifestIsComplete` for any publishers, crashes and damages |
| | `ResultsHaveOneVoice` | `[]OneVoice`, with one process |
| | `RecordsAreRestorable` | `[]RecordedIsRestorable`, with one process |
| | `ReturnsAreDurable` | `[]ReturnedIsDurable`, with one process |
| | `WorkIsKept` | `PaidWorkIsKept`, with one process |
| | `RestartsResume` | `[]RestartResumes`, with one process that works on one job |
| `AdapterProofs` | `NeverHalfAFile`, `NeverLost` | `[]PublishedIsWhole`, `[]ReturnedIsKept` |
| | `TargetsAreExact` | `[]TargetIsExact` |
| | `NamesAreSound` | `[]NamedIsSound` |
| | `OutputsAreWhole` | `[]OutputIsWhole` |
| | `DeletionsLoseNothing` | `[]AllowedLosesNothing` |
| `WorkerHostProofs` | `AttemptsAreSafe` | `[]WorksOnTheClaimed` |
| | `OneTaskPerCall` | `[]PaidOnce` |
| | `CredentialsAreOwn` | `[]CredentialIsItsOwn` |
| `RegionProofs` | `BoxWithinFrame`, `CanonicalBoxStays` | boxes of a crop lie within their frame and stay canonical |
| | `DrawnIsHonoured` | `[]SceneIsHonoured` |
| | `ResultsAreRight` | `[]ResultIsRight` |
| | `ChainsAreCoherent` | `[]ChainIsCoherent` |

**JobLease.** None of the invariants is inductive alone. Growing tokens need that a
state in which the lease row may be missing is never claimable (the third part of
`FencesGrow`, which in turn needs that a released job has no open attempt,
`FailedIsReleased`); the ledger needs that a lease row is dropped only together with
its attempt; a published output needs the uniqueness of live outputs; and `CancelSticks`
needs that only `RequestCancel` enters CANCEL_REQUESTED. `Submitted` says that no
report leads back to DRAFT or READY. `IInv` is their conjunction with the types. Two
statements about live leases are missing on purpose: with overlapping claims and every
legal report they do not hold (section 3, 1 and 2). The proof takes the actions one
by one (`QueueSafe`, `ClaimSafe`, ...), each with the conjuncts it can disturb; actions
that leave jobs, leases, attempts and outputs alone share `FrameSafe`, and
`LeasesFollow` says once how a step's leases and attempts must follow from the previous
ones to keep the ledger. Of a claim it is enough that it commits on a row it has looked
at again (`ClaimOutcome`): what its snapshot saw is not used. Assumptions:
`JobAssumption` (jobs are finite, for the rank of `created_at`), `BoundsAssumption`,
`ReportsAssumption`, `MovesAssumption` (reports are transitions that
`assertJobTransition` accepts).

For `QueueIsImplemented` a job's state is read as its phase: a job waits, runs, is
paused, is to stop, is parked after a failure that may be retried, or has ended. `Leads`
is the table of transitions seen through that reading (`MoveLeads`), and each operation
is one step of the queue for its job: a report (`ReportStep`), a publication
(`PublishStep`), a sweep (`SweptStep`), a step of the administrator (`AdminStep`) or the
loss of a lease in time (`LoseStep`). For the other jobs it is none (`UntouchedStep`), but
for the sweep, which may be a step of several jobs at once. Closing attempts changes no
token (`ClosesKeepsGrants`); that a claim's token is larger than all before it is the
third part of `FencesGrow`. Of the statements, these theorems take apart the claim only.
A sweep or a report is one step in them, as if nothing committed between its snapshot
and its write: what does is in `LeaseRaces` and section 5, and says how far "by the
holder only" may be trusted.

**LeaseRaces.** A token names one grant because a claim takes the token after the
one in the lease row. That this is new, although others commit between its
snapshot and its commit, needs `LeaseHoldsNewest` (the lease of a job that has not
ended is its newest grant) and `ClaimsTheUnended` (a claim keeps the lock of its
row from the snapshot on, so nobody ends its job meanwhile); `StampsArePast` says
that nobody has a time that has not come, from which `NeverStolen` follows.
Assumption: `RacesAssumption`.

**MediaWorker.** `MWInv` is `IInv` of the tables with what an executor knows: which
job and stage go with each of its places (`Whereabouts`); that, while the lease is
its own, the job is where it last heard it is, or one stage ahead because an answer
was lost, or its cancel was requested (`Known`); and that a job it returned as
COMPLETED or CANCELLED is (`Believes`). The proof goes through the
executor's calls, each first as an operation of `JobLease`, and that is
`ExecutorsUseTheTables`; an answer that was lost leaves the executor with what was
true before, which no other worker can have changed while the lease is its own, and
of which a stale token tells it nothing. Assumptions: `FaultsAssumption`, and
`ExecutorAssumption`: the reports the executor sends are among `Moves`.

**SourceUpload.** `IInv` says, beside the types, what a handler knows at its place
in the code (`HandlerKnows`): who is placing a file has an intent, who works on a
row has read one, and a row never vanishes. `StatusAgrees` needs it because
statements write "the" row without looking whether there is one. `Charged` adds
`ReservationIsTheOwners`: between its reservation and its row, `createSession` is
the owner or is refused, so the open reservation is still its own; `OwnerOnTheWay`
says that nobody comes onto that stretch in another way.
`ReadyKeepsItsFile` is not among the theorems: two requests break it (section 3, 4),
and nothing in the code keeps two tabs from sending them. Assumptions:
`FilesAreNaturals` (Drive's ids are ordered), `IntentsHaveBytes`
(`validateUploadIntent` refuses an empty file), `MarkersAreFresh`.

**BrowserUpload.** `BUInv` says of each page what its queue item, its uploader and
its pending cancellation know of each other (`PagesFit`): where `runItem` can be in
each state of the item (`ItemFits`); that an uploader which is not the item's yet does
nothing, and gets no item to work for after its record was deleted (`Alone`); that one
whose record was deleted has ended and writes none any more (`Attached`); and which
calls may still be under way beside a cancellation (`CancelFits`). Beside it, nothing
that counts bytes, in the store, in an item or in an uploader, is ahead of those Drive
holds (`NoneIsAhead`). `UploadsResume` needs `RecordStays`: the record goes with a
deletion or with an expired session and in no other way, so that neither the state of
the source nor the pending cancellation of the property is used. `DeletedStaysDeleted`
rests on the wait of the deletion: a cancelled run still writes only if it was writing
when the cancellation came, and the deletion comes after that write. `Leads` says once
what an uploader's operations leave alone, `PageStep` what a step of one page must
keep; only `Navigate` and `Reload` concern two pages. Assumption:
`BrowserUploadAssumption`; in it, the mark `NoRecord` is not a record.

**OfflineSlice.** `StoreInv` is inductive for the operations of `WorkState` in any
order, without looking at who calls them; `SliceImplementsStore` then carries it
to the slice, with `RunInv` for the locals a run has at each of its places.
`ManifestsAreComplete` needs `PubInv`: what a publisher has put up to its place is
in the store, and the store only adds.

Five theorems have the hypothesis `OneProcess`. Two runs over one job may each
commit over what the other has read, and with two processes TLC finds
`OneVoice`, `RecordedIsRestorable` and `ReturnedIsDurable` violated; no lock in the
code forbids it, but the worker of a host runs one job at a time and an operator
starts one `media-run`. The run `slice_restarts` has one process too, with crashes
and successors. Their invariants build on each other:
- `VoiceInv`: a stage SUCCEEDED only while those before it have (`InSequence`), its
  rows hold one content (`RowsAreAlike`), the contents fit each other (`OneVoice`), and
  the documents a run carries are those of the rows it has passed (`RunFits`). The
  voice of a later stage is the one the run read from TTS, and invalidation takes
  whole tails.
- `RestInv`: a publication is under way only while its run waits for it (`PubFits`),
  so that the rows are still those it collected, and each manifest is `Coherent`.
- `FilesInv`: until somebody damaged a file, what a run goes on with is in its
  workspace; a run that changes to the repair workspace has copied it there.
- `RecordsInv`: the generations of a checkpoint have a largest one (`Repairs`), so that
  the next is new; a recorded final checkpoint is of the tables as long as no unit
  was started again (`FinalFits`: the attempts are in its id); and a run that passed
  BACKUP knows a recorded proof (`ProofKnown`, `PubKnown`).
- `CulpritInv`: a run that is about to invalidate has a reason, a file that does not
  read back, a proof that does not verify, or a scan that failed itself (then the run is
  not `calm`). This one needs that an absent file is
  no undamaged file (`NoneIsNoFile`: the mark `None` is not a record).
- `ResumeInv`: everything a run may stumble over when it starts where another one
  stopped, from which `RestartResumes` follows.

`RestartsResume` says that a run which nothing disturbs does not fail, wherever the
runs before it stopped, unless they left a snapshot or an audio that stands in the
way (`Leftover`; section 3 shows the restarts that do fail), and that it is at a loss for
a workspace only where the scan of a run failed and a stage is INVALID since. A run fails at any of a
dozen places, each with a condition of its own, and each condition is about what
dead runs left. So the invariant describes that:
- `SetUpInv`: the job and its input are those of the calls, the units are there,
  and none but that of the current stage is RUNNING.
- `ContentInv`: rows, files and runs hold only what the stage makes (`Proper`), so
  that two contents of a stage can differ in the voice and in the proof alone; the
  rows of a stage come and go together (`RowsAgree`).
- `FoundInv`: the scan found every result before the stage it calls damaged, so no
  SUCCEEDED unit is without its document when the loop comes to it.
- `FilesGood`: without damages every file is whole, a file made from the audio lies
  with the document of that audio, and a checkpoint document names a recorded proof.
  A dead attempt's file is then the one that is made again, up to the audio itself.
- `ObjectsGood`, `RecordsGood`: an object of an id holds what the id's attempts stand
  for; while those are the attempts of the units, that is what a publication puts
  (`SnapshotIsNow`, `ManifestIsAlike`), so that it never conflicts with what a crashed
  one put before it. Every record verifies, and so no id was ever repaired.
- `PubGood`: a publication the run waits for is of the tables as they are now.
- `RaisedGood`: who failed undisturbed has a `Leftover`; it stays one with this step.

Each place has a lemma that its condition holds (`SetUpSucceeds`, `ScanSucceeds`,
`StartSucceeds`, ..., `WriteFails` and `WaitSucceeds` for the two that can conflict with a
leftover), and `Leads` says where each step of a run goes. The hypotheses beside
`OneProcess`: `OneJob`, the calls have one source and one configuration (a workspace
is made for one job, and another source or configuration is refused, rightly);
`NoneIsNothing`, the mark `None` is no content, file, job or stage; and `Voices` is finite, because
`Leftover` counts them: where synthesis can give one answer only, no audio is ever in
the way.

`SliceAssumption` orders the stages, names those with a second artifact and gives
calls their workspaces.

**AdapterProofs.** `PublishedIsWhole` rests on three facts: a name comes only from a
link, a link is of a flushed inode, a flushed inode is not written again.
`ReturnedIsKept` adds `KeptInv`: in a directory without incidents the disk has no
other file under the name than memory has, and what a writer relies on after each
of its calls still holds (`Relies`). `TargetIsExact` is inductive with `Stands`: where
a restore's tree is at each of its places, and how many mishaps it has had when it
is not where it should be; a target left by a call that raised takes two. For
`NamedIsSound`, `Holds` says which inode has the name at each place of a render and
that a validated one is not written again. `OutputIsWhole` is inductive with
`Reading`: what was captured, what is in the pipe and what is still to be written
are together the tool's script. `AllowedLosesNothing` needs `SeenRight`: the bytes an
object has now it had a moment ago, and evidence by readback is not newer than the
last moment the object was right. A proof that passes the guard is then of the
stored manifest (`ProofIsOfTheStored`), since whatever is missing from a manifest or
too much shows in its digest or its key. Assumptions: `DurableFileAssumption`,
`RestoreAssumption`, `RenderAssumption`, `ToolAssumption` (scripts are sequences of
streams), `RootsAssumption` (roots are paths).

**WorkerHostProofs.** `WorksOnTheClaimed` needs to know at each place of an attempt
which of the files it has checked. `PaidOnce` ties the number of tasks to the place
of the call and the devices blocked so far. `CredentialIsItsOwn` is inductive with
the types: `NobodyLearns` covers the steps that tell no host anything new, and only
`enrollWorker` makes a row, of a number that no host knows yet.

**RegionProofs.** `DrawnIsHonoured` follows from three lemmas: growing a range keeps
what it had and stays inside (`ExpandGrows`), rounding is to a nearest integer
(`RoundedIsNearest`), and so a pixel whose middle is drawn over lies between the
rounded ends. `ResultsAreRight` is inductive with `RecordsFollow` (the records are the
detections of the frames seen so far) and `EndsFollow` (the worker came to its end
only with enough frames, and a reader at the end of the pipe has all of them or
finds the worker dead). `ChainIsCoherent` needs no more than that each document was
accepted after the one before it (`Follow`) and is of the type of its place with
well-formed cues (`Typed`): it follows from what the parsers refuse, whatever the
stages make. That parts which each begin behind the one before them tile the video
is `EachBehindAllBefore` and `PartsTile`. `OcrAssumption`: the worker's crop is one of
the transforms. `DocumentsAssumption`: cues and planned parts are rows of records.

**Only model-checked.** No invariant and no action property. The liveness
properties `QueuedJobIsWorkedOff`, `CancelIsFinished` and `EveryCallEnds` are out of
the proof system's reach. So is what a recursive definition
computes for every input, because the library's induction rules cannot be used with
the installed provers; where a proof needs a least or a largest number it uses that
the naturals are well-founded (`LeastExists`, `LeastOne`). No module uses RECURSIVE operators.

## 5. Observations

What modelling showed besides the seven violated statements. They contradict no
property of a run, most of them because the property states exactly what holds
without them.

*Jobs and leases.*
- "A QUEUED job has no live lease" (`neon-control-plane.ts:454`) fails in two ways: a
  holder reports a paused job QUEUED, and a sweep that waits for a claim requeues the job
  that was just claimed (line 755). A cancel then ends the job on the spot while its
  holder works.
- "An old worker cannot write after losing its lease" (the design, lines 312-313), but a
  report that waits for the claim of another worker is written after it: only the state
  of the job is tested again (line 586). `LeaseRaces` contains both races; tokens name
  their grants even so.
- A heartbeat reports READY for a BUSY worker (line 312).
- One sweep may update the attempt of a cancelled job as LEASE_LOST or as CANCELLED
  (lines 761-782); nothing says which it should be.
- No route moves FAILED_RETRYABLE back to QUEUED (line 579). An output once
  retired can never be reserved again, and its holder is told that it lost its
  lease.
- When a source is READY no longer, `complete` skips its checks of Drive
  (`complete/route.ts:31`).

*Enrollment.*
- An answer lost after `enrollWorker` committed wastes the token and leaves a READY
  row nobody speaks for.
- A session ends 24 h after its enrollment and nothing renews it; `run_once` then
  raises, and the service restarts in vain until a new bootstrap, whose
  `systemctl enable --now` does not restart a running service.
- `worker-detach` neither stops a running worker nor ends its session. The rename
  of the credential is not synchronized, so the old one may come back.

*Source uploads.*
- Capacity is released "only after remote deletion"
  (`neon-drive-control-plane.test.ts:859`), but a `cancel` that read the row of one upload
  may end the row and the reservation of the next one, whose file it never deletes
  (`schema.sql:367`): deletions are claimed and ended by the row's id.
- A deletion that was claimed and whose request died leaves the row DELETING; `cancel`
  and `delete` would take it up, but nothing sends them again.
- A `delete` that comes late to the row of a rejected session ends the reservation of
  the upload that replaces it: the new upload goes on uncharged, and since its
  reservation is closed it can never be completed.
- A `createSession` that fails after its reservation of a replaced row leaves a
  terminal source that refuses every upload (`schema.sql:280`).
- A file removed from Drive by hand can never be cancelled (`drive-files.ts:775`,
  `claimAbsent` is unreachable). A source completed before Drive computed its digest
  is READY without a checksum and never queueable (`uploads.ts:445`).

*Browser.*
- `cancel()` refused because the source became READY returns silently, and the
  queue shows CANCELLED. Cancelling an item that is queued again after a failure
  leaves its upload and record. A lost provisioning answer leaves an artifact the
  item does not know.
- The hook's API throws plain errors, so every refusal of the control plane is
  retried to exhaustion and `use-upload-queue.ts:551` never sees
  DRIVE_PROVIDER_REJECTED.
- A renewal in flight when a cancel is confirmed revives the source; a disposed
  uploader still writes a renewed session; an item left during provisioning starts an
  uploader that nobody disposes. An expired record is deleted on reading, so its
  paused upload cannot be resumed. A status query whose Range is hidden restarts
  from zero. Two tabs share the record (not modelled).

*Files and slice.*
- A writer that adopted another's file returns success, and loses the file when the
  other fails afterwards and undoes its link (`integrity.py:376`); a directory just made
  is not synchronized into its parent (`integrity.py:131`); `mkdir` races make
  racers fail; Windows ignores failures to synchronize. `ReturnedIsKept` names these
  ways, and no others.
- A TTS attempt that died after writing its audio leaves a file that the next,
  different audio conflicts with (the second part of `Leftover`).
- The blur regions of the render plan are never compared with those of the track,
  and the render adapter does not use them; nothing but tests calls the cleanup
  guard; `Timeline`'s frame arithmetic is used by tests only.

*Media, OCR, speech, workspace.*
- `consume` ends silently when the read of a pipe raises (`media.py:45`), and the part it
  has passes for all of the output. A pipe that the call holds open does not fail to be
  read; `ToolCall` leaves the case out.
- `publish` that raises after `linkat` leaves the file at its destination; sources
  are digested before ffmpeg reads them; `create_fixture` writes in place.
- The OCR worker writes absolute frame numbers where the parser takes relative
  ones, so chunks that start later or skip frames are refused or shifted (the
  repository's `AUDIT-LOG.md:608` knows); with one expected frame and tolerance 1
  an empty stream passes; `build_argv` lacks the `-i` and `--gpus` of its README.
- `_is_shark_block` looks for `"ret":"-6"` in text that `json.dumps` writes with a
  space; one unreadable credential stops the pool; a failed task is polled until the
  timeout; one lost poll gives up a paid task; a body that ends early is taken as
  whole.
- Killed downloads leave part files; uploads are not resumed; when ffmpeg encodes
  the same source differently on a retry, the row conflicts for ever
  (`WorksOnTheClaimed` names this case).
- The worker takes two regions of the settings and ignores `enabled` and custom
  regions.

## 6. Not modelled

- **Legacy pipeline**: at this commit none of its jobs gets past its import
  (`app/ytb_vps/pipeline.py:22` imports `run_static_ocr_samples`, which `ocr.py` does
  not define), and `translation.py:796-985` calls methods `JobStore` lacks; `src/` has
  replaced it.
- **Login limiter and sessions**: one upsert and signed cookies, no state two steps
  could disagree about.
- **Drive connection**: OAuth nonces, folder provisioning, listings and usage
  snapshots are single statements around one call of Google each; of the files
  adapter the models use the answers only. The capacity sum over several projects
  (`schema.sql:305`) and its sizes are left out: a refusal is a failing call.
- **Pure computation**: ffmpeg's filter graphs, font metrics and subtitle layout,
  voice profiles, translation prompts, canonical JSON, path syntax, SQL parsing of
  rows and request schemas other than the scene's; the migration of old databases
  beyond its outcome.
- **Processes outside**: container images, bootstrap and release scripts, the
  workstation's connector and the fake cloud of the end-to-end tests.
- A source deleted under a job (`neon-drive-control-plane.ts:478`) is `hasSource`
  going false in `JobLease`; the composition of the two modules is not made.

## 7. Plan

What would come next, in this order: the capacity sums of several projects; two tabs over one record of the browser, each with its own queue; sources
and jobs in one module, so that a source is deleted while a job of its project waits.
