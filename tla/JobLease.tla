------------------------------- MODULE JobLease -------------------------------
(***************************************************************************)
(* The worker side of the control plane: the tables jobs, job_leases,      *)
(* job_attempts, workers and the OUTPUT rows of artifacts, and the         *)
(* statements of web/src/lib/repositories/neon-worker-control-plane.ts     *)
(* (with requestJobCancellation of neon-control-plane.ts) that write them. *)
(*                                                                         *)
(* Every operation of that repository is ONE SQL statement.  All but the   *)
(* claim are one action here.  The claim decides by a table that it does   *)
(* not lock, and PostgreSQL runs it at READ COMMITTED: it is two, the      *)
(* snapshot and the write.  Module LeaseRaces takes the others apart, too. *)
(*                                                                         *)
(* Time is kept as distances: lease[j].left is expires_at - now (0 when    *)
(* expires_at <= now) and silent[w] is now - heartbeat_at.  Tick moves the *)
(* clock.                                                                  *)
(***************************************************************************)
EXTENDS Naturals, FiniteSets

CONSTANTS
  Job,            \* jobs, one per request_key_digest
  Worker,         \* workers that may enroll
  Unstable,       \* BOUND: jobs whose project's source may come and go
  Content,        \* contents a render can produce: (size, checksum)
  TTL,            \* ticks in the 90 s of a lease and of worker liveness
  MaxFence,       \* BOUND on fencing tokens (bigint in the schema)
  MaxInFlight,    \* BOUND on requests of a worker in flight at its revocation
  Reports,        \* readiness a worker may report: subset of Readiness
  Moves           \* progress reports that reach the server: [from, to, percent]

-----------------------------------------------------------------------------
(* Domain: control-plane.ts                                                *)

next ==
  [ DRAFT            |-> {"READY", "DELETING"},
    READY            |-> {"QUEUED", "DELETING"},
    QUEUED           |-> {"CLAIMED", "CANCEL_REQUESTED", "PAUSED_NO_WORKER"},
    CLAIMED          |-> {"DOWNLOADING", "PAUSED_NO_WORKER", "FAILED_RETRYABLE",
                          "FAILED_FINAL", "CANCEL_REQUESTED"},
    DOWNLOADING      |-> {"OCR", "PAUSED_NO_WORKER", "FAILED_RETRYABLE",
                          "FAILED_FINAL", "CANCEL_REQUESTED"},
    OCR              |-> {"TRANSLATE", "UPLOADING", "PAUSED_NO_WORKER",
                          "FAILED_RETRYABLE", "FAILED_FINAL", "CANCEL_REQUESTED"},
    TRANSLATE        |-> {"REVIEW_READY", "TTS", "PAUSED_QUOTA", "PAUSED_NO_WORKER",
                          "FAILED_RETRYABLE", "FAILED_FINAL", "CANCEL_REQUESTED"},
    REVIEW_READY     |-> {"PAUSED_REVIEW", "TTS", "FAILED_FINAL", "CANCEL_REQUESTED"},
    PAUSED_REVIEW    |-> {"TTS", "FAILED_FINAL", "CANCEL_REQUESTED", "DELETING"},
    TTS              |-> {"RENDER", "PAUSED_REVIEW", "PAUSED_NO_WORKER",
                          "FAILED_RETRYABLE", "FAILED_FINAL", "CANCEL_REQUESTED"},
    RENDER           |-> {"UPLOADING", "PAUSED_NO_WORKER", "FAILED_RETRYABLE",
                          "FAILED_FINAL", "CANCEL_REQUESTED"},
    UPLOADING        |-> {"COMPLETED", "PAUSED_NO_WORKER", "FAILED_RETRYABLE",
                          "FAILED_FINAL", "CANCEL_REQUESTED"},
    COMPLETED        |-> {"DELETING"},
    PAUSED_QUOTA     |-> {"TRANSLATE", "CANCEL_REQUESTED", "DELETING"},
    PAUSED_NO_WORKER |-> {"QUEUED", "CANCEL_REQUESTED", "DELETING"},
    FAILED_RETRYABLE |-> {"QUEUED", "FAILED_FINAL", "CANCEL_REQUESTED", "DELETING"},
    FAILED_FINAL     |-> {"DELETING"},
    CANCEL_REQUESTED |-> {"CANCELLED", "FAILED_RETRYABLE"},
    CANCELLED        |-> {"DELETING"},
    DELETING         |-> {"DELETED"},
    DELETED          |-> {} ]

JOB_STATES == DOMAIN next

isTerminalJobState(s) == s \in {"COMPLETED", "CANCELLED", "FAILED_FINAL", "DELETED"}

isCancelableJobState(s) == "CANCEL_REQUESTED" \in next[s]

\* SLIP (breaks CancelSticks): a cancelled job whose worker died is requeued.
LeasedOrCancelRequested ==
  {"CLAIMED", "DOWNLOADING", "OCR", "UPLOADING", "CANCEL_REQUESTED"}

\* The states whose expired lease makes the job claimable again.
LeasedStates ==
  {"CLAIMED", "DOWNLOADING", "OCR", "TRANSLATE", "TTS", "RENDER", "UPLOADING"}

\* SLIP (breaks FencesGrow): every report drops the lease row and its token.
EveryReportedState ==
  {"DOWNLOADING", "OCR", "UPLOADING", "CANCELLED", "FAILED_FINAL", "FAILED_RETRYABLE"}

\* Reports that end the attempt, drop the lease and free the worker.
ReleasingStates == {"CANCELLED", "FAILED_FINAL", "FAILED_RETRYABLE"}

\* What a worker's capabilities and doctor report amount to.
Readiness == {"PASS", "FAIL", "SETUP"}

stateFor(r) == CASE r = "FAIL"  -> "DOCTOR_FAILED"
                 [] r = "SETUP" -> "SETTING_UP"
                 [] r = "PASS"  -> "READY"

WORKER_STATES ==
  {"SETTING_UP", "DOCTOR_FAILED", "READY", "BUSY", "OFFLINE", "REVOKED"}

-----------------------------------------------------------------------------
(* Assumptions on the constants.                                           *)

ASSUME JobAssumption == IsFiniteSet(Job)

ASSUME BoundsAssumption ==
  /\ TTL \in Nat \ {0}
  /\ MaxFence \in Nat \ {0}
  /\ MaxInFlight \in Nat

ASSUME ReportsAssumption == Reports \subseteq Readiness

\* The progress route takes every legal transition (assertJobTransition), from
\* whoever holds the lease.
ASSUME MovesAssumption ==
  \A m \in Moves :
    /\ m.from \in JOB_STATES
    /\ m.to \in next[m.from]
    /\ m.percent \in 0..100
-----------------------------------------------------------------------------
VARIABLES
  jobState,     \* jobs.state; "ABSENT" before the row exists
  progress,     \* jobs.progress_percent
  cancelAsked,  \* jobs.cancel_requested_at is not null
  created,      \* rank of jobs.created_at among the rows (0 when absent)
  hasSource,    \* the job's project has a READY source artifact
  lease,        \* the job_leases row of each job, or NoLease
  attempts,     \* the rows of job_attempts
  output,       \* artifacts.status of the OUTPUT row of each (job, content)
  workerState,  \* workers.state; "ABSENT" before enrollment
  readiness,    \* workers.capabilities and doctor_report
  silent,       \* ticks since workers.heartbeat_at, saturating above TTL
  inFlight,     \* authenticated requests still in flight at a revocation
  claims        \* claim statements between their snapshot and their commit

jobVars    == <<jobState, progress, cancelAsked, created, hasSource>>
leaseVars  == <<lease, attempts>>
workerVars == <<workerState, readiness, silent, inFlight>>
vars       == <<jobVars, leaseVars, output, workerVars, claims>>

NoLease  == [worker |-> "NONE", fence |-> 0, left |-> 0]
Lease    == [worker : Worker, fence : 1..MaxFence, left : 0..TTL]
Outcomes == {"OPEN", "COMPLETED", "FAILED", "LEASE_LOST", "CANCELLED"}
Attempt  == [job : Job, worker : Worker, fence : 1..MaxFence, outcome : Outcomes]
OutputStatus == {"ABSENT", "PENDING", "READY", "DELETED"}

\* The jobs a claim's snapshot found claimable, and those of them whose lease
\* it saw expired.
ClaimUnderWay == [worker : Worker, found : SUBSET Job, lapsed : SUBSET Job]

Leased(j) == lease[j].fence > 0
Live(j)   == lease[j].left > 0

\* The lease a fenced statement asks for: this worker, this token, unexpired.
Holds(w, j, f) == Live(j) /\ lease[j].worker = w /\ lease[j].fence = f

\* SLIP (breaks HistoryIsFinal): "ended_at is null" is forgotten.
AllAttempts(j) == {a \in attempts : a.job = j}

OpenAttempts(j) == {a \in attempts : a.job = j /\ a.outcome = "OPEN"}

\* Attempt a with outcome o, and the attempt rows after those of S end with o.
With(a, o) == [job |-> a.job, worker |-> a.worker, fence |-> a.fence, outcome |-> o]

Ended(S, o) == (attempts \ S) \cup {With(a, o) : a \in S}

\* requireWorkerSession: the session authenticates in a statement of its own,
\* so a request that authenticated before a revocation may still run after it.
Request(w) ==
  \/ /\ workerState[w] \notin {"ABSENT", "REVOKED"}
     /\ UNCHANGED inFlight
  \/ /\ inFlight[w] > 0
     /\ inFlight' = [inFlight EXCEPT ![w] = @ - 1]

Init ==
  /\ jobState = [j \in Job |-> "ABSENT"]
  /\ progress = [j \in Job |-> 0]
  /\ cancelAsked = [j \in Job |-> FALSE]
  /\ created = [j \in Job |-> 0]
  /\ hasSource = [j \in Job |-> TRUE]
  /\ lease = [j \in Job |-> NoLease]
  /\ attempts = {}
  /\ output = [j \in Job |-> [c \in Content |-> "ABSENT"]]
  /\ workerState = [w \in Worker |-> "ABSENT"]
  /\ readiness = [w \in Worker |-> "SETUP"]
  /\ silent = [w \in Worker |-> 0]
  /\ inFlight = [w \in Worker |-> 0]
  /\ claims = {}

-----------------------------------------------------------------------------
(* Workers *)

\* enrollWorker: a fresh session reports what it found on its host.
Enroll(w) ==
  /\ workerState[w] = "ABSENT"
  /\ \E r \in Reports :
       /\ workerState' = [workerState EXCEPT ![w] = stateFor(r)]
       /\ readiness' = [readiness EXCEPT ![w] = r]
  /\ silent' = [silent EXCEPT ![w] = 0]
  /\ UNCHANGED <<jobVars, leaseVars, output, inFlight, claims>>

\* heartbeatWorker: the state is computed from the report alone, so a BUSY or
\* OFFLINE worker becomes READY again whatever it holds.
Heartbeat(w) ==
  /\ Request(w)
  /\ workerState[w] # "REVOKED"
  /\ \E r \in Reports :
       /\ workerState' = [workerState EXCEPT ![w] = stateFor(r)]
       /\ readiness' = [readiness EXCEPT ![w] = r]
  /\ silent' = [silent EXCEPT ![w] = 0]
  /\ UNCHANGED <<jobVars, leaseVars, output, claims>>

\* revokeWorker: the lease and the job of the worker are left alone, and what
\* it has in flight is not recalled.
Revoke(w) ==
  /\ workerState[w] # "ABSENT"
  /\ workerState' = [workerState EXCEPT ![w] = "REVOKED"]
  /\ IF workerState[w] = "REVOKED"
     THEN UNCHANGED inFlight
     ELSE \E n \in 0..MaxInFlight : inFlight' = [inFlight EXCEPT ![w] = n]
  /\ UNCHANGED <<jobVars, leaseVars, output, readiness, silent, claims>>

-----------------------------------------------------------------------------
(* Jobs *)

\* queueProjectJob: a job per request key, of a project whose source is READY.
Queue(j) ==
  /\ jobState[j] = "ABSENT"
  /\ hasSource[j]
  /\ jobState' = [jobState EXCEPT ![j] = "QUEUED"]
  /\ created' = [created EXCEPT ![j] = 1 + Cardinality({k \in Job : created[k] > 0})]
  /\ UNCHANGED <<progress, cancelAsked, hasSource, leaseVars, output, workerVars, claims>>

\* The project's source artifact is deleted by, or uploaded again through, the
\* Drive side of the control plane.
SourceChanges(j) ==
  /\ j \in Unstable
  /\ hasSource' = [hasSource EXCEPT ![j] = ~@]
  /\ UNCHANGED <<jobState, progress, cancelAsked, created, leaseVars, output, workerVars,
                 claims>>

Eligible(w) == workerState[w] = "READY" /\ readiness[w] = "PASS"

\* SLIP (breaks QueuedJobIsWorkedOff): only QUEUED jobs are handed out.
ClaimableQueued(j) == hasSource[j] /\ jobState[j] = "QUEUED"

Claimable(j) ==
  /\ hasSource[j]
  /\ \/ jobState[j] = "QUEUED"
     \/ jobState[j] \in LeasedStates /\ Leased(j) /\ ~Live(j)

\* While it sees any live lease a claim finds no job.
GateOpen == \A k \in Job : ~Live(k)

Oldest(S) == {j \in S : \A k \in S : created[j] <= created[k]}

\* The rows a claim of j by w writes, once j is its candidate.
Assign(w, j) ==
  LET fence == lease[j].fence + 1
  IN  /\ fence <= MaxFence
      /\ \A a \in attempts : a.job = j => a.fence # fence   \* job_attempts_fence_idx
      /\ lease' = [lease EXCEPT ![j] = [worker |-> w, fence |-> fence, left |-> TTL]]
      /\ attempts' = Ended({a \in OpenAttempts(j) : a.fence < fence}, "LEASE_LOST")
           \cup {[job |-> j, worker |-> w, fence |-> fence, outcome |-> "OPEN"]}
      /\ jobState' = [jobState EXCEPT ![j] = "CLAIMED"]
      /\ progress' = [progress EXCEPT ![j] = 0]
      /\ workerState' = [workerState EXCEPT ![w] = "BUSY"]
      /\ UNCHANGED <<cancelAsked, created, hasSource, output, readiness, silent>>

\* claimJob, its snapshot.  A claim that finds nothing writes nothing.  BOUND: of
\* several claims of one worker with one snapshot (the client resends) one is kept.
BeginClaim(w) ==
  LET found == {k \in Job : Claimable(k)}
  IN  /\ Request(w)
      /\ Eligible(w)
      /\ GateOpen
      /\ found # {}
      /\ \A k \in found : lease[k].fence < MaxFence
      /\ claims' = claims \cup
           {[worker |-> w, found |-> found, lapsed |-> {k \in found : Leased(k)}]}
      /\ UNCHANGED <<jobVars, leaseVars, output, workerState, readiness, silent>>

\* FOR UPDATE looks at the rows of jobs again, as they are by then; what the
\* snapshot said of the leases stays.
Candidates(c) ==
  {j \in c.found : \/ jobState[j] = "QUEUED"
                   \/ j \in c.lapsed /\ jobState[j] \in LeasedStates}

\* SKIP LOCKED: a row that another claim is just writing, which by the time of
\* this step has its lease, is passed over or not.
Skipped == {{}, {j \in Job : Live(j)}}

\* SLIP (breaks ImplementsFencedQueue): the upsert takes whatever row is there.
TakesAnyRow(j) == TRUE

\* leased: the upsert looks at the row of job_leases again.
TakesRow(j) == ~Live(j)

\* claimJob, from its row locks to its commit: the oldest candidate is handed
\* out, or there is none by now, or its lease was renewed.
FinishClaim(c) ==
  /\ claims' = claims \ {c}
  /\ \/ /\ Eligible(c.worker)
        /\ \E locked \in Skipped : \E j \in Oldest(Candidates(c) \ locked) :
             TakesRow(j) /\ Assign(c.worker, j)
     \/ /\ Eligible(c.worker) => \A j \in Oldest(Candidates(c)) : ~TakesRow(j)
        /\ UNCHANGED <<jobVars, leaseVars, output, workerState, readiness, silent>>
  /\ UNCHANGED inFlight

\* renewLease; its reply tells the worker whether a cancel was requested.
Renew(w, j, f) ==
  /\ Request(w)
  /\ Holds(w, j, f)
  /\ lease' = [lease EXCEPT ![j] = [worker |-> w, fence |-> f, left |-> TTL]]
  /\ UNCHANGED <<jobVars, attempts, output, workerState, readiness, silent, claims>>

CancelSeen(j) == cancelAsked[j] \/ jobState[j] = "CANCEL_REQUESTED"

\* SLIP (breaks AttemptLedger): the lease goes, the attempt stays open.
ReleaseLeaseOnly(w, j, f, outcome) ==
  lease' = [lease EXCEPT ![j] = NoLease] /\ UNCHANGED attempts

\* The lease row and the attempt of (w, j, f) after its last report.
Release(w, j, f, outcome) ==
  /\ lease' = [lease EXCEPT ![j] = NoLease]
  /\ attempts' = Ended({a \in OpenAttempts(j) : a.worker = w /\ a.fence = f}, outcome)

\* updateJobProgress: a compare-and-set on the state, fenced by the lease.
ProgressApplies(w, j, f, m) ==
  /\ Holds(w, j, f)
  /\ jobState[j] = m.from
  /\ progress[j] <= m.percent

Progress(w, j, f, m) ==
  /\ Request(w)
  /\ ProgressApplies(w, j, f, m)
  /\ jobState' = [jobState EXCEPT ![j] = m.to]
  /\ progress' = [progress EXCEPT ![j] = m.percent]
  /\ IF m.to \in ReleasingStates
     THEN /\ Release(w, j, f, IF m.to = "CANCELLED" THEN "CANCELLED" ELSE "FAILED")
          /\ workerState' = IF workerState[w] = "BUSY"
                            THEN [workerState EXCEPT ![w] = "READY"]
                            ELSE workerState
     ELSE UNCHANGED <<leaseVars, workerState>>
  /\ UNCHANGED <<cancelAsked, created, hasSource, output, readiness, silent, claims>>

\* requestJobCancellation reads the state and then writes only if the state is
\* still the one it read, so the write alone is the step.
RequestCancel(j) ==
  /\ jobState[j] \in JOB_STATES
  /\ ~isTerminalJobState(jobState[j])
  /\ isCancelableJobState(jobState[j])
  /\ cancelAsked' = [cancelAsked EXCEPT ![j] = TRUE]
  /\ IF jobState[j] = "QUEUED"
     THEN /\ jobState' = [jobState EXCEPT ![j] = "CANCELLED"]
          /\ attempts' = Ended(OpenAttempts(j), "CANCELLED")
     ELSE /\ jobState' = [jobState EXCEPT ![j] = "CANCEL_REQUESTED"]
          /\ UNCHANGED attempts
  /\ UNCHANGED <<progress, created, hasSource, lease, output, workerVars, claims>>

-----------------------------------------------------------------------------
(* The job's output artifact *)

Undeleted(j) == {c \in Content : output[j][c] \in {"PENDING", "READY"}}

\* reserveOutput: the artifact id is derived from the content, so reserving the
\* same content again is a REPLAY, and a PENDING row of another content is
\* retired.  The row of a retired content stays in the table, and inserting its
\* id again does nothing.
ReserveReplay(j, c) == output[j][c] \in {"PENDING", "READY"}

\* SLIP (breaks PublishedIsTheEnd): the crashed attempt's row stays live.
RetireNothing(j, c) == output[j]

Retire(j, c) ==
  [d \in Content |-> IF d # c /\ output[j][d] = "PENDING" THEN "DELETED" ELSE output[j][d]]

CanInsert(j, c) ==
  /\ output[j][c] = "ABSENT"
  /\ \A d \in Content \ {c} : output[j][d] # "READY"   \* artifacts_one_live_output_per_job_idx

ReserveOutput(w, j, f, c) ==
  /\ Request(w)
  /\ Holds(w, j, f)
  /\ ~ReserveReplay(j, c)
  /\ output' = [output EXCEPT ![j] =
       [Retire(j, c) EXCEPT ![c] = IF CanInsert(j, c) THEN "PENDING" ELSE @]]
  /\ UNCHANGED <<jobVars, leaseVars, workerState, readiness, silent, claims>>

\* completeOutput: publishes the artifact; unless the job has ended it also
\* completes the job, ends the attempt, drops the lease and frees the worker.
\* A revoked worker cannot become READY (a check of the workers table), so the
\* whole statement fails for it.
CompleteOutput(w, j, f, c) ==
  /\ Request(w)
  /\ Holds(w, j, f)
  /\ output[j][c] = "PENDING"
  /\ output' = [output EXCEPT ![j][c] = "READY"]
  /\ IF jobState[j] \in {"COMPLETED", "FAILED_FINAL", "CANCELLED", "DELETING", "DELETED"}
     THEN UNCHANGED <<jobState, progress, leaseVars, workerState>>
     ELSE /\ workerState[w] # "REVOKED"
          /\ jobState' = [jobState EXCEPT ![j] = "COMPLETED"]
          /\ progress' = [progress EXCEPT ![j] = 100]
          /\ Release(w, j, f, "COMPLETED")
          /\ workerState' = [workerState EXCEPT ![w] = "READY"]
  /\ UNCHANGED <<cancelAsked, created, hasSource, readiness, silent, claims>>

-----------------------------------------------------------------------------
(* The sweep, run whenever the dashboard loads, and the clock *)

\* SLIP (breaks CancelIsFinished): only a job without a lease row is cancelled.
UncancellableUnleased ==
  {j \in Job : jobState[j] = "CANCEL_REQUESTED" /\ ~Leased(j)}

Expired       == {j \in Job : Leased(j) /\ ~Live(j)}
Uncancellable == {j \in Job : jobState[j] = "CANCEL_REQUESTED" /\ ~Live(j)}

\* expireWorkersAndLeases.  Both attempts_closed and cancel_attempts_closed may
\* want the attempt of one job; PostgreSQL applies one of the two updates and
\* does not say which, so asCancelled is any subset of those jobs.
ExpireWorkersAndLeases ==
  /\ jobState' = [j \in Job |->
       IF j \in Expired /\ jobState[j] \in LeasedStates THEN "QUEUED"
       ELSE IF j \in Uncancellable THEN "CANCELLED" ELSE jobState[j]]
  /\ \E asCancelled \in SUBSET (Expired \cap Uncancellable) :
       LET lost == {a \in attempts : /\ a.outcome = "OPEN"
                                     /\ a.job \in Expired
                                     /\ a.fence = lease[a.job].fence}
           cancelled == {a \in attempts : /\ a.outcome = "OPEN"
                                          /\ a.job \in Uncancellable
                                          /\ a \in lost => a.job \in asCancelled}
       IN attempts' = (attempts \ (lost \cup cancelled))
            \cup {With(a, "LEASE_LOST") : a \in lost \ cancelled}
            \cup {With(a, "CANCELLED") : a \in cancelled}
  /\ workerState' = [w \in Worker |->
       IF workerState[w] \in {"SETTING_UP", "READY", "BUSY"} /\ silent[w] > TTL
       THEN "OFFLINE" ELSE workerState[w]]
  /\ UNCHANGED <<progress, cancelAsked, created, hasSource, lease, output,
                 readiness, silent, inFlight, claims>>

\* BOUND: a claim statement takes less than a tick, so that the time it was
\* stamped with is the time of its commit.
Tick ==
  /\ claims = {}
  /\ lease' = [j \in Job |->
       [worker |-> lease[j].worker, fence |-> lease[j].fence,
        left |-> IF Live(j) THEN lease[j].left - 1 ELSE 0]]
  /\ silent' = [w \in Worker |->
       IF workerState[w] # "ABSENT" /\ silent[w] <= TTL THEN silent[w] + 1 ELSE silent[w]]
  /\ UNCHANGED <<jobVars, attempts, output, workerState, readiness, inFlight, claims>>

Fenced(w, j) ==
  \E f \in 1..MaxFence :
    \/ Renew(w, j, f)
    \/ \E m \in Moves : Progress(w, j, f, m)
    \/ \E c \in Content : ReserveOutput(w, j, f, c) \/ CompleteOutput(w, j, f, c)

Next ==
  \/ \E w \in Worker : Enroll(w) \/ Heartbeat(w) \/ Revoke(w) \/ BeginClaim(w)
  \/ \E c \in claims : FinishClaim(c)
  \/ \E j \in Job : Queue(j) \/ SourceChanges(j) \/ RequestCancel(j)
  \/ \E w \in Worker, j \in Job : Fenced(w, j)
  \/ ExpireWorkersAndLeases
  \/ Tick

Spec == Init /\ [][Next]_vars

-----------------------------------------------------------------------------
(* Properties *)

\* Every column holds a value its table allows.
TypeOK ==
  /\ jobState \in [Job -> JOB_STATES \cup {"ABSENT"}]
  /\ progress \in [Job -> 0..100]
  /\ cancelAsked \in [Job -> BOOLEAN]
  /\ created \in [Job -> Nat]
  /\ hasSource \in [Job -> BOOLEAN]
  /\ lease \in [Job -> Lease \cup {NoLease}]
  /\ attempts \subseteq Attempt
  /\ output \in [Job -> [Content -> OutputStatus]]
  /\ workerState \in [Worker -> WORKER_STATES \cup {"ABSENT"}]
  /\ readiness \in [Worker -> Readiness]
  /\ silent \in [Worker -> Nat]
  /\ inFlight \in [Worker -> Nat]
  /\ claims \subseteq ClaimUnderWay

\* What a worker holds and what the attempts say are the same fact in two tables:
\* an open attempt carries the worker and the fencing token of its job's lease
\* row, and a live lease has exactly that attempt open.  Only a job cancelled
\* while it was reported back as QUEUED has its attempt closed under its lease.
AttemptLedger ==
  /\ \A a \in attempts : a.outcome = "OPEN" =>
       /\ Leased(a.job)
       /\ lease[a.job].worker = a.worker
       /\ lease[a.job].fence = a.fence
  /\ \A j \in Job : Live(j) /\ jobState[j] \notin {"CANCELLED", "DELETING", "DELETED"} =>
       [job |-> j, worker |-> lease[j].worker, fence |-> lease[j].fence, outcome |-> "OPEN"]
         \in attempts

\* A fencing token names one attempt, and no attempt is ahead of the lease row:
\* the next claim's token is larger than every token handed out before.
FencesGrow ==
  /\ \A a, b \in attempts : a.job = b.job /\ a.fence = b.fence => a = b
  /\ \A a \in attempts : Leased(a.job) => a.fence <= lease[a.job].fence
  /\ \A j \in Job : jobState[j] \in {"ABSENT", "QUEUED"} \cup LeasedStates =>
       \A a \in attempts : a.job = j => a.fence <= lease[j].fence

\* A job with a published output has ended, and it is its only output: the
\* lease-free REPLAY answer of completeOutput, which looks at the artifact alone,
\* never tells a worker that an unfinished job is done.
PublishedIsTheEnd ==
  \A j \in Job :
    /\ (\E c \in Content : output[j][c] = "READY") =>
         jobState[j] \in {"COMPLETED", "CANCELLED", "DELETING", "DELETED"}
    /\ \A c, d \in Undeleted(j) : c = d

\* Once an administrator asked to cancel, the job is never handed out or
\* requeued again: it is being cancelled, has ended or is on its way out.
CancelSticks ==
  \A j \in Job : cancelAsked[j] =>
    jobState[j] \in {"CANCEL_REQUESTED", "CANCELLED", "COMPLETED", "FAILED_RETRYABLE",
                     "DELETING", "DELETED"}

\* An ended job keeps its end but for its deletion, whatever its last holder still
\* reports, and a closed attempt keeps its outcome and token.
HistoryIsFinal ==
  [][ /\ \A j \in Job : isTerminalJobState(jobState[j]) \/ jobState[j] = "DELETING" =>
           jobState'[j] \in {jobState[j]} \cup (next[jobState[j]] \cap {"DELETING", "DELETED"})
      /\ \A a \in attempts : a.outcome # "OPEN" => a \in attempts' ]_vars

-----------------------------------------------------------------------------
(* What the documents say, and the code breaks. *)

\* "Only one worker holds one job; the first version does not run two heavy media
\* jobs at once": at most one job has a live lease.  Two claims that overlap
\* each see none.
OneLiveLease == \A j, k \in Job : Live(j) /\ Live(k) => j = k

\* A terminal report "must also close the attempt with its true outcome, drop the
\* lease, and free the worker", lest the sweep mislabel the attempt and the live
\* lease hold the gate shut.  The report of COMPLETED does none of it.
EndedJobIsQuiet ==
  \A j \in Job : jobState[j] \in {"COMPLETED", "CANCELLED", "FAILED_FINAL", "FAILED_RETRYABLE"} =>
    OpenAttempts(j) = {} /\ ~Live(j)

=============================================================================
