-------------------------- MODULE MediaWorkerProofs --------------------------
(***************************************************************************)
(* What an executor believes, for any number of workers, jobs, contents    *)
(* and faults.  Whatever the executors do, the tables take a step of       *)
(* JobLease, so its invariant holds under them; on top of it, an executor  *)
(* whose lease is live knows the state of its job, but for one report      *)
(* whose answer it never got.                                              *)
(***************************************************************************)
EXTENDS MediaWorker, JobLeaseProofs

Doings ==
  {"IDLE", "CLAIM", "CLAIMING", "ADVANCE", "CONFIRM", "RENEW_BEFORE", "RENEW_AFTER", "CANCEL",
   "CANCEL_NEXT", "REPORT", "WORK", "SESSION", "COMPLETE"}

Results == {"NONE", "COMPLETED", "CANCELLED", "LEASE_LOST", "FAILED"}

Stages  == {"CLAIMED", "DOWNLOADING", "OCR", "UPLOADING"}
Leaving == {"CLAIMED", "DOWNLOADING", "OCR"}

AnyJob == CHOOSE j \in Job : TRUE

ExTypeOK ==
  /\ doing \in [Worker -> Doings]
  /\ stage \in [Worker -> Stages]
  /\ grant \in [Worker -> [job : Job \cup {AnyJob}, fence : Nat]]
  /\ produced \in [Worker -> Content]
  /\ result \in [Worker -> Results]

\* Inside execute: there is an assignment, and the call fits the stage.
Executing(w) == doing[w] \notin {"IDLE", "CLAIM", "CLAIMING"}

Whereabouts(w) ==
  /\ Executing(w) \/ result[w] \in {"COMPLETED", "CANCELLED"} => J(w) \in Job
  /\ doing[w] \in {"ADVANCE", "CONFIRM", "CANCEL_NEXT"} => stage[w] \in Leaving
  /\ doing[w] \in {"RENEW_BEFORE", "RENEW_AFTER"} => stage[w] = "OCR"
  /\ doing[w] \in {"SESSION", "COMPLETE"} => stage[w] = "UPLOADING"

HeldBy(w) == Holds(w, J(w), F(w))

\* The job is where the executor last heard it is, or its cancel was requested.
At(w, s) ==
  /\ jobState[J(w)] \in {s, "CANCEL_REQUESTED"}
  /\ progress[J(w)] = Percent[s]

\* Or one stage ahead: the report was applied and its answer lost.
Ahead(w) ==
  /\ doing[w] \in {"ADVANCE", "CONFIRM", "CANCEL_NEXT", "REPORT"}
  /\ stage[w] \in Leaving
  /\ At(w, After[stage[w]])

Known(w) == Executing(w) /\ HeldBy(w) => At(w, stage[w]) \/ Ahead(w)

Believes(w) == result[w] \in {"COMPLETED", "CANCELLED"} => jobState[J(w)] = result[w]

\* What it was told is one of the job's grants.
Granted(w) == Executing(w) => [worker |-> w, token |-> F(w)] \in Grants(J(w))

\* What is true of each executor.
Knows(w) == Whereabouts(w) /\ Granted(w) /\ Known(w) /\ Believes(w)

\* What is true of the tables under these executors, though not under every client:
\* a live lease is of a job that is being worked on, and a job with a published
\* output is COMPLETED.
Busy == {"CLAIMED", "DOWNLOADING", "OCR", "UPLOADING", "CANCEL_REQUESTED"}

LiveIsBusy == \A j \in Job : Live(j) => jobState[j] \in Busy

PublishedIsCompleted ==
  \A j \in Job, c \in Content : output[j][c] = "READY" => jobState[j] = "COMPLETED"

SInv == IInv /\ LiveIsBusy /\ PublishedIsCompleted

MWInv == SInv /\ ExTypeOK /\ \A w \in Worker : Knows(w)

\* What every step keeps: an end, and the grants.
EndsStay   == \A j \in Job : isTerminalJobState(jobState[j]) => jobState'[j] = jobState[j]
GrantsGrow == \A j \in Job : Grants(j) \subseteq Grants(j)'
Onward     == EndsStay /\ GrantsGrow

-----------------------------------------------------------------------------
(* The executor's tables. *)

LEMMA StageTables ==
  /\ DOMAIN Percent = Stages /\ DOMAIN After = Leaving
  /\ After["CLAIMED"] = "DOWNLOADING" /\ After["DOWNLOADING"] = "OCR"
  /\ After["OCR"] = "UPLOADING"
  /\ Percent["UPLOADING"] = 90
BY DEF Percent, After, Stages, Leaving

LEMMA ReportsOfExecutors ==
  /\ \A s \in Leaving : Advance(s) \in ExecutorReports
  /\ \A s \in Stages : Failure(s) \in ExecutorReports /\ Cancel(s) \in ExecutorReports
BY StageTables DEF ExecutorReports

LEMMA Moved ==
  ASSUME NEW s
  PROVE  /\ Advance(s).from = s /\ Advance(s).to = After[s]
         /\ Advance(s).percent = Percent[After[s]]
         /\ Failure(s).to = "FAILED_RETRYABLE"
         /\ Cancel(s).from = "CANCEL_REQUESTED" /\ Cancel(s).to = "CANCELLED"
BY DEF Advance, Failure, Cancel, Move

LEMMA ExecutorMoves ==
  ASSUME NEW m \in ExecutorReports
  PROVE  /\ m \in Moves
         /\ m.to \in {"DOWNLOADING", "OCR", "UPLOADING", "CANCELLED", "FAILED_RETRYABLE"}
BY ExecutorAssumption, StageTables, Moved DEF ExecutorReports, Leaving

LEMMA NextStage ==
  \A s \in Leaving : /\ s \in Stages /\ After[s] \in Stages /\ After[s] # s
                     /\ After[s] \notin ReleasingStates
                     /\ After[s] # "CANCEL_REQUESTED" /\ s # "CANCEL_REQUESTED"
BY StageTables DEF Leaving, Stages, ReleasingStates

-----------------------------------------------------------------------------
(* The tables under an executor take a step of JobLease. *)

\* A fenced call, and what one step of the executor of w does to the tables.
FencedStep(w) ==
  \/ Renewed(w)
  \/ \E m \in ExecutorReports : Applied(w, m)
  \/ ReserveOutput(w, J(w), F(w), produced[w])
  \/ doing[w] = "COMPLETE" /\ CompleteOutput(w, J(w), F(w), produced[w])

TableStep(w) ==
  \/ UNCHANGED vars
  \/ Heartbeat(w)
  \/ BeginClaim(w)
  \/ \E c \in ClaimsOf(w) : FinishClaim(c)
  \/ Executing(w) /\ FencedStep(w)

LEMMA ExecutorSteps ==
  ASSUME ExTypeOK, NEW w \in Worker, Whereabouts(w), Executor(w) \/ Crash(w)
  PROVE  TableStep(w)
<1> USE DEF TableStep, FencedStep, Executing
<1>a. stage[w] \in Stages
  BY DEF ExTypeOK
<1>1. CASE Poll(w) BY <1>1 DEF Poll
<1>2. CASE ClaimJob(w) BY <1>2 DEF ClaimJob
<1>2a. CASE ClaimAnswered(w) BY <1>2a DEF ClaimAnswered
<1>3. CASE Transition(w)
  <2>1. Advance(stage[w]) \in ExecutorReports
    BY <1>3, ReportsOfExecutors DEF Transition, Whereabouts
  <2> QED BY <1>3, <2>1 DEF Transition, Rejected, Unanswered
<1>4. CASE Confirm(w) BY <1>4 DEF Confirm, Lost, Unanswered
<1>5. CASE RenewStep(w) BY <1>5 DEF RenewStep, Lost, Unanswered
<1>6. CASE Acknowledge(w)
  <2>1. CancelMove(w) \in ExecutorReports
    BY <1>a, <1>6, ReportsOfExecutors, NextStage DEF Acknowledge, Whereabouts, CancelMove
  <2> QED BY <1>6, <2>1 DEF Acknowledge, Rejected, Unanswered
<1>7. CASE Report(w)
  <2>1. Failure(stage[w]) \in ExecutorReports
    BY <1>a, ReportsOfExecutors
  <2> QED BY <1>7, <2>1 DEF Report, Rejected
<1>8. CASE Beat(w) BY <1>8 DEF Beat, Beating, Lost, Unanswered
<1>9. CASE EndPhase(w) BY <1>9 DEF EndPhase
<1>10. CASE BreakPhase(w) BY <1>10 DEF BreakPhase
<1>11. CASE Session(w) BY <1>11 DEF Session, Unanswered
<1>12. CASE Complete(w) BY <1>12 DEF Complete, Unanswered
<1>13. CASE Crash(w) BY <1>13 DEF Crash
<1> QED BY <1>1, <1>2, <1>2a, <1>3, <1>4, <1>5, <1>6, <1>7, <1>8, <1>9, <1>10, <1>11, <1>12, <1>13
        DEF Executor

LEMMA FencedHold ==
  ASSUME NEW w \in Worker, FencedStep(w)
  PROVE  HeldBy(w)
BY DEF FencedStep, Renewed, Applied, Renew, Progress, ProgressApplies, ReserveOutput,
       CompleteOutput, HeldBy

LEMMA TableStepIsNext ==
  ASSUME TypeOK, ExTypeOK, NEW w \in Worker, Whereabouts(w), TableStep(w)
  PROVE  [Next]_vars
<1>1. CASE UNCHANGED vars
  BY <1>1
<1>2. CASE Heartbeat(w) \/ BeginClaim(w) \/ \E c \in ClaimsOf(w) : FinishClaim(c)
  BY <1>2 DEF Next, ClaimsOf
<1>3. CASE Executing(w) /\ FencedStep(w)
  <2>1. J(w) \in Job /\ HeldBy(w)
    BY <1>3, FencedHold DEF Whereabouts
  <2>2. F(w) \in 1 .. MaxFence
    BY <2>1, LeaseRow DEF HeldBy, Holds, Leased
  <2>3. produced[w] \in Content
    BY DEF ExTypeOK
  <2>4. Fenced(w, J(w))
    BY <1>3, <2>2, <2>3, ExecutorMoves DEF FencedStep, Renewed, Applied, Fenced
  <2> QED BY <2>1, <2>4 DEF Next
<1> QED BY <1>1, <1>2, <1>3 DEF TableStep

LEMMA ControlPlaneIsNext == ControlPlane => Next
BY DEF ControlPlane, ClaimRunsOn, Next

-----------------------------------------------------------------------------
(* These executors leave the tables tidier than the control plane asks for. *)

Narrow ==
  \A k \in Job :
    /\ Live(k)' => (Live(k) /\ jobState'[k] = jobState[k]) \/ jobState'[k] \in Busy
    /\ isTerminalJobState(jobState[k]) => jobState'[k] = jobState[k]
    /\ \A c \in Content :
         output'[k][c] = "READY" => output[k][c] = "READY" \/ jobState'[k] = "COMPLETED"

LEMMA NarrowIsEnough ==
  ASSUME SInv, Narrow
  PROVE  LiveIsBusy' /\ PublishedIsCompleted' /\ EndsStay
BY DEF SInv, Narrow, LiveIsBusy, PublishedIsCompleted, EndsStay, isTerminalJobState

LEMMA FrameNarrow ==
  ASSUME UNCHANGED <<jobState, output>>, \A k \in Job : Live(k)' => Live(k)
  PROVE  Narrow
BY DEF Narrow

LEMMA ClaimNarrow ==
  ASSUME SInv, NEW c \in claims, FinishClaim(c)
  PROVE  Narrow
<1>a. TypeOK
  BY DEF SInv, IInv
<1>1. CASE UNCHANGED <<jobVars, leaseVars, output, workerState, readiness, silent>>
  BY <1>1, FrameNarrow DEF jobVars, leaseVars, Live
<1>2. ASSUME NEW j \in Job, Assign(c.worker, j),
             jobState[j] \in {"QUEUED"} \cup LeasedStates
      PROVE  Narrow
  <2>1. /\ \A k \in Job : jobState'[k] = IF k = j THEN "CLAIMED" ELSE jobState[k]
        /\ \A k \in Job \ {j} : lease'[k] = lease[k]
        /\ UNCHANGED output
    BY <1>a, <1>2 DEF Assign, TypeOK
  <2> QED BY <1>2, <2>1 DEF Narrow, Live, Busy, isTerminalJobState, LeasedStates
<1> QED BY <1>a, <1>1, <1>2, ClaimOutcome

LEMMA FencedNarrow ==
  ASSUME SInv, ExTypeOK, NEW w \in Worker, J(w) \in Job, FencedStep(w)
  PROVE  Narrow
<1>a. TypeOK /\ LiveIsBusy
  BY DEF SInv, IInv
<1>b. jobState[J(w)] \in Busy /\ Live(J(w))
  BY <1>a, FencedHold DEF HeldBy, Holds, LiveIsBusy
<1>1. CASE Renewed(w)
  <2>1. \A k \in Job : Live(k)' => Live(k)
    BY <1>a, <1>b, <1>1 DEF Renewed, Renew, TypeOK, Live
  <2> QED BY <1>1, <2>1, FrameNarrow DEF Renewed, Renew, jobVars
<1>2. ASSUME NEW m \in ExecutorReports, Applied(w, m) PROVE Narrow
  <2>1. /\ \A k \in Job : jobState'[k] = IF k = J(w) THEN m.to ELSE jobState[k]
        /\ UNCHANGED output
    BY <1>a, <1>2 DEF Applied, Progress, TypeOK
  <2>2. CASE m.to \in ReleasingStates
    <3>1. \A k \in Job : lease'[k] = IF k = J(w) THEN NoLease ELSE lease[k]
      BY <1>a, <1>2, <2>2 DEF Applied, Progress, Release, TypeOK
    <3> QED BY <1>b, <2>1, <3>1 DEF Narrow, Live, NoLease, Busy, isTerminalJobState
  <2>3. CASE m.to \notin ReleasingStates
    <3>1. UNCHANGED lease
      BY <1>2, <2>3 DEF Applied, Progress, leaseVars
    <3>2. m.to \in Busy
      BY <2>3, ExecutorMoves DEF ReleasingStates, Busy
    <3> QED BY <1>b, <2>1, <3>1, <3>2 DEF Narrow, Live, Busy, isTerminalJobState
  <2> QED BY <2>2, <2>3
<1>3. CASE ReserveOutput(w, J(w), F(w), produced[w])
  <2>1. UNCHANGED <<jobState, lease>>
    BY <1>3 DEF ReserveOutput, jobVars, leaseVars
  <2>2. ASSUME NEW k \in Job, NEW c \in Content, output'[k][c] = "READY"
        PROVE  output[k][c] = "READY"
    BY <1>a, <1>3, <2>2 DEF ReserveOutput, Retire, TypeOK
  <2> QED BY <2>1, <2>2 DEF Narrow, Live
<1>4. CASE CompleteOutput(w, J(w), F(w), produced[w])
  <2>1. jobState' = [jobState EXCEPT ![J(w)] = "COMPLETED"] /\ Release(w, J(w), F(w), "COMPLETED")
    BY <1>b, <1>4 DEF CompleteOutput, Busy
  <2>2. \A k \in Job : /\ jobState'[k] = IF k = J(w) THEN "COMPLETED" ELSE jobState[k]
                       /\ lease'[k] = IF k = J(w) THEN NoLease ELSE lease[k]
                       /\ k # J(w) => output'[k] = output[k]
    BY <1>a, <1>4, <2>1 DEF CompleteOutput, Release, TypeOK
  <2> QED BY <1>b, <2>2 DEF Narrow, Live, NoLease, Busy, isTerminalJobState
<1> QED BY <1>1, <1>2, <1>3, <1>4 DEF FencedStep

LEMMA ControlPlaneNarrow ==
  ASSUME SInv, ControlPlane
  PROVE  Narrow
<1>a. TypeOK /\ LiveIsBusy
  BY DEF SInv, IInv
<1>1. ASSUME NEW u \in Worker, Enroll(u) PROVE Narrow
  BY <1>1, FrameNarrow DEF Enroll, jobVars, leaseVars, Live
<1>2. ASSUME NEW j \in Job, Queue(j) PROVE Narrow
  <2>1. /\ \A k \in Job : jobState'[k] = IF k = j THEN "QUEUED" ELSE jobState[k]
        /\ jobState[j] = "ABSENT" /\ ~Live(j) /\ UNCHANGED <<lease, output>>
    BY <1>a, <1>2 DEF Queue, leaseVars, TypeOK, LiveIsBusy, Busy
  <2> QED BY <2>1 DEF Narrow, Live, isTerminalJobState
<1>3. ASSUME NEW j \in Job, SourceChanges(j) PROVE Narrow
  BY <1>3, FrameNarrow DEF SourceChanges, leaseVars, Live
<1>4. ASSUME NEW j \in Job, RequestCancel(j) PROVE Narrow
  <2>1. ~isTerminalJobState(jobState[j]) /\ UNCHANGED <<lease, output>>
    BY <1>4 DEF RequestCancel
  <2>2. CASE jobState[j] = "QUEUED"
    <3>1. /\ \A k \in Job : jobState'[k] = IF k = j THEN "CANCELLED" ELSE jobState[k]
          /\ ~Live(j)
      BY <1>a, <1>4, <2>2 DEF RequestCancel, TypeOK, LiveIsBusy, Busy
    <3> QED BY <2>1, <3>1 DEF Narrow, Live
  <2>3. CASE jobState[j] # "QUEUED"
    <3>1. \A k \in Job : jobState'[k] = IF k = j THEN "CANCEL_REQUESTED" ELSE jobState[k]
      BY <1>a, <1>4, <2>3 DEF RequestCancel, TypeOK
    <3> QED BY <2>1, <3>1 DEF Narrow, Live, Busy
  <2> QED BY <2>2, <2>3
<1>5. CASE ExpireWorkersAndLeases
  BY <1>5 DEF ExpireWorkersAndLeases, Narrow, Expired, Uncancellable, Live, LeasedStates,
              isTerminalJobState
<1>6. CASE Tick
  BY <1>6, FrameNarrow DEF Tick, jobVars, Live
<1>7. ASSUME NEW c \in claims, ClaimRunsOn(c) PROVE Narrow
  BY <1>7, ClaimNarrow DEF ClaimRunsOn
<1> QED BY <1>1, <1>2, <1>3, <1>4, <1>5, <1>6, <1>7 DEF ControlPlane

LEMMA TableStepNarrow ==
  ASSUME SInv, ExTypeOK, NEW w \in Worker, Whereabouts(w), TableStep(w)
  PROVE  Narrow
<1>1. CASE UNCHANGED vars \/ Heartbeat(w) \/ BeginClaim(w)
  BY <1>1, FrameNarrow DEF vars, Heartbeat, BeginClaim, jobVars, leaseVars, Live
<1>2. ASSUME NEW c \in ClaimsOf(w), FinishClaim(c) PROVE Narrow
  BY <1>2, ClaimNarrow DEF ClaimsOf
<1>3. CASE Executing(w) /\ FencedStep(w)
  BY <1>3, FencedNarrow DEF Whereabouts
<1> QED BY <1>1, <1>2, <1>3 DEF TableStep

LEMMA TablesStep ==
  ASSUME MWInv, [MWNext]_mwVars
  PROVE  [Next]_vars /\ SInv' /\ Onward
<1>1. [Next]_vars /\ Narrow
  <2>1. CASE UNCHANGED mwVars
    <3>1. UNCHANGED vars
      BY <2>1 DEF mwVars
    <3> QED BY <3>1, FrameNarrow DEF vars, jobVars, leaseVars, Live
  <2>2. CASE ControlPlane
    BY <2>2, ControlPlaneIsNext, ControlPlaneNarrow DEF MWInv
  <2>3. ASSUME NEW w \in Worker, Executor(w) \/ Crash(w) PROVE [Next]_vars /\ Narrow
    BY <2>3, ExecutorSteps, TableStepIsNext, TableStepNarrow DEF MWInv, SInv, IInv, Knows
  <2> QED BY <2>1, <2>2, <2>3 DEF MWNext
<1>2. IInv
  BY DEF MWInv, SInv
<1>3. IInv'
  BY <1>1, <1>2, StepSafe
<1>4. GrantsGrow
  BY <1>1, <1>2, StepGrants DEF GrantsGrow
<1> QED BY <1>1, <1>3, <1>4, NarrowIsEnough DEF MWInv, SInv, Onward

-----------------------------------------------------------------------------
(* What a step leaves an executor that did not make it. *)

\* Who holds the lease afterwards held it before, and finds the job as it was
\* but for a cancel.
Stays(v) ==
  Holds(v, J(v), F(v))' =>
    /\ HeldBy(v)
    /\ jobState'[J(v)] \in {jobState[J(v)], "CANCEL_REQUESTED"}
    /\ progress'[J(v)] = progress[J(v)]

LEMMA HeldIsBusy ==
  ASSUME SInv, NEW v \in Worker, J(v) \in Job, HeldBy(v)
  PROVE  Live(J(v)) /\ jobState[J(v)] \in Busy
BY DEF SInv, LiveIsBusy, HeldBy, Holds

\* A row that keeps its lease, its percent and, but for a cancel, its state.
LEMMA RowStays ==
  ASSUME NEW v \in Worker, grant'[v] = grant[v],
         Holds(v, J(v), F(v))' =>
           /\ lease[J(v)].worker = lease'[J(v)].worker
           /\ lease[J(v)].fence = lease'[J(v)].fence
           /\ Live(J(v))
           /\ jobState'[J(v)] \in {jobState[J(v)], "CANCEL_REQUESTED"}
           /\ progress'[J(v)] = progress[J(v)]
  PROVE  Stays(v)
BY DEF Stays, HeldBy, Holds, Live, J, F

\* Steps that disturb no holder.
LEMMA RenewStays ==
  ASSUME SInv, NEW v \in Worker, J(v) \in Job, grant'[v] = grant[v],
         NEW u \in Worker, NEW j, NEW f, Renew(u, j, f)
  PROVE  Stays(v)
<1>1. UNCHANGED <<jobState, progress>> /\ Holds(u, j, f)
  BY DEF Renew, jobVars
<1>2. lease' = [lease EXCEPT ![j] = [worker |-> u, fence |-> f, left |-> TTL]]
  BY DEF Renew
<1>3. CASE j = J(v)
  <2>1. lease'[J(v)] = [worker |-> u, fence |-> f, left |-> TTL]
    BY <1>2, <1>3 DEF SInv, IInv, TypeOK
  <2>2. lease'[J(v)].worker = u /\ lease'[J(v)].fence = f
    BY <2>1
  <2> QED BY <1>1, <1>3, <2>2, RowStays DEF Holds
<1>4. CASE j # J(v)
  <2>1. lease'[J(v)] = lease[J(v)]
    BY <1>2, <1>4 DEF SInv, IInv, TypeOK
  <2> QED BY <1>1, <2>1, RowStays DEF Holds, Live, J
<1> QED BY <1>3, <1>4

LEMMA SameRowsStay ==
  ASSUME NEW v \in Worker, grant'[v] = grant[v], UNCHANGED <<lease, jobState, progress>>
  PROVE  Stays(v)
BY RowStays DEF Holds, Live, J

\* A claim of its own that runs on gives its job a larger token, or another job.
LEMMA ClaimStays ==
  ASSUME SInv, NEW v \in Worker, J(v) \in Job, grant'[v] = grant[v],
         NEW c \in claims, FinishClaim(c),
         c.worker = v => [worker |-> v, token |-> F(v)] \in Grants(J(v))
  PROVE  Stays(v)
<1>a. TypeOK /\ FencesGrow
  BY DEF SInv, IInv
<1>1. CASE UNCHANGED <<jobVars, leaseVars, output, workerState, readiness, silent>>
  BY <1>1, SameRowsStay DEF jobVars, leaseVars
<1>2. ASSUME NEW j \in Job, Assign(c.worker, j), jobState[j] \in {"QUEUED"} \cup LeasedStates
      PROVE  Stays(v)
  <2>1. /\ \A k \in Job \ {j} : /\ lease'[k] = lease[k] /\ jobState'[k] = jobState[k]
                               /\ progress'[k] = progress[k]
        /\ lease'[j].worker = c.worker /\ lease'[j].fence = lease[j].fence + 1
    BY <1>a, <1>2 DEF Assign, TypeOK
  <2>2. CASE j # J(v)
    BY <2>1, <2>2, RowStays DEF Holds, Live, J
  <2>3. CASE j = J(v) /\ c.worker # v
    BY <2>1, <2>3 DEF Stays, Holds, J
  <2>4. CASE j = J(v) /\ c.worker = v
    <3>1. PICK a \in attempts : a.job = j /\ a.fence = F(v)
      BY <2>4 DEF Grants, GrantsOf
    <3>2. F(v) <= lease[j].fence
      BY <1>a, <1>2, <3>1 DEF FencesGrow
    <3>3. F(v) \in Nat /\ lease[j].fence \in Nat
      BY <1>a, <3>1, LeaseRow DEF TypeOK, Attempt
    <3>4. lease'[j].fence # F(v)
      BY <2>1, <3>2, <3>3
    <3>5. J(v)' = j /\ F(v)' = F(v)
      BY <2>4 DEF J, F
    <3> QED BY <3>4, <3>5 DEF Stays, Holds
  <2> QED BY <2>2, <2>3, <2>4
<1> QED BY <1>a, <1>1, <1>2, ClaimOutcome

LEMMA ControlPlaneStays ==
  ASSUME SInv, NEW v \in Worker, J(v) \in Job, grant'[v] = grant[v], ControlPlane,
         Executing(v), Granted(v)
  PROVE  Stays(v)
<1>a. TypeOK
  BY DEF SInv, IInv
<1>1. ASSUME NEW u \in Worker, Enroll(u) PROVE Stays(v)
  BY <1>1, SameRowsStay DEF Enroll, jobVars, leaseVars
<1>2. ASSUME NEW j \in Job, Queue(j) PROVE Stays(v)
  <2>1. UNCHANGED <<lease, progress>> /\ jobState' = [jobState EXCEPT ![j] = "QUEUED"]
    BY <1>2 DEF Queue, leaseVars
  <2>2. Live(J(v)) => j # J(v)
    BY <1>2 DEF Queue, SInv, LiveIsBusy, Busy
  <2>3. j # J(v) => jobState'[J(v)] = jobState[J(v)]
    BY <1>a, <2>1 DEF TypeOK
  <2> QED BY <2>1, <2>2, <2>3, RowStays DEF Holds, Live, J
<1>3. ASSUME NEW j \in Job, SourceChanges(j) PROVE Stays(v)
  BY <1>3, SameRowsStay DEF SourceChanges, leaseVars
<1>4. ASSUME NEW j \in Job, RequestCancel(j) PROVE Stays(v)
  <2>1. UNCHANGED <<lease, progress>>
    BY <1>4 DEF RequestCancel
  <2>2. Live(J(v)) => jobState[J(v)] # "QUEUED"
    BY DEF SInv, LiveIsBusy, Busy
  <2>3. CASE jobState[j] = "QUEUED"
    <3>1. jobState' = [jobState EXCEPT ![j] = "CANCELLED"]
      BY <1>4, <2>3 DEF RequestCancel
    <3>2. Live(J(v)) => jobState'[J(v)] = jobState[J(v)]
      BY <1>a, <2>2, <2>3, <3>1 DEF TypeOK
    <3> QED BY <2>1, <3>2, RowStays DEF Holds, Live, J
  <2>4. CASE jobState[j] # "QUEUED"
    <3>1. jobState' = [jobState EXCEPT ![j] = "CANCEL_REQUESTED"]
      BY <1>4, <2>4 DEF RequestCancel
    <3>2. jobState'[J(v)] \in {jobState[J(v)], "CANCEL_REQUESTED"}
      BY <1>a, <3>1 DEF TypeOK
    <3> QED BY <2>1, <3>2, RowStays DEF Holds, Live, J
  <2> QED BY <2>3, <2>4
<1>5. CASE ExpireWorkersAndLeases
  <2>1. UNCHANGED <<lease, progress>>
    BY <1>5 DEF ExpireWorkersAndLeases
  <2>2. Live(J(v)) => jobState'[J(v)] = jobState[J(v)]
    BY <1>5 DEF ExpireWorkersAndLeases, Expired, Uncancellable
  <2> QED BY <2>1, <2>2, RowStays DEF Holds, Live, J
<1>6. CASE Tick
  <2>1. UNCHANGED <<jobState, progress>>
    BY <1>6 DEF Tick, jobVars
  <2>2. lease'[J(v)] = [worker |-> lease[J(v)].worker, fence |-> lease[J(v)].fence,
                        left |-> IF Live(J(v)) THEN lease[J(v)].left - 1 ELSE 0]
    BY <1>6 DEF Tick
  <2>3. /\ lease'[J(v)].worker = lease[J(v)].worker /\ lease'[J(v)].fence = lease[J(v)].fence
        /\ ~Live(J(v)) => lease'[J(v)].left = 0
    BY <2>2
  <2> QED BY <2>1, <2>3, RowStays DEF Holds, Live, J
<1>7. ASSUME NEW c \in claims, ClaimRunsOn(c) PROVE Stays(v)
  BY <1>7, ClaimStays DEF ClaimRunsOn, Granted
<1> QED BY <1>1, <1>2, <1>3, <1>4, <1>5, <1>6, <1>7 DEF ControlPlane

\* A statement of one worker leaves the lease of another alone.
LEMMA OtherStays ==
  ASSUME SInv, ExTypeOK, NEW v \in Worker, J(v) \in Job, grant'[v] = grant[v],
         NEW w \in Worker, w # v, Whereabouts(w), TableStep(w)
  PROVE  Stays(v)
<1>a. TypeOK
  BY DEF SInv, IInv
<1>b. ASSUME NEW j, lease'[j].worker # v \/ lease'[j].left = 0,
             \A k \in Job : k # j => lease'[k] = lease[k] /\ jobState'[k] = jobState[k]
                                     /\ progress'[k] = progress[k]
      PROVE  Stays(v)
  <2>1. CASE j = J(v)
    BY <1>b, <2>1 DEF Stays, Holds, Live, J
  <2>2. CASE j # J(v)
    BY <1>b, <2>2, RowStays DEF Holds, Live, J
  <2> QED BY <2>1, <2>2
<1>1. CASE UNCHANGED vars \/ Heartbeat(w) \/ BeginClaim(w)
  BY <1>1, SameRowsStay DEF vars, Heartbeat, BeginClaim, jobVars, leaseVars
<1>2. ASSUME NEW c \in ClaimsOf(w), FinishClaim(c) PROVE Stays(v)
  BY <1>2, ClaimStays DEF ClaimsOf
<1>3. CASE Executing(w) /\ FencedStep(w)
  <2>a. J(w) \in Job /\ lease[J(w)].worker = w
    BY <1>3, FencedHold DEF Whereabouts, HeldBy, Holds
  <2>1. CASE Renewed(w)
    BY <2>1, RenewStays DEF Renewed
  <2>2. ASSUME NEW m \in ExecutorReports, Applied(w, m) PROVE Stays(v)
    <3>1. lease' = lease \/ lease' = [lease EXCEPT ![J(w)] = NoLease]
      BY <2>2 DEF Applied, Progress, Release, leaseVars
    <3>2. lease'[J(w)].worker # v \/ lease'[J(w)].left = 0
      BY <1>a, <2>a, <3>1 DEF TypeOK, NoLease
    <3>3. \A k \in Job : k # J(w) => lease'[k] = lease[k] /\ jobState'[k] = jobState[k]
                                     /\ progress'[k] = progress[k]
      BY <1>a, <2>2, <3>1 DEF Applied, Progress, TypeOK
    <3> QED BY <1>b, <3>2, <3>3
  <2>3. CASE ReserveOutput(w, J(w), F(w), produced[w])
    BY <2>3, SameRowsStay DEF ReserveOutput, jobVars, leaseVars
  <2>4. CASE CompleteOutput(w, J(w), F(w), produced[w])
    <3>1. lease' = lease \/ lease' = [lease EXCEPT ![J(w)] = NoLease]
      BY <2>4 DEF CompleteOutput, Release, leaseVars
    <3>2. lease'[J(w)].worker # v \/ lease'[J(w)].left = 0
      BY <1>a, <2>a, <3>1 DEF TypeOK, NoLease
    <3>3. \A k \in Job : k # J(w) => lease'[k] = lease[k] /\ jobState'[k] = jobState[k]
                                     /\ progress'[k] = progress[k]
      BY <1>a, <2>4, <3>1 DEF CompleteOutput, TypeOK
    <3> QED BY <1>b, <3>2, <3>3
  <2> QED BY <1>3, <2>1, <2>2, <2>3, <2>4 DEF FencedStep
<1> QED BY <1>1, <1>2, <1>3 DEF TableStep

\* A grant is never taken back.
LEMMA GrantStays ==
  ASSUME Onward, NEW v \in Worker, Whereabouts(v), Granted(v), grant'[v] = grant[v],
         Executing(v)' => Executing(v)
  PROVE  Granted(v)'
<1> SUFFICES ASSUME Executing(v)' PROVE ([worker |-> v, token |-> F(v)] \in Grants(J(v)))'
  BY DEF Granted
<1>1. J(v) \in Job /\ [worker |-> v, token |-> F(v)] \in Grants(J(v))
  BY DEF Whereabouts, Granted
<1>2. J(v)' = J(v) /\ F(v)' = F(v)
  BY DEF J, F
<1>3. PICK k \in Job : k = J(v)
  BY <1>1
<1>4. [worker |-> v, token |-> F(v)] \in Grants(k)'
  <2>1. Grants(k) \subseteq Grants(k)'
    BY DEF Onward, GrantsGrow
  <2>2. [worker |-> v, token |-> F(v)] \in Grants(k)
    BY <1>1, <1>3
  <2> QED BY <2>1, <2>2
<1>5. k = J(v)'
  BY <1>2, <1>3
<1> QED BY <1>2, <1>4, <1>5 DEF Grants

\* An executor that makes no step goes on knowing its job.
LEMMA BystanderKnows ==
  ASSUME SInv, Onward, NEW v \in Worker, Knows(v), Executing(v) => Stays(v),
         grant'[v] = grant[v], doing'[v] = doing[v], stage'[v] = stage[v],
         result'[v] = result[v]
  PROVE  Knows(v)'
<1>1. J(v)' = J(v)
  BY DEF J
<1>2. Whereabouts(v)'
  BY <1>1 DEF Knows, Whereabouts, Executing
<1>3. Believes(v)'
  BY <1>1 DEF Knows, Whereabouts, Believes, Onward, EndsStay, isTerminalJobState
<1>4. Known(v)'
  BY <1>1 DEF Knows, Whereabouts, Known, Executing, HeldBy, Stays, At, Ahead
<1>5. Granted(v)'
  <2>1. Executing(v)' => Executing(v)
    BY DEF Executing
  <2> QED BY <2>1, GrantStays DEF Knows
<1> QED BY <1>2, <1>3, <1>4, <1>5 DEF Knows

-----------------------------------------------------------------------------
(* The executor that makes the step. *)

\* What a step does to the executor of w, and to no other.
Apart(w) ==
  \A v \in Worker : v # w =>
    /\ doing'[v] = doing[v] /\ stage'[v] = stage[v]
    /\ grant'[v] = grant[v] /\ result'[v] = result[v]

Becomes(w, d, s, r) ==
  /\ ExTypeOK' /\ Apart(w) /\ grant'[w] = grant[w]
  /\ doing'[w] = d /\ stage'[w] = s /\ result'[w] = r

LEMMA GoesOn ==
  ASSUME ExTypeOK, NEW w \in Worker, NEW d \in Doings, Goes(w, d)
  PROVE  Becomes(w, d, stage[w], result[w])
BY DEF Goes, ExTypeOK, Apart, Becomes

LEMMA EndsWith ==
  ASSUME ExTypeOK, NEW w \in Worker, NEW r \in Results, Ends(w, r)
  PROVE  Becomes(w, "IDLE", stage[w], r)
BY DEF Ends, ExTypeOK, Apart, Becomes, Doings

LEMMA WorksOn ==
  ASSUME ExTypeOK, NEW w \in Worker, NEW s \in Stages, Works(w, s)
  PROVE  Becomes(w, "WORK", s, result[w])
BY DEF Works, ExTypeOK, Apart, Becomes, Doings

LEMMA Same ==
  ASSUME ExTypeOK, NEW w \in Worker, UNCHANGED <<doing, stage, grant, produced, result>>
  PROVE  Becomes(w, doing[w], stage[w], result[w])
BY DEF ExTypeOK, Apart, Becomes

\* Calls after which the executor may be one stage behind.
Doubtful == {"ADVANCE", "CONFIRM", "CANCEL_NEXT", "REPORT"}

Fits(d, s) ==
  /\ d \in {"ADVANCE", "CONFIRM", "CANCEL_NEXT"} => s \in Leaving
  /\ d \in {"RENEW_BEFORE", "RENEW_AFTER"} => s = "OCR"
  /\ d \in {"SESSION", "COMPLETE"} => s = "UPLOADING"

\* Going on with the same stage, and ending.
LEMMA OwnKnows ==
  ASSUME SInv, Onward, NEW w \in Worker, Knows(w),
         NEW d, NEW r, Becomes(w, d, stage[w], r),
         d \notin {"IDLE", "CLAIM", "CLAIMING"} =>
           /\ Executing(w) /\ Stays(w) /\ Fits(d, stage[w])
           /\ d \in Doubtful \/ doing[w] \notin Doubtful,
         \/ r = result[w]
         \/ r \notin {"COMPLETED", "CANCELLED"}
         \/ J(w) \in Job /\ jobState'[J(w)] = r
  PROVE  ExTypeOK' /\ Apart(w) /\ Knows(w)'
<1>1. /\ J(w)' = J(w) /\ F(w)' = F(w)
      /\ doing'[w] = d /\ stage'[w] = stage[w] /\ result'[w] = r
  BY DEF J, F, Becomes
<1>2. Whereabouts(w)'
  BY <1>1 DEF Knows, Whereabouts, Executing, Fits
<1>3. Believes(w)'
  BY <1>1 DEF Knows, Whereabouts, Believes, Onward, EndsStay, isTerminalJobState
<1>4. Known(w)'
  <2> SUFFICES ASSUME Executing(w)', HeldBy(w)'
               PROVE  At(w, stage[w])' \/ Ahead(w)'
    BY <1>1 DEF Known
  <2>1. /\ Executing(w) /\ Stays(w)
        /\ d \in Doubtful \/ doing[w] \notin Doubtful
    BY <1>1 DEF Executing
  <2>2. /\ HeldBy(w)
        /\ jobState'[J(w)] \in {jobState[J(w)], "CANCEL_REQUESTED"}
        /\ progress'[J(w)] = progress[J(w)]
    BY <1>1, <2>1 DEF Stays, HeldBy
  <2>3. At(w, stage[w]) \/ Ahead(w)
    BY <2>1, <2>2 DEF Knows, Known
  <2>4. CASE At(w, stage[w])
    BY <1>1, <2>2, <2>4 DEF At
  <2>5. CASE Ahead(w)
    BY <1>1, <2>1, <2>2, <2>5 DEF Ahead, At, Doubtful
  <2> QED BY <2>3, <2>4, <2>5
<1>5. Granted(w)'
  BY <1>1, GrantStays DEF Knows, Executing, Becomes
<1> QED BY <1>2, <1>3, <1>4, <1>5 DEF Knows, Becomes

\* Statements after which w holds nothing, or the same.
LEMMA OwnStays ==
  ASSUME SInv, ExTypeOK, NEW w \in Worker, J(w) \in Job, grant'[w] = grant[w],
         \/ UNCHANGED vars
         \/ Renewed(w)
         \/ ReserveOutput(w, J(w), F(w), produced[w])
         \/ CompleteOutput(w, J(w), F(w), produced[w])
         \/ \E m \in ExecutorReports : Applied(w, m) /\ m.to \in ReleasingStates
  PROVE  Stays(w)
<1>a. lease' = [lease EXCEPT ![J(w)] = NoLease] => Stays(w)
  BY DEF SInv, IInv, TypeOK, NoLease, Stays, Holds, Live, J
<1>1. CASE UNCHANGED vars
  BY <1>1, SameRowsStay DEF vars, jobVars, leaseVars
<1>2. CASE Renewed(w)
  BY <1>2, RenewStays DEF Renewed
<1>3. CASE ReserveOutput(w, J(w), F(w), produced[w])
  BY <1>3, SameRowsStay DEF ReserveOutput, jobVars, leaseVars
<1>4. CASE CompleteOutput(w, J(w), F(w), produced[w])
  <2>1. HeldBy(w)
    BY <1>4 DEF CompleteOutput, HeldBy
  <2>2. jobState[J(w)] \notin {"COMPLETED", "FAILED_FINAL", "CANCELLED", "DELETING", "DELETED"}
    BY <2>1, HeldIsBusy DEF Busy
  <2> QED BY <1>4, <1>a, <2>2 DEF CompleteOutput, Release
<1>5. ASSUME NEW m \in ExecutorReports, Applied(w, m), m.to \in ReleasingStates PROVE Stays(w)
  BY <1>5, <1>a DEF Applied, Progress, Release
<1> QED BY <1>1, <1>2, <1>3, <1>4, <1>5

\* A report that is applied leaves the job where it says.
LEMMA AppliedReport ==
  ASSUME SInv, NEW w \in Worker, J(w) \in Job, NEW m \in ExecutorReports, Applied(w, m)
  PROVE  jobState'[J(w)] = m.to /\ progress'[J(w)] = m.percent /\ jobState[J(w)] = m.from
BY DEF Applied, Progress, ProgressApplies, SInv, IInv, TypeOK

-----------------------------------------------------------------------------
(* One lemma per call. *)

Goal(w) == ExTypeOK' /\ Apart(w) /\ Knows(w)'

LEMMA PollKnows ==
  ASSUME SInv, Onward, ExTypeOK, NEW w \in Worker, Knows(w), Poll(w)
  PROVE  Goal(w)
<1>1. Becomes(w, "CLAIM", stage[w], result[w])
  BY GoesOn DEF Poll, Doings
<1> QED BY <1>1, OwnKnows DEF Goal

\* The assignment is the row the claim wrote.
LEMMA ClaimKnows ==
  ASSUME SInv, Onward, ExTypeOK, NEW w \in Worker, Knows(w), ClaimJob(w) \/ ClaimAnswered(w)
  PROVE  Goal(w)
<1>a. TypeOK
  BY DEF SInv, IInv
<1>1. ASSUME NEW d \in {"IDLE", "CLAIMING"}, Goes(w, d) PROVE Goal(w)
  <2>1. Becomes(w, d, stage[w], result[w])
    BY <1>1, GoesOn DEF Doings
  <2> QED BY <2>1, OwnKnows DEF Goal
<1>2. CASE ~Goes(w, "IDLE") /\ ~Goes(w, "CLAIMING")
  <2>1. ClaimAnswered(w)
    BY <1>2 DEF ClaimJob
  <2>2. PICK c \in ClaimsOf(w) : FinishClaim(c)
    BY <1>2, <2>1 DEF ClaimAnswered
  <2>3. PICK j \in Job : /\ lease'[j] # lease[j]
                         /\ grant' = [grant EXCEPT ![w] = [job |-> j, fence |-> lease'[j].fence]]
    BY <1>2, <2>1 DEF ClaimAnswered
  <2>4. /\ doing' = [doing EXCEPT ![w] = "ADVANCE"]
        /\ stage' = [stage EXCEPT ![w] = "CLAIMED"]
        /\ result' = [result EXCEPT ![w] = "NONE"]
        /\ UNCHANGED produced
    BY <1>2, <2>1 DEF ClaimAnswered
  <2>5. c \in claims /\ c.worker = w
    BY <2>2 DEF ClaimsOf
  <2>6. PICK k \in Job : Assign(w, k)
    BY <1>a, <2>2, <2>3, <2>5, ClaimOutcome DEF leaseVars
  <2>7. j = k
    BY <1>a, <2>3, <2>6 DEF Assign, TypeOK
  <2>8. /\ jobState'[j] = "CLAIMED" /\ progress'[j] = 0
        /\ lease'[j].fence = lease[j].fence + 1
    BY <1>a, <2>6, <2>7 DEF Assign, TypeOK
  <2>9. lease'[j].fence \in Nat
    BY <1>a, <2>8, LeaseRow
  <2>10. ExTypeOK' /\ Apart(w)
    BY <2>3, <2>4, <2>9 DEF ExTypeOK, Doings, Stages, Results, Apart
  <2>11. /\ J(w)' = j /\ F(w)' = lease'[j].fence
         /\ doing'[w] = "ADVANCE" /\ stage'[w] = "CLAIMED" /\ result'[w] = "NONE"
    BY <2>3, <2>4 DEF ExTypeOK, J, F
  <2>12. Whereabouts(w)' /\ Believes(w)'
    BY <2>11 DEF Whereabouts, Executing, Believes, Leaving
  <2>13. Percent["CLAIMED"] = 0
    BY DEF Percent
  <2>14. Known(w)'
    BY <2>8, <2>11, <2>13 DEF Known, At
  <2>15. Granted(w)'
    <3> DEFINE new == [job |-> j, worker |-> w, fence |-> lease[j].fence + 1, outcome |-> "OPEN"]
    <3>1. new \in attempts' /\ new.job = j
      BY <2>6, <2>7 DEF Assign
    <3>2. [worker |-> new.worker, token |-> new.fence] \in Grants(j)'
      BY <3>1 DEF Grants, GrantsOf
    <3>3. [worker |-> w, token |-> lease'[j].fence] \in Grants(j)'
      BY <2>8, <3>2
    <3> QED BY <2>11, <3>3 DEF Granted, Grants
  <2> QED BY <2>10, <2>12, <2>14, <2>15 DEF Goal, Knows
<1> QED BY <1>1, <1>2

\* An applied transition whose answer came, and one whose answer did not.
LEMMA TransitionKnows ==
  ASSUME SInv, Onward, ExTypeOK, NEW w \in Worker, Knows(w), Transition(w)
  PROVE  Goal(w)
<1> DEFINE s == stage[w]
<1>a. s \in Leaving /\ J(w) \in Job /\ doing[w] = "ADVANCE" /\ Executing(w)
  BY DEF Transition, Knows, Whereabouts, Executing
<1>b. After[s] \in Stages /\ Advance(s) \in ExecutorReports
  BY <1>a, NextStage, ReportsOfExecutors
<1>1. CASE Applied(w, Advance(s)) /\ Accepted(w, s)
  <2>1. jobState'[J(w)] = After[s] /\ progress'[J(w)] = Percent[After[s]]
    BY <1>1, <1>a, <1>b, AppliedReport, Moved
  <2>2. PICK d \in {"WORK", "RENEW_BEFORE", "SESSION"} :
           Becomes(w, d, After[s], result[w]) /\ Fits(d, After[s])
    <3>1. CASE s = "CLAIMED"
      <4>1. Works(w, "DOWNLOADING")
        BY <1>1, <3>1 DEF Accepted
      <4>2. Becomes(w, "WORK", "DOWNLOADING", result[w])
        BY <4>1, WorksOn DEF Stages
      <4> QED BY <3>1, <4>2, StageTables DEF Fits
    <3>2. CASE s = "DOWNLOADING"
      <4>1. /\ doing' = [doing EXCEPT ![w] = "RENEW_BEFORE"]
            /\ stage' = [stage EXCEPT ![w] = "OCR"]
            /\ UNCHANGED <<grant, beat, produced, result>>
        BY <1>1, <3>2 DEF Accepted
      <4>2. Becomes(w, "RENEW_BEFORE", "OCR", result[w])
        BY <4>1 DEF ExTypeOK, Doings, Stages, Apart, Becomes
      <4> QED BY <3>2, <4>2, StageTables DEF Fits
    <3>3. CASE s = "OCR"
      <4>1. /\ doing' = [doing EXCEPT ![w] = "SESSION"]
            /\ stage' = [stage EXCEPT ![w] = "UPLOADING"]
            /\ UNCHANGED <<grant, beat, produced, result>>
        BY <1>1, <3>3 DEF Accepted
      <4>2. Becomes(w, "SESSION", "UPLOADING", result[w])
        BY <4>1 DEF ExTypeOK, Doings, Stages, Apart, Becomes
      <4> QED BY <3>3, <4>2, StageTables DEF Fits
    <3> QED BY <1>a, <3>1, <3>2, <3>3 DEF Leaving
  <2>3. J(w)' = J(w) /\ stage'[w] = After[s] /\ doing'[w] = d /\ result'[w] = result[w]
    BY <2>2 DEF Becomes, J
  <2>4. Whereabouts(w)'
    BY <1>a, <2>2, <2>3 DEF Whereabouts, Fits
  <2>5. Known(w)'
    BY <2>1, <2>3 DEF Known, At
  <2>6. Believes(w)'
    BY <2>3 DEF Knows, Whereabouts, Believes, Onward, EndsStay, isTerminalJobState
  <2>7. Granted(w)'
    BY <1>a, <2>2, GrantStays DEF Knows, Becomes
  <2> QED BY <2>2, <2>4, <2>5, <2>6, <2>7 DEF Goal, Knows, Becomes
<1>2. CASE Rejected(w, Advance(s)) /\ OnRejected(w)
  <2>1. Becomes(w, "CONFIRM", s, result[w])
    BY <1>2, GoesOn DEF OnRejected, Doings
  <2>2. Stays(w)
    BY <1>2, <1>a, <2>1, OwnStays DEF Rejected, Becomes
  <2> QED BY <1>a, <2>1, <2>2, OwnKnows DEF Goal, Fits, Doubtful
<1>3. CASE UNCHANGED vars /\ Goes(w, "REPORT")
  <2>1. Becomes(w, "REPORT", s, result[w])
    BY <1>3, GoesOn DEF Doings
  <2>2. Stays(w)
    BY <1>3, <1>a, <2>1, OwnStays DEF Becomes
  <2> QED BY <1>a, <2>1, <2>2, OwnKnows DEF Goal, Fits, Doubtful
<1>4. CASE /\ Applied(w, Advance(s))
           /\ Goes(w, "REPORT") \/ UNCHANGED <<doing, stage, grant, beat, produced, result>>
  <2>1. jobState'[J(w)] = After[s] /\ progress'[J(w)] = Percent[After[s]]
    BY <1>4, <1>a, <1>b, AppliedReport, Moved
  <2>2. PICK d \in {"REPORT", "ADVANCE"} : Becomes(w, d, s, result[w])
    BY <1>4, <1>a, GoesOn, Same DEF Doings
  <2>3. J(w)' = J(w) /\ stage'[w] = s /\ doing'[w] = d /\ result'[w] = result[w]
    BY <2>2 DEF Becomes, J
  <2>4. Whereabouts(w)'
    BY <1>a, <2>3 DEF Whereabouts
  <2>5. Known(w)'
    BY <1>a, <2>1, <2>3 DEF Known, Ahead, At
  <2>6. Believes(w)'
    BY <2>3 DEF Knows, Whereabouts, Believes, Onward, EndsStay, isTerminalJobState
  <2>7. Granted(w)'
    BY <1>a, <2>2, GrantStays DEF Knows, Becomes
  <2> QED BY <2>2, <2>4, <2>5, <2>6, <2>7 DEF Goal, Knows, Becomes
<1> QED BY <1>1, <1>2, <1>3, <1>4 DEF Transition, Unanswered

\* The renewals: after a lost answer of a transition, and around the pipeline.
LEMMA ConfirmKnows ==
  ASSUME SInv, Onward, ExTypeOK, NEW w \in Worker, Knows(w), Confirm(w)
  PROVE  Goal(w)
<1>a. stage[w] \in Leaving /\ J(w) \in Job /\ doing[w] = "CONFIRM" /\ Executing(w)
  BY DEF Confirm, Knows, Whereabouts, Executing
<1>1. UNCHANGED vars \/ Renewed(w)
  BY DEF Confirm, Lost, Unanswered
<1>2. PICK d \in {"CANCEL_NEXT", "REPORT", "CONFIRM", "IDLE"}, r \in {result[w], "LEASE_LOST"} :
         Becomes(w, d, stage[w], r)
  BY <1>a, GoesOn, EndsWith, Same DEF Confirm, NotCancelled, Unanswered, Doings, Results
<1>3. Stays(w)
  BY <1>a, <1>1, <1>2, OwnStays DEF Becomes
<1> QED BY <1>a, <1>2, <1>3, OwnKnows DEF Goal, Fits, Doubtful

LEMMA RenewStepKnows ==
  ASSUME SInv, Onward, ExTypeOK, NEW w \in Worker, Knows(w), RenewStep(w)
  PROVE  Goal(w)
<1>a. /\ stage[w] = "OCR" /\ J(w) \in Job /\ Executing(w)
      /\ doing[w] \in {"RENEW_BEFORE", "RENEW_AFTER"}
  BY DEF RenewStep, Knows, Whereabouts, Executing
<1>1. UNCHANGED vars \/ Renewed(w)
  BY DEF RenewStep, Lost, Unanswered
<1>2. PICK d \in {"CANCEL", "CANCEL_NEXT", "WORK", "ADVANCE", "REPORT", "IDLE", doing[w]},
           r \in {result[w], "LEASE_LOST"} : Becomes(w, d, stage[w], r)
  BY <1>a, GoesOn, EndsWith, WorksOn, Same
     DEF RenewStep, Unanswered, Doings, Results, Stages
<1>3. Stays(w)
  BY <1>a, <1>1, <1>2, OwnStays DEF Becomes
<1> QED BY <1>a, <1>2, <1>3, OwnKnows DEF Goal, Fits, Doubtful, Leaving

\* An acknowledged cancel ends the job.
LEMMA AcknowledgeKnows ==
  ASSUME SInv, Onward, ExTypeOK, NEW w \in Worker, Knows(w), Acknowledge(w)
  PROVE  Goal(w)
<1> DEFINE m == CancelMove(w)
<1>a. /\ doing[w] \in {"CANCEL", "CANCEL_NEXT"} /\ J(w) \in Job /\ Executing(w)
      /\ doing[w] = "CANCEL_NEXT" => stage[w] \in Leaving
      /\ stage[w] \in Stages
  BY DEF Acknowledge, Knows, Whereabouts, Executing, ExTypeOK
<1>b. m \in ExecutorReports /\ m.to = "CANCELLED" /\ m.to \in ReleasingStates
  BY <1>a, ReportsOfExecutors, NextStage, Moved DEF CancelMove, ReleasingStates
<1>1. CASE Applied(w, m) /\ Ends(w, "CANCELLED")
  <2>1. Becomes(w, "IDLE", stage[w], "CANCELLED")
    BY <1>1, EndsWith DEF Results
  <2>2. jobState'[J(w)] = "CANCELLED"
    BY <1>1, <1>a, <1>b, AppliedReport
  <2> QED BY <1>a, <2>1, <2>2, OwnKnows DEF Goal
<1>2. CASE Ends(w, "LEASE_LOST")
  <2>1. Becomes(w, "IDLE", stage[w], "LEASE_LOST")
    BY <1>2, EndsWith DEF Results
  <2> QED BY <2>1, OwnKnows DEF Goal
<1>3. CASE /\ UNCHANGED vars \/ Applied(w, m)
           /\ Goes(w, "REPORT") \/ UNCHANGED <<doing, stage, grant, beat, produced, result>>
  <2>1. PICK d \in {"REPORT", doing[w]} : Becomes(w, d, stage[w], result[w])
    BY <1>3, GoesOn, Same DEF Doings
  <2>2. Stays(w)
    BY <1>3, <1>a, <1>b, <2>1, OwnStays DEF Becomes
  <2> QED BY <1>a, <2>1, <2>2, OwnKnows DEF Goal, Fits, Doubtful
<1> QED BY <1>1, <1>2, <1>3 DEF Acknowledge, Unanswered

LEMMA ReportKnows ==
  ASSUME SInv, Onward, ExTypeOK, NEW w \in Worker, Knows(w), Report(w) \/ Crash(w)
  PROVE  Goal(w)
<1>1. PICK r \in {"FAILED", "NONE"} : Becomes(w, "IDLE", stage[w], r)
  BY EndsWith DEF Report, Crash, Results
<1> QED BY <1>1, OwnKnows DEF Goal

\* The phases.
LEMMA PhaseKnows ==
  ASSUME SInv, Onward, ExTypeOK, NEW w \in Worker, Knows(w),
         Beat(w) \/ EndPhase(w) \/ BreakPhase(w)
  PROVE  Goal(w)
<1>a. doing[w] = "WORK" /\ J(w) \in Job /\ Executing(w)
  BY DEF Beat, Beating, EndPhase, BreakPhase, Knows, Whereabouts, Executing
<1>1. UNCHANGED vars \/ Renewed(w)
  BY DEF Beat, Lost, Unanswered, EndPhase, BreakPhase
<1>2. \E d \in Doings, r \in {result[w], "LEASE_LOST", "FAILED"} :
         Becomes(w, d, stage[w], r) /\ (d # "IDLE" => r = result[w] /\ Fits(d, stage[w]))
  <2>1. CASE Beat(w)
    <3>1. UNCHANGED <<doing, stage, grant, produced, result>>
      BY <2>1 DEF Beat, Unanswered, Heard
    <3> QED BY <1>a, <3>1, Same DEF Doings, Fits
  <2>2. CASE EndPhase(w)
    <3>1. CASE Ends(w, "LEASE_LOST")
      BY <3>1, EndsWith DEF Doings, Results
    <3>2. CASE Goes(w, "REPORT") \/ Goes(w, "CANCEL")
      BY <3>2, GoesOn DEF Doings, Fits
    <3>3. CASE stage[w] = "DOWNLOADING" /\ Goes(w, "ADVANCE")
      BY <3>3, GoesOn DEF Doings, Fits, Leaving
    <3>4. CASE /\ stage[w] = "OCR"
               /\ \E c \in Content : produced' = [produced EXCEPT ![w] = c]
               /\ doing' = [doing EXCEPT ![w] = "RENEW_AFTER"]
               /\ UNCHANGED <<stage, grant, beat, result>>
      <4>1. Becomes(w, "RENEW_AFTER", stage[w], result[w])
        BY <3>4 DEF ExTypeOK, Doings, Apart, Becomes
      <4> QED BY <3>4, <4>1 DEF Doings, Fits
    <3>5. CASE stage[w] = "UPLOADING" /\ Goes(w, "COMPLETE")
      BY <3>5, GoesOn DEF Doings, Fits
    <3> QED BY <2>2, <3>1, <3>2, <3>3, <3>4, <3>5 DEF EndPhase
  <2>3. CASE BreakPhase(w)
    BY <2>3, GoesOn, EndsWith DEF BreakPhase, Doings, Results, Fits
  <2> QED BY <2>1, <2>2, <2>3
<1>3. PICK d \in Doings, r \in {result[w], "LEASE_LOST", "FAILED"} :
         Becomes(w, d, stage[w], r) /\ (d # "IDLE" => r = result[w] /\ Fits(d, stage[w]))
  BY <1>2
<1>4. Stays(w)
  BY <1>a, <1>1, <1>3, OwnStays DEF Becomes
<1> QED BY <1>a, <1>3, <1>4, OwnKnows DEF Goal, Doubtful

LEMMA SessionKnows ==
  ASSUME SInv, Onward, ExTypeOK, NEW w \in Worker, Knows(w), Session(w)
  PROVE  Goal(w)
<1>a. /\ stage[w] = "UPLOADING" /\ J(w) \in Job /\ Executing(w) /\ doing[w] = "SESSION"
  BY DEF Session, Knows, Whereabouts, Executing
<1>1. UNCHANGED vars \/ ReserveOutput(w, J(w), F(w), produced[w])
  BY DEF Session, Unanswered
<1>2. PICK d \in {"WORK", "IDLE", "SESSION"}, r \in {result[w], "FAILED"} :
         Becomes(w, d, stage[w], r)
  BY <1>a, EndsWith, WorksOn, Same DEF Session, Unanswered, Results, Stages
<1>3. Stays(w)
  BY <1>a, <1>1, <1>2, OwnStays DEF Becomes
<1> QED BY <1>a, <1>2, <1>3, OwnKnows DEF Goal, Fits, Doubtful

\* A completion that answers means a completed job: the lease excludes ended
\* jobs, and a published output a job that is not completed.
LEMMA CompleteKnows ==
  ASSUME SInv, Onward, ExTypeOK, NEW w \in Worker, Knows(w), Complete(w)
  PROVE  Goal(w)
<1> DEFINE done == CompleteOutput(w, J(w), F(w), produced[w])
<1>a. /\ stage[w] = "UPLOADING" /\ J(w) \in Job /\ Executing(w) /\ doing[w] = "COMPLETE"
  BY DEF Complete, Knows, Whereabouts, Executing
<1>1. CASE done /\ Ends(w, "COMPLETED")
  <2>1. HeldBy(w)
    BY <1>1 DEF CompleteOutput, HeldBy
  <2>2. jobState[J(w)] \notin {"COMPLETED", "FAILED_FINAL", "CANCELLED", "DELETING", "DELETED"}
    BY <1>a, <2>1, HeldIsBusy DEF Busy
  <2>3. jobState'[J(w)] = "COMPLETED"
    BY <1>1, <1>a, <2>2 DEF CompleteOutput, SInv, IInv, TypeOK
  <2>4. Becomes(w, "IDLE", stage[w], "COMPLETED")
    BY <1>1, EndsWith DEF Results
  <2> QED BY <1>a, <2>3, <2>4, OwnKnows DEF Goal
<1>2. CASE output[J(w)][produced[w]] = "READY" /\ Ends(w, "COMPLETED") /\ UNCHANGED vars
  <2>1. produced[w] \in Content
    BY DEF ExTypeOK
  <2>2. jobState[J(w)] = "COMPLETED"
    BY <1>a, <1>2, <2>1 DEF SInv, PublishedIsCompleted
  <2>3. jobState'[J(w)] = "COMPLETED"
    BY <1>2, <2>2 DEF vars, jobVars
  <2>4. Becomes(w, "IDLE", stage[w], "COMPLETED")
    BY <1>2, EndsWith DEF Results
  <2> QED BY <1>a, <2>3, <2>4, OwnKnows DEF Goal
<1>3. CASE Ends(w, "FAILED")
  <2>1. Becomes(w, "IDLE", stage[w], "FAILED")
    BY <1>3, EndsWith DEF Results
  <2> QED BY <2>1, OwnKnows DEF Goal
<1>4. CASE done /\ UNCHANGED <<doing, stage, grant, beat, produced, result>>
  <2>1. Becomes(w, "COMPLETE", stage[w], result[w])
    BY <1>4, <1>a, Same
  <2>2. Stays(w)
    BY <1>4, <1>a, <2>1, OwnStays DEF Becomes
  <2> QED BY <1>a, <2>1, <2>2, OwnKnows DEF Goal, Fits, Doubtful
<1> QED BY <1>1, <1>2, <1>3, <1>4 DEF Complete, Unanswered

-----------------------------------------------------------------------------
LEMMA MWInitInv == MWInit => MWInv
<1> SUFFICES ASSUME MWInit PROVE MWInv
  OBVIOUS
<1>1. IInv
  BY InitIInv DEF MWInit
<1>2. ExTypeOK
  BY DEF MWInit, ExTypeOK, Doings, Stages, Results, AnyJob
<1>3. ASSUME NEW w \in Worker PROVE Knows(w)
  BY DEF MWInit, Knows, Whereabouts, Granted, Known, Believes, Executing
<1>4. LiveIsBusy /\ PublishedIsCompleted
  BY DEF MWInit, Init, LiveIsBusy, PublishedIsCompleted, Live, NoLease
<1> QED BY <1>1, <1>2, <1>3, <1>4 DEF MWInv, SInv

LEMMA MWStep == MWInv /\ [MWNext]_mwVars => MWInv'
<1> SUFFICES ASSUME MWInv, [MWNext]_mwVars PROVE MWInv'
  OBVIOUS
<1>a. SInv /\ SInv' /\ Onward
  BY TablesStep DEF MWInv
<1>b. ExTypeOK /\ \A w \in Worker : Knows(w)
  BY DEF MWInv
<1>1. ASSUME NEW w \in Worker, Executor(w) \/ Crash(w) PROVE MWInv'
  <2>1. Goal(w)
    BY <1>a, <1>b, <1>1, PollKnows, ClaimKnows, TransitionKnows, ConfirmKnows, RenewStepKnows,
       AcknowledgeKnows, ReportKnows, PhaseKnows, SessionKnows, CompleteKnows DEF Executor
  <2>2. TableStep(w)
    BY <1>b, <1>1, ExecutorSteps DEF Knows
  <2>3. ASSUME NEW v \in Worker, v # w PROVE Knows(v)'
    <3>1. Executing(v) => Stays(v)
      BY <1>a, <1>b, <2>1, <2>2, <2>3, OtherStays DEF Goal, Apart, Knows, Whereabouts
    <3> QED BY <1>a, <1>b, <2>1, <2>3, <3>1, BystanderKnows DEF Goal, Apart
  <2> QED BY <1>a, <2>1, <2>3 DEF MWInv, Goal
<1>2. CASE ControlPlane \/ UNCHANGED mwVars
  <2>1. UNCHANGED exVars
    BY <1>2 DEF ControlPlane, mwVars
  <2>2. ExTypeOK'
    BY <1>b, <2>1 DEF ExTypeOK, exVars
  <2>3. ASSUME NEW v \in Worker PROVE Knows(v)'
    <3>1. CASE ControlPlane
      <4>1. Executing(v) => Stays(v)
        BY <1>a, <1>b, <2>1, <3>1, ControlPlaneStays DEF exVars, Knows, Whereabouts
      <4> QED BY <1>a, <1>b, <2>1, <4>1, BystanderKnows DEF exVars
    <3>2. CASE UNCHANGED mwVars
      <4>1. UNCHANGED <<lease, jobState, progress>>
        BY <3>2 DEF mwVars, vars, jobVars, leaseVars
      <4> QED BY <1>a, <1>b, <2>1, <4>1, SameRowsStay, BystanderKnows DEF exVars
    <3> QED BY <1>2, <3>1, <3>2
  <2> QED BY <1>a, <2>2, <2>3 DEF MWInv
<1> QED BY <1>1, <1>2 DEF MWNext

LEMMA MWSafety == MWSpec => []MWInv
BY MWInitInv, MWStep, PTL DEF MWSpec

\* When execute returned COMPLETED or CANCELLED the job has that end, whatever
\* answers were lost, however often calls were sent again, whoever died.
THEOREM RepliesAreTrue == MWSpec => []ReplyIsTrue
<1>1. MWInv => ReplyIsTrue
  BY DEF MWInv, Knows, Believes, ReplyIsTrue
<1> QED BY <1>1, MWSafety, PTL

\* With workers that lose answers, send again and die, the tables still behave
\* as JobLease says, so that all its theorems hold of them.
THEOREM ExecutorsUseTheTables == MWSpec => Spec
<1>1. MWInit => Init
  BY DEF MWInit
<1>2. MWInv /\ [MWNext]_mwVars => [Next]_vars
  BY TablesStep
<1> QED BY <1>1, <1>2, MWSafety, PTL DEF MWSpec, Spec

LEMMA NoClaimCompletes ==
  ASSUME TypeOK, NEW c \in claims, FinishClaim(c), NEW j \in Job, jobState'[j] # jobState[j]
  PROVE  jobState'[j] = "CLAIMED"
<1>1. PICK k \in Job : Assign(c.worker, k)
  BY ClaimOutcome DEF jobVars
<1> QED BY <1>1 DEF Assign, TypeOK

\* Only an executor in its upload completes a job whose cancel was requested.
THEOREM EarlyCancelsStop == MWSpec => EarlyCancelNeverCompletes
<1> DEFINE Late ==
      \A j \in Job :
        jobState[j] = "CANCEL_REQUESTED" /\ jobState'[j] = "COMPLETED"
          => progress[j] = Percent["UPLOADING"]
<1>1. MWInv /\ [MWNext]_mwVars => [Late]_mwVars
  <2> SUFFICES ASSUME MWInv, MWNext, NEW j \in Job,
                      jobState[j] = "CANCEL_REQUESTED", jobState'[j] = "COMPLETED"
               PROVE  progress[j] = Percent["UPLOADING"]
    OBVIOUS
  <2>a. TypeOK
    BY DEF MWInv, SInv, IInv
  <2>1. CASE ControlPlane
    <3>1. ASSUME NEW k \in Job, NEW s, jobState' = [jobState EXCEPT ![k] = s], s # "COMPLETED"
          PROVE  FALSE
      BY <2>a, <3>1 DEF TypeOK
    <3>2. jobState' # jobState
      OBVIOUS
    <3>3. ~(\E k \in Job : RequestCancel(k))
      BY <3>1 DEF RequestCancel
    <3>4. ~(\E k \in Job : Queue(k))
      BY <3>1 DEF Queue
    <3>5. ~ExpireWorkersAndLeases
      BY DEF ExpireWorkersAndLeases
    <3>6. ~(\E c \in claims : FinishClaim(c))
      BY <2>a, NoClaimCompletes
    <3> QED BY <2>1, <3>2, <3>3, <3>4, <3>5, <3>6
            DEF ControlPlane, ClaimRunsOn, Enroll, SourceChanges, Tick, jobVars
  <2>2. ASSUME NEW w \in Worker, Executor(w) \/ Crash(w)
        PROVE  progress[j] = Percent["UPLOADING"]
    <3>1. Knows(w) /\ ExTypeOK
      BY DEF MWInv
    <3>2. TableStep(w)
      BY <2>2, <3>1, ExecutorSteps DEF Knows
    <3>3. ~(UNCHANGED vars \/ Heartbeat(w) \/ BeginClaim(w) \/ Renewed(w)
              \/ ReserveOutput(w, J(w), F(w), produced[w]))
      BY DEF vars, Heartbeat, BeginClaim, Renewed, Renew, ReserveOutput, jobVars
    <3>4. ~(\E c \in ClaimsOf(w) : FinishClaim(c))
      BY <2>a, NoClaimCompletes DEF ClaimsOf
    <3>5. ASSUME NEW m \in ExecutorReports, Applied(w, m) PROVE FALSE
      <4>1. m.to # "COMPLETED"
        BY ExecutorMoves
      <4> QED BY <2>a, <3>5, <4>1 DEF Applied, Progress, TypeOK
    <3>6. Executing(w) /\ doing[w] = "COMPLETE" /\ CompleteOutput(w, J(w), F(w), produced[w])
      BY <3>2, <3>3, <3>4, <3>5 DEF TableStep, FencedStep
    <3>7. J(w) = j
      BY <2>a, <3>6 DEF CompleteOutput, TypeOK
    <3>8. HeldBy(w) /\ stage[w] = "UPLOADING"
      BY <3>1, <3>6 DEF CompleteOutput, HeldBy, Knows, Whereabouts
    <3> QED BY <3>1, <3>6, <3>7, <3>8 DEF Knows, Known, At, Ahead
  <2> QED BY <2>1, <2>2 DEF MWNext
<1> QED BY <1>1, MWSafety, PTL DEF MWSpec, EarlyCancelNeverCompletes
=============================================================================
