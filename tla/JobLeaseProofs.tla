--------------------------- MODULE JobLeaseProofs ---------------------------
(***************************************************************************)
(* The safety of JobLease for every set of jobs, workers and contents,     *)
(* every lease length and every bound on tokens.                           *)
(*                                                                         *)
(* The properties are not inductive one by one: that an attempt is closed  *)
(* needs the lease to name it, that tokens grow needs a failed job to have *)
(* no lease with which its holder could put it back into the queue, and so *)
(* on.  IInv is their conjunction with two facts more.                     *)
(***************************************************************************)
EXTENDS JobLeaseRefinement, FiniteSetTheorems, TLAPS

\* A job that failed, or that is not there, has no live lease and no open attempt:
\* nobody can report it back into the queue.
FailedIsReleased ==
  \A j \in Job : jobState[j] \in {"ABSENT", "FAILED_RETRYABLE", "FAILED_FINAL"} =>
    ~Live(j) /\ OpenAttempts(j) = {}

\* Jobs enter the table as QUEUED, and no transition leads to the states before it.
Submitted == \A j \in Job : jobState[j] \notin {"DRAFT", "READY"}

IInv ==
  /\ TypeOK
  /\ AttemptLedger
  /\ FencesGrow
  /\ PublishedIsTheEnd
  /\ CancelSticks
  /\ FailedIsReleased
  /\ Submitted

-----------------------------------------------------------------------------
(* Facts about the state table and the rows. *)

LEMMA JobStates ==
  JOB_STATES =
    {"DRAFT", "READY", "QUEUED", "CLAIMED", "DOWNLOADING", "OCR", "TRANSLATE",
     "REVIEW_READY", "PAUSED_REVIEW", "TTS", "RENDER", "UPLOADING", "COMPLETED",
     "PAUSED_QUOTA", "PAUSED_NO_WORKER", "FAILED_RETRYABLE", "FAILED_FINAL",
     "CANCEL_REQUESTED", "CANCELLED", "DELETING", "DELETED"}
  BY DEF JOB_STATES, next

LEMMA AfterCancelRequest == next["CANCEL_REQUESTED"] = {"CANCELLED", "FAILED_RETRYABLE"}
  BY DEF next

LEMMA NextOf ==
  /\ next["DRAFT"] = {"READY", "DELETING"}
  /\ next["READY"] = {"QUEUED", "DELETING"}
  /\ next["COMPLETED"] = {"DELETING"}
  /\ next["FAILED_FINAL"] = {"DELETING"}
  /\ next["CANCELLED"] = {"DELETING"}
  /\ next["DELETING"] = {"DELETED"}
  /\ next["DELETED"] = {}
  BY DEF next

LEMMA NextAmong ==
  /\ \A s \in JOB_STATES : next[s] \subseteq JOB_STATES
  /\ \A s \in JOB_STATES \ {"DRAFT"} : "READY" \notin next[s]
  /\ \A s \in JOB_STATES : "DRAFT" \notin next[s]
  /\ \A s \in JOB_STATES \ {"CANCEL_REQUESTED"} : "CANCELLED" \notin next[s]
  BY JobStates DEF next

\* What may follow, as far as it matters below.
LEMMA Following ==
  ASSUME NEW s \in JOB_STATES, NEW t \in next[s]
  PROVE  /\ t \in JOB_STATES
         /\ s \notin {"DRAFT", "READY"} => t \notin {"DRAFT", "READY"}
         /\ s \in {"COMPLETED", "CANCELLED"} => t = "DELETING"
         /\ s = "DELETING" => t = "DELETED"
         /\ s # "DELETED"
         /\ t = "CANCELLED" => s = "CANCEL_REQUESTED"
  BY NextOf, NextAmong

LEMMA StateFor == \A r \in Readiness : stateFor(r) \in WORKER_STATES
  BY DEF Readiness, stateFor, WORKER_STATES

\* Taking the lease row of a typed table apart.
LEMMA LeaseRow ==
  ASSUME TypeOK, NEW j \in Job
  PROVE  /\ lease[j].fence \in 0..MaxFence
         /\ lease[j].left \in 0..TTL
         /\ Live(j) => Leased(j)
         /\ Leased(j) => lease[j] \in Lease
         /\ Leased(j) => lease[j].worker \in Worker
  BY BoundsAssumption DEF TypeOK, Lease, NoLease, Live, Leased

LEMMA InitIInv == Init => IInv
  BY BoundsAssumption, JobStates
  DEF Init, IInv, TypeOK, AttemptLedger, FencesGrow, Live, Leased, FailedIsReleased, Submitted,
      PublishedIsTheEnd, CancelSticks, NoLease, Lease, OutputStatus, WORKER_STATES, Readiness,
      OpenAttempts, Undeleted, LeasedStates

-----------------------------------------------------------------------------
(* Each action preserves the types. *)

LEMMA RequestTyped ==
  ASSUME TypeOK, NEW w \in Worker, Request(w)
  PROVE  inFlight' \in [Worker -> Nat]
  BY DEF TypeOK, Request

\* A claim hands out a job that no live lease is on, or nothing.
LEMMA ClaimOutcome ==
  ASSUME TypeOK, NEW c \in claims, FinishClaim(c)
  PROVE  /\ c.worker \in Worker
         /\ \/ UNCHANGED <<jobVars, leaseVars, output, workerState, readiness, silent>>
            \/ \E j \in Job : /\ ~Live(j)
                              /\ jobState[j] \in {"QUEUED"} \cup LeasedStates
                              /\ Assign(c.worker, j)
<1>1. c.worker \in Worker /\ c.found \subseteq Job
  BY DEF TypeOK, ClaimUnderWay
<1>2. ASSUME NEW locked \in Skipped, NEW j \in Oldest(Candidates(c) \ locked)
      PROVE  j \in Job /\ jobState[j] \in {"QUEUED"} \cup LeasedStates
  BY <1>1 DEF Oldest, Candidates
<1>3. QED
  BY <1>1, <1>2 DEF FinishClaim, TakesRow

LEMMA TypeStep ==
  ASSUME TypeOK, [Next]_vars
  PROVE  TypeOK'
<1> USE BoundsAssumption, JobStates
<1>1. ASSUME NEW w \in Worker, Enroll(w) PROVE TypeOK'
  BY <1>1, StateFor, ReportsAssumption DEF Enroll, TypeOK, jobVars, leaseVars
<1>2. ASSUME NEW w \in Worker, Heartbeat(w) PROVE TypeOK'
  BY <1>2, StateFor, ReportsAssumption, RequestTyped DEF Heartbeat, TypeOK, jobVars, leaseVars
<1>3. ASSUME NEW w \in Worker, Revoke(w) PROVE TypeOK'
  BY <1>3 DEF Revoke, TypeOK, jobVars, leaseVars, WORKER_STATES
<1>4. ASSUME NEW w \in Worker, BeginClaim(w) PROVE TypeOK'
  <2>1. claims' \subseteq ClaimUnderWay
    BY <1>4 DEF BeginClaim, TypeOK, ClaimUnderWay
  <2>2. QED
    BY <1>4, <2>1, RequestTyped DEF BeginClaim, TypeOK, jobVars, leaseVars
<1>4a. ASSUME NEW c \in claims, FinishClaim(c) PROVE TypeOK'
  <2>1. claims' \subseteq ClaimUnderWay /\ inFlight' \in [Worker -> Nat] /\ c \in ClaimUnderWay
    BY <1>4a DEF FinishClaim, TypeOK
  <2>2. CASE UNCHANGED <<jobVars, leaseVars, output, workerState, readiness, silent>>
    BY <2>1, <2>2 DEF TypeOK, jobVars, leaseVars
  <2>3. ASSUME NEW j \in Job, Assign(c.worker, j) PROVE TypeOK'
    <3>0. c.worker \in Worker
      BY <2>1 DEF ClaimUnderWay
    <3>1. lease[j].fence + 1 \in 1..MaxFence
      BY <2>3, LeaseRow DEF Assign
    <3>2. lease' \in [Job -> Lease \cup {NoLease}]
      BY <2>3, <3>0, <3>1 DEF Assign, TypeOK, Lease
    <3>3. attempts' \subseteq Attempt
      BY <2>3, <3>0, <3>1 DEF Assign, TypeOK, Attempt, Outcomes, Ended, With, OpenAttempts
    <3>4. workerState' \in [Worker -> WORKER_STATES \cup {"ABSENT"}]
      BY <2>3 DEF Assign, TypeOK, WORKER_STATES
    <3>5. /\ jobState' \in [Job -> JOB_STATES \cup {"ABSENT"}]
          /\ progress' \in [Job -> 0..100]
      BY <2>3 DEF Assign, TypeOK
    <3>6. UNCHANGED <<cancelAsked, created, hasSource, output, readiness, silent>>
      BY <2>3 DEF Assign
    <3>7. QED
      BY <2>1, <3>2, <3>3, <3>4, <3>5, <3>6 DEF TypeOK
  <2>4. QED
    BY <1>4a, <2>2, <2>3, ClaimOutcome
<1>5. ASSUME NEW j \in Job, Queue(j) PROVE TypeOK'
  <2>1. 1 + Cardinality({k \in Job : created[k] > 0}) \in Nat
    BY JobAssumption, FS_Subset, FS_CardinalityType
  <2>2. QED
    BY <1>5, <2>1 DEF Queue, TypeOK, leaseVars, workerVars
<1>6. ASSUME NEW j \in Job, SourceChanges(j) PROVE TypeOK'
  BY <1>6 DEF SourceChanges, TypeOK, leaseVars, workerVars
<1>7. ASSUME NEW j \in Job, RequestCancel(j) PROVE TypeOK'
  <2>1. attempts' \subseteq Attempt
    BY <1>7 DEF RequestCancel, TypeOK, leaseVars, Ended, With, OpenAttempts, Attempt, Outcomes
  <2>2. QED
    BY <1>7, <2>1 DEF RequestCancel, TypeOK, leaseVars, workerVars
<1>8. ASSUME NEW w \in Worker, NEW j \in Job, Fenced(w, j) PROVE TypeOK'
  <2> PICK f \in 1..MaxFence :
        \/ Renew(w, j, f)
        \/ \E m \in Moves : Progress(w, j, f, m)
        \/ \E c \in Content : ReserveOutput(w, j, f, c) \/ CompleteOutput(w, j, f, c)
    BY <1>8 DEF Fenced
  <2>0. inFlight' \in [Worker -> Nat]
    BY <1>8, RequestTyped DEF Renew, Progress, ReserveOutput, CompleteOutput
  <2>1. CASE Renew(w, j, f)
    <3>1. lease' \in [Job -> Lease \cup {NoLease}]
      BY <2>1, LeaseRow DEF Renew, Holds, TypeOK, Lease
    <3>2. QED
      BY <2>0, <2>1, <3>1 DEF Renew, TypeOK, jobVars
  <2>2. ASSUME NEW m \in Moves, Progress(w, j, f, m) PROVE TypeOK'
    <3>1. m.to \in JOB_STATES /\ m.percent \in 0..100
      BY MovesAssumption, Following
    <3>2. lease' \in [Job -> Lease \cup {NoLease}]
      BY <2>2 DEF Progress, Release, TypeOK, leaseVars
    <3>3. attempts' \subseteq Attempt
      BY <2>2 DEF Progress, Release, TypeOK, leaseVars, Ended, With, OpenAttempts, Attempt, Outcomes
    <3>4. workerState' \in [Worker -> WORKER_STATES \cup {"ABSENT"}]
      BY <2>2 DEF Progress, TypeOK, WORKER_STATES
    <3>5. QED
      BY <2>0, <2>2, <3>1, <3>2, <3>3, <3>4 DEF Progress, TypeOK
  <2>3. ASSUME NEW c \in Content, ReserveOutput(w, j, f, c) PROVE TypeOK'
    BY <2>0, <2>3 DEF ReserveOutput, TypeOK, Retire, OutputStatus, jobVars, leaseVars
  <2>4. ASSUME NEW c \in Content, CompleteOutput(w, j, f, c) PROVE TypeOK'
    <3>1. lease' \in [Job -> Lease \cup {NoLease}]
      BY <2>4 DEF CompleteOutput, Release, TypeOK, leaseVars
    <3>2. attempts' \subseteq Attempt
      BY <2>4 DEF CompleteOutput, Release, TypeOK, leaseVars, Ended, With, OpenAttempts, Attempt, Outcomes
    <3>3. output' \in [Job -> [Content -> OutputStatus]]
      BY <2>4 DEF CompleteOutput, TypeOK, OutputStatus
    <3>4. workerState' \in [Worker -> WORKER_STATES \cup {"ABSENT"}]
      BY <2>4 DEF CompleteOutput, TypeOK, WORKER_STATES
    <3>5. /\ jobState' \in [Job -> JOB_STATES \cup {"ABSENT"}]
          /\ progress' \in [Job -> 0..100]
      <4>1. \/ jobState' = jobState /\ progress' = progress
            \/ /\ jobState' = [jobState EXCEPT ![j] = "COMPLETED"]
               /\ progress' = [progress EXCEPT ![j] = 100]
        BY <2>4 DEF CompleteOutput
      <4>2. jobState' \in [Job -> JOB_STATES \cup {"ABSENT"}]
        BY <4>1, "COMPLETED" \in JOB_STATES DEF TypeOK
      <4>3. progress' \in [Job -> 0..100]
        BY <4>1 DEF TypeOK
      <4>4. QED
        BY <4>2, <4>3
    <3>6. UNCHANGED <<cancelAsked, created, hasSource, readiness, silent, claims>>
      BY <2>4 DEF CompleteOutput
    <3>7. QED
      BY <2>0, <3>1, <3>2, <3>3, <3>4, <3>5, <3>6 DEF TypeOK
  <2>5. QED
    BY <2>1, <2>2, <2>3, <2>4
<1>9. CASE ExpireWorkersAndLeases
  <2>1. attempts' \subseteq Attempt
    BY <1>9 DEF ExpireWorkersAndLeases, With, TypeOK, Attempt, Outcomes
  <2>2. workerState' \in [Worker -> WORKER_STATES \cup {"ABSENT"}]
    BY <1>9 DEF ExpireWorkersAndLeases, TypeOK, WORKER_STATES
  <2>3. QED
    BY <1>9, <2>1, <2>2 DEF ExpireWorkersAndLeases, TypeOK
<1>10. CASE Tick
  <2>1. lease' \in [Job -> Lease \cup {NoLease}]
    BY <1>10 DEF Tick, Live, TypeOK, Lease, NoLease
  <2>2. silent' \in [Worker -> Nat]
    BY <1>10 DEF Tick, TypeOK
  <2>3. QED
    BY <1>10, <2>1, <2>2 DEF Tick, TypeOK, jobVars
<1>11. CASE UNCHANGED vars
  BY <1>11 DEF vars, jobVars, leaseVars, workerVars, TypeOK
<1>12. QED
  BY <1>1, <1>2, <1>3, <1>4, <1>4a, <1>5, <1>6, <1>7, <1>8, <1>9, <1>10, <1>11 DEF Next

\* The tables hold only values of their columns' types.
THEOREM TypeCorrect == Spec => []TypeOK
<1>1. Init => TypeOK
  BY InitIInv DEF IInv
<1>2. QED
  BY <1>1, TypeStep, PTL DEF Spec

-----------------------------------------------------------------------------
(* What a step does to the attempts: those of the jobs in J that were open  *)
(* are closed under the same token, every other row stays as it is.         *)

SameGrant(a, b) == a.job = b.job /\ a.worker = b.worker /\ a.fence = b.fence

Closes(J) ==
  /\ \A a \in attempts' : a.outcome = "OPEN" => a \in attempts /\ a.job \notin J
  /\ \A a \in attempts' : \E b \in attempts : SameGrant(a, b)
  /\ \A b \in attempts : \E a \in attempts' : SameGrant(a, b)
  /\ \A a \in attempts : a.outcome # "OPEN" \/ a.job \notin J => a \in attempts'
  /\ \A a, b \in attempts' : a.job = b.job /\ a.fence = b.fence => a = b

Claims == {"ABSENT", "QUEUED"} \cup LeasedStates

\* A row that a step closes keeps its job, worker and token.
LEMMA WithFields ==
  ASSUME NEW a, NEW o
  PROVE  SameGrant(With(a, o), a) /\ With(a, o).outcome = o
  BY DEF With, SameGrant

LEMMA KeepsAttempts ==
  ASSUME IInv, UNCHANGED attempts
  PROVE  Closes({})
  BY DEF IInv, FencesGrow, Closes, SameGrant

LEMMA EndsOpen ==
  ASSUME IInv, NEW j \in Job, NEW o \in Outcomes \ {"OPEN"},
         attempts' = Ended(OpenAttempts(j), o)
  PROVE  Closes({j})
<1>1. \A a \in attempts' : \/ a \in attempts /\ a \notin OpenAttempts(j)
                           \/ \E b \in OpenAttempts(j) : a = With(b, o)
  BY DEF Ended
<1>2. \A a \in attempts' :
        \E b \in attempts : /\ SameGrant(a, b)
                            /\ b \notin OpenAttempts(j) => a = b
                            /\ b \in OpenAttempts(j) => a = With(b, o)
  BY <1>1, WithFields DEF OpenAttempts, SameGrant
<1>3. \A a \in attempts' : a.outcome = "OPEN" => a \in attempts /\ a.job \notin {j}
  BY <1>1, WithFields DEF OpenAttempts
<1>4. \A a \in attempts : a.outcome # "OPEN" \/ a.job \notin {j} => a \in attempts'
  BY DEF Ended, OpenAttempts
<1>5. ASSUME NEW a \in attempts', NEW b \in attempts', a.job = b.job, a.fence = b.fence
      PROVE  a = b
  <2>1. PICK x \in attempts : /\ a.job = x.job /\ a.fence = x.fence
                              /\ x \notin OpenAttempts(j) => a = x
                              /\ x \in OpenAttempts(j) => a = With(x, o)
    BY <1>2 DEF SameGrant
  <2>2. PICK y \in attempts : /\ b.job = y.job /\ b.fence = y.fence
                              /\ y \notin OpenAttempts(j) => b = y
                              /\ y \in OpenAttempts(j) => b = With(y, o)
    BY <1>2 DEF SameGrant
  <2>3. x = y
    BY <1>5, <2>1, <2>2 DEF IInv, FencesGrow
  <2>4. QED
    BY <2>1, <2>2, <2>3
<1>6. \A b \in attempts : \E a \in attempts' : SameGrant(a, b)
  <2>1. ASSUME NEW b \in OpenAttempts(j) PROVE With(b, o) \in attempts' /\ SameGrant(With(b, o), b)
    BY WithFields DEF Ended
  <2>2. ASSUME NEW b \in attempts \ OpenAttempts(j) PROVE b \in attempts' /\ SameGrant(b, b)
    BY DEF Ended, SameGrant
  <2>3. QED
    BY <2>1, <2>2
<1>7. QED
  BY <1>2, <1>3, <1>4, <1>5, <1>6 DEF Closes

-----------------------------------------------------------------------------
(* A step that closes the attempts of J, makes no lease live and moves jobs *)
(* only as below preserves everything that relates leases to jobs.          *)

Gone   == {"CANCELLED", "DELETING", "DELETED"}
Failed == {"ABSENT", "FAILED_RETRYABLE", "FAILED_FINAL"}

\* An ended job keeps its end but for its deletion.
EndsKept ==
  \A j \in Job : isTerminalJobState(jobState[j]) \/ jobState[j] = "DELETING" =>
    jobState'[j] \in {jobState[j]} \cup (next[jobState[j]] \cap {"DELETING", "DELETED"})

LeaseStep(J) ==
  /\ Closes(J)
  /\ \A k \in Job : Live(k)' => Live(k) /\ (k \in J => jobState'[k] \in Gone)
  /\ \A k \in Job \ J : /\ lease'[k].worker = lease[k].worker
                        /\ lease'[k].fence = lease[k].fence
  /\ \A k \in Job : Leased(k)' => /\ lease'[k].worker = lease[k].worker
                                  /\ lease'[k].fence = lease[k].fence
  /\ \A k \in Job : jobState'[k] \in Failed =>
       jobState'[k] = jobState[k] \/ (k \in J /\ ~Live(k)')
  /\ \A k \in Job : jobState'[k] \in Claims =>
       lease'[k].fence = lease[k].fence /\ (jobState[k] \in Claims \/ Leased(k))

LEMMA LeasesFollow ==
  ASSUME IInv, TypeOK', EndsKept, NEW J \in SUBSET Job, LeaseStep(J)
  PROVE  /\ AttemptLedger'
         /\ FencesGrow'
         /\ FailedIsReleased'
<1> USE DEF LeaseStep
<1>1. AttemptLedger'
  <2>1. ASSUME NEW a \in attempts', a.outcome = "OPEN"
        PROVE  Leased(a.job)' /\ lease'[a.job].worker = a.worker
                              /\ lease'[a.job].fence = a.fence
    BY <2>1 DEF IInv, AttemptLedger, TypeOK, Attempt, Closes, Leased
  <2>2. ASSUME NEW k \in Job, Live(k)', jobState'[k] \notin Gone
        PROVE  [job |-> k, worker |-> lease'[k].worker, fence |-> lease'[k].fence,
                outcome |-> "OPEN"] \in attempts'
    <3> DEFINE row == [job |-> k, worker |-> lease[k].worker, fence |-> lease[k].fence,
                       outcome |-> "OPEN"]
    <3>1. jobState[k] \notin Gone
      BY <2>2 DEF EndsKept, isTerminalJobState, Gone
    <3>2. row \in attempts /\ row.job = k /\ k \notin J
      BY <2>2, <3>1 DEF IInv, AttemptLedger, Gone
    <3>3. row \in attempts'
      BY <3>2 DEF Closes
    <3>4. QED
      BY <3>2, <3>3
  <2>3. QED
    BY <2>1, <2>2 DEF AttemptLedger, Gone
<1>2. FencesGrow'
  <2>1. ASSUME NEW a \in attempts' PROVE \E b \in attempts : a.job = b.job /\ a.fence = b.fence
    BY <2>1 DEF Closes, SameGrant
  <2>2. ASSUME NEW a \in attempts', Leased(a.job)' PROVE a.fence <= lease'[a.job].fence
    <3>1. PICK b \in attempts : a.job = b.job /\ a.fence = b.fence
      BY <2>1
    <3>2. a.job \in Job
      BY DEF TypeOK, Attempt
    <3>3. lease'[a.job].fence = lease[a.job].fence /\ Leased(a.job)
      BY <2>2, <3>2 DEF Leased
    <3>4. b.fence <= lease[b.job].fence
      BY <3>1, <3>3 DEF IInv, FencesGrow
    <3>5. QED
      BY <3>1, <3>3, <3>4
  <2>3. ASSUME NEW k \in Job, jobState'[k] \in Claims, NEW a \in attempts', a.job = k
        PROVE  a.fence <= lease'[k].fence
    BY <2>1, <2>3 DEF IInv, FencesGrow, Claims
  <2>4. QED
    BY <2>2, <2>3 DEF FencesGrow, Claims, Closes
<1>3. FailedIsReleased'
  <2> SUFFICES ASSUME NEW k \in Job, jobState'[k] \in Failed
               PROVE  ~Live(k)' /\ OpenAttempts(k)' = {}
    BY DEF FailedIsReleased, Failed
  <2>1. CASE jobState'[k] = jobState[k]
    BY <2>1 DEF IInv, FailedIsReleased, Failed, OpenAttempts, Closes
  <2>2. CASE k \in J /\ ~Live(k)'
    BY <2>2 DEF OpenAttempts, Closes
  <2>3. QED
    BY <2>1, <2>2
<1>4. QED
  BY <1>1, <1>2, <1>3

-----------------------------------------------------------------------------
(* The two properties about outputs and cancels, and what never changes.    *)

LEMMA PublishedStays ==
  ASSUME IInv, UNCHANGED output, EndsKept
  PROVE  PublishedIsTheEnd'
<1>1. ASSUME NEW j \in Job, \E c \in Content : output[j][c] = "READY"
      PROVE  jobState'[j] \in {"COMPLETED", "CANCELLED", "DELETING", "DELETED"}
  BY <1>1 DEF IInv, PublishedIsTheEnd, EndsKept, isTerminalJobState
<1>2. QED
  BY <1>1 DEF IInv, PublishedIsTheEnd, Undeleted

AfterCancel ==
  {"CANCEL_REQUESTED", "CANCELLED", "COMPLETED", "FAILED_RETRYABLE", "DELETING", "DELETED"}

CancelKept ==
  \A k \in Job : cancelAsked'[k] =>
    \/ cancelAsked[k] /\ jobState'[k] = jobState[k]
    \/ jobState'[k] \in AfterCancel

LEMMA CancelStays ==
  ASSUME IInv, CancelKept
  PROVE  CancelSticks'
  BY DEF IInv, CancelKept, CancelSticks, AfterCancel

\* The step of HistoryIsFinal.
FinalStep == EndsKept /\ \A a \in attempts : a.outcome # "OPEN" => a \in attempts'

\* All that a step has to show.
Safe(J) ==
  /\ LeaseStep(J)
  /\ PublishedIsTheEnd'
  /\ CancelKept
  /\ EndsKept
  /\ Submitted'

LEMMA SafeIsEnough ==
  ASSUME IInv, TypeOK', NEW J \in SUBSET Job, Safe(J)
  PROVE  IInv' /\ FinalStep
<1>1. IInv'
  BY LeasesFollow, CancelStays DEF Safe, IInv
<1>2. FinalStep
  BY DEF Safe, FinalStep, LeaseStep, Closes
<1>3. QED
  BY <1>1, <1>2

\* A step after which every job is where it was.
LEMMA SameStates ==
  ASSUME IInv, UNCHANGED <<jobState, cancelAsked>>
  PROVE  EndsKept /\ CancelKept /\ Submitted'
  BY DEF EndsKept, CancelKept, IInv, Submitted

\* A step that touches none of these tables.
LEMMA FrameSafe ==
  ASSUME IInv, UNCHANGED <<jobState, cancelAsked, leaseVars, output>>
  PROVE  Safe({})
<1>1. LeaseStep({})
  BY KeepsAttempts DEF leaseVars, LeaseStep, Live, Leased
<1>2. QED
  BY <1>1, SameStates, PublishedStays DEF Safe

-----------------------------------------------------------------------------
(* The operations, one by one. *)

LEMMA QueueSafe ==
  ASSUME IInv, TypeOK', NEW j \in Job, Queue(j)
  PROVE  Safe({})
<1>1. /\ \A k \in Job : jobState'[k] = IF k = j THEN "QUEUED" ELSE jobState[k]
      /\ jobState[j] = "ABSENT"
      /\ UNCHANGED <<lease, attempts, cancelAsked, output>>
  BY DEF Queue, IInv, TypeOK, leaseVars
<1>2. LeaseStep({})
  BY <1>1, KeepsAttempts DEF LeaseStep, Live, Leased, Claims, Failed
<1>3. EndsKept /\ Submitted'
  BY <1>1 DEF EndsKept, isTerminalJobState, IInv, Submitted
<1>4. CancelKept
  BY <1>1 DEF CancelKept, IInv, CancelSticks
<1>5. QED
  BY <1>1, <1>2, <1>3, <1>4, PublishedStays DEF Safe

LEMMA RenewSafe ==
  ASSUME IInv, TypeOK', NEW w \in Worker, NEW j \in Job, NEW f \in 1..MaxFence, Renew(w, j, f)
  PROVE  Safe({})
<1>1. /\ Live(j) /\ lease[j].worker = w /\ lease[j].fence = f
      /\ UNCHANGED <<jobState, attempts, cancelAsked, output>>
  BY DEF Renew, Holds, jobVars
<1>2. \A k \in Job : /\ lease'[k].worker = lease[k].worker
                     /\ lease'[k].fence = lease[k].fence
                     /\ Live(k)' => Live(k)
  BY <1>1 DEF Renew, IInv, TypeOK, Live
<1>3. LeaseStep({})
  BY <1>1, <1>2, KeepsAttempts DEF LeaseStep, Leased
<1>4. QED
  BY <1>1, <1>3, SameStates, PublishedStays DEF Safe

LEMMA TickSafe ==
  ASSUME IInv, TypeOK', Tick
  PROVE  Safe({})
<1>1. \A k \in Job : /\ lease'[k].worker = lease[k].worker
                     /\ lease'[k].fence = lease[k].fence
                     /\ Live(k)' => Live(k)
  BY LeaseRow DEF Tick, Live, IInv
<1>2. UNCHANGED <<jobState, attempts, cancelAsked, output>>
  BY DEF Tick, jobVars
<1>3. LeaseStep({})
  BY <1>1, <1>2, KeepsAttempts DEF LeaseStep, Leased
<1>4. QED
  BY <1>2, <1>3, SameStates, PublishedStays DEF Safe

Released == {"CANCELLED", "FAILED_RETRYABLE", "FAILED_FINAL", "COMPLETED"}

\* The holder's last report: the attempt it closes is the only open one.
LEMMA ReleaseSafe ==
  ASSUME IInv, TypeOK', NEW w \in Worker, NEW j \in Job, NEW f \in 1..MaxFence,
         NEW o \in Outcomes \ {"OPEN"}, Holds(w, j, f), Release(w, j, f, o),
         \E s \in Released : jobState' = [jobState EXCEPT ![j] = s]
  PROVE  LeaseStep({j})
<1>1. {a \in OpenAttempts(j) : a.worker = w /\ a.fence = f} = OpenAttempts(j)
  BY DEF IInv, AttemptLedger, OpenAttempts, Holds
<1>2. Closes({j})
  BY <1>1, EndsOpen DEF Release
<1>3. \A k \in Job : lease'[k] = IF k = j THEN NoLease ELSE lease[k]
  BY DEF Release, IInv, TypeOK
<1>4. PICK s \in Released : \A k \in Job : jobState'[k] = IF k = j THEN s ELSE jobState[k]
  BY DEF IInv, TypeOK
<1>5. /\ s \notin Claims
      /\ ~Live(j)' /\ ~Leased(j)'
      /\ \A k \in Job \ {j} : Live(k)' => Live(k)
  BY <1>3 DEF Released, Claims, LeasedStates, Live, Leased, NoLease
<1>6. QED
  BY <1>2, <1>3, <1>4, <1>5 DEF LeaseStep

LEMMA ProgressSafe ==
  ASSUME IInv, TypeOK', NEW w \in Worker, NEW j \in Job, NEW f \in 1..MaxFence,
         NEW m \in Moves, Progress(w, j, f, m)
  PROVE  \E J \in SUBSET Job : Safe(J)
<1>1. /\ Holds(w, j, f) /\ jobState[j] = m.from
      /\ jobState' = [jobState EXCEPT ![j] = m.to]
      /\ UNCHANGED <<cancelAsked, output>>
  BY DEF Progress, ProgressApplies
<1>2. \A k \in Job : jobState'[k] = IF k = j THEN m.to ELSE jobState[k]
  BY <1>1 DEF IInv, TypeOK
<1>3. Live(j) /\ Leased(j)
  BY <1>1, LeaseRow DEF Holds, IInv
<1>4. m.from \in JOB_STATES /\ m.to \in next[m.from]
  BY MovesAssumption
<1>5. jobState[j] \notin Failed
  BY <1>3 DEF IInv, FailedIsReleased, Failed
<1>6. EndsKept
  BY <1>1, <1>2, <1>4, <1>5, Following DEF EndsKept, isTerminalJobState, Failed
<1>7. CancelKept
  <2>1. cancelAsked[j] =>
          jobState[j] \in {"CANCEL_REQUESTED", "CANCELLED", "COMPLETED", "DELETING", "DELETED"}
    BY <1>5 DEF IInv, CancelSticks, Failed
  <2>2. cancelAsked[j] => m.to \in AfterCancel
    BY <1>1, <1>4, <2>1, AfterCancelRequest, Following DEF AfterCancel
  <2>3. QED
    BY <1>1, <1>2, <2>2 DEF CancelKept
<1>8. Submitted'
  BY <1>1, <1>2, <1>4, Following DEF IInv, Submitted
<1>9. PublishedIsTheEnd'
  BY <1>1, <1>6, PublishedStays
<1>10. CASE m.to \in ReleasingStates
  <2>1. PICK o \in Outcomes \ {"OPEN"} : Release(w, j, f, o)
    BY <1>10 DEF Progress, Outcomes
  <2>2. m.to \in Released
    BY <1>10 DEF ReleasingStates, Released
  <2>3. LeaseStep({j})
    BY <1>1, <2>1, <2>2, ReleaseSafe
  <2>4. QED
    BY <1>6, <1>7, <1>8, <1>9, <2>3 DEF Safe
<1>11. CASE m.to \notin ReleasingStates
  <2>1. UNCHANGED <<lease, attempts>>
    BY <1>11 DEF Progress, leaseVars
  <2>2. m.to \notin Failed
    BY <1>4, <1>11, Following, JobStates DEF ReleasingStates, Failed
  <2>3. LeaseStep({})
    BY <1>2, <1>3, <2>1, <2>2, KeepsAttempts DEF LeaseStep, Live, Leased
  <2>4. QED
    BY <1>6, <1>7, <1>8, <1>9, <2>3 DEF Safe
<1>12. QED
  BY <1>10, <1>11

LEMMA RequestCancelSafe ==
  ASSUME IInv, TypeOK', NEW j \in Job, RequestCancel(j)
  PROVE  \E J \in SUBSET Job : Safe(J)
<1>1. /\ ~isTerminalJobState(jobState[j]) /\ jobState[j] # "DELETING"
      /\ UNCHANGED <<lease, output>>
      /\ \A k \in Job : cancelAsked'[k] = IF k = j THEN TRUE ELSE cancelAsked[k]
  BY DEF RequestCancel, IInv, TypeOK, isCancelableJobState, next
<1>2. PICK s \in {"CANCELLED", "CANCEL_REQUESTED"} :
        /\ \A k \in Job : jobState'[k] = IF k = j THEN s ELSE jobState[k]
        /\ IF jobState[j] = "QUEUED"
           THEN s = "CANCELLED" /\ attempts' = Ended(OpenAttempts(j), "CANCELLED")
           ELSE s = "CANCEL_REQUESTED" /\ UNCHANGED attempts
  <2>1. CASE jobState[j] = "QUEUED"
    BY <2>1 DEF RequestCancel, IInv, TypeOK
  <2>2. CASE jobState[j] # "QUEUED"
    BY <2>2 DEF RequestCancel, IInv, TypeOK
  <2>3. QED
    BY <2>1, <2>2
<1>3. EndsKept /\ CancelKept /\ Submitted'
  BY <1>1, <1>2 DEF EndsKept, CancelKept, AfterCancel, IInv, Submitted
<1>4. \E J \in SUBSET Job : LeaseStep(J)
  <2>1. CASE jobState[j] = "QUEUED"
    <3>1. Closes({j})
      BY <1>2, <2>1, EndsOpen DEF Outcomes
    <3>2. LeaseStep({j})
      BY <1>1, <1>2, <2>1, <3>1
      DEF LeaseStep, Live, Leased, Failed, Gone, Claims, LeasedStates
    <3>3. QED
      BY <3>2
  <2>2. CASE jobState[j] # "QUEUED"
    <3>1. LeaseStep({})
      BY <1>1, <1>2, <2>2, KeepsAttempts
      DEF LeaseStep, Live, Leased, Failed, Claims, LeasedStates
    <3>2. QED
      BY <3>1
  <2>3. QED
    BY <2>1, <2>2
<1>5. QED
  BY <1>1, <1>3, <1>4, PublishedStays DEF Safe

\* Retiring leaves one row that is not deleted, whatever the row of c was.
LEMMA ReserveOutputSafe ==
  ASSUME IInv, TypeOK', NEW w \in Worker, NEW j \in Job, NEW f \in 1..MaxFence,
         NEW c \in Content, ReserveOutput(w, j, f, c)
  PROVE  Safe({})
<1>1. UNCHANGED <<jobState, cancelAsked, leaseVars>> /\ ~ReserveReplay(j, c)
  BY DEF ReserveOutput, jobVars
<1>2. \A k \in Job : k # j => output'[k] = output[k]
  BY DEF ReserveOutput, IInv, TypeOK
<1>3. \A d \in Content :
        output'[j][d] = IF d = c /\ CanInsert(j, c) THEN "PENDING" ELSE Retire(j, c)[d]
  BY DEF ReserveOutput, Retire, IInv, TypeOK
<1>4. \A d \in Content \ {c} : output'[j][d] = IF output[j][d] = "PENDING" THEN "DELETED"
                                                ELSE output[j][d]
  BY <1>3 DEF Retire
<1>5. output'[j][c] = IF CanInsert(j, c) THEN "PENDING" ELSE output[j][c]
  BY <1>3 DEF Retire
<1>6. \A d \in Content : output'[j][d] = "READY" <=> output[j][d] = "READY"
  BY <1>4, <1>5 DEF CanInsert
<1>7. \A d, e \in Undeleted(j)' : d = e
  <2>1. CASE CanInsert(j, c)
    BY <1>4, <2>1 DEF CanInsert, Undeleted
  <2>2. CASE ~CanInsert(j, c)
    <3>1. c \notin Undeleted(j)'
      BY <1>1, <1>5, <2>2 DEF Undeleted, ReserveReplay
    <3>2. \A d \in Undeleted(j)' : d \in Undeleted(j)
      BY <1>4, <3>1 DEF Undeleted
    <3>3. QED
      BY <3>2 DEF IInv, PublishedIsTheEnd
  <2>3. QED
    BY <2>1, <2>2
<1>8. PublishedIsTheEnd'
  <2>1. ASSUME NEW k \in Job, k # j PROVE \A d, e \in Undeleted(k)' : d = e
    BY <1>2, <2>1 DEF IInv, PublishedIsTheEnd, Undeleted
  <2>2. ASSUME NEW k \in Job, NEW d \in Content, output'[k][d] = "READY"
        PROVE  output[k][d] = "READY"
    BY <1>2, <1>6, <2>2
  <2>3. QED
    BY <1>1, <1>7, <2>1, <2>2 DEF IInv, PublishedIsTheEnd
<1>9. LeaseStep({})
  BY <1>1, KeepsAttempts DEF leaseVars, LeaseStep, Live, Leased
<1>10. QED
  BY <1>1, <1>8, <1>9, SameStates DEF Safe

\* The one output of a job is published by a holder, and the job has ended.
LEMMA CompleteOutputSafe ==
  ASSUME IInv, TypeOK', NEW w \in Worker, NEW j \in Job, NEW f \in 1..MaxFence,
         NEW c \in Content, CompleteOutput(w, j, f, c)
  PROVE  \E J \in SUBSET Job : Safe(J)
<1>1. Holds(w, j, f) /\ Live(j) /\ output[j][c] = "PENDING" /\ UNCHANGED cancelAsked
  BY DEF CompleteOutput, Holds
<1>2. jobState[j] \notin Failed
  BY <1>1 DEF IInv, FailedIsReleased, Failed
<1>3. \A k \in Job, d \in Content :
        output'[k][d] = IF k = j /\ d = c THEN "READY" ELSE output[k][d]
  BY DEF CompleteOutput, IInv, TypeOK
<1>4. \A k \in Job : Undeleted(k)' = Undeleted(k)
  BY <1>1, <1>3 DEF Undeleted
<1>5. CASE jobState[j] \in {"COMPLETED", "CANCELLED", "DELETING", "DELETED"}
  <2>1. UNCHANGED <<jobState, leaseVars>>
    BY <1>5 DEF CompleteOutput
  <2>2. PublishedIsTheEnd'
    BY <1>3, <1>4, <1>5, <2>1 DEF IInv, PublishedIsTheEnd
  <2>3. LeaseStep({})
    BY <2>1, KeepsAttempts DEF leaseVars, LeaseStep, Live, Leased
  <2>4. QED
    BY <1>1, <2>1, <2>2, <2>3, SameStates DEF Safe
<1>6. CASE jobState[j] \notin {"COMPLETED", "CANCELLED", "DELETING", "DELETED"}
  <2>1. jobState' = [jobState EXCEPT ![j] = "COMPLETED"] /\ Release(w, j, f, "COMPLETED")
    BY <1>2, <1>6 DEF CompleteOutput, Failed
  <2>2. LeaseStep({j})
    BY <1>1, <2>1, ReleaseSafe DEF Released, Outcomes
  <2>3. \A k \in Job : jobState'[k] = IF k = j THEN "COMPLETED" ELSE jobState[k]
    BY <2>1 DEF IInv, TypeOK
  <2>4. PublishedIsTheEnd'
    BY <1>3, <1>4, <2>3 DEF IInv, PublishedIsTheEnd
  <2>5. EndsKept /\ CancelKept /\ Submitted'
    BY <1>1, <1>2, <1>6, <2>3
    DEF EndsKept, CancelKept, AfterCancel, IInv, Submitted, isTerminalJobState, Failed
  <2>6. QED
    BY <2>2, <2>4, <2>5 DEF Safe
<1>7. QED
  BY <1>5, <1>6

LEMMA SweepSafe ==
  ASSUME IInv, TypeOK', ExpireWorkersAndLeases
  PROVE  Safe(Expired \cup Uncancellable)
<1> DEFINE J == Expired \cup Uncancellable
<1>1. UNCHANGED <<cancelAsked, lease, output>>
  BY DEF ExpireWorkersAndLeases
<1>2. \A k \in Job : jobState'[k] =
        IF k \in Expired /\ jobState[k] \in LeasedStates THEN "QUEUED"
        ELSE IF k \in Uncancellable THEN "CANCELLED" ELSE jobState[k]
  BY DEF ExpireWorkersAndLeases
<1>3. PICK asCancelled \in SUBSET (Expired \cap Uncancellable) :
       LET lost == {a \in attempts : /\ a.outcome = "OPEN"
                                     /\ a.job \in Expired
                                     /\ a.fence = lease[a.job].fence}
           cancelled == {a \in attempts : /\ a.outcome = "OPEN"
                                          /\ a.job \in Uncancellable
                                          /\ a \in lost => a.job \in asCancelled}
       IN attempts' = (attempts \ (lost \cup cancelled))
            \cup {With(a, "LEASE_LOST") : a \in lost \ cancelled}
            \cup {With(a, "CANCELLED") : a \in cancelled}
  BY DEF ExpireWorkersAndLeases
<1> DEFINE lost == {a \in attempts : /\ a.outcome = "OPEN"
                                     /\ a.job \in Expired
                                     /\ a.fence = lease[a.job].fence}
           cancelled == {a \in attempts : /\ a.outcome = "OPEN"
                                          /\ a.job \in Uncancellable
                                          /\ a \in lost => a.job \in asCancelled}
           open == {a \in attempts : a.outcome = "OPEN" /\ a.job \in J}
           end(a) == With(a, IF a \in cancelled THEN "CANCELLED" ELSE "LEASE_LOST")
<1>4. lost \cup cancelled = open
  BY DEF IInv, AttemptLedger
<1>5. attempts' = (attempts \ open) \cup {end(a) : a \in open}
  BY <1>3, <1>4
<1>6. Closes(J)
  <2> HIDE DEF lost, cancelled
  <2>1. \A a \in attempts' : \E b \in attempts : /\ SameGrant(a, b)
                                                 /\ b \notin open => a = b
                                                 /\ b \in open => a = end(b)
    BY <1>5, WithFields DEF SameGrant
  <2>2. \A a \in attempts' : a.outcome = "OPEN" => a \in attempts /\ a.job \notin J
    BY <1>5, WithFields
  <2>3. \A a \in attempts : a.outcome # "OPEN" \/ a.job \notin J => a \in attempts'
    BY <1>5
  <2>4. ASSUME NEW a \in attempts', NEW b \in attempts', a.job = b.job, a.fence = b.fence
        PROVE  a = b
    <3>1. PICK x \in attempts : /\ a.job = x.job /\ a.fence = x.fence
                                /\ x \notin open => a = x
                                /\ x \in open => a = end(x)
      BY <2>1 DEF SameGrant
    <3>2. PICK y \in attempts : /\ b.job = y.job /\ b.fence = y.fence
                                /\ y \notin open => b = y
                                /\ y \in open => b = end(y)
      BY <2>1 DEF SameGrant
    <3>3. x = y
      BY <2>4, <3>1, <3>2 DEF IInv, FencesGrow
    <3>4. QED
      BY <3>1, <3>2, <3>3
  <2>5. \A b \in attempts : \E a \in attempts' : SameGrant(a, b)
    <3>1. ASSUME NEW b \in open PROVE end(b) \in attempts' /\ SameGrant(end(b), b)
      BY <1>5, WithFields
    <3>2. ASSUME NEW b \in attempts \ open PROVE b \in attempts' /\ SameGrant(b, b)
      BY <1>5 DEF SameGrant
    <3>3. QED
      BY <3>1, <3>2
  <2>6. QED
    BY <2>1, <2>2, <2>3, <2>4, <2>5 DEF Closes
<1>7. \A k \in Job : Live(k)' <=> Live(k)
  BY <1>1 DEF Live
<1>8. LeaseStep(J)
  <2>1. \A k \in J : k \in Job /\ ~Live(k)
    BY DEF Expired, Uncancellable
  <2>2. \A k \in Job : jobState'[k] = "QUEUED" => jobState[k] = "QUEUED" \/ Leased(k)
    BY <1>2 DEF Expired
  <2>3. QED
    BY <1>1, <1>2, <1>6, <1>7, <2>1, <2>2
    DEF LeaseStep, Leased, Failed, Claims, LeasedStates
<1>9. EndsKept
  BY <1>2 DEF EndsKept, Uncancellable, LeasedStates, isTerminalJobState
<1>10. CancelKept
  <2>1. \A k \in Job : cancelAsked[k] => jobState[k] \notin LeasedStates
    BY DEF IInv, CancelSticks, LeasedStates
  <2>2. QED
    BY <1>1, <1>2, <2>1 DEF CancelKept, AfterCancel
<1>11. Submitted'
  BY <1>2 DEF IInv, Submitted
<1>12. QED
  BY <1>1, <1>8, <1>9, <1>10, <1>11, PublishedStays DEF Safe

\* The claim is the one step that makes a lease live.  Its row is not live before;
\* that tokens grow makes the new one unused.
LEMMA ClaimSafe ==
  ASSUME IInv, TypeOK', NEW w \in Worker, NEW j \in Job, ~Live(j), Assign(w, j),
         jobState[j] \in {"QUEUED"} \cup LeasedStates
  PROVE  IInv' /\ FinalStep
<1> DEFINE f == lease[j].fence + 1
           new == [job |-> j, worker |-> w, fence |-> f, outcome |-> "OPEN"]
<1>4. f \in Nat /\ f > lease[j].fence /\ f > 0
  BY LeaseRow DEF IInv
<1>5. /\ \A k \in Job : lease'[k] = IF k = j THEN [worker |-> w, fence |-> f, left |-> TTL]
                                    ELSE lease[k]
      /\ \A k \in Job : jobState'[k] = IF k = j THEN "CLAIMED" ELSE jobState[k]
      /\ UNCHANGED <<cancelAsked, output>>
  BY DEF Assign, IInv, TypeOK
<1>6. {a \in OpenAttempts(j) : a.fence < f} = OpenAttempts(j)
  BY <1>4 DEF IInv, AttemptLedger, OpenAttempts
<1>7. attempts' = Ended(OpenAttempts(j), "LEASE_LOST") \cup {new}
  BY <1>6 DEF Assign
<1> HIDE DEF f
<1>8. \A a \in attempts : a.job = j => a.fence < f
  <2>1. \A a \in attempts : a.job = j => a.fence <= lease[j].fence
    BY DEF IInv, FencesGrow
  <2>2. QED
    BY <1>4, <2>1, LeaseRow DEF IInv, TypeOK, Attempt
\* What the other rows of the attempts come from.
<1>9. \A a \in attempts' : a # new =>
        \E b \in attempts : /\ a.job = b.job /\ a.fence = b.fence
                            /\ b \notin OpenAttempts(j) => a = b
                            /\ b \in OpenAttempts(j) => a = With(b, "LEASE_LOST")
  <2>1. \A b \in OpenAttempts(j) : b \in attempts
    BY DEF OpenAttempts
  <2>2. QED
    BY <1>7, <2>1, WithFields DEF Ended, SameGrant
<1>10. \A a \in attempts' : a # new /\ a.outcome = "OPEN" => a \in attempts /\ a.job # j
  BY <1>7, WithFields DEF Ended, OpenAttempts
<1>11. \A a \in attempts : a.outcome # "OPEN" => a \in attempts'
  BY <1>7 DEF Ended, OpenAttempts
<1>13. AttemptLedger'
  <2>1. ASSUME NEW a \in attempts', a.outcome = "OPEN"
        PROVE  Leased(a.job)' /\ lease'[a.job].worker = a.worker
                              /\ lease'[a.job].fence = a.fence
    <3>1. CASE a = new
      BY <1>4, <1>5, <3>1 DEF Leased
    <3>2. CASE a # new
      BY <1>5, <1>10, <2>1, <3>2 DEF IInv, AttemptLedger, TypeOK, Attempt, Leased
    <3>3. QED
      BY <3>1, <3>2
  <2>2. ASSUME NEW k \in Job, Live(k)', jobState'[k] \notin Gone
        PROVE  [job |-> k, worker |-> lease'[k].worker, fence |-> lease'[k].fence,
                outcome |-> "OPEN"] \in attempts'
    <3>1. CASE k = j
      <4>1. lease'[k].worker = w /\ lease'[k].fence = f
        BY <1>5, <3>1
      <4>2. QED
        BY <1>7, <3>1, <4>1
    <3>2. CASE k # j
      <4> DEFINE row == [job |-> k, worker |-> lease[k].worker, fence |-> lease[k].fence,
                         outcome |-> "OPEN"]
      <4>1. row \in attempts /\ row \notin OpenAttempts(j)
        BY <1>5, <2>2, <3>2 DEF IInv, AttemptLedger, Gone, Live, OpenAttempts
      <4>2. lease'[k] = lease[k]
        BY <1>5, <3>2
      <4>3. QED
        BY <1>7, <4>1, <4>2 DEF Ended
    <3>3. QED
      BY <3>1, <3>2
  <2>3. QED
    BY <2>1, <2>2 DEF AttemptLedger, Gone
<1>14. FencesGrow'
  <2>1. ASSUME NEW a \in attempts', NEW b \in attempts', a.job = b.job, a.fence = b.fence
        PROVE  a = b
    <3>1. CASE a = new \/ b = new
      BY <1>4, <1>8, <1>9, <2>1, <3>1, LeaseRow DEF IInv, TypeOK, Attempt
    <3>2. CASE a # new /\ b # new
      <4>1. PICK x \in attempts : /\ a.job = x.job /\ a.fence = x.fence
                                  /\ x \notin OpenAttempts(j) => a = x
                                  /\ x \in OpenAttempts(j) => a = With(x, "LEASE_LOST")
        BY <1>9, <3>2
      <4>2. PICK y \in attempts : /\ b.job = y.job /\ b.fence = y.fence
                                  /\ y \notin OpenAttempts(j) => b = y
                                  /\ y \in OpenAttempts(j) => b = With(y, "LEASE_LOST")
        BY <1>9, <3>2
      <4>3. x = y
        BY <2>1, <4>1, <4>2 DEF IInv, FencesGrow
      <4>4. QED
        BY <4>1, <4>2, <4>3
    <3>3. QED
      BY <3>1, <3>2
  <2>2. ASSUME NEW a \in attempts', a.job = j PROVE a.fence <= lease'[j].fence
    <3>1. lease'[j].fence = f
      BY <1>5
    <3>2. a = new \/ a.fence < f
      BY <1>8, <1>9, <2>2
    <3>3. a.fence \in Nat
      BY DEF TypeOK, Attempt
    <3>4. QED
      BY <1>4, <3>1, <3>2, <3>3
  <2>3. ASSUME NEW a \in attempts', a.job # j
        PROVE  /\ Leased(a.job)' => a.fence <= lease'[a.job].fence
               /\ jobState'[a.job] \in Claims => a.fence <= lease'[a.job].fence
    BY <1>5, <1>9, <2>3 DEF IInv, FencesGrow, TypeOK, Attempt, Claims, Leased
  <2>4. QED
    BY <2>1, <2>2, <2>3 DEF FencesGrow, Claims
<1>15. FailedIsReleased'
  BY <1>5, <1>10 DEF IInv, FailedIsReleased, OpenAttempts, Live
<1>16. EndsKept /\ CancelKept /\ Submitted'
  BY <1>5 DEF EndsKept, CancelKept, IInv, CancelSticks, Submitted, LeasedStates, isTerminalJobState
<1>17. FinalStep
  BY <1>11, <1>16 DEF FinalStep
<1>18. QED
  BY <1>5, <1>13, <1>14, <1>15, <1>16, <1>17, PublishedStays, CancelStays DEF IInv

-----------------------------------------------------------------------------
(* The theorems. *)

LEMMA StepSafe ==
  ASSUME IInv, [Next]_vars
  PROVE  IInv' /\ [FinalStep]_vars
<1>0. TypeOK'
  BY TypeStep DEF IInv
<1> SUFFICES IInv' /\ FinalStep
  OBVIOUS
<1>1. ASSUME UNCHANGED <<jobState, cancelAsked, leaseVars, output>> PROVE IInv' /\ FinalStep
  BY <1>0, <1>1, FrameSafe, SafeIsEnough
<1>2. ASSUME NEW w \in Worker, Enroll(w) \/ Heartbeat(w) \/ Revoke(w) PROVE IInv' /\ FinalStep
  BY <1>1, <1>2 DEF Enroll, Heartbeat, Revoke, jobVars
<1>3. ASSUME NEW w \in Worker, BeginClaim(w) PROVE IInv' /\ FinalStep
  BY <1>1, <1>3 DEF BeginClaim, jobVars
<1>3a. ASSUME NEW c \in claims, FinishClaim(c) PROVE IInv' /\ FinalStep
  <2>1. CASE UNCHANGED <<jobVars, leaseVars, output, workerState, readiness, silent>>
    BY <1>1, <2>1 DEF jobVars
  <2>2. QED
    BY <1>0, <1>3a, <2>1, ClaimOutcome, ClaimSafe DEF IInv
<1>4. ASSUME NEW j \in Job, Queue(j) PROVE IInv' /\ FinalStep
  BY <1>0, <1>4, QueueSafe, SafeIsEnough
<1>5. ASSUME NEW j \in Job, SourceChanges(j) PROVE IInv' /\ FinalStep
  BY <1>1, <1>5 DEF SourceChanges
<1>6. ASSUME NEW j \in Job, RequestCancel(j) PROVE IInv' /\ FinalStep
  BY <1>0, <1>6, RequestCancelSafe, SafeIsEnough
<1>7. ASSUME NEW w \in Worker, NEW j \in Job, Fenced(w, j) PROVE IInv' /\ FinalStep
  <2> PICK f \in 1..MaxFence :
        \/ Renew(w, j, f)
        \/ \E m \in Moves : Progress(w, j, f, m)
        \/ \E c \in Content : ReserveOutput(w, j, f, c) \/ CompleteOutput(w, j, f, c)
    BY <1>7 DEF Fenced
  <2>1. CASE Renew(w, j, f)
    BY <1>0, <2>1, RenewSafe, SafeIsEnough
  <2>2. ASSUME NEW m \in Moves, Progress(w, j, f, m) PROVE IInv' /\ FinalStep
    BY <1>0, <2>2, ProgressSafe, SafeIsEnough
  <2>3. ASSUME NEW c \in Content, ReserveOutput(w, j, f, c) PROVE IInv' /\ FinalStep
    BY <1>0, <2>3, ReserveOutputSafe, SafeIsEnough
  <2>4. ASSUME NEW c \in Content, CompleteOutput(w, j, f, c) PROVE IInv' /\ FinalStep
    BY <1>0, <2>4, CompleteOutputSafe, SafeIsEnough
  <2>5. QED
    BY <2>1, <2>2, <2>3, <2>4
<1>8. CASE ExpireWorkersAndLeases
  <2>1. Expired \cup Uncancellable \in SUBSET Job
    BY DEF Expired, Uncancellable
  <2>2. QED
    BY <1>0, <1>8, <2>1, SweepSafe, SafeIsEnough
<1>9. CASE Tick
  BY <1>0, <1>9, TickSafe, SafeIsEnough
<1>10. CASE UNCHANGED vars
  BY <1>1, <1>10 DEF vars, jobVars
<1>11. QED
  BY <1>2, <1>3, <1>3a, <1>4, <1>5, <1>6, <1>7, <1>8, <1>9, <1>10 DEF Next

\* The types, the ledger of attempts, the order of tokens, published outputs and cancels
\* are kept together by every statement of neon-worker-control-plane.ts.
THEOREM Safety == Spec => []IInv
<1>1. Init => IInv
  BY InitIInv
<1>2. QED
  BY <1>1, StepSafe, PTL DEF Spec

\* Open attempts and live leases are the same fact in two tables.
THEOREM LedgersAgree == Spec => []AttemptLedger
<1>1. IInv => AttemptLedger
  BY DEF IInv
<1>2. QED
  BY <1>1, Safety, PTL

\* Open attempts and live leases agree, and tokens are never handed out twice.
THEOREM TokensFence == Spec => [](AttemptLedger /\ FencesGrow)
<1>1. IInv => AttemptLedger /\ FencesGrow
  BY DEF IInv
<1>2. QED
  BY <1>1, Safety, PTL

\* A published output is the job's only one, and its job has ended.
THEOREM PublishedEnds == Spec => []PublishedIsTheEnd
<1>1. IInv => PublishedIsTheEnd
  BY DEF IInv
<1>2. QED
  BY <1>1, Safety, PTL

\* A requested cancel is never undone.
THEOREM CancelNeverUndone == Spec => []CancelSticks
<1>1. IInv => CancelSticks
  BY DEF IInv
<1>2. QED
  BY <1>1, Safety, PTL

\* An end is left only for the deletion, and a closed attempt never changes again.
THEOREM HistoryNeverChanges == Spec => HistoryIsFinal
<1>1. IInv /\ [Next]_vars => [FinalStep]_vars
  BY StepSafe
<1>2. QED
  BY <1>1, Safety, PTL DEF Spec, HistoryIsFinal, FinalStep, EndsKept
-----------------------------------------------------------------------------
(* JobLease implements FencedQueue.                                         *)

Phase(j)     == phaseOf(jobState[j])
Grants(j)    == GrantsOf({a \in attempts : a.job = j})
Published(j) == \E c \in Content : output[j][c] = "READY"

LEMMA PhaseOf ==
  /\ phaseOf("ABSENT") = "absent"
  /\ phaseOf("QUEUED") = "waiting"
  /\ phaseOf("CANCEL_REQUESTED") = "stopping"
  /\ phaseOf("FAILED_RETRYABLE") = "parked"
  /\ phaseOf("COMPLETED") = "done"
  /\ phaseOf("CANCELLED") = "cancelled"
  /\ phaseOf("FAILED_FINAL") = "failed"
  /\ phaseOf("DELETING") = "deleted" /\ phaseOf("DELETED") = "deleted"
  /\ \A s \in PausedStates : phaseOf(s) = "paused"
  /\ \A s \in LeasedStates : phaseOf(s) = "running"
  BY DEF phaseOf, PausedStates, LeasedStates

\* Closing attempts hands out no grant and takes none back.
LEMMA ClosesKeepsGrants ==
  ASSUME NEW J \in SUBSET Job, Closes(J), NEW k \in Job
  PROVE  Grants(k)' = Grants(k)
<1>1. ASSUME NEW a \in attempts', a.job = k
      PROVE  [worker |-> a.worker, token |-> a.fence] \in Grants(k)
  BY <1>1 DEF Closes, SameGrant, Grants, GrantsOf
<1>2. ASSUME NEW b \in attempts, b.job = k
      PROVE  [worker |-> b.worker, token |-> b.fence] \in Grants(k)'
  BY <1>2 DEF Closes, SameGrant, Grants, GrantsOf
<1>3. QED
  BY <1>1, <1>2 DEF Grants, GrantsOf

\* The grant held is what the lease row says of its worker and token while it lives.
LEMMA HeldOf ==
  ASSUME NEW j \in Job
  PROVE  /\ HeldGrant(j) = {} <=> ~Live(j)
         /\ ~Live(j)' => HeldGrant(j)' = {}
         /\ /\ Live(j)' <=> Live(j)
            /\ lease'[j].worker = lease[j].worker /\ lease'[j].fence = lease[j].fence
            => HeldGrant(j)' = HeldGrant(j)
  BY DEF HeldGrant

-----------------------------------------------------------------------------
(* The steps of the abstract queue, said of the tables. *)

Keeping(j) == Grants(j)' = Grants(j) /\ (Published(j)' <=> Published(j))

LEMMA IdleStep ==
  ASSUME NEW j \in Job, Keeping(j), jobState'[j] = jobState[j], HeldGrant(j)' = HeldGrant(j)
  PROVE  Queued!Step(j)
  BY DEF Queued!Step, Queued!Idle, Queued!Keeps, Keeping, Grants, Published

LEMMA LoseStep ==
  ASSUME NEW j \in Job, Keeping(j), jobState'[j] = jobState[j], HeldGrant(j)' = {}
  PROVE  Queued!Step(j)
  BY DEF Queued!Step, Queued!Lose, Queued!Keeps, Keeping, Grants, Published

\* Without its holder a job is submitted, or cancelled, or asked to stop.
LEMMA AdminStep ==
  ASSUME NEW j \in Job, Keeping(j), HeldGrant(j)' = HeldGrant(j),
         \/ Phase(j) = "absent" /\ Phase(j)' = "waiting"
         \/ Phase(j) \in {"running", "paused", "parked"} /\ Phase(j)' = "stopping"
         \/ Phase(j) = "waiting" /\ Phase(j)' = "cancelled"
  PROVE  Queued!Step(j)
<1>1. Queued!Submit(j) \/ Queued!Stop(j)
  BY DEF Queued!Submit, Queued!Stop, Queued!Goes, Queued!Keeps, Keeping, Phase, Grants, Published
<1>2. QED
  BY <1>1 DEF Queued!Step

LEMMA SweptStep ==
  ASSUME NEW j \in Job, Keeping(j), HeldGrant(j) = {}, HeldGrant(j)' = {},
         \/ Phase(j) = "running" /\ Phase(j)' = "waiting"
         \/ Phase(j) = "stopping" /\ Phase(j)' = "cancelled"
  PROVE  Queued!Step(j)
<1>1. Queued!Sweep(j)
  BY DEF Queued!Sweep, Queued!Goes, Queued!Keeps, Keeping, Phase, Grants, Published
<1>2. QED
  BY <1>1 DEF Queued!Step

\* Where a report may lead, phase by phase.
Leads(from, to) ==
  \/ from = "waiting" /\ to \in {"running", "paused", "stopping"}
  \/ /\ from = "running"
     /\ to \in {"running", "paused", "stopping", "done", "parked", "failed"}
  \/ /\ from = "paused"
     /\ to \in {"running", "paused", "waiting", "stopping", "failed", "deleted"}
  \/ from = "stopping" /\ to \in {"cancelled", "parked"}
  \/ from \in {"done", "cancelled", "deleted"} /\ to = "deleted"

LEMMA LeadsReported ==
  ASSUME NEW from, NEW to, Leads(from, to)
  PROVE  from \in DOMAIN Queued!Reported /\ to \in Queued!Reported[from]
  BY DEF Leads, Queued!Reported

LEMMA ReportStep ==
  ASSUME NEW j \in Job, Keeping(j), HeldGrant(j) # {}, Leads(Phase(j), Phase(j)'),
         HeldGrant(j)' = IF Phase(j)' \in {"parked", "failed", "cancelled"} THEN {}
                         ELSE HeldGrant(j)
  PROVE  Queued!Step(j)
<1>1. Phase(j) \in DOMAIN Queued!Reported /\ Phase(j)' \in Queued!Reported[Phase(j)]
  BY LeadsReported
<1>2. Queued!Report(j)
  BY <1>1 DEF Queued!Report, Queued!Keeps, Queued!Ended, Keeping, Phase, Grants, Published
<1>3. QED
  BY <1>2 DEF Queued!Step

LEMMA PublishStep ==
  ASSUME NEW j \in Job, Grants(j)' = Grants(j), ~Published(j), Published(j)',
         HeldGrant(j) # {},
         \/ /\ Phase(j) \in {"waiting", "running", "paused", "stopping"}
            /\ Phase(j)' = "done" /\ HeldGrant(j)' = {}
         \/ /\ Phase(j) \in {"done", "cancelled", "deleted"}
            /\ Phase(j)' = Phase(j) /\ HeldGrant(j)' = HeldGrant(j)
  PROVE  Queued!Step(j)
<1>1. Queued!Publish(j)
  BY DEF Queued!Publish, Queued!Goes, Phase, Grants, Published
<1>2. QED
  BY <1>1 DEF Queued!Step

-----------------------------------------------------------------------------
(* Each operation is a step of the queue for every job. *)

Mapped == \A k \in Job : Queued!Step(k)

\* What a step does not touch: the tables of job k, as the queue sees them.
Untouched(k) == Keeping(k) /\ jobState'[k] = jobState[k] /\ HeldGrant(k)' = HeldGrant(k)

LEMMA UntouchedStep ==
  ASSUME NEW k \in Job, Untouched(k)
  PROVE  Queued!Step(k)
  BY IdleStep DEF Untouched

LEMMA KeepsGrants ==
  ASSUME UNCHANGED attempts, NEW k \in Job
  PROVE  Grants(k)' = Grants(k)
  BY DEF Grants, GrantsOf

LEMMA FrameMaps ==
  ASSUME UNCHANGED <<jobState, attempts>>,
         \A k \in Job : /\ Published(k)' <=> Published(k)
                        /\ HeldGrant(k)' \in {HeldGrant(k), {}}
  PROVE  Mapped
  BY KeepsGrants, IdleStep, LoseStep DEF Keeping, Mapped

LEMMA QueueMaps ==
  ASSUME IInv, NEW j \in Job, Queue(j)
  PROVE  Mapped
<1>1. /\ \A k \in Job : jobState'[k] = IF k = j THEN "QUEUED" ELSE jobState[k]
      /\ jobState[j] = "ABSENT"
      /\ UNCHANGED <<attempts, lease, output>>
  BY DEF Queue, IInv, TypeOK, leaseVars
<1>2. \A k \in Job : Keeping(k) /\ HeldGrant(k)' = HeldGrant(k)
  BY <1>1, KeepsGrants DEF Keeping, Published, HeldGrant, Live
<1>3. Phase(j) = "absent" /\ Phase(j)' = "waiting"
  BY <1>1, PhaseOf DEF Phase
<1>4. QED
  BY <1>1, <1>2, <1>3, AdminStep, UntouchedStep DEF Untouched, Mapped

LEMMA RequestCancelMaps ==
  ASSUME IInv, NEW j \in Job, RequestCancel(j)
  PROVE  Mapped
<1>1. /\ jobState[j] \in JOB_STATES /\ ~isTerminalJobState(jobState[j])
      /\ "CANCEL_REQUESTED" \in next[jobState[j]]
      /\ \A k \in Job : /\ Published(k)' <=> Published(k)
                        /\ HeldGrant(k)' = HeldGrant(k)
  BY DEF RequestCancel, isCancelableJobState, Published, HeldGrant, Live
<1>2. CASE jobState[j] = "QUEUED"
  <2>1. /\ \A k \in Job : jobState'[k] = IF k = j THEN "CANCELLED" ELSE jobState[k]
        /\ attempts' = Ended(OpenAttempts(j), "CANCELLED")
    BY <1>2 DEF RequestCancel, IInv, TypeOK
  <2>2. Closes({j})
    BY <2>1, EndsOpen DEF Outcomes
  <2>3. \A k \in Job : Keeping(k)
    BY <1>1, <2>2, ClosesKeepsGrants DEF Keeping
  <2>4. Phase(j) = "waiting" /\ Phase(j)' = "cancelled"
    BY <1>2, <2>1, PhaseOf DEF Phase
  <2>5. QED
    BY <1>1, <2>1, <2>3, <2>4, AdminStep, UntouchedStep DEF Untouched, Mapped
<1>3. CASE jobState[j] # "QUEUED"
  <2>1. /\ \A k \in Job : jobState'[k] = IF k = j THEN "CANCEL_REQUESTED" ELSE jobState[k]
        /\ UNCHANGED attempts
    BY <1>3 DEF RequestCancel, IInv, TypeOK
  <2>2. \A k \in Job : Keeping(k)
    BY <1>1, <2>1, KeepsGrants DEF Keeping
  <2>3. jobState[j] \in PausedStates \cup LeasedStates \cup {"FAILED_RETRYABLE"}
    <3>1. jobState[j] \notin {"CANCEL_REQUESTED", "DELETING", "DRAFT", "READY"}
      BY <1>1, AfterCancelRequest, NextOf DEF IInv, Submitted
    <3>2. QED
      BY <1>1, <1>3, <3>1, JobStates DEF isTerminalJobState, PausedStates, LeasedStates
  <2>4. Phase(j) \in {"running", "paused", "parked"} /\ Phase(j)' = "stopping"
    BY <2>1, <2>3, PhaseOf DEF Phase
  <2>5. QED
    BY <1>1, <2>1, <2>2, <2>4, AdminStep, UntouchedStep DEF Untouched, Mapped
<1>4. QED
  BY <1>2, <1>3

\* The transitions of the state table, as the phases see them.
LEMMA MoveLeads ==
  ASSUME NEW s \in JOB_STATES \ {"DRAFT", "READY", "FAILED_RETRYABLE", "FAILED_FINAL"},
         NEW t \in next[s]
  PROVE  /\ Leads(phaseOf(s), phaseOf(t))
         /\ phaseOf(t) \in {"parked", "failed", "cancelled"} <=> t \in ReleasingStates
<1>1. t \in JOB_STATES \ {"DRAFT", "READY"}
  BY Following
<1>2. phaseOf(t) \in {"parked", "failed", "cancelled"} <=> t \in ReleasingStates
  BY <1>1, PhaseOf, JobStates DEF ReleasingStates, PausedStates, LeasedStates
<1>3. CASE s = "QUEUED"
  BY <1>2, <1>3, PhaseOf DEF next, Leads, PausedStates, LeasedStates
<1>4. CASE s \in LeasedStates
  <2>1. t \in LeasedStates \cup PausedStates \cup
          {"CANCEL_REQUESTED", "COMPLETED", "FAILED_RETRYABLE", "FAILED_FINAL"}
    BY <1>4 DEF next, LeasedStates, PausedStates
  <2>2. QED
    BY <1>2, <1>4, <2>1, PhaseOf DEF Leads
<1>5. CASE s \in PausedStates
  <2>1. t \in LeasedStates \cup PausedStates \cup
          {"QUEUED", "CANCEL_REQUESTED", "FAILED_FINAL", "DELETING"}
    BY <1>5 DEF next, LeasedStates, PausedStates
  <2>2. QED
    BY <1>2, <1>5, <2>1, PhaseOf DEF Leads
<1>6. CASE s = "CANCEL_REQUESTED"
  BY <1>2, <1>6, AfterCancelRequest, PhaseOf DEF Leads
<1>7. CASE s \in {"COMPLETED", "CANCELLED", "DELETING"}
  BY <1>2, <1>7, Following, PhaseOf DEF Leads
<1>8. QED
  BY <1>3, <1>4, <1>5, <1>6, <1>7, Following, JobStates DEF PausedStates, LeasedStates

LEMMA ProgressMaps ==
  ASSUME IInv, TypeOK', NEW w \in Worker, NEW j \in Job, NEW f \in 1..MaxFence,
         NEW m \in Moves, Progress(w, j, f, m)
  PROVE  Mapped
<1>1. /\ Holds(w, j, f) /\ Live(j) /\ jobState[j] = m.from
      /\ \A k \in Job : jobState'[k] = IF k = j THEN m.to ELSE jobState[k]
      /\ \A k \in Job : Published(k)' <=> Published(k)
  BY DEF Progress, ProgressApplies, IInv, TypeOK, Published, Holds
<1>2. HeldGrant(j) # {}
  BY <1>1, HeldOf
<1>3. m.from \in JOB_STATES \ {"DRAFT", "READY", "FAILED_RETRYABLE", "FAILED_FINAL"}
  BY <1>1, MovesAssumption DEF IInv, Submitted, FailedIsReleased
<1>4. /\ Leads(Phase(j), Phase(j)')
      /\ Phase(j)' \in {"parked", "failed", "cancelled"} <=> m.to \in ReleasingStates
  <2>1. Phase(j) = phaseOf(m.from) /\ Phase(j)' = phaseOf(m.to)
    BY <1>1 DEF Phase
  <2>2. QED
    BY <1>3, <2>1, MoveLeads, MovesAssumption
<1>5. CASE m.to \in ReleasingStates
  <2>1. PICK o \in Outcomes \ {"OPEN"} : Release(w, j, f, o)
    BY <1>5 DEF Progress, Outcomes
  <2>2. {a \in OpenAttempts(j) : a.worker = w /\ a.fence = f} = OpenAttempts(j)
    BY <1>1 DEF IInv, AttemptLedger, OpenAttempts, Holds
  <2>3. Closes({j})
    BY <2>1, <2>2, EndsOpen DEF Release
  <2>4. \A k \in Job : Keeping(k)
    BY <1>1, <2>3, ClosesKeepsGrants DEF Keeping
  <2>5. \A k \in Job : lease'[k] = IF k = j THEN NoLease ELSE lease[k]
    BY <2>1 DEF Release, IInv, TypeOK
  <2>6. /\ HeldGrant(j)' = {}
        /\ \A k \in Job \ {j} : HeldGrant(k)' = HeldGrant(k)
    BY <2>5 DEF HeldGrant, Live, NoLease
  <2>7. QED
    BY <1>1, <1>2, <1>4, <1>5, <2>4, <2>6, ReportStep, UntouchedStep DEF Untouched, Mapped
<1>6. CASE m.to \notin ReleasingStates
  <2>1. UNCHANGED <<attempts, lease>>
    BY <1>6 DEF Progress, leaseVars
  <2>2. \A k \in Job : Keeping(k) /\ HeldGrant(k)' = HeldGrant(k)
    BY <1>1, <2>1, KeepsGrants DEF Keeping, HeldGrant, Live
  <2>3. QED
    BY <1>1, <1>2, <1>4, <1>6, <2>2, ReportStep, UntouchedStep DEF Untouched, Mapped
<1>7. QED
  BY <1>5, <1>6

LEMMA ReserveOutputMaps ==
  ASSUME IInv, NEW w \in Worker, NEW j \in Job, NEW f \in 1..MaxFence,
         NEW c \in Content, ReserveOutput(w, j, f, c)
  PROVE  Mapped
<1>1. UNCHANGED <<jobState, attempts, lease>> /\ ~ReserveReplay(j, c)
  BY DEF ReserveOutput, jobVars, leaseVars
<1>2. \A k \in Job, d \in Content : output'[k][d] = "READY" <=> output[k][d] = "READY"
  BY <1>1 DEF ReserveOutput, ReserveReplay, Retire, IInv, TypeOK
<1>3. \A k \in Job : /\ Published(k)' <=> Published(k)
                     /\ HeldGrant(k)' = HeldGrant(k)
  BY <1>1, <1>2 DEF Published, HeldGrant, Live
<1>4. QED
  BY <1>1, <1>3, FrameMaps

LEMMA CompleteOutputMaps ==
  ASSUME IInv, TypeOK', NEW w \in Worker, NEW j \in Job, NEW f \in 1..MaxFence,
         NEW c \in Content, CompleteOutput(w, j, f, c)
  PROVE  Mapped
<1>1. Holds(w, j, f) /\ Live(j) /\ HeldGrant(j) # {} /\ output[j][c] = "PENDING"
  BY HeldOf DEF CompleteOutput, Holds
<1>2. \A k \in Job, d \in Content :
        output'[k][d] = IF k = j /\ d = c THEN "READY" ELSE output[k][d]
  BY DEF CompleteOutput, IInv, TypeOK
<1>3. ~Published(j)
  BY <1>1 DEF Published, IInv, PublishedIsTheEnd, Undeleted
<1>4. Published(j)' /\ \A k \in Job \ {j} : Published(k)' <=> Published(k)
  BY <1>2 DEF Published
<1>5. CASE jobState[j] \in {"COMPLETED", "CANCELLED", "DELETING", "DELETED"}
  <2>1. UNCHANGED <<jobState, lease, attempts>>
    BY <1>5 DEF CompleteOutput, leaseVars
  <2>2. \A k \in Job : Grants(k)' = Grants(k) /\ HeldGrant(k)' = HeldGrant(k)
    BY <2>1, KeepsGrants DEF HeldGrant, Live
  <2>3. Phase(j) \in {"done", "cancelled", "deleted"} /\ Phase(j)' = Phase(j)
    BY <1>5, <2>1, PhaseOf DEF Phase
  <2>4. QED
    BY <1>1, <1>3, <1>4, <2>1, <2>2, <2>3, PublishStep, UntouchedStep
       DEF Untouched, Keeping, Mapped
<1>6. CASE jobState[j] \notin {"COMPLETED", "CANCELLED", "DELETING", "DELETED"}
  <2>1. jobState[j] \notin Failed
    BY <1>1 DEF IInv, FailedIsReleased, Failed
  <2>2. /\ \A k \in Job : jobState'[k] = IF k = j THEN "COMPLETED" ELSE jobState[k]
        /\ Release(w, j, f, "COMPLETED")
    BY <1>6, <2>1 DEF CompleteOutput, Failed, IInv, TypeOK
  <2>3. {a \in OpenAttempts(j) : a.worker = w /\ a.fence = f} = OpenAttempts(j)
    BY <1>1 DEF IInv, AttemptLedger, OpenAttempts, Holds
  <2>4. Closes({j})
    BY <2>2, <2>3, EndsOpen DEF Release, Outcomes
  <2>5. \A k \in Job : lease'[k] = IF k = j THEN NoLease ELSE lease[k]
    BY <2>2 DEF Release, IInv, TypeOK
  <2>6. /\ HeldGrant(j)' = {}
        /\ \A k \in Job \ {j} : HeldGrant(k)' = HeldGrant(k)
    BY <2>5 DEF HeldGrant, Live, NoLease
  <2>7. \A k \in Job : Grants(k)' = Grants(k)
    BY <2>4, ClosesKeepsGrants
  <2>8. jobState[j] \in PausedStates \cup LeasedStates \cup {"QUEUED", "CANCEL_REQUESTED"}
    BY <1>6, <2>1, JobStates DEF IInv, TypeOK, Submitted, Failed, PausedStates, LeasedStates
  <2>9. Phase(j) \in {"waiting", "running", "paused", "stopping"} /\ Phase(j)' = "done"
    BY <2>2, <2>8, PhaseOf DEF Phase
  <2>10. QED
    BY <1>1, <1>3, <1>4, <2>2, <2>6, <2>7, <2>9, PublishStep, UntouchedStep
       DEF Untouched, Keeping, Mapped
<1>7. QED
  BY <1>5, <1>6

LEMMA SweepMaps ==
  ASSUME IInv, TypeOK', ExpireWorkersAndLeases
  PROVE  Mapped
<1> DEFINE J == Expired \cup Uncancellable
<1>1. \A k \in Job : jobState'[k] =
        IF k \in Expired /\ jobState[k] \in LeasedStates THEN "QUEUED"
        ELSE IF k \in Uncancellable THEN "CANCELLED" ELSE jobState[k]
  BY DEF ExpireWorkersAndLeases
<1>2. J \in SUBSET Job
  BY DEF Expired, Uncancellable
<1>3. Closes(J)
  BY SweepSafe DEF Safe, LeaseStep
<1>4. \A k \in Job : Keeping(k)
  BY <1>2, <1>3, ClosesKeepsGrants DEF Keeping, ExpireWorkersAndLeases, Published
<1>5. \A k \in Job : HeldGrant(k)' = HeldGrant(k)
  BY DEF ExpireWorkersAndLeases, HeldGrant, Live
<1>6. \A k \in J : HeldGrant(k) = {}
  BY HeldOf DEF Expired, Uncancellable
<1> HIDE DEF J
<1>7. ASSUME NEW k \in J, jobState'[k] # jobState[k] PROVE Queued!Step(k)
  <2>1. \/ Phase(k) = "running" /\ Phase(k)' = "waiting"
        \/ Phase(k) = "stopping" /\ Phase(k)' = "cancelled"
    BY <1>1, <1>2, <1>7, PhaseOf DEF Phase, Uncancellable
  <2>2. QED
    BY <1>2, <1>4, <1>5, <1>6, <2>1, SweptStep
<1>8. ASSUME NEW k \in Job, jobState'[k] = jobState[k] PROVE Queued!Step(k)
  BY <1>4, <1>5, <1>8, IdleStep
<1>9. ASSUME NEW k \in Job, k \notin J PROVE jobState'[k] = jobState[k]
  BY <1>1, <1>9 DEF J
<1>10. QED
  BY <1>7, <1>8, <1>9 DEF Mapped

\* The claim is the queue's Grant: all tokens of the job are behind its lease row.
LEMMA ClaimMaps ==
  ASSUME IInv, TypeOK', NEW w \in Worker, NEW j \in Job, ~Live(j), Assign(w, j),
         jobState[j] \in {"QUEUED"} \cup LeasedStates
  PROVE  Mapped
<1> DEFINE f == lease[j].fence + 1
           new == [job |-> j, worker |-> w, fence |-> f, outcome |-> "OPEN"]
           old == OpenAttempts(j)
           g == [worker |-> w, token |-> f]
<1>3. f \in Nat /\ f > lease[j].fence
  BY LeaseRow DEF IInv
<1>4. /\ \A k \in Job : jobState'[k] = IF k = j THEN "CLAIMED" ELSE jobState[k]
      /\ UNCHANGED output
  BY DEF Assign, IInv, TypeOK
<1>5. {a \in OpenAttempts(j) : a.fence < f} = old
  BY <1>3 DEF IInv, AttemptLedger, OpenAttempts
<1>6. attempts' = (attempts \ old) \cup {With(a, "LEASE_LOST") : a \in old} \cup {new}
  BY <1>5 DEF Assign, Ended
<1>7. \A a \in attempts : a.job = j => a.fence < f
  <2>1. \A a \in attempts : a.job = j => a.fence <= lease[j].fence
    BY DEF IInv, FencesGrow
  <2>2. QED
    BY <1>3, <2>1, LeaseRow DEF IInv, TypeOK, Attempt
<1> HIDE DEF f
<1>8. \A k \in Job : lease'[k] = IF k = j THEN [worker |-> w, fence |-> f, left |-> TTL]
                                    ELSE lease[k]
  BY DEF Assign, IInv, TypeOK, f
<1>9. \A k \in Job \ {j} : {a \in attempts' : a.job = k} = {a \in attempts : a.job = k}
  BY <1>6, WithFields DEF OpenAttempts, SameGrant
<1>10. Grants(j)' = Grants(j) \cup {g}
  <2>1. ASSUME NEW a \in attempts', a.job = j
        PROVE  [worker |-> a.worker, token |-> a.fence] \in Grants(j) \cup {g}
    <3>1. CASE a = new
      BY <3>1
    <3>2. CASE a # new
      <4>1. PICK b \in attempts : SameGrant(a, b)
        BY <1>6, <3>2, WithFields DEF OpenAttempts, SameGrant
      <4>2. QED
        BY <2>1, <4>1 DEF SameGrant, Grants, GrantsOf
    <3>3. QED
      BY <3>1, <3>2
  <2>2. ASSUME NEW b \in attempts, b.job = j
        PROVE  [worker |-> b.worker, token |-> b.fence] \in Grants(j)'
    <3>1. PICK a \in attempts' : SameGrant(a, b)
      <4>1. CASE b \in old
        BY <1>6, <4>1, WithFields
      <4>2. CASE b \notin old
        BY <1>6, <4>2 DEF SameGrant
      <4>3. QED
        BY <4>1, <4>2
    <3>2. QED
      BY <2>2, <3>1 DEF SameGrant, Grants, GrantsOf
  <2>3. g \in Grants(j)'
    <3>1. new \in attempts' /\ new.job = j /\ new.worker = w /\ new.fence = f
      BY <1>6
    <3>2. QED
      BY <3>1 DEF Grants, GrantsOf
  <2>4. QED
    BY <2>1, <2>2, <2>3 DEF Grants, GrantsOf
<1>11. HeldGrant(j) = {} /\ HeldGrant(j)' = {g}
  <2>1. lease'[j].worker = w /\ lease'[j].fence = f /\ lease'[j].left = TTL
    BY <1>8
  <2>2. Live(j)'
    BY <2>1, BoundsAssumption DEF Live
  <2>3. HeldGrant(j)' = {[worker |-> lease'[j].worker, token |-> lease'[j].fence]}
    BY <2>2 DEF HeldGrant
  <2>4. [worker |-> lease'[j].worker, token |-> lease'[j].fence] = g
    BY <2>1
  <2>5. HeldGrant(j) = {}
    BY HeldOf
  <2>6. QED
    BY <2>3, <2>4, <2>5
<1>12. \A o \in Grants(j) : o.token < g.token
  BY <1>7 DEF Grants, GrantsOf
<1>13. Phase(j) \in {"waiting", "running"} /\ Phase(j)' = "running"
  BY <1>4, PhaseOf DEF Phase, LeasedStates
<1>14. Queued!Step(j)
  <2>1. g.worker \in Worker /\ g \in Grants(j)' /\ (Published(j)' <=> Published(j))
    BY <1>4, <1>10 DEF Published
  <2>2. Queued!Grant(j)
    BY <1>10, <1>11, <1>12, <1>13, <2>1
    DEF Queued!Grant, Queued!Goes, Phase, Grants, Published
  <2>3. QED
    BY <2>2 DEF Queued!Step
<1>15. ASSUME NEW k \in Job \ {j} PROVE Queued!Step(k)
  <2>1. Grants(k)' = Grants(k)
    BY <1>9 DEF Grants, GrantsOf
  <2>2. HeldGrant(k)' = HeldGrant(k)
    BY <1>8 DEF HeldGrant, Live
  <2>3. QED
    BY <1>4, <2>1, <2>2, IdleStep DEF Keeping, Published
<1>16. QED
  BY <1>14, <1>15 DEF Mapped

LEMMA StepMaps ==
  ASSUME IInv, [Next]_vars
  PROVE  Mapped
<1>0. TypeOK'
  BY TypeStep DEF IInv
<1>1. ASSUME UNCHANGED <<jobState, lease, attempts, output>> PROVE Mapped
  BY <1>1, FrameMaps DEF Published, HeldGrant, Live
<1>2. ASSUME NEW w \in Worker, Enroll(w) \/ Heartbeat(w) \/ Revoke(w) \/ BeginClaim(w)
      PROVE  Mapped
  BY <1>1, <1>2 DEF Enroll, Heartbeat, Revoke, BeginClaim, jobVars, leaseVars
<1>3. ASSUME NEW c \in claims, FinishClaim(c) PROVE Mapped
  <2>1. CASE UNCHANGED <<jobVars, leaseVars, output, workerState, readiness, silent>>
    BY <1>1, <2>1 DEF jobVars, leaseVars
  <2>2. QED
    BY <1>0, <1>3, <2>1, ClaimOutcome, ClaimMaps DEF IInv
<1>4. ASSUME NEW j \in Job, Queue(j) PROVE Mapped
  BY <1>4, QueueMaps
<1>5. ASSUME NEW j \in Job, SourceChanges(j) PROVE Mapped
  BY <1>1, <1>5 DEF SourceChanges, leaseVars
<1>6. ASSUME NEW j \in Job, RequestCancel(j) PROVE Mapped
  BY <1>6, RequestCancelMaps
<1>7. ASSUME NEW w \in Worker, NEW j \in Job, Fenced(w, j) PROVE Mapped
  <2> PICK f \in 1..MaxFence :
        \/ Renew(w, j, f)
        \/ \E m \in Moves : Progress(w, j, f, m)
        \/ \E c \in Content : ReserveOutput(w, j, f, c) \/ CompleteOutput(w, j, f, c)
    BY <1>7 DEF Fenced
  <2>1. CASE Renew(w, j, f)
    <3>1. /\ UNCHANGED <<jobState, attempts, output>>
          /\ lease' = [lease EXCEPT ![j] = [worker |-> w, fence |-> f, left |-> TTL]]
          /\ Live(j) /\ lease[j].worker = w /\ lease[j].fence = f
      BY <2>1 DEF Renew, Holds, jobVars
    <3>2. \A k \in Job : lease'[k] = IF k = j THEN [worker |-> w, fence |-> f, left |-> TTL]
                                     ELSE lease[k]
      BY <3>1 DEF IInv, TypeOK
    <3>3. ASSUME NEW k \in Job PROVE HeldGrant(k)' = HeldGrant(k)
      <4>1. /\ lease'[k].worker = lease[k].worker /\ lease'[k].fence = lease[k].fence
            /\ Live(k)' <=> Live(k)
        BY <3>1, <3>2, BoundsAssumption DEF Live
      <4>2. QED
        BY <4>1, HeldOf
    <3>4. QED
      BY <3>1, <3>3, FrameMaps DEF Published
  <2>2. ASSUME NEW m \in Moves, Progress(w, j, f, m) PROVE Mapped
    BY <1>0, <2>2, ProgressMaps
  <2>3. ASSUME NEW c \in Content, ReserveOutput(w, j, f, c) PROVE Mapped
    BY <2>3, ReserveOutputMaps
  <2>4. ASSUME NEW c \in Content, CompleteOutput(w, j, f, c) PROVE Mapped
    BY <1>0, <2>4, CompleteOutputMaps
  <2>5. QED
    BY <2>1, <2>2, <2>3, <2>4
<1>8. CASE ExpireWorkersAndLeases
  BY <1>0, <1>8, SweepMaps
<1>9. CASE Tick
  <2>1. UNCHANGED <<jobState, attempts, output>>
    BY <1>9 DEF Tick, jobVars
  <2>2. ASSUME NEW k \in Job PROVE HeldGrant(k)' \in {HeldGrant(k), {}}
    <3>1. /\ lease'[k].worker = lease[k].worker /\ lease'[k].fence = lease[k].fence
          /\ Live(k)' => Live(k)
      BY <1>9, LeaseRow DEF Tick, Live, IInv
    <3>2. QED
      BY <3>1, HeldOf
  <2>3. QED
    BY <2>1, <2>2, FrameMaps DEF Published
<1>10. CASE UNCHANGED vars
  BY <1>1, <1>10 DEF vars, jobVars, leaseVars
<1>11. QED
  BY <1>2, <1>3, <1>4, <1>5, <1>6, <1>7, <1>8, <1>9, <1>10 DEF Next

LEMMA InitMaps ==
  ASSUME Init
  PROVE  Queued!FQInit
<1>1. \A j \in Job : /\ jobState[j] = "ABSENT" /\ Phase(j) = "absent" /\ Grants(j) = {}
                     /\ HeldGrant(j) = {} /\ Published(j) = FALSE
  BY PhaseOf DEF Init, Phase, Grants, GrantsOf, Published, HeldGrant, Live, NoLease
<1>2. QED
  BY <1>1 DEF Queued!FQInit, Phase, Grants, Published

\* No step takes a grant back.
LEMMA StepGrants ==
  ASSUME IInv, [Next]_vars, NEW j \in Job
  PROVE  Grants(j) \subseteq Grants(j)'
<1>1. Queued!Step(j)
  BY StepMaps DEF Mapped
<1>2. QED
  BY <1>1 DEF Queued!Step, Queued!Submit, Queued!Grant, Queued!Report, Queued!Lose,
              Queued!Sweep, Queued!Stop, Queued!Publish, Queued!Idle, Queued!Keeps, Grants

\* The tables promise what the fenced queue promises: one holder of a job at a time,
\* growing tokens, reports and publication by the holder alone, ends that stick.
THEOREM QueueIsImplemented == Spec => ImplementsFencedQueue
<1>1. Init => IInv /\ Queued!FQInit
  BY InitIInv, InitMaps
<1>2. IInv /\ [Next]_vars => IInv' /\ [Queued!FQNext]_Queued!fqVars
  BY StepSafe, StepMaps DEF Mapped, Queued!FQNext
<1>3. QED
  BY <1>1, <1>2, PTL DEF Spec, ImplementsFencedQueue, Queued!FQSpec
=============================================================================
