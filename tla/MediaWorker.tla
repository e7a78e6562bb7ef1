----------------------------- MODULE MediaWorker -----------------------------
(***************************************************************************)
(* The VPS side of a job: WorkerLoop.run_once (interfaces/worker.py) and    *)
(* MediaJobExecutor with its lease heartbeat thread                         *)
(* (application/media_job.py), talking to the control plane of JobLease     *)
(* through ControlPlaneClient (adapters/control_plane/http.py).             *)
(*                                                                         *)
(* A call runs a statement of JobLease and brings back its answer.  The    *)
(* request or the answer may be lost; the client then sends it again (the  *)
(* same step, once more) or gives up.  The process may die at any point    *)
(* and is started again by systemd.                                        *)
(***************************************************************************)
EXTENDS JobLease

CONSTANTS
  Faults,     \* which of AllFaults may happen
  MaxFaults   \* BOUND on their number

AllFaults == {"REPLY_LOST", "NETWORK_DOWN", "CRASH", "MEDIA_ERROR"}

ASSUME FaultsAssumption == Faults \subseteq AllFaults /\ MaxFaults \in Nat

VARIABLES
  doing,    \* the call or phase each executor is in
  stage,    \* reported_state: what it last told the control plane
  grant,    \* the job and token of its assignment
  beat,     \* what the heartbeat thread of the phase found
  produced, \* what the last pipeline run rendered
  result,   \* how the last execute ended
  faults    \* faults still to come

exVars == <<doing, stage, grant, beat, produced, result, faults>>
mwVars == <<vars, exVars>>

\* reported_percent, and the next state of the happy path.
Percent == [CLAIMED |-> 0, DOWNLOADING |-> 5, OCR |-> 20, UPLOADING |-> 90]
After   == [CLAIMED |-> "DOWNLOADING", DOWNLOADING |-> "OCR", OCR |-> "UPLOADING"]

Move(from, to, percent) == [from |-> from, to |-> to, percent |-> percent]

Advance(s) == Move(s, After[s], Percent[After[s]])
Failure(s) == Move(s, "FAILED_RETRYABLE", Percent[s])
Cancel(s)  == Move("CANCEL_REQUESTED", "CANCELLED", Percent[s])

ExecutorReports ==
  {Advance(s) : s \in DOMAIN After}
    \cup {Failure(s) : s \in DOMAIN Percent} \cup {Cancel(s) : s \in DOMAIN Percent}

ASSUME ExecutorAssumption == ExecutorReports \subseteq Moves

MWInit ==
  /\ Init
  /\ doing = [w \in Worker |-> "IDLE"]
  /\ stage = [w \in Worker |-> "CLAIMED"]
  /\ grant = [w \in Worker |-> [job |-> CHOOSE j \in Job : TRUE, fence |-> 0]]
  /\ beat = [w \in Worker |-> "OK"]
  /\ produced \in [Worker -> Content]
  /\ result = [w \in Worker |-> "NONE"]
  /\ faults = MaxFaults

-----------------------------------------------------------------------------
(* Where a step leads. *)

J(w) == grant[w].job
F(w) == grant[w].fence

Goes(w, d) ==
  /\ doing' = [doing EXCEPT ![w] = d]
  /\ UNCHANGED <<stage, grant, beat, produced, result>>

\* execute returns or raises; run_once goes back to its caller, which polls.
Ends(w, r) ==
  /\ doing' = [doing EXCEPT ![w] = "IDLE"]
  /\ result' = [result EXCEPT ![w] = r]
  /\ UNCHANGED <<stage, grant, beat, produced>>

\* A phase starts with a fresh heartbeat thread.
Works(w, s) ==
  /\ doing' = [doing EXCEPT ![w] = "WORK"]
  /\ stage' = [stage EXCEPT ![w] = s]
  /\ beat' = [beat EXCEPT ![w] = "OK"]
  /\ UNCHANGED <<grant, produced, result>>

NoFault == UNCHANGED faults

Fault(kind) == kind \in Faults /\ faults > 0 /\ faults' = faults - 1

\* The server's answers: a statement that applies, and one that does not.
Applied(w, m)  == Progress(w, J(w), F(w), m)
Rejected(w, m) == ~ProgressApplies(w, J(w), F(w), m) /\ UNCHANGED vars
Renewed(w)     == Renew(w, J(w), F(w))
Lost(w)        == ~Holds(w, J(w), F(w)) /\ UNCHANGED vars

\* The call never reached the server, or its answers never came back: it is
\* sent again, or the client has used up its attempts and raises.
Unanswered(w, Effect, gives_up) ==
  \/ Fault("NETWORK_DOWN") /\ UNCHANGED vars /\ gives_up
  \/ Fault("REPLY_LOST") /\ Effect /\ (gives_up \/ UNCHANGED <<doing, stage, grant, beat, produced, result>>)

-----------------------------------------------------------------------------
(* run_once *)

Poll(w) ==
  /\ doing[w] = "IDLE"
  /\ Heartbeat(w)
  /\ Goes(w, "CLAIM") /\ NoFault

\* claim, sent: the statement takes its snapshot, or answers at once that there
\* is nothing to do.
ClaimJob(w) ==
  /\ doing[w] = "CLAIM" /\ NoFault
  /\ \/ BeginClaim(w) /\ Goes(w, "CLAIMING")
     \/ /\ ~Eligible(w) \/ ~GateOpen \/ \A j \in Job : ~Claimable(j)
        /\ Goes(w, "IDLE") /\ UNCHANGED vars

ClaimsOf(w) == {c \in claims : c.worker = w}

\* claim, answered: with an assignment, with none, or with an assignment whose
\* answer is lost: asked again, the control plane has nothing to give.  Or the
\* client gives up while the statement still runs.
ClaimAnswered(w) ==
  /\ doing[w] = "CLAIMING"
  /\ \/ /\ \E c \in ClaimsOf(w) : FinishClaim(c)
        /\ \/ /\ \E j \in Job :
                   /\ lease'[j] # lease[j]
                   /\ grant' = [grant EXCEPT ![w] = [job |-> j, fence |-> lease'[j].fence]]
              /\ doing' = [doing EXCEPT ![w] = "ADVANCE"]
              /\ stage' = [stage EXCEPT ![w] = "CLAIMED"]
              /\ result' = [result EXCEPT ![w] = "NONE"]
              /\ UNCHANGED <<beat, produced>> /\ NoFault
           \/ lease' = lease /\ Goes(w, "IDLE") /\ NoFault
           \/ Fault("REPLY_LOST") /\ Goes(w, "IDLE")
     \/ Fault("NETWORK_DOWN") /\ UNCHANGED vars /\ Goes(w, "IDLE")

\* A claim whose client gave up or died runs on.
ClaimRunsOn(c) ==
  /\ doing[c.worker] = "CLAIMING" => ClaimsOf(c.worker) # {c}
  /\ FinishClaim(c)

-----------------------------------------------------------------------------
(* execute: the calls *)

\* After the transition out of s was accepted.
Accepted(w, s) ==
  CASE s = "CLAIMED"     -> Works(w, "DOWNLOADING")
    [] s = "DOWNLOADING" -> /\ doing' = [doing EXCEPT ![w] = "RENEW_BEFORE"]
                            /\ stage' = [stage EXCEPT ![w] = "OCR"]
                            /\ UNCHANGED <<grant, beat, produced, result>>
    [] s = "OCR"         -> /\ doing' = [doing EXCEPT ![w] = "SESSION"]
                            /\ stage' = [stage EXCEPT ![w] = "UPLOADING"]
                            /\ UNCHANGED <<grant, beat, produced, result>>

\* SLIP (breaks EarlyCancelNeverCompletes): the answer's outcome is not looked at.
OnRejectedIgnored(w) == Accepted(w, stage[w])

\* _progress raises _LeaseLostError.
OnRejected(w) == Goes(w, "CONFIRM")

\* _transition_or_cancel, first half.
Transition(w) ==
  /\ doing[w] = "ADVANCE"
  /\ \/ Applied(w, Advance(stage[w])) /\ Accepted(w, stage[w]) /\ NoFault
     \/ Rejected(w, Advance(stage[w])) /\ OnRejected(w) /\ NoFault
     \/ Unanswered(w, Applied(w, Advance(stage[w])), Goes(w, "REPORT"))

\* SLIP (breaks ReplyIsTrue): a rejected transition is taken for a cancel.
ConfirmAssumed(w) == Ends(w, "CANCELLED")

\* A renewal that says no cancel was requested: the rejection was a lost lease.
NotCancelled(w) == Ends(w, "LEASE_LOST")

\* _transition_or_cancel, second half: one renewal tells a cancel from a lost lease.
Confirm(w) ==
  /\ doing[w] = "CONFIRM"
  /\ \/ /\ Renewed(w) /\ NoFault
        /\ IF CancelSeen(J(w)) THEN Goes(w, "CANCEL_NEXT") ELSE NotCancelled(w)
     \/ Lost(w) /\ Ends(w, "LEASE_LOST") /\ NoFault
     \/ Unanswered(w, Renewed(w), Goes(w, "REPORT"))

\* _renew before and after the pipeline runs.
RenewStep(w) ==
  /\ doing[w] \in {"RENEW_BEFORE", "RENEW_AFTER"}
  /\ \/ /\ Renewed(w) /\ NoFault
        /\ IF CancelSeen(J(w))
           THEN Goes(w, IF doing[w] = "RENEW_BEFORE" THEN "CANCEL" ELSE "CANCEL_NEXT")
           ELSE IF doing[w] = "RENEW_BEFORE" THEN Works(w, "OCR") ELSE Goes(w, "ADVANCE")
     \/ Lost(w) /\ Ends(w, "LEASE_LOST") /\ NoFault
     \/ Unanswered(w, Renewed(w), Goes(w, "REPORT"))

\* _cancel, at the percent of the stage or of the one it was about to enter.
CancelMove(w) ==
  IF doing[w] = "CANCEL" THEN Cancel(stage[w]) ELSE Cancel(After[stage[w]])

Acknowledge(w) ==
  /\ doing[w] \in {"CANCEL", "CANCEL_NEXT"}
  /\ \/ Applied(w, CancelMove(w)) /\ Ends(w, "CANCELLED") /\ NoFault
     \/ Rejected(w, CancelMove(w)) /\ Ends(w, "LEASE_LOST") /\ NoFault
     \/ Unanswered(w, Applied(w, CancelMove(w)), Goes(w, "REPORT"))

\* _report_failure: whatever comes of it, the error goes up to run_once.
Report(w) ==
  /\ doing[w] = "REPORT"
  /\ \/ (Applied(w, Failure(stage[w])) \/ Rejected(w, Failure(stage[w]))) /\ NoFault
     \/ Fault("NETWORK_DOWN") /\ UNCHANGED vars
  /\ Ends(w, "FAILED")

-----------------------------------------------------------------------------
(* execute: the phases *)

Beating(w) == doing[w] = "WORK" /\ beat[w] \in {"OK", "CANCEL"}

Heard(w, b) ==
  /\ beat' = [beat EXCEPT ![w] = b]
  /\ UNCHANGED <<doing, stage, grant, produced, result>>

\* _LeaseHeartbeat._run: an error ends the thread, a cancel is remembered.
Beat(w) ==
  /\ Beating(w)
  /\ \/ Renewed(w) /\ Heard(w, IF CancelSeen(J(w)) THEN "CANCEL" ELSE beat[w]) /\ NoFault
     \/ Lost(w) /\ Heard(w, "LOST") /\ NoFault
     \/ Unanswered(w, Renewed(w), Heard(w, "DOWN"))

\* A phase that went well: check() raises what the thread found, a cancel is
\* honoured unless the upload had already started, and the pipeline's output is
\* digested.
EndPhase(w) ==
  /\ doing[w] = "WORK"
  /\ \/ beat[w] = "LOST" /\ Ends(w, "LEASE_LOST")
     \/ beat[w] = "DOWN" /\ Goes(w, "REPORT")
     \/ beat[w] = "CANCEL" /\ stage[w] # "UPLOADING" /\ Goes(w, "CANCEL")
     \/ beat[w] = "OK" /\ stage[w] = "DOWNLOADING" /\ Goes(w, "ADVANCE")
     \/ /\ beat[w] = "OK" /\ stage[w] = "OCR"
        /\ \E c \in Content : produced' = [produced EXCEPT ![w] = c]
        /\ doing' = [doing EXCEPT ![w] = "RENEW_AFTER"]
        /\ UNCHANGED <<stage, grant, beat, result>>
     \/ beat[w] \in {"OK", "CANCEL"} /\ stage[w] = "UPLOADING" /\ Goes(w, "COMPLETE")
  /\ NoFault /\ UNCHANGED vars

\* A download, pipeline or upload that raises: MediaJobError and OSError are
\* reported; other RuntimeErrors, DriveTransferError among them, are not.
BreakPhase(w) ==
  /\ doing[w] = "WORK"
  /\ Fault("MEDIA_ERROR") /\ UNCHANGED vars
  /\ Goes(w, "REPORT") \/ Ends(w, "FAILED")

-----------------------------------------------------------------------------
(* The two calls whose errors execute does not translate: whatever the      *)
(* control plane or the network answers instead of a success goes past      *)
(* every handler.                                                           *)

\* getFencedExecution, which also wants the project's source.
Execution(w) == Holds(w, J(w), F(w)) /\ hasSource[J(w)]

\* output-session: find or create the Drive file, then reserve the artifact.
Session(w) ==
  LET reserve == ReserveOutput(w, J(w), F(w), produced[w])
      replay  == ReserveReplay(J(w), produced[w])
  IN  /\ doing[w] = "SESSION"
      /\ \/ /\ Execution(w) /\ reserve /\ NoFault
            /\ IF CanInsert(J(w), produced[w]) THEN Works(w, "UPLOADING") ELSE Ends(w, "FAILED")
         \/ Execution(w) /\ replay /\ Works(w, "UPLOADING") /\ NoFault /\ UNCHANGED vars
         \/ ~Execution(w) /\ Ends(w, "FAILED") /\ NoFault /\ UNCHANGED vars
         \/ Unanswered(w, Execution(w) /\ reserve, Ends(w, "FAILED"))

\* complete: without an execution the route still asks for completion, which
\* answers REPLAY when this very artifact is published.
Complete(w) ==
  LET complete == CompleteOutput(w, J(w), F(w), produced[w])
      replay   == output[J(w)][produced[w]] = "READY"
  IN  /\ doing[w] = "COMPLETE"
      /\ \/ Execution(w) /\ complete /\ Ends(w, "COMPLETED") /\ NoFault
         \/ ~Execution(w) /\ complete /\ Ends(w, "FAILED") /\ NoFault
         \/ replay /\ Ends(w, "COMPLETED") /\ NoFault /\ UNCHANGED vars
         \/ ~Holds(w, J(w), F(w)) /\ ~replay /\ Ends(w, "FAILED") /\ NoFault /\ UNCHANGED vars
         \/ Unanswered(w, complete, Ends(w, "FAILED"))

\* The process dies; systemd starts it again, and it knows nothing of its job.
Crash(w) ==
  /\ doing[w] # "IDLE"
  /\ Fault("CRASH") /\ UNCHANGED vars
  /\ Ends(w, "NONE")

Executor(w) ==
  \/ Poll(w) \/ ClaimJob(w) \/ ClaimAnswered(w) \/ Transition(w) \/ Confirm(w) \/ RenewStep(w)
  \/ Acknowledge(w) \/ Report(w) \/ Beat(w) \/ EndPhase(w) \/ BreakPhase(w)
  \/ Session(w) \/ Complete(w)

ControlPlane ==
  /\ \/ \E w \in Worker : Enroll(w)
     \/ \E j \in Job : Queue(j) \/ RequestCancel(j) \/ SourceChanges(j)
     \/ \E c \in claims : ClaimRunsOn(c)
     \/ ExpireWorkersAndLeases
     \/ Tick
  /\ UNCHANGED exVars

MWNext == (\E w \in Worker : Executor(w) \/ Crash(w)) \/ ControlPlane

MWSpec == MWInit /\ [][MWNext]_mwVars

-----------------------------------------------------------------------------
(* Timing and fairness, for liveness only.                                 *)

\* An executor that is inside execute speaks again before its lease runs out:
\* the thread renews every 30 s of 90, and a call with its retries takes less
\* than the rest.  A dead thread does not renew.  And a claim follows its
\* heartbeat within the 90 s that a worker may be silent.
Healthy(w) ==
  /\ Holds(w, J(w), F(w))
  /\ doing[w] \notin {"IDLE", "CLAIM", "CLAIMING"}
  /\ doing[w] = "WORK" => Beating(w)

Timely ==
  Tick => \A w \in Worker : /\ Healthy(w) => lease[J(w)].left > 1
                            /\ doing[w] \in {"CLAIM", "CLAIMING"} => silent[w] < TTL

Proceeds(w) ==
  \/ Poll(w) \/ ClaimJob(w) \/ ClaimAnswered(w) \/ Transition(w) \/ Confirm(w) \/ RenewStep(w)
  \/ Acknowledge(w) \/ Report(w) \/ EndPhase(w) \/ Session(w) \/ Complete(w)

\* Workers are enrolled, poll and go on; phases end; threads beat; statements
\* that the server has begun end; time passes.
\* Nobody has to look at the dashboard.
TimelySpec ==
  /\ MWInit
  /\ [][MWNext /\ Timely]_mwVars
  /\ \A w \in Worker :
       /\ WF_mwVars(Enroll(w) /\ UNCHANGED exVars)
       /\ WF_mwVars(Proceeds(w))
       /\ WF_mwVars(Beat(w))
  /\ WF_mwVars((\E c \in claims : ClaimRunsOn(c)) /\ UNCHANGED exVars)
  /\ WF_mwVars(Tick /\ Timely /\ UNCHANGED exVars)

-----------------------------------------------------------------------------
(* Properties *)

\* What a worker believes is true: when execute returned COMPLETED or CANCELLED
\* the job has that very end, through lost answers, retries and reclaims.
ReplyIsTrue ==
  \A w \in Worker : result[w] \in {"COMPLETED", "CANCELLED"} => jobState[J(w)] = result[w]

\* completeOutput completes a job whose cancel was requested, "a cancel that lands
\* after the upload started".  The statement does not look at when it landed;
\* that an earlier cancel never ends in COMPLETED is the executor's doing.
EarlyCancelNeverCompletes ==
  [][ \A j \in Job :
        jobState[j] = "CANCEL_REQUESTED" /\ jobState'[j] = "COMPLETED"
          => progress[j] = Percent["UPLOADING"] ]_mwVars

\* A queued job is worked off although workers die, answers get lost and
\* nobody looks at the dashboard.
QueuedJobIsWorkedOff ==
  \A j \in Job : jobState[j] = "QUEUED" ~>
    jobState[j] \in {"COMPLETED", "FAILED_RETRYABLE", "CANCELLED", "CANCEL_REQUESTED"}

\* A requested cancel comes to an end although the worker that should have
\* acknowledged it died, provided somebody keeps looking at the dashboard: the
\* sweep that a load of it runs is the only other way to the end.
CancelIsFinished ==
  WF_mwVars(ExpireWorkersAndLeases /\ UNCHANGED exVars) =>
    \A j \in Job : jobState[j] = "CANCEL_REQUESTED" ~> jobState[j] # "CANCEL_REQUESTED"

\* run_once swallows every RuntimeError because "the executor already
\* best-effort reported FAILED_RETRYABLE": a failed execution does not leave
\* its job running under a lease that nobody will renew.
FailureIsReported ==
  \A w \in Worker : doing[w] = "IDLE" /\ result[w] = "FAILED" =>
    ~(Holds(w, J(w), F(w)) /\ jobState[J(w)] \in LeasedStates)
=============================================================================
