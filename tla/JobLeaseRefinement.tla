------------------------- MODULE JobLeaseRefinement -------------------------
(***************************************************************************)
(* JobLease implements FencedQueue: the job's state is read as its phase,  *)
(* its attempts as the grants and its live lease as the grant held.        *)
(***************************************************************************)
EXTENDS JobLease

\* States that wait for a person or a quota; no expired lease makes them claimable.
PausedStates == {"REVIEW_READY", "PAUSED_REVIEW", "PAUSED_QUOTA", "PAUSED_NO_WORKER"}

phaseOf(s) ==
  CASE s = "ABSENT"                  -> "absent"
    [] s = "QUEUED"                  -> "waiting"
    [] s = "CANCEL_REQUESTED"        -> "stopping"
    [] s = "FAILED_RETRYABLE"        -> "parked"
    [] s = "COMPLETED"               -> "done"
    [] s = "CANCELLED"               -> "cancelled"
    [] s = "FAILED_FINAL"            -> "failed"
    [] s \in {"DELETING", "DELETED"} -> "deleted"
    [] s \in PausedStates            -> "paused"
    [] OTHER                         -> "running"

GrantsOf(S) == {[worker |-> a.worker, token |-> a.fence] : a \in S}

\* Whoever holds an unexpired lease may act, whatever the job's state is.
HeldGrant(j) ==
  IF Live(j) THEN {[worker |-> lease[j].worker, token |-> lease[j].fence]} ELSE {}

Queued == INSTANCE FencedQueue WITH
  phase     <- [j \in Job |-> phaseOf(jobState[j])],
  grants    <- [j \in Job |-> GrantsOf({a \in attempts : a.job = j})],
  holding   <- [j \in Job |-> HeldGrant(j)],
  published <- [j \in Job |-> \E c \in Content : output[j][c] = "READY"]

\* Every behaviour of the tables is a behaviour of the fenced queue: grants
\* with growing tokens, one holder of a job at a time, reports and publication
\* by the holder only, cancels and ends that stick.
ImplementsFencedQueue == Queued!FQSpec
=============================================================================
