----------------------------- MODULE MCJobLease -----------------------------
(***************************************************************************)
(* Small instances of JobLease: the progress reports that clients send.    *)
(***************************************************************************)
EXTENDS JobLeaseRefinement, TLC

Move(from, to, percent) == [from |-> from, to |-> to, percent |-> percent]

\* Every report that the server takes, at one percent.
AllMoves == UNION {{Move(s, t, 50) : t \in next[s]} : s \in JOB_STATES}

\* One working step, one failure and one acknowledged cancel: what two claimed
\* jobs need to be lost, released and cancelled in every order.
BriefMoves ==
  { Move("CLAIMED", "DOWNLOADING", 5), Move("CLAIMED", "FAILED_RETRYABLE", 0),
    Move("CANCEL_REQUESTED", "CANCELLED", 5) }

\* The way to an end that is reported instead of published.
CompletionMoves ==
  { Move("CLAIMED", "DOWNLOADING", 5), Move("DOWNLOADING", "OCR", 20),
    Move("OCR", "UPLOADING", 90), Move("UPLOADING", "COMPLETED", 100) }

Symmetry == Permutations(Worker) \cup Permutations(Content)
=============================================================================
