------------------------------ MODULE LeaseRaces ------------------------------
(***************************************************************************)
(* The statements of JobLease taken apart.  A route stamps the time, the   *)
(* statement runs later, and PostgreSQL runs it at READ COMMITTED (the     *)
(* neon() client sets no other level): it reads one snapshot, waits for    *)
(* the row locks it needs, and re-checks its condition only on the rows it *)
(* writes, as they are by then.                                            *)
(*                                                                         *)
(* One call per worker and one sweep at a time are under way.  Locks are   *)
(* held from the snapshot to the commit of a claim (FOR UPDATE SKIP        *)
(* LOCKED); the other statements write their rows at their commit.         *)
(* Outputs, cancels and worker states are those of JobLease and left out.  *)
(***************************************************************************)
EXTENDS Naturals

CONSTANTS
  Job,       \* jobs, numbered in the order of jobs.created_at
  Worker,    \* READY workers
  TTL,       \* ticks in the 90 s of a lease
  MaxTime,   \* BOUND on the clock
  MaxFence   \* BOUND on fencing tokens

ASSUME RacesAssumption ==
  /\ Job \subseteq Nat
  /\ TTL \in Nat \ {0}
  /\ MaxTime \in Nat
  /\ MaxFence \in Nat \ {0}

VARIABLES
  now,        \* the clock all serverless instances share
  jobState,   \* jobs.state
  lease,      \* the job_leases row of each job, or NoLease
  granted,    \* the job and token of every attempt ever inserted
  request,    \* the request of each worker, from its stamp to its commit
  sweep       \* the sweep under way

lrVars == <<now, jobState, lease, granted, request, sweep>>

NoLease == [worker |-> 0, fence |-> 0, expires |-> 0]
NoCall    == [kind |-> "IDLE"]

LeasedStates == {"CLAIMED", "DOWNLOADING"}   \* those this instance reaches
States == LeasedStates \cup {"QUEUED", "FAILED_RETRYABLE"}

Leased(j)      == lease[j].fence > 0
LiveAt(j, t)   == Leased(j) /\ lease[j].expires > t
HeldBy(w, j, f)  == lease[j].worker = w /\ lease[j].fence = f

\* Rows of jobs locked by a claim between its snapshot and its commit.
Locked(j) == \E w \in Worker : request[w].kind = "CLAIMING" /\ request[w].job = j

LRInit ==
  /\ now = 0
  /\ jobState = [j \in Job |-> "QUEUED"]
  /\ lease = [j \in Job |-> NoLease]
  /\ granted = {}
  /\ request = [w \in Worker |-> NoCall]
  /\ sweep = NoCall

ClockTicks == now < MaxTime /\ now' = now + 1 /\ UNCHANGED <<jobState, lease, granted, request, sweep>>

Becomes(w, c) == request' = [request EXCEPT ![w] = c]
Done(w)       == Becomes(w, NoCall)

-----------------------------------------------------------------------------
(* claimJob *)

StampClaim(w) ==
  /\ request[w] = NoCall
  /\ Becomes(w, [kind |-> "CLAIM", at |-> now])
  /\ UNCHANGED <<now, jobState, lease, granted, sweep>>

Claimable(j, t) ==
  \/ jobState[j] = "QUEUED"
  \/ jobState[j] \in LeasedStates /\ Leased(j) /\ ~LiveAt(j, t)

Candidates(t) ==
  {j \in Job : Claimable(j, t) /\ ~Locked(j) /\ \A k \in Job : ~LiveAt(k, t)}

\* candidate: the snapshot shows no live lease, and the oldest claimable row that
\* nobody has locked is locked.
ReadClaim(w) ==
  /\ request[w].kind = "CLAIM"
  /\ LET C == Candidates(request[w].at)
     IN  IF C = {} THEN Done(w)
         ELSE \E j \in C : /\ \A k \in C : j <= k
                           /\ Becomes(w, [kind |-> "CLAIMING", at |-> request[w].at, job |-> j])
  /\ UNCHANGED <<now, jobState, lease, granted, sweep>>

\* SLIP (breaks TokenNamesOneGrant): the conflicting row keeps its token.
SameToken(j) == IF Leased(j) THEN lease[j].fence ELSE 1

NextToken(j) == lease[j].fence + 1

\* SLIP (breaks NeverStolen): "where job_leases.expires_at<=$2" is forgotten.
TakesAnyRow(w, j) == TRUE

\* leased: the upsert looks at the row of the locked job as it is by now.
TakesRow(w, j) == ~LiveAt(j, request[w].at)

CommitClaim(w) ==
  /\ request[w].kind = "CLAIMING"
  /\ LET j == request[w].job
     IN  IF ~TakesRow(w, j)
         THEN UNCHANGED <<jobState, lease, granted>>
         ELSE /\ NextToken(j) <= MaxFence
              /\ lease' = [lease EXCEPT ![j] = [worker |-> w, fence |-> NextToken(j),
                                                expires |-> request[w].at + TTL]]
              /\ granted' = granted \cup {[job |-> j, worker |-> w, fence |-> NextToken(j)]}
              /\ jobState' = [jobState EXCEPT ![j] = "CLAIMED"]
  /\ Done(w)
  /\ UNCHANGED <<now, sweep>>

-----------------------------------------------------------------------------
(* renewLease: the only table it writes is the one its condition is about.  *)

StampRenew(w) ==
  /\ request[w] = NoCall
  /\ \E g \in granted :
       /\ g.worker = w
       /\ Becomes(w, [kind |-> "RENEW", at |-> now, job |-> g.job, fence |-> g.fence])
  /\ UNCHANGED <<now, jobState, lease, granted, sweep>>

RenewLease(w) ==
  /\ request[w].kind = "RENEW"
  /\ LET c == request[w]
     IN  IF HeldBy(w, c.job, c.fence) /\ LiveAt(c.job, c.at)
         THEN lease' = [lease EXCEPT ![c.job].expires = c.at + TTL]
         ELSE UNCHANGED lease
  /\ Done(w)
  /\ UNCHANGED <<now, jobState, granted, sweep>>

-----------------------------------------------------------------------------
(* updateJobProgress: writes jobs and re-checks the state there; the lease  *)
(* it joins is the one of its snapshot.                                     *)

Reports == {"DOWNLOADING", "FAILED_RETRYABLE"}   \* both from CLAIMED

StampProgress(w) ==
  /\ request[w] = NoCall
  /\ \E g \in granted, to \in Reports :
       /\ g.worker = w
       /\ Becomes(w, [kind |-> "PROGRESS", at |-> now, job |-> g.job, fence |-> g.fence, to |-> to])
  /\ UNCHANGED <<now, jobState, lease, granted, sweep>>

ReadProgress(w) ==
  /\ request[w].kind = "PROGRESS"
  /\ LET c == request[w]
     IN  IF HeldBy(w, c.job, c.fence) /\ LiveAt(c.job, c.at) /\ jobState[c.job] = "CLAIMED"
         THEN Becomes(w, [c EXCEPT !.kind = "PROGRESSING"])
         ELSE Done(w)
  /\ UNCHANGED <<now, jobState, lease, granted, sweep>>

CommitProgress(w) ==
  /\ request[w].kind = "PROGRESSING"
  /\ ~Locked(request[w].job)
  /\ LET c == request[w]
     IN  IF jobState[c.job] = "CLAIMED"
         THEN /\ jobState' = [jobState EXCEPT ![c.job] = c.to]
              /\ lease' = IF c.to = "FAILED_RETRYABLE" /\ HeldBy(w, c.job, c.fence)
                          THEN [lease EXCEPT ![c.job] = NoLease] ELSE lease
         ELSE UNCHANGED <<jobState, lease>>
  /\ Done(w)
  /\ UNCHANGED <<now, granted, sweep>>

-----------------------------------------------------------------------------
(* expireWorkersAndLeases: expired is read once, jobs are requeued later.   *)

StampSweep ==
  /\ sweep = NoCall
  /\ sweep' = [kind |-> "SWEEP", at |-> now]
  /\ UNCHANGED <<now, jobState, lease, granted, request>>

ReadSweep ==
  /\ sweep.kind = "SWEEP"
  /\ sweep' = [kind |-> "SWEEPING", expired |-> {j \in Job : Leased(j) /\ ~LiveAt(j, sweep.at)}]
  /\ UNCHANGED <<now, jobState, lease, granted, request>>

CommitSweep ==
  /\ sweep.kind = "SWEEPING"
  /\ \A j \in sweep.expired : ~Locked(j)
  /\ jobState' = [j \in Job |-> IF j \in sweep.expired /\ jobState[j] \in LeasedStates
                                THEN "QUEUED" ELSE jobState[j]]
  /\ sweep' = NoCall
  /\ UNCHANGED <<now, lease, granted, request>>

LRNext ==
  \/ \E w \in Worker :
       \/ StampClaim(w) \/ ReadClaim(w) \/ CommitClaim(w)
       \/ StampRenew(w) \/ RenewLease(w)
       \/ StampProgress(w) \/ ReadProgress(w) \/ CommitProgress(w)
  \/ StampSweep \/ ReadSweep \/ CommitSweep
  \/ ClockTicks

LRSpec == LRInit /\ [][LRNext]_lrVars

-----------------------------------------------------------------------------
(* What the statements keep even so. *)

\* A token names one grant of its job: the row lock and the upsert's second look
\* keep two claims of the same job from handing out the same token.
TokenNamesOneGrant ==
  \A a, b \in granted : a.job = b.job /\ a.fence = b.fence => a = b

\* A claim never takes a job from a worker whose lease is live when it commits,
\* though a renewal may have come in after the claim read its snapshot.
NeverStolen ==
  [][ \A w \in Worker, j \in Job :
        /\ request[w].kind = "CLAIMING" /\ request[w].job = j
        /\ lease'[j] # lease[j] /\ lease'[j].worker = w /\ request'[w] = NoCall
        => ~LiveAt(j, now) ]_lrVars

=============================================================================
