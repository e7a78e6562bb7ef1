--------------------------- MODULE LeaseRacesProofs ---------------------------
(***************************************************************************)
(* What the races of LeaseRaces cannot break, for any number of jobs and   *)
(* workers, any clock and any number of grants: a token names one grant of *)
(* its job, and a claim takes no live lease.                               *)
(***************************************************************************)
EXTENDS LeaseRaces, TLAPS

Leases == [worker : Worker \cup {0}, fence : Nat, expires : Nat]
Grants == [job : Job, worker : Worker, fence : Nat]

\* A request, from its stamp to its commit.
Calls ==
  {NoCall}
    \cup [kind : {"CLAIM"}, at : Nat]
    \cup [kind : {"CLAIMING"}, at : Nat, job : Job]
    \cup [kind : {"RENEW"}, at : Nat, job : Job, fence : Nat]
    \cup [kind : {"PROGRESS", "PROGRESSING"}, at : Nat, job : Job, fence : Nat, to : Reports]

TypeOK ==
  /\ now \in Nat
  /\ jobState \in [Job -> States]
  /\ lease \in [Job -> Leases]
  /\ granted \subseteq Grants
  /\ request \in [Worker -> Calls]

\* A claim is stamped before it commits.
StampsArePast ==
  \A w \in Worker : request[w].kind \in {"CLAIM", "CLAIMING"} => request[w].at <= now

\* Only an end forgets the tokens of a job: until then its row holds the newest.
LeaseHoldsNewest ==
  \A g \in granted : jobState[g.job] # "FAILED_RETRYABLE" => g.fence <= lease[g.job].fence

\* And an ended job is not being claimed: its row is locked from the snapshot on.
ClaimsTheUnended ==
  \A w \in Worker : request[w].kind = "CLAIMING" => jobState[request[w].job] # "FAILED_RETRYABLE"

RacesInv ==
  TypeOK /\ StampsArePast /\ LeaseHoldsNewest /\ ClaimsTheUnended /\ TokenNamesOneGrant

-----------------------------------------------------------------------------
(* What a call may be, by its kind. *)

LEMMA CallsByKind ==
  ASSUME NEW c \in Calls
  PROVE  /\ c.kind \in {"CLAIM", "CLAIMING", "RENEW", "PROGRESS", "PROGRESSING"} => c.at \in Nat
         /\ c.kind \in {"CLAIMING", "RENEW", "PROGRESS", "PROGRESSING"} => c.job \in Job
         /\ c.kind \in {"RENEW", "PROGRESS", "PROGRESSING"} => c.fence \in Nat
         /\ c.kind \in {"PROGRESS", "PROGRESSING"} =>
               /\ c.to \in Reports
               /\ [c EXCEPT !.kind = "PROGRESSING"] \in Calls
               /\ [c EXCEPT !.kind = "PROGRESSING"].kind = "PROGRESSING"
BY DEF Calls, NoCall

\* One more request of a worker.
LEMMA Becoming ==
  ASSUME request \in [Worker -> Calls], NEW w \in Worker, NEW c \in Calls, Becomes(w, c)
  PROVE  /\ request' \in [Worker -> Calls]
         /\ request'[w] = c
         /\ \A v \in Worker : v # w => request'[v] = request[v]
BY DEF Becomes

LEMMA IdleIsACall == NoCall \in Calls /\ NoCall.kind = "IDLE"
BY DEF Calls, NoCall

-----------------------------------------------------------------------------
LEMMA RacesInitInv == LRInit => RacesInv
<1> SUFFICES ASSUME LRInit PROVE RacesInv
  OBVIOUS
<1>1. TypeOK
  BY IdleIsACall DEF LRInit, TypeOK, States, Leases, NoLease
<1>2. StampsArePast /\ LeaseHoldsNewest /\ ClaimsTheUnended /\ TokenNamesOneGrant
  BY DEF LRInit, StampsArePast, LeaseHoldsNewest, ClaimsTheUnended, TokenNamesOneGrant, NoCall
<1> QED BY <1>1, <1>2 DEF RacesInv

\* A request that leaves the tables alone keeps the invariant when it is a
\* request, stamped in the past, and claims no ended job.
LEMMA RequestKeeps ==
  ASSUME RacesInv, NEW w \in Worker, NEW c \in Calls, Becomes(w, c),
         UNCHANGED <<now, jobState, lease, granted>>,
         c.kind \in {"CLAIM", "CLAIMING"} => c.at <= now,
         c.kind = "CLAIMING" => jobState[c.job] # "FAILED_RETRYABLE"
  PROVE  RacesInv'
<1>1. /\ request' \in [Worker -> Calls] /\ request'[w] = c
      /\ \A v \in Worker : v # w => request'[v] = request[v]
  BY Becoming DEF RacesInv, TypeOK
<1>2. TypeOK'
  BY <1>1 DEF RacesInv, TypeOK
<1>3. StampsArePast' /\ ClaimsTheUnended'
  BY <1>1 DEF RacesInv, StampsArePast, ClaimsTheUnended
<1>4. LeaseHoldsNewest' /\ TokenNamesOneGrant'
  BY DEF RacesInv, LeaseHoldsNewest, TokenNamesOneGrant
<1> QED BY <1>2, <1>3, <1>4 DEF RacesInv

\* The upsert: a new token is greater than every token of its job.
LEMMA CommitClaimKeeps ==
  ASSUME RacesInv, NEW w \in Worker, CommitClaim(w)
  PROVE  RacesInv'
<1> DEFINE j == request[w].job
<1> DEFINE f == NextToken(j)
<1> DEFINE row == [worker |-> w, fence |-> f, expires |-> request[w].at + TTL]
<1> DEFINE g == [job |-> j, worker |-> w, fence |-> f]
<1>1. request[w].kind = "CLAIMING" /\ request[w].at \in Nat /\ j \in Job
  BY CallsByKind DEF CommitClaim, RacesInv, TypeOK
<1>2. jobState[j] # "FAILED_RETRYABLE"
  BY <1>1 DEF RacesInv, ClaimsTheUnended
<1>3. CASE ~TakesRow(w, j)
  <2>1. UNCHANGED <<now, jobState, lease, granted>> /\ Becomes(w, NoCall)
    BY <1>3 DEF CommitClaim, Done
  <2> QED BY <2>1, RequestKeeps, IdleIsACall
<1>4. CASE TakesRow(w, j)
  <2>1. /\ lease' = [lease EXCEPT ![j] = row]
        /\ granted' = granted \cup {g}
        /\ jobState' = [jobState EXCEPT ![j] = "CLAIMED"]
        /\ Becomes(w, NoCall) /\ now' = now
    BY <1>4 DEF CommitClaim, Done
  <2>2. /\ request' \in [Worker -> Calls] /\ request'[w] = NoCall
        /\ \A v \in Worker : v # w => request'[v] = request[v]
    BY <2>1, Becoming, IdleIsACall DEF RacesInv, TypeOK
  <2>3. lease[j].fence \in Nat /\ f = lease[j].fence + 1 /\ f \in Nat
    BY <1>1 DEF RacesInv, TypeOK, Leases, NextToken
  <2>4. row \in Leases /\ row.fence = f
    BY <1>1, <2>3, RacesAssumption DEF Leases
  <2>5. g \in Grants /\ g.job = j /\ g.fence = f
    BY <1>1, <2>3 DEF Grants
  <2>6. \A a \in granted : a \in Grants /\ (a.job = j => a.fence <= lease[j].fence)
    BY <1>2 DEF RacesInv, TypeOK, LeaseHoldsNewest
  <2>7. /\ lease'[j] = row /\ \A k \in Job : k # j => lease'[k] = lease[k]
        /\ jobState'[j] = "CLAIMED" /\ \A k \in Job : k # j => jobState'[k] = jobState[k]
    BY <1>1, <2>1 DEF RacesInv, TypeOK
  <2> HIDE DEF j, f, row, g
  <2>8. TypeOK'
    <3>1. lease' \in [Job -> Leases] /\ granted' \subseteq Grants
      BY <1>1, <2>1, <2>4, <2>5 DEF RacesInv, TypeOK
    <3>2. jobState' \in [Job -> States]
      BY <1>1, <2>1 DEF RacesInv, TypeOK, States, LeasedStates
    <3> QED BY <2>1, <2>2, <3>1, <3>2 DEF RacesInv, TypeOK
  <2>9. StampsArePast'
    BY <2>1, <2>2, IdleIsACall DEF RacesInv, StampsArePast
  <2>10. ClaimsTheUnended'
    <3> SUFFICES ASSUME NEW v \in Worker, request'[v].kind = "CLAIMING"
                 PROVE  jobState'[request'[v].job] # "FAILED_RETRYABLE"
      BY DEF ClaimsTheUnended
    <3>1. request'[v] = request[v]
      BY <2>2, IdleIsACall
    <3>2. request[v].job \in Job
      BY <3>1, CallsByKind DEF RacesInv, TypeOK
    <3> QED BY <2>7, <3>1, <3>2 DEF RacesInv, ClaimsTheUnended
  <2>11. LeaseHoldsNewest'
    <3> SUFFICES ASSUME NEW a \in granted', jobState'[a.job] # "FAILED_RETRYABLE"
                 PROVE  a.fence <= lease'[a.job].fence
      BY DEF LeaseHoldsNewest
    <3>1. CASE a = g
      BY <2>3, <2>4, <2>5, <2>7, <3>1
    <3>2. CASE a \in granted /\ a.job = j
      <4>1. a.fence \in Nat
        BY <2>6, <3>2 DEF Grants
      <4> QED BY <2>3, <2>4, <2>6, <2>7, <3>2, <4>1
    <3>3. CASE a \in granted /\ a.job # j
      <4>1. a.job \in Job
        BY <2>6, <3>3 DEF Grants
      <4> QED BY <2>7, <3>3, <4>1 DEF RacesInv, LeaseHoldsNewest
    <3> QED BY <2>1, <3>1, <3>2, <3>3
  <2>12. TokenNamesOneGrant'
    <3> SUFFICES ASSUME NEW a \in granted', NEW b \in granted', a.job = b.job, a.fence = b.fence
                 PROVE  a = b
      BY DEF TokenNamesOneGrant
    <3>1. CASE a \in granted /\ b \in granted
      BY <3>1 DEF RacesInv, TokenNamesOneGrant
    <3>2. \A c \in granted : ~(c.job = j /\ c.fence = f)
      BY <2>3, <2>6
    <3> QED BY <2>1, <2>5, <3>1, <3>2
  <2> QED BY <2>8, <2>9, <2>10, <2>11, <2>12 DEF RacesInv
<1> QED BY <1>3, <1>4

\* An end drops the row, but waits for the lock of a claim.
LEMMA CommitProgressKeeps ==
  ASSUME RacesInv, NEW w \in Worker, CommitProgress(w)
  PROVE  RacesInv'
<1> DEFINE c == request[w]
<1>1. c.kind = "PROGRESSING" /\ c.job \in Job /\ c.to \in Reports /\ ~Locked(c.job)
  BY CallsByKind DEF CommitProgress, RacesInv, TypeOK
<1>2. Becomes(w, NoCall) /\ UNCHANGED <<now, granted>>
  BY DEF CommitProgress, Done
<1>3. CASE jobState[c.job] # "CLAIMED"
  BY <1>2, <1>3, RequestKeeps, IdleIsACall DEF CommitProgress
<1>4. CASE jobState[c.job] = "CLAIMED"
  <2>1. /\ jobState' = [jobState EXCEPT ![c.job] = c.to]
        /\ \/ lease' = lease
           \/ c.to = "FAILED_RETRYABLE" /\ lease' = [lease EXCEPT ![c.job] = NoLease]
    BY <1>4 DEF CommitProgress
  <2>2. /\ request' \in [Worker -> Calls] /\ request'[w] = NoCall
        /\ \A v \in Worker : v # w => request'[v] = request[v]
    BY <1>2, Becoming, IdleIsACall DEF RacesInv, TypeOK
  <2>3. /\ jobState'[c.job] = c.to
        /\ \A k \in Job : k # c.job => jobState'[k] = jobState[k] /\ lease'[k] = lease[k]
        /\ c.to # "FAILED_RETRYABLE" => lease' = lease
    BY <1>1, <2>1 DEF RacesInv, TypeOK
  <2>4. TypeOK'
    <3>1. lease' \in [Job -> Leases]
      BY <2>1 DEF RacesInv, TypeOK, NoLease, Leases
    <3>2. jobState' \in [Job -> States]
      BY <1>1, <2>1 DEF RacesInv, TypeOK, States, LeasedStates, Reports
    <3> QED BY <1>2, <2>2, <3>1, <3>2 DEF RacesInv, TypeOK
  <2>5. StampsArePast'
    BY <1>2, <2>2, IdleIsACall DEF RacesInv, StampsArePast
  <2>6. ClaimsTheUnended'
    <3> SUFFICES ASSUME NEW v \in Worker, request'[v].kind = "CLAIMING"
                 PROVE  jobState'[request'[v].job] # "FAILED_RETRYABLE"
      BY DEF ClaimsTheUnended
    <3>1. request'[v] = request[v]
      BY <2>2, IdleIsACall
    <3>2. request[v].job \in Job /\ request[v].job # c.job
      BY <1>1, <3>1, CallsByKind DEF RacesInv, TypeOK, Locked
    <3> QED BY <2>3, <3>1, <3>2 DEF RacesInv, ClaimsTheUnended
  <2>7. LeaseHoldsNewest'
    <3> SUFFICES ASSUME NEW a \in granted, jobState'[a.job] # "FAILED_RETRYABLE"
                 PROVE  a.fence <= lease'[a.job].fence
      BY <1>2 DEF LeaseHoldsNewest
    <3>1. a.job \in Job
      BY DEF RacesInv, TypeOK, Grants
    <3>2. lease'[a.job] = lease[a.job] /\ jobState[a.job] # "FAILED_RETRYABLE"
      BY <1>4, <2>3, <3>1
    <3> QED BY <3>2 DEF RacesInv, LeaseHoldsNewest
  <2>8. TokenNamesOneGrant'
    BY <1>2 DEF RacesInv, TokenNamesOneGrant
  <2> QED BY <2>4, <2>5, <2>6, <2>7, <2>8 DEF RacesInv
<1> QED BY <1>3, <1>4

\* A renewal moves the end of a lease, nothing else.
LEMMA RenewKeeps ==
  ASSUME RacesInv, NEW w \in Worker, RenewLease(w)
  PROVE  RacesInv'
<1> DEFINE c == request[w]
<1>1. c.kind = "RENEW" /\ c.at \in Nat /\ c.job \in Job
  BY CallsByKind DEF RenewLease, RacesInv, TypeOK
<1>2. Becomes(w, NoCall) /\ UNCHANGED <<now, jobState, granted>>
  BY DEF RenewLease, Done
<1>3. lease' = lease \/ lease' = [lease EXCEPT ![c.job].expires = c.at + TTL]
  BY DEF RenewLease
<1>4. lease' \in [Job -> Leases] /\ \A k \in Job : lease'[k].fence = lease[k].fence
  BY <1>1, <1>3, RacesAssumption DEF RacesInv, TypeOK, Leases
<1>5. /\ request' \in [Worker -> Calls] /\ request'[w] = NoCall
      /\ \A v \in Worker : v # w => request'[v] = request[v]
  BY <1>2, Becoming, IdleIsACall DEF RacesInv, TypeOK
<1>6. TypeOK'
  BY <1>2, <1>4, <1>5 DEF RacesInv, TypeOK
<1>7. StampsArePast' /\ ClaimsTheUnended'
  BY <1>2, <1>5, IdleIsACall DEF RacesInv, StampsArePast, ClaimsTheUnended
<1>8. LeaseHoldsNewest'
  BY <1>2, <1>4 DEF RacesInv, TypeOK, LeaseHoldsNewest, Grants
<1>9. TokenNamesOneGrant'
  BY <1>2 DEF RacesInv, TokenNamesOneGrant
<1> QED BY <1>6, <1>7, <1>8, <1>9 DEF RacesInv

\* The sweep requeues jobs that have not ended.
LEMMA CommitSweepKeeps ==
  ASSUME RacesInv, CommitSweep
  PROVE  RacesInv'
<1>1. UNCHANGED <<now, lease, granted, request>>
  BY DEF CommitSweep
<1>2. jobState' \in [Job -> States]
  BY DEF CommitSweep, RacesInv, TypeOK, States
<1>3. \A j \in Job : jobState[j] = "FAILED_RETRYABLE" <=> jobState'[j] = "FAILED_RETRYABLE"
  BY DEF CommitSweep, LeasedStates
<1>4. \A w \in Worker : request[w].kind = "CLAIMING" => request[w].job \in Job
  BY CallsByKind DEF RacesInv, TypeOK
<1>5. \A g \in granted : g.job \in Job
  BY DEF RacesInv, TypeOK, Grants
<1> QED BY <1>1, <1>2, <1>3, <1>4, <1>5
        DEF RacesInv, TypeOK, StampsArePast, LeaseHoldsNewest, ClaimsTheUnended, TokenNamesOneGrant

LEMMA RacesStep == RacesInv /\ [LRNext]_lrVars => RacesInv'
<1> SUFFICES ASSUME RacesInv, [LRNext]_lrVars PROVE RacesInv'
  OBVIOUS
<1>1. ASSUME NEW w \in Worker, StampClaim(w) PROVE RacesInv'
  <2> DEFINE c == [kind |-> "CLAIM", at |-> now]
  <2>1. c \in Calls /\ c.kind = "CLAIM" /\ c.at <= now
    BY DEF RacesInv, TypeOK, Calls
  <2>2. Becomes(w, c) /\ UNCHANGED <<now, jobState, lease, granted>>
    BY <1>1 DEF StampClaim
  <2> HIDE DEF c
  <2> QED BY <2>1, <2>2, RequestKeeps
<1>2. ASSUME NEW w \in Worker, ReadClaim(w) PROVE RacesInv'
  <2>1. UNCHANGED <<now, jobState, lease, granted>>
    BY <1>2 DEF ReadClaim
  <2>2. CASE Becomes(w, NoCall)
    BY <2>1, <2>2, RequestKeeps, IdleIsACall
  <2>3. ASSUME NEW j \in Candidates(request[w].at),
               Becomes(w, [kind |-> "CLAIMING", at |-> request[w].at, job |-> j])
        PROVE  RacesInv'
    <3> DEFINE c == [kind |-> "CLAIMING", at |-> request[w].at, job |-> j]
    <3>1. request[w].at \in Nat /\ request[w].at <= now
      BY <1>2, CallsByKind DEF ReadClaim, RacesInv, TypeOK, StampsArePast
    <3>2. j \in Job /\ jobState[j] # "FAILED_RETRYABLE"
      BY DEF Candidates, Claimable, LeasedStates
    <3>3. c \in Calls /\ c.kind = "CLAIMING" /\ c.at <= now /\ c.job = j
      BY <3>1, <3>2 DEF Calls
    <3>4. Becomes(w, c)
      BY <2>3
    <3> HIDE DEF c
    <3> QED BY <2>1, <3>2, <3>3, <3>4, RequestKeeps
  <2> QED BY <1>2, <2>2, <2>3 DEF ReadClaim, Done
<1>3. ASSUME NEW w \in Worker, StampRenew(w) PROVE RacesInv'
  <2>1. PICK g \in granted :
           Becomes(w, [kind |-> "RENEW", at |-> now, job |-> g.job, fence |-> g.fence])
    BY <1>3 DEF StampRenew
  <2> DEFINE c == [kind |-> "RENEW", at |-> now, job |-> g.job, fence |-> g.fence]
  <2>2. c \in Calls /\ c.kind = "RENEW"
    BY DEF RacesInv, TypeOK, Grants, Calls
  <2>3. Becomes(w, c) /\ UNCHANGED <<now, jobState, lease, granted>>
    BY <1>3, <2>1 DEF StampRenew
  <2> HIDE DEF c
  <2> QED BY <2>2, <2>3, RequestKeeps
<1>4. ASSUME NEW w \in Worker, StampProgress(w) PROVE RacesInv'
  <2>1. PICK g \in granted, to \in Reports :
           Becomes(w, [kind |-> "PROGRESS", at |-> now, job |-> g.job, fence |-> g.fence,
                       to |-> to])
    BY <1>4 DEF StampProgress
  <2> DEFINE c == [kind |-> "PROGRESS", at |-> now, job |-> g.job, fence |-> g.fence, to |-> to]
  <2>2. c \in Calls /\ c.kind = "PROGRESS"
    BY DEF RacesInv, TypeOK, Grants, Calls
  <2>3. Becomes(w, c) /\ UNCHANGED <<now, jobState, lease, granted>>
    BY <1>4, <2>1 DEF StampProgress
  <2> HIDE DEF c
  <2> QED BY <2>2, <2>3, RequestKeeps
<1>5. ASSUME NEW w \in Worker, ReadProgress(w) PROVE RacesInv'
  <2>1. UNCHANGED <<now, jobState, lease, granted>>
    BY <1>5 DEF ReadProgress
  <2>2. CASE Becomes(w, NoCall)
    BY <2>1, <2>2, RequestKeeps, IdleIsACall
  <2>3. CASE Becomes(w, [request[w] EXCEPT !.kind = "PROGRESSING"])
    <3> DEFINE c == [request[w] EXCEPT !.kind = "PROGRESSING"]
    <3>1. c \in Calls /\ c.kind = "PROGRESSING"
      BY <1>5, CallsByKind DEF ReadProgress, RacesInv, TypeOK
    <3>2. Becomes(w, c)
      BY <2>3
    <3> HIDE DEF c
    <3> QED BY <2>1, <3>1, <3>2, RequestKeeps
  <2> QED BY <1>5, <2>2, <2>3 DEF ReadProgress, Done
<1>6. CASE StampSweep \/ ReadSweep \/ UNCHANGED lrVars
  <2>1. UNCHANGED <<now, jobState, lease, granted, request>>
    BY <1>6 DEF StampSweep, ReadSweep, lrVars
  <2> QED BY <2>1 DEF RacesInv, TypeOK, StampsArePast, LeaseHoldsNewest, ClaimsTheUnended,
                      TokenNamesOneGrant
<1>7. CASE ClockTicks
  <2>1. now' = now + 1 /\ UNCHANGED <<jobState, lease, granted, request>>
    BY <1>7 DEF ClockTicks
  <2>2. StampsArePast'
    <3> SUFFICES ASSUME NEW w \in Worker, request[w].kind \in {"CLAIM", "CLAIMING"}
                 PROVE  request[w].at <= now + 1
      BY <2>1 DEF StampsArePast
    <3>1. request[w].at \in Nat /\ request[w].at <= now /\ now \in Nat
      BY CallsByKind DEF RacesInv, TypeOK, StampsArePast
    <3> QED BY <3>1
  <2> QED BY <2>1, <2>2 DEF RacesInv, TypeOK, LeaseHoldsNewest, ClaimsTheUnended,
                            TokenNamesOneGrant
<1> QED BY <1>1, <1>2, <1>3, <1>4, <1>5, <1>6, <1>7, CommitClaimKeeps, CommitProgressKeeps,
           RenewKeeps, CommitSweepKeeps DEF LRNext

\* A token names one grant of its job, though claims, ends and sweeps of other
\* instances come between a statement's snapshot and its commit.
THEOREM TokensNameGrants == LRSpec => []TokenNamesOneGrant
<1>1. RacesInv => TokenNamesOneGrant
  BY DEF RacesInv
<1> QED BY <1>1, RacesInitInv, RacesStep, PTL DEF LRSpec

-----------------------------------------------------------------------------
\* A claim takes a job only from a lease that is over when it commits: the upsert
\* looks at the row again, and the stamp it compares with is not of the future.
THEOREM ClaimsStealNothing == LRSpec => NeverStolen
<1> DEFINE Kept ==
      \A w \in Worker, j \in Job :
        /\ request[w].kind = "CLAIMING" /\ request[w].job = j
        /\ lease'[j] # lease[j] /\ lease'[j].worker = w /\ request'[w] = NoCall
        => ~LiveAt(j, now)
<1>1. RacesInv /\ [LRNext]_lrVars => [Kept]_lrVars
  <2> SUFFICES ASSUME RacesInv, LRNext,
                      NEW w \in Worker, NEW j \in Job,
                      request[w].kind = "CLAIMING", request[w].job = j,
                      lease'[j] # lease[j], request'[w] = NoCall
               PROVE  ~LiveAt(j, now)
    OBVIOUS
  <2>1. request[w] # NoCall /\ request' # request
    BY DEF NoCall
  <2>2. request \in [Worker -> Calls]
    BY DEF RacesInv, TypeOK
  <2>3. \A v \in Worker : \A c : Becomes(v, c) => v = w
    BY <2>1, <2>2 DEF Becomes
  <2>4. CommitClaim(w)
    <3>1. \A v \in Worker : ~(/\ v = w
                              /\ \/ StampClaim(v) \/ ReadClaim(v) \/ StampRenew(v) \/ RenewLease(v)
                                 \/ StampProgress(v) \/ ReadProgress(v) \/ CommitProgress(v))
      BY <2>1 DEF StampClaim, ReadClaim, StampRenew, RenewLease, StampProgress, ReadProgress,
                  CommitProgress
    <3>2. ASSUME NEW v \in Worker,
                 \/ StampClaim(v) \/ ReadClaim(v) \/ CommitClaim(v) \/ StampRenew(v) \/ RenewLease(v)
                 \/ StampProgress(v) \/ ReadProgress(v) \/ CommitProgress(v)
          PROVE  \E c : Becomes(v, c)
      BY <3>2 DEF StampClaim, ReadClaim, CommitClaim, StampRenew, RenewLease, StampProgress,
                  ReadProgress, CommitProgress, Done
    <3>3. ~(StampSweep \/ ReadSweep \/ CommitSweep \/ ClockTicks)
      BY <2>1 DEF StampSweep, ReadSweep, CommitSweep, ClockTicks
    <3> QED BY <2>3, <3>1, <3>2, <3>3 DEF LRNext
  <2>5. TakesRow(w, j)
    BY <2>4 DEF CommitClaim
  <2>6. request[w].at \in Nat /\ request[w].at <= now /\ now \in Nat
    BY CallsByKind DEF RacesInv, TypeOK, StampsArePast
  <2>7. lease[j].expires \in Nat
    BY DEF RacesInv, TypeOK, Leases
  <2> QED BY <2>5, <2>6, <2>7 DEF TakesRow, LiveAt
<1> QED BY <1>1, RacesInitInv, RacesStep, PTL DEF LRSpec, NeverStolen
=============================================================================
