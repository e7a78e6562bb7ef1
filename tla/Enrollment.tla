----------------------------- MODULE Enrollment -----------------------------
(***************************************************************************)
(* How a host becomes a worker and stops being one: the single-use tokens  *)
(* and sessions of the control plane (createEnrollment, enrollWorker,      *)
(* authenticateWorker, revokeWorker in neon-worker-control-plane.ts), the  *)
(* request with its tries (adapters/control_plane/http.py), the credential *)
(* file (WorkerCredentialStore in interfaces/worker.py), and the commands  *)
(* worker-enroll, worker-detach and worker-run (interfaces/cli.py).        *)
(*                                                                         *)
(* A worker row is named by its place in the order of enrollment; whoever  *)
(* knows the place has the secret of its session.  A request that its      *)
(* enroller gave up may still be on its way.                               *)
(***************************************************************************)
EXTENDS Integers, Sequences

CONSTANTS
    Hosts,        \* machines that run the bootstrap command
    Tokens,       \* enrollment tokens the administrator creates
    TRIES,        \* attempts of _request
    NoWorker,     \* no credential, no answer
    MaxLapses     \* bound: lost answers, failed requests, deaths, power failures, expiries

ASSUME EnrollmentAssumption ==
    TRIES \in Nat \ {0} /\ MaxLapses \in Nat /\ NoWorker \notin Nat

VARIABLES
    token,     \* of each token "none", "open", "spent" or "expired"
    workers,   \* the rows in the order of enrollment: [of, session]
    flight,    \* requests on their way: [host, token, call, try]
    enroller,  \* of each host, the worker-enroll it is in
    saved,     \* of each host, the credential file
    durable,   \* the same after a power failure
    serving,   \* of each host, the worker worker-run speaks for
    lapses     \* what is left of MaxLapses

enVars == <<token, workers, flight, enroller, saved, durable, serving, lapses>>

NotEnrolling == [pc |-> "rest", token |-> NoWorker, call |-> 0, try |-> 0, got |-> NoWorker]

ENInit ==
    /\ token = [t \in Tokens |-> "none"] /\ workers = <<>> /\ flight = {}
    /\ enroller = [h \in Hosts |-> NotEnrolling]
    /\ saved = [h \in Hosts |-> NoWorker] /\ durable = saved /\ serving = saved
    /\ lapses = MaxLapses

-----------------------------------------------------------------------------
Lapse == lapses > 0 /\ lapses' = lapses - 1
NoLapse == UNCHANGED lapses
KeepFiles == UNCHANGED <<saved, durable, serving>>
KeepServer == UNCHANGED <<token, workers>>

createEnrollment(t) ==
    /\ token[t] = "none" /\ token' = [token EXCEPT ![t] = "open"]
    /\ UNCHANGED <<workers, flight, enroller>> /\ KeepFiles /\ NoLapse

\* Thirty minutes.
TokenExpires(t) ==
    /\ token[t] = "open" /\ Lapse /\ token' = [token EXCEPT ![t] = "expired"]
    /\ UNCHANGED <<workers, flight, enroller>> /\ KeepFiles

\* A request is sent, or sent again.
Sends(h, t, call, try) ==
    flight' = flight \union {[host |-> h, token |-> t, call |-> call, try |-> try]}

\* The bootstrap command is run with a token, on any host and as often as one
\* likes.
worker_enroll(h, t) ==
    /\ enroller[h].pc = "rest" /\ token[t] # "none" /\ Lapse
    /\ enroller' = [enroller EXCEPT ![h] =
                    [pc |-> "asking", token |-> t, call |-> lapses, try |-> 1, got |-> NoWorker]]
    /\ Sends(h, t, lapses, 1)
    /\ KeepServer /\ KeepFiles

Current(m) == /\ enroller[m.host].pc = "asking" /\ enroller[m.host].call = m.call
              /\ enroller[m.host].try = m.try

\* SLIP (breaks CredentialIsItsOwn): a token that was spent is as good.
NotExpired(t) == token[t] \in {"open", "spent"}

Usable(t) == token[t] = "open"

\* enrollWorker: token and row in one statement.  Its answer reaches the enroller,
\* or is lost or too late.
enrollWorker(m) ==
    /\ flight' = flight \ {m}
    /\ LET id == IF Usable(m.token) THEN Len(workers) + 1 ELSE NoWorker
       IN  /\ IF Usable(m.token)
              THEN /\ workers' = Append(workers, [of |-> m.token, session |-> "live"])
                   /\ token' = [token EXCEPT ![m.token] = "spent"]
              ELSE KeepServer
           /\ \/ /\ Current(m) /\ NoLapse
                 /\ enroller' = [enroller EXCEPT ![m.host] =
                      IF id = NoWorker THEN NotEnrolling
                      ELSE [pc |-> "save", token |-> m.token, call |-> m.call, try |-> m.try,
                            got |-> id]]
              \/ /\ UNCHANGED enroller
                 /\ IF Current(m) THEN Lapse ELSE NoLapse
    /\ KeepFiles

\* A request that never arrives, or is answered 429 or 500.
RequestIsLost(m) ==
    /\ Lapse /\ flight' = flight \ {m}
    /\ UNCHANGED enroller /\ KeepServer /\ KeepFiles

\* _request: no answer in time, or one that invites another try.
TryAgain(h) ==
    /\ enroller[h].pc = "asking" /\ Lapse
    /\ IF enroller[h].try < TRIES
       THEN /\ enroller' = [enroller EXCEPT ![h].try = @ + 1]
            /\ Sends(h, enroller[h].token, enroller[h].call, enroller[h].try + 1)
       ELSE enroller' = [enroller EXCEPT ![h] = NotEnrolling] /\ UNCHANGED flight
    /\ KeepServer /\ KeepFiles

-----------------------------------------------------------------------------
\* save: a temporary is written and synchronized, and replaces the file.  The
\* directory is not synchronized, so a power failure may bring the old one back.
save(h) ==
    /\ enroller[h].pc = "save"
    /\ saved' = [saved EXCEPT ![h] = enroller[h].got]
    /\ durable' \in {durable, [durable EXCEPT ![h] = enroller[h].got]}
    /\ enroller' = [enroller EXCEPT ![h] = NotEnrolling]
    /\ UNCHANGED <<serving, flight>> /\ KeepServer /\ NoLapse

\* worker-enroll dies, wherever it is.
BootstrapDies(h) ==
    /\ enroller[h].pc # "rest" /\ Lapse
    /\ enroller' = [enroller EXCEPT ![h] = NotEnrolling]
    /\ UNCHANGED flight /\ KeepServer /\ KeepFiles

worker_detach(h) ==
    /\ saved[h] # NoWorker
    /\ saved' = [saved EXCEPT ![h] = NoWorker]
    /\ durable' \in {durable, saved'}
    /\ UNCHANGED <<serving, flight, enroller>> /\ KeepServer /\ NoLapse

\* worker-run reads the file once, when it starts.
worker_run(h) ==
    /\ serving[h] = NoWorker /\ saved[h] # NoWorker
    /\ serving' = [serving EXCEPT ![h] = saved[h]]
    /\ UNCHANGED <<saved, durable, flight, enroller>> /\ KeepServer /\ NoLapse

\* requireWorkerSession: no live session, and the error leaves run_once and the
\* process; the service starts it again.
RunIsRefused(h) ==
    /\ serving[h] # NoWorker
    /\ workers[serving[h]].session = "ended"
    /\ serving' = [serving EXCEPT ![h] = NoWorker]
    /\ UNCHANGED <<saved, durable, flight, enroller>> /\ KeepServer /\ NoLapse

\* revokeWorker, or the end of the 24 hours, which nothing puts off.
SessionEnds(w) ==
    /\ workers[w].session = "live" /\ Lapse
    /\ workers' = [workers EXCEPT ![w].session = "ended"]
    /\ UNCHANGED <<token, flight, enroller>> /\ KeepFiles

HostLosesPower(h) ==
    /\ Lapse
    /\ saved' = [saved EXCEPT ![h] = durable[h]]
    /\ serving' = [serving EXCEPT ![h] = NoWorker]
    /\ enroller' = [enroller EXCEPT ![h] = NotEnrolling]
    /\ UNCHANGED <<durable, flight>> /\ KeepServer

ENNext ==
    \/ \E t \in Tokens : createEnrollment(t) \/ TokenExpires(t)
    \/ \E h \in Hosts, t \in Tokens : worker_enroll(h, t)
    \/ \E m \in flight : enrollWorker(m) \/ RequestIsLost(m)
    \/ \E h \in Hosts : \/ TryAgain(h) \/ save(h) \/ BootstrapDies(h) \/ worker_detach(h)
                        \/ worker_run(h) \/ RunIsRefused(h) \/ HostLosesPower(h)
    \/ \E w \in DOMAIN workers : SessionEnds(w)
ENSpec == ENInit /\ [][ENNext]_enVars

-----------------------------------------------------------------------------
\* A credential on a host, in its file, after a power failure or in the running
\* service, is that of one worker row, made with a token that was spent for this
\* row alone; and no two hosts ever speak for one worker, however often the
\* command is run, sent again or answered late.
Known(h) == {saved[h], durable[h], serving[h], enroller[h].got} \ {NoWorker}

CredentialIsItsOwn ==
    /\ \A v, w \in DOMAIN workers : workers[v].of = workers[w].of => v = w
    /\ \A w \in DOMAIN workers : token[workers[w].of] = "spent"
    /\ \A h \in Hosts : Known(h) \subseteq DOMAIN workers
    /\ \A g, h \in Hosts : Known(g) \cap Known(h) # {} => g = h
=============================================================================
