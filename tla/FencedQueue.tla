----------------------------- MODULE FencedQueue -----------------------------
(***************************************************************************)
(* What the control plane promises about one job, without clocks or        *)
(* tables: nobody is granted a job that somebody holds, every grant        *)
(* carries a token larger than all earlier ones, only a holder reports or  *)
(* publishes, a cancelled job is never granted again, and an end is left   *)
(* only for the job's deletion.  Jobs evolve independently of each other.  *)
(***************************************************************************)
EXTENDS Naturals

CONSTANTS Job, Worker

VARIABLES
  phase,      \* where the job is
  grants,     \* every grant of the job so far
  holding,    \* the grant whose holder may act, if any
  published   \* the job's output is available

fqVars == <<phase, grants, holding, published>>

\* Where a holder's report may take its job.
Reported ==
  [ waiting   |-> {"running", "paused", "stopping"},
    running   |-> {"running", "paused", "stopping", "done", "parked", "failed"},
    paused    |-> {"running", "paused", "waiting", "stopping", "failed", "deleted"},
    stopping  |-> {"cancelled", "parked"},
    done      |-> {"deleted"},
    cancelled |-> {"deleted"},
    deleted   |-> {"deleted"} ]

\* The reports with which a holder lets go.
Ended == {"parked", "failed", "cancelled"}

FQInit ==
  /\ phase = [j \in Job |-> "absent"]
  /\ grants = [j \in Job |-> {}]
  /\ holding = [j \in Job |-> {}]
  /\ published = [j \in Job |-> FALSE]

\* A job moves between two of these phases.
Goes(j, from, to) == phase[j] \in from /\ phase'[j] = to

Keeps(j) == grants'[j] = grants[j] /\ published'[j] = published[j]

Submit(j) == Goes(j, {"absent"}, "waiting") /\ Keeps(j) /\ holding'[j] = holding[j]

\* A job that waits, or whose holder fell silent, is granted anew.
Grant(j) ==
  /\ holding[j] = {}
  /\ Goes(j, {"waiting", "running"}, "running")
  /\ \E g \in grants'[j] :
       /\ \A old \in grants[j] : old.token < g.token
       /\ g.worker \in Worker
       /\ grants'[j] = grants[j] \cup {g}
       /\ holding'[j] = {g}
  /\ published'[j] = published[j]

\* The holder says where the job is, and holds it until it reports an end.
Report(j) ==
  /\ holding[j] # {}
  /\ phase[j] \in DOMAIN Reported
  /\ phase'[j] \in Reported[phase[j]]
  /\ Keeps(j)
  /\ holding'[j] = IF phase'[j] \in Ended THEN {} ELSE holding[j]

\* The holder falls silent.
Lose(j) == phase'[j] = phase[j] /\ Keeps(j) /\ holding'[j] = {}

\* A job that nobody holds any more waits for another grant, or its cancel ends.
Sweep(j) ==
  /\ holding[j] = {}
  /\ Goes(j, {"running"}, "waiting") \/ Goes(j, {"stopping"}, "cancelled")
  /\ Keeps(j)
  /\ holding'[j] = {}

\* An administrator's cancel ends a job that waits, and asks any other to stop.
Stop(j) ==
  /\ \/ Goes(j, {"waiting"}, "cancelled")
     \/ Goes(j, {"running", "paused", "parked"}, "stopping")
  /\ Keeps(j)
  /\ holding'[j] = holding[j]

\* Only a holder publishes; that ends its job, unless it had ended before.
Publish(j) ==
  /\ holding[j] # {}
  /\ ~published[j] /\ published'[j]
  /\ \/ /\ Goes(j, {"waiting", "running", "paused", "stopping"}, "done")
        /\ holding'[j] = {}
     \/ /\ phase[j] \in {"done", "cancelled", "deleted"} /\ phase'[j] = phase[j]
        /\ holding'[j] = holding[j]
  /\ grants'[j] = grants[j]

Idle(j) == phase'[j] = phase[j] /\ Keeps(j) /\ holding'[j] = holding[j]

Step(j) ==
  \/ Submit(j) \/ Grant(j) \/ Report(j) \/ Lose(j) \/ Sweep(j)
  \/ Stop(j) \/ Publish(j) \/ Idle(j)

FQNext == \A j \in Job : Step(j)

FQSpec == FQInit /\ [][FQNext]_fqVars
=============================================================================
