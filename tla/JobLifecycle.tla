---------------------------- MODULE JobLifecycle ----------------------------
(***************************************************************************)
(* What the queue promises about each job, without workers, leases, reads  *)
(* or transactions: a submitted job waits, is taken at most "limit" times, *)
(* is put back only while it has an attempt left, and once it is settled   *)
(* nothing brings it back.  A job somebody asked to cancel is withdrawn:   *)
(* it may still be taken, within its limit, but it is never again owed a   *)
(* result.                                                                 *)
(***************************************************************************)
EXTENDS Naturals

CONSTANT Jobs

VARIABLES phase, limit, takes
vars == <<phase, limit, takes>>

Phases == {"absent", "waiting", "taken", "settled", "withdrawn"}

Init ==
    /\ phase = [j \in Jobs |-> "absent"]
    /\ limit = [j \in Jobs |-> 0]
    /\ takes = [j \in Jobs |-> 0]

Submit(j) ==
    /\ phase[j] = "absent" /\ phase'[j] = "waiting"
    /\ limit'[j] \in {1, 3}
    /\ takes'[j] = takes[j]

Take(j) ==
    /\ phase[j] \in {"waiting", "withdrawn"}
    /\ phase'[j] = IF phase[j] = "waiting" THEN "taken" ELSE "withdrawn"
    /\ takes[j] < limit[j] /\ takes'[j] = takes[j] + 1
    /\ limit'[j] = limit[j]

Return(j) ==
    /\ phase[j] = "taken" /\ phase'[j] = "waiting"
    /\ takes[j] < limit[j]
    /\ takes'[j] = takes[j] /\ limit'[j] = limit[j]

Finish(j) ==
    /\ phase[j] = "taken" /\ phase'[j] = "settled"
    /\ takes'[j] = takes[j] /\ limit'[j] = limit[j]

Withdraw(j) ==
    /\ phase[j] \in {"waiting", "taken", "settled"} /\ phase'[j] = "withdrawn"
    /\ takes'[j] = takes[j] /\ limit'[j] = limit[j]

Rest(j) ==
    phase'[j] = phase[j] /\ takes'[j] = takes[j] /\ limit'[j] = limit[j]

\* One transaction may move several jobs.
Next ==
    /\ phase' \in [Jobs -> Phases]
    /\ \A j \in Jobs :
          Submit(j) \/ Take(j) \/ Return(j) \/ Finish(j) \/ Withdraw(j) \/ Rest(j)

Spec == Init /\ [][Next]_vars
=============================================================================
