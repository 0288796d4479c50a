---------------------------- MODULE JobLifecycle ----------------------------
(***************************************************************************)
(* What the job queue promises whoever submits a job, without leases,      *)
(* workers, clocks or assets: an accepted job is tried at most budget      *)
(* times, is answered once, fails only when its budget is used up, and is  *)
(* answered again only if it failed and an operator added one to the       *)
(* budget.  Its row may be removed with the asset it belongs to.           *)
(***************************************************************************)
EXTENDS Naturals

CONSTANT Jobs

VARIABLES
    phase,   \* "absent", "open", "succeeded", "failed" or "deleted"
    tries,   \* attempts started
    budget   \* attempts allowed

Phases == {"absent", "open", "succeeded", "failed", "deleted"}

Init ==
    /\ phase \in [Jobs -> {"absent", "open"}]
    /\ tries = [j \in Jobs |-> 0]
    /\ budget \in [Jobs -> Nat \ {0}]

Same(j) == phase'[j] = phase[j] /\ tries'[j] = tries[j]

Submit(j) ==
    /\ phase[j] = "absent"
    /\ phase'[j] = "open"
    /\ tries'[j] = 0

Try(j) ==
    /\ phase[j] = "open"
    /\ tries[j] < budget[j]
    /\ phase'[j] = "open"
    /\ tries'[j] = tries[j] + 1

Answer(j) ==
    /\ phase[j] = "open"
    /\ tries[j] > 0
    /\ phase'[j] \in {"succeeded", "failed"}
    /\ phase'[j] = "failed" => tries[j] = budget[j]
    /\ tries'[j] = tries[j]

Remove(j) ==
    /\ phase[j] # "absent"
    /\ phase'[j] = "deleted"
    /\ tries'[j] = 0

Reopen(j) ==
    /\ phase[j] = "failed"
    /\ phase'[j] = "open"
    /\ tries'[j] = tries[j]
    /\ budget'[j] = budget[j] + 1

\* One transaction may move several jobs, each by one step.
Next ==
    /\ phase' \in [Jobs -> Phases]
    /\ tries' \in [Jobs -> Nat]
    /\ budget' \in [Jobs -> Nat]
    /\ \A j \in Jobs :
          \/ Reopen(j)
          \/ budget'[j] = budget[j] /\ (Same(j) \/ Submit(j) \/ Try(j) \/ Answer(j) \/ Remove(j))

Spec == Init /\ [][Next]_<<phase, tries, budget>>
=============================================================================
