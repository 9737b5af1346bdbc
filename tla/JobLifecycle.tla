---------------------------- MODULE JobLifecycle -----------------------------
(***************************************************************************)
(* What the collection queue promises to those who enqueue jobs and read   *)
(* their results, with no workers, leases or faults in sight: a job waits, *)
(* is executed until every one of its sources has a result, and ends once  *)
(* with the verdict of those results; a result that was achieved is never  *)
(* given up.                                                               *)
(***************************************************************************)
CONSTANTS Jobs, Targets

VARIABLES
    phase,    \* absent, queued, running, or how the job ended
    outcome   \* result of each source: absent, pending, or how it ended

lifecycleVars == <<phase, outcome>>

Achieved == {"succeeded", "truncated"}
Results == Achieved \union {"failed"}
Ended == {"succeeded", "partial", "failed"}

\* succeeded without a failed source, failed without an achieved one.
Verdict(results) ==
    LET failures == {t \in DOMAIN results : results[t] = "failed"}
        achievements == {t \in DOMAIN results : results[t] \in Achieved}
    IN  IF failures = {} THEN "succeeded"
        ELSE IF achievements = {} THEN "failed" ELSE "partial"

LifecycleTypeOK ==
    /\ phase \in [Jobs -> Ended \union {"absent", "queued", "running"}]
    /\ outcome \in [Jobs -> [Targets -> Results \union {"absent", "pending"}]]

LifecycleInit ==
    /\ phase = [j \in Jobs |-> "absent"]
    /\ outcome = [j \in Jobs |-> [t \in Targets |-> "absent"]]

Submit(j, T) ==
    /\ phase[j] = "absent"
    /\ phase' = [phase EXCEPT ![j] = "queued"]
    /\ outcome' = [outcome EXCEPT
           ![j] = [t \in Targets |-> IF t \in T THEN "pending" ELSE "absent"]]

Begin(j) ==
    /\ phase[j] = "queued"
    /\ phase' = [phase EXCEPT ![j] = "running"]
    /\ UNCHANGED outcome

\* A failed source may be tried again as long as the job is running.
Attempt(j, t) ==
    /\ phase[j] = "running" /\ outcome[j][t] = "failed"
    /\ outcome' = [outcome EXCEPT ![j][t] = "pending"]
    /\ UNCHANGED phase

Settle(j, t, result) ==
    /\ phase[j] = "running" /\ outcome[j][t] = "pending"
    /\ outcome' = [outcome EXCEPT ![j][t] = result]
    /\ UNCHANGED phase

End(j) ==
    /\ phase[j] = "running"
    /\ \A t \in Targets : outcome[j][t] # "pending"
    /\ phase' = [phase EXCEPT ![j] = Verdict(outcome[j])]
    /\ UNCHANGED outcome

\* A job that has failed altogether may be submitted again.
Retry(j) ==
    /\ phase[j] = "failed"
    /\ phase' = [phase EXCEPT ![j] = "queued"]
    /\ outcome' = [outcome EXCEPT ![j] =
           [t \in Targets |-> IF @[t] = "failed" THEN "pending" ELSE @[t]]]

LifecycleNext ==
    \E j \in Jobs :
        \/ \E T \in (SUBSET Targets) \ {{}} : Submit(j, T)
        \/ Begin(j) \/ End(j) \/ Retry(j)
        \/ \E t \in Targets :
              Attempt(j, t) \/ \E result \in Results : Settle(j, t, result)

LifecycleSpec == LifecycleInit /\ [][LifecycleNext]_lifecycleVars
==============================================================================
