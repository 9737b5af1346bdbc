---------------------- MODULE CollectionQueueRefinement ----------------------
(***************************************************************************)
(* The queue with its workers implements JobLifecycle: claims, reclaims,   *)
(* renewals, crashes and restarts are invisible to who reads the job.      *)
(***************************************************************************)
EXTENDS CollectionQueue

\* A source that is queued or running has no result yet.
ResultOf(s) == IF s \in {"queued", "running"} THEN "pending" ELSE s

Outcome == [j \in Jobs |-> [t \in Targets |-> ResultOf(srcStatus[j][t])]]

Lifecycle == INSTANCE JobLifecycle WITH phase <- status, outcome <- Outcome

\* Whatever crashes, store errors and shutdowns do, the rows of a job move as
\* JobLifecycle lets them, as long as renewals arrive in time.
ImplementsLifecycle == Lifecycle!LifecycleSpec
==============================================================================
