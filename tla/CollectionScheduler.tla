------------------------- MODULE CollectionScheduler -------------------------
(***************************************************************************)
(* Scheduler of internal/collection/scheduler.go: every replica of the     *)
(* service starts by enqueuing a bootstrap job for the channels without a  *)
(* checkpoint, under a key made of their names, and by requeuing that job  *)
(* if it has failed; then a cron enqueues one job per slot.  Several       *)
(* replicas start, stop and tick at one time; the store runs each of their *)
(* statements or transactions by itself.                                   *)
(*                                                                         *)
(* The execution of jobs is seen from outside: one job at a time, source   *)
(* by source (CollectionQueue); a source that takes something in leaves a  *)
(* checkpoint (ChannelCollection).                                         *)
(***************************************************************************)
EXTENDS Naturals, FiniteSets

CONSTANTS
    Replicas,
    Channels,   \* TELEGRAM_CHANNELS, numbered in their order there
    MaxSlot,    \* bound: cron slots that come
    MaxFaults   \* bound: failed sources and failed calls on the store

ASSUME SchedulerAssumption ==
    /\ MaxSlot \in Nat /\ MaxFaults \in Nat
    /\ Channels \subseteq Nat /\ Channels # {}

VARIABLES
    checkpoints, \* channels with a checkpoint
    status,      \* of the job with each idempotency key
    left,        \* its sources without a result
    failed,      \* its sources that failed
    pc,          \* where each replica is
    todo,        \* channels whose checkpoint it has not looked up yet
    missing,     \* those it has found without one
    ticked,      \* slots its cron has fired for
    slot,        \* the present cron slot
    faults

jobs == <<status, left, failed>>
replica == <<pc, todo, missing, ticked>>
vars == <<checkpoints, status, left, failed, pc, todo, missing, ticked, slot, faults>>

\* Keys are hashes of the list of missing channels, or of the slot.
BootstrapKey(channels) == <<"bootstrap", channels>>
ScheduledKey(s) == <<"scheduled", s>>
BootstrapKeys == {BootstrapKey(S) : S \in (SUBSET Channels) \ {{}}}
Keys == BootstrapKeys \union {ScheduledKey(s) : s \in 1..MaxSlot}

SourcesOf(key) == IF key \in BootstrapKeys THEN key[2] ELSE Channels

Terminal == {"succeeded", "partial", "failed"}
Statuses == {"absent", "queued", "running"} \union Terminal
Steps == {"down", "checking", "requeueing", "up", "refused"}

TypeOK ==
    /\ checkpoints \subseteq Channels
    /\ status \in [Keys -> Statuses]
    /\ left \in [Keys -> SUBSET Channels] /\ failed \in [Keys -> SUBSET Channels]
    /\ \A key \in Keys : left[key] \union failed[key] \subseteq SourcesOf(key)
    /\ pc \in [Replicas -> Steps]
    /\ todo \in [Replicas -> SUBSET Channels]
    /\ missing \in [Replicas -> SUBSET Channels]
    /\ \A r \in Replicas :
          /\ todo[r] # {} => pc[r] = "checking"
          /\ missing[r] # {} => pc[r] \in {"checking", "requeueing"}
          /\ pc[r] = "requeueing" => missing[r] # {}
    /\ ticked \in [Replicas -> 0..MaxSlot]
    /\ slot \in 0..MaxSlot /\ faults \in 0..MaxFaults

\* Channels collected under an earlier configuration have a checkpoint.
Init ==
    /\ checkpoints \in SUBSET Channels
    /\ status = [key \in Keys |-> "absent"]
    /\ left = [key \in Keys |-> {}] /\ failed = [key \in Keys |-> {}]
    /\ pc = [r \in Replicas |-> "down"]
    /\ todo = [r \in Replicas |-> {}] /\ missing = [r \in Replicas |-> {}]
    /\ ticked = [r \in Replicas |-> 0]
    /\ slot = 0 /\ faults = 0

------------------------------------------------------------------------------

Fault == faults < MaxFaults /\ faults' = faults + 1

Goto(r, step) == pc' = [pc EXCEPT ![r] = step]

\* Start returns, with or without an error; its list of channels is gone.
Leave(r, step) ==
    /\ Goto(r, step)
    /\ todo' = [todo EXCEPT ![r] = {}] /\ missing' = [missing EXCEPT ![r] = {}]

\* CreateScheduled: the unique key lets only the first of several inserts in.
CreateScheduled(key) ==
    IF status[key] = "absent"
    THEN /\ status' = [status EXCEPT ![key] = "queued"]
         /\ left' = [left EXCEPT ![key] = SourcesOf(key)]
         /\ UNCHANGED failed
    ELSE UNCHANGED jobs

\* Start.  A process that starts has no memory of an earlier one, but that
\* its cron does not fire for slots that are over.
Boot(r) ==
    /\ pc[r] \in {"down", "refused"}
    /\ Goto(r, "checking")
    /\ todo' = [todo EXCEPT ![r] = Channels]
    /\ UNCHANGED missing
    /\ ticked' = [ticked EXCEPT ![r] = slot]
    /\ UNCHANGED <<checkpoints, jobs, slot, faults>>

\* GetCheckpoint of the next channel.
CheckChannel(r, c) ==
    /\ pc[r] = "checking" /\ c \in todo[r]
    /\ \A d \in todo[r] : c <= d
    /\ todo' = [todo EXCEPT ![r] = @ \ {c}]
    /\ missing' = [missing EXCEPT ![r] = IF c \in checkpoints THEN @ ELSE @ \union {c}]
    /\ UNCHANGED <<checkpoints, jobs, pc, ticked, slot, faults>>

\* Mutant of NothingMissing: the first channel with a checkpoint decides.
FirstChannelDecides(r) ==
    /\ pc[r] = "checking" /\ todo[r] # Channels /\ missing[r] = {}
    /\ Leave(r, "up")
    /\ UNCHANGED <<checkpoints, jobs, ticked, slot, faults>>

NothingMissing(r) ==
    /\ pc[r] = "checking" /\ todo[r] = {} /\ missing[r] = {}
    /\ Leave(r, "up")
    /\ UNCHANGED <<checkpoints, jobs, ticked, slot, faults>>

\* Mutant of CreateBootstrap: a failed job is left alone.
CreateNoRequeue(r) ==
    /\ pc[r] = "checking" /\ todo[r] = {} /\ missing[r] # {}
    /\ CreateScheduled(BootstrapKey(missing[r]))
    /\ Leave(r, "up")
    /\ UNCHANGED <<checkpoints, ticked, slot, faults>>

\* CreateScheduled, and the look at the status of the job it returns.
CreateBootstrap(r) ==
    LET key == BootstrapKey(missing[r])
    IN  /\ pc[r] = "checking" /\ todo[r] = {} /\ missing[r] # {}
        /\ CreateScheduled(key)
        /\ IF status[key] = "failed"
           THEN Goto(r, "requeueing") /\ UNCHANGED <<todo, missing>>
           ELSE Leave(r, "up")
        /\ UNCHANGED <<checkpoints, ticked, slot, faults>>

\* Mutant of RequeueFailed: the update does not ask for status='failed'.
RequeueAnyStatus(r) ==
    LET key == BootstrapKey(missing[r])
    IN  /\ pc[r] = "requeueing"
        /\ status' = [status EXCEPT ![key] = "queued"]
        /\ left' = [left EXCEPT ![key] = @ \union failed[key]]
        /\ failed' = [failed EXCEPT ![key] = {}]
        /\ Leave(r, "up")
        /\ UNCHANGED <<checkpoints, ticked, slot, faults>>

\* One transaction.  Without a failed job it is rolled back and Start returns
\* an error.
RequeueFailed(r) ==
    LET key == BootstrapKey(missing[r])
    IN  /\ pc[r] = "requeueing"
        /\ IF status[key] = "failed"
           THEN /\ status' = [status EXCEPT ![key] = "queued"]
                /\ left' = [left EXCEPT ![key] = @ \union failed[key]]
                /\ failed' = [failed EXCEPT ![key] = {}]
                /\ Leave(r, "up")
           ELSE UNCHANGED jobs /\ Leave(r, "refused")
        /\ UNCHANGED <<checkpoints, ticked, slot, faults>>

\* A call on the store fails and Start returns its error, or the process ends
\* before it is up.
StartFails(r) ==
    /\ pc[r] \in {"checking", "requeueing"} /\ Fault
    /\ Leave(r, "down")
    /\ UNCHANGED <<checkpoints, jobs, ticked, slot>>

\* The process ends.
Stop(r) ==
    /\ pc[r] = "up"
    /\ Goto(r, "down")
    /\ UNCHANGED <<checkpoints, jobs, todo, missing, ticked, slot, faults>>

\* The cron of a replica fires in the present slot: enqueueScheduled.
Tick(r) ==
    /\ pc[r] = "up" /\ ticked[r] < slot
    /\ ticked' = [ticked EXCEPT ![r] = slot]
    /\ CreateScheduled(ScheduledKey(slot))
    /\ UNCHANGED <<checkpoints, pc, todo, missing, slot, faults>>

\* A slot begins; whoever did not fire in the last one was too late.
NextSlot ==
    /\ slot < MaxSlot
    /\ slot' = slot + 1
    /\ UNCHANGED <<checkpoints, jobs, replica, faults>>

------------------------------------------------------------------------------
(* The jobs are executed, one at a time. *)

Claim(key) ==
    /\ status[key] = "queued" /\ \A k \in Keys : status[k] # "running"
    /\ status' = [status EXCEPT ![key] = "running"]
    /\ UNCHANGED <<checkpoints, left, failed, replica, slot, faults>>

SourceSucceeds(key, c) ==
    /\ status[key] = "running" /\ c \in left[key]
    /\ left' = [left EXCEPT ![key] = @ \ {c}]
    /\ checkpoints' = checkpoints \union {c}
    /\ UNCHANGED <<status, failed, replica, slot, faults>>

\* Nothing is found in the range of the job: no checkpoint is left.
SourceEmpty(key, c) ==
    /\ status[key] = "running" /\ c \in left[key]
    /\ left' = [left EXCEPT ![key] = @ \ {c}]
    /\ UNCHANGED <<checkpoints, status, failed, replica, slot, faults>>

SourceFails(key, c) ==
    /\ status[key] = "running" /\ c \in left[key] /\ Fault
    /\ left' = [left EXCEPT ![key] = @ \ {c}]
    /\ failed' = [failed EXCEPT ![key] = @ \union {c}]
    /\ UNCHANGED <<checkpoints, status, replica, slot>>

FinishJob(key) ==
    /\ status[key] = "running" /\ left[key] = {}
    /\ status' = [status EXCEPT ![key] =
           IF failed[key] = {} THEN "succeeded"
           ELSE IF failed[key] = SourcesOf(key) THEN "failed"
           ELSE "partial"]
    /\ UNCHANGED <<checkpoints, left, failed, replica, slot, faults>>

------------------------------------------------------------------------------

Starting(r) ==
    \/ Boot(r) \/ NothingMissing(r) \/ CreateBootstrap(r) \/ RequeueFailed(r)
    \/ \E c \in Channels : CheckChannel(r, c)

Executing ==
    \E key \in Keys :
       \/ Claim(key) \/ FinishJob(key)
       \/ \E c \in Channels : SourceSucceeds(key, c) \/ SourceEmpty(key, c)

Next ==
    \/ \E r \in Replicas : Starting(r) \/ StartFails(r) \/ Stop(r) \/ Tick(r)
    \/ NextSlot
    \/ Executing
    \/ \E key \in Keys, c \in Channels : SourceFails(key, c)

Spec == Init /\ [][Next]_vars

\* Jobs are executed, and replicas start; each is restarted once it is up,
\* some day.
FairSpec ==
    /\ Spec
    /\ WF_vars(Executing)
    /\ \A r \in Replicas :
          /\ WF_vars(Starting(r))
          /\ SF_vars(Stop(r))

------------------------------------------------------------------------------

\* While a replica is up, every channel has a checkpoint or is a source of some
\* bootstrap job, whichever replicas started, failed or stopped in which order
\* and whatever was collected in between (enqueueBootstrap).
BootstrapCovers ==
    (\E r \in Replicas : pc[r] = "up") =>
        \A c \in Channels \ checkpoints :
            \E key \in BootstrapKeys : status[key] # "absent" /\ c \in key[2]

\* A start never takes a job away from the worker that executes it: a running
\* job leaves that status by its end only, with a result for every source
\* (RequeueFailed).
RunningUndisturbed ==
    [][\A key \in Keys :
          status[key] = "running" =>
              /\ \/ status'[key] = "running"
                 \/ left[key] = {} /\ status'[key] \in Terminal
              /\ left'[key] \subseteq left[key]]_vars

\* A bootstrap all of whose sources failed is taken up again by a later start,
\* unless some channel of it got a checkpoint in another way, so that starts
\* make a job of its own for the rest (enqueueBootstrap).
FailedBootstrapRepeats ==
    \A key \in BootstrapKeys :
        status[key] = "failed" ~> status[key] # "failed" \/ key[2] \intersect checkpoints # {}
==============================================================================
