---------------------- MODULE CollectionSchedulerProofs ----------------------
(***************************************************************************)
(* Theorems about CollectionScheduler, for any replicas, channels, slots   *)
(* and faults.                                                             *)
(***************************************************************************)
EXTENDS CollectionScheduler, TLAPS

------------------------------------------------------------------------------
(* Keys and jobs.                                                          *)

LEMMA KeysOfBootstraps ==
    /\ \A S \in SUBSET Channels : S # {} => BootstrapKey(S) \in BootstrapKeys
    /\ \A key \in BootstrapKeys : /\ key \in Keys /\ SourcesOf(key) = key[2]
                                  /\ key[2] \in SUBSET Channels
    /\ \A S : BootstrapKey(S)[2] = S
<1>1. \A S \in SUBSET Channels : S # {} => BootstrapKey(S) \in BootstrapKeys
  BY DEF BootstrapKeys
<1>2. \A S : BootstrapKey(S)[2] = S
  BY DEF BootstrapKey
<1>3. ASSUME NEW key \in BootstrapKeys
      PROVE  key \in Keys /\ SourcesOf(key) = key[2] /\ key[2] \in SUBSET Channels
  <2>1. PICK S \in SUBSET Channels : key = BootstrapKey(S)
    BY DEF BootstrapKeys
  <2> QED BY <2>1, <1>2 DEF Keys, SourcesOf
<1> QED BY <1>1, <1>2, <1>3

LEMMA KeysOfSlots == \A s \in 1..MaxSlot : ScheduledKey(s) \in Keys
  BY DEF Keys

LEMMA SourcesAreChannels == \A key \in Keys : SourcesOf(key) \in SUBSET Channels
  BY KeysOfBootstraps DEF SourcesOf

\* The part of the type invariant that is about jobs.
JobsOK ==
    /\ status \in [Keys -> Statuses]
    /\ left \in [Keys -> SUBSET Channels] /\ failed \in [Keys -> SUBSET Channels]
    /\ \A key \in Keys : left[key] \union failed[key] \subseteq SourcesOf(key)

\* A job never becomes absent again.
JobsStay == \A key \in Keys : status[key] # "absent" => status'[key] # "absent"

\* A running job runs on as it is.
RunningStays ==
    \A key \in Keys : status[key] = "running" =>
        status'[key] = "running" /\ left'[key] = left[key]

\* CreateScheduled may only add a job.
LEMMA CreateScheduledStep ==
    ASSUME JobsOK, NEW key \in Keys, CreateScheduled(key)
    PROVE  JobsOK' /\ JobsStay /\ RunningStays /\ status'[key] # "absent"
<1>1. CASE status[key] = "absent"
  <2>1. /\ status' = [status EXCEPT ![key] = "queued"]
        /\ left' = [left EXCEPT ![key] = SourcesOf(key)]
        /\ failed' = failed
    BY <1>1 DEF CreateScheduled
  <2>2. status' \in [Keys -> Statuses] /\ left' \in [Keys -> SUBSET Channels]
    BY <2>1, SourcesAreChannels DEF JobsOK, Statuses
  <2>3. \A k \in Keys : left'[k] \union failed'[k] \subseteq SourcesOf(k)
    BY <2>1 DEF JobsOK
  <2> QED BY <1>1, <2>1, <2>2, <2>3 DEF JobsOK, JobsStay, RunningStays
<1>2. CASE status[key] # "absent"
  BY <1>2 DEF CreateScheduled, jobs, JobsOK, JobsStay, RunningStays
<1> QED BY <1>1, <1>2

\* RequeueFailed may only queue a failed job again.
LEMMA RequeueFailedStep ==
    ASSUME TypeOK, NEW r \in Replicas, RequeueFailed(r)
    PROVE  JobsOK' /\ JobsStay /\ RunningStays
<1> DEFINE key == BootstrapKey(missing[r])
<1>1. key \in Keys
  BY KeysOfBootstraps DEF TypeOK, RequeueFailed
<1>2. JobsOK
  BY DEF TypeOK, JobsOK
<1> HIDE DEF key
<1>3. CASE status[key] = "failed"
  <2>1. /\ status' = [status EXCEPT ![key] = "queued"]
        /\ left' = [left EXCEPT ![key] = left[key] \union failed[key]]
        /\ failed' = [failed EXCEPT ![key] = {}]
    BY <1>3 DEF RequeueFailed, key
  <2>2. /\ status' \in [Keys -> Statuses] /\ left' \in [Keys -> SUBSET Channels]
        /\ failed' \in [Keys -> SUBSET Channels]
    BY <1>1, <1>2, <2>1 DEF JobsOK, Statuses
  <2>3. \A k \in Keys : left'[k] \union failed'[k] \subseteq SourcesOf(k)
    BY <1>1, <1>2, <2>1 DEF JobsOK
  <2> QED BY <1>1, <1>2, <1>3, <2>1, <2>2, <2>3 DEF JobsOK, JobsStay, RunningStays
<1>4. CASE status[key] # "failed"
  BY <1>2, <1>4 DEF RequeueFailed, key, jobs, JobsOK, JobsStay, RunningStays
<1> QED BY <1>3, <1>4

------------------------------------------------------------------------------
(* Types.                                                                  *)

\* The part of the type invariant that is about replicas.
ReplicasOK ==
    /\ pc \in [Replicas -> Steps]
    /\ todo \in [Replicas -> SUBSET Channels]
    /\ missing \in [Replicas -> SUBSET Channels]
    /\ \A r \in Replicas :
          /\ todo[r] # {} => pc[r] = "checking"
          /\ missing[r] # {} => pc[r] \in {"checking", "requeueing"}
          /\ pc[r] = "requeueing" => missing[r] # {}
    /\ ticked \in [Replicas -> 0..MaxSlot]

GlobalOK == checkpoints \subseteq Channels /\ slot \in 0..MaxSlot /\ faults \in 0..MaxFaults

LEMMA TypeParts ==
    /\ TypeOK <=> JobsOK /\ ReplicasOK /\ GlobalOK
    /\ TypeOK' <=> JobsOK' /\ ReplicasOK' /\ GlobalOK'
  BY DEF TypeOK, JobsOK, ReplicasOK, GlobalOK

LEMMA LeaveStep ==
    ASSUME ReplicasOK, NEW r \in Replicas, NEW step \in {"up", "down", "refused"},
           Leave(r, step), UNCHANGED ticked
    PROVE  ReplicasOK'
  BY DEF ReplicasOK, Leave, Goto, Steps

LEMMA FaultStep == ASSUME faults \in 0..MaxFaults, Fault PROVE faults' \in 0..MaxFaults
  BY SchedulerAssumption DEF Fault

LEMMA TypeInit == Init => TypeOK
<1> SUFFICES ASSUME Init PROVE TypeOK
  OBVIOUS
<1> QED BY SchedulerAssumption DEF Init, TypeOK, Statuses, Steps

\* A step of the scheduler of a replica.
LEMMA ReplicaTypes ==
    ASSUME TypeOK, NEW r \in Replicas, Starting(r) \/ StartFails(r) \/ Stop(r) \/ Tick(r)
    PROVE  TypeOK' /\ JobsStay /\ RunningStays
<1>1. JobsOK /\ ReplicasOK /\ GlobalOK
  BY TypeParts
<1>2. ASSUME UNCHANGED jobs PROVE JobsOK' /\ JobsStay /\ RunningStays
  BY <1>1, <1>2 DEF jobs, JobsOK, JobsStay, RunningStays
<1>3. ASSUME UNCHANGED <<checkpoints, slot, faults>> PROVE GlobalOK'
  BY <1>1, <1>3 DEF GlobalOK
<1>4. CASE Boot(r)
  <2>1. ReplicasOK'
    BY <1>1, <1>4 DEF ReplicasOK, GlobalOK, Boot, Goto, Steps
  <2> QED BY <1>2, <1>3, <1>4, <2>1, TypeParts DEF Boot
<1>5. CASE NothingMissing(r)
  <2>1. ReplicasOK'
    BY <1>1, <1>5, LeaveStep DEF NothingMissing
  <2> QED BY <1>2, <1>3, <1>5, <2>1, TypeParts DEF NothingMissing
<1>6. CASE CreateBootstrap(r)
  <2>1. BootstrapKey(missing[r]) \in Keys
    BY <1>1, <1>6, KeysOfBootstraps DEF CreateBootstrap, ReplicasOK
  <2>2. JobsOK' /\ JobsStay /\ RunningStays
    BY <1>1, <1>6, <2>1, CreateScheduledStep DEF CreateBootstrap
  <2>3. CASE Leave(r, "up")
    BY <1>1, <1>3, <1>6, <2>2, <2>3, LeaveStep, TypeParts DEF CreateBootstrap
  <2>4. CASE Goto(r, "requeueing") /\ UNCHANGED <<todo, missing>>
    <3>1. ReplicasOK'
      BY <1>1, <1>6, <2>4 DEF ReplicasOK, CreateBootstrap, Goto, Steps
    <3> QED BY <1>3, <1>6, <2>2, <3>1, TypeParts DEF CreateBootstrap
  <2> QED BY <1>6, <2>3, <2>4 DEF CreateBootstrap
<1>7. CASE RequeueFailed(r)
  <2>1. JobsOK' /\ JobsStay /\ RunningStays
    BY <1>7, RequeueFailedStep
  <2>2. Leave(r, "up") \/ Leave(r, "refused")
    BY <1>7 DEF RequeueFailed
  <2>3. ReplicasOK'
    BY <1>1, <1>7, <2>2, LeaveStep DEF RequeueFailed
  <2> QED BY <1>3, <1>7, <2>1, <2>3, TypeParts DEF RequeueFailed
<1>8. ASSUME NEW c \in Channels, CheckChannel(r, c) PROVE TypeOK' /\ JobsStay /\ RunningStays
  <2>1. ReplicasOK'
    BY <1>1, <1>8 DEF ReplicasOK, CheckChannel
  <2> QED BY <1>2, <1>3, <1>8, <2>1, TypeParts DEF CheckChannel
<1>9. CASE StartFails(r)
  <2>1. ReplicasOK'
    BY <1>1, <1>9, LeaveStep DEF StartFails
  <2>2. GlobalOK'
    BY <1>1, <1>9, FaultStep DEF StartFails, GlobalOK
  <2> QED BY <1>2, <1>9, <2>1, <2>2, TypeParts DEF StartFails
<1>10. CASE Stop(r)
  <2>1. ReplicasOK'
    BY <1>1, <1>10 DEF ReplicasOK, Stop, Goto, Steps
  <2> QED BY <1>2, <1>3, <1>10, <2>1, TypeParts DEF Stop
<1>11. CASE Tick(r)
  <2>1. slot \in 1..MaxSlot
    BY <1>1, <1>11, SchedulerAssumption DEF Tick, ReplicasOK, GlobalOK
  <2>2. JobsOK' /\ JobsStay /\ RunningStays
    BY <1>1, <1>11, <2>1, KeysOfSlots, CreateScheduledStep DEF Tick
  <2>3. ReplicasOK'
    BY <1>1, <1>11 DEF Tick, ReplicasOK, GlobalOK
  <2> QED BY <1>3, <1>11, <2>2, <2>3, TypeParts DEF Tick
<1> QED BY <1>4, <1>5, <1>6, <1>7, <1>8, <1>9, <1>10, <1>11 DEF Starting

\* A job ends in one of the terminal statuses.
LEMMA FinishPicks ==
    ASSUME NEW key \in Keys, FinishJob(key)
    PROVE  \E s \in Terminal : status' = [status EXCEPT ![key] = s]
  BY DEF FinishJob, Terminal

\* A step of the execution of a job.
LEMMA JobTypes ==
    ASSUME TypeOK, NEW key \in Keys,
           \/ Claim(key) \/ FinishJob(key)
           \/ \E c \in Channels : \/ SourceSucceeds(key, c) \/ SourceEmpty(key, c)
                                  \/ SourceFails(key, c)
    PROVE  TypeOK' /\ JobsStay
<1>1. JobsOK /\ ReplicasOK /\ GlobalOK
  BY TypeParts
<1>2. UNCHANGED replica
  BY DEF Claim, FinishJob, SourceSucceeds, SourceEmpty, SourceFails
<1>3. ReplicasOK'
  BY <1>1, <1>2 DEF ReplicasOK, replica
<1>4. CASE Claim(key)
  <2>1. JobsOK' /\ JobsStay
    BY <1>1, <1>4 DEF Claim, JobsOK, JobsStay, Statuses
  <2> QED BY <1>1, <1>3, <1>4, <2>1, TypeParts DEF Claim, GlobalOK
<1>5. CASE FinishJob(key)
  <2>1. status[key] = "running" /\ \E s \in Terminal : status' = [status EXCEPT ![key] = s]
    BY <1>5 DEF FinishJob, Terminal
  <2>2. JobsOK' /\ JobsStay
    BY <1>1, <1>5, <2>1 DEF FinishJob, JobsOK, JobsStay, Statuses, Terminal
  <2> QED BY <1>1, <1>3, <1>5, <2>2, TypeParts DEF FinishJob, GlobalOK
<1>6. ASSUME NEW c \in Channels, SourceSucceeds(key, c) \/ SourceEmpty(key, c) PROVE TypeOK' /\ JobsStay
  <2>1. JobsOK' /\ JobsStay
    BY <1>1, <1>6 DEF SourceSucceeds, SourceEmpty, JobsOK, JobsStay
  <2> QED BY <1>1, <1>3, <1>6, <2>1, TypeParts DEF SourceSucceeds, SourceEmpty, GlobalOK
<1>7. ASSUME NEW c \in Channels, SourceFails(key, c) PROVE TypeOK' /\ JobsStay
  <2>1. JobsOK' /\ JobsStay
    BY <1>1, <1>7 DEF SourceFails, JobsOK, JobsStay
  <2>2. GlobalOK'
    BY <1>1, <1>7, FaultStep DEF SourceFails, GlobalOK
  <2> QED BY <1>3, <2>1, <2>2, TypeParts
<1> QED BY <1>4, <1>5, <1>6, <1>7

\* The actions of Next, with what they do for a replica or a job.
LEMMA NextCases ==
    ASSUME Next
    PROVE  \/ \E r \in Replicas : Starting(r) \/ StartFails(r) \/ Stop(r) \/ Tick(r)
           \/ NextSlot
           \/ \E key \in Keys :
                 \/ Claim(key) \/ FinishJob(key)
                 \/ \E c \in Channels : \/ SourceSucceeds(key, c) \/ SourceEmpty(key, c)
                                        \/ SourceFails(key, c)
  BY DEF Next, Executing

LEMMA TypeStep == TypeOK /\ [Next]_vars => TypeOK' /\ JobsStay
<1> SUFFICES ASSUME TypeOK, [Next]_vars PROVE TypeOK' /\ JobsStay
  OBVIOUS
<1>1. CASE NextSlot
  <2>1. slot' \in 0..MaxSlot
    BY <1>1, SchedulerAssumption DEF NextSlot, TypeOK
  <2> QED BY <1>1, <2>1 DEF NextSlot, TypeOK, jobs, replica, JobsStay
<1>2. CASE UNCHANGED vars
  BY <1>2 DEF vars, TypeOK, JobsStay
<1> QED BY <1>1, <1>2, NextCases, ReplicaTypes, JobTypes

\* Every variable keeps its type, whatever the replicas do (TypeOK).
THEOREM TypeCorrect == Spec => []TypeOK
<1>1. Init => TypeOK
  BY TypeInit
<1>2. TypeOK /\ [Next]_vars => TypeOK'
  BY TypeStep
<1> QED BY <1>1, <1>2, PTL DEF Spec

------------------------------------------------------------------------------
(* Coverage.  BootstrapCovers is not inductive: why a replica may come up  *)
(* is what it has looked up and created on the way.                        *)

InJob(c) == \E key \in BootstrapKeys : status[key] # "absent" /\ c \in key[2]

\* What a start has not yet looked up or found missing has a checkpoint; what
\* it has found missing is in the job it is about to requeue.
LookedUp(r) ==
    /\ pc[r] = "checking" => Channels \subseteq todo[r] \union missing[r] \union checkpoints
    /\ pc[r] = "requeueing" => \A c \in Channels \ checkpoints : InJob(c)

Covered(r) == pc[r] = "up" => \A c \in Channels \ checkpoints : InJob(c)

CoverInv == \A r \in Replicas : LookedUp(r) /\ Covered(r)

LEMMA CoverInit == Init => CoverInv
  BY DEF Init, CoverInv, LookedUp, Covered

\* Checkpoints and jobs stay, so that what is covered remains covered.
LEMMA InJobStays ==
    ASSUME JobsStay, NEW c, InJob(c) PROVE InJob(c)'
  BY KeysOfBootstraps DEF InJob, JobsStay

LEMMA CoverStays ==
    ASSUME TypeOK, CoverInv, JobsStay, checkpoints \subseteq checkpoints',
           NEW r \in Replicas, pc'[r] = pc[r], UNCHANGED <<todo[r], missing[r]>>
    PROVE  (LookedUp(r) /\ Covered(r))'
<1>1. \A c \in Channels \ checkpoints' : InJob(c) => InJob(c)'
  BY InJobStays
<1> QED BY <1>1 DEF CoverInv, LookedUp, Covered

\* The others are not disturbed by a step of the scheduler of one replica.
LEMMA OthersStay ==
    ASSUME TypeOK, NEW r \in Replicas, Starting(r) \/ StartFails(r) \/ Stop(r) \/ Tick(r),
           NEW q \in Replicas \ {r}
    PROVE  pc'[q] = pc[q] /\ UNCHANGED <<todo[q], missing[q]>>
  BY DEF TypeOK, Starting, Boot, CheckChannel, NothingMissing, CreateBootstrap, RequeueFailed,
         StartFails, Stop, Tick, Leave, Goto

\* A replica that comes up, or goes on to requeue, has everything covered.
LEMMA OwnCover ==
    ASSUME TypeOK, CoverInv, JobsStay,
           NEW r \in Replicas, Starting(r) \/ StartFails(r) \/ Stop(r) \/ Tick(r)
    PROVE  (LookedUp(r) /\ Covered(r))'
<1> USE DEF TypeOK
<1>1. \A c : InJob(c) => InJob(c)'
  BY InJobStays
<1>2. CASE Boot(r)
  BY <1>2 DEF Boot, Goto, LookedUp, Covered
<1>3. CASE NothingMissing(r)
  BY <1>3 DEF NothingMissing, Leave, Goto, CoverInv, LookedUp, Covered
<1>4. CASE CreateBootstrap(r)
  <2> DEFINE key == BootstrapKey(missing[r])
  <2>1. key \in BootstrapKeys /\ key \in Keys /\ key[2] = missing[r]
    BY <1>4, KeysOfBootstraps DEF CreateBootstrap
  <2>2. JobsOK
    BY TypeParts
  <2> HIDE DEF key
  <2>3. status'[key] # "absent"
    BY <1>4, <2>1, <2>2, CreateScheduledStep DEF CreateBootstrap, key
  <2>4. \A c \in Channels \ checkpoints : InJob(c)'
    BY <1>4, <2>1, <2>3 DEF CreateBootstrap, CoverInv, LookedUp, InJob
  <2>5. pc'[r] \in {"up", "requeueing"} /\ checkpoints' = checkpoints
    BY <1>4 DEF CreateBootstrap, Leave, Goto
  <2> QED BY <2>4, <2>5 DEF LookedUp, Covered
<1>5. CASE RequeueFailed(r)
  <2>1. \A c \in Channels \ checkpoints : InJob(c)'
    BY <1>1, <1>5 DEF RequeueFailed, CoverInv, LookedUp
  <2>2. pc'[r] \in {"up", "refused"} /\ checkpoints' = checkpoints
    BY <1>5 DEF RequeueFailed, Leave, Goto
  <2> QED BY <2>1, <2>2 DEF LookedUp, Covered
<1>6. ASSUME NEW c \in Channels, CheckChannel(r, c) PROVE (LookedUp(r) /\ Covered(r))'
  <2>1. pc'[r] = "checking" /\ checkpoints' = checkpoints
    BY <1>6 DEF CheckChannel
  <2>2. Channels \subseteq todo'[r] \union missing'[r] \union checkpoints
    BY <1>6 DEF CheckChannel, CoverInv, LookedUp
  <2> QED BY <2>1, <2>2 DEF LookedUp, Covered
<1>7. CASE StartFails(r)
  BY <1>7 DEF StartFails, Leave, Goto, LookedUp, Covered
<1>8. CASE Stop(r)
  BY <1>8 DEF Stop, Goto, LookedUp, Covered
<1>9. CASE Tick(r)
  BY <1>9, CoverStays DEF Tick
<1> QED BY <1>2, <1>3, <1>4, <1>5, <1>6, <1>7, <1>8, <1>9 DEF Starting

LEMMA CoverStep == TypeOK /\ CoverInv /\ [Next]_vars => CoverInv'
<1> SUFFICES ASSUME TypeOK, CoverInv, [Next]_vars PROVE CoverInv'
  OBVIOUS
<1>1. JobsStay
  BY TypeStep
<1>2. CASE \E r \in Replicas : Starting(r) \/ StartFails(r) \/ Stop(r) \/ Tick(r)
  <2>1. PICK r \in Replicas : Starting(r) \/ StartFails(r) \/ Stop(r) \/ Tick(r)
    BY <1>2
  <2>2. checkpoints' = checkpoints
    BY <2>1 DEF Starting, Boot, CheckChannel, NothingMissing, CreateBootstrap, RequeueFailed,
                StartFails, Stop, Tick
  <2>3. ASSUME NEW q \in Replicas \ {r} PROVE (LookedUp(q) /\ Covered(q))'
    BY <1>1, <2>1, <2>2, OthersStay, CoverStays
  <2>4. (LookedUp(r) /\ Covered(r))'
    BY <1>1, <2>1, OwnCover
  <2> QED BY <2>3, <2>4 DEF CoverInv
<1>3. CASE \/ NextSlot \/ UNCHANGED vars
           \/ \E key \in Keys :
                 \/ Claim(key) \/ FinishJob(key)
                 \/ \E c \in Channels : \/ SourceSucceeds(key, c) \/ SourceEmpty(key, c)
                                        \/ SourceFails(key, c)
  <2>1. UNCHANGED <<pc, todo, missing>> /\ checkpoints \subseteq checkpoints'
    BY <1>3 DEF NextSlot, vars, replica, Claim, FinishJob, SourceSucceeds, SourceEmpty, SourceFails
  <2>2. ASSUME NEW r \in Replicas PROVE (LookedUp(r) /\ Covered(r))'
    BY <1>1, <2>1, CoverStays
  <2> QED BY <2>2 DEF CoverInv
<1> QED BY <1>2, <1>3, NextCases

LEMMA CoverImplies == CoverInv => BootstrapCovers
  BY DEF CoverInv, Covered, InJob, BootstrapCovers

\* While a replica is up, every channel has a checkpoint or is a source of some
\* bootstrap job (enqueueBootstrap).
THEOREM BootstrapCoversCorrect == Spec => []BootstrapCovers
<1>1. Init => TypeOK /\ CoverInv
  BY TypeInit, CoverInit
<1>2. TypeOK /\ CoverInv /\ [Next]_vars => TypeOK' /\ CoverInv'
  BY TypeStep, CoverStep
<1>3. TypeOK /\ CoverInv => BootstrapCovers
  BY CoverImplies
<1> QED BY <1>1, <1>2, <1>3, PTL DEF Spec

------------------------------------------------------------------------------
(* Running jobs.                                                           *)

\* What RunningUndisturbed says of one step.
Undisturbed ==
    \A key \in Keys :
        status[key] = "running" =>
            /\ \/ status'[key] = "running"
               \/ left[key] = {} /\ status'[key] \in Terminal
            /\ left'[key] \subseteq left[key]

LEMMA UndisturbedStep == TypeOK /\ [Next]_vars => Undisturbed
<1> SUFFICES ASSUME TypeOK, [Next]_vars PROVE Undisturbed
  OBVIOUS
<1>1. RunningStays => Undisturbed
  BY DEF RunningStays, Undisturbed
<1>2. ASSUME NEW r \in Replicas, Starting(r) \/ StartFails(r) \/ Stop(r) \/ Tick(r)
      PROVE  Undisturbed
  BY <1>1, <1>2, ReplicaTypes
<1>3. CASE NextSlot \/ UNCHANGED vars
  BY <1>1, <1>3 DEF NextSlot, vars, jobs, RunningStays
<1>4. ASSUME NEW key \in Keys, Claim(key) PROVE Undisturbed
  BY <1>4 DEF Claim, Undisturbed, TypeOK
<1>5. ASSUME NEW key \in Keys, FinishJob(key) PROVE Undisturbed
  <2>1. PICK s \in Terminal : status' = [status EXCEPT ![key] = s]
    BY <1>5, FinishPicks
  <2> QED BY <1>5, <2>1 DEF FinishJob, Undisturbed, TypeOK
<1>6. ASSUME NEW key \in Keys, NEW c \in Channels,
             SourceSucceeds(key, c) \/ SourceEmpty(key, c) \/ SourceFails(key, c)
      PROVE  Undisturbed
  BY <1>6 DEF SourceSucceeds, SourceEmpty, SourceFails, Undisturbed, TypeOK
<1> QED BY <1>2, <1>3, <1>4, <1>5, <1>6, NextCases

\* No start of any replica takes a running job away from its worker or gives it
\* a source back (RequeueFailed, CreateScheduled).
THEOREM RunningUndisturbedCorrect == Spec => RunningUndisturbed
<1>1. TypeOK /\ [Next]_vars => [Undisturbed]_vars
  BY UndisturbedStep
<1>2. Spec => [][Undisturbed]_vars
  BY <1>1, TypeCorrect, PTL DEF Spec
<1> QED BY <1>2 DEF RunningUndisturbed, Undisturbed
==============================================================================
