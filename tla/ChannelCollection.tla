-------------------------- MODULE ChannelCollection --------------------------
(***************************************************************************)
(* Collection of one Telegram channel: jobs with a publication range, the  *)
(* checkpoint of the channel, the service "tasks" that judges candidates,  *)
(* and the executors that process a source of a job                        *)
(* (internal/collection/worker.go: processSource, collectTelegram,         *)
(* importCandidates).  Which executor may hold which job is the matter of  *)
(* CollectionQueue; here Overlap says whether two of them may be busy at   *)
(* one time.  ReadRange is used by its contract (TelegramReader), Import   *)
(* by that of TasksClient (TasksImport).                                   *)
(*                                                                         *)
(* Messages are their ids, and a message is published at the time that is  *)
(* its id.                                                                 *)
(***************************************************************************)
EXTENDS Naturals, FiniteSets, FiniteSetsExt

CONSTANTS
    LastID,     \* bound: messages the channel ever gets
    Judgements, \* how tasks and the pipeline take each message
    MaxJobs,    \* bound: jobs that exist at one time
    Executors,
    Limit,      \* max_items_per_source
    BatchSize,  \* candidates per request to tasks: 100 in the code
    Horizon,    \* length of the range of a scheduled job: 31 days
    Bootstrap,  \* length of the range of a bootstrap job
    MaxFaults,  \* bound: failures and lost executors
    Overlap,    \* two executors may be busy with this channel at one time
    NoJob

IDs == 1..LastID

ASSUME CollectionAssumption ==
    /\ LastID \in Nat /\ MaxJobs \in Nat /\ MaxFaults \in Nat
    /\ Limit \in Nat \ {0} /\ BatchSize \in Nat \ {0}
    /\ Horizon \in Nat \ {0} /\ Bootstrap \in Nat \ {0} /\ Overlap \in BOOLEAN
    /\ Judgements \subseteq [IDs -> {"accepted", "invalid", "malformed"}]

VARIABLES
    judgement,  \* accepted or invalid for tasks, or no candidate at all
    published,  \* messages published so far; also the present time
    jobs,       \* jobs to be run: their trigger and range [from, to)
    checkpoint, \* last_message_id of the channel, 0 without a row
    start,      \* history: where the run that inserted that row had begun
    stored,     \* messages tasks has accepted
    refused,    \* messages tasks has answered "invalid"
    pc, job,    \* where each executor is, and in which job
    after,      \* afterID, as read from the checkpoint
    low,        \* publishedFrom, as lowered by the checkpoint
    pending,    \* candidates not sent to tasks yet
    candidates, \* number of candidates of this run
    confirmed,  \* candidates tasks has answered "imported" or "duplicate"
    faults      \* failures so far

channel == <<judgement, published, jobs>>
outside == <<checkpoint, start, stored, refused>>
run == <<pc, job, after, low, pending, candidates, confirmed>>
vars == <<judgement, published, jobs, checkpoint, start, stored, refused,
          pc, job, after, low, pending, candidates, confirmed, faults>>

Oldest(k, S) == {m \in S : Cardinality({x \in S : x < m}) < k}

Triggers == {"manual", "scheduled", "bootstrap"}
Job == [trigger : Triggers, from : 0..LastID, to : 1..LastID + 1]
Steps == {"idle", "started", "reading", "importing"}

ASSUME NoJobAssumption == NoJob \notin Job

TypeOK ==
    /\ judgement \in Judgements /\ published \in 0..LastID
    /\ jobs \subseteq Job
    /\ checkpoint \in 0..LastID /\ start \in 0..LastID
    /\ stored \subseteq IDs /\ refused \subseteq IDs
    /\ pc \in [Executors -> Steps] /\ job \in [Executors -> Job \union {NoJob}]
    /\ \A e \in Executors : pc[e] = "idle" <=> job[e] = NoJob
    /\ after \in [Executors -> 0..LastID] /\ low \in [Executors -> 0..LastID]
    /\ pending \in [Executors -> SUBSET IDs]
    /\ candidates \in [Executors -> 0..Limit]
    /\ confirmed \in [Executors -> SUBSET IDs]
    /\ faults \in 0..MaxFaults

Init ==
    /\ judgement \in Judgements
    /\ published = 0
    /\ jobs = {}
    /\ checkpoint = 0 /\ start = 0 /\ stored = {} /\ refused = {}
    /\ pc = [e \in Executors |-> "idle"]
    /\ job = [e \in Executors |-> NoJob]
    /\ after = [e \in Executors |-> 0] /\ low = [e \in Executors |-> 0]
    /\ pending = [e \in Executors |-> {}]
    /\ candidates = [e \in Executors |-> 0]
    /\ confirmed = [e \in Executors |-> {}]
    /\ faults = 0

------------------------------------------------------------------------------

Publish ==
    /\ published < LastID
    /\ published' = published + 1
    /\ UNCHANGED <<judgement, jobs, outside, run, faults>>

\* The range [from, to) of a job ends with what is published when it is made.
Before(length) == IF published + 1 > length THEN published + 1 - length ELSE 0

Enqueue(trigger, a, b) ==
    /\ Cardinality(jobs) < MaxJobs
    /\ jobs' = jobs \union {[trigger |-> trigger, from |-> a, to |-> b]}
    /\ UNCHANGED <<judgement, published, outside, run, faults>>

\* enqueueScheduled, enqueueBootstrap (only without a checkpoint), createJob.
EnqueueScheduled == Enqueue("scheduled", Before(Horizon), published + 1)
EnqueueBootstrap ==
    /\ checkpoint = 0
    /\ Enqueue("bootstrap", Before(Bootstrap), published + 1)
EnqueueManual(a, b) ==
    /\ a < b /\ b <= published + 1
    /\ Enqueue("manual", a, b)

------------------------------------------------------------------------------

Fault == faults < MaxFaults /\ faults' = faults + 1

Goto(e, step) == pc' = [pc EXCEPT ![e] = step]

\* StartSource of a job claimed by this executor.
Begin(e, j) ==
    /\ pc[e] = "idle"
    /\ Overlap \/ \A d \in Executors : pc[d] = "idle"
    /\ job' = [job EXCEPT ![e] = j]
    /\ Goto(e, "started")
    /\ UNCHANGED <<channel, outside, after, low, pending, candidates, confirmed, faults>>

\* Mutants of ReadCheckpoint: the range is not lowered to the checkpoint; the
\* checkpoint moves the range but is not a bound on the ids.
ReadCheckpointKeepRange(e) ==
    LET resume == job[e].trigger # "manual" /\ checkpoint # 0
    IN  /\ pc[e] = "started"
        /\ after' = [after EXCEPT ![e] = IF resume THEN checkpoint ELSE 0]
        /\ low' = [low EXCEPT ![e] = job[e].from]
        /\ Goto(e, "reading")
        /\ UNCHANGED <<channel, outside, job, pending, candidates, confirmed, faults>>
ReadCheckpointNoAfter(e) ==
    LET resume == job[e].trigger # "manual" /\ checkpoint # 0
    IN  /\ pc[e] = "started"
        /\ after' = [after EXCEPT ![e] = 0]
        /\ low' = [low EXCEPT ![e] =
               IF resume /\ checkpoint < job[e].from THEN checkpoint ELSE job[e].from]
        /\ Goto(e, "reading")
        /\ UNCHANGED <<channel, outside, job, pending, candidates, confirmed, faults>>

\* The first half of collectTelegram.
ReadCheckpoint(e) ==
    LET resume == job[e].trigger # "manual" /\ checkpoint # 0
    IN  /\ pc[e] = "started"
        /\ after' = [after EXCEPT ![e] = IF resume THEN checkpoint ELSE 0]
        /\ low' = [low EXCEPT ![e] =
               IF resume /\ checkpoint < job[e].from THEN checkpoint ELSE job[e].from]
        /\ Goto(e, "reading")
        /\ UNCHANGED <<channel, outside, job, pending, candidates, confirmed, faults>>

Reset(e) ==
    /\ Goto(e, "idle")
    /\ job' = [job EXCEPT ![e] = NoJob]
    /\ after' = [after EXCEPT ![e] = 0] /\ low' = [low EXCEPT ![e] = 0]
    /\ pending' = [pending EXCEPT ![e] = {}]
    /\ candidates' = [candidates EXCEPT ![e] = 0]
    /\ confirmed' = [confirmed EXCEPT ![e] = {}]

\* The source has its result and the job is over, unless it is a bootstrap
\* that failed: the next start of the service requeues it, if the channel has
\* no checkpoint still.
Leave(e, failed) ==
    /\ \/ jobs' = jobs \ {job[e]}
       \/ failed /\ job[e].trigger = "bootstrap" /\ checkpoint = 0 /\ UNCHANGED jobs
    /\ Reset(e)
    /\ UNCHANGED <<judgement, published>>

\* What ReadRange returns.
InRange(e) ==
    Oldest(Limit, {m \in 1..published : /\ low[e] <= m /\ m < job[e].to
                                        /\ m > after[e]})

\* The second half of collectTelegram: the messages become candidates.
ReadMessages(e) ==
    /\ pc[e] = "reading"
    /\ \A m \in InRange(e) : judgement[m] # "malformed"
    /\ pending' = [pending EXCEPT ![e] = InRange(e)]
    /\ candidates' = [candidates EXCEPT ![e] = Cardinality(InRange(e))]
    /\ Goto(e, "importing")
    /\ UNCHANGED <<channel, outside, job, after, low, confirmed, faults>>

\* One message that normalize rejects fails the whole source.
FailNormalize(e) ==
    /\ pc[e] = "reading"
    /\ \E m \in InRange(e) : judgement[m] = "malformed"
    /\ Leave(e, TRUE)
    /\ UNCHANGED <<outside, faults>>

\* The reader, a request to tasks or the store fails.  What tasks has taken in
\* of the current batch by then, it keeps.
FailSource(e) ==
    /\ pc[e] # "idle" /\ Fault
    /\ \E taken \in SUBSET Oldest(BatchSize, pending[e]) :
          stored' = stored \union {m \in taken : judgement[m] = "accepted"}
    /\ Leave(e, TRUE)
    /\ UNCHANGED <<checkpoint, start, refused>>

\* One turn of importCandidates, with a complete answer from tasks.
ImportBatch(e) ==
    LET batch == Oldest(BatchSize, pending[e])
        accepted == {m \in batch : judgement[m] = "accepted"}
    IN  /\ pc[e] = "importing" /\ pending[e] # {}
        /\ stored' = stored \union accepted
        /\ refused' = refused \union (batch \ accepted)
        /\ confirmed' = [confirmed EXCEPT ![e] = @ \union accepted]
        /\ pending' = [pending EXCEPT ![e] = @ \ batch]
        /\ UNCHANGED <<channel, checkpoint, start, pc, job, after, low, candidates, faults>>

\* The row is inserted, or updated when the new id is greater.
UpsertCheckpoint(e) ==
    LET last == Max(confirmed[e])
    IN  IF checkpoint < last
        THEN /\ checkpoint' = last
             /\ start' = IF checkpoint = 0 THEN low[e] ELSE start
        ELSE UNCHANGED <<checkpoint, start>>

\* Mutant of Finish: a manual job moves the checkpoint too.
FinishAlsoManual(e) ==
    /\ pc[e] = "importing" /\ pending[e] = {}
    /\ LET failed == candidates[e] > 0 /\ confirmed[e] = {}
       IN  /\ IF failed \/ confirmed[e] = {}
              THEN UNCHANGED <<checkpoint, start>>
              ELSE UpsertCheckpoint(e)
           /\ Leave(e, failed)
    /\ UNCHANGED <<stored, refused, faults>>

\* The end of processSource.
Finish(e) ==
    /\ pc[e] = "importing" /\ pending[e] = {}
    /\ LET failed == candidates[e] > 0 /\ confirmed[e] = {}
           manual == job[e].trigger = "manual"
       IN  /\ IF failed \/ manual \/ confirmed[e] = {}
              THEN UNCHANGED <<checkpoint, start>>
              ELSE UpsertCheckpoint(e)
           /\ Leave(e, failed)
    /\ UNCHANGED <<stored, refused, faults>>

\* The process of the executor dies, or its lease lapses and the job is
\* claimed again: the job is still there.
Abandon(e) ==
    /\ pc[e] # "idle" /\ Fault
    /\ Reset(e)
    /\ UNCHANGED <<channel, outside>>

------------------------------------------------------------------------------

Progress(e) ==
    \/ ReadCheckpoint(e) \/ ReadMessages(e) \/ FailNormalize(e)
    \/ ImportBatch(e) \/ Finish(e)

Next ==
    \/ Publish
    \/ EnqueueScheduled
    \/ EnqueueBootstrap
    \/ \E a \in 1..LastID, b \in 2..LastID + 1 : EnqueueManual(a, b)
    \/ \E e \in Executors :
          \/ \E j \in jobs : Begin(e, j)
          \/ Progress(e) \/ FailSource(e) \/ Abandon(e)

Spec == Init /\ [][Next]_vars

BeginScheduled(e) == \E j \in jobs : j.trigger = "scheduled" /\ Begin(e, j)

\* Time passes, the cron fires for ever, and the queue, which is served in the
\* order of creation, starves no scheduled job.
Fairness ==
    /\ WF_vars(Publish) /\ SF_vars(EnqueueScheduled)
    /\ \A e \in Executors :
          /\ WF_vars(\E j \in jobs : Begin(e, j)) /\ SF_vars(BeginScheduled(e))
          /\ WF_vars(Progress(e))

FairSpec == Spec /\ Fairness

------------------------------------------------------------------------------

\* The checkpoint is a message that tasks has taken in, and never jumps over a
\* publication that was not processed: from where the first recorded run began
\* up to the checkpoint, tasks has answered for every message (telegram.go, the
\* comment in ReadRange; processSource).
NothingSkipped ==
    checkpoint # 0 =>
        /\ checkpoint \in stored
        /\ \A m \in IDs : start <= m /\ m <= checkpoint => m \in stored \union refused

Log == INSTANCE CheckpointLog

\* Jobs of any triggers and ranges, with their failures and crashes, move the
\* checkpoint as CheckpointLog lets it move, and no answer of tasks is lost on
\* the way: each run that is recorded takes up where the one before it ended
\* (collectTelegram, processSource, UpsertCheckpoint).
ImplementsLog == Log!LogSpec

\* Whatever appears in the channel after the first recorded run began, and is
\* fit to be taken in, reaches tasks, as long as no message is malformed and no
\* run is filled up with invalid ones.
Passable ==
    \A m \in IDs :
        /\ judgement[m] # "malformed"
        /\ m + Limit - 1 \in IDs => \E k \in m..m + Limit - 1 : judgement[k] = "accepted"

EveryTaskArrives ==
    \A m \in IDs :
        (/\ Passable /\ judgement[m] = "accepted"
         /\ published >= m /\ checkpoint # 0 /\ m >= start)
            ~> m \in stored
==============================================================================
