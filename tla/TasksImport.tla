----------------------------- MODULE TasksImport -----------------------------
(***************************************************************************)
(* One source's candidates on their way to the service "tasks":            *)
(* Worker.importCandidates (internal/collection/worker.go) sends them      *)
(* batch by batch through TasksClient.Import, which retries a batch whose  *)
(* call failed for a passing reason (internal/collection/tasksit.go).      *)
(*                                                                         *)
(* A call that failed may have been carried out all the same: its reply    *)
(* was lost, or tasks is still at work on it when the retry arrives.  A    *)
(* failed run is repeated by a later job, with the same candidates.        *)
(***************************************************************************)
EXTENDS Naturals

CONSTANTS
    Count,      \* candidates of the source
    BatchSize,  \* candidates per request: 100 in the code
    MaxRetries, \* tasks.max_retries of the configuration
    Invalid,    \* candidates that tasks rejects
    MaxRuns     \* bound: times the source is processed

Candidates == 1..Count

ASSUME ImportAssumption ==
    /\ MaxRetries \in Nat
    /\ Count \in Nat \ {0} /\ BatchSize \in Nat \ {0} /\ MaxRuns \in Nat \ {0}
    /\ Invalid \subseteq Candidates

VARIABLES
    stored,     \* candidates that tasks keeps, identified by external_id
    late,       \* candidates of calls given up by the client that tasks may
                \* still be about to take in
    pc,         \* where the run is
    sent,       \* candidates of the batches before the current one
    attempt,    \* of the current batch, from 0
    asked,      \* candidates of the current call that tasks has not looked at
    answers,    \* what tasks makes of the others
    imported, duplicates, invalid,  \* the counters of the source, as sets
    credits,    \* history: in how many runs each candidate was "imported"
    cancelled,  \* the context is done
    runs        \* how often the source was processed before

tasks == <<stored, late>>
call == <<asked, answers>>
counters == <<imported, duplicates, invalid, credits>>
vars == <<stored, late, pc, sent, attempt, asked, answers, imported, duplicates,
          invalid, credits, cancelled, runs>>

Statuses == {"imported", "duplicate", "invalid", "error"}
Steps == {"send", "wait", "backoff", "done", "failed"}

NoAnswers == [c \in {} |-> "error"]

TypeOK ==
    /\ stored \subseteq Candidates /\ late \subseteq Candidates
    /\ pc \in Steps /\ sent \in 0..Count
    /\ attempt \in 0..MaxRetries
    /\ asked \subseteq Candidates
    /\ DOMAIN answers \subseteq Candidates
    /\ \A c \in DOMAIN answers : answers[c] \in Statuses
    /\ imported \subseteq Candidates /\ duplicates \subseteq Candidates
    /\ invalid \subseteq Candidates
    /\ credits \in [Candidates -> Nat]
    /\ cancelled \in BOOLEAN /\ runs \in 0..MaxRuns

Init ==
    /\ stored = {} /\ late = {}
    /\ pc = "send" /\ sent = 0 /\ attempt = 0
    /\ asked = {} /\ answers = NoAnswers
    /\ imported = {} /\ duplicates = {} /\ invalid = {}
    /\ credits = [c \in Candidates |-> 0]
    /\ cancelled = FALSE /\ runs = 0

Batch == {c \in Candidates : sent < c /\ c <= sent + BatchSize}

------------------------------------------------------------------------------
(* The service tasks. *)

Verdict(c) == IF c \in Invalid THEN "invalid"
              ELSE IF c \in stored THEN "duplicate" ELSE "imported"

\* One candidate of the current call; storing it may fail.
TasksAnswer(c) ==
    /\ pc = "wait" /\ c \in asked
    /\ asked' = asked \ {c}
    /\ \E status \in {Verdict(c), "error"} :
          /\ answers' = [d \in DOMAIN answers \union {c} |->
                            IF d = c THEN status ELSE answers[d]]
          /\ stored' = IF status = "imported" THEN stored \union {c} ELSE stored
    /\ UNCHANGED <<late, pc, sent, attempt, counters, cancelled, runs>>

\* One candidate of a call that the client has given up.
TasksCatchesUp(c) ==
    /\ c \in late
    /\ late' = late \ {c}
    /\ stored' = IF c \in Invalid THEN stored ELSE stored \union {c}
    /\ UNCHANGED <<pc, sent, attempt, call, counters, cancelled, runs>>

------------------------------------------------------------------------------
(* TasksClient.Import. *)

Send ==
    /\ pc = "send"
    /\ pc' = "wait"
    /\ asked' = Batch /\ answers' = NoAnswers
    /\ UNCHANGED <<tasks, sent, attempt, counters, cancelled, runs>>

\* The call is over for the client, not always for tasks.
HangUp ==
    /\ asked' = {} /\ answers' = NoAnswers
    /\ late' = late \union asked

\* Mutants of RetryOrFail: the attempts are not counted; one too many.
RetryForEver == pc' = "backoff" /\ UNCHANGED attempt
RetryOnceMore ==
    IF attempt > MaxRetries
    THEN pc' = "failed" /\ UNCHANGED attempt
    ELSE pc' = "backoff" /\ attempt' = attempt + 1

RetryOrFail ==
    IF attempt = MaxRetries
    THEN pc' = "failed" /\ UNCHANGED attempt
    ELSE pc' = "backoff" /\ attempt' = attempt + 1

\* The connection breaks, the client's timeout or the context ends, or tasks
\* answers 5xx or 429.
CallFails ==
    /\ pc = "wait"
    /\ HangUp
    /\ RetryOrFail
    /\ UNCHANGED <<stored, sent, counters, cancelled, runs>>

\* Another status, or a body that is no JSON (one cut off at 1 MiB, say).
CallRefused ==
    /\ pc = "wait"
    /\ HangUp
    /\ pc' = "failed"
    /\ UNCHANGED <<stored, sent, attempt, counters, cancelled, runs>>

BackoffEnds ==
    /\ pc = "backoff"
    /\ pc' = "send"
    /\ UNCHANGED <<tasks, sent, attempt, call, counters, cancelled, runs>>

BackoffCancelled ==
    /\ pc = "backoff" /\ cancelled
    /\ pc' = "failed"
    /\ UNCHANGED <<tasks, sent, attempt, call, counters, cancelled, runs>>

------------------------------------------------------------------------------
(* importCandidates. *)

With(status, results) == {c \in results : answers[c] = status}

\* Mutants of Tally: what was there already counts as new; whatever was
\* answered counts as taken in.
TallyDuplicatesAsNew(results) ==
    LET new == With("imported", results) \union With("duplicate", results)
    IN  /\ imported' = imported \union new
        /\ credits' = [c \in Candidates |-> IF c \in new THEN credits[c] + 1 ELSE credits[c]]
        /\ invalid' = invalid \union With("invalid", results)
        /\ UNCHANGED duplicates
TallySeen(results) ==
    /\ imported' = imported \union With("imported", results)
    /\ duplicates' = duplicates \union (results \ With("imported", results))
    /\ credits' = [c \in Candidates |->
                      IF c \in With("imported", results) THEN credits[c] + 1 ELSE credits[c]]
    /\ UNCHANGED invalid

\* The loop over the results of a reply.
Tally(results) ==
    /\ imported' = imported \union With("imported", results)
    /\ duplicates' = duplicates \union With("duplicate", results)
    /\ invalid' = invalid \union With("invalid", results)
    /\ credits' = [c \in Candidates |->
                      IF c \in With("imported", results) THEN credits[c] + 1 ELSE credits[c]]

NextBatch ==
    IF sent + BatchSize < Count
    THEN pc' = "send" /\ sent' = sent + BatchSize
    ELSE pc' = "done" /\ UNCHANGED sent

Fine(results) == \A c \in results : answers[c] # "error"

\* Mutant of AcceptReply: a reply that leaves out candidates will do.
AcceptPartialReply ==
    /\ pc = "wait"
    /\ \E results \in SUBSET DOMAIN answers :
          Fine(results) /\ Tally(results)
    /\ HangUp
    /\ NextBatch
    /\ attempt' = 0
    /\ UNCHANGED <<stored, cancelled, runs>>

\* A reply with a good status for every candidate of the batch.
AcceptReply ==
    /\ pc = "wait" /\ asked = {}
    /\ Fine(Batch)
    /\ Tally(Batch)
    /\ HangUp
    /\ NextBatch
    /\ attempt' = 0
    /\ UNCHANGED <<stored, cancelled, runs>>

\* A reply that leaves out candidates of the batch is counted and is an error.
IncompleteReply ==
    /\ pc = "wait"
    /\ \E results \in SUBSET DOMAIN answers :
          results # Batch /\ Fine(results) /\ Tally(results)
    /\ HangUp
    /\ pc' = "failed"
    /\ UNCHANGED <<stored, sent, attempt, cancelled, runs>>

\* The status "error", an unknown one or a foreign external_id ends the loop:
\* only the results before it are counted.
BadReply ==
    /\ pc = "wait" /\ asked = {}
    /\ \E results \in SUBSET DOMAIN answers : Fine(results) /\ Tally(results)
    /\ HangUp
    /\ pc' = "failed"
    /\ UNCHANGED <<stored, sent, attempt, cancelled, runs>>

------------------------------------------------------------------------------

\* The worker is shut down.
Cancel ==
    /\ pc \in {"send", "wait", "backoff"} /\ ~cancelled
    /\ cancelled' = TRUE
    /\ UNCHANGED <<tasks, pc, sent, attempt, call, counters, runs>>

\* A later job, or the same one reclaimed, comes back to the source.
RunAgain ==
    /\ pc \in {"done", "failed"} /\ runs + 1 < MaxRuns
    /\ pc' = "send" /\ sent' = 0 /\ attempt' = 0
    /\ imported' = {} /\ duplicates' = {} /\ invalid' = {}
    /\ cancelled' = FALSE
    /\ runs' = runs + 1
    /\ UNCHANGED <<tasks, call, credits>>

Client ==
    \/ Send \/ CallFails \/ CallRefused \/ BackoffEnds \/ BackoffCancelled
    \/ AcceptReply \/ IncompleteReply \/ BadReply

Next ==
    \/ Client \/ Cancel \/ RunAgain
    \/ \E c \in Candidates : TasksAnswer(c) \/ TasksCatchesUp(c)

Spec == Init /\ [][Next]_vars

\* The client's timeout ends every call, and timers fire.
FairSpec == Spec /\ WF_vars(Client)

------------------------------------------------------------------------------

\* The candidates that importCandidates reports as successful.
Successful == imported \union duplicates

\* What a run reports as taken in, tasks really keeps, whatever became of the
\* replies to earlier calls (importCandidates; the checkpoint relies on it).
SuccessIsStored == Successful \subseteq stored

\* A run without an error has a verdict for each of its candidates, and the
\* right one: what an earlier call had stored is reported as a duplicate.
DoneIsDecided ==
    pc = "done" => Successful = Candidates \ Invalid /\ invalid = Invalid

\* The counters of all runs together count no candidate as imported twice.
ImportedOnce == \A c \in Candidates : credits[c] <= 1

\* Import gives up after MaxRetries: no failing service holds the worker.
RunEnds == pc = "send" ~> pc \in {"done", "failed"}
==============================================================================
