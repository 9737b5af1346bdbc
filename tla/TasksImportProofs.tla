-------------------------- MODULE TasksImportProofs --------------------------
(* Proofs about TasksImport, for any number of candidates, retries and runs. *)
EXTENDS TasksImport, TLAPS

\* The variables keep their types; in particular no batch is tried more often
\* than MaxRetries allows (TasksClient.Import).
THEOREM TypeCorrect == Spec => []TypeOK
<1>1. Init => TypeOK
  <2> SUFFICES ASSUME Init PROVE TypeOK
    OBVIOUS
  <2>1. sent \in 0..Count /\ attempt \in 0..MaxRetries /\ runs \in 0..MaxRuns
    BY ImportAssumption DEF Init
  <2>2. \A c \in DOMAIN answers : answers[c] \in Statuses
    BY DEF Init, NoAnswers
  <2>3. credits \in [Candidates -> Nat]
    BY DEF Init
  <2>4. DOMAIN answers \subseteq Candidates
    BY DEF Init, NoAnswers
  <2> QED
    BY <2>1, <2>2, <2>3, <2>4 DEF Init, TypeOK, Steps
<1>2. TypeOK /\ [Next]_vars => TypeOK'
  <2> SUFFICES ASSUME TypeOK, [Next]_vars PROVE TypeOK'
    OBVIOUS
  <2> USE ImportAssumption DEF TypeOK, Steps, Statuses, tasks, call, counters
  <2>1. CASE Send
    BY <2>1 DEF Send, Batch, NoAnswers
  <2>2. CASE CallFails
    BY <2>2 DEF CallFails, HangUp, RetryOrFail, NoAnswers
  <2>3. CASE CallRefused
    BY <2>3 DEF CallRefused, HangUp, NoAnswers
  <2>4. CASE BackoffEnds \/ BackoffCancelled \/ Cancel
    BY <2>4 DEF BackoffEnds, BackoffCancelled, Cancel
  <2>5. CASE AcceptReply
    BY <2>5 DEF AcceptReply, Tally, With, HangUp, NextBatch, Batch, NoAnswers
  <2>6. CASE IncompleteReply
    BY <2>6 DEF IncompleteReply, Tally, With, HangUp, NoAnswers
  <2>7. CASE BadReply
    BY <2>7 DEF BadReply, Tally, With, HangUp, NoAnswers
  <2>8. CASE RunAgain
    <3>1. runs' \in 0..MaxRuns /\ sent' \in 0..Count /\ attempt' \in 0..MaxRetries
      BY <2>8 DEF RunAgain
    <3> QED
      BY <2>8, <3>1 DEF RunAgain
  <2>9. ASSUME NEW c \in Candidates, TasksAnswer(c) PROVE TypeOK'
    BY <2>9 DEF TasksAnswer, Verdict
  <2>10. ASSUME NEW c \in Candidates, TasksCatchesUp(c) PROVE TypeOK'
    BY <2>10 DEF TasksCatchesUp
  <2>11. CASE UNCHANGED vars
    BY <2>11 DEF vars
  <2> QED
    BY <2>1, <2>2, <2>3, <2>4, <2>5, <2>6, <2>7, <2>8, <2>9, <2>10, <2>11 DEF Next, Client
<1> QED
  BY <1>1, <1>2, PTL DEF Spec

------------------------------------------------------------------------------

\* What the client holds of an answer agrees with what tasks keeps.
AnswersInv ==
    /\ pc # "wait" => answers = NoAnswers
    /\ pc = "wait" => asked \union DOMAIN answers = Batch
    /\ \A c \in DOMAIN answers :
          /\ answers[c] \in {"imported", "duplicate"} => c \in stored
          /\ answers[c] = "imported" => credits[c] = 0
          /\ c \notin asked

\* What was counted as imported is there.
CreditInv == \A c \in Candidates : credits[c] <= 1 /\ (credits[c] = 1 => c \in stored)

ReplyInv == AnswersInv /\ CreditInv /\ SuccessIsStored

LEMMA ReplyInductive == TypeOK /\ ReplyInv /\ [Next]_vars => ReplyInv'
<1> SUFFICES ASSUME TypeOK, ReplyInv, [Next]_vars PROVE ReplyInv'
  OBVIOUS
<1> USE ImportAssumption
        DEF TypeOK, ReplyInv, AnswersInv, CreditInv, SuccessIsStored, Successful,
            tasks, call, counters, Batch
<1>1. CASE Send
  BY <1>1 DEF Send, NoAnswers
<1>2. CASE CallFails \/ CallRefused
  BY <1>2 DEF CallFails, CallRefused, HangUp, RetryOrFail, NoAnswers
<1>3. CASE BackoffEnds \/ BackoffCancelled \/ Cancel
  BY <1>3 DEF BackoffEnds, BackoffCancelled, Cancel
<1>4. ASSUME NEW results \in SUBSET DOMAIN answers, Tally(results), HangUp, pc = "wait",
             pc' # "wait", UNCHANGED stored
      PROVE ReplyInv'
  BY <1>4 DEF Tally, With, HangUp, NoAnswers
<1>5. CASE AcceptReply
  <2>1. Batch = DOMAIN answers /\ pc' # "wait"
    BY <1>5 DEF AcceptReply, NextBatch
  <2> QED
    BY <1>4, <1>5, <2>1 DEF AcceptReply
<1>6. CASE IncompleteReply \/ BadReply
  BY <1>4, <1>6 DEF IncompleteReply, BadReply
<1>7. CASE RunAgain
  BY <1>7 DEF RunAgain
<1>8. ASSUME NEW c \in Candidates, TasksAnswer(c) PROVE ReplyInv'
  BY <1>8 DEF TasksAnswer, Verdict
<1>9. ASSUME NEW c \in Candidates, TasksCatchesUp(c) PROVE ReplyInv'
  BY <1>9 DEF TasksCatchesUp
<1>10. CASE UNCHANGED vars
  BY <1>10 DEF vars
<1> QED
  BY <1>1, <1>2, <1>3, <1>5, <1>6, <1>7, <1>8, <1>9, <1>10 DEF Next, Client

\* What a run reports as taken in, tasks keeps, also when replies were lost and
\* calls repeated (importCandidates).
THEOREM SuccessCorrect == Spec => []SuccessIsStored
<1>1. Init => ReplyInv
  BY ImportAssumption
     DEF Init, ReplyInv, AnswersInv, CreditInv, SuccessIsStored, Successful, NoAnswers
<1> QED
  BY <1>1, ReplyInductive, TypeCorrect, PTL DEF Spec, ReplyInv

\* All runs together count no candidate as imported twice.
THEOREM CreditCorrect == Spec => []ImportedOnce
<1>1. Init => ReplyInv
  BY ImportAssumption
     DEF Init, ReplyInv, AnswersInv, CreditInv, SuccessIsStored, Successful, NoAnswers
<1>2. ReplyInv => ImportedOnce
  BY DEF ReplyInv, CreditInv, ImportedOnce
<1> QED
  BY <1>1, <1>2, ReplyInductive, TypeCorrect, PTL DEF Spec

------------------------------------------------------------------------------

\* The batches before the current one are decided, and nothing is counted that
\* was not sent.
DecidedInv ==
    /\ pc # "failed" => \A c \in 1..sent :
          IF c \in Invalid THEN c \in invalid ELSE c \in Successful
    /\ invalid \subseteq Invalid
    /\ Successful \subseteq Candidates \ Invalid
    /\ \A c \in DOMAIN answers :
          /\ answers[c] = "invalid" => c \in Invalid
          /\ answers[c] \in {"imported", "duplicate"} => c \notin Invalid
    /\ DoneIsDecided

LEMMA DecidedInductive ==
    TypeOK /\ AnswersInv /\ DecidedInv /\ [Next]_vars => DecidedInv'
<1> SUFFICES ASSUME TypeOK, AnswersInv, DecidedInv, [Next]_vars PROVE DecidedInv'
  OBVIOUS
<1> USE ImportAssumption
        DEF TypeOK, Statuses, DecidedInv, DoneIsDecided, Successful, tasks, call, counters
<1>1. CASE Send
  BY <1>1 DEF Send, NoAnswers
<1>2. CASE CallFails \/ CallRefused
  BY <1>2 DEF CallFails, CallRefused, HangUp, RetryOrFail, NoAnswers
<1>3. CASE BackoffEnds \/ BackoffCancelled \/ Cancel
  BY <1>3 DEF BackoffEnds, BackoffCancelled, Cancel
<1>4. CASE AcceptReply
  <2>1. Batch = DOMAIN answers
    BY <1>4 DEF AcceptReply, AnswersInv
  <2>2. \A c \in Batch : IF c \in Invalid THEN c \in invalid' ELSE c \in Successful'
    BY <1>4, <2>1 DEF AcceptReply, Tally, With, Fine
  <2>3. /\ invalid' \subseteq Invalid
        /\ Successful' \subseteq Candidates \ Invalid
        /\ invalid \subseteq invalid' /\ Successful \subseteq Successful'
    BY <1>4, <2>1 DEF AcceptReply, Tally, With
  <2>4. \A c \in 1..sent + BatchSize :
           c \in Candidates =>
              IF c \in Invalid THEN c \in invalid' ELSE c \in Successful'
    <3> SUFFICES ASSUME NEW c \in 1..sent + BatchSize, c \in Candidates
                 PROVE  IF c \in Invalid THEN c \in invalid' ELSE c \in Successful'
      OBVIOUS
    <3>1. CASE c \in 1..sent
      BY <1>4, <2>3, <3>1 DEF AcceptReply
    <3>2. CASE c \in Batch
      BY <2>2, <3>2
    <3> QED
      BY <3>1, <3>2 DEF Batch, Candidates
  <2>5. answers' = NoAnswers
    BY <1>4 DEF AcceptReply, HangUp
  <2>6. CASE sent + BatchSize < Count
    BY <1>4, <2>3, <2>4, <2>5, <2>6 DEF AcceptReply, NextBatch, NoAnswers, Candidates
  <2>7. CASE ~(sent + BatchSize < Count)
    <3>1. \A c \in Candidates : IF c \in Invalid THEN c \in invalid' ELSE c \in Successful'
      BY <2>4, <2>7 DEF Candidates
    <3>2. pc' = "done" /\ sent' = sent
      BY <1>4, <2>7 DEF AcceptReply, NextBatch
    <3> QED
      BY <2>3, <2>5, <3>1, <3>2 DEF NoAnswers, Candidates
  <2> QED
    BY <2>6, <2>7
<1>5. CASE IncompleteReply \/ BadReply
  BY <1>5 DEF IncompleteReply, BadReply, Tally, With, HangUp, NoAnswers
<1>6. CASE RunAgain
  BY <1>6 DEF RunAgain
<1>7. ASSUME NEW c \in Candidates, TasksAnswer(c) PROVE DecidedInv'
  BY <1>7 DEF TasksAnswer, Verdict
<1>8. ASSUME NEW c \in Candidates, TasksCatchesUp(c) PROVE DecidedInv'
  BY <1>8 DEF TasksCatchesUp
<1>9. CASE UNCHANGED vars
  BY <1>9 DEF vars
<1> QED
  BY <1>1, <1>2, <1>3, <1>4, <1>5, <1>6, <1>7, <1>8, <1>9 DEF Next, Client

\* A run without an error has the right verdict for each of its candidates, for
\* any number of batches.
THEOREM DoneCorrect == Spec => []DoneIsDecided
<1>1. Init => ReplyInv /\ DecidedInv
  BY ImportAssumption
     DEF Init, ReplyInv, AnswersInv, CreditInv, SuccessIsStored, Successful, NoAnswers,
         DecidedInv, DoneIsDecided
<1>2. ReplyInv => AnswersInv
  BY DEF ReplyInv
<1>3. DecidedInv => DoneIsDecided
  BY DEF DecidedInv
<1> QED
  BY <1>1, <1>2, <1>3, ReplyInductive, DecidedInductive, TypeCorrect, PTL DEF Spec
==============================================================================
