------------------------ MODULE ChannelCollectionProofs ------------------------
(***************************************************************************)
(* Theorems about ChannelCollection, for any channel, judgements, limits,  *)
(* ranges and failures, and any executors that are busy one at a time.     *)
(***************************************************************************)
EXTENDS ChannelCollection, FiniteSetTheorems, WellFoundedInduction, TLAPS

------------------------------------------------------------------------------
(* Sets of message ids.                                                    *)

LEMMA IdsAreFinite == ASSUME NEW S \in SUBSET IDs PROVE IsFiniteSet(S)
<1>1. LastID \in Nat /\ IDs \in SUBSET Nat /\ \A m \in IDs : m <= LastID
  BY CollectionAssumption DEF IDs
<1> QED BY <1>1, FS_BoundedSetOfNaturals

LEMMA LeastNat ==
    ASSUME NEW T \in SUBSET Nat, T # {}
    PROVE  \E x \in T : \A y \in T : x <= y
<1> DEFINE Less == {ss \in Nat \X Nat : ss[1] < ss[2]}
<1>1. OpToRel(<, Nat) = Less
  BY DEF OpToRel
<1>2. IsWellFoundedOn(Less, Nat)
  BY <1>1, NatLessThanWellFounded
<1>3. \A x, y \in T : x < y => <<x, y>> \in Less
  OBVIOUS
<1>4. T \subseteq Nat
  OBVIOUS
<1> HIDE DEF Less
<1>5. \E x \in T : \A y \in T : ~ (<<y, x>> \in Less)
  BY <1>2, <1>4, WFMin
<1>6. PICK x \in T : \A y \in T : ~ (<<y, x>> \in Less)
  BY <1>5
<1>7. \A y \in T : ~ (y < x)
  BY <1>3, <1>6
<1> QED BY <1>4, <1>7

\* The greatest id of a set, of which the worker makes the checkpoint.
LEMMA GreatestId ==
    ASSUME NEW S \in SUBSET IDs, S # {}
    PROVE  Max(S) \in S /\ \A m \in S : m <= Max(S)
<1>1. LastID \in Nat /\ \A m \in S : m \in 1..LastID
  BY CollectionAssumption DEF IDs
<1> DEFINE T == {LastID - m : m \in S}
<1>2. T \subseteq Nat /\ T # {}
  BY <1>1
<1>3. PICK x \in T : \A y \in T : x <= y
  BY <1>2, LeastNat
<1>4. PICK m \in S : x = LastID - m
  OBVIOUS
<1>5. \A k \in S : m >= k
  BY <1>1, <1>3, <1>4
<1>6. Max(S) \in S /\ \A k \in S : Max(S) >= k
  BY <1>4, <1>5 DEF Max
<1> QED BY <1>1, <1>6

\* Oldest never gives more than it is asked for.
LEMMA OldestIsBounded ==
    ASSUME NEW S \in SUBSET IDs, NEW k \in Nat
    PROVE  /\ Oldest(k, S) \subseteq S
           /\ Cardinality(Oldest(k, S)) \in 0..k
<1> DEFINE T == Oldest(k, S)
<1>1. T \in SUBSET IDs /\ T \subseteq S /\ IsFiniteSet(T) /\ Cardinality(T) \in Nat
  BY IdsAreFinite, FS_CardinalityType DEF Oldest
<1>2. CASE T = {}
  BY <1>1, <1>2, FS_EmptySet
<1>3. CASE T # {}
  <2> DEFINE last == Max(T)
             U == {x \in S : x < last}
  <2>1. last \in T /\ \A m \in T : m <= last
    BY <1>1, <1>3, GreatestId
  <2>2. Cardinality(U) < k
    BY <2>1 DEF Oldest
  <2>3. U \in SUBSET IDs /\ IsFiniteSet(U) /\ Cardinality(U) \in Nat
    BY IdsAreFinite, FS_CardinalityType
  <2>4. \A m \in S : m \in Nat
    BY DEF IDs
  <2>5. T \subseteq U \union {last}
    BY <1>1, <2>1, <2>4
  <2> HIDE DEF U
  <2>6. IsFiniteSet(U \union {last}) /\ Cardinality(U \union {last}) <= Cardinality(U) + 1
    BY <2>3, FS_AddElement
  <2>7. Cardinality(T) <= Cardinality(U \union {last})
    BY <2>5, <2>6, FS_Subset
  <2>8. Cardinality(U \union {last}) \in Nat
    BY <2>6, FS_CardinalityType
  <2> QED BY <1>1, <2>2, <2>3, <2>6, <2>7, <2>8
<1> QED BY <1>1, <1>2, <1>3

\* Oldest leaves no gap: what is older than a member is a member.
LEMMA OldestIsOldest ==
    ASSUME NEW S \in SUBSET IDs, NEW k \in Nat, NEW n \in Oldest(k, S),
           NEW m \in S, m <= n
    PROVE  m \in Oldest(k, S)
<1> DEFINE Below(x) == {y \in S : y < x}
<1>1. m \in Nat /\ n \in Nat /\ n \in S /\ \A y \in S : y \in Nat
  BY DEF Oldest, IDs
<1>2. Below(m) \subseteq S /\ Below(n) \subseteq S
  OBVIOUS
<1>3. \A y \in S : y < m => y < n
  BY <1>1
<1>4. Below(m) \subseteq Below(n)
  BY <1>3
<1>5. IsFiniteSet(Below(m)) /\ IsFiniteSet(Below(n))
  BY <1>2, IdsAreFinite
<1>6. /\ Cardinality(Below(m)) <= Cardinality(Below(n))
      /\ Cardinality(Below(m)) \in Nat /\ Cardinality(Below(n)) \in Nat
  BY <1>4, <1>5, FS_Subset, FS_CardinalityType
<1>7. Cardinality(Below(n)) < k
  BY DEF Oldest
<1>8. Cardinality(Below(m)) < k
  BY <1>6, <1>7
<1> QED BY <1>8 DEF Oldest

------------------------------------------------------------------------------
(* Types.                                                                  *)

LEMMA TypeInit == Init => TypeOK
  BY CollectionAssumption DEF Init, TypeOK, Steps

\* What an executor that lets go of its job leaves behind.
LEMMA ResetStep ==
    ASSUME TypeOK, NEW e \in Executors, Reset(e)
    PROVE  /\ pc' \in [Executors -> Steps] /\ job' \in [Executors -> Job \union {NoJob}]
           /\ \A d \in Executors : pc'[d] = "idle" <=> job'[d] = NoJob
           /\ after' \in [Executors -> 0..LastID] /\ low' \in [Executors -> 0..LastID]
           /\ pending' \in [Executors -> SUBSET IDs]
           /\ candidates' \in [Executors -> 0..Limit]
           /\ confirmed' \in [Executors -> SUBSET IDs]
<1>1. LastID \in Nat /\ Limit \in Nat
  BY CollectionAssumption
<1> QED BY <1>1 DEF TypeOK, Reset, Goto, Steps

LEMMA LeaveStep ==
    ASSUME TypeOK, NEW e \in Executors, NEW failed, Leave(e, failed)
    PROVE  /\ judgement' \in Judgements /\ published' \in 0..LastID /\ jobs' \subseteq Job
           /\ Reset(e)
  BY DEF TypeOK, Leave

LEMMA RangeType ==
    ASSUME TypeOK, NEW e \in Executors
    PROVE  /\ InRange(e) \in SUBSET IDs
           /\ Cardinality(InRange(e)) \in 0..Limit
<1> DEFINE S == {m \in 1..published : /\ low[e] <= m /\ m < job[e].to /\ m > after[e]}
<1>1. Limit \in Nat /\ LastID \in Nat
  BY CollectionAssumption
<1>2. S \in SUBSET IDs
  BY <1>1 DEF TypeOK, IDs
<1>3. InRange(e) = Oldest(Limit, S)
  BY DEF InRange
<1> HIDE DEF S
<1> QED BY <1>1, <1>2, <1>3, OldestIsBounded

LEMMA TypeStep == TypeOK /\ [Next]_vars => TypeOK'
<1> SUFFICES ASSUME TypeOK, [Next]_vars PROVE TypeOK'
  OBVIOUS
<1> USE CollectionAssumption, NoJobAssumption
<1> USE DEF TypeOK, channel, outside, run
<1>1. CASE Publish
  BY <1>1 DEF Publish
<1>2. ASSUME NEW trigger \in Triggers, NEW a \in 0..LastID, NEW b \in 1..LastID + 1,
             Enqueue(trigger, a, b)
      PROVE  TypeOK'
  BY <1>2 DEF Enqueue, Job
<1>3. CASE EnqueueScheduled \/ EnqueueBootstrap
  <2>1. /\ published + 1 \in 1..LastID + 1
        /\ Before(Horizon) \in 0..LastID /\ Before(Bootstrap) \in 0..LastID
    BY DEF Before
  <2> QED BY <1>2, <1>3, <2>1 DEF EnqueueScheduled, EnqueueBootstrap, Triggers
<1>4. ASSUME NEW a \in 1..LastID, NEW b \in 2..LastID + 1, EnqueueManual(a, b)
      PROVE  TypeOK'
  BY <1>2, <1>4 DEF EnqueueManual, Triggers
<1>5. ASSUME NEW e \in Executors, NEW j \in jobs, Begin(e, j) PROVE TypeOK'
  BY <1>5 DEF Begin, Goto, Steps
<1>6. ASSUME NEW e \in Executors, ReadCheckpoint(e) PROVE TypeOK'
  <2>1. job[e] \in Job
    BY <1>6 DEF ReadCheckpoint
  <2> QED BY <1>6, <2>1 DEF ReadCheckpoint, Goto, Steps, Job
<1>7. ASSUME NEW e \in Executors, ReadMessages(e) PROVE TypeOK'
  BY <1>7, RangeType DEF ReadMessages, Goto, Steps
<1>8. ASSUME NEW e \in Executors, FailNormalize(e) PROVE TypeOK'
  BY <1>8, LeaveStep, ResetStep DEF FailNormalize
<1>9. ASSUME NEW e \in Executors, FailSource(e) PROVE TypeOK'
  <2>1. Fault /\ Leave(e, TRUE) /\ checkpoint' = checkpoint /\ start' = start /\ refused' = refused
    BY <1>9, Zenon DEF FailSource
  <2>2. faults' \in 0..MaxFaults
    BY <2>1 DEF Fault
  <2>3. PICK taken \in SUBSET Oldest(BatchSize, pending[e]) :
            stored' = stored \union {m \in taken : judgement[m] = "accepted"}
    BY <1>9 DEF FailSource
  <2>4. stored' \subseteq IDs
    BY <2>3 DEF Oldest
  <2> QED BY <2>1, <2>2, <2>4, LeaveStep, ResetStep
<1>10. ASSUME NEW e \in Executors, ImportBatch(e) PROVE TypeOK'
  <2>1. Oldest(BatchSize, pending[e]) \in SUBSET IDs
    BY DEF Oldest
  <2> QED BY <1>10, <2>1 DEF ImportBatch
<1>11. ASSUME NEW e \in Executors, Finish(e) PROVE TypeOK'
  <2>1. PICK failed : Leave(e, failed)
    BY <1>11 DEF Finish
  <2>2. UNCHANGED <<stored, refused, faults>>
    BY <1>11 DEF Finish
  <2>3. confirmed[e] \in SUBSET IDs
    OBVIOUS
  <2>4. confirmed[e] # {} => Max(confirmed[e]) \in IDs
    BY <2>3, GreatestId
  <2>5. checkpoint' \in 0..LastID /\ start' \in 0..LastID
    BY <1>11, <2>4 DEF Finish, UpsertCheckpoint, IDs
  <2> QED BY <2>1, <2>2, <2>5, LeaveStep, ResetStep
<1>12. ASSUME NEW e \in Executors, Abandon(e) PROVE TypeOK'
  BY <1>12, ResetStep DEF Abandon, Fault
<1>13. CASE UNCHANGED vars
  BY <1>13 DEF vars
<1> QED
  BY <1>1, <1>3, <1>4, <1>5, <1>6, <1>7, <1>8, <1>9, <1>10, <1>11, <1>12, <1>13
  DEF Next, Progress

\* The rows, the messages and the variables of processSource keep their types;
\* a run never has more candidates than max_items_per_source.
THEOREM ChannelTypeCorrect == Spec => []TypeOK
<1> QED BY TypeInit, TypeStep, PTL DEF Spec

------------------------------------------------------------------------------
(* The checkpoint, while executors are busy one at a time.                 *)

Alone == \A d, e \in Executors : pc[d] # "idle" /\ pc[e] # "idle" => d = e

\* A run that may write the checkpoint has begun where the checkpoint is now.
Resumes(e) ==
    pc[e] \in {"reading", "importing"} /\ job[e].trigger # "manual" =>
        after[e] = checkpoint /\ (checkpoint # 0 => low[e] <= checkpoint)

\* A run begins at low and leaves no gap behind: what is older than one of its messages, and in
\* its range, is answered or still to be sent.
Covers(e) ==
    /\ pc[e] # "importing" => confirmed[e] = {}
    /\ pc[e] = "importing" =>
          /\ confirmed[e] \subseteq stored
          /\ \A k \in confirmed[e] \union pending[e] : low[e] <= k
          /\ \A k \in confirmed[e] \union pending[e], m \in IDs :
                low[e] <= m /\ after[e] < m /\ m <= k => m \in stored \union refused \union pending[e]

RunInv == \A e \in Executors : Resumes(e) /\ Covers(e)

SkipInv == Alone /\ RunInv /\ NothingSkipped

LEMMA SkipInit == Init => SkipInv
  BY DEF Init, SkipInv, Alone, RunInv, Resumes, Covers, NothingSkipped

\* Answers of tasks take nothing from what a checkpoint rests on.
LEMMA AnswersGrow ==
    ASSUME UNCHANGED <<checkpoint, start>>, stored \subseteq stored', refused \subseteq refused'
    PROVE  NothingSkipped => NothingSkipped'
  BY DEF NothingSkipped

\* An executor that does nothing keeps what it has, though answers come in.
LEMMA OthersKeep ==
    ASSUME stored \subseteq stored', refused \subseteq refused', NEW d \in Executors,
           pc'[d] = pc[d], job'[d] = job[d], after'[d] = after[d], low'[d] = low[d],
           pending'[d] = pending[d], confirmed'[d] = confirmed[d],
           checkpoint' = checkpoint \/ pc[d] = "idle"
    PROVE  Resumes(d) /\ Covers(d) => Resumes(d)' /\ Covers(d)'
  BY DEF Resumes, Covers

\* An executor that lets go of its job disturbs none of this.
LEMMA ResetKeeps ==
    ASSUME TypeOK, Alone, RunInv, NEW e \in Executors, Reset(e), pc[e] # "idle",
           stored \subseteq stored', refused \subseteq refused'
    PROVE  Alone' /\ RunInv'
<1>1. pc' = [pc EXCEPT ![e] = "idle"] /\ confirmed' = [confirmed EXCEPT ![e] = {}]
  BY DEF Reset, Goto
<1>2. Alone'
  BY <1>1 DEF Alone, TypeOK
<1>3. Resumes(e)' /\ Covers(e)'
  BY <1>1 DEF Resumes, Covers, TypeOK
<1>4. ASSUME NEW d \in Executors, d # e PROVE Resumes(d)' /\ Covers(d)'
  <2>1. pc[d] = "idle"
    BY <1>4 DEF Alone
  <2>2. /\ pc'[d] = pc[d] /\ job'[d] = job[d] /\ after'[d] = after[d] /\ low'[d] = low[d]
        /\ pending'[d] = pending[d] /\ confirmed'[d] = confirmed[d]
    BY <1>4 DEF Reset, Goto, TypeOK
  <2> QED BY <2>1, <2>2, OthersKeep DEF RunInv
<1> QED BY <1>2, <1>3, <1>4 DEF RunInv

\* What ReadRange returns is in the range and leaves no gap in it.
LEMMA RangeBegins ==
    ASSUME TypeOK, NEW e \in Executors PROVE \A k \in InRange(e) : low[e] <= k
  BY DEF InRange, Oldest

LEMMA RangeCovers ==
    ASSUME TypeOK, NEW e \in Executors, job[e] \in Job,
           NEW k \in InRange(e), NEW m \in IDs, low[e] <= m, after[e] < m, m <= k
    PROVE  m \in InRange(e)
<1> DEFINE S == {n \in 1..published : /\ low[e] <= n /\ n < job[e].to /\ n > after[e]}
<1>1. Limit \in Nat /\ LastID \in Nat
  BY CollectionAssumption
<1>2. S \in SUBSET IDs
  BY <1>1 DEF TypeOK, IDs
<1>3. InRange(e) = Oldest(Limit, S)
  BY DEF InRange
<1>4. k \in S
  BY <1>3 DEF Oldest
<1>5. m \in S
  BY <1>1, <1>4 DEF TypeOK, Job, IDs
<1> HIDE DEF S
<1> QED BY <1>1, <1>2, <1>3, <1>5, OldestIsOldest

\* The checkpoint a run leaves behind.
LEMMA FinishKeepsAll ==
    ASSUME TypeOK, SkipInv, NEW e \in Executors, Finish(e)
    PROVE  NothingSkipped'
<1>1. UNCHANGED <<stored, refused>> /\ pc[e] = "importing" /\ pending[e] = {}
  BY DEF Finish
<1>2. CASE UNCHANGED <<checkpoint, start>>
  BY <1>1, <1>2 DEF NothingSkipped, SkipInv
<1>3. CASE ~ UNCHANGED <<checkpoint, start>>
  <2> DEFINE last == Max(confirmed[e])
  <2>1. /\ confirmed[e] # {} /\ job[e].trigger # "manual"
        /\ checkpoint < last /\ checkpoint' = last
        /\ start' = IF checkpoint = 0 THEN low[e] ELSE start
    BY <1>3 DEF Finish, UpsertCheckpoint
  <2>2. last \in confirmed[e] /\ last \in stored /\ last \in IDs
    <3>1. confirmed[e] \in SUBSET IDs /\ confirmed[e] \subseteq stored
      BY <1>1 DEF TypeOK, SkipInv, RunInv, Covers
    <3> QED BY <2>1, <3>1, GreatestId
  <2>3. after[e] = checkpoint /\ (checkpoint # 0 => low[e] <= checkpoint)
    BY <1>1, <2>1 DEF SkipInv, RunInv, Resumes
  <2>4. \A m \in IDs : low[e] <= m /\ after[e] < m /\ m <= last => m \in stored \union refused
    BY <1>1, <2>2 DEF SkipInv, RunInv, Covers
  <2>5. /\ checkpoint \in Nat /\ low[e] \in Nat /\ last \in Nat
        /\ \A m \in IDs : m \in Nat \ {0}
    BY <2>2, CollectionAssumption DEF TypeOK, IDs
  <2> HIDE DEF last
  <2>6. ASSUME NEW m \in IDs, start' <= m, m <= last PROVE m \in stored \union refused
    <3>1. CASE checkpoint < m
      <4>1. low[e] <= m
        BY <2>1, <2>3, <2>5, <2>6, <3>1
      <4> QED BY <2>3, <2>4, <2>6, <3>1, <4>1
    <3>2. CASE m <= checkpoint
      <4>1. checkpoint # 0 /\ start <= m
        BY <2>1, <2>5, <2>6, <3>2
      <4> QED BY <3>2, <4>1 DEF SkipInv, NothingSkipped
    <3> QED BY <2>5, <3>1, <3>2
  <2> QED BY <1>1, <2>1, <2>2, <2>6 DEF NothingSkipped
<1> QED BY <1>2, <1>3

LEMMA SkipStep == ASSUME ~Overlap PROVE TypeOK /\ SkipInv /\ [Next]_vars => SkipInv'
<1> SUFFICES ASSUME TypeOK, SkipInv, [Next]_vars PROVE SkipInv'
  OBVIOUS
<1> USE DEF channel, outside, run
<1>1. ASSUME UNCHANGED <<outside, run>> PROVE SkipInv'
  BY <1>1 DEF SkipInv, Alone, RunInv, Resumes, Covers, NothingSkipped
<1>2. CASE Publish \/ EnqueueScheduled \/ EnqueueBootstrap
  BY <1>1, <1>2 DEF Publish, EnqueueScheduled, EnqueueBootstrap, Enqueue
<1>3. ASSUME NEW a \in 1..LastID, NEW b \in 2..LastID + 1, EnqueueManual(a, b)
      PROVE  SkipInv'
  BY <1>1, <1>3 DEF EnqueueManual, Enqueue
<1>4. ASSUME NEW e \in Executors, NEW j \in jobs, Begin(e, j) PROVE SkipInv'
  <2>1. Alone'
    BY <1>4 DEF Begin, Goto, Alone, TypeOK
  <2>2. RunInv'
    BY <1>4 DEF Begin, Goto, SkipInv, RunInv, Resumes, Covers, TypeOK
  <2> QED BY <1>4, <2>1, <2>2, AnswersGrow DEF Begin, SkipInv
<1>5. ASSUME NEW e \in Executors, ReadCheckpoint(e) PROVE SkipInv'
  <2>1. Alone'
    BY <1>5 DEF ReadCheckpoint, Goto, SkipInv, Alone, TypeOK
  <2>2. job[e] \in Job /\ checkpoint \in Nat
    BY <1>5, CollectionAssumption DEF ReadCheckpoint, TypeOK
  <2>3. Resumes(e)' /\ Covers(e)'
    BY <1>5, <2>2 DEF ReadCheckpoint, Goto, SkipInv, RunInv, Resumes, Covers, TypeOK, Job
  <2>4. ASSUME NEW d \in Executors, d # e PROVE Resumes(d)' /\ Covers(d)'
    BY <1>5, <2>4, OthersKeep DEF ReadCheckpoint, Goto, SkipInv, RunInv, TypeOK
  <2> QED BY <1>5, <2>1, <2>3, <2>4, AnswersGrow DEF ReadCheckpoint, SkipInv, RunInv
<1>6. ASSUME NEW e \in Executors, ReadMessages(e) PROVE SkipInv'
  <2>1. Alone'
    BY <1>6 DEF ReadMessages, Goto, SkipInv, Alone, TypeOK
  <2>2. job[e] \in Job
    BY <1>6 DEF ReadMessages, TypeOK
  <2>3. confirmed[e] = {} /\ confirmed' = confirmed /\ pending'[e] = InRange(e)
    BY <1>6 DEF ReadMessages, SkipInv, RunInv, Covers, TypeOK
  <2>4. \A k \in pending'[e], m \in IDs :
            low[e] <= m /\ after[e] < m /\ m <= k => m \in pending'[e]
    BY <2>2, <2>3, RangeCovers
  <2>7. \A k \in pending'[e] : low[e] <= k
    BY <2>3, RangeBegins
  <2>5. Resumes(e)' /\ Covers(e)'
    BY <1>6, <2>3, <2>4, <2>7 DEF ReadMessages, Goto, SkipInv, RunInv, Resumes, Covers, TypeOK
  <2>6. ASSUME NEW d \in Executors, d # e PROVE Resumes(d)' /\ Covers(d)'
    BY <1>6, <2>6, OthersKeep DEF ReadMessages, Goto, SkipInv, RunInv, TypeOK
  <2> QED BY <1>6, <2>1, <2>5, <2>6, AnswersGrow DEF ReadMessages, SkipInv, RunInv
<1>7. ASSUME NEW e \in Executors, FailNormalize(e) \/ Abandon(e) PROVE SkipInv'
  <2>1. Reset(e) /\ pc[e] # "idle" /\ UNCHANGED outside
    BY <1>7 DEF FailNormalize, Abandon, Leave
  <2> QED BY <2>1, ResetKeeps, AnswersGrow DEF SkipInv
<1>8. ASSUME NEW e \in Executors, FailSource(e) PROVE SkipInv'
  <2>1. /\ pc[e] # "idle" /\ Leave(e, TRUE)
        /\ checkpoint' = checkpoint /\ start' = start /\ refused' = refused
    BY <1>8, Zenon DEF FailSource
  <2>2. Reset(e)
    BY <2>1 DEF Leave
  <2>3. stored \subseteq stored'
    BY <1>8 DEF FailSource
  <2> QED BY <2>1, <2>2, <2>3, ResetKeeps, AnswersGrow DEF SkipInv
<1>9. ASSUME NEW e \in Executors, ImportBatch(e) PROVE SkipInv'
  <2> DEFINE batch == Oldest(BatchSize, pending[e])
             accepted == {m \in batch : judgement[m] = "accepted"}
  <2>1. /\ stored' = stored \union accepted /\ refused' = refused \union (batch \ accepted)
        /\ confirmed' = [confirmed EXCEPT ![e] = @ \union accepted]
        /\ pending' = [pending EXCEPT ![e] = @ \ batch]
        /\ pc[e] = "importing"
        /\ UNCHANGED <<checkpoint, start, pc, job, after, low>>
    BY <1>9 DEF ImportBatch
  <2>2. batch \subseteq pending[e] /\ accepted \subseteq batch
    BY DEF Oldest
  <2> HIDE DEF batch, accepted
  <2>3. Resumes(e)' /\ Covers(e)'
    BY <2>1, <2>2 DEF SkipInv, RunInv, Resumes, Covers, TypeOK
  <2>4. ASSUME NEW d \in Executors, d # e PROVE Resumes(d)' /\ Covers(d)'
    BY <2>1, <2>4, OthersKeep DEF SkipInv, RunInv, TypeOK
  <2>5. Alone'
    BY <2>1 DEF SkipInv, Alone
  <2> QED BY <2>1, <2>3, <2>4, <2>5, AnswersGrow DEF SkipInv, RunInv
<1>10. ASSUME NEW e \in Executors, Finish(e) PROVE SkipInv'
  <2>1. Reset(e) /\ pc[e] # "idle" /\ UNCHANGED <<stored, refused>>
    BY <1>10 DEF Finish, Leave
  <2> QED BY <1>10, <2>1, FinishKeepsAll, ResetKeeps DEF SkipInv
<1>11. CASE UNCHANGED vars
  BY <1>1, <1>11 DEF vars
<1> QED
  BY <1>2, <1>3, <1>4, <1>5, <1>6, <1>7, <1>8, <1>9, <1>10, <1>11 DEF Next, Progress

\* As long as the channel's executors are busy one at a time, no message is
\* lost between the checkpoint and where the first recorded run began
\* (processSource, collectTelegram, importCandidates, UpsertCheckpoint), for
\* any ranges, limits, judgements and failures.
THEOREM NothingSkippedCorrect == ASSUME ~Overlap PROVE Spec => []NothingSkipped
<1>1. SkipInv => NothingSkipped
  BY DEF SkipInv
<1> QED BY <1>1, TypeInit, TypeStep, SkipInit, SkipStep, PTL DEF Spec

------------------------------------------------------------------------------
(* Refinement of CheckpointLog.                                            *)

LEMMA LogInitHolds == Init => Log!LogInit
  BY DEF Init, Log!LogInit

\* Whatever leaves the checkpoint alone is at most an answer.
LEMMA AnswerOrNothing ==
    ASSUME TypeOK, TypeOK', UNCHANGED <<checkpoint, start>>,
           stored \subseteq stored', refused \subseteq refused'
    PROVE  [Log!LogNext]_(Log!log)
<1>1. stored' = stored \union stored' /\ refused' = refused \union refused'
  OBVIOUS
<1>2. stored' \in SUBSET IDs /\ refused' \in SUBSET IDs
  BY DEF TypeOK
<1> QED BY <1>1, <1>2 DEF Log!LogNext, Log!Answer

\* A run that moves the checkpoint records it or advances it, as it has
\* answers from where the checkpoint was.
LEMMA FinishMoves ==
    ASSUME TypeOK, SkipInv, NEW e \in Executors, Finish(e), ~ UNCHANGED <<checkpoint, start>>
    PROVE  Log!LogNext
<1> DEFINE last == Max(confirmed[e])
<1>1. /\ confirmed[e] # {} /\ job[e].trigger # "manual" /\ pc[e] = "importing"
      /\ pending[e] = {} /\ UNCHANGED <<stored, refused>>
      /\ checkpoint < last /\ checkpoint' = last
      /\ start' = IF checkpoint = 0 THEN low[e] ELSE start
  BY DEF Finish, UpsertCheckpoint
<1>2. last \in confirmed[e]
  <2>1. confirmed[e] \in SUBSET IDs
    BY DEF TypeOK
  <2> QED BY <1>1, <2>1, GreatestId
<1>3. after[e] = checkpoint /\ (checkpoint # 0 => low[e] <= checkpoint)
  BY <1>1 DEF SkipInv, RunInv, Resumes
<1>4. /\ last \in stored /\ low[e] <= last
      /\ \A m \in IDs : low[e] <= m /\ after[e] < m /\ m <= last => m \in stored \union refused
  BY <1>1, <1>2 DEF SkipInv, RunInv, Covers
<1>5. /\ checkpoint \in Nat /\ low[e] \in Nat /\ last \in Nat
      /\ \A m \in IDs : m \in Nat \ {0}
  BY <1>2, CollectionAssumption DEF TypeOK, IDs
<1> HIDE DEF last
<1>6. CASE checkpoint = 0
  <2>1. start' = low[e] /\ Log!Answered(start', last)
    BY <1>1, <1>3, <1>4, <1>5, <1>6 DEF Log!Answered
  <2>2. Log!Record(last)
    BY <1>1, <1>4, <1>5, <1>6, <2>1 DEF Log!Record, Log!Answered, Log!answers
  <2> QED BY <1>4, <2>2 DEF Log!LogNext
<1>7. CASE checkpoint # 0
  <2>1. Log!Answered(checkpoint + 1, last)
    BY <1>3, <1>4, <1>5, <1>7 DEF Log!Answered
  <2>2. Log!Advance(last)
    BY <1>1, <1>7, <2>1 DEF Log!Advance, Log!answers
  <2> QED BY <1>4, <2>2 DEF Log!LogNext
<1> QED BY <1>6, <1>7

LEMMA LogStep ==
    ASSUME TypeOK, TypeOK', SkipInv, [Next]_vars PROVE [Log!LogNext]_(Log!log)
<1> USE DEF outside
<1>1. ASSUME UNCHANGED outside PROVE [Log!LogNext]_(Log!log)
  BY <1>1 DEF Log!log
<1>2. CASE Publish \/ EnqueueScheduled \/ EnqueueBootstrap
  BY <1>1, <1>2 DEF Publish, EnqueueScheduled, EnqueueBootstrap, Enqueue
<1>3. ASSUME NEW a \in 1..LastID, NEW b \in 2..LastID + 1, EnqueueManual(a, b)
      PROVE  [Log!LogNext]_(Log!log)
  BY <1>1, <1>3 DEF EnqueueManual, Enqueue
<1>4. ASSUME NEW e \in Executors,
             \/ \E j \in jobs : Begin(e, j)
             \/ ReadCheckpoint(e) \/ ReadMessages(e) \/ FailNormalize(e) \/ Abandon(e)
      PROVE  [Log!LogNext]_(Log!log)
  BY <1>1, <1>4 DEF Begin, ReadCheckpoint, ReadMessages, FailNormalize, Abandon
<1>5. ASSUME NEW e \in Executors, FailSource(e) PROVE [Log!LogNext]_(Log!log)
  <2>1. stored \subseteq stored' /\ UNCHANGED <<checkpoint, start, refused>>
    BY <1>5, Zenon DEF FailSource
  <2> QED BY <2>1, AnswerOrNothing
<1>6. ASSUME NEW e \in Executors, ImportBatch(e) PROVE [Log!LogNext]_(Log!log)
  <2>1. /\ stored \subseteq stored' /\ refused \subseteq refused'
        /\ UNCHANGED <<checkpoint, start>>
    BY <1>6 DEF ImportBatch
  <2> QED BY <2>1, AnswerOrNothing
<1>7. ASSUME NEW e \in Executors, Finish(e) PROVE [Log!LogNext]_(Log!log)
  <2>1. UNCHANGED <<stored, refused>>
    BY <1>7 DEF Finish
  <2>2. CASE UNCHANGED <<checkpoint, start>>
    BY <1>1, <2>1, <2>2
  <2> QED BY <1>7, <2>2, FinishMoves
<1>8. CASE UNCHANGED vars
  BY <1>1, <1>8 DEF vars
<1> QED BY <1>2, <1>3, <1>4, <1>5, <1>6, <1>7, <1>8 DEF Next, Progress

\* While its executors are busy one at a time, the collection of a channel
\* implements CheckpointLog: every move of the checkpoint takes up where it was
\* and passes only what tasks has answered (collectTelegram, processSource,
\* UpsertCheckpoint), and no answer is withdrawn, whatever fails.
THEOREM ChannelImplementsLog == ASSUME ~Overlap PROVE Spec => ImplementsLog
<1>1. TypeOK /\ SkipInv /\ [Next]_vars => TypeOK' /\ SkipInv'
  BY TypeStep, SkipStep
<1>2. TypeOK /\ TypeOK' /\ SkipInv /\ [Next]_vars => [Log!LogNext]_(Log!log)
  BY LogStep
<1> QED BY <1>1, <1>2, TypeInit, SkipInit, LogInitHolds, PTL
        DEF Spec, ImplementsLog, Log!LogSpec
==============================================================================
