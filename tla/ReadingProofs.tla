---------------------------- MODULE ReadingProofs ----------------------------
(***************************************************************************)
(* From a channel to a candidate.  ReadRange returns the oldest texts of   *)
(* its range, for any history, range and limits, if a page is longer than  *)
(* every run of service messages (TelegramReader).  The pipeline types and *)
(* refuses what it is given as it should, for any texts, limits and rules  *)
(* (TaskPipeline).                                                         *)
(***************************************************************************)
EXTENDS TelegramReader, TaskPipeline, FiniteSetTheorems, WellFoundedInduction, TLAPS

------------------------------------------------------------------------------
(* Sets of ids.                                                            *)

LEMMA IdsAreFinite ==
    ASSUME NEW S \in SUBSET IDs
    PROVE  IsFiniteSet(S) /\ Cardinality(S) \in Nat
<1>1. LastID \in Nat /\ IDs \in SUBSET Nat /\ \A m \in IDs : m <= LastID
  BY ReaderAssumption DEF IDs
<1> QED BY <1>1, FS_BoundedSetOfNaturals, FS_CardinalityType

LEMMA SubsetIsSmaller ==
    ASSUME NEW S \in SUBSET IDs, NEW T \in SUBSET S
    PROVE  Cardinality(T) <= Cardinality(S) /\ Cardinality(T) \in Nat /\ Cardinality(S) \in Nat
  BY IdsAreFinite, FS_Subset

LEMMA LeastNat ==
    ASSUME NEW T \in SUBSET Nat, T # {}
    PROVE  \E x \in T : \A y \in T : x <= y
<1> DEFINE Less == {ss \in Nat \X Nat : ss[1] < ss[2]}
<1>1. IsWellFoundedOn(Less, Nat)
  BY NatLessThanWellFounded DEF OpToRel
<1>2. \A x, y \in T : x < y => <<x, y>> \in Less
  OBVIOUS
<1> HIDE DEF Less
<1>3. PICK x \in T : \A y \in T : ~ (<<y, x>> \in Less)
  BY <1>1, WFMin
<1>4. \A y \in T : ~ (y < x)
  BY <1>2, <1>3
<1>5. \A y \in T : x <= y
  BY <1>4
<1> QED BY <1>5

LEMMA LeastId ==
    ASSUME NEW S \in SUBSET IDs, S # {}
    PROVE  Min(S) \in S /\ \A m \in S : Min(S) <= m
<1>1. S \in SUBSET Nat
  BY DEF IDs
<1> QED BY <1>1, LeastNat DEF Min

LEMMA GreatestId ==
    ASSUME NEW S \in SUBSET IDs, S # {}
    PROVE  \E n \in S : \A m \in S : m <= n
<1>1. LastID \in Nat /\ \A m \in S : m \in 1..LastID
  BY ReaderAssumption DEF IDs
<1> DEFINE T == {LastID - m : m \in S}
<1>2. T \in SUBSET Nat /\ T # {}
  BY <1>1
<1>3. PICK x \in T : \A y \in T : x <= y
  BY <1>2, LeastNat
<1>4. PICK n \in S : x = LastID - n
  OBVIOUS
<1>5. ASSUME NEW m \in S PROVE m <= n
  <2>1. LastID - m \in T
    OBVIOUS
  <2>2. LastID - n <= LastID - m
    BY <1>3, <1>4, <2>1
  <2> QED BY <1>1, <2>2
<1> QED BY <1>5

------------------------------------------------------------------------------
(* The newest and the oldest of a set.                                     *)

\* A page leaves no gap: what is newer than a member is a member.
LEMMA NewestHasNoGap ==
    ASSUME NEW S \in SUBSET IDs, NEW k \in Nat, NEW n \in Newest(k, S), NEW m \in S, n <= m
    PROVE  m \in Newest(k, S)
<1>1. m \in Nat /\ n \in Nat /\ n \in S /\ \A x \in S : x \in Nat
  BY DEF Newest, IDs
<1>2. {x \in S : x > m} \in SUBSET {x \in S : x > n}
  <2>1. \A x \in S : x > m => x > n
    BY <1>1
  <2> QED BY <2>1
<1>3. /\ Cardinality({x \in S : x > m}) <= Cardinality({x \in S : x > n})
      /\ Cardinality({x \in S : x > m}) \in Nat /\ Cardinality({x \in S : x > n}) \in Nat
  BY <1>2, SubsetIsSmaller
<1>4. Cardinality({x \in S : x > n}) < k
  BY DEF Newest
<1> QED BY <1>3, <1>4 DEF Newest

\* A short page is everything there is.
LEMMA ShortNewestIsAll ==
    ASSUME NEW S \in SUBSET IDs, NEW k \in Nat, Cardinality(Newest(k, S)) < k
    PROVE  Newest(k, S) = S
<1>1. Newest(k, S) \in SUBSET S
  BY DEF Newest
<1> SUFFICES ASSUME S \ Newest(k, S) # {} PROVE FALSE
  BY <1>1
<1>2. PICK n \in S \ Newest(k, S) : \A m \in S \ Newest(k, S) : m <= n
  BY GreatestId
<1>3. \A x \in S : x \in Nat
  BY DEF IDs
<1>4. {x \in S : x > n} \in SUBSET Newest(k, S)
  BY <1>2, <1>3
<1>5. Newest(k, S) \in SUBSET IDs
  BY <1>1
<1>6. /\ Cardinality({x \in S : x > n}) <= Cardinality(Newest(k, S))
      /\ Cardinality({x \in S : x > n}) \in Nat /\ Cardinality(Newest(k, S)) \in Nat
  BY <1>4, <1>5, SubsetIsSmaller
<1>7. Cardinality({x \in S : x > n}) < k
  BY <1>6
<1> QED BY <1>2, <1>7 DEF Newest

LEMMA OldestHasNoGap ==
    ASSUME NEW S \in SUBSET IDs, NEW k \in Nat, NEW n \in Oldest(k, S), NEW m \in S, m <= n
    PROVE  m \in Oldest(k, S)
<1>1. m \in Nat /\ n \in Nat /\ n \in S /\ \A x \in S : x \in Nat
  BY DEF Oldest, IDs
<1>2. {x \in S : x < m} \in SUBSET {x \in S : x < n}
  <2>1. \A x \in S : x < m => x < n
    BY <1>1
  <2> QED BY <2>1
<1>3. /\ Cardinality({x \in S : x < m}) <= Cardinality({x \in S : x < n})
      /\ Cardinality({x \in S : x < m}) \in Nat /\ Cardinality({x \in S : x < n}) \in Nat
  BY <1>2, SubsetIsSmaller
<1>4. Cardinality({x \in S : x < n}) < k
  BY DEF Oldest
<1> QED BY <1>3, <1>4 DEF Oldest

LEMMA ShortOldestIsAll ==
    ASSUME NEW S \in SUBSET IDs, NEW k \in Nat, Cardinality(Oldest(k, S)) < k
    PROVE  Oldest(k, S) = S
<1>1. Oldest(k, S) \in SUBSET S /\ Oldest(k, S) \in SUBSET IDs
  BY DEF Oldest
<1> DEFINE R == S \ Oldest(k, S)
           n == Min(R)
<1> SUFFICES ASSUME R # {} PROVE FALSE
  BY <1>1
<1>2. n \in R /\ \A m \in R : n <= m
  BY LeastId
<1>3. \A x \in S : x \in Nat
  BY DEF IDs
<1>4. {x \in S : x < n} \in SUBSET Oldest(k, S)
  BY <1>2, <1>3
<1> HIDE DEF n
<1>5. /\ Cardinality({x \in S : x < n}) <= Cardinality(Oldest(k, S))
      /\ Cardinality({x \in S : x < n}) \in Nat /\ Cardinality(Oldest(k, S)) \in Nat
  BY <1>1, <1>4, SubsetIsSmaller
<1>6. Cardinality({x \in S : x < n}) < k
  BY <1>5
<1> QED BY <1>2, <1>6 DEF Oldest

\* What is dropped when older texts come in would not have been kept anyway:
\* the oldest of all can be gathered page by page.
LEMMA OldestOfMerged ==
    ASSUME NEW A \in SUBSET IDs, NEW B \in SUBSET IDs, NEW k \in Nat
    PROVE  Oldest(k, Oldest(k, A) \union B) = Oldest(k, A \union B)
<1> DEFINE S == A \union B
           T == Oldest(k, A) \union B
<1>1. Oldest(k, A) \in SUBSET A /\ T \in SUBSET S /\ S \in SUBSET IDs /\ T \in SUBSET IDs
  BY DEF Oldest
<1>2. \A x \in S : x \in Nat
  BY DEF IDs
<1>3. ASSUME NEW m \in Oldest(k, S) PROVE m \in Oldest(k, T)
  <2>1. m \in S /\ Cardinality({x \in S : x < m}) < k
    BY <1>3 DEF Oldest
  <2>2. /\ {x \in T : x < m} \in SUBSET {x \in S : x < m}
        /\ {x \in A : x < m} \in SUBSET {x \in S : x < m}
        /\ {x \in S : x < m} \in SUBSET IDs
    BY <1>1
  <2>3. /\ Cardinality({x \in T : x < m}) <= Cardinality({x \in S : x < m})
        /\ Cardinality({x \in A : x < m}) <= Cardinality({x \in S : x < m})
        /\ Cardinality({x \in T : x < m}) \in Nat /\ Cardinality({x \in A : x < m}) \in Nat
        /\ Cardinality({x \in S : x < m}) \in Nat
    BY <2>2, SubsetIsSmaller
  <2>4. Cardinality({x \in T : x < m}) < k /\ Cardinality({x \in A : x < m}) < k
    BY <2>1, <2>3
  <2>5. m \in T
    BY <2>1, <2>4 DEF Oldest
  <2> QED BY <2>4, <2>5 DEF Oldest
<1>4. ASSUME NEW m \in Oldest(k, T) PROVE m \in Oldest(k, S)
  <2>1. m \in T /\ m \in S /\ Cardinality({x \in T : x < m}) < k
    BY <1>1, <1>4 DEF Oldest
  <2>2. ASSUME NEW x \in S, x < m, x \notin T PROVE FALSE
    <3>1. x \in A /\ x \notin Oldest(k, A)
      BY <2>2
    <3>2. Cardinality(Oldest(k, A)) \in Nat /\ ~ (Cardinality(Oldest(k, A)) < k)
      BY <1>1, <3>1, ShortOldestIsAll, SubsetIsSmaller
    <3>3. \A n \in Oldest(k, A) : n \in T /\ n \in Nat /\ x \in Nat /\ ~ (x <= n)
      BY <1>1, <1>2, <3>1, OldestHasNoGap
    <3>4. Oldest(k, A) \in SUBSET {y \in T : y < m}
      BY <1>2, <2>1, <2>2, <3>3
    <3>5. {y \in T : y < m} \in SUBSET IDs
      BY <1>1
    <3>6. Cardinality(Oldest(k, A)) <= Cardinality({y \in T : y < m})
          /\ Cardinality({y \in T : y < m}) \in Nat
      BY <3>4, <3>5, SubsetIsSmaller
    <3> QED BY <2>1, <3>2, <3>6
  <2>3. {x \in S : x < m} = {x \in T : x < m}
    BY <1>1, <2>2
  <2> QED BY <2>1, <2>3 DEF Oldest
<1> HIDE DEF S, T
<1>5. Oldest(k, S) = Oldest(k, T)
  BY <1>3, <1>4
<1> QED BY <1>5 DEF S, T

------------------------------------------------------------------------------
(* The loop.                                                               *)

\* The messages that are still below the offset, of which GetHistory is the
\* newest part.
Remaining == {m \in IDs : /\ history[m] # "deleted"
                          /\ offset # 0 => m < offset
                          /\ m < to /\ m > after}

\* The texts of the pages read so far.
Seen == IF offset = 0 THEN {} ELSE {m \in Wanted : offset <= m}

TypeInv ==
    /\ history \in [IDs -> Kinds] /\ ServiceRunsBounded(history)
    /\ from \in Nat /\ to \in Nat /\ after \in Nat
    /\ offset \in Nat /\ items \in SUBSET IDs /\ done \in BOOLEAN

\* ReturnsOldest says nothing of a loop that goes on: of what was seen so far,
\* items are the oldest.
LoopInv ==
    /\ TypeInv
    /\ ~done => items = Oldest(Limit, Seen)
    /\ done => items = Oldest(Limit, Wanted)

LEMMA PagesAreIds ==
    ASSUME TypeInv
    PROVE  /\ GetHistory = Newest(PageLimit, Remaining) /\ Remaining \in SUBSET IDs
           /\ GetHistory \in SUBSET Remaining /\ GetHistory \in SUBSET IDs
           /\ Wanted \in SUBSET IDs /\ Seen \in SUBSET Wanted /\ IDs \in SUBSET Nat
  BY DEF GetHistory, Remaining, Newest, Wanted, Accepted, Seen, IDs

\* What is wanted and not seen is still to come.
LEMMA WantedIsSeenOrRemains ==
    ASSUME TypeInv, NEW m \in Wanted
    PROVE  /\ m \in Seen \/ m \in Remaining
           /\ m \in IDs /\ history[m] = "text" /\ from <= m /\ m < to /\ m > after
<1>1. m \in IDs /\ history[m] = "text" /\ from <= m /\ m < to /\ m > after
  BY DEF Wanted, Accepted
<1>2. m \in Nat
  BY <1>1 DEF IDs
<1> QED BY <1>1, <1>2 DEF TypeInv, Seen, Remaining

LEMMA AcceptedIsWanted ==
    ASSUME TypeInv
    PROVE  /\ Accepted(GetHistory) \in SUBSET Wanted
           /\ \A m \in GetHistory : m \in Wanted => m \in Accepted(GetHistory)
           /\ \A m \in Accepted(GetHistory) : m \in GetHistory /\ history[m] # "service"
<1>1. \A m \in GetHistory : m \in IDs /\ history[m] # "deleted"
  BY PagesAreIds DEF Remaining
<1> QED BY <1>1 DEF Accepted, Wanted

\* If a page ends the loop, all that is wanted has been seen: the page was
\* short, or reached below the range, or held service messages only, of which
\* a whole page is never full.
LEMMA LastPageIsLast ==
    ASSUME MaxServiceRun < PageLimit, TypeInv,
           LET regular == {m \in GetHistory : history[m] # "service"}
           IN  \/ regular = {} \/ \E m \in regular : m < from
               \/ Cardinality(GetHistory) < PageLimit
    PROVE  Wanted = Seen \union Accepted(GetHistory)
<1> DEFINE page == GetHistory
           regular == {m \in page : history[m] # "service"}
<1>1. /\ page = Newest(PageLimit, Remaining) /\ Remaining \in SUBSET IDs /\ page \in SUBSET IDs
      /\ page \in SUBSET Remaining
      /\ Seen \in SUBSET Wanted /\ Wanted \in SUBSET IDs /\ IDs \in SUBSET Nat
  BY PagesAreIds
<1>2. /\ PageLimit \in Nat /\ MaxServiceRun \in Nat /\ Cardinality(page) \in Nat
  BY <1>1, IdsAreFinite, ReaderAssumption
<1> SUFFICES ASSUME NEW w \in Wanted, w \notin Seen PROVE w \in page
  BY <1>1, AcceptedIsWanted
<1>3. w \in Remaining /\ history[w] = "text" /\ from <= w /\ w \in Nat
  BY <1>1, WantedIsSeenOrRemains
<1> HIDE DEF page
<1>4. CASE Cardinality(page) < PageLimit
  BY <1>1, <1>2, <1>3, <1>4, ShortNewestIsAll
<1>5. CASE \E m \in regular : m < from
  <2>1. PICK m \in page : m < from
    BY <1>5
  <2>2. m \in Nat /\ from \in Nat
    BY <1>1, <2>1 DEF TypeInv
  <2>3. m <= w
    BY <1>3, <2>1, <2>2
  <2> QED BY <1>1, <1>2, <1>3, <2>3, NewestHasNoGap
<1>6. CASE regular = {} /\ ~ (Cardinality(page) < PageLimit)
  <2>1. page # {} /\ \A m \in page : history[m] = "service"
    BY <1>2, <1>6, FS_EmptySet
  <2>2. PICK a \in page : \A m \in page : a <= m
    BY <1>1, <2>1, LeastId
  <2>3. PICK b \in page : \A m \in page : m <= b
    BY <1>1, <2>1, GreatestId
  <2> DEFINE present == {m \in a..b : history[m] # "deleted"}
  <2>4. a \in Remaining /\ b \in Remaining /\ a \in IDs /\ b \in IDs /\ a \in Nat /\ b \in Nat
    BY <1>1
  <2>5. a..b \in SUBSET IDs
    BY <2>4, ReaderAssumption DEF IDs
  <2>6. ASSUME NEW m \in present PROVE m \in page
    <3>1. m \in IDs /\ m \in Nat /\ a <= m /\ m <= b /\ history[m] # "deleted"
      BY <2>4, <2>5
    <3>2. m \in Remaining
      BY <2>4, <3>1 DEF Remaining, TypeInv
    <3> QED BY <1>1, <1>2, <3>1, <3>2, NewestHasNoGap
  <2>7. \A m \in page : m \in present
    <3>1. \A m \in page : m \in Nat /\ a <= m /\ m <= b /\ history[m] # "deleted"
      BY <1>1, <2>2, <2>3 DEF Remaining
    <3> QED BY <2>4, <3>1
  <2>8. present = page
    BY <2>6, <2>7
  <2>9. Cardinality(page) <= MaxServiceRun
    BY <2>1, <2>4, <2>8 DEF TypeInv, ServiceRunsBounded
  <2> QED BY <1>2, <1>6, <2>9
<1> QED BY <1>4, <1>5, <1>6 DEF page

\* What a page adds to the texts seen is what is accepted of it.
LEMMA PageIsSeen ==
    ASSUME TypeInv,
           NEW regular, regular = {m \in GetHistory : history[m] # "service"}, regular # {}
    PROVE  {m \in Wanted : Min(regular) <= m} = Seen \union Accepted(GetHistory)
<1> DEFINE page == GetHistory
           least == Min(regular)
<1>1. /\ page = Newest(PageLimit, Remaining) /\ Remaining \in SUBSET IDs /\ page \in SUBSET IDs
      /\ page \in SUBSET Remaining
      /\ Seen \in SUBSET Wanted /\ Wanted \in SUBSET IDs /\ IDs \in SUBSET Nat
  BY PagesAreIds
<1>2. PageLimit \in Nat
  BY ReaderAssumption
<1>3. least \in page /\ least \in regular /\ \A m \in regular : least <= m
  BY <1>1, LeastId
<1>4. least \in Nat /\ least \in Remaining
  BY <1>1, <1>3
<1>5. ASSUME NEW m \in Seen PROVE m \in Wanted /\ least <= m
  <2>1. m \in Wanted /\ m \in Nat /\ offset # 0 /\ offset <= m /\ offset \in Nat
    BY <1>1 DEF Seen, TypeInv
  <2> HIDE DEF least
  <2>2. least < offset
    BY <1>4, <2>1 DEF Remaining
  <2> QED BY <1>4, <2>1, <2>2
<1>6. ASSUME NEW m \in Accepted(page) PROVE m \in Wanted /\ least <= m
  <2>1. m \in page /\ history[m] # "service" /\ m \in Wanted
    BY AcceptedIsWanted
  <2> QED BY <1>3, <2>1
<1>7. ASSUME NEW m \in Wanted, least <= m PROVE m \in Seen \union Accepted(page)
  <2> SUFFICES ASSUME m \notin Seen PROVE m \in Accepted(page)
    OBVIOUS
  <2>1. m \in Remaining
    BY WantedIsSeenOrRemains
  <2>2. m \in page
    BY <1>1, <1>2, <1>3, <1>7, <2>1, NewestHasNoGap
  <2> QED BY <2>2, AcceptedIsWanted
<1> HIDE DEF page, least
<1>8. {m \in Wanted : least <= m} = Seen \union Accepted(page)
  BY <1>5, <1>6, <1>7
<1> QED BY <1>8 DEF page, least

LEMMA LoopInit == Init => LoopInv
<1> SUFFICES ASSUME Init PROVE LoopInv
  OBVIOUS
<1>1. TypeInv
  <2>1. from \in Nat /\ to \in Nat /\ after \in Nat
    BY ReaderAssumption DEF Init
  <2>2. history \in [IDs -> Kinds] /\ ServiceRunsBounded(history)
    BY DEF Init
  <2> QED BY <2>1, <2>2 DEF Init, TypeInv
<1>2. Oldest(Limit, {}) = {}
  BY DEF Oldest
<1> QED BY <1>1, <1>2 DEF Init, LoopInv, Seen

LEMMA ReadPageStep ==
    ASSUME MaxServiceRun < PageLimit, LoopInv, ReadPage PROVE LoopInv'
<1> DEFINE page == GetHistory
           regular == {m \in page : history[m] # "service"}
           new == Seen \union Accepted(page)
<1>1. TypeInv /\ ~done /\ items = Oldest(Limit, Seen)
  BY DEF LoopInv, ReadPage
<1>2. /\ page \in SUBSET IDs /\ IDs \in SUBSET Nat
      /\ Seen \in SUBSET IDs /\ Accepted(page) \in SUBSET IDs
  BY <1>1, PagesAreIds, AcceptedIsWanted
<1>3. /\ items' = Oldest(Limit, items \union Accepted(page))
      /\ offset' = IF regular = {} THEN 0 ELSE Min(regular)
      /\ done' = (\/ regular = {} \/ \E m \in regular : m < from
                  \/ Cardinality(page) < PageLimit)
      /\ UNCHANGED <<history, from, to, after>>
  BY DEF ReadPage, channel
<1>4. items' = Oldest(Limit, new)
  BY <1>1, <1>2, <1>3, OldestOfMerged, ReaderAssumption
<1>5. regular # {} => Min(regular) \in regular
  BY <1>2, LeastId
<1>6. TypeInv'
  <2>1. offset' \in Nat
    BY <1>2, <1>3, <1>5
  <2>2. items' \in SUBSET IDs
    BY <1>2, <1>4 DEF Oldest
  <2>3. done' \in BOOLEAN
    BY <1>3
  <2>4. ServiceRunsBounded(history)'
    BY <1>1, <1>3 DEF TypeInv, ServiceRunsBounded
  <2> QED BY <1>1, <1>3, <2>1, <2>2, <2>3, <2>4 DEF TypeInv
<1>7. Wanted' = Wanted
  BY <1>3 DEF Wanted, Accepted
<1> HIDE DEF page, regular
<1>8. ASSUME ~done' PROVE Seen' = new
  <2>1. regular # {} /\ offset' = Min(regular)
    BY <1>3, <1>8
  <2>2. offset' # 0
    BY <1>2, <1>5, <2>1 DEF regular, IDs
  <2>3. Seen' = {m \in Wanted : Min(regular) <= m}
    BY <1>7, <2>1, <2>2 DEF Seen
  <2> QED BY <1>1, <2>1, <2>3, PageIsSeen DEF page, regular
<1>9. ASSUME done' PROVE Wanted = new
  BY <1>1, <1>3, <1>9, LastPageIsLast DEF page, regular
<1> QED BY <1>4, <1>6, <1>7, <1>8, <1>9 DEF LoopInv

LEMMA EmptyPageStep == ASSUME LoopInv, EmptyPage PROVE LoopInv'
<1>1. TypeInv /\ items = Oldest(Limit, Seen) /\ GetHistory = {}
  BY DEF LoopInv, EmptyPage
<1>2. Remaining = {}
  <2>1. /\ Newest(PageLimit, Remaining) = {} /\ Remaining \in SUBSET IDs
        /\ PageLimit \in Nat /\ 0 < PageLimit
    BY <1>1, PagesAreIds, ReaderAssumption
  <2>2. Cardinality(Newest(PageLimit, Remaining)) < PageLimit
    BY <2>1, FS_EmptySet
  <2> QED BY <2>1, <2>2, ShortNewestIsAll
<1>3. Seen = Wanted
  BY <1>1, <1>2, PagesAreIds, WantedIsSeenOrRemains
<1>4. UNCHANGED <<history, from, to, after, offset, items>> /\ done' = TRUE
  BY DEF EmptyPage, channel
<1>5. TypeInv' /\ Wanted' = Wanted
  BY <1>1, <1>4 DEF TypeInv, ServiceRunsBounded, Wanted, Accepted
<1> QED BY <1>1, <1>3, <1>4, <1>5 DEF LoopInv

LEMMA LoopStep ==
    ASSUME MaxServiceRun < PageLimit PROVE LoopInv /\ [Next]_vars => LoopInv'
<1> SUFFICES ASSUME LoopInv, [Next]_vars PROVE LoopInv'
  OBVIOUS
<1>1. CASE UNCHANGED vars
  BY <1>1 DEF vars, LoopInv, TypeInv, ServiceRunsBounded, Seen, Wanted, Accepted
<1>2. CASE Return
  BY <1>1, <1>2 DEF Return
<1> QED BY <1>1, <1>2, ReadPageStep, EmptyPageStep DEF Next

\* If no run of service messages fills a page, ReadRange returns the oldest
\* Limit texts of its range: no text between two of them is passed over, so
\* that the checkpoint made of them jumps over none (telegram.go).
THEOREM ReturnsOldestCorrect ==
    ASSUME MaxServiceRun < PageLimit PROVE Spec => []ReturnsOldest
<1>1. Init => LoopInv
  BY LoopInit
<1>2. LoopInv /\ [Next]_vars => LoopInv'
  BY LoopStep
<1>3. LoopInv => ReturnsOldest
  BY DEF LoopInv, ReturnsOldest
<1> QED BY <1>1, <1>2, <1>3, PTL DEF Spec

\* As long as the loop goes on, the next page is strictly older than this one
\* and still in the range, whatever messages the page consists of (telegram.go):
\* a call reads no more pages than there are messages after afterID.
PagesGetOlder ==
    [][done' \/ (after < offset' /\ (offset # 0 => offset' < offset))]_vars

THEOREM PagesGetOlderCorrect == Spec => PagesGetOlder
<1>1. ASSUME ReadPage, ~done' PROVE after < offset' /\ (offset # 0 => offset' < offset)
  <2> DEFINE regular == {m \in GetHistory : history[m] # "service"}
  <2>1. regular # {} /\ offset' = Min(regular)
    BY <1>1 DEF ReadPage
  <2>2. \A m \in GetHistory : m \in IDs /\ m > after /\ (offset # 0 => m < offset)
    BY DEF GetHistory, Newest
  <2>3. Min(regular) \in regular
    BY <2>1, <2>2, LeastId
  <2> QED BY <2>1, <2>2, <2>3
<1>2. [Next]_vars => [done' \/ (after < offset' /\ (offset # 0 => offset' < offset))]_vars
  BY <1>1 DEF Next, EmptyPage, Return
<1> QED BY <1>2, PTL DEF Spec, PagesGetOlder

------------------------------------------------------------------------------
(* The classifier of the pipeline.  Its scan is a recursive function; that *)
(* there is such a function, and what it computes, is shown by taking the  *)
(* least rule at which it would fail.                                      *)

\* One step of the scan: rule r against the best of those before it.
Better(b, r) ==
    IF raw.hits[r] = 0 THEN b
    ELSE IF b = 0 \/ raw.hits[r] > raw.hits[b] THEN r
    ELSE b

IsScan(f, n) == f = [r \in 0..n |-> IF r = 0 THEN 0 ELSE Better(f[r - 1], r)]

LEMMA ScanExists == \A n \in Nat : \E f : IsScan(f, n)
<1> DEFINE T == {n \in Nat : ~ \E f : IsScan(f, n)}
<1>1. SUFFICES ASSUME T # {} PROVE FALSE
  OBVIOUS
<1>2. PICK k \in T : \A n \in T : k <= n
  BY <1>1, LeastNat
<1>3. k # 0
  <2>1. IsScan([r \in 0..0 |-> 0], 0)
    BY DEF IsScan
  <2> QED BY <1>2, <2>1
<1>4. k - 1 \in Nat /\ k - 1 \notin T
  BY <1>2, <1>3
<1>5. PICK g : IsScan(g, k - 1)
  BY <1>4
<1> DEFINE h == [r \in 0..k |-> IF r < k THEN g[r] ELSE Better(g[k - 1], k)]
<1>6. IsScan(h, k)
  <2>1. \A r \in 0..(k - 1) : g[r] = IF r = 0 THEN 0 ELSE Better(g[r - 1], r)
    BY <1>5 DEF IsScan
  <2>2. ASSUME NEW r \in 0..k
        PROVE  h[r] = IF r = 0 THEN 0 ELSE Better(h[r - 1], r)
    <3>1. CASE r = 0
      BY <1>2, <1>3, <2>1, <3>1
    <3>2. CASE r # 0 /\ r < k
      <4>1. r \in 0..(k - 1) /\ r - 1 \in 0..k /\ r - 1 < k
        BY <1>2, <3>2
      <4>2. h[r] = g[r] /\ h[r - 1] = g[r - 1]
        BY <3>2, <4>1
      <4> QED BY <2>1, <3>2, <4>1, <4>2
    <3>3. CASE r = k
      <4>1. h[r] = Better(g[k - 1], k) /\ h[k - 1] = g[k - 1]
        BY <1>2, <1>3, <3>3
      <4> QED BY <1>3, <3>3, <4>1
    <3> QED BY <1>2, <3>1, <3>2, <3>3
  <2> HIDE DEF h
  <2>3. h = [r \in 0..k |-> h[r]]
    BY DEF h
  <2> QED BY <2>2, <2>3 DEF IsScan
<1> QED BY <1>2, <1>6

\* The scan over all rules returns no rule if none has a match, and else the
\* first of those with the most keywords.
LEMMA BestRuleIsBest ==
    ASSUME raw \in Raw, Rules \in Nat
    PROVE  /\ BestRule \in 0..Rules
           /\ BestRule = 0 => \A r \in 1..Rules : raw.hits[r] = 0
           /\ BestRule # 0 =>
                  /\ raw.hits[BestRule] > 0
                  /\ \A r \in 1..Rules :
                        /\ raw.hits[r] <= raw.hits[BestRule]
                        /\ r < BestRule => raw.hits[r] < raw.hits[BestRule]
<1> DEFINE f == CHOOSE f : IsScan(f, Rules)
<1>1. BestRule = f[Rules]
  BY DEF BestRule, IsScan, Better
<1>2. IsScan(f, Rules)
  BY ScanExists
<1> HIDE DEF f
<1>3. \A r \in 0..Rules : f[r] = IF r = 0 THEN 0 ELSE Better(f[r - 1], r)
  BY <1>2 DEF IsScan
<1>4. \A r \in 1..Rules : raw.hits[r] \in Nat
  BY DEF Raw
<1> DEFINE Best(b, n) ==
             /\ b \in 0..n
             /\ b = 0 => \A r \in 1..n : raw.hits[r] = 0
             /\ b # 0 => /\ raw.hits[b] > 0
                         /\ \A r \in 1..n : /\ raw.hits[r] <= raw.hits[b]
                                            /\ r < b => raw.hits[r] < raw.hits[b]
           T == {n \in 0..Rules : ~ Best(f[n], n)}
<1>5. T = {}
  <2>1. SUFFICES ASSUME T # {} PROVE FALSE
    OBVIOUS
  <2>2. PICK k \in T : \A n \in T : k <= n
    <3>1. T \in SUBSET Nat
      OBVIOUS
    <3> HIDE DEF T
    <3> QED BY <2>1, <3>1, LeastNat
  <2>3. k # 0
    BY <1>3, <2>2
  <2>4. k - 1 \in 0..Rules /\ k \in 1..Rules /\ Best(f[k - 1], k - 1)
    BY <2>2, <2>3
  <2>5. f[k] = Better(f[k - 1], k)
    BY <1>3, <2>4, <2>3
  <2>6. ASSUME NEW b, Best(b, k - 1) PROVE Best(Better(b, k), k)
    <3>1. k \in Nat /\ (1..k) = (1..(k - 1)) \union {k} /\ raw.hits[k] \in Nat
      BY <1>4, <2>4
    <3>2. \A r \in 1..k : raw.hits[r] \in Nat
      BY <1>4, <2>4
    <3>3. CASE raw.hits[k] = 0
      BY <2>6, <3>1, <3>2, <3>3 DEF Better
    <3>4. CASE raw.hits[k] # 0 /\ (b = 0 \/ raw.hits[k] > raw.hits[b])
      BY <2>6, <3>1, <3>2, <3>4 DEF Better
    <3>5. CASE raw.hits[k] # 0 /\ ~ (b = 0 \/ raw.hits[k] > raw.hits[b])
      BY <2>6, <3>1, <3>2, <3>5 DEF Better
    <3> QED BY <3>3, <3>4, <3>5
  <2> QED BY <2>2, <2>4, <2>5, <2>6
<1>6. Best(f[Rules], Rules)
  <2>1. Rules \in 0..Rules
    OBVIOUS
  <2> QED BY <1>5, <2>1
<1> QED BY <1>1, <1>6

------------------------------------------------------------------------------
(* The fields of the task, stage by stage.                                 *)

\* What Extract takes the title for; Parse makes GivenTitle of it.
Extracted == IF raw.title > 0 THEN raw.title ELSE Heading

\* The fields are what the stages so far have made of the raw task.
FieldsAreMade ==
    /\ stage = "parser" => title = Extracted /\ description = text.len
    /\ stage \in {"classifier", "normalizer"} => title = GivenTitle /\ description = text.kept
    /\ stage = "validator" =>
          /\ title = truncateField(GivenTitle, MaxTitle)
          /\ description = truncateField(IF text.kept = 0 THEN 0 ELSE text.kept + text.shift, MaxField)
    /\ stage \in {"parser", "classifier", "normalizer"} => url = raw.url
    /\ stage = "validator" => url = truncateField(raw.url, MaxURL)

\* The classification is right as soon as it is made, unless the text is blank,
\* which the validator refuses.
Classified ==
    /\ stage \in {"parser", "classifier"} => difficulty = raw.difficulty
    /\ stage \in {"normalizer", "validator", "accepted"} =>
          /\ TypeIsBest \/ (description = 0 /\ stage # "accepted")
          /\ raw.difficulty # "unknown" => difficulty = raw.difficulty

StageInv ==
    /\ raw \in Raw /\ text \in Text /\ stage \in Stages
    /\ FieldsAreMade
    /\ Classified
    /\ FittingIsAccepted

LEMMA TruncatedLength ==
    ASSUME NEW len \in Nat, NEW max \in Nat \ {0}
    PROVE  /\ truncateField(len, max) \in Nat
           /\ truncateField(len, max) = 0 <=> len = 0
           /\ truncateField(len, max) > max => len > max
  BY PipelineAssumption DEF truncateField

LEMMA StageTypes ==
    ASSUME raw \in Raw, text \in Text
    PROVE  /\ Extracted \in Nat /\ GivenTitle \in Nat /\ raw.url \in Nat
           /\ text.kept \in Nat /\ text.inner \in Nat /\ text.len \in Nat /\ text.shift \in Int
           /\ text.inner <= text.len /\ text.kept <= text.len
           /\ text.kept > 0 => text.kept + text.shift \in Nat \ {0}
  BY DEF Raw, Text, Extracted, GivenTitle, Heading

LEMMA StageInit == PipelineInit => StageInv
  BY PipelineAssumption
  DEF PipelineInit, StageInv, Stages, Text, NoText, FieldsAreMade, Classified, FittingIsAccepted

LEMMA ExtractStep == ASSUME StageInv, Extract PROVE StageInv'
<1>1. text' \in Text
  BY DEF StageInv, Extract, Raw, Text, NoText
<1>2. title' = Extracted'
  BY DEF Extract, Extracted, Heading
<1> QED BY <1>1, <1>2
        DEF StageInv, Extract, Stages, FieldsAreMade, Classified, FittingIsAccepted

LEMMA ParseStep == ASSUME StageInv, Parse PROVE StageInv'
<1>1. title' = GivenTitle' /\ description' = text'.kept
  <2>1. title = Extracted /\ description = text.len
    BY DEF StageInv, Parse, FieldsAreMade
  <2>2. Extracted' = Extracted
    BY DEF Parse, Extracted, Heading
  <2>3. GivenTitle' = GivenTitle /\ text' = text
    BY DEF Parse, GivenTitle, Heading
  <2>4. GivenTitle = IF Extracted = 0 THEN text.inner ELSE Extracted
    BY StageTypes DEF StageInv, GivenTitle, Extracted, Raw
  <2>5. text.len = 0 => text.inner = 0 /\ text.kept = 0
    BY StageTypes DEF StageInv
  <2> QED BY <2>1, <2>3, <2>4, <2>5, StageTypes DEF StageInv, Parse
<1> QED BY <1>1
        DEF StageInv, Parse, Stages, FieldsAreMade, Classified, FittingIsAccepted

LEMMA ClassifyStep == ASSUME StageInv, Classify PROVE StageInv'
<1>1. TypeIsBest' \/ description' = 0
  <2>1. Rules \in Nat /\ Rules >= 1 /\ raw' = raw /\ raw \in Raw
    BY PipelineAssumption DEF StageInv, Classify
  <2>2. CASE BestRule = 0
    <3>1. \A r \in 1..Rules : raw.hits[r] = 0
      BY <2>1, <2>2, BestRuleIsBest
    <3> QED BY <2>1, <2>2, <3>1 DEF Classify, TypeIsBest
  <2>3. CASE BestRule # 0
    <3>1. CASE Blank
      BY <3>1 DEF Blank, Classify
    <3>2. CASE ~Blank
      <4>1. type' = BestRule /\ type' \in 1..Rules
        BY <2>1, <2>3, <3>2, BestRuleIsBest DEF Classify
      <4> QED BY <2>1, <2>3, <4>1, BestRuleIsBest DEF TypeIsBest
    <3> QED BY <3>1, <3>2
  <2> QED BY <2>2, <2>3
<1>2. GivenTitle' = GivenTitle
  BY DEF Classify, GivenTitle, Extracted, Heading
<1> QED BY <1>1, <1>2
        DEF StageInv, Classify, Stages, FieldsAreMade, Classified, FittingIsAccepted

LEMMA NormalizeStep == ASSUME StageInv, Normalize PROVE StageInv'
<1>1. GivenTitle' = GivenTitle /\ TypeIsBest' = TypeIsBest
  BY DEF Normalize, GivenTitle, Extracted, Heading, TypeIsBest
<1>2. title = GivenTitle /\ description = text.kept /\ url = raw.url
  BY DEF StageInv, Normalize, FieldsAreMade
<1>3. description = 0 => description' = 0
  BY PipelineAssumption DEF Normalize, Rewritten, truncateField
<1> QED BY <1>1, <1>2, <1>3
        DEF StageInv, Normalize, Rewritten, Stages, FieldsAreMade, Classified, FittingIsAccepted

LEMMA ValidateStep == ASSUME StageInv, Validate PROVE StageInv'
<1>1. /\ raw \in Raw /\ text \in Text
      /\ title = truncateField(GivenTitle, MaxTitle) /\ url = truncateField(raw.url, MaxURL)
      /\ description = truncateField(IF text.kept = 0 THEN 0 ELSE text.kept + text.shift, MaxField)
  BY DEF StageInv, Validate, FieldsAreMade
<1>2. MaxTitle \in Nat \ {0} /\ MaxField \in Nat \ {0} /\ MaxURL \in Nat \ {0}
  BY PipelineAssumption
<1>3. /\ url = 0 <=> raw.url = 0
      /\ title = 0 <=> GivenTitle = 0
      /\ title > MaxTitle => GivenTitle > MaxTitle
      /\ description = 0 <=> text.kept = 0
      /\ description > MaxField => text.kept + text.shift > MaxField
  <2> DEFINE rest == IF text.kept = 0 THEN 0 ELSE text.kept + text.shift
  <2>1. /\ rest \in Nat /\ (rest = 0 <=> text.kept = 0)
        /\ rest > 0 => rest = text.kept + text.shift
    BY <1>1, StageTypes
  <2>2. url = 0 <=> raw.url = 0
    BY <1>1, <1>2, StageTypes, TruncatedLength
  <2>3. (title = 0 <=> GivenTitle = 0) /\ (title > MaxTitle => GivenTitle > MaxTitle)
    BY <1>1, <1>2, StageTypes, TruncatedLength
  <2> HIDE DEF rest
  <2>4. (description = 0 <=> rest = 0) /\ (description > MaxField => rest > MaxField)
    <3>1. description = truncateField(rest, MaxField)
      BY <1>1 DEF rest
    <3> QED BY <1>2, <2>1, <3>1, TruncatedLength
  <2> QED BY <1>2, <2>1, <2>2, <2>3, <2>4
<1>4. stage' \in {"required", "unknown source", "too long", "accepted"}
  BY DEF Validate, Verdict
<1>5. stage' = "accepted" => description # 0
  BY DEF Validate, Verdict
<1>6. FittingIsAccepted'
  <2>1. ASSUME Fits PROVE Verdict = "accepted"
    <3>1. GivenTitle # 0 /\ ~ (GivenTitle > MaxTitle) /\ ~ (text.kept + text.shift > MaxField)
      BY <1>1, <1>2, <2>1, StageTypes DEF Fits
    <3> QED BY <1>3, <2>1, <3>1, StageTypes DEF Fits, Verdict
  <2>2. Fits' = Fits
    BY DEF Validate, fields, Fits, GivenTitle, Heading
  <2> QED BY <2>1, <2>2 DEF Validate, FittingIsAccepted
<1>7. TypeIsBest' = TypeIsBest
  BY DEF Validate, fields, TypeIsBest
<1> QED BY <1>4, <1>5, <1>6, <1>7
        DEF StageInv, Validate, fields, Stages, FieldsAreMade, Classified

LEMMA StageInvHolds == PipelineSpec => []StageInv
<1>1. PipelineInit => StageInv
  BY StageInit
<1>2. StageInv /\ [PipelineNext]_task => StageInv'
  <2> SUFFICES ASSUME StageInv, [PipelineNext]_task PROVE StageInv'
    OBVIOUS
  <2>1. CASE UNCHANGED task
    BY <2>1 DEF task, fields, StageInv, FieldsAreMade, Classified, FittingIsAccepted, Fits, TypeIsBest,
                GivenTitle, Extracted, Heading
  <2> QED BY <2>1, ExtractStep, ParseStep, ClassifyStep, NormalizeStep, ValidateStep
          DEF PipelineNext
<1> QED BY <1>1, <1>2, PTL DEF PipelineSpec

\* What the pipeline accepts has the type of the first rule with the most
\* keywords (classifier.go), whatever the rules, and the difficulty its source
\* gave, if it gave one.
THEOREM AcceptedIsClassifiedCorrect == PipelineSpec => []AcceptedIsClassified
<1>1. StageInv => AcceptedIsClassified
  BY DEF StageInv, Classified, AcceptedIsClassified
<1> QED BY <1>1, StageInvHolds, PTL

\* A text that comes with every field, each within its limit, is never refused,
\* and so never holds up its channel: neither the stages before (parser.go) nor
\* the truncation (normalizer.go) make of it what the validator refuses.
THEOREM FittingIsAcceptedCorrect == PipelineSpec => []FittingIsAccepted
<1>1. StageInv => FittingIsAccepted
  BY DEF StageInv
<1> QED BY <1>1, StageInvHolds, PTL
==============================================================================
