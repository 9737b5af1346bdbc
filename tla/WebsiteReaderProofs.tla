-------------------------- MODULE WebsiteReaderProofs --------------------------
(***************************************************************************)
(* Theorems about WebsiteReader, for any intervals between the ticks and   *)
(* any number of samples.                                                  *)
(***************************************************************************)
EXTENDS WebsiteReader, TLAPS

------------------------------------------------------------------------------
(* Results.                                                                *)

\* What a read in progress has got so far: nothing yet of what would end it.
ReadInv ==
    /\ site \in Sites
    /\ pc # "idle" =>
          /\ markdown = "none"
          /\ step \in {"page", "reader", "resource"}
          /\ step = "page" => page = NoPage /\ fetched = 0
          /\ step = "reader" => site = "codeforces"
          /\ step = "resource" =>
                /\ site = "coderun" /\ page.data = "found"
                /\ fetched \in Nat /\ page.samples \in Nat /\ fetched < Resources

ResultInv == ReadInv /\ ReturnedIsWhole /\ ErrorHasCause

LEMMA ResultKinds ==
    /\ NoResult.kind = "none" /\ Error.kind = "error"
    /\ \A t, st, n : Task(t, st, n).kind = "task" /\ Task(t, st, n).examples = n
  BY DEF NoResult, Error, Task

LEMMA NoPageIsNothing ==
    /\ NoPage.received = FALSE /\ NoPage.content = FALSE
  BY DEF NoPage

LEMMA ResultInit == Init => ResultInv
  BY ResultKinds DEF Init, ResultInv, ReadInv, ReturnedIsWhole, ErrorHasCause

\* Whoever still reads has not returned.
LEMMA NotReturned ==
    ASSUME pc' # "idle" PROVE ReturnedIsWhole' /\ ErrorHasCause'
  BY DEF ReturnedIsWhole, ErrorHasCause

LEMMA CodeforcesStep ==
    ASSUME ResultInv, CodeforcesPage \/ CodeforcesPageFails \/ ReaderMarkdown \/ ReaderFails
    PROVE  ResultInv'
<1> USE ResultKinds DEF ResultInv, ReadInv
<1>1. ASSUME fetchReaderProblem, UNCHANGED <<site, markdown>>, site = "codeforces", pc = "asking"
      PROVE  ResultInv'
  <2>1. pc' = "waiting" /\ step' = "reader"
    BY <1>1 DEF fetchReaderProblem
  <2> QED BY <1>1, <2>1, NotReturned
<1>2. CASE CodeforcesPage
  <2>1. pc = "asking" /\ site = "codeforces" /\ UNCHANGED <<site, markdown>>
    BY <1>2 DEF CodeforcesPage, Answered
  <2>2. CASE DirectUsable(page')
    <3>1. pc' = "idle" /\ result' = Task(TRUE, TRUE, 0) /\ site' = "codeforces"
      BY <1>2, <2>1, <2>2 DEF CodeforcesPage, Return
    <3>2. page'.title /\ page'.statement /\ ~page'.blocking
      BY <2>2 DEF DirectUsable
    <3> QED BY <3>1, <3>2 DEF ReturnedIsWhole, ErrorHasCause, Sites
  <2>3. CASE ~DirectUsable(page')
    BY <1>1, <1>2, <2>1, <2>3 DEF CodeforcesPage
  <2> QED BY <2>2, <2>3
<1>3. CASE CodeforcesPageFails
  BY <1>1, <1>3 DEF CodeforcesPageFails
<1>4. CASE ReaderMarkdown
  <2>1. /\ site' = "codeforces" /\ step' = "reader" /\ pc' = "idle"
        /\ result' = IF markdown' = "problem" THEN Task(TRUE, TRUE, 0) ELSE Error
    BY <1>4 DEF ReaderMarkdown, Answered, Return
  <2> QED BY <2>1 DEF ReturnedIsWhole, ErrorHasCause, Sites
<1>5. CASE ReaderFails
  <2>1. site' = "codeforces" /\ step' = "reader" /\ pc' = "idle" /\ result' = Error /\ markdown' = "none"
    BY <1>5 DEF ReaderFails, Return, reading
  <2> QED BY <2>1 DEF ReturnedIsWhole, ErrorHasCause, Sites
<1> QED BY <1>2, <1>3, <1>4, <1>5

LEMMA LeetCodeStep ==
    ASSUME ResultInv, LeetCodeQuestion \/ LeetCodeFails
    PROVE  ResultInv'
<1> USE ResultKinds DEF ResultInv, ReadInv
<1>1. CASE LeetCodeQuestion
  <2>1. /\ site' = "leetcode" /\ pc' = "idle"
        /\ result' = IF QuestionUsable(page') THEN Task(page'.title, page'.statement, 0) ELSE Error
    BY <1>1 DEF LeetCodeQuestion, Answered, Return
  <2> QED BY <2>1 DEF QuestionUsable, ReturnedIsWhole, ErrorHasCause, Sites
<1>2. CASE LeetCodeFails
  <2>1. site' = "leetcode" /\ pc' = "idle" /\ result' = Error /\ page' = NoPage
    BY <1>2 DEF LeetCodeFails, Return, reading
  <2> QED BY <2>1, NoPageIsNothing DEF ReturnedIsWhole, ErrorHasCause, Sites
<1> QED BY <1>1, <1>2

LEMMA CodeRunPageTypes ==
    \A p \in CodeRunPages : p.samples \in Nat /\ p.data \in {"none", "broken", "found"}
  BY WebsiteAssumption DEF CodeRunPages, Page

LEMMA CodeRunStep ==
    ASSUME ResultInv,
           CodeRunPage \/ CodeRunPageFails \/ CodeRunResource \/ CodeRunResourceFails
    PROVE  ResultInv'
<1> USE ResultKinds DEF ResultInv, ReadInv
<1>1. CASE CodeRunPage
  <2>1. /\ pc = "asking" /\ step = "page" /\ site = "coderun"
        /\ UNCHANGED <<site, markdown, fetched>>
        /\ page' \in CodeRunPages
    BY <1>1 DEF CodeRunPage, Answered
  <2>2. CASE hasProblemStatement(page') /\ page'.data = "found"
    <3>1. step' = "resource" /\ pc' = "asking"
      BY <1>1, <2>1, <2>2 DEF CodeRunPage
    <3>2. page'.samples \in Nat
      BY <2>1, CodeRunPageTypes
    <3>3. fetched' < Resources'
      BY <2>1, <3>2 DEF Resources
    <3> QED BY <2>1, <2>2, <3>1, <3>2, <3>3, NotReturned
  <2>3. CASE ~ (hasProblemStatement(page') /\ page'.data = "found")
    <3>1. /\ pc' = "idle"
          /\ result' = IF hasProblemStatement(page') /\ page'.data = "none"
                       THEN Task(FALSE, FALSE, 0) ELSE Error
      BY <1>1, <2>3 DEF CodeRunPage, Return
    <3>2. page'.data \in {"none", "broken", "found"}
      BY <2>1, CodeRunPageTypes
    <3> QED BY <2>1, <2>3, <3>1, <3>2
            DEF hasProblemStatement, ReturnedIsWhole, ErrorHasCause, Sites
  <2> QED BY <2>2, <2>3
<1>2. CASE CodeRunPageFails
  <2>1. site' = "coderun" /\ pc' = "idle" /\ result' = Error /\ page' = NoPage
    BY <1>2 DEF CodeRunPageFails, Return, reading
  <2> QED BY <2>1, NoPageIsNothing DEF ReturnedIsWhole, ErrorHasCause, Sites
<1>3. CASE CodeRunResource
  <2>1. /\ pc = "asking" /\ step = "resource" /\ site = "coderun"
        /\ UNCHANGED <<site, step, page, markdown>> /\ fetched' = fetched + 1
    BY <1>3 DEF CodeRunResource, Answered
  <2>2. /\ fetched \in Nat /\ page.samples \in Nat /\ page.data = "found"
        /\ fetched < 2 * page.samples + 1
    BY <2>1 DEF Resources
  <2>3. CASE fetched' = Resources
    <3>1. PICK t, st \in BOOLEAN : pc' = "idle" /\ result' = Task(t, st, page.samples)
      BY <1>3, <2>3 DEF CodeRunResource, Return
    <3>2. fetched' = 1 + 2 * page.samples
      BY <2>2, <2>3 DEF Resources
    <3> QED BY <2>1, <2>2, <3>1, <3>2 DEF ReturnedIsWhole, ErrorHasCause, Sites
  <2>4. CASE fetched' # Resources
    <3>1. pc' = "asking"
      BY <1>3, <2>1, <2>4 DEF CodeRunResource
    <3>2. fetched' \in Nat /\ fetched' < Resources'
      BY <2>1, <2>2, <2>4 DEF Resources
    <3> QED BY <2>1, <2>2, <3>1, <3>2, NotReturned
  <2> QED BY <2>3, <2>4
<1>4. CASE CodeRunResourceFails
  <2>1. site' = "coderun" /\ pc' = "idle" /\ result' = Error /\ UNCHANGED <<page, fetched>>
    BY <1>4 DEF CodeRunResourceFails, Return, reading
  <2>2. page.data = "found" /\ fetched < 1 + 2 * page.samples
    BY <1>4 DEF CodeRunResourceFails, Resources
  <2> QED BY <2>1, <2>2 DEF ReturnedIsWhole, ErrorHasCause, Sites
<1> QED BY <1>1, <1>2, <1>3, <1>4

LEMMA ResultStep == ResultInv /\ [Next]_vars => ResultInv'
<1> SUFFICES ASSUME ResultInv, [Next]_vars PROVE ResultInv'
  OBVIOUS
<1>1. CASE \E s \in Sites : Read(s)
  BY <1>1, NotReturned DEF Read, ResultInv, ReadInv
<1>2. CASE TakeTick
  BY <1>2, NotReturned DEF TakeTick, reading, ResultInv, ReadInv, Resources
<1>3. CASE Elapse \/ Cancel \/ Close \/ Stopped \/ UNCHANGED vars
  <2>1. UNCHANGED <<pc, reading, result>>
    BY <1>3 DEF Elapse, Cancel, Close, Stopped, vars
  <2> QED BY <2>1 DEF reading, ResultInv, ReadInv, Resources, ReturnedIsWhole, ErrorHasCause
<1> QED BY <1>1, <1>2, <1>3, CodeforcesStep, LeetCodeStep, CodeRunStep DEF Next, Arrives, Fails

LEMMA ResultInvCorrect == Spec => []ResultInv
<1>1. Init => ResultInv
  BY ResultInit
<1>2. ResultInv /\ [Next]_vars => ResultInv'
  BY ResultStep
<1> QED BY <1>1, <1>2, PTL DEF Spec

\* A task that ReadURL returns is the whole problem, never what an interrupted
\* or blocked read left of it (CollectURL of the three adapters).
THEOREM ReturnedIsWholeCorrect == Spec => []ReturnedIsWhole
<1> QED BY ResultInvCorrect, PTL DEF ResultInv

\* A read fails only after everything that could have served was tried
\* (CollectURL of the three adapters).
THEOREM ErrorHasCauseCorrect == Spec => []ErrorHasCause
<1> QED BY ResultInvCorrect, PTL DEF ResultInv

------------------------------------------------------------------------------
(* Rates.                                                                  *)

\* The age of the last tick of a site is at most that of the last request
\* while a tick waits, and at most that of the request before while none does:
\* so that the tick that waits comes an Interval after the request before.
SiteInv(s) ==
    /\ phase[s] \in 0..Interval[s] - 1
    /\ since[s][1] \in 0..Interval[s] /\ since[s][2] \in 0..Interval[s]
    /\ tick[s] => phase[s] <= since[s][1] /\ since[s][2] = Interval[s]
    /\ ~tick[s] => phase[s] <= since[s][2]

ClockInv ==
    /\ site \in Sites
    /\ phase \in [Sites -> Nat] /\ tick \in [Sites -> BOOLEAN]
    /\ since \in [Sites -> Nat \X Nat]
    /\ \A s \in Sites : SiteInv(s)

LEMMA IntervalType == \A s \in Sites : Interval[s] \in Nat /\ Interval[s] > 0
  BY WebsiteAssumption

\* The next phase of a ticker.
LEMMA PhaseStep ==
    \A i \in Nat \ {0} : \A p \in 0..i - 1 : (p + 1) % i = IF p + 1 = i THEN 0 ELSE p + 1
  OBVIOUS

LEMMA ClockInit == Init => ClockInv
<1> SUFFICES ASSUME Init PROVE ClockInv
  OBVIOUS
<1>1. ASSUME NEW s \in Sites PROVE SiteInv(s)
  <2>1. phase[s] = 0 /\ tick[s] = FALSE /\ since[s] = <<Interval[s], Interval[s]>>
    BY DEF Init
  <2> QED BY <2>1, IntervalType DEF SiteInv
<1>2. since \in [Sites -> Nat \X Nat]
  BY IntervalType DEF Init
<1> QED BY <1>1, <1>2 DEF Init, ClockInv

LEMMA ElapseStep == ASSUME ClockInv, Elapse PROVE ClockInv'
<1>1. ASSUME NEW s \in Sites
      PROVE  /\ SiteInv(s)' /\ phase'[s] \in Nat /\ tick'[s] \in BOOLEAN
             /\ since'[s] \in Nat \X Nat
  <2> DEFINE i == Interval[s]
             p == phase[s]
             a == since[s][1]
             b == since[s][2]
  <2>1. /\ phase'[s] = (p + 1) % i
        /\ tick'[s] = (tick[s] \/ phase'[s] = 0)
        /\ since'[s] = <<Older(a, s), Older(b, s)>>
    BY DEF Elapse
  <2>2. i \in Nat \ {0} /\ p \in 0..i - 1 /\ a \in 0..i /\ b \in 0..i /\ tick[s] \in BOOLEAN
    BY IntervalType DEF ClockInv, SiteInv
  <2>3. phase'[s] = IF p + 1 = i THEN 0 ELSE p + 1
    BY <2>1, <2>2, PhaseStep
  <2>4. /\ Older(a, s) = IF a < i THEN a + 1 ELSE a
        /\ Older(b, s) = IF b < i THEN b + 1 ELSE b
    BY DEF Older
  <2>5. (tick[s] => p <= a /\ b = i) /\ (~tick[s] => p <= b)
    BY DEF ClockInv, SiteInv
  <2>6. since'[s][1] = Older(a, s) /\ since'[s][2] = Older(b, s)
    BY <2>1
  <2>7. Interval' = Interval
    OBVIOUS
  <2> HIDE DEF i, p, a, b
  <2>8. Older(a, s) \in 0..i /\ Older(b, s) \in 0..i /\ phase'[s] \in 0..i - 1
    BY <2>2, <2>3, <2>4
  <2>9. tick'[s] => phase'[s] <= Older(a, s) /\ Older(b, s) = i
    BY <2>1, <2>2, <2>3, <2>4, <2>5
  <2>10. ~tick'[s] => phase'[s] <= Older(b, s)
    BY <2>1, <2>2, <2>3, <2>4, <2>5
  <2>11. since'[s] \in Nat \X Nat
    BY <2>1, <2>2, <2>8
  <2> QED BY <2>1, <2>2, <2>6, <2>8, <2>9, <2>10, <2>11 DEF SiteInv, i
<1>2. /\ phase' = [s \in Sites |-> phase'[s]] /\ tick' = [s \in Sites |-> tick'[s]]
      /\ since' = [s \in Sites |-> since'[s]]
  BY DEF Elapse
<1>3. /\ phase' \in [Sites -> Nat] /\ tick' \in [Sites -> BOOLEAN]
      /\ since' \in [Sites -> Nat \X Nat]
  BY <1>1, <1>2
<1>4. site' \in Sites
  BY DEF Elapse, reading, ClockInv
<1> QED BY <1>1, <1>3, <1>4 DEF ClockInv

LEMMA TakeTickStep == ASSUME ClockInv, TakeTick PROVE ClockInv'
<1>1. /\ tick[site] /\ site' = site /\ phase' = phase
      /\ tick' = [tick EXCEPT ![site] = FALSE]
      /\ since' = [since EXCEPT ![site] = <<0, since[site][1]>>]
  BY DEF TakeTick, reading
<1>2. ASSUME NEW s \in Sites PROVE SiteInv(s)'
  <2>1. CASE s = site
    <3>1. tick'[s] = FALSE /\ since'[s][1] = 0 /\ since'[s][2] = since[s][1] /\ phase'[s] = phase[s]
      BY <1>1, <2>1 DEF ClockInv
    <3>2. Interval[s] \in Nat /\ SiteInv(s) /\ tick[s]
      BY <1>1, <2>1, IntervalType DEF ClockInv
    <3> QED BY <3>1, <3>2 DEF SiteInv
  <2>2. CASE s # site
    <3>1. tick'[s] = tick[s] /\ since'[s] = since[s] /\ phase'[s] = phase[s] /\ SiteInv(s)
      BY <1>1, <2>2 DEF ClockInv
    <3> QED BY <3>1 DEF SiteInv
  <2> QED BY <2>1, <2>2
<1>3. since' \in [Sites -> Nat \X Nat]
  BY <1>1 DEF ClockInv
<1> QED BY <1>1, <1>2, <1>3 DEF ClockInv

LEMMA ClockStep == ClockInv /\ [Next]_vars => ClockInv'
<1> SUFFICES ASSUME ClockInv, [Next]_vars PROVE ClockInv'
  OBVIOUS
<1>1. ASSUME UNCHANGED clocks, site' \in Sites PROVE ClockInv'
  BY <1>1 DEF clocks, ClockInv, SiteInv
<1>2. CASE \E s \in Sites : Read(s)
  BY <1>1, <1>2 DEF Read
<1>3. CASE Arrives
  BY <1>1, <1>3 DEF Arrives, CodeforcesPage, ReaderMarkdown, LeetCodeQuestion, CodeRunPage,
                    CodeRunResource, fetchReaderProblem, ClockInv
<1>4. CASE Fails
  BY <1>1, <1>4 DEF Fails, CodeforcesPageFails, ReaderFails, LeetCodeFails, CodeRunPageFails,
                    CodeRunResourceFails, fetchReaderProblem, reading, ClockInv
<1>5. CASE Cancel \/ Close \/ Stopped \/ UNCHANGED vars
  BY <1>1, <1>5 DEF Cancel, Close, Stopped, vars, reading, ClockInv
<1> QED BY <1>2, <1>3, <1>4, <1>5, ElapseStep, TakeTickStep DEF Next

\* A request begins by taking a tick, and only so.
LEMMA AsksTakesTick ==
    ASSUME [Next]_vars, Asks PROVE TakeTick
<1> USE DEF Asks
<1>1. ~ \E s \in Sites : Read(s)
  BY DEF Read
<1>2. ~Arrives
  <2>1. ~CodeforcesPage
    BY DEF CodeforcesPage, Return, fetchReaderProblem
  <2>2. ~ReaderMarkdown /\ ~LeetCodeQuestion
    BY DEF ReaderMarkdown, LeetCodeQuestion, Return
  <2>3. ~CodeRunPage
    BY DEF CodeRunPage, Return
  <2>4. ~CodeRunResource
    BY DEF CodeRunResource, Return, Answered
  <2> QED BY <2>1, <2>2, <2>3, <2>4 DEF Arrives
<1>3. ~Fails
  BY DEF Fails, CodeforcesPageFails, ReaderFails, LeetCodeFails, CodeRunPageFails,
         CodeRunResourceFails, fetchReaderProblem, Return
<1>4. ~ (Elapse \/ Cancel \/ Close \/ Stopped \/ UNCHANGED vars)
  BY DEF Elapse, Cancel, Close, Stopped, vars, reading
<1> QED BY <1>1, <1>2, <1>3, <1>4 DEF Next

\* Any three requests in a row for pages of a site take an Interval at least,
\* however long the site was not read before (the tickers of the adapters).
THEOREM RateIsBoundedCorrect == Spec => RateIsBounded
<1>1. Init => ClockInv
  BY ClockInit
<1>2. ClockInv /\ [Next]_vars => ClockInv'
  BY ClockStep
<1>3. ClockInv /\ [Next]_vars => [Asks => since[site][2] = Interval[site]]_vars
  <2> SUFFICES ASSUME ClockInv, [Next]_vars, Asks PROVE since[site][2] = Interval[site]
    OBVIOUS
  <2>1. tick[site]
    BY AsksTakesTick DEF TakeTick
  <2> QED BY <2>1 DEF ClockInv, SiteInv
<1>4. Spec => [][Asks => since[site][2] = Interval[site]]_vars
  BY <1>1, <1>2, <1>3, PTL DEF Spec
<1> QED BY <1>4 DEF RateIsBounded
==============================================================================
