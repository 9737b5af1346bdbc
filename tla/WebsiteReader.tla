----------------------------- MODULE WebsiteReader -----------------------------
(***************************************************************************)
(* DirectWebsiteReader (internal/collection/website.go) and the CollectURL *)
(* paths of the adapters it routes to (internal/parser/source/codeforces,  *)
(* leetcode, coderun): one problem is read by its canonical URL, with a    *)
(* ticker per site between the requests, a fallback reader for Codeforces  *)
(* and secondary resources for CodeRun.  One worker calls ReadURL; when    *)
(* its Run returns, the container closes the reader, which stops the       *)
(* tickers.                                                                *)
(*                                                                         *)
(* A page is what the parsers of its site find in it.  Texts, URLs and     *)
(* examples that cannot fail a read are left out.                          *)
(***************************************************************************)
EXTENDS Naturals

CONSTANTS
    Interval,    \* time units between two ticks of a site's rateLimiter
    MaxSamples   \* bound: samples of a CodeRun problem

Sites == {"codeforces", "leetcode", "coderun"}

ASSUME WebsiteAssumption ==
    /\ Interval \in [Sites -> Nat \ {0}]
    /\ MaxSamples \in Nat

VARIABLES
    pc,         \* of the worker: outside ReadURL, at <-rateLimiter.C, in client.Do
    site, step, \* the site being read and the kind of request
    page,       \* what came for the first request of the read
    markdown,   \* what came from the Codeforces fallback
    fetched,    \* CodeRun resources received in this read
    result,     \* what the last ReadURL returned
    phase,      \* time since the last tick of each ticker
    tick,       \* a tick waits in the channel of the ticker, which holds one
    since,      \* ages of the last two requests to the pages of a site, up to Interval
    cancelled,  \* the context of the worker is cancelled
    closed      \* the reader is closed

reading == <<site, step, page, markdown, fetched>>
clocks == <<phase, tick, since>>
life == <<cancelled, closed>>
vars == <<pc, reading, result, clocks, life>>

Page == [received: BOOLEAN, title: BOOLEAN, content: BOOLEAN, statement: BOOLEAN,
         blocking: BOOLEAN, data: {"none", "broken", "found"}, samples: 0..MaxSamples]
NoPage == [received |-> FALSE, title |-> FALSE, content |-> FALSE, statement |-> FALSE,
           blocking |-> FALSE, data |-> "none", samples |-> 0]

Result == [kind: {"none", "error", "task"}, title: BOOLEAN, statement: BOOLEAN,
           examples: 0..MaxSamples]
NoResult == [kind |-> "none", title |-> FALSE, statement |-> FALSE, examples |-> 0]
Error == [NoResult EXCEPT !.kind = "error"]
Task(title, statement, examples) ==
    [kind |-> "task", title |-> title, statement |-> statement, examples |-> examples]

\* The adapters start their tickers when they are built.
Init ==
    /\ pc = "idle" /\ site \in Sites /\ step = "page"
    /\ page = NoPage /\ markdown = "none" /\ fetched = 0 /\ result = NoResult
    /\ phase = [s \in Sites |-> 0] /\ tick = [s \in Sites |-> FALSE]
    /\ since = [s \in Sites |-> <<Interval[s], Interval[s]>>]
    /\ cancelled = FALSE /\ closed = FALSE

Read(s) ==
    /\ pc = "idle" /\ ~cancelled
    /\ pc' = "waiting"
    /\ site' = s /\ step' = "page" /\ page' = NoPage /\ markdown' = "none" /\ fetched' = 0
    /\ UNCHANGED <<result, clocks, life>>

Return(r) == pc' = "idle" /\ result' = r

Older(age, s) == IF age < Interval[s] THEN age + 1 ELSE age

\* A unit of time.  A tick that nobody has taken is not sent twice.
Elapse ==
    /\ ~closed
    /\ phase' = [s \in Sites |-> (phase[s] + 1) % Interval[s]]
    /\ tick' = [s \in Sites |-> tick[s] \/ phase'[s] = 0]
    /\ since' = [s \in Sites |-> <<Older(since[s][1], s), Older(since[s][2], s)>>]
    /\ UNCHANGED <<pc, reading, result, life>>

\* The wait for the tick does not look at the context.
TakeTick ==
    /\ pc = "waiting" /\ tick[site]
    /\ pc' = "asking"
    /\ tick' = [tick EXCEPT ![site] = FALSE]
    /\ since' = [since EXCEPT ![site] = <<0, since[site][1]>>]
    /\ UNCHANGED <<reading, result, phase, life>>

\* A response can be had: a request under a cancelled context fails.
Answered(s, request) == pc = "asking" /\ site = s /\ step = request /\ ~cancelled

------------------------------------------------------------------------------
\* Codeforces

\* Mutant of fetchReaderProblem: the fallback is asked without waiting.
fetchReaderNow ==
    /\ pc' = "asking" /\ step' = "reader"
    /\ since' = [since EXCEPT ![site] = <<0, since[site][1]>>]
    /\ UNCHANGED <<result, phase, tick>>

fetchReaderProblem ==
    /\ pc' = "waiting" /\ step' = "reader"
    /\ UNCHANGED <<result, clocks>>

\* What parseProblemHTML and detectBlockingPage find; without a
\* .problem-statement there is neither title nor statement.
CodeforcesPages ==
    {[NoPage EXCEPT !.received = TRUE, !.title = t, !.statement = st, !.blocking = b] : t, st, b \in BOOLEAN}

DirectUsable(p) == p.title /\ p.statement /\ ~p.blocking

CodeforcesPage ==
    /\ Answered("codeforces", "page")
    /\ page' \in CodeforcesPages
    /\ IF DirectUsable(page')
       THEN Return(Task(TRUE, TRUE, 0)) /\ UNCHANGED <<step, clocks>>
       ELSE fetchReaderProblem
    /\ UNCHANGED <<site, markdown, fetched, life>>

\* Mutant of CodeforcesPageFails: a failed request ends the read.
CodeforcesGivesUp ==
    /\ pc = "asking" /\ site = "codeforces" /\ step = "page"
    /\ Return(Error)
    /\ UNCHANGED <<reading, clocks, life>>

\* A failed request for the page is parsed like an empty one.
CodeforcesPageFails ==
    /\ pc = "asking" /\ site = "codeforces" /\ step = "page"
    /\ fetchReaderProblem
    /\ UNCHANGED <<site, page, markdown, fetched, life>>

\* parseReaderMarkdown: the first line is the title, what follows the header
\* up to the examples the statement, which may be empty.
ReaderMarkdown ==
    /\ Answered("codeforces", "reader")
    /\ markdown' \in {"title", "problem"}
    /\ Return(IF markdown' = "problem" THEN Task(TRUE, TRUE, 0) ELSE Error)
    /\ UNCHANGED <<site, step, page, fetched, clocks, life>>

\* The request fails, or its body is blank.
ReaderFails ==
    /\ pc = "asking" /\ site = "codeforces" /\ step = "reader"
    /\ Return(Error)
    /\ UNCHANGED <<reading, clocks, life>>

------------------------------------------------------------------------------
\* LeetCode

\* parseQuestionContent: the statement is what stands before the first
\* example, and may be empty although there is content.
Questions ==
    {[NoPage EXCEPT !.received = TRUE, !.title = t, !.content = c,
                    !.statement = c /\ st, !.blocking = c /\ b] : t, c, st, b \in BOOLEAN}

QuestionUsable(p) == p.content /\ ~p.blocking

LeetCodeQuestion ==
    /\ Answered("leetcode", "page")
    /\ page' \in Questions
    /\ Return(IF QuestionUsable(page') THEN Task(page'.title, page'.statement, 0) ELSE Error)
    /\ UNCHANGED <<site, step, markdown, fetched, clocks, life>>

\* doGQL fails, the answer holds errors or no question.
LeetCodeFails ==
    /\ pc = "asking" /\ site = "leetcode"
    /\ Return(Error)
    /\ UNCHANGED <<reading, clocks, life>>

------------------------------------------------------------------------------
\* CodeRun

\* parseEmbeddedProblem: the problem is in __NEXT_DATA__, or it is not there,
\* or the data cannot be decoded.
CodeRunPages == {p \in Page : p.received /\ ~p.statement /\ ~p.blocking}

\* A heading, and none of the texts of an unavailable page.
hasProblemStatement(p) == p.title /\ p.content

\* A page without embedded data is handed on as raw HTML.
CodeRunPage ==
    /\ Answered("coderun", "page")
    /\ page' \in {p \in CodeRunPages : p.data # "found" => p.samples = 0}
    /\ IF hasProblemStatement(page') /\ page'.data = "found"
       THEN step' = "resource" /\ UNCHANGED <<pc, result>>
       ELSE /\ Return(IF hasProblemStatement(page') /\ page'.data = "none"
                      THEN Task(FALSE, FALSE, 0) ELSE Error)
            /\ UNCHANGED step
    /\ UNCHANGED <<site, markdown, fetched, clocks, life>>

CodeRunPageFails ==
    /\ pc = "asking" /\ site = "coderun" /\ step = "page"
    /\ Return(Error)
    /\ UNCHANGED <<reading, clocks, life>>

\* The rendered statement, then input and output of every sample.
Resources == 2 * page.samples + 1

\* Nothing limits the rate of these requests, which go to another host.
CodeRunResource ==
    /\ Answered("coderun", "resource")
    /\ fetched' = fetched + 1
    /\ IF fetched' = Resources
       THEN \E t, st \in BOOLEAN : Return(Task(t, st, page.samples))
       ELSE UNCHANGED <<pc, result>>
    /\ UNCHANGED <<site, step, page, markdown, clocks, life>>

\* Mutant of CodeRunResourceFails: a sample that cannot be read is passed over.
SampleFailsQuietly ==
    /\ pc = "asking" /\ site = "coderun" /\ step = "resource"
    /\ Return(IF fetched = 0 THEN Error ELSE Task(TRUE, TRUE, page.samples))
    /\ UNCHANGED <<reading, clocks, life>>

\* The host is not trusted, the request fails, the body is too large or, for
\* the statement, not JSON.
CodeRunResourceFails ==
    /\ pc = "asking" /\ site = "coderun" /\ step = "resource"
    /\ Return(Error)
    /\ UNCHANGED <<reading, clocks, life>>

------------------------------------------------------------------------------
\* The shutdown of the process

Cancel ==
    /\ ~cancelled
    /\ cancelled' = TRUE
    /\ UNCHANGED <<pc, reading, result, clocks, closed>>

\* Mutant of Close: the tickers stop as soon as the context is cancelled.
CloseAtOnce ==
    /\ cancelled /\ ~closed
    /\ closed' = TRUE
    /\ UNCHANGED <<pc, reading, result, clocks, cancelled>>

\* websiteReader.Close after worker.Run has returned.
Close ==
    /\ cancelled /\ ~closed /\ pc = "idle"
    /\ closed' = TRUE
    /\ UNCHANGED <<pc, reading, result, clocks, cancelled>>

Stopped == closed /\ UNCHANGED vars

Arrives == CodeforcesPage \/ ReaderMarkdown \/ LeetCodeQuestion \/ CodeRunPage \/ CodeRunResource
Fails == \/ CodeforcesPageFails \/ ReaderFails \/ LeetCodeFails
         \/ CodeRunPageFails \/ CodeRunResourceFails

Next ==
    \/ \E s \in Sites : Read(s)
    \/ TakeTick \/ Arrives \/ Fails
    \/ Elapse
    \/ Cancel \/ Close \/ Stopped

\* Time passes, the worker runs, and the client's timeout ends every request.
Fairness ==
    /\ WF_vars(Elapse) /\ WF_vars(TakeTick) /\ WF_vars(Arrives \/ Fails) /\ WF_vars(Close)

Spec == Init /\ [][Next]_vars /\ Fairness

------------------------------------------------------------------------------

\* A task that ReadURL returns is the problem and not what an interrupted or
\* blocked read left of it: the direct page of Codeforces was whole and not a
\* blocking page, or the fallback answered; the content of LeetCode is there
\* and not a login wall; of a CodeRun problem with embedded data every
\* resource was received.  (CollectURL of the three adapters.)
ReturnedIsWhole ==
    pc = "idle" /\ result.kind = "task" =>
        CASE site = "codeforces" ->
                 \/ markdown = "problem"
                 \/ page.title /\ page.statement /\ ~page.blocking
          [] site = "leetcode" -> page.content /\ ~page.blocking
          [] site = "coderun" ->
                 page.data = "found" => fetched = 1 + 2 * result.examples
                                        /\ result.examples = page.samples

\* A read fails only after everything that could have served was tried: a
\* Codeforces problem is given up only after the fallback was asked, and a
\* whole page or question that was received is never lost.
ErrorHasCause ==
    pc = "idle" /\ result.kind = "error" =>
        CASE site = "codeforces" -> step = "reader" /\ markdown # "problem"
          [] site = "leetcode" -> ~(page.content /\ ~page.blocking)
          [] site = "coderun" ->
                 \/ ~page.received \/ ~page.title \/ ~page.content
                 \/ page.data = "broken"
                 \/ page.data = "found" /\ fetched < 1 + 2 * page.samples

\* A request for a page of a site, direct or through the reader, begins.
Asks ==
    /\ pc' = "asking" /\ step' \in {"page", "reader"}
    /\ <<pc, step>> # <<pc', step'>>

\* Any three requests in a row for pages of a site take an Interval at least:
\* what is left of RequestsAreSpaced.
RateIsBounded == [][Asks => since[site][2] = Interval[site]]_vars

\* A page is asked of a site an Interval after the last request at the earliest
\* (the comments of WithMinInterval and NewCollector, "one request in 2 s").  The
\* code violates this: a tick waits in the ticker's channel while the site is not
\* read, and the next comes when its time has come.
RequestsAreSpaced ==
    [][Asks /\ step' = "page" => since[site][1] = Interval[site]]_vars

\* After the context is cancelled the read in progress ends and the reader is
\* closed: the tickers must run on for as long as a read may wait for them.
ShutdownEnds == cancelled ~> closed /\ pc = "idle"
==============================================================================
