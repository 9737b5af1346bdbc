-------------------------------- MODULE AdminAPI -------------------------------
(***************************************************************************)
(* The admin API of the queue (internal/collection/http.go) and what it    *)
(* does with the store (store.go) and the validation (models.go): clients  *)
(* create manual jobs under an idempotency key and send the request again  *)
(* until they are answered, transactions of concurrent handlers interleave *)
(* and fail, and the requester of a job that has ended is notified of it   *)
(* until he acknowledges.                                                  *)
(*                                                                         *)
(* A client is one intended job of an administrator.  The roles and tokens *)
(* of a request, and the reads getJob and sources, are left out.           *)
(***************************************************************************)
EXTENDS Integers, Sequences, FiniteSets

CONSTANTS
    Clients,          \* bound: the jobs somebody wants
    Actors,           \* administrators, X-User-ID
    Wishes,           \* what the clients may want: functions from Clients to
                      \* records of actor, idempotency key and body
    AllowedChannels,  \* the allowlist of the configuration
    DefaultLimit,     \* limit of a body without one
    MaxItems,         \* greatest max_items_per_source: 500 in the code
    MaxURLs,          \* most website URLs: 20 in the code
    MaxFaults         \* bound: failed statements, lost replies and client timeouts

IsSequence(s) == s \in Seq({s[k] : k \in DOMAIN s})

ASSUME AdminAssumption ==
    /\ IsFiniteSet(Clients)
    /\ \A w \in Wishes : DOMAIN w = Clients /\ \A c \in Clients :
          /\ w[c].actor \in Actors
          /\ IsSequence(w[c].input.channels) /\ IsSequence(w[c].input.urls)
    /\ MaxItems \in Nat /\ MaxURLs \in Nat /\ MaxFaults \in Nat
    /\ DefaultLimit \in 1..MaxItems

\* Requests of a client that may be in progress: the last and one given up.
Handlers == Clients \X {1, 2}
Idle == [pc |-> "idle", listening |-> FALSE, job |-> 0]

VARIABLES
    want,       \* what each client sends: actor, key, body
    handlers,   \* createJob calls in progress
    jobs,       \* committed rows of collection_jobs with their sources, by id
    reply,      \* the answer each client has got
    confirmed,  \* history: who was told that he has acknowledged which ended job
    faults

vars == <<want, handlers, jobs, reply, confirmed, faults>>

pc(h) == handlers[h].pc
Wish(h) == want[h[1]]

------------------------------------------------------------------------------
\* Bodies: channels, urls, range, limit.  A channel is spelled with or without
\* "@".  A URL has a scheme, a site, a form of path and an identifier in some
\* letter case, and may carry a user or a port; "www.", a query and slashes at
\* the end change nothing.

Channel(c) == c.name

Paths == [codeforces |-> {"problemset", "contest"}, leetcode |-> {"problems", "description"},
          coderun |-> {"problem"}, other |-> {}]
Supported(u) == u.scheme = "https" /\ ~u.authority /\ u.path \in Paths[u.site]

\* Mutant of NormalizeWebsiteURL: the letter case is kept.
NormalizeKeepsCase(u) == <<u.site, u.id, u.upper>>
\* The canonical link of a supported URL: site and identifier in one letter case.
NormalizeWebsiteURL(u) == <<u.site, u.id>>

Limit(i) == IF i.limit = 0 THEN DefaultLimit ELSE i.limit

\* ValidateCreateInput.  A range is "ordered" if it is not reversed, ends
\* within a minute from now and is no longer than 31 days.
Valid(i) ==
    /\ i.channels # <<>> \/ i.urls # <<>>
    /\ Len(i.urls) <= MaxURLs
    /\ Limit(i) \in 1..MaxItems
    /\ i.channels # <<>> => i.range = "ordered"
    /\ \A k \in DOMAIN i.channels : Channel(i.channels[k]) \in AllowedChannels
    /\ \A k \in DOMAIN i.urls : Supported(i.urls[k])

\* CreateManual makes a row of every channel, and of every canonical URL one.
ChannelRows(i) == [k \in DOMAIN i.channels |-> <<"telegram", Channel(i.channels[k])>>]
WebsiteRows(i) == {NormalizeWebsiteURL(i.urls[k]) : k \in DOMAIN i.urls}
Sources(i) == {ChannelRows(i)[k] : k \in DOMAIN i.channels}
              \union {<<"website", u>> : u \in WebsiteRows(i)}

\* Two rows of one job would be equal.
ListedTwice(i) == Cardinality({Channel(i.channels[k]) : k \in DOMAIN i.channels}) < Len(i.channels)

------------------------------------------------------------------------------

Init ==
    /\ want \in Wishes
    /\ handlers = [h \in Handlers |-> Idle]
    /\ jobs = <<>>
    /\ reply = [c \in Clients |-> [status |-> "none", job |-> 0]]
    /\ confirmed = {} /\ faults = 0

Fault == faults < MaxFaults /\ faults' = faults + 1

\* createJob: an invalid body is answered at once.  A client sends its request
\* again when it has got an error or no longer waits for an answer.
Send(h) ==
    LET c == h[1]
    IN  /\ pc(h) = "idle"
        /\ reply[c].status = "none"
        /\ \A n \in {1, 2} : ~handlers[<<c, n>>].listening
        /\ IF Valid(want[c].input)
           THEN /\ handlers' = [handlers EXCEPT ![h] = [pc |-> "insert", listening |-> TRUE, job |-> 0]]
                /\ UNCHANGED reply
           ELSE /\ reply' = [reply EXCEPT ![c].status = "rejected"]
                /\ UNCHANGED handlers
        /\ UNCHANGED <<want, jobs, confirmed, faults>>

\* The id uuid.New() gives: one that nobody has.
FreshID == CHOOSE n \in 1..Cardinality(DOMAIN jobs) + Cardinality(Handlers) + 1 :
               n \notin DOMAIN jobs /\ \A g \in Handlers : handlers[g].job # n

\* Mutant of KeyLocked: the key is not unique, nobody waits for another.
KeyNeverLocked(k) == FALSE
\* A transaction that has not ended has inserted a job under the key.
KeyLocked(k) == \E g \in Handlers : pc(g) = "sources" /\ Wish(g).key = k

KeyTaken(k) == \E j \in DOMAIN jobs : jobs[j].key = k

\* INSERT INTO collection_jobs: it waits for a transaction with the same key
\* and fails with 23505, which is no error, when the key is taken.
InsertJob(h) ==
    /\ pc(h) = "insert"
    /\ ~KeyLocked(Wish(h).key)
    /\ handlers' = [handlers EXCEPT ![h].pc = IF KeyTaken(Wish(h).key) THEN "lookup" ELSE "sources",
                                    ![h].job = IF KeyTaken(Wish(h).key) THEN 0 ELSE FreshID]
    /\ UNCHANGED <<want, jobs, reply, confirmed, faults>>

Row(h) == [key |-> Wish(h).key, by |-> Wish(h).actor,
           sources |-> Sources(Wish(h).input), range |-> Wish(h).input.range,
           limit |-> Limit(Wish(h).input), status |-> "queued", acked |-> FALSE]

\* The rows with one more, under the id of the handler.
With(h, row) ==
    [j \in DOMAIN jobs \union {handlers[h].job} |->
         IF j = handlers[h].job THEN row ELSE jobs[j]]

\* The sources are inserted and the transaction commits; the reply of the
\* commit may be lost, and then the client is told of an error.
InsertSources(h) ==
    /\ pc(h) = "sources"
    /\ ~ListedTwice(Wish(h).input)
    /\ jobs' = With(h, Row(h))
    /\ \/ handlers' = [handlers EXCEPT ![h].pc = "get"] /\ UNCHANGED faults
       \/ handlers' = [handlers EXCEPT ![h] = Idle] /\ Fault
    /\ UNCHANGED <<want, reply, confirmed>>

\* A channel that is listed twice violates the key of the sources: rollback
\* and 500.
SourcesCollide(h) ==
    /\ pc(h) = "sources"
    /\ ListedTwice(Wish(h).input)
    /\ handlers' = [handlers EXCEPT ![h] = Idle]
    /\ UNCHANGED <<want, jobs, reply, confirmed, faults>>

\* Mutant of Fails: the row of the job outlives the failure of its sources.
FailsHalfway(h) ==
    /\ pc(h) \in {"insert", "sources", "get", "lookup"}
    /\ Fault
    /\ handlers' = [handlers EXCEPT ![h] = Idle]
    /\ jobs' = IF pc(h) = "sources"
               THEN With(h, [Row(h) EXCEPT !.sources = {}])
               ELSE jobs
    /\ UNCHANGED <<want, reply, confirmed>>

\* A statement fails or the process crashes; the transaction is rolled back.
Fails(h) ==
    /\ pc(h) \in {"insert", "sources", "get", "lookup"}
    /\ Fault
    /\ handlers' = [handlers EXCEPT ![h] = Idle]
    /\ UNCHANGED <<want, jobs, reply, confirmed>>

\* Mutant of GetByIdempotency: no rows are an answer, too.
GetByIdempotencyFails(h) ==
    /\ pc(h) = "lookup"
    /\ handlers' = [handlers EXCEPT ![h] = Idle]
    /\ UNCHANGED <<want, jobs, reply, confirmed, faults>>

GetByIdempotency(h) ==
    /\ pc(h) = "lookup"
    /\ \E j \in DOMAIN jobs :
           /\ jobs[j].key = Wish(h).key
           /\ handlers' = [handlers EXCEPT ![h].pc = "answer", ![h].job = j]
    /\ UNCHANGED <<want, jobs, reply, confirmed, faults>>

Get(h) ==
    /\ pc(h) = "get"
    /\ handlers' = [handlers EXCEPT ![h].pc = "answer"]
    /\ UNCHANGED <<want, jobs, reply, confirmed, faults>>

\* 202 with the job, if the client still waits for it.
Answer(h) ==
    /\ pc(h) = "answer"
    /\ handlers' = [handlers EXCEPT ![h] = Idle]
    /\ reply' = IF handlers[h].listening
                THEN [reply EXCEPT ![h[1]] = [status |-> "accepted", job |-> handlers[h].job]]
                ELSE reply
    /\ UNCHANGED <<want, jobs, confirmed, faults>>

\* The client stops waiting; the handler goes on, or fails when its context is
\* cancelled.
GiveUp(h) ==
    /\ handlers[h].listening
    /\ Fault
    /\ handlers' = [handlers EXCEPT ![h].listening = FALSE]
    /\ UNCHANGED <<want, jobs, reply, confirmed>>

------------------------------------------------------------------------------

\* The worker has finished the job (CollectionQueue).
FinishJob(j) ==
    /\ jobs[j].status = "queued"
    /\ jobs' = [jobs EXCEPT ![j].status = "ended"]
    /\ UNCHANGED <<want, handlers, reply, confirmed, faults>>

\* List with unreadOnly: what the notifications of an actor show.
Unread(a) == {j \in DOMAIN jobs : jobs[j].by = a /\ jobs[j].status = "ended" /\ ~jobs[j].acked}

\* Mutant of Acknowledge: the requester is not looked at.
AcknowledgeAnyone(a, j) ==
    /\ jobs[j].status = "ended"
    /\ jobs' = [jobs EXCEPT ![j].acked = TRUE]
    /\ confirmed' = confirmed \union {<<a, j>>}
    /\ UNCHANGED <<want, handlers, reply, faults>>

\* acknowledgeJob; an actor may send it for any job, and again.
Acknowledge(a, j) ==
    /\ jobs[j].by = a /\ jobs[j].status = "ended"
    /\ jobs' = [jobs EXCEPT ![j].acked = TRUE]
    /\ confirmed' = confirmed \union {<<a, j>>}
    /\ UNCHANGED <<want, handlers, reply, faults>>

Step(h) == \/ InsertJob(h) \/ InsertSources(h) \/ SourcesCollide(h)
           \/ GetByIdempotency(h) \/ Get(h) \/ Answer(h)

Next ==
    \/ \E h \in Handlers : Send(h) \/ Step(h) \/ Fails(h) \/ GiveUp(h)
    \/ \E j \in DOMAIN jobs : FinishJob(j) \/ \E a \in Actors : Acknowledge(a, j)

\* Clients send again, handlers run, and the row lock of a key is granted in
\* turn, so that no transaction waits for it for ever.
Fairness ==
    /\ \A c \in Clients : WF_vars(\E n \in {1, 2} : Send(<<c, n>>))
    /\ \A h \in Handlers : SF_vars(Step(h))

Spec == Init /\ [][Next]_vars /\ Fairness

------------------------------------------------------------------------------

Accepted(c) == reply[c].status = "accepted"
SameKey(c) == {d \in Clients : want[d].key = want[c].key}

\* However often a request is sent, and whatever fails meanwhile, everybody
\* who is answered 202 under one key is given the same job.  (CreateManual;
\* docs/architecture.md:23.)
AnswersAgree ==
    \A c, d \in Clients :
        Accepted(c) /\ Accepted(d) /\ want[c].key = want[d].key => reply[c].job = reply[d].job

\* The job of a 202 is stored whole: it is what one of the senders of its key
\* asked for, with his name on it, one source for each channel and for each
\* problem however its URL was spelled.
AcceptedIsWanted ==
    \A c \in Clients : Accepted(c) =>
        /\ reply[c].job \in DOMAIN jobs
        /\ \E d \in SameKey(c) :
               LET i == want[d].input
                   j == jobs[reply[c].job]
               IN  /\ j.by = want[d].actor
                   /\ j.limit = Limit(i) /\ j.range = i.range
                   /\ Cardinality(j.sources) =
                          Cardinality({i.channels[k].name : k \in DOMAIN i.channels})
                          + Cardinality({<<i.urls[k].site, i.urls[k].id>> : k \in DOMAIN i.urls})

\* Every job in the queue can be executed: it has a source, without which
\* FinishJob finds no row and the job never ends, a limit within bounds, and a
\* range if it has a channel, without which the worker dereferences nil.
StoredIsRunnable ==
    \A j \in DOMAIN jobs :
        /\ jobs[j].sources # {} /\ jobs[j].limit \in 1..MaxItems
        /\ (\E s \in jobs[j].sources : s[1] = "telegram") => jobs[j].range = "ordered"

\* Who was answered 202 under a key that is his is notified of the end of the
\* job until he himself has acknowledged it.  (List, Acknowledge.)
AcceptedIsNotified ==
    \A c \in Clients :
        LET j == reply[c].job
        IN  /\ Accepted(c)
            /\ \A d \in SameKey(c) : want[d].actor = want[c].actor
            /\ jobs[j].status = "ended"
            /\ <<want[c].actor, j>> \notin confirmed
            => j \in Unread(want[c].actor)

\* Clients that send their requests again get their answers in the end, also
\* when the commit succeeded and its reply was lost; a body that lists a
\* channel twice is the exception.
RetriedIsAnswered ==
    <>(\A c \in Clients : reply[c].status # "none" \/ ListedTwice(want[c].input))
==============================================================================
