---------------------------- MODULE AdminAPIProofs ----------------------------
(***************************************************************************)
(* Theorems about AdminAPI, for any clients and wishes, any allowlist and  *)
(* limits, and any number of failures.                                     *)
(***************************************************************************)
EXTENDS AdminAPI, FiniteSetTheorems, TLAPS

------------------------------------------------------------------------------
(* Types.                                                                  *)

Keys == {w[c].key : w \in Wishes, c \in Clients}
Inputs == {w[c].input : w \in Wishes, c \in Clients}

Rows == [key : Keys, by : Actors, sources : {Sources(i) : i \in Inputs},
        range : {i.range : i \in Inputs}, limit : {Limit(i) : i \in Inputs},
        status : {"queued", "ended"}, acked : BOOLEAN]

Handler == [pc : {"idle", "insert", "sources", "get", "lookup", "answer"},
            listening : BOOLEAN, job : Nat]

TypeInv ==
    /\ want \in Wishes
    /\ handlers \in [Handlers -> Handler]
    /\ DOMAIN jobs \in SUBSET (Nat \ {0}) /\ IsFiniteSet(DOMAIN jobs)
    /\ jobs \in [DOMAIN jobs -> Rows]
    /\ reply \in [Clients -> [status : {"none", "rejected", "accepted"}, job : Nat]]

\* Some number is not in use yet: FreshID gives one.
LEMMA FreshIDIsFresh ==
    ASSUME TypeInv
    PROVE  /\ FreshID \in Nat \ {0} /\ FreshID \notin DOMAIN jobs
           /\ \A g \in Handlers : handlers[g].job # FreshID
<1> DEFINE given == {handlers[g].job : g \in Handlers}
           used == DOMAIN jobs \union given
           last == Cardinality(DOMAIN jobs) + Cardinality(Handlers) + 1
<1>1. IsFiniteSet({1, 2})
  <2>1. IsFiniteSet({1}) /\ {1, 2} = {1} \union {2}
    BY FS_Singleton
  <2>2. IsFiniteSet({1} \union {2})
    BY <2>1, FS_AddElement
  <2> QED BY <2>1, <2>2
<1>2. IsFiniteSet(Handlers) /\ Cardinality(Handlers) \in Nat
  BY <1>1, AdminAssumption, FS_Product, FS_CardinalityType DEF Handlers
<1>3. IsFiniteSet(given) /\ Cardinality(given) <= Cardinality(Handlers)
  <2> DEFINE f == [g \in Handlers |-> handlers[g].job]
  <2>1. f \in Surjection(Handlers, given)
    BY DEF Surjection
  <2> HIDE DEF f, given
  <2> QED BY <1>2, <2>1, FS_Surjection
<1>4. /\ Cardinality(DOMAIN jobs) \in Nat /\ Cardinality(given) \in Nat
      /\ IsFiniteSet(used) /\ Cardinality(used) \in Nat
      /\ Cardinality(DOMAIN jobs \cap given) \in Nat
      /\ Cardinality(used) = Cardinality(DOMAIN jobs) + Cardinality(given)
                             - Cardinality(DOMAIN jobs \cap given)
  BY <1>3, FS_CardinalityType, FS_Union, FS_Intersection DEF TypeInv
<1>5. last \in Nat /\ Cardinality(used) < last
  BY <1>2, <1>3, <1>4
<1>6. Cardinality(1..last) = last
  BY <1>5, FS_Interval
<1>7. ~ (1..last \subseteq used)
  <2> HIDE DEF used, last
  <2> SUFFICES ASSUME 1..last \subseteq used PROVE FALSE
    OBVIOUS
  <2>1. Cardinality(1..last) <= Cardinality(used)
    BY <1>4, FS_Subset
  <2> QED BY <1>4, <1>5, <1>6, <2>1
<1>8. \E n \in 1..last : n \notin DOMAIN jobs /\ \A g \in Handlers : handlers[g].job # n
  BY <1>7
<1>9. /\ FreshID \in 1..last /\ FreshID \notin DOMAIN jobs
      /\ \A g \in Handlers : handlers[g].job # FreshID
  BY <1>8 DEF FreshID
<1> QED BY <1>5, <1>9

LEMMA WishTypes ==
    ASSUME TypeInv
    PROVE  \A c \in Clients : /\ want[c].key \in Keys /\ want[c].input \in Inputs
                              /\ want[c].actor \in Actors
  BY AdminAssumption DEF TypeInv, Keys, Inputs


\* What InsertSources commits: a row of the wish and no other change.
LEMMA WithStep ==
    ASSUME TypeInv, NEW h \in Handlers, NEW row, jobs' = With(h, row),
           handlers[h].job \notin DOMAIN jobs
    PROVE  /\ DOMAIN jobs' = DOMAIN jobs \union {handlers[h].job}
           /\ jobs'[handlers[h].job] = row
           /\ \A j \in DOMAIN jobs : jobs'[j] = jobs[j]
           /\ jobs' = [j \in DOMAIN jobs' |-> jobs'[j]]
  BY DEF With

------------------------------------------------------------------------------
(* The invariant.  That two answers under one key agree is not inductive:  *)
(* it holds because a key is stored once, and a key is stored once because *)
(* the transactions in progress exclude each other and the stored ones.    *)

\* A row is what somebody wished for, and a wish that is valid.
RowsAreWishes ==
    \A j \in DOMAIN jobs : \E d \in Clients :
        /\ jobs[j].key = want[d].key /\ jobs[j].by = want[d].actor
        /\ jobs[j].sources = Sources(want[d].input)
        /\ jobs[j].range = want[d].input.range /\ jobs[j].limit = Limit(want[d].input)
        /\ Valid(want[d].input)

KeysAreUnique == \A i, j \in DOMAIN jobs : jobs[i].key = jobs[j].key => i = j

\* A transaction in progress has its key and its id for itself.
TransactionsExclude ==
    /\ \A h \in Handlers : pc(h) = "sources" =>
          handlers[h].job \notin DOMAIN jobs /\ handlers[h].job # 0 /\ ~KeyTaken(Wish(h).key)
    /\ \A g, h \in Handlers : pc(g) = "sources" /\ pc(h) = "sources" /\ g # h =>
          Wish(g).key # Wish(h).key /\ handlers[g].job # handlers[h].job

\* j is the job of the key k.
Holds(j, k) == j \in DOMAIN jobs /\ jobs[j].key = k

HandlersAreSound ==
    \A h \in Handlers :
        /\ pc(h) # "idle" => Valid(Wish(h).input)
        /\ pc(h) \in {"get", "answer"} => Holds(handlers[h].job, Wish(h).key)

RepliesAreSound == \A c \in Clients : Accepted(c) => Holds(reply[c].job, want[c].key)

AcksAreConfirmed == \A j \in DOMAIN jobs : jobs[j].acked => <<jobs[j].by, j>> \in confirmed

Inv ==
    /\ TypeInv
    /\ RowsAreWishes /\ KeysAreUnique /\ TransactionsExclude
    /\ HandlersAreSound /\ RepliesAreSound /\ AcksAreConfirmed

LEMMA InvInit == Init => Inv
<1> SUFFICES ASSUME Init PROVE Inv
  OBVIOUS
<1>1. DOMAIN jobs = {} /\ IsFiniteSet(DOMAIN jobs) /\ jobs \in [DOMAIN jobs -> Rows]
  BY FS_EmptySet DEF Init
<1>2. handlers \in [Handlers -> Handler] /\ \A h \in Handlers : pc(h) = "idle"
  BY DEF Init, Idle, Handler, pc
<1>3. TypeInv /\ \A c \in Clients : reply[c].status = "none"
  BY <1>1, <1>2 DEF Init, TypeInv
<1> QED BY <1>1, <1>2, <1>3 DEF Inv, RowsAreWishes, KeysAreUnique, TransactionsExclude,
             HandlersAreSound, RepliesAreSound, AcksAreConfirmed, Accepted

\* A step of one handler that leaves the rows alone.  It keeps the invariant if
\* what the handler holds afterwards is its own or stored.
LEMMA HandlerStep ==
    ASSUME Inv, NEW h \in Handlers, NEW v \in Handler,
           handlers' = [handlers EXCEPT ![h] = v], UNCHANGED <<want, jobs, confirmed>>,
           v.pc # "idle" => Valid(Wish(h).input),
           v.pc \in {"get", "answer"} => Holds(v.job, Wish(h).key),
           v.pc = "sources" =>
               \/ pc(h) = "sources" /\ v.job = handlers[h].job
               \/ /\ v.job \notin DOMAIN jobs /\ v.job # 0
                  /\ \A g \in Handlers : handlers[g].job # v.job
                  /\ ~KeyLocked(Wish(h).key) /\ ~KeyTaken(Wish(h).key),
           reply' \in [Clients -> [status : {"none", "rejected", "accepted"}, job : Nat]],
           \A c \in Clients : Accepted(c)' => \/ Accepted(c) /\ reply'[c] = reply[c]
                                              \/ Holds(reply'[c].job, want[c].key)
    PROVE  Inv'
<1> USE DEF Inv, pc, Wish
<1>1. TypeInv'
  BY DEF TypeInv
<1>2. RowsAreWishes' /\ KeysAreUnique' /\ AcksAreConfirmed'
  BY DEF RowsAreWishes, KeysAreUnique, AcksAreConfirmed
<1>3. \A g \in Handlers : handlers'[g] = IF g = h THEN v ELSE handlers[g]
  BY DEF TypeInv
<1>4. TransactionsExclude'
  <2>1. \A k : KeyTaken(k)' <=> KeyTaken(k)
    BY DEF KeyTaken
  <2>2. ASSUME NEW g \in Handlers, pc(g)' = "sources"
        PROVE  (handlers[g].job \notin DOMAIN jobs /\ handlers[g].job # 0 /\ ~KeyTaken(Wish(g).key))'
    BY <1>3, <2>1, <2>2 DEF TransactionsExclude
  <2>3. ASSUME NEW g \in Handlers, NEW f \in Handlers, pc(g)' = "sources", pc(f)' = "sources", g # f
        PROVE  (Wish(g).key # Wish(f).key /\ handlers[g].job # handlers[f].job)'
    BY <1>3, <2>3 DEF TransactionsExclude, KeyLocked
  <2> QED BY <2>2, <2>3 DEF TransactionsExclude
<1>5. HandlersAreSound'
  BY <1>3 DEF HandlersAreSound, Holds
<1>6. RepliesAreSound'
  BY DEF RepliesAreSound, Accepted, Holds
<1> QED BY <1>1, <1>2, <1>4, <1>5, <1>6

\* A step that touches neither rows nor answers, for HandlerStep.
LEMMA QuietStep ==
    ASSUME Inv, NEW h \in Handlers, NEW v \in Handler,
           handlers' = [handlers EXCEPT ![h] = v], UNCHANGED <<want, jobs, reply, confirmed>>,
           v.pc # "idle" => Valid(Wish(h).input),
           v.pc \in {"get", "answer"} => Holds(v.job, Wish(h).key),
           v.pc = "sources" =>
               \/ pc(h) = "sources" /\ v.job = handlers[h].job
               \/ /\ v.job \notin DOMAIN jobs /\ v.job # 0
                  /\ \A g \in Handlers : handlers[g].job # v.job
                  /\ ~KeyLocked(Wish(h).key) /\ ~KeyTaken(Wish(h).key)
    PROVE  Inv'
<1>1. reply' \in [Clients -> [status : {"none", "rejected", "accepted"}, job : Nat]]
  BY DEF Inv, TypeInv
<1>2. \A c \in Clients : Accepted(c)' => Accepted(c) /\ reply'[c] = reply[c]
  BY DEF Accepted
<1> QED BY <1>1, <1>2, HandlerStep

LEMMA IdleIsHandler == Idle \in Handler /\ Idle.pc = "idle"
  BY DEF Idle, Handler

LEMMA SendStep == ASSUME Inv, NEW h \in Handlers, Send(h) PROVE Inv'
<1>1. h[1] \in Clients
  BY DEF Handlers
<1>2. CASE Valid(want[h[1]].input)
  <2> DEFINE v == [pc |-> "insert", listening |-> TRUE, job |-> 0]
  <2>1. v \in Handler /\ v.pc = "insert"
    BY DEF Handler
  <2>2. handlers' = [handlers EXCEPT ![h] = v] /\ UNCHANGED <<want, jobs, reply, confirmed>>
    BY <1>2 DEF Send
  <2> HIDE DEF v
  <2> QED BY <1>2, <2>1, <2>2, QuietStep DEF Wish
<1>3. CASE ~Valid(want[h[1]].input)
  <2> DEFINE c == h[1]
  <2>1. reply' = [reply EXCEPT ![c].status = "rejected"] /\ UNCHANGED <<want, handlers, jobs, confirmed>>
    BY <1>3 DEF Send
  <2>2. /\ handlers[h] \in Handler /\ handlers' = [handlers EXCEPT ![h] = handlers[h]]
        /\ reply' \in [Clients -> [status : {"none", "rejected", "accepted"}, job : Nat]]
    BY <1>1, <2>1 DEF Inv, TypeInv
  <2>3. \A d \in Clients : Accepted(d)' => Accepted(d) /\ reply'[d] = reply[d]
    BY <1>1, <2>1 DEF Inv, TypeInv, Accepted
  <2> QED BY <2>1, <2>2, <2>3, HandlerStep DEF Inv, HandlersAreSound, pc
<1> QED BY <1>2, <1>3

LEMMA InsertJobStep == ASSUME Inv, NEW h \in Handlers, InsertJob(h) PROVE Inv'
<1> DEFINE v == [handlers[h] EXCEPT
                     !.pc = IF KeyTaken(Wish(h).key) THEN "lookup" ELSE "sources",
                     !.job = IF KeyTaken(Wish(h).key) THEN 0 ELSE FreshID]
<1>1. handlers[h] \in Handler
  BY DEF Inv, TypeInv
<1>2. TypeInv /\ FreshID \in Nat
  BY FreshIDIsFresh DEF Inv
<1>3. v \in Handler /\ v.pc \in {"lookup", "sources"}
  BY <1>1, <1>2 DEF Handler
<1>4. v.pc = "sources" => v.job = FreshID /\ ~KeyTaken(Wish(h).key)
  BY <1>1 DEF Handler
<1>5. handlers' = [handlers EXCEPT ![h] = v] /\ UNCHANGED <<want, jobs, reply, confirmed>>
  BY <1>2 DEF InsertJob, TypeInv
<1>6. Valid(Wish(h).input) /\ ~KeyLocked(Wish(h).key)
  BY DEF InsertJob, Inv, HandlersAreSound
<1> HIDE DEF v
<1> QED BY <1>2, <1>3, <1>4, <1>5, <1>6, FreshIDIsFresh, QuietStep

\* A transaction that ends without a commit.
LEMMA IdleStep ==
    ASSUME Inv, NEW h \in Handlers, handlers' = [handlers EXCEPT ![h] = Idle],
           UNCHANGED <<want, jobs, reply, confirmed>>
    PROVE  Inv'
  BY IdleIsHandler, QuietStep

LEMMA LookupStep == ASSUME Inv, NEW h \in Handlers, GetByIdempotency(h) PROVE Inv'
<1>1. PICK j \in DOMAIN jobs :
          /\ jobs[j].key = Wish(h).key
          /\ handlers' = [handlers EXCEPT ![h].pc = "answer", ![h].job = j]
  BY DEF GetByIdempotency
<1> DEFINE v == [handlers[h] EXCEPT !.pc = "answer", !.job = j]
<1>2. handlers[h] \in Handler /\ j \in Nat
  BY DEF Inv, TypeInv
<1>3. v \in Handler /\ v.pc = "answer" /\ v.job = j
  BY <1>2 DEF Handler
<1>4. handlers' = [handlers EXCEPT ![h] = v] /\ UNCHANGED <<want, jobs, reply, confirmed>>
  BY <1>1 DEF GetByIdempotency, Inv, TypeInv
<1>5. Valid(Wish(h).input)
  BY DEF GetByIdempotency, Inv, HandlersAreSound
<1> HIDE DEF v
<1> QED BY <1>1, <1>3, <1>4, <1>5, QuietStep DEF Holds

LEMMA GetStep == ASSUME Inv, NEW h \in Handlers, Get(h) PROVE Inv'
<1> DEFINE v == [handlers[h] EXCEPT !.pc = "answer"]
<1>1. handlers[h] \in Handler
  BY DEF Inv, TypeInv
<1>2. v \in Handler /\ v.pc = "answer" /\ v.job = handlers[h].job
  BY <1>1 DEF Handler
<1>3. handlers' = [handlers EXCEPT ![h] = v] /\ UNCHANGED <<want, jobs, reply, confirmed>>
  BY DEF Get, Inv, TypeInv
<1>4. Valid(Wish(h).input) /\ Holds(handlers[h].job, Wish(h).key)
  BY DEF Get, Inv, HandlersAreSound
<1> HIDE DEF v
<1> QED BY <1>2, <1>3, <1>4, QuietStep

LEMMA GiveUpStep == ASSUME Inv, NEW h \in Handlers, GiveUp(h) PROVE Inv'
<1> DEFINE v == [handlers[h] EXCEPT !.listening = FALSE]
<1>1. handlers[h] \in Handler
  BY DEF Inv, TypeInv
<1>2. v \in Handler /\ v.pc = pc(h) /\ v.job = handlers[h].job
  BY <1>1 DEF Handler, pc
<1>3. handlers' = [handlers EXCEPT ![h] = v] /\ UNCHANGED <<want, jobs, reply, confirmed>>
  BY DEF GiveUp, Inv, TypeInv
<1> HIDE DEF v
<1> QED BY <1>2, <1>3, QuietStep DEF Inv, HandlersAreSound

LEMMA AnswerStep == ASSUME Inv, NEW h \in Handlers, Answer(h) PROVE Inv'
<1>1. h[1] \in Clients /\ handlers[h].job \in Nat /\ Holds(handlers[h].job, Wish(h).key)
  BY DEF Handlers, Answer, Inv, TypeInv, HandlersAreSound, Handler
<1>2. CASE handlers[h].listening
  <2>1. reply' = [reply EXCEPT ![h[1]] = [status |-> "accepted", job |-> handlers[h].job]]
    BY <1>2 DEF Answer
  <2>2. reply' \in [Clients -> [status : {"none", "rejected", "accepted"}, job : Nat]]
    BY <1>1, <2>1 DEF Inv, TypeInv
  <2>3. \A c \in Clients : Accepted(c)' => \/ Accepted(c) /\ reply'[c] = reply[c]
                                           \/ Holds(reply'[c].job, want[c].key)
    BY <1>1, <2>1 DEF Inv, TypeInv, Accepted, Wish
  <2> QED BY <2>2, <2>3, IdleIsHandler, HandlerStep DEF Answer
<1>3. CASE ~handlers[h].listening
  BY <1>3, IdleStep DEF Answer
<1> QED BY <1>2, <1>3

\* The commit of InsertSources.
LEMMA CommitStep ==
    ASSUME Inv, NEW h \in Handlers, InsertSources(h)
    PROVE  Inv'
<1> DEFINE id == handlers[h].job
           w == want[h[1]]
<1>1. /\ pc(h) = "sources" /\ id \notin DOMAIN jobs /\ id \in Nat \ {0} /\ h[1] \in Clients
      /\ ~KeyTaken(w.key) /\ Valid(w.input) /\ handlers[h] \in Handler
  BY DEF InsertSources, Inv, TransactionsExclude, HandlersAreSound, TypeInv, Handler, Handlers, pc, Wish
<1>2. PICK v \in Handler :
          /\ handlers' = [handlers EXCEPT ![h] = v]
          /\ (v.pc = "get" /\ v.job = id) \/ v.pc = "idle"
  <2> DEFINE g == [handlers[h] EXCEPT !.pc = "get"]
  <2>1. CASE handlers' = [handlers EXCEPT ![h].pc = "get"]
    <3>1. g \in Handler /\ g.pc = "get" /\ g.job = id
      BY <1>1 DEF Handler
    <3>2. handlers' = [handlers EXCEPT ![h] = g]
      BY <2>1 DEF Inv, TypeInv
    <3> HIDE DEF g
    <3> QED BY <3>1, <3>2
  <2>2. CASE handlers' = [handlers EXCEPT ![h] = Idle]
    BY <2>2, IdleIsHandler
  <2> QED BY <2>1, <2>2 DEF InsertSources
<1>3. /\ DOMAIN jobs' = DOMAIN jobs \union {id} /\ jobs'[id] = Row(h)
      /\ \A j \in DOMAIN jobs : jobs'[j] = jobs[j]
      /\ jobs' = [j \in DOMAIN jobs' |-> jobs'[j]]
      /\ UNCHANGED <<want, reply, confirmed>>
  BY <1>1, WithStep DEF InsertSources, Inv
<1>4. /\ Row(h).key = w.key /\ Row(h).by = w.actor /\ Row(h).sources = Sources(w.input)
      /\ Row(h).range = w.input.range /\ Row(h).limit = Limit(w.input) /\ Row(h).acked = FALSE
  BY DEF Row, Wish
<1>5. Row(h) \in Rows
  BY <1>1, WishTypes DEF Row, Rows, Wish, Inv
<1>6. \A g \in Handlers : handlers'[g] = IF g = h THEN v ELSE handlers[g]
  BY <1>2 DEF Inv, TypeInv
<1>7. ASSUME NEW j \in DOMAIN jobs' PROVE j = id \/ (j \in DOMAIN jobs /\ j # id)
  BY <1>1, <1>3
<1> HIDE DEF id, w
<1>8. TypeInv'
  <2>1. IsFiniteSet(DOMAIN jobs') /\ DOMAIN jobs' \in SUBSET (Nat \ {0})
    BY <1>1, <1>3, FS_AddElement DEF Inv, TypeInv
  <2>2. \A j \in DOMAIN jobs' : jobs'[j] \in Rows
    BY <1>3, <1>5, <1>7 DEF Inv, TypeInv
  <2>3. jobs' \in [DOMAIN jobs' -> Rows]
    BY <1>3, <2>2
  <2> QED BY <1>2, <1>3, <2>1, <2>3 DEF Inv, TypeInv
<1>9. RowsAreWishes'
  BY <1>1, <1>3, <1>4, <1>7 DEF Inv, RowsAreWishes, w
<1>10. KeysAreUnique'
  BY <1>1, <1>3, <1>4, <1>7 DEF Inv, KeysAreUnique, KeyTaken
<1>11. AcksAreConfirmed'
  BY <1>3, <1>4, <1>7 DEF Inv, AcksAreConfirmed
<1>12. TransactionsExclude'
  <2>1. ASSUME NEW g \in Handlers, pc(g)' = "sources"
        PROVE  /\ g # h /\ pc(g) = "sources" /\ handlers'[g] = handlers[g]
               /\ Wish(g).key # w.key /\ handlers[g].job # id
    BY <1>1, <1>2, <1>6, <2>1 DEF Inv, TransactionsExclude, pc, id, w, Wish
  <2>2. ASSUME NEW g \in Handlers, pc(g)' = "sources"
        PROVE  (handlers[g].job \notin DOMAIN jobs /\ handlers[g].job # 0 /\ ~KeyTaken(Wish(g).key))'
    BY <1>3, <1>4, <1>7, <2>1, <2>2 DEF Inv, TransactionsExclude, KeyTaken, Wish
  <2>3. ASSUME NEW g \in Handlers, NEW f \in Handlers, pc(g)' = "sources", pc(f)' = "sources", g # f
        PROVE  (Wish(g).key # Wish(f).key /\ handlers[g].job # handlers[f].job)'
    BY <1>3, <2>1, <2>3 DEF Inv, TransactionsExclude, Wish
  <2> QED BY <2>2, <2>3 DEF TransactionsExclude
<1>13. \A j, k : Holds(j, k) => Holds(j, k)'
  BY <1>3 DEF Holds
<1>14. HandlersAreSound'
  <2>1. \A g \in Handlers \ {h} :
            /\ pc(g)' # "idle" => Valid(Wish(g).input)'
            /\ pc(g)' \in {"get", "answer"} => Holds(handlers[g].job, Wish(g).key)'
    BY <1>3, <1>6, <1>13 DEF Inv, HandlersAreSound, pc, Wish
  <2>2. id \in DOMAIN jobs' /\ jobs'[id].key = w.key
    BY <1>3, <1>4
  <2>3. /\ pc(h)' # "idle" => Valid(Wish(h).input)'
        /\ pc(h)' \in {"get", "answer"} => Holds(handlers[h].job, Wish(h).key)'
    BY <1>1, <1>2, <1>3, <1>6, <2>2 DEF pc, Wish, Holds, id, w
  <2> QED BY <2>1, <2>3 DEF HandlersAreSound
<1>15. RepliesAreSound'
  BY <1>3, <1>13 DEF Inv, RepliesAreSound, Accepted
<1> QED BY <1>8, <1>9, <1>10, <1>11, <1>12, <1>14, <1>15 DEF Inv

\* A step that changes the status or the acknowledgement of one row only.
LEMMA RowStep ==
    ASSUME Inv, NEW j \in DOMAIN jobs, NEW row \in Rows, jobs' = [jobs EXCEPT ![j] = row],
           row.key = jobs[j].key, row.by = jobs[j].by, row.sources = jobs[j].sources,
           row.range = jobs[j].range, row.limit = jobs[j].limit,
           confirmed \subseteq confirmed',
           row.acked => jobs[j].acked \/ <<row.by, j>> \in confirmed',
           UNCHANGED <<want, handlers, reply>>
    PROVE  Inv'
<1>1. /\ DOMAIN jobs' = DOMAIN jobs /\ jobs' \in [DOMAIN jobs' -> Rows]
      /\ \A i \in DOMAIN jobs : jobs'[i] = IF i = j THEN row ELSE jobs[i]
  BY DEF Inv, TypeInv
<1>2. \A i \in DOMAIN jobs : /\ jobs'[i].key = jobs[i].key /\ jobs'[i].by = jobs[i].by
                             /\ jobs'[i].sources = jobs[i].sources
                             /\ jobs'[i].range = jobs[i].range /\ jobs'[i].limit = jobs[i].limit
  BY <1>1
<1>3. \A i, k : Holds(i, k) <=> Holds(i, k)'
  BY <1>1, <1>2 DEF Holds
<1>4. \A k : KeyTaken(k) <=> KeyTaken(k)'
  BY <1>1, <1>2 DEF KeyTaken
<1>5. TypeInv'
  BY <1>1 DEF Inv, TypeInv
<1>6. RowsAreWishes'
  BY <1>1, <1>2 DEF Inv, RowsAreWishes
<1>7. KeysAreUnique'
  BY <1>1, <1>2 DEF Inv, KeysAreUnique
<1>8. TransactionsExclude'
  BY <1>1, <1>4 DEF Inv, TransactionsExclude, pc, Wish
<1>9. HandlersAreSound' /\ RepliesAreSound'
  BY <1>3 DEF Inv, HandlersAreSound, RepliesAreSound, pc, Wish, Accepted
<1>10. AcksAreConfirmed'
  BY <1>1, <1>2 DEF Inv, AcksAreConfirmed
<1> QED BY <1>5, <1>6, <1>7, <1>8, <1>9, <1>10 DEF Inv

LEMMA FinishStep == ASSUME Inv, NEW j \in DOMAIN jobs, FinishJob(j) PROVE Inv'
<1> DEFINE row == [jobs[j] EXCEPT !.status = "ended"]
<1>1. jobs[j] \in Rows
  BY DEF Inv, TypeInv
<1>2. /\ row \in Rows /\ row.key = jobs[j].key /\ row.by = jobs[j].by
      /\ row.sources = jobs[j].sources /\ row.range = jobs[j].range
      /\ row.limit = jobs[j].limit /\ row.acked = jobs[j].acked
  BY <1>1 DEF Rows
<1>3. /\ jobs' = [jobs EXCEPT ![j] = row] /\ UNCHANGED <<want, handlers, reply>>
      /\ confirmed \subseteq confirmed'
  BY DEF FinishJob, Inv, TypeInv
<1> HIDE DEF row
<1> QED BY <1>2, <1>3, RowStep

LEMMA AckStep ==
    ASSUME Inv, NEW j \in DOMAIN jobs, NEW a \in Actors, Acknowledge(a, j) PROVE Inv'
<1> DEFINE row == [jobs[j] EXCEPT !.acked = TRUE]
<1>1. jobs[j] \in Rows /\ jobs[j].by = a
  BY DEF Inv, TypeInv, Acknowledge
<1>2. /\ row \in Rows /\ row.key = jobs[j].key /\ row.by = jobs[j].by
      /\ row.sources = jobs[j].sources /\ row.range = jobs[j].range
      /\ row.limit = jobs[j].limit
  BY <1>1 DEF Rows
<1>3. /\ jobs' = [jobs EXCEPT ![j] = row] /\ UNCHANGED <<want, handlers, reply>>
      /\ confirmed \subseteq confirmed' /\ <<row.by, j>> \in confirmed'
  BY <1>1, <1>2 DEF Acknowledge, Inv, TypeInv
<1> HIDE DEF row
<1> QED BY <1>2, <1>3, RowStep

LEMMA InvStep == Inv /\ [Next]_vars => Inv'
<1> SUFFICES ASSUME Inv, [Next]_vars PROVE Inv'
  OBVIOUS
<1>1. CASE UNCHANGED vars
  BY <1>1 DEF vars, Inv, TypeInv, RowsAreWishes, KeysAreUnique, TransactionsExclude, KeyTaken,
              HandlersAreSound, RepliesAreSound, AcksAreConfirmed, Holds, Accepted, pc, Wish
<1>2. ASSUME NEW h \in Handlers, Send(h) \/ Step(h) \/ Fails(h) \/ GiveUp(h) PROVE Inv'
  <2>1. CASE SourcesCollide(h)
    BY <2>1, IdleStep DEF SourcesCollide
  <2>2. CASE Fails(h)
    BY <2>2, IdleStep DEF Fails
  <2> QED BY <1>2, <2>1, <2>2, SendStep, InsertJobStep, CommitStep, LookupStep, GetStep,
             AnswerStep, GiveUpStep DEF Step
<1>3. ASSUME NEW j \in DOMAIN jobs, FinishJob(j) \/ \E a \in Actors : Acknowledge(a, j) PROVE Inv'
  BY <1>3, FinishStep, AckStep
<1> QED BY <1>1, <1>2, <1>3 DEF Next

LEMMA InvCorrect == Spec => []Inv
<1>1. Init => Inv
  BY InvInit
<1>2. Inv /\ [Next]_vars => Inv'
  BY InvStep
<1> QED BY <1>1, <1>2, PTL DEF Spec

------------------------------------------------------------------------------
(* What the invariant says of jobs and answers.                            *)

LEMMA InputsAreSequences ==
    ASSUME TypeInv, NEW c \in Clients
    PROVE  IsSequence(want[c].input.channels) /\ IsSequence(want[c].input.urls)
  BY AdminAssumption DEF TypeInv

LEMMA SequenceFacts ==
    ASSUME NEW s, IsSequence(s)
    PROVE  /\ Len(s) \in Nat /\ DOMAIN s = 1..Len(s) /\ IsFiniteSet(DOMAIN s)
           /\ s # <<>> => DOMAIN s # {}
<1>1. s \in Seq({s[k] : k \in DOMAIN s})
  BY DEF IsSequence
<1>2. Len(s) \in Nat /\ DOMAIN s = 1..Len(s) /\ (s # <<>> => DOMAIN s # {})
  BY <1>1
<1>3. IsFiniteSet(1..Len(s))
  BY <1>2, FS_Interval
<1> QED BY <1>2, <1>3

\* What a function takes a finite set to is finite.
LEMMA ImageIsFinite ==
    ASSUME NEW S, IsFiniteSet(S), NEW f, DOMAIN f = S
    PROVE  IsFiniteSet({f[x] : x \in S})
<1> DEFINE T == {f[x] : x \in S}
           g == [x \in S |-> f[x]]
<1>1. g \in Surjection(S, T)
  BY DEF Surjection
<1> HIDE DEF g, T
<1>2. IsFiniteSet(T)
  BY <1>1, FS_Surjection
<1> QED BY <1>2 DEF T

\* A body has one source for each channel and for each problem, however they
\* are spelled and however often they are repeated.
LEMMA SourcesAreCounted ==
    ASSUME NEW i, IsSequence(i.channels), IsSequence(i.urls)
    PROVE  Cardinality(Sources(i)) =
               Cardinality({i.channels[k].name : k \in DOMAIN i.channels})
               + Cardinality({<<i.urls[k].site, i.urls[k].id>> : k \in DOMAIN i.urls})
<1> DEFINE names == {i.channels[k].name : k \in DOMAIN i.channels}
           problems == {<<i.urls[k].site, i.urls[k].id>> : k \in DOMAIN i.urls}
           telegram == {<<"telegram", n>> : n \in names}
           website == {<<"website", u>> : u \in problems}
<1>1. IsFiniteSet(DOMAIN i.channels) /\ IsFiniteSet(DOMAIN i.urls)
  BY SequenceFacts
<1>2. IsFiniteSet(names)
  <2> DEFINE f == [k \in DOMAIN i.channels |-> i.channels[k].name]
  <2>1. DOMAIN f = DOMAIN i.channels /\ {f[k] : k \in DOMAIN i.channels} = names
    OBVIOUS
  <2> HIDE DEF f, names
  <2> QED BY <1>1, <2>1, ImageIsFinite
<1>3. IsFiniteSet(problems)
  <2> DEFINE f == [k \in DOMAIN i.urls |-> <<i.urls[k].site, i.urls[k].id>>]
  <2>1. DOMAIN f = DOMAIN i.urls /\ {f[k] : k \in DOMAIN i.urls} = problems
    OBVIOUS
  <2> HIDE DEF f, problems
  <2> QED BY <1>1, <2>1, ImageIsFinite
<1>4. Sources(i) = telegram \union website
  BY DEF Sources, ChannelRows, WebsiteRows, Channel, NormalizeWebsiteURL
<1> HIDE DEF names, problems
<1>5. IsFiniteSet(telegram) /\ Cardinality(telegram) = Cardinality(names)
  <2> DEFINE f == [n \in names |-> <<"telegram", n>>]
  <2>1. /\ \A n \in names : f[n] \in telegram
        /\ \A a, b \in names : f[a] = f[b] => a = b
    OBVIOUS
  <2>2. \A t \in telegram : \E n \in names : f[n] = t
    OBVIOUS
  <2>3. f \in [names -> telegram]
    BY <2>1
  <2> HIDE DEF f, telegram
  <2>4. f \in Injection(names, telegram) /\ f \in Surjection(names, telegram)
    BY <2>1, <2>2, <2>3 DEF Injection, IsInjective, Surjection
  <2>5. f \in Bijection(names, telegram)
    BY <2>4 DEF Bijection
  <2> QED BY <1>2, <2>5, FS_Bijection DEF ExistsBijection
<1>6. IsFiniteSet(website) /\ Cardinality(website) = Cardinality(problems)
  <2> DEFINE f == [u \in problems |-> <<"website", u>>]
  <2>1. /\ \A u \in problems : f[u] \in website
        /\ \A a, b \in problems : f[a] = f[b] => a = b
    OBVIOUS
  <2>2. \A t \in website : \E u \in problems : f[u] = t
    OBVIOUS
  <2>3. f \in [problems -> website]
    BY <2>1
  <2> HIDE DEF f, website
  <2>4. f \in Injection(problems, website) /\ f \in Surjection(problems, website)
    BY <2>1, <2>2, <2>3 DEF Injection, IsInjective, Surjection
  <2>5. f \in Bijection(problems, website)
    BY <2>4 DEF Bijection
  <2> QED BY <1>3, <2>5, FS_Bijection DEF ExistsBijection
<1>7. telegram \cap website = {}
  OBVIOUS
<1>8. Cardinality(telegram \union website) = Cardinality(telegram) + Cardinality(website)
  <2> HIDE DEF telegram, website
  <2>1. Cardinality(telegram \cap website) = 0
    BY <1>7, FS_EmptySet
  <2>2. Cardinality(telegram) \in Nat /\ Cardinality(website) \in Nat
    BY <1>5, <1>6, FS_CardinalityType
  <2>3. Cardinality(telegram \union website) =
            Cardinality(telegram) + Cardinality(website) - Cardinality(telegram \cap website)
    BY <1>5, <1>6, FS_Union
  <2> QED BY <2>1, <2>2, <2>3
<1> QED BY <1>4, <1>5, <1>6, <1>8 DEF names, problems

\* Everybody who is answered 202 under one key is given the same job
\* (CreateManual).
THEOREM AnswersAgreeCorrect == Spec => []AnswersAgree
<1>1. Inv => AnswersAgree
  BY DEF Inv, RepliesAreSound, KeysAreUnique, Holds, AnswersAgree
<1> QED BY <1>1, InvCorrect, PTL

\* The job of a 202 is stored whole, as one of the senders of its key wanted it
\* (createJob, CreateManual).
THEOREM AcceptedIsWantedCorrect == Spec => []AcceptedIsWanted
<1>1. Inv => AcceptedIsWanted
  <2> SUFFICES ASSUME Inv, NEW c \in Clients, Accepted(c)
               PROVE  /\ reply[c].job \in DOMAIN jobs
                      /\ \E d \in SameKey(c) :
                             LET i == want[d].input
                                 j == jobs[reply[c].job]
                             IN  /\ j.by = want[d].actor
                                 /\ j.limit = Limit(i) /\ j.range = i.range
                                 /\ Cardinality(j.sources) =
                                        Cardinality({i.channels[k].name : k \in DOMAIN i.channels})
                                        + Cardinality({<<i.urls[k].site, i.urls[k].id>> :
                                                          k \in DOMAIN i.urls})
    BY DEF AcceptedIsWanted
  <2> DEFINE j == reply[c].job
  <2>1. j \in DOMAIN jobs /\ jobs[j].key = want[c].key
    BY DEF Inv, RepliesAreSound, Holds
  <2>2. PICK d \in Clients :
            /\ jobs[j].key = want[d].key /\ jobs[j].by = want[d].actor
            /\ jobs[j].sources = Sources(want[d].input)
            /\ jobs[j].range = want[d].input.range /\ jobs[j].limit = Limit(want[d].input)
    BY <2>1 DEF Inv, RowsAreWishes
  <2>3. d \in SameKey(c)
    BY <2>1, <2>2 DEF SameKey
  <2>4. IsSequence(want[d].input.channels) /\ IsSequence(want[d].input.urls)
    BY InputsAreSequences DEF Inv
  <2> QED BY <2>1, <2>2, <2>3, <2>4, SourcesAreCounted
<1> QED BY <1>1, InvCorrect, PTL

\* Every job in the queue can be executed: it has a source, a limit within
\* bounds and, if it has a channel, a range (ValidateCreateInput).
THEOREM StoredIsRunnableCorrect == Spec => []StoredIsRunnable
<1>1. Inv => StoredIsRunnable
  <2> SUFFICES ASSUME Inv, NEW j \in DOMAIN jobs
               PROVE  /\ jobs[j].sources # {} /\ jobs[j].limit \in 1..MaxItems
                      /\ (\E s \in jobs[j].sources : s[1] = "telegram") => jobs[j].range = "ordered"
    BY DEF StoredIsRunnable
  <2>1. PICK d \in Clients :
            /\ jobs[j].sources = Sources(want[d].input)
            /\ jobs[j].range = want[d].input.range /\ jobs[j].limit = Limit(want[d].input)
            /\ Valid(want[d].input)
    BY DEF Inv, RowsAreWishes
  <2> DEFINE i == want[d].input
  <2>2. IsSequence(i.channels) /\ IsSequence(i.urls)
    BY InputsAreSequences DEF Inv
  <2>3. i.channels # <<>> => DOMAIN i.channels # {}
    BY <2>2, SequenceFacts
  <2>4. i.urls # <<>> => DOMAIN i.urls # {}
    BY <2>2, SequenceFacts
  <2> HIDE DEF i
  <2>5. Sources(i) # {}
    <3>1. CASE i.channels # <<>>
      BY <2>3, <3>1 DEF Sources
    <3>2. CASE i.urls # <<>>
      <4>1. WebsiteRows(i) # {}
        BY <2>4, <3>2 DEF WebsiteRows
      <4> QED BY <4>1 DEF Sources
    <3> QED BY <2>1, <3>1, <3>2 DEF Valid, i
  <2>6. Limit(i) \in 1..MaxItems
    BY <2>1 DEF Valid, i
  <2>7. ASSUME NEW s \in Sources(i), s[1] = "telegram" PROVE i.range = "ordered"
    <3>1. DOMAIN i.channels # {}
      <4>1. \A u : <<"website", u>>[1] # "telegram"
        OBVIOUS
      <4>2. \A u \in WebsiteRows(i) : s # <<"website", u>>
        BY <2>7, <4>1
      <4> QED BY <2>7, <4>2 DEF Sources
    <3>2. i.channels # <<>>
      BY <3>1
    <3> QED BY <2>1, <3>2 DEF Valid, i
  <2> QED BY <2>1, <2>5, <2>6, <2>7 DEF i
<1> QED BY <1>1, InvCorrect, PTL

\* Who was answered 202 under a key of his own is notified of the end of the
\* job until he has acknowledged it (List, Acknowledge).
THEOREM AcceptedIsNotifiedCorrect == Spec => []AcceptedIsNotified
<1>1. Inv => AcceptedIsNotified
  <2> SUFFICES ASSUME Inv, NEW c \in Clients, Accepted(c),
                      \A d \in SameKey(c) : want[d].actor = want[c].actor,
                      jobs[reply[c].job].status = "ended",
                      <<want[c].actor, reply[c].job>> \notin confirmed
               PROVE  reply[c].job \in Unread(want[c].actor)
    BY DEF AcceptedIsNotified
  <2> DEFINE j == reply[c].job
  <2>1. j \in DOMAIN jobs /\ jobs[j].key = want[c].key
    BY DEF Inv, RepliesAreSound, Holds
  <2>2. jobs[j].by = want[c].actor
    BY <2>1 DEF Inv, RowsAreWishes, SameKey
  <2>3. jobs[j].acked = FALSE
    <3>1. jobs[j] \in Rows
      BY <2>1 DEF Inv, TypeInv
    <3>2. jobs[j].acked \in BOOLEAN
      BY <3>1 DEF Rows
    <3> QED BY <2>1, <2>2, <3>2 DEF Inv, AcksAreConfirmed
  <2> QED BY <2>1, <2>2, <2>3 DEF Unread
<1> QED BY <1>1, InvCorrect, PTL
==============================================================================
