----------------------------- MODULE ParserCycle -----------------------------
(***************************************************************************)
(* A collection cycle of the parser application: RunOnce                   *)
(* (internal/parser/scheduler.go) asks every collector (internal/parser/   *)
(* source) for the problems it has not returned before, runs them through  *)
(* the pipeline and saves what is new (internal/parser/storage).           *)
(*                                                                         *)
(* The cron library starts a cycle on every tick whether or not the last   *)
(* one is over, so cycles overlap: they share the collectors, each with a  *)
(* mutex and the set of problems it has seen, and the table of tasks,      *)
(* which other processes write to as well.  A problem stands for its       *)
(* content: pages that read differently are different problems.            *)
(***************************************************************************)
EXTENDS Naturals

CONSTANTS
    Cycles,      \* slots of cycles: how many may overlap
    Sources, Problems,
    SourceOf,    \* source of each problem
    NoCycle, NoProblem

ASSUME CycleAssumption ==
    /\ SourceOf \in [Problems -> Sources]
    /\ NoCycle \notin Cycles /\ NoProblem \notin Problems

VARIABLES
    ids,      \* the pipeline gives its tasks an ID; NewDefaultPipeline does not
    phase,    \* where each cycle is in RunOnce
    todo,     \* collectors it has still to ask
    listed,   \* problems of the list it walks, not seen before
    raw,      \* raw tasks it has collected and not yet processed
    task,     \* the task it saves
    expired,  \* its 30 minutes are over
    lock,     \* the mutex of each collector
    seen,     \* lastIDs, lastSlugs and lastURLs of the collectors
    stored,   \* source_hash of the rows in tasks
    given,    \* problems given up, with an error that the summary counts or
              \* because the time was over
    dbOpen,
    panicked

shared == <<lock, seen, stored, given>>
cycle == <<phase, todo, listed, raw, task, expired>>
process == <<ids, dbOpen, panicked>>
cycleVars == <<ids, phase, todo, listed, raw, task, expired,
               lock, seen, stored, given, dbOpen, panicked>>

\* What a process starts with.
CycleInit ==
    /\ phase = [c \in Cycles |-> "off"]
    /\ todo = [c \in Cycles |-> {}]
    /\ listed = [c \in Cycles |-> {}]
    /\ raw = [c \in Cycles |-> {}]
    /\ task = [c \in Cycles |-> NoProblem]
    /\ expired = [c \in Cycles |-> FALSE]
    /\ lock = [s \in Sources |-> NoCycle]
    /\ seen = {} /\ given = {}
    /\ dbOpen = FALSE /\ panicked = FALSE

CycleReset ==
    /\ phase' = [c \in Cycles |-> "off"]
    /\ todo' = [c \in Cycles |-> {}]
    /\ listed' = [c \in Cycles |-> {}]
    /\ raw' = [c \in Cycles |-> {}]
    /\ task' = [c \in Cycles |-> NoProblem]
    /\ expired' = [c \in Cycles |-> FALSE]
    /\ lock' = [s \in Sources |-> NoCycle]
    /\ seen' = {} /\ given' = {}
    /\ dbOpen' = FALSE /\ panicked' = FALSE

Running(c) == phase[c] # "off"
At(c, p) == phase[c] = p /\ ~panicked
GoTo(c, p) == phase' = [phase EXCEPT ![c] = p]
Held(c) == raw[c] \union ({task[c]} \ {NoProblem})

------------------------------------------------------------------------------
(* CollectAll and the Collect of a collector.                              *)

\* The callback of a tick, with a context of 30 minutes.
StartCycle(c) ==
    /\ At(c, "off")
    /\ GoTo(c, "collect")
    /\ todo' = [todo EXCEPT ![c] = Sources]
    /\ expired' = [expired EXCEPT ![c] = FALSE]
    /\ UNCHANGED <<listed, raw, task, shared, process>>

\* Mutant of Lock: Collect does not take the mutex.
LockNone(c, s) ==
    /\ At(c, "collect") /\ s \in todo[c]
    /\ lock' = [lock EXCEPT ![s] = c]
    /\ todo' = [todo EXCEPT ![c] = @ \ {s}]
    /\ GoTo(c, "list")
    /\ UNCHANGED <<listed, raw, task, expired, seen, stored, given, process>>

\* The collectors are asked one after the other, in the order of a Go map.
Lock(c, s) ==
    /\ At(c, "collect") /\ s \in todo[c] /\ lock[s] = NoCycle
    /\ lock' = [lock EXCEPT ![s] = c]
    /\ todo' = [todo EXCEPT ![c] = @ \ {s}]
    /\ GoTo(c, "list")
    /\ UNCHANGED <<listed, raw, task, expired, seen, stored, given, process>>

Unlock(c, s) ==
    /\ lock' = [lock EXCEPT ![s] = NoCycle]
    /\ GoTo(c, "collect")
    /\ UNCHANGED <<todo, raw, task, expired, seen, stored, given, process>>

\* The list, which may leave problems out, without those already seen.
List(c, s) ==
    /\ At(c, "list") /\ lock[s] = c /\ ~expired[c]
    /\ \E L \in SUBSET {p \in Problems : SourceOf[p] = s} :
           listed' = [listed EXCEPT ![c] = L \ seen]
    /\ GoTo(c, "fetch")
    /\ UNCHANGED <<todo, raw, task, expired, shared, process>>

\* Mutant of ListFails: returns the error without unlocking.
ListFailsLocked(c, s) ==
    /\ At(c, "list") /\ lock[s] = c
    /\ GoTo(c, "collect")
    /\ UNCHANGED <<todo, listed, raw, task, expired, shared, process>>

\* Collect returns the error; the other collectors are asked all the same.
ListFails(c, s) ==
    /\ At(c, "list") /\ lock[s] = c
    /\ Unlock(c, s)
    /\ UNCHANGED listed

\* A page: the problem is seen as soon as it is read.
Fetch(c, p) ==
    /\ At(c, "fetch") /\ p \in listed[c] /\ ~expired[c]
    /\ listed' = [listed EXCEPT ![c] = @ \ {p}]
    /\ raw' = [raw EXCEPT ![c] = @ \union {p}]
    /\ seen' = seen \union {p}
    /\ UNCHANGED <<phase, todo, task, expired, lock, stored, given, process>>

\* Mutant of FetchFails: the problem was marked as seen before its page was read.
FetchFailsSeen(c, p) ==
    /\ At(c, "fetch") /\ p \in listed[c]
    /\ listed' = [listed EXCEPT ![c] = @ \ {p}]
    /\ seen' = seen \union {p}
    /\ UNCHANGED <<phase, todo, raw, task, expired, lock, stored, given, process>>

\* No page, or one without a problem: a line in the log, and a later cycle
\* tries again.
FetchFails(c, p) ==
    /\ At(c, "fetch") /\ p \in listed[c]
    /\ listed' = [listed EXCEPT ![c] = @ \ {p}]
    /\ UNCHANGED <<phase, todo, raw, task, expired, shared, process>>

Collected(c, s) ==
    /\ At(c, "fetch") /\ lock[s] = c /\ listed[c] = {}
    /\ Unlock(c, s)
    /\ UNCHANGED listed

------------------------------------------------------------------------------
(* The pipeline and SaveIfNotDuplicate.                                    *)

CollectEnds(c) ==
    /\ At(c, "collect") /\ todo[c] = {}
    /\ GoTo(c, "process")
    /\ UNCHANGED <<todo, listed, raw, task, expired, shared, process>>

Take(c, p) ==
    /\ At(c, "process") /\ p \in raw[c] /\ ~expired[c]
    /\ raw' = [raw EXCEPT ![c] = @ \ {p}]

\* The pipeline accepts the task.
Accept(c, p) ==
    /\ Take(c, p)
    /\ task' = [task EXCEPT ![c] = p]
    /\ GoTo(c, "find")
    /\ UNCHANGED <<todo, listed, expired, shared, process>>

\* The pipeline refuses it.
Refuse(c, p) ==
    /\ Take(c, p)
    /\ given' = given \union {p}
    /\ UNCHANGED <<phase, todo, listed, task, expired, lock, seen, stored, process>>

\* The context is looked at before each task; the rest is left.
BreakOff(c) ==
    /\ At(c, "process") /\ raw[c] # {} /\ expired[c]
    /\ given' = given \union raw[c]
    /\ raw' = [raw EXCEPT ![c] = {}]
    /\ UNCHANGED <<phase, todo, listed, task, expired, lock, seen, stored, process>>

EndCycle(c) ==
    /\ At(c, "process") /\ raw[c] = {}
    /\ GoTo(c, "off")
    /\ expired' = [expired EXCEPT ![c] = FALSE]
    /\ UNCHANGED <<todo, listed, raw, task, shared, process>>

\* Back to the loop of RunOnce, with a task stored or an error counted.
Settle(c) ==
    /\ task' = [task EXCEPT ![c] = NoProblem]
    /\ GoTo(c, "process")
    /\ UNCHANGED <<todo, listed, raw, expired, lock, seen, process>>

CountError(c) == given' = given \union {task[c]}

\* The database answers only before its pool is closed and within the context.
Answers(c) == dbOpen /\ ~expired[c]

FindDuplicate(c) ==
    /\ At(c, "find") /\ Answers(c) /\ task[c] \in stored
    /\ Settle(c)
    /\ UNCHANGED <<stored, given>>

FindNothing(c) ==
    /\ At(c, "find") /\ Answers(c) /\ task[c] \notin stored
    /\ GoTo(c, "save")
    /\ UNCHANGED <<todo, listed, raw, task, expired, shared, process>>

FindFails(c) ==
    /\ At(c, "find")
    /\ Settle(c) /\ CountError(c)
    /\ UNCHANGED stored

\* One transaction; source_hash is UNIQUE.
Save(c) ==
    /\ At(c, "save") /\ ids /\ Answers(c) /\ task[c] \notin stored
    /\ Settle(c)
    /\ stored' = stored \union {task[c]}
    /\ UNCHANGED given

\* A statement fails, on the row another cycle or process has written since
\* FindNothing or for a reason of its own; or the answer to the commit is lost.
SaveFails(c) ==
    /\ At(c, "save") /\ ids
    /\ Settle(c) /\ CountError(c)
    /\ \/ UNCHANGED stored
       \/ dbOpen /\ stored' = stored \union {task[c]}

\* uuid.MustParse panics on the empty ID of a task, in a goroutine of the cron
\* library, which does not recover: the process is gone.
SavePanics(c) ==
    /\ At(c, "save") /\ ~ids
    /\ panicked' = TRUE
    /\ UNCHANGED <<cycle, shared, ids, dbOpen>>

------------------------------------------------------------------------------

Expires(c) ==
    /\ Running(c) /\ ~expired[c] /\ ~panicked
    /\ expired' = [expired EXCEPT ![c] = TRUE]
    /\ UNCHANGED <<phase, todo, listed, raw, task, shared, process>>

\* Another process writes to the table of tasks.
OthersSave(p) ==
    /\ p \notin stored
    /\ stored' = stored \union {p}
    /\ UNCHANGED <<cycle, lock, seen, given, process>>

SaveStep(c) ==
    \/ FindDuplicate(c) \/ FindNothing(c) \/ FindFails(c)
    \/ Save(c) \/ SaveFails(c) \/ SavePanics(c)

CycleStep(c) ==
    \/ \E s \in Sources :
          Lock(c, s) \/ List(c, s) \/ ListFails(c, s) \/ Collected(c, s)
    \/ \E p \in Problems :
          Fetch(c, p) \/ FetchFails(c, p) \/ Accept(c, p) \/ Refuse(c, p)
    \/ CollectEnds(c) \/ BreakOff(c) \/ EndCycle(c)
    \/ SaveStep(c)

------------------------------------------------------------------------------
(* Properties.                                                             *)

\* A problem is in the hands of one cycle at most, however many overlap: the
\* mutex is held over the whole of Collect, and what it returns is marked
\* before it is given back (codeforces.go, leetcode.go, coderun.go: Collect).
OneHolder ==
    \A c, d \in Cycles : c # d => Held(c) \intersect Held(d) = {}

\* A problem no cycle will read again has not got lost without a trace: it is
\* stored, in the hands of a cycle, or given up with an error in the summary
\* or at the end of the time (Collect: what failed is not marked).
SeenIsAccounted ==
    \A p \in seen : p \in stored \union given \/ \E c \in Cycles : p \in Held(c)
==============================================================================
