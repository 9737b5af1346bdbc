---------------------------- MODULE TelegramReader ----------------------------
(***************************************************************************)
(* MTProtoReader.ReadRange (internal/collection/telegram.go): the history  *)
(* of a channel is read page by page from the newest message down to the   *)
(* lower bound of the range, and of what it holds the oldest Limit texts   *)
(* are kept.                                                               *)
(*                                                                         *)
(* A message is its id; a message is published at the time that is its id, *)
(* since ids grow with time.  The history, the range and afterID are       *)
(* arbitrary but fixed: messages that arrive during the call have greater  *)
(* ids and times and are excluded by "to" and by the offset.               *)
(***************************************************************************)
EXTENDS Naturals, FiniteSets, FiniteSetsExt

CONSTANTS
    LastID,        \* bound: the newest message of the channel
    PageLimit,     \* messages per page: 100 in the code
    Limit,         \* max_items_per_source of the job
    MaxServiceRun  \* most consecutive service messages in the history

ASSUME ReaderAssumption ==
    /\ LastID \in Nat /\ MaxServiceRun \in Nat
    /\ PageLimit \in Nat \ {0} /\ Limit \in Nat \ {0}

VARIABLES
    history,   \* what each id is: a text, a message without text, a service
               \* message (not a *tg.Message), or deleted
    from, to,  \* the range [from, to) of publication times
    after,     \* afterID: only greater ids are read
    offset,    \* offsetID of the next page, 0 for the newest
    items,     \* texts kept so far
    done       \* the loop has ended

channel == <<history, from, to, after>>
vars == <<history, from, to, after, offset, items, done>>

IDs == 1..LastID
Kinds == {"text", "blank", "service", "deleted"}

\* The k least elements of S, and the k greatest.
Oldest(k, S) == {m \in S : Cardinality({x \in S : x < m}) < k}
Newest(k, S) == {m \in S : Cardinality({x \in S : x > m}) < k}

\* No more than MaxServiceRun messages in a row are service messages.
ServiceRunsBounded(h) ==
    \A a, b \in IDs :
        LET present == {m \in a..b : h[m] # "deleted"}
        IN  (\A m \in present : h[m] = "service") => Cardinality(present) <= MaxServiceRun

Init ==
    /\ history \in {h \in [IDs -> Kinds] : ServiceRunsBounded(h)}
    /\ from \in 1..LastID /\ to \in from + 1..LastID + 1
    /\ after \in 0..LastID
    /\ offset = 0 /\ items = {} /\ done = FALSE

\* messages.getHistory: the newest PageLimit messages below the offset.
GetHistory ==
    Newest(PageLimit, {m \in IDs : /\ history[m] # "deleted"
                                   /\ offset # 0 => m < offset
                                   /\ m < to /\ m > after})

\* The messages of a page that are wanted.
Accepted(page) ==
    {m \in page : history[m] = "text" /\ from <= m /\ m < to /\ m > after}

\* Mutants of ReadPage: the newest texts are kept; the offset is not moved.
ReadPageNewest ==
    LET page == GetHistory
        regular == {m \in page : history[m] # "service"}
    IN  /\ ~done
        /\ page # {}
        /\ items' = Newest(Limit, items \union Accepted(page))
        /\ offset' = IF regular = {} THEN 0 ELSE Min(regular)
        /\ done' = \/ regular = {}
                   \/ \E m \in regular : m < from
                   \/ Cardinality(page) < PageLimit
        /\ UNCHANGED channel
ReadPageNoAdvance ==
    LET page == GetHistory
        regular == {m \in page : history[m] # "service"}
    IN  /\ ~done
        /\ page # {}
        /\ items' = Oldest(Limit, items \union Accepted(page))
        /\ offset' = offset
        /\ done' = \/ regular = {}
                   \/ \E m \in regular : m < from
                   \/ Cardinality(page) < PageLimit
        /\ UNCHANGED channel

\* One turn of the loop.  oldestID and beforeRange look at regular messages
\* only, the length of the page counts them all.
ReadPage ==
    LET page == GetHistory
        regular == {m \in page : history[m] # "service"}
    IN  /\ ~done
        /\ page # {}
        /\ items' = Oldest(Limit, items \union Accepted(page))
        /\ offset' = IF regular = {} THEN 0 ELSE Min(regular)
        /\ done' = \/ regular = {}
                   \/ \E m \in regular : m < from
                   \/ Cardinality(page) < PageLimit
        /\ UNCHANGED channel

EmptyPage ==
    /\ ~done
    /\ GetHistory = {}
    /\ done' = TRUE
    /\ UNCHANGED <<channel, offset, items>>

Return == done /\ UNCHANGED vars

Next == ReadPage \/ EmptyPage \/ Return

Spec == Init /\ [][Next]_vars /\ WF_vars(Next)

------------------------------------------------------------------------------

Wanted == Accepted({m \in IDs : history[m] # "deleted"})

\* ReadRange returns the oldest Limit texts of the range above afterID: nothing
\* between two of them is passed over, so that the checkpoint never jumps over
\* a publication that was not processed (telegram.go, the comment in the loop).
ReturnsOldest == done => items = Oldest(Limit, Wanted)

\* The loop ends: every page is strictly older than the one before it.
LoopEnds == <>done
==============================================================================
