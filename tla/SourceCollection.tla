--------------------------- MODULE SourceCollection ---------------------------
(***************************************************************************)
(* The first half of Worker.processSource                                  *)
(* (internal/collection/worker.go): collectTelegram reads a range of its   *)
(* channel (TelegramReader), collectWebsite one page, and every text goes  *)
(* through the pipeline (TaskPipeline), one after the other.  What results *)
(* is the list of candidates for importCandidates, or an error.            *)
(*                                                                         *)
(* When ReadRange has returned, its locals are gone; of the messages it    *)
(* returned only their number is kept, and what the pipeline finds in each *)
(* is arbitrary.  The same is true of a text that has left the pipeline.   *)
(***************************************************************************)
EXTENDS TelegramReader, TaskPipeline

CONSTANTS
    Messages,  \* what collectTelegram may give to the pipeline
    Pages,     \* what ReadURL may return to collectWebsite
    NoRaw

ASSUME CollectionAssumption == Raws = Messages \union Pages /\ NoRaw \notin Raws

VARIABLES
    kind,       \* kind of the source
    phase,      \* where processSource is
    read,       \* texts the reader returned
    left,       \* those the pipeline has not been given yet
    candidates  \* those it has made candidates

reader == vars
collection == <<kind, phase, read, left, candidates>>
sourceVars == <<reader, task, collection>>

\* What does not run at present has these values.
NoHistory == [m \in IDs |-> "deleted"]

SourceInit ==
    /\ kind \in {"telegram", "website"}
    /\ phase = "reading"
    /\ \/ kind = "telegram" /\ Init
       \/ /\ kind = "website"
          /\ history = NoHistory /\ from = 1 /\ to = 2 /\ after = 0
          /\ offset = 0 /\ items = {} /\ done = TRUE
    /\ raw = NoRaw /\ stage = "idle"
    /\ title = 0 /\ description = 0 /\ url = 0 /\ text = NoText
    /\ hash = "none" /\ difficulty = "unknown" /\ type = 0
    /\ read = 0 /\ left = 0 /\ candidates = 0

\* The locals of ReadRange are gone.
ReaderReturns ==
    /\ history' = NoHistory /\ from' = 1 /\ to' = 2 /\ after' = 0
    /\ offset' = 0 /\ items' = {} /\ done' = TRUE

\* Those of the pipeline.
PipelineReturns ==
    /\ raw' = NoRaw /\ stage' = "idle"
    /\ title' = 0 /\ description' = 0 /\ url' = 0 /\ text' = NoText
    /\ hash' = "none" /\ difficulty' = "unknown" /\ type' = 0

------------------------------------------------------------------------------
(* Reading.                                                                *)

\* A turn of the loop of ReadRange.
Page ==
    /\ ReadPage \/ EmptyPage
    /\ UNCHANGED <<task, collection>>

Texts(n) ==
    /\ phase' = "normalizing"
    /\ read' = n /\ left' = n
    /\ UNCHANGED <<kind, candidates>>

\* ReadRange has returned.
MessagesAreRead ==
    /\ phase = "reading" /\ kind = "telegram" /\ done
    /\ Texts(Cardinality(items))
    /\ ReaderReturns
    /\ UNCHANGED task

\* ReadURL has returned.
PageIsRead ==
    /\ phase = "reading" /\ kind = "website"
    /\ Texts(1)
    /\ UNCHANGED <<reader, task>>

\* ReadRange or ReadURL returns an error, or the checkpoint cannot be read.
ReadFails ==
    /\ phase = "reading"
    /\ phase' = "failed"
    /\ ReaderReturns
    /\ UNCHANGED <<task, kind, read, left, candidates>>

------------------------------------------------------------------------------
(* Normalizing.                                                            *)

\* normalize runs the pipeline on the next text.
Normalizing ==
    /\ phase = "normalizing" /\ stage = "idle" /\ left > 0
    /\ raw' \in IF kind = "telegram" THEN Messages ELSE Pages
    /\ stage' = "extractor"
    /\ left' = left - 1
    /\ UNCHANGED <<reader, fields, kind, phase, read, candidates>>

Process ==
    /\ PipelineNext
    /\ UNCHANGED <<reader, collection>>

\* A candidate is appended.
AddCandidate ==
    /\ stage = "accepted"
    /\ candidates' = candidates + 1
    /\ PipelineReturns
    /\ UNCHANGED <<reader, kind, phase, read, left>>

Refused == stage \in {"required", "unknown source", "too long"}

\* Mutant of RefuseSource: the loop goes on with the next message.
SkipRefused ==
    /\ Refused
    /\ PipelineReturns
    /\ UNCHANGED <<reader, collection>>

\* One text that is refused ends the loop with an error: no candidate of the
\* source is returned.
RefuseSource ==
    /\ Refused
    /\ phase' = "failed" /\ candidates' = 0
    /\ PipelineReturns
    /\ UNCHANGED <<reader, kind, read, left>>

Collected ==
    /\ phase = "normalizing" /\ stage = "idle" /\ left = 0
    /\ phase' = "collected"
    /\ UNCHANGED <<reader, task, kind, read, left, candidates>>

------------------------------------------------------------------------------

SourceNext ==
    \/ Page \/ MessagesAreRead \/ PageIsRead \/ ReadFails
    \/ Normalizing \/ Process \/ AddCandidate \/ RefuseSource \/ Collected

\* The loop of ReadRange goes on: that its calls return is an assumption.
SourceSpec == SourceInit /\ [][SourceNext]_sourceVars /\ WF_sourceVars(Page)

------------------------------------------------------------------------------

\* Of the texts that were read none gets lost on the way to tasks: processSource
\* goes on to the import with a candidate for each, or fails as a whole.  The
\* checkpoint, the greatest id that tasks confirms, would pass the missing one.
CandidatesAreComplete == phase = "collected" => candidates = read
==============================================================================
