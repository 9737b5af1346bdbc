----------------------------- MODULE TaskPipeline ----------------------------
(***************************************************************************)
(* The pipeline that turns what a reader brings into a candidate           *)
(* (Pipeline.Run with the five processors of collection.NewWorker):        *)
(* extractor, parser, classifier, normalizer, validator.  The first error  *)
(* ends it, and with it the whole source of the job.                       *)
(*                                                                         *)
(* A field is its length in bytes.  What a text holds besides is data of   *)
(* the input: the length of the title found in its first line, how much of *)
(* it comes before a section "Constraints:" or "Tags:", by how much the    *)
(* rewriting of headers and of "Input:" changes its length, and how many   *)
(* keywords of each task type it has.                                      *)
(***************************************************************************)
EXTENDS Integers

CONSTANTS
    MaxTitle,   \* MaxTitleLength: 200 bytes
    MaxField,   \* MaxFieldLength: 10000 bytes
    MaxURL,     \* 500 bytes
    Ellipsis,   \* length of "..."
    Rules,      \* number of typed rules of the classifier; the last is Algorithm
    Raws        \* what the readers may bring

Difficulties == {"unknown", "easy", "medium", "hard"}

Text == {t \in [len : Nat, inner : Nat, kept : Nat, shift : Int] :
            t.inner <= t.len /\ t.kept <= t.len /\ (t.kept > 0 => t.kept + t.shift > 0)}

Raw == [title : Nat, statement : Text,       \* from the adapter of the source
        plainTitle : Nat, plain : Text,      \* from RawContent
        empty : BOOLEAN,                     \* RawContent is empty
        name : Nat, url : Nat, known : BOOLEAN,
        difficulty : Difficulties, guess : Difficulties \ {"unknown"},
        hits : [1..Rules -> Nat]]

ASSUME PipelineAssumption ==
    /\ MaxTitle \in Nat \ {0} /\ MaxField \in Nat \ {0} /\ MaxURL \in Nat \ {0}
    /\ Ellipsis \in Nat /\ Rules \in Nat \ {0}
    /\ \A raw \in Raws : raw \in Raw

VARIABLES
    raw,      \* what the reader brought
    stage,    \* the processor whose turn it is, or the result
    title, description, url,  \* lengths of the task's fields
    text,     \* the description as the parser sees it
    hash,     \* what the source hash stands for
    difficulty, type

fields == <<title, description, url, text, hash, difficulty, type>>
task == <<raw, stage, fields>>

NoText == [len |-> 0, inner |-> 0, kept |-> 0, shift |-> 0]

Stages == {"extractor", "parser", "classifier", "normalizer", "validator",
           "accepted", "required", "unknown source", "too long"}

PipelineInit ==
    /\ raw \in Raws
    /\ stage = "extractor"
    /\ title = 0 /\ description = 0 /\ url = 0 /\ text = NoText
    /\ hash = "none" /\ difficulty = "unknown" /\ type = 0

------------------------------------------------------------------------------

\* The title of a raw task without one: the name of its source, if the content
\* is empty, or what the content has for a title.
Heading == IF raw.empty THEN raw.name ELSE raw.plainTitle

\* What the adapter prepared comes first; the content fills the gaps.
Extract ==
    /\ stage = "extractor"
    /\ stage' = "parser"
    /\ title' = IF raw.title > 0 THEN raw.title ELSE Heading
    /\ text' = IF raw.statement.len > 0 THEN raw.statement
               ELSE IF raw.empty THEN NoText ELSE raw.plain
    /\ description' = text'.len
    /\ url' = raw.url
    /\ hash' = "content"
    /\ difficulty' = raw.difficulty
    /\ UNCHANGED <<raw, type>>

\* A title is looked for in the text, and its service sections are cut off.
Parse ==
    /\ stage = "parser"
    /\ stage' = "classifier"
    /\ IF description = 0
       THEN UNCHANGED <<title, description>>
       ELSE /\ title' = IF title = 0 THEN text.inner ELSE title
            /\ description' = text.kept
    /\ UNCHANGED <<raw, url, text, hash, difficulty, type>>

Blank == title = 0 /\ description = 0

\* Mutant of BestRule: a later rule wins a tie.
LastBestRule ==
    LET best[r \in 0..Rules] ==
            IF r = 0 THEN 0
            ELSE IF raw.hits[r] = 0 THEN best[r - 1]
            ELSE IF best[r - 1] = 0 \/ raw.hits[r] >= raw.hits[best[r - 1]] THEN r
            ELSE best[r - 1]
    IN  best[Rules]

\* The scan over the rules with a match; 0 if there is none.
BestRule ==
    LET best[r \in 0..Rules] ==
            IF r = 0 THEN 0
            ELSE IF raw.hits[r] = 0 THEN best[r - 1]
            ELSE IF best[r - 1] = 0 \/ raw.hits[r] > raw.hits[best[r - 1]] THEN r
            ELSE best[r - 1]
    IN  best[Rules]

Classify ==
    /\ stage = "classifier"
    /\ stage' = "normalizer"
    /\ type' = IF Blank \/ BestRule = 0 THEN Rules ELSE BestRule
    /\ difficulty' = IF difficulty # "unknown" THEN difficulty
                     ELSE IF Blank THEN "medium" ELSE raw.guess
    /\ UNCHANGED <<raw, title, description, url, text, hash>>

truncateField(len, max) == IF len <= max THEN len ELSE max + Ellipsis

Rewritten == IF description = 0 THEN 0 ELSE description + text.shift

Normalize ==
    /\ stage = "normalizer"
    /\ stage' = "validator"
    /\ title' = truncateField(title, MaxTitle)
    /\ description' = truncateField(Rewritten, MaxField)
    /\ url' = truncateField(url, MaxURL)
    /\ UNCHANGED <<raw, text, hash, difficulty, type>>

\* Mutant of Verdict: a field may not reach its greatest length.
VerdictStrict ==
    IF description = 0 \/ url = 0 THEN "required"
    ELSE IF ~raw.known THEN "unknown source"
    ELSE IF title >= MaxTitle \/ description >= MaxField THEN "too long"
    ELSE IF title = 0 THEN "required"
    ELSE "accepted"

\* Validator.Process and, last, Task.Validate.
Verdict ==
    IF description = 0 \/ url = 0 THEN "required"
    ELSE IF ~raw.known THEN "unknown source"
    ELSE IF title > MaxTitle \/ description > MaxField THEN "too long"
    ELSE IF title = 0 THEN "required"
    ELSE "accepted"

Validate ==
    /\ stage = "validator"
    /\ stage' = Verdict
    /\ UNCHANGED <<raw, fields>>

PipelineNext == Extract \/ Parse \/ Classify \/ Normalize \/ Validate

PipelineSpec == PipelineInit /\ [][PipelineNext]_task

------------------------------------------------------------------------------

\* The chosen type is the first of those with the most keywords.
TypeIsBest ==
    /\ type \in 1..Rules
    /\ \A r \in 1..Rules :
          /\ raw.hits[r] <= raw.hits[type]
          /\ r < type /\ raw.hits[type] > 0 => raw.hits[r] < raw.hits[type]

\* The type of a candidate is not beaten by another one, and its difficulty is
\* the one the source gave, if it gave one (Classify).
AcceptedIsClassified == stage = "accepted" =>
    /\ TypeIsBest
    /\ raw.difficulty # "unknown" => difficulty = raw.difficulty

\* The title a text comes with: from the adapter, its heading, or its first line.
GivenTitle ==
    IF raw.title > 0 THEN raw.title
    ELSE IF Heading > 0 THEN Heading
    ELSE text.inner

\* Every field is there and within its limit, as the reader brought it.
Fits ==
    /\ raw.url > 0 /\ raw.known
    /\ text.kept > 0 /\ text.kept + text.shift <= MaxField
    /\ GivenTitle \in 1..MaxTitle

\* A text that fits is not refused: no stage makes it lose a field or outgrow a
\* limit.  What is refused fails its whole source and holds up its channel.  Of
\* a field beyond its limit nothing is said: it should be cut to fit (the comment
\* of MaxFieldLength), but truncateField leaves it longer than the limit.
FittingIsAccepted ==
    stage \in {"required", "unknown source", "too long"} => ~Fits
==============================================================================
