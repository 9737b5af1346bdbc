---------------------------- MODULE CheckpointLog ----------------------------
(***************************************************************************)
(* What the collection of a channel promises to who relies on its          *)
(* checkpoint, with no jobs, ranges, batches or failures in sight: answers *)
(* of tasks are never withdrawn, and the checkpoint moves forward, from    *)
(* one stored message to another, over messages that are answered.         *)
(***************************************************************************)
EXTENDS Naturals

CONSTANT IDs

VARIABLES
    checkpoint,      \* 0 until the first run is recorded
    start,           \* where that run began
    stored, refused  \* the answers of tasks

answers == <<stored, refused>>
log == <<checkpoint, start, stored, refused>>

LogInit == checkpoint = 0 /\ start = 0 /\ stored = {} /\ refused = {}

Answer ==
    /\ \E S \in SUBSET IDs : stored' = stored \union S
    /\ \E R \in SUBSET IDs : refused' = refused \union R
    /\ UNCHANGED <<checkpoint, start>>

Answered(first, last) ==
    \A m \in IDs : first <= m /\ m <= last => m \in stored \union refused

\* The first run that is recorded begins anywhere before its last message.
Record(c) ==
    /\ checkpoint = 0
    /\ checkpoint' = c
    /\ start' \in Nat /\ start' <= c /\ Answered(start', c)
    /\ UNCHANGED answers

\* Every later one takes up where the checkpoint is.
Advance(c) ==
    /\ checkpoint # 0 /\ checkpoint < c
    /\ checkpoint' = c
    /\ Answered(checkpoint + 1, c)
    /\ UNCHANGED <<start, answers>>

LogNext ==
    \/ Answer
    \/ \E c \in stored : Record(c) \/ Advance(c)

LogSpec == LogInit /\ [][LogNext]_log
==============================================================================
