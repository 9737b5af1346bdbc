-------------------------- MODULE MCChannelCollection ------------------------
(* Values of the constants of ChannelCollection for TLC.                   *)
EXTENDS ChannelCollection, TLC

Symmetry == Permutations(Executors)

Others(j) == {m \in IDs : j[m] # "accepted"}

\* At most one message that is not accepted.
MCJudgements ==
    {j \in [IDs -> {"accepted", "invalid", "malformed"}] : Cardinality(Others(j)) <= 1}

\* No malformed message, and never Limit invalid ones in a row.
MCPassable ==
    {j \in [IDs -> {"accepted", "invalid"}] :
        \A m \in IDs : m + Limit - 1 \in IDs =>
            \E k \in m..m + Limit - 1 : j[k] = "accepted"}
==============================================================================
