----------------------------- MODULE MCLeaseTimer -----------------------------
(* Values of the constants of LeaseTimer for TLC.                          *)
EXTENDS LeaseTimer, TLC

CONSTANTS w1, w2, chan, host1, host2

MCOwnerOf == (w1 :> host1) @@ (w2 :> host2)
MCTriggerOf == (1 :> "bootstrap") @@ (2 :> "manual")
==============================================================================
