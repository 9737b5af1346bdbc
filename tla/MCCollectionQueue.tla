-------------------------- MODULE MCCollectionQueue --------------------------
(* Values of the constants of CollectionQueue for TLC.                     *)
EXTENDS CollectionQueueRefinement, TLC

CONSTANTS w1, w2, chan, url, host1, host2

MCOwnerOf == (w1 :> host1) @@ (w2 :> host2)
MCTriggerOf == (1 :> "bootstrap") @@ (2 :> "manual")

Symmetry == Permutations({chan, url})
==============================================================================
