----------------------------- MODULE MCMxuCtrl -----------------------------
(* The sequencer against a datapath that may return anything at any time.   *)
EXTENDS MxuCtrl

\* No row, fewer rows than quarters, and chunks of 2 and 3 with a remainder.
MCBatches == {0, 3, 9, 15}

MCTileBases == {[t \in Lanes |-> IF t = 0 THEN 1 ELSE 0]}

MCBootConfigs == {ResetConfig}
============================================================================
