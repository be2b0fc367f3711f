----------------------------- MODULE MCIrqWait -----------------------------
(* mxu_idma_gbuf_test makes two transfers; one more to use the flag and the *)
(* gateway again after a reuse.                                             *)
EXTENDS IrqWait
============================================================================
