----------------------------- MODULE MCMxuHost -----------------------------
(* Two words a buffer, so that a run can be overtaken half way.             *)
EXTENDS MxuHost
============================================================================
