------------------------------- MODULE MxuJob -------------------------------
(***************************************************************************)
(* What the matrix unit promises software: a job that was begun with the   *)
(* registers job runs undisturbed by anything written meanwhile, and when  *)
(* it is done every row of the product is in its place.                    *)
(*                                                                         *)
(* Each of the four operand tiles keeps row block b (a quarter of the M    *)
(* rows) in bank b, from the tile's base row on.  The result row of tile t *)
(* for the activation word <<b, act[t] + i>> is named <<t, word>> and      *)
(* belongs in bank b at row out[t] + i.                                    *)
(***************************************************************************)
EXTENDS Integers

CONSTANTS ADDRS, LegalJob(_)

VARIABLES status, job, result

Tiles == 0 .. 3
Banks == 0 .. 3

Place(j, t, b, i) ==
  <<b, <<(j.out[t] + i) % ADDRS, <<t, <<b, (j.act[t] + i) % ADDRS>>>>>>>>

Product(j) ==
  {Place(j, t, b, i) : t \in Tiles, b \in Banks, i \in 0 .. j.M \div 4 - 1}

Init == status = "idle" /\ result = {}

Configure ==
  /\ status = "idle" /\ job' # job
  /\ UNCHANGED <<status, result>>

Begin ==
  /\ status = "idle" /\ status' = "busy"
  /\ UNCHANGED <<job, result>>

Complete ==
  /\ status = "busy" /\ status' = "done"
  /\ LegalJob(job) => result' = Product(job)
  /\ UNCHANGED job

Retire ==
  /\ status = "done" /\ status' = "idle"
  /\ result' = {}
  /\ UNCHANGED job

Next == Configure \/ Begin \/ Complete \/ Retire

\* The steps a job takes,
SafeSpec == Init /\ [][Next]_<<status, job, result>>

\* and that one that was begun is completed and retired.
Progress == (status = "busy") ~> (status = "idle")

Spec == SafeSpec /\ Progress
=============================================================================
