------------------------------- MODULE MCMxu -------------------------------
(* The matrix unit at its real size, for the batches around every boundary. *)
EXTENDS Mxu

MCBatches == {0, 1, 4, 32, 48}

\* The activation and output tile bases of software/app/my_mxu_test, used for
\* the weights too; the last output tile is moved to the end of the banks so
\* that its row addresses wrap.
Bases(a, b, c, d) == [t \in Lanes |-> <<a, b, c, d>>[t + 1]]

MCTileBases == {Bases(0, 8, 16, 24)}

MCBootConfigs ==
  {[wgt |-> Bases(0, 8, 16, 24), act |-> Bases(0, 8, 16, 24),
    out |-> Bases(0, 8, 16, 254), M |-> m, flow |-> FF, dtype |-> d] :
     m \in MCBatches, d \in {INT, POSIT}}

\* One more quarter than the last activation row leaves time for, in INT mode.
MCLongConfigs == {[c EXCEPT !.M = 36, !.dtype = INT] : c \in MCBootConfigs}
============================================================================
