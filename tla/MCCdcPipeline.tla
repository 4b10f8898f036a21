--------------------------- MODULE MCCdcPipeline ---------------------------
(* CdcPipeline on a small instance.  Keys and row states are model values,  *)
(* permuted in the runs that check no liveness.                             *)
EXTENDS CdcPipeline, TLC

Symmetry == Permutations(Keys) \cup Permutations(Values)

=============================================================================
