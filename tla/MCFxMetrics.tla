------------------------------ MODULE MCFxMetrics ------------------------------
(* FxMetrics on the instances of MCFxExecution. *)
EXTENDS MCFxExecution, FxMetrics
=============================================================================
