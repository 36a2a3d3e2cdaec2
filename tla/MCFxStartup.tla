------------------------------ MODULE MCFxStartup ------------------------------
(* FxStartup on a small instance. *)
EXTENDS FxStartup

CONSTANTS p1, p2, w1, w2

(* The threads of one process, so that its death ends several transactions. *)
Together == [w \in {w1, w2} |-> p1]
=============================================================================
