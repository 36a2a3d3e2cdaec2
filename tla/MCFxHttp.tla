-------------------------------- MODULE MCFxHttp --------------------------------
(* FxHttp on a small instance. *)
EXTENDS FxHttp

CONSTANTS r1, given
=============================================================================
