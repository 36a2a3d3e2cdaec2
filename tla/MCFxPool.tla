------------------------------- MODULE MCFxPool -------------------------------
(* FxPool with one stored pair, two refreshes, a quote and two connections;  *)
(* the decimals are those of MCFxRates.                                      *)
EXTENDS FxPool, TLC

CONSTANTS KES

OnePair == <<<<Usd, KES>>>>
TwoCurrencies == {Usd, KES}

(* 3 KES a dollar, and a rate that the column does not hold.                 *)
GoodAndAbsurd == {[base |-> Usd, rates |-> KES :> n] : n \in {24, 99}}
=============================================================================
