------------------------------ MODULE MCFxRates ------------------------------
(***************************************************************************)
(* FxRates with three currencies, two stored pairs and small decimals: a   *)
(* rate counts quarters, the provider's counts eighths.                    *)
(***************************************************************************)
EXTENDS FxRates, TLC

CONSTANTS KES

TwoPairs == <<<<Usd, KES>>, <<Usd, Eur>>>>
ThreeCurrencies == {Usd, Eur, KES}

(* 3 KES and 0.625 EUR a dollar; 3.5 KES and 0.5 EUR a dollar. *)
Morning == [base |-> Usd, rates |-> (KES :> 24 @@ Eur :> 5)]
Noon == [base |-> Usd, rates |-> (KES :> 28 @@ Eur :> 4)]

(* The same provider with euros as its base. *)
InEuros == [base |-> Eur, rates |-> (KES :> 40 @@ Usd :> 12)]

(* A rate that the column does not hold, after one that it does; and a       *)
(* positive rate that it holds as 0.                                         *)
Absurd == [base |-> Usd, rates |-> (KES :> 24 @@ Eur :> 99)]
Vanishing == [base |-> Usd, rates |-> (KES :> 24 @@ Eur :> 1)]

DollarPayloads == {Morning, Noon, Absurd}
WithVanishing == {Vanishing}
AnyBase == {Morning, InEuros}

Interchangeable == Permutations(Refreshers) \cup Permutations(Attempts)
=============================================================================
