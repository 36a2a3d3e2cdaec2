----------------------------- MODULE MCFxExecution -----------------------------
(* FxExecution on small instances: values of the constants for TLC. *)
EXTENDS FxExecution, TLC

CONSTANTS KES, USD

Alphabetical == KES :> 1 @@ USD :> 2

(* Exchanges in opposite directions lock the same two balances in opposite   *)
(* roles. Debit and credit differ, and two exchanges into USD exceed the     *)
(* largest amount. The third exchange has a destination amount that rounded  *)
(* to nothing.                                                               *)
Opposite == {[source |-> KES, destination |-> USD, debit |-> 1, credit |-> 2],
             [source |-> USD, destination |-> KES, debit |-> 2, credit |-> 1]}
WithVanishing == Opposite \cup
    {[source |-> KES, destination |-> USD, debit |-> 1, credit |-> 0]}

(* One direction: executions lock the same balances in the same order, and   *)
(* the other direction would have locked them in that order too.             *)
OneWay == {[source |-> KES, destination |-> USD, debit |-> 1, credit |-> 2]}

Interchangeable == Permutations(Workers) \cup Permutations(Quotes)
                   \cup Permutations(Keys) \cup Permutations(Adjustments)
=============================================================================
