------------------------------- MODULE FxPricing -------------------------------
(***************************************************************************)
(* The pricing of a quote (app/services/quotes.py, app/utils/money.py) as  *)
(* functions of a rate book: the route, the executable rate of each leg    *)
(* with its directional spread, the rate of the route and the destination  *)
(* amount.                                                                 *)
(*                                                                         *)
(* Decimals are integers: an amount counts cents, a stored rate counts     *)
(* units of which RateScale make the rate 1 (10^10 in the code).  The code *)
(* computes with 28 significant digits before it rounds to such a unit;    *)
(* here the exact quotient is rounded, once.                               *)
(***************************************************************************)
EXTENDS Integers, Sequences

CONSTANTS
    Usd, Eur,       \* the pivots of cross routes
    RateScale,      \* stored units in the rate 1
    BasisPoints     \* BASIS_POINT_DENOMINATOR

ASSUME ScaleAssumption == RateScale \in Nat \ {0} /\ BasisPoints \in Nat \ {0}

(* The integer nearest to n / d, the even one of two: ROUND_HALF_EVEN. *)
RoundHalfEven(n, d) ==
    LET q == n \div d
        r == n % d
    IN IF 2 * r < d \/ (2 * r = d /\ q % 2 = 0) THEN q ELSE q + 1

(* The row of a pair, in either direction: a set of at most one row. *)
FindCurrentRate(book, source, destination) ==
    LET rows(base, quote) == {r \in book : r.base = base /\ r.quote = quote}
    IN IF rows(source, destination) # {} THEN rows(source, destination)
       ELSE rows(destination, source)

(* Direct if possible, else by way of USD, else by way of EUR, else empty. *)
BuildRoute(book, source, destination) ==
    LET rated(c, d) == FindCurrentRate(book, c, d) # {}
        by(pivot) == /\ pivot \notin {source, destination}
                     /\ rated(source, pivot) /\ rated(pivot, destination)
    IN IF rated(source, destination) THEN <<source, destination>>
       ELSE IF by(Usd) THEN <<source, Usd, destination>>
       ELSE IF by(Eur) THEN <<source, Eur, destination>>
       ELSE <<>>

(* A buy leg divides by the rate. *)
Priceable(row, source) == source = row.base \/ row.mid # 0

(* Mutant: each side gets the other one's sign. *)
ExecutableRateSwapped(row, source) ==
    IF source = row.base
    THEN RoundHalfEven(row.mid * (BasisPoints + row.sell), BasisPoints)
    ELSE RoundHalfEven(RateScale * RateScale * BasisPoints,
                       row.mid * (BasisPoints - row.buy))

(* Selling the base gives mid * (1 - sell); buying it back costs             *)
(* mid * (1 + buy), and the leg pays the reciprocal.                         *)
ExecutableRate(row, source) ==
    IF source = row.base
    THEN RoundHalfEven(row.mid * (BasisPoints - row.sell), BasisPoints)
    ELSE RoundHalfEven(RateScale * RateScale * BasisPoints,
                       row.mid * (BasisPoints + row.buy))

PriceLeg(row, source, destination) ==
    [source |-> source, destination |-> destination, mid |-> row.mid,
     rate |-> ExecutableRate(row, source), refresh |-> row.refresh]

(* The rounded product of the rates of one leg or two. *)
RouteRate(legs) ==
    IF Len(legs) = 1 THEN legs[1].rate
    ELSE RoundHalfEven(legs[1].rate * legs[2].rate, RateScale)

DestinationAmount(amount, rate) == RoundHalfEven(amount * rate, RateScale)
=============================================================================
