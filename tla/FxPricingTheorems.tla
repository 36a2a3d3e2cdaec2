-------------------------- MODULE FxPricingTheorems --------------------------
(***************************************************************************)
(* What the arithmetic of a quote guarantees, for all rates, spreads and   *)
(* amounts: rounding goes to the nearest unit, and the customer never gets *)
(* more than the mid rate but for that rounding.                           *)
(***************************************************************************)
EXTENDS FxPricing, TLAPS

(* Quotient and remainder, as facts the solvers can use with a variable      *)
(* divisor.                                                                  *)
LEMMA Division ==
    ASSUME NEW n \in Nat, NEW d \in Nat \ {0}
    PROVE  /\ n \div d \in Nat /\ n % d \in Nat
           /\ n % d < d
           /\ n = (n \div d) * d + (n % d)
<1>1. n \div d \in Nat
  BY SMT
<1>2. n % d \in Nat /\ n % d < d
  BY SMT
<1>3. n = (n \div d) * d + (n % d)
  BY SMT
<1> QED
  BY <1>1, <1>2, <1>3

(* round_rate and round_money are at most half a unit off, whatever the      *)
(* quotient: RoundHalfEven(n, d) is an integer nearest to n / d.             *)
THEOREM RoundingIsNearest ==
    ASSUME NEW n \in Nat, NEW d \in Nat \ {0}
    PROVE  LET k == RoundHalfEven(n, d)
           IN /\ k \in Nat
              /\ 2 * (k * d) <= 2 * n + d
              /\ 2 * n <= 2 * (k * d) + d
<1> DEFINE q == n \div d
           r == n % d
<1>1. q \in Nat /\ r \in Nat /\ r < d /\ n = q * d + r
  BY Division
<1>2. (q + 1) * d = q * d + d
  BY <1>1, SMT
<1>3. q * d \in Nat
  BY <1>1, SMT
<1>4. CASE 2 * r < d \/ (2 * r = d /\ q % 2 = 0)
  <2>1. RoundHalfEven(n, d) = q
    BY <1>4 DEF RoundHalfEven
  <2> QED
    BY <1>1, <1>3, <1>4, <2>1, SMT
<1>5. CASE ~(2 * r < d \/ (2 * r = d /\ q % 2 = 0))
  <2>1. RoundHalfEven(n, d) = q + 1
    BY <1>5 DEF RoundHalfEven
  <2>2. 2 * r >= d
    BY <1>1, <1>5, SMT
  <2> HIDE DEF q, r
  <2> QED
    BY <1>1, <1>2, <1>3, <2>1, <2>2, SMT
<1> QED
  BY <1>4, <1>5

(* Exactly the quotients of at most half a unit are rounded to nothing       *)
(* (pair_mid_rate: a positive rate may be stored as zero).                   *)
THEOREM VanishingQuotients ==
    ASSUME NEW n \in Nat, NEW d \in Nat \ {0}
    PROVE  RoundHalfEven(n, d) = 0 <=> 2 * n <= d
<1> DEFINE q == n \div d
           r == n % d
<1>1. q \in Nat /\ r \in Nat /\ r < d /\ n = q * d + r
  BY Division
<1>2. RoundHalfEven(n, d) = IF 2 * r < d \/ (2 * r = d /\ q % 2 = 0) THEN q ELSE q + 1
  BY DEF RoundHalfEven
<1> HIDE DEF q, r
<1>3. CASE q = 0
  <2>1. n = r /\ q % 2 = 0
    BY <1>1, <1>3, SMT
  <2> QED
    BY <1>1, <1>2, <1>3, <2>1, SMT
<1>4. CASE q # 0
  <2>1. RoundHalfEven(n, d) # 0
    BY <1>1, <1>2, <1>4, SMT
  <2>2. q * d >= d
    BY <1>1, <1>4, SMT
  <2> QED
    BY <1>1, <2>1, <2>2, SMT
<1> QED
  BY <1>3, <1>4

(* Rounding keeps the order of quotients of the same divisor.                *)
LEMMA RoundingIsMonotonic ==
    ASSUME NEW n \in Nat, NEW m \in Nat, n <= m, NEW d \in Nat \ {0}
    PROVE  RoundHalfEven(n, d) <= RoundHalfEven(m, d)
<1> DEFINE k == RoundHalfEven(n, d)
           l == RoundHalfEven(m, d)
<1>1. k \in Nat /\ 2 * (k * d) <= 2 * n + d
  BY RoundingIsNearest
<1>2. l \in Nat /\ 2 * m <= 2 * (l * d) + d
  BY RoundingIsNearest
<1>3. n = m => k = l
  OBVIOUS
<1> HIDE DEF k, l
<1>4. SUFFICES ASSUME k >= l + 1, n < m
               PROVE  FALSE
  BY <1>1, <1>2, <1>3, SMT DEF k, l
<1>5. k * d >= l * d + d /\ k * d \in Nat /\ l * d \in Nat
  BY <1>1, <1>2, <1>4, SMT
<1> QED
  BY <1>1, <1>2, <1>4, <1>5, SMT

(* The rate of a route of one leg or two is a number of units.               *)
LEMMA RouteRateTyped ==
    ASSUME NEW legs, Len(legs) \in {1, 2}, \A i \in 1 .. Len(legs) : legs[i].rate \in Nat
    PROVE  RouteRate(legs) \in Nat
<1>1. CASE Len(legs) = 1
  <2>1. RouteRate(legs) = legs[1].rate
    BY <1>1 DEF RouteRate
  <2>2. 1 \in 1 .. Len(legs)
    BY <1>1
  <2> QED
    BY <2>1, <2>2
<1>2. CASE Len(legs) = 2
  <2>1. RouteRate(legs) = RoundHalfEven(legs[1].rate * legs[2].rate, RateScale)
    BY <1>2 DEF RouteRate
  <2>2. legs[1].rate \in Nat /\ legs[2].rate \in Nat
    BY <1>2
  <2>3. legs[1].rate * legs[2].rate \in Nat
    BY <2>2, SMT
  <2> QED
    BY <2>1, <2>3, ScaleAssumption, RoundingIsNearest
<1> QED
  BY <1>1, <1>2

(* An exact quotient is not changed by rounding, and a bound in whole units  *)
(* on the quotient is a bound on the rounded value.                          *)
LEMMA RoundingKeepsBounds ==
    ASSUME NEW n \in Nat, NEW d \in Nat \ {0}, NEW m \in Nat, n <= m * d
    PROVE  RoundHalfEven(n, d) <= m
<1> DEFINE k == RoundHalfEven(n, d)
<1>1. k \in Nat /\ 2 * (k * d) <= 2 * n + d
  BY RoundingIsNearest
<1> HIDE DEF k
<1>2. SUFFICES ASSUME k >= m + 1
               PROVE  FALSE
  BY <1>1, SMT DEF k
<1>3. k * d >= (m + 1) * d
  BY <1>1, <1>2, SMT
<1>4. (m + 1) * d = m * d + d /\ m * d \in Nat /\ k * d \in Nat
  BY <1>1, SMT
<1> QED
  BY <1>1, <1>3, <1>4, SMT

(* A leg that sells the base of its pair: the spread only lowers the rate    *)
(* (price_leg, first branch).                                                *)
THEOREM SellingPaysAtMostMid ==
    ASSUME NEW row, row.mid \in Nat, row.sell \in 0 .. BasisPoints
    PROVE  /\ ExecutableRate(row, row.base) \in Nat
           /\ ExecutableRate(row, row.base) <= row.mid
<1> DEFINE n == row.mid * (BasisPoints - row.sell)
<1>1. BasisPoints \in Nat \ {0} /\ BasisPoints - row.sell \in 0 .. BasisPoints
  BY ScaleAssumption, SMT
<1>2. n \in Nat /\ n <= row.mid * BasisPoints
  BY <1>1, SMT
<1>3. ExecutableRate(row, row.base) = RoundHalfEven(n, BasisPoints)
  BY DEF ExecutableRate
<1> HIDE DEF n
<1> QED
  BY <1>1, <1>2, <1>3, RoundingIsNearest, RoundingKeepsBounds

(* A leg that buys the base back: what it costs at the rate paid is at least *)
(* what it is worth at the mid rate, but for half a unit of rounding         *)
(* (price_leg, second branch).                                               *)
THEOREM BuyingCostsAtLeastMid ==
    ASSUME NEW row, NEW source, source # row.base,
           row.mid \in Nat \ {0}, row.buy \in Nat
    PROVE  LET rate == ExecutableRate(row, source)
           IN /\ rate \in Nat
              /\ 2 * row.mid * rate <= 2 * RateScale * RateScale + row.mid
<1> DEFINE B == BasisPoints
           C == BasisPoints + row.buy
           S == RateScale * RateScale
           k == ExecutableRate(row, source)
           m == row.mid
<1>1. B \in Nat \ {0} /\ C \in Nat \ {0} /\ B <= C /\ S \in Nat /\ m \in Nat \ {0}
  BY ScaleAssumption, SMT
<1>2. S * B \in Nat /\ m * C \in Nat \ {0}
  BY <1>1, SMT
<1>3. k = RoundHalfEven(S * B, m * C)
  BY DEF ExecutableRate
<1>4. k \in Nat /\ 2 * (k * (m * C)) <= 2 * (S * B) + m * C
  BY <1>2, <1>3, RoundingIsNearest
<1>5. S * B <= S * C
  <2> HIDE DEF S, B, C
  <2> QED
    BY <1>1, SMT
<1>6. 2 * (k * (m * C)) = (2 * m * k) * C /\ 2 * (S * C) + m * C = (2 * S + m) * C
  <2> HIDE DEF S, B, C, k, m
  <2> QED
    BY <1>1, <1>4, SMT
<1>7. (2 * m * k) * C <= (2 * S + m) * C
  <2> HIDE DEF S, B, C, k, m
  <2>1. S * B \in Nat /\ S * C \in Nat /\ m * C \in Nat /\ k * (m * C) \in Nat
    BY <1>1, <1>4, SMT
  <2> QED
    BY <1>4, <1>5, <1>6, <2>1, SMT
<1>8. 2 * m * k <= 2 * S + m
  <2> HIDE DEF S, B, C, k, m
  <2> DEFINE x == 2 * m * k
             y == 2 * S + m
  <2>1. x \in Nat /\ y \in Nat
    BY <1>1, <1>4, SMT
  <2>2. x * C <= y * C
    BY <1>7
  <2> HIDE DEF x, y
  <2>3. SUFFICES ASSUME x >= y + 1
                 PROVE  FALSE
    BY <2>1, SMT DEF x, y
  <2>4. x * C >= (y + 1) * C
    BY <1>1, <2>1, <2>3, SMT
  <2>5. (y + 1) * C = y * C + C /\ y * C \in Nat /\ x * C \in Nat
    BY <1>1, <2>1, SMT
  <2> QED
    BY <1>1, <2>2, <2>4, <2>5, SMT
<1>9. 2 * S = 2 * RateScale * RateScale
  BY ScaleAssumption, SMT
<1> QED
  BY <1>4, <1>8, <1>9

(* Selling some currency and buying it back over the same stored rate gives  *)
(* at most what one had, but for the rounding of the second rate: the        *)
(* product of the two executable rates is at most 1.                         *)
THEOREM NoGainFromRoundTrip ==
    ASSUME NEW row, NEW other, other # row.base, row.mid \in Nat \ {0},
           row.sell \in 0 .. BasisPoints, row.buy \in Nat
    PROVE  2 * (ExecutableRate(row, row.base) * ExecutableRate(row, other))
             <= 2 * RateScale * RateScale + row.mid
<1> DEFINE s == ExecutableRate(row, row.base)
           b == ExecutableRate(row, other)
           bound == 2 * RateScale * RateScale + row.mid
<1>1. s \in Nat /\ s <= row.mid
  BY SellingPaysAtMostMid
<1>2. b \in Nat /\ 2 * row.mid * b <= bound
  BY BuyingCostsAtLeastMid
<1>3. bound \in Nat
  BY ScaleAssumption, SMT
<1> HIDE DEF s, b, bound
<1>4. s * b <= row.mid * b
  BY <1>1, <1>2, SMT
<1>5. s * b \in Nat /\ row.mid * b \in Nat /\ 2 * row.mid * b = 2 * (row.mid * b)
  BY <1>1, <1>2, SMT
<1> QED
  BY <1>2, <1>3, <1>4, <1>5, SMT DEF s, b, bound

(* The destination amounts of a rate. *)
LEMMA AmountIsNearest ==
    ASSUME NEW amount \in Nat, NEW rate \in Nat
    PROVE  LET k == DestinationAmount(amount, rate)
           IN /\ k \in Nat
              /\ 2 * (k * RateScale) <= 2 * (amount * rate) + RateScale
              /\ 2 * (amount * rate) <= 2 * (k * RateScale) + RateScale
<1>1. amount * rate \in Nat
  BY SMT
<1> QED
  BY <1>1, ScaleAssumption, RoundingIsNearest DEF DestinationAmount

(* Whoever gives more, or at a better rate, never gets less, whatever the    *)
(* rounding (destination_amount in create_quote).                            *)
THEOREM MoreBuysNoLess ==
    ASSUME NEW amount \in Nat, NEW more \in Nat, amount <= more,
           NEW rate \in Nat, NEW better \in Nat, rate <= better
    PROVE  DestinationAmount(amount, rate) <= DestinationAmount(more, better)
<1>1. amount * rate \in Nat /\ more * rate \in Nat /\ more * better \in Nat
  BY SMT
<1>2. amount * rate <= more * rate
  BY SMT
<1>3. more * rate <= more * better
  BY SMT
<1>4. amount * rate <= more * better
  BY <1>1, <1>2, <1>3, SMT
<1> QED
  BY <1>1, <1>4, ScaleAssumption, RoundingIsMonotonic DEF DestinationAmount

(* Quoting an amount in two parts instead of one gains a cent of rounding at *)
(* most, and loses one at most.                                              *)
THEOREM SplittingGainsAtMostACent ==
    ASSUME NEW one \in Nat, NEW two \in Nat, NEW rate \in Nat
    PROVE  LET whole == DestinationAmount(one + two, rate)
               parts == DestinationAmount(one, rate) + DestinationAmount(two, rate)
           IN parts <= whole + 1 /\ whole <= parts + 1
<1> DEFINE j == DestinationAmount(one + two, rate)
           k == DestinationAmount(one, rate)
           l == DestinationAmount(two, rate)
<1> DEFINE S == RateScale
<1>1. S \in Nat /\ S > 0
  BY ScaleAssumption
<1>2. /\ k \in Nat /\ 2 * (k * S) <= 2 * (one * rate) + S /\ 2 * (one * rate) <= 2 * (k * S) + S
      /\ l \in Nat /\ 2 * (l * S) <= 2 * (two * rate) + S /\ 2 * (two * rate) <= 2 * (l * S) + S
  BY AmountIsNearest
<1>3. /\ j \in Nat
      /\ 2 * (j * S) <= 2 * ((one + two) * rate) + S
      /\ 2 * ((one + two) * rate) <= 2 * (j * S) + S
  BY one + two \in Nat, AmountIsNearest
<1>4. (one + two) * rate = one * rate + two * rate /\ one * rate \in Nat /\ two * rate \in Nat
  BY SMT
<1> HIDE DEF j, k, l, S
<1>5. /\ (k + l) * S = k * S + l * S
      /\ k * S \in Nat /\ l * S \in Nat /\ j * S \in Nat
  BY <1>1, <1>2, <1>3, SMT
<1>6. k + l <= j + 1
  <2> SUFFICES ASSUME k + l >= j + 2
               PROVE  FALSE
    BY <1>2, <1>3, SMT
  <2>1. (k + l) * S >= (j + 2) * S
    BY <1>1, <1>2, <1>3, SMT
  <2>2. (j + 2) * S = j * S + 2 * S
    BY <1>1, <1>3, SMT
  <2> QED
    BY <1>1, <1>2, <1>3, <1>4, <1>5, <2>1, <2>2, SMT
<1>7. j <= k + l + 1
  <2> SUFFICES ASSUME j >= (k + l) + 2
               PROVE  FALSE
    BY <1>2, <1>3, SMT
  <2>1. j * S >= ((k + l) + 2) * S
    BY <1>1, <1>2, <1>3, SMT
  <2>2. ((k + l) + 2) * S = (k + l) * S + 2 * S
    BY <1>1, <1>2, SMT
  <2> QED
    BY <1>1, <1>2, <1>3, <1>4, <1>5, <2>1, <2>2, SMT
<1> QED
  BY <1>6, <1>7 DEF j, k, l

(* The round trip in money: what comes back of an amount that was exchanged  *)
(* and exchanged back over one stored rate is that amount at most, but for   *)
(* the rounding of the second rate, half a cent there, worth `k' here, and   *)
(* half a cent here.                                                         *)
THEOREM RoundTripInMoney ==
    ASSUME NEW row, NEW other, other # row.base, row.mid \in Nat \ {0},
           row.sell \in 0 .. BasisPoints, row.buy \in Nat, NEW amount \in Nat
    PROVE  LET s == ExecutableRate(row, row.base)
               k == ExecutableRate(row, other)
               there == DestinationAmount(amount, s)
               back == DestinationAmount(there, k)
               unit == RateScale * RateScale
           IN 2 * (back * unit) <= 2 * (amount * unit) + amount * row.mid + RateScale * k + unit
<1> DEFINE s == ExecutableRate(row, row.base)
           k == ExecutableRate(row, other)
           b == DestinationAmount(amount, s)
           c == DestinationAmount(b, k)
           S == RateScale
           m == row.mid
<1>1. S \in Nat /\ m \in Nat
  BY ScaleAssumption
<1>2. s \in Nat /\ k \in Nat
  BY SellingPaysAtMostMid, BuyingCostsAtLeastMid
<1>3. 2 * (s * k) <= 2 * (S * S) + m
  <2>1. 2 * (s * k) <= 2 * S * S + m
    BY NoGainFromRoundTrip
  <2>2. 2 * S * S = 2 * (S * S)
    BY <1>1, SMT
  <2> QED
    BY <2>1, <2>2
<1>4. b \in Nat /\ 2 * (b * S) <= 2 * (amount * s) + S
  BY <1>2, AmountIsNearest
<1>5. c \in Nat /\ 2 * (c * S) <= 2 * (b * k) + S
  <2> HIDE DEF b, k
  <2> QED
    BY <1>2, <1>4, AmountIsNearest
<1> HIDE DEF s, k, b, c, S, m
<1>6. (2 * (c * S)) * S <= (2 * (b * k) + S) * S
  <2>1. 2 * (c * S) \in Nat /\ 2 * (b * k) + S \in Nat
    BY <1>1, <1>2, <1>4, <1>5, SMT
  <2> QED
    BY <1>1, <1>5, <2>1, SMT
<1>7. (2 * (b * S)) * k <= (2 * (amount * s) + S) * k
  <2>1. 2 * (b * S) \in Nat /\ 2 * (amount * s) + S \in Nat
    BY <1>1, <1>2, <1>4, SMT
  <2> QED
    BY <1>2, <1>4, <2>1, SMT
<1>8. amount * (2 * (s * k)) <= amount * (2 * (S * S) + m)
  <2>1. 2 * (s * k) \in Nat /\ 2 * (S * S) + m \in Nat
    BY <1>1, <1>2, SMT
  <2> QED
    BY <1>3, <2>1, SMT
<1>9. /\ (2 * (c * S)) * S = 2 * (c * (S * S))
      /\ (2 * (b * k) + S) * S = (2 * (b * S)) * k + S * S
  BY <1>1, <1>2, <1>4, <1>5, SMT
<1>10. (2 * (amount * s) + S) * k = amount * (2 * (s * k)) + S * k
  BY <1>1, <1>2, SMT
<1>11. amount * (2 * (S * S) + m) = 2 * (amount * (S * S)) + amount * m
  BY <1>1, SMT
<1>12. /\ (2 * (b * S)) * k \in Nat /\ amount * (2 * (s * k)) \in Nat
       /\ S * k \in Nat /\ S * S \in Nat /\ amount * m \in Nat
       /\ 2 * (c * (S * S)) \in Nat /\ 2 * (amount * (S * S)) \in Nat
  BY <1>1, <1>2, <1>4, <1>5, SMT
<1>13. 2 * (c * (S * S)) <= 2 * (amount * (S * S)) + amount * m + S * k + S * S
  BY <1>6, <1>7, <1>8, <1>9, <1>10, <1>11, <1>12, SMT
<1> QED
  BY <1>13 DEF s, k, b, c, S, m
=============================================================================
