------------------------------ MODULE FxRateBook ------------------------------
(***************************************************************************)
(* What the rate store promises to quotes and to auditors (SPEC "Rate      *)
(* Refresh Contract"): a refresh appears at once and whole, or as a failed *)
(* attempt only; the current rates are those of the latest refresh that    *)
(* completed; every quote is priced, by way of FxPricing, from one         *)
(* completed refresh that was fresh when the quote was created.            *)
(***************************************************************************)
EXTENDS FxPricing, FiniteSets

CONSTANTS Currencies, CanonicalPairs, BuySpread, SellSpread, Freshness, Amounts,
          Attempts, MaxQuotes, LastInstant, None

VARIABLES refreshes, snapshots, current, quotes

vars == <<refreshes, snapshots, current, quotes>>

Pairs == {CanonicalPairs[i] : i \in 1 .. Len(CanonicalPairs)}
Instants == 0 .. LastInstant

Init ==
    /\ refreshes = [a \in Attempts |-> None]
    /\ snapshots = {}
    /\ current = [p \in Pairs |-> None]
    /\ quotes = {}

Completed(a) == refreshes[a] # None /\ refreshes[a].status = "completed"

Row(s) == [base |-> s.base, quote |-> s.quote, mid |-> s.mid, buy |-> BuySpread,
           sell |-> SellSpread, refresh |-> s.refresh, updated |-> s.fetched]

(* Refresh a's rates become the history's latest and the current ones.       *)
Publish(a, base, at) ==
    /\ refreshes[a] = None
    /\ \A b \in Attempts : Completed(b) => refreshes[b].fetched <= at
    /\ refreshes' = [refreshes EXCEPT ![a] =
         [status |-> "completed", base |-> base, fetched |-> at]]
    /\ LET new == snapshots' \ snapshots
       IN /\ snapshots \subseteq snapshots'
          /\ \A s \in new : s.refresh = a /\ s.fetched = at
          /\ \A p \in Pairs : \E s \in new :
                /\ {t \in new : <<t.base, t.quote>> = p} = {s}
                /\ current'[p] = Row(s)
    /\ DOMAIN current' = Pairs
    /\ UNCHANGED quotes

Reject(a, at) ==
    /\ refreshes[a] = None
    /\ refreshes' = [refreshes EXCEPT ![a] =
         [status |-> "failed", base |-> None, fetched |-> at]]
    /\ UNCHANGED <<snapshots, current, quotes>>

(* The rates are refresh a's, though a later one may be current by now.      *)
Price(source, destination, amount, a, at) ==
    LET book == {Row(s) : s \in {t \in snapshots : t.refresh = a}}
        route == BuildRoute(book, source, destination)
        row(i) == CHOOSE r \in FindCurrentRate(book, route[i], route[i + 1]) : TRUE
        legs == [i \in 1 .. Len(route) - 1 |-> PriceLeg(row(i), route[i], route[i + 1])]
    IN /\ Completed(a)
       /\ at - refreshes[a].fetched \in 0 .. Freshness
       /\ quotes' = quotes \cup
            {[request |-> [source |-> source, destination |-> destination, amount |-> amount],
              legs |-> legs, rate |-> RouteRate(legs),
              amount |-> DestinationAmount(amount, RouteRate(legs)), created |-> at]}
       /\ UNCHANGED <<refreshes, snapshots, current>>

Next ==
    \E a \in Attempts, at \in Instants :
        \/ \E base \in Currencies : Publish(a, base, at)
        \/ Reject(a, at)
        \/ \E source, destination \in Currencies, amount \in Amounts :
             Price(source, destination, amount, a, at)

Spec == Init /\ [][Next]_vars
=============================================================================
