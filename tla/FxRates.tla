-------------------------------- MODULE FxRates --------------------------------
(***************************************************************************)
(* Rate refreshes and the quotes priced from their rates: POST             *)
(* /rate-refreshes (refresh_rates), POST /quotes (create_quote) and the    *)
(* freshness that GET /readyz reports, with concurrent refreshes and       *)
(* quotes on one database, a provider that answers, times out or sends     *)
(* nonsense, and requests that fail or die on the way.                     *)
(*                                                                         *)
(* A refresh holds a transaction-scoped advisory lock from before its call *)
(* to the provider until its transaction ends; what it has stored until    *)
(* then (`staged') nobody else sees.  A failed refresh first rolls back,   *)
(* which releases the lock, and records its failure in a new transaction.  *)
(***************************************************************************)
EXTENDS FxPricing, FiniteSets

CONSTANTS
    Currencies,
    CanonicalPairs,  \* the stored pairs <<base, quote>>, in storing order
    RawScale,        \* provider's units in one stored unit of a rate
    Payloads,        \* well-formed provider answers: base currency and rates
    BuySpread, SellSpread,
    Freshness,       \* rate_freshness_seconds, in clock steps
    Amounts,         \* source amounts of quote requests
    MaxRate,         \* largest rate a NUMERIC(20,10) column holds, in stored units
    MaxMoney,        \* largest amount a NUMERIC(20,2) column holds, in cents
    Refreshers,      \* request threads serving refreshes
    Quoters,         \* request threads serving quotes
    Attempts,        \* identities a rate_refreshes row can have
    MaxQuotes,       \* bound: quotes considered
    LastInstant,     \* bound: the clock readings considered are 0 .. LastInstant
    None

ASSUME RatesAssumption ==
    /\ CanonicalPairs \in Seq(Currencies \X Currencies)
    /\ \A i, j \in 1 .. Len(CanonicalPairs) : CanonicalPairs[i] = CanonicalPairs[j] => i = j
    /\ RawScale \in Nat \ {0} /\ Freshness \in Nat /\ LastInstant \in Nat
    /\ BuySpread \in Nat /\ SellSpread \in 0 .. BasisPoints
    /\ Amounts \subseteq Nat /\ MaxRate \in Nat /\ MaxMoney \in Nat
    /\ MaxQuotes \in Nat

(* What fetch lets through: every supported currency but the base has a rate. *)
ASSUME PayloadsAssumption ==
    \A p \in Payloads : /\ p.base \in Currencies
                        /\ \A c \in Currencies \ {p.base} : p.rates[c] \in Nat

(* The first n pairs. *)
PairsUpTo(n) == {CanonicalPairs[i] : i \in 1 .. n}

Pairs == PairsUpTo(Len(CanonicalPairs))

(* The stored pairs connect every two currencies. *)
ASSUME RoutesAssumption ==
    LET rated(c, d) == <<c, d>> \in Pairs \/ <<d, c>> \in Pairs
    IN \A c, d \in Currencies :
         c # d => \/ rated(c, d)
                  \/ \E pivot \in {Usd, Eur} \ {c, d} : rated(c, pivot) /\ rated(pivot, d)

Instants == 0 .. LastInstant

(* The body of POST /quotes, of two different currencies. *)
Requests == {r \in [source : Currencies, destination : Currencies, amount : Amounts] :
                r.source # r.destination}

VARIABLES
    \* committed rows
    refreshes, snapshots, current, quotes,
    advisory,   \* holder of the advisory lock `rate_refresh'
    now,
    \* the refreshing threads
    pc,         \* where the request is
    attempt,    \* the refresh being attempted, or the last one
    started,    \* the time read at its start
    payload,    \* what the provider answered
    staged,     \* rate_snapshots rows flushed and not committed
    failure,    \* how the provider failed the attempt; None if it did not
    \* the quoting threads
    asked,      \* the request being served
    book        \* the current rates it has loaded; None before

rates == <<refreshes, snapshots, current, quotes>>
refreshing == <<advisory, pc, attempt, started, payload, staged, failure>>
quoting == <<asked, book>>
vars == <<rates, now, refreshing, quoting>>

RefreshRow == [status : {"completed"}, base : Currencies, fetched : Instants]
              \cup [status : {"failed"}, base : {None}, fetched : Instants]
Snapshot == [refresh : Attempts, base : Currencies, quote : Currencies,
             mid : Nat, fetched : Instants]
CurrentRow == [base : Currencies, quote : Currencies, mid : Nat, buy : Nat,
               sell : 0 .. BasisPoints, refresh : Attempts, updated : Instants]
Leg == [source : Currencies, destination : Currencies, mid : Nat, rate : Nat,
        refresh : Attempts]
Failures == {"refused", "unexpected_payload"}

ASSUME NoneAssumption ==
    /\ None \notin Currencies \cup Attempts \cup Refreshers \cup Failures
    /\ None \notin Payloads /\ None \notin Requests
    /\ None \notin RefreshRow /\ None \notin CurrentRow

TypeOK ==
    /\ refreshes \in [Attempts -> RefreshRow \cup {None}]
    /\ snapshots \subseteq Snapshot
    /\ current \in [Pairs -> CurrentRow \cup {None}]
    /\ \A q \in quotes : /\ DOMAIN q = {"request", "legs", "rate", "amount", "created"}
                         /\ q.request \in Requests
                         /\ q.legs \in Seq(Leg)
                         /\ q.rate \in Nat /\ q.amount \in Nat
                         /\ q.created \in Instants
    /\ advisory \in Refreshers \cup {None}
    /\ now \in Instants
    /\ pc \in [Refreshers -> {"idle", "lock", "fetch", "store", "respond", "record"}]
    /\ attempt \in [Refreshers -> Attempts \cup {None}]
    /\ started \in [Refreshers -> Instants]
    /\ payload \in [Refreshers -> Payloads \cup {None}]
    /\ staged \in [Refreshers -> SUBSET Snapshot]
    /\ failure \in [Refreshers -> Failures \cup {None}]
    /\ asked \in [Quoters -> Requests \cup {None}]
    /\ book \in [Quoters -> (SUBSET CurrentRow) \cup {None}]

Init ==
    /\ refreshes = [a \in Attempts |-> None]
    /\ snapshots = {}
    /\ current = [p \in Pairs |-> None]
    /\ quotes = {}
    /\ advisory = None
    /\ now = 0
    /\ pc = [w \in Refreshers |-> "idle"]
    /\ attempt = [w \in Refreshers |-> None]
    /\ started = [w \in Refreshers |-> 0]
    /\ payload = [w \in Refreshers |-> None]
    /\ staged = [w \in Refreshers |-> {}]
    /\ failure = [w \in Refreshers |-> None]
    /\ asked = [u \in Quoters |-> None]
    /\ book = [u \in Quoters |-> None]

Tick ==
    /\ now + 1 \in Instants
    /\ now' = now + 1
    /\ UNCHANGED <<rates, refreshing, quoting>>

-----------------------------------------------------------------------------
(* refresh_rates *)

Goto(w, point) == pc' = [pc EXCEPT ![w] = point]

(* The call returns or raises, and its locals are gone. *)
Return(w) ==
    /\ Goto(w, "idle")
    /\ started' = [started EXCEPT ![w] = 0]
    /\ payload' = [payload EXCEPT ![w] = None]

(* Mutant: a session-level lock, which a transaction does not release. *)
EndTransactionKeepingLock(w) ==
    /\ staged' = [staged EXCEPT ![w] = {}]
    /\ UNCHANGED advisory

(* Commit and rollback release the advisory lock. *)
EndTransaction(w) ==
    /\ staged' = [staged EXCEPT ![w] = {}]
    /\ advisory' = IF advisory = w THEN None ELSE advisory

(* The id of the refresh row is drawn when it is inserted; drawing it here   *)
(* bounds the refreshes by Attempts.                                         *)
BeginRefresh(w, a) ==
    /\ pc[w] = "idle"
    /\ refreshes[a] = None /\ \A v \in Refreshers : attempt[v] # a
    /\ attempt' = [attempt EXCEPT ![w] = a]
    /\ failure' = [failure EXCEPT ![w] = None]
    /\ Goto(w, "lock")
    /\ UNCHANGED <<rates, now, advisory, started, payload, staged, quoting>>

(* Mutant: the refresh does not wait for the lock. *)
AcquireLockNever(w) ==
    /\ pc[w] = "lock"
    /\ started' = [started EXCEPT ![w] = now]
    /\ Goto(w, "fetch")
    /\ UNCHANGED <<rates, now, advisory, attempt, payload, staged, failure, quoting>>

(* pg_advisory_xact_lock, and then the time that becomes fetched_at and      *)
(* last_updated_at.                                                          *)
AcquireLock(w) ==
    /\ pc[w] = "lock"
    /\ advisory = None
    /\ advisory' = w
    /\ started' = [started EXCEPT ![w] = now]
    /\ Goto(w, "fetch")
    /\ UNCHANGED <<rates, now, attempt, payload, staged, failure, quoting>>

(* The provider's answer passes the checks of fetch. *)
FetchRates(w, p) ==
    /\ pc[w] = "fetch"
    /\ payload' = [payload EXCEPT ![w] = p]
    /\ Goto(w, "store")
    /\ UNCHANGED <<rates, now, advisory, attempt, started, staged, failure, quoting>>

(* _record_failed_refresh, first part: the rollback. The provider timed out, *)
(* or its answer or a rate in it is unusable.                                *)
RefuseRates(w) ==
    /\ pc[w] = "fetch"
    /\ EndTransaction(w)
    /\ failure' = [failure EXCEPT ![w] = "refused"]
    /\ Goto(w, "record")
    /\ UNCHANGED <<rates, now, attempt, started, payload, quoting>>

(* Mutant: the failed attempt is recorded with the status of a good one. *)
RecordFailureAsCompleted(w) ==
    /\ pc[w] = "record"
    /\ refreshes' = [refreshes EXCEPT ![attempt[w]] =
         [status |-> "completed", base |-> None, fetched |-> started[w]]]
    /\ Return(w)
    /\ UNCHANGED <<snapshots, current, quotes, now, advisory, attempt, staged, failure, quoting>>

(* Second part: the failed row, in a transaction of its own. *)
RecordFailure(w) ==
    /\ pc[w] = "record"
    /\ refreshes' = [refreshes EXCEPT ![attempt[w]] =
         [status |-> "failed", base |-> None, fetched |-> started[w]]]
    /\ Return(w)
    /\ UNCHANGED <<snapshots, current, quotes, now, advisory, attempt, staged, failure, quoting>>

(* An exception that neither except clause of refresh_rates names: the       *)
(* session is closed and the client gets internal_error.                     *)
Abort(w, code) ==
    /\ EndTransaction(w)
    /\ failure' = [failure EXCEPT ![w] = code]
    /\ Return(w)
    /\ UNCHANGED <<rates, now, attempt, quoting>>

(* JSON that is not an object has no get method: AttributeError. *)
MisreadPayload(w) == pc[w] = "fetch" /\ Abort(w, "unexpected_payload")

(* The provider's rate of a currency, in provider's units. *)
PairMidRate(p, quote) ==
    IF quote = p.base THEN RawScale * RateScale ELSE p.rates[quote]

MidRate(p, quote) == RoundHalfEven(PairMidRate(p, quote), RawScale)

(* The pairs that rows are about. *)
PairsOf(rows) == {<<s.base, s.quote>> : s \in rows}

(* The storing loop is at the i-th pair. *)
AtPair(w, i) ==
    /\ pc[w] = "store"
    /\ i \in 1 .. Len(CanonicalPairs)
    /\ PairsOf(staged[w]) = PairsUpTo(i - 1)

(* Mutant: pair_mid_rate is asked for the wrong side of the pair. *)
SnapshotRowOfBase(w, pair) ==
    [refresh |-> attempt[w], base |-> pair[1], quote |-> pair[2],
     mid |-> MidRate(payload[w], pair[1]), fetched |-> started[w]]

SnapshotRow(w, pair) ==
    [refresh |-> attempt[w], base |-> pair[1], quote |-> pair[2],
     mid |-> MidRate(payload[w], pair[2]), fetched |-> started[w]]

(* One round of _store_pair_rows: insert the snapshot and upsert the current *)
(* row, which waits for another transaction's upsert of the same pair.       *)
StorePair(w, i) ==
    /\ AtPair(w, i)
    /\ MidRate(payload[w], CanonicalPairs[i][2]) <= MaxRate
    /\ \A v \in Refreshers \ {w} : CanonicalPairs[i] \notin PairsOf(staged[v])
    /\ staged' = [staged EXCEPT ![w] = @ \cup {SnapshotRow(w, CanonicalPairs[i])}]
    /\ UNCHANGED <<rates, now, advisory, pc, attempt, started, payload, failure, quoting>>

(* A rate that fetch accepts and the column does not hold: DataError.        *)
OverflowRate(w, i) ==
    /\ AtPair(w, i)
    /\ MidRate(payload[w], CanonicalPairs[i][2]) > MaxRate
    /\ Abort(w, "unexpected_payload")

(* Mutant: the upsert leaves rate_snapshot_id out of its set clause. *)
UpsertKeepingSnapshot(old, s) ==
    [base |-> s.base, quote |-> s.quote, mid |-> s.mid, buy |-> BuySpread, sell |-> SellSpread,
     refresh |-> IF old = None THEN s.refresh ELSE old.refresh, updated |-> s.fetched]

Upsert(old, s) ==
    [base |-> s.base, quote |-> s.quote, mid |-> s.mid, buy |-> BuySpread, sell |-> SellSpread,
     refresh |-> s.refresh, updated |-> s.fetched]

(* Mutant: the refresh is committed after its first pair. *)
CommitRefreshEarly(w) ==
    /\ pc[w] = "store"
    /\ staged[w] # {}
    /\ refreshes' = [refreshes EXCEPT ![attempt[w]] =
         [status |-> "completed", base |-> payload[w].base, fetched |-> started[w]]]
    /\ snapshots' = snapshots \cup staged[w]
    /\ current' = [p \in Pairs |->
         IF \E s \in staged[w] : <<s.base, s.quote>> = p
         THEN Upsert(current[p], CHOOSE s \in staged[w] : <<s.base, s.quote>> = p)
         ELSE current[p]]
    /\ EndTransaction(w)
    /\ Goto(w, "respond")
    /\ UNCHANGED <<quotes, now, attempt, started, payload, failure, quoting>>

(* Mutant: the audit row is stamped at the commit. *)
CommitRefreshStampedLate(w) ==
    /\ pc[w] = "store"
    /\ PairsOf(staged[w]) = Pairs
    /\ refreshes' = [refreshes EXCEPT ![attempt[w]] =
         [status |-> "completed", base |-> payload[w].base, fetched |-> now]]
    /\ snapshots' = snapshots \cup staged[w]
    /\ current' = [p \in Pairs |->
         Upsert(current[p], CHOOSE s \in staged[w] : <<s.base, s.quote>> = p)]
    /\ EndTransaction(w)
    /\ Goto(w, "respond")
    /\ UNCHANGED <<quotes, now, attempt, started, payload, failure, quoting>>

(* The audit row, the snapshots and the current rates, in one commit. *)
CommitRefresh(w) ==
    /\ pc[w] = "store"
    /\ PairsOf(staged[w]) = Pairs
    /\ refreshes' = [refreshes EXCEPT ![attempt[w]] =
         [status |-> "completed", base |-> payload[w].base, fetched |-> started[w]]]
    /\ snapshots' = snapshots \cup staged[w]
    /\ current' = [p \in Pairs |->
         Upsert(current[p], CHOOSE s \in staged[w] : <<s.base, s.quote>> = p)]
    /\ EndTransaction(w)
    /\ Goto(w, "respond")
    /\ UNCHANGED <<quotes, now, attempt, started, payload, failure, quoting>>

(* The log and the response read the committed row again. *)
RespondRefresh(w) ==
    /\ pc[w] = "respond"
    /\ Return(w)
    /\ UNCHANGED <<rates, now, advisory, attempt, staged, failure, quoting>>

(* The database fails a statement, or the process or its connection dies.    *)
Fault(w) == pc[w] # "idle" /\ Abort(w, None)

-----------------------------------------------------------------------------
(* create_quote and freshness *)

CurrentRates == {current[p] : p \in Pairs} \ {None}

(* A request, and its load_current_rate_book: one SELECT, hence one committed *)
(* snapshot.                                                                  *)
LoadBook(u, r) ==
    /\ asked[u] = None
    /\ asked' = [asked EXCEPT ![u] = r]
    /\ book' = [book EXCEPT ![u] = CurrentRates]
    /\ UNCHANGED <<rates, now, refreshing>>

(* Mutant: any rates will do. *)
FreshIgnoringAge(b) == b # {}

(* The newest row decides. *)
Fresh(b) == \E r \in b : r.updated >= now - Freshness

Route(b, r) == BuildRoute(b, r.source, r.destination)

RateOf(b, source, destination) == CHOOSE row \in FindCurrentRate(b, source, destination) : TRUE

Legs(b, route) ==
    [i \in 1 .. Len(route) - 1 |->
        PriceLeg(RateOf(b, route[i], route[i + 1]), route[i], route[i + 1])]

Idle(u) ==
    /\ asked' = [asked EXCEPT ![u] = None]
    /\ book' = [book EXCEPT ![u] = None]

QuoteFor(b, r, at) ==
    LET legs == Legs(b, Route(b, r))
    IN [request |-> r, legs |-> legs, rate |-> RouteRate(legs),
        amount |-> DestinationAmount(r.amount, RouteRate(legs)), created |-> at]

(* A zero mid rate is a division by zero in a buy leg.                       *)
CanPrice(b, r) ==
    LET route == Route(b, r)
    IN /\ route # <<>>
       /\ \A i \in 1 .. Len(route) - 1 :
             Priceable(RateOf(b, route[i], route[i + 1]), route[i])

(* The columns hold the quote and its legs.                                  *)
Storable(q) ==
    /\ \A i \in 1 .. Len(q.legs) : q.legs[i].rate <= MaxRate
    /\ q.rate <= MaxRate /\ q.amount <= MaxMoney

(* Freshness, route, price and the insert of the quote with its legs.        *)
PriceQuote(u) ==
    /\ asked[u] # None
    /\ Fresh(book[u])
    /\ CanPrice(book[u], asked[u])
    /\ Storable(QuoteFor(book[u], asked[u], now))
    /\ Cardinality(quotes) < MaxQuotes
    /\ quotes' = quotes \cup {QuoteFor(book[u], asked[u], now)}
    /\ Idle(u)
    /\ UNCHANGED <<refreshes, snapshots, current, now, refreshing>>

(* rates_stale, internal_error for a quote that cannot be computed or        *)
(* stored, or the death of the request.                                      *)
RefuseQuote(u) ==
    /\ asked[u] # None
    /\ Idle(u)
    /\ UNCHANGED <<rates, now, refreshing>>

(* Mutant: the cutoff itself counts as stale. *)
RatesFreshnessStatusStrict ==
    IF CurrentRates = {} THEN "unavailable"
    ELSE LET latest == CHOOSE r \in CurrentRates : \A s \in CurrentRates : s.updated <= r.updated
         IN IF latest.updated <= now - Freshness THEN "stale" ELSE "fresh"

(* What GET /readyz reports of the rates. *)
RatesFreshnessStatus ==
    IF CurrentRates = {} THEN "unavailable"
    ELSE LET latest == CHOOSE r \in CurrentRates : \A s \in CurrentRates : s.updated <= r.updated
         IN IF latest.updated < now - Freshness THEN "stale" ELSE "fresh"

-----------------------------------------------------------------------------
RefreshStep(w) ==
    \/ \E p \in Payloads : FetchRates(w, p)
    \/ RefuseRates(w) \/ MisreadPayload(w)
    \/ \E i \in 1 .. Len(CanonicalPairs) : StorePair(w, i) \/ OverflowRate(w, i)
    \/ RecordFailure(w) \/ CommitRefresh(w) \/ RespondRefresh(w)

Next ==
    \/ Tick
    \/ \E w \in Refreshers :
        \/ \E a \in Attempts : BeginRefresh(w, a)
        \/ AcquireLock(w) \/ RefreshStep(w) \/ Fault(w)
    \/ \E u \in Quoters :
        \/ \E r \in Requests : LoadBook(u, r)
        \/ PriceQuote(u) \/ RefuseQuote(u)

Spec == Init /\ [][Next]_vars

(* The call to the provider ends by its answer or its timeout, and           *)
(* PostgreSQL grants the advisory lock to those queued for it in turn.       *)
FairSpec ==
    Spec /\ \A w \in Refreshers : WF_vars(RefreshStep(w)) /\ SF_vars(AcquireLock(w))

-----------------------------------------------------------------------------
(* The current rows as their snapshots, refresh a's, give them. *)
BookOf(a) == {Upsert(None, s) : s \in {t \in snapshots : t.refresh = a}}

Completed(a) == refreshes[a] # None /\ refreshes[a].status = "completed"

(* The current rates are those of one completed refresh, whole: no mix of    *)
(* two fetches, and every row says what the snapshot it cites says           *)
(* (_store_pair_rows; SPEC "Each current_rates.rate_snapshot_id must point   *)
(* to the snapshot row used for that current rate").                         *)
CurrentIsOneRefresh ==
    CurrentRates # {} =>
        \E a \in Attempts : /\ Completed(a)
                            /\ CurrentRates = BookOf(a)
                            /\ \A p \in Pairs : current[p] # None

(* Only a completed refresh leaves snapshots, one per canonical pair and of  *)
(* its own time; a failed one leaves its audit row alone                     *)
(* (_record_failed_refresh rolls back first).                                *)
SnapshotsAreWhole ==
    /\ \A s \in snapshots : Completed(s.refresh) /\ s.fetched = refreshes[s.refresh].fetched
    /\ \A a \in Attempts : Completed(a) =>
          PairsOf({s \in snapshots : s.refresh = a}) = Pairs

(* However the rates have changed since they were read, a quote is rebuilt   *)
(* from the stored snapshots of one refresh (QuoteLeg), and it was created   *)
(* while that refresh was fresh: the check of the newest row is enough for   *)
(* every leg (create_quote).                                                 *)
QuotesRebuild ==
    \A q \in quotes : \E a \in Attempts :
        /\ Completed(a)
        /\ q.created - refreshes[a].fetched \in 0 .. Freshness
        /\ q.legs = Legs(BookOf(a), Route(BookOf(a), q.request))
        /\ q.rate = RouteRate(q.legs)
        /\ q.amount = DestinationAmount(q.request.amount, q.rate)

(* GET /readyz reports "fresh" exactly while a quote between any two         *)
(* supported currencies passes create_quote's freshness check and finds a    *)
(* route.                                                                    *)
ReadyMeansQuotable ==
    RatesFreshnessStatus = "fresh" <=>
        /\ Fresh(CurrentRates)
        /\ \A r \in Requests : Route(CurrentRates, r) # <<>>

(* No leg beats the mid rate it is priced from: selling the base pays at most *)
(* the mid rate, and buying it back costs at least that, but for half a unit  *)
(* of rounding (price_leg; SPEC "buy" and "sell" spreads).                    *)
LegsFavourTheHouse ==
    \A q \in quotes : \A i \in 1 .. Len(q.legs) :
        LET leg == q.legs[i]
        IN IF <<leg.source, leg.destination>> \in Pairs THEN leg.rate <= leg.mid
           ELSE 2 * leg.mid * leg.rate <= 2 * RateScale * RateScale + leg.mid

(* A current rate is never replaced by one fetched earlier: refreshes start  *)
(* their clock under the advisory lock (refresh_rates).                      *)
RatesNeverRegress ==
    [][\A p \in Pairs : current[p] # None =>
          current'[p] # None /\ current'[p].updated >= current[p].updated]_vars

(* The rates a refresh leaves are those of one answer of the provider, each  *)
(* under its own currency and rounded once, and the refresh names the base   *)
(* of that answer (pair_mid_rate, _persist_successful_refresh).              *)
OneAnswerPerRefresh ==
    \A a \in Attempts : Completed(a) =>
        \E p \in Payloads :
            /\ p.base = refreshes[a].base
            /\ \A s \in snapshots : s.refresh = a => s.mid = MidRate(p, s.quote)

(* An attempt that the provider's answer ended, and that was answered, is on *)
(* record as failed (_record_failed_refresh), whatever else was refreshed    *)
(* between its rollback and its row.                                         *)
RefusalsAudited ==
    \A w \in Refreshers : pc[w] = "idle" /\ failure[w] = "refused" =>
        refreshes[attempt[w]] # None /\ refreshes[attempt[w]].status = "failed"

(* A refresh that waits for the lock is answered or dies (refresh_rates;     *)
(* lock_timeout is not set, and the provider call has a timeout).            *)
EveryRefreshEnds == \A w \in Refreshers : pc[w] = "lock" ~> pc[w] = "idle"

(* What the store promises, without requests, locks and time.                *)
RateBook == INSTANCE FxRateBook WITH refreshes <- refreshes, snapshots <- snapshots,
                                     current <- current, quotes <- quotes
RateBookSpec == RateBook!Spec

-----------------------------------------------------------------------------
(* pair_mid_rate: "every stored pair has the provider's base currency as its *)
(* base".                                                                    *)
SnapshotsHaveProviderBase ==
    \A s \in snapshots : s.base = refreshes[s.refresh].base

(* GET /readyz: "Report readiness for quote traffic; stale rates make the     *)
(* service not ready."                                                       *)
ReadyMeansPriceable ==
    RatesFreshnessStatus = "fresh" => \A r \in Requests : CanPrice(CurrentRates, r)

(* SPEC: "If refresh fails, the failed attempt is recorded in                *)
(* rate_refreshes", for failures that are the provider's.                    *)
UpstreamFailuresAudited ==
    \A w \in Refreshers :
        pc[w] = "idle" /\ failure[w] \in Failures => refreshes[attempt[w]] # None
=============================================================================
