--------------------------- MODULE FxRatesTheorems ---------------------------
(***************************************************************************)
(* What FxRates guarantees for any number of refreshing and quoting        *)
(* threads, of currencies, pairs and payloads: the consequences of the     *)
(* inductive invariant of FxRatesProofs, and the refinement of FxRateBook. *)
(***************************************************************************)
EXTENDS FxRatesProofs

(* The variables stay within their types (the request threads and the        *)
(* tables of FxRates).                                                       *)
THEOREM RatesTyped == Spec => []TypeOK
<1>1. IInv => TypeOK
  BY DEF IInv
<1> QED
  BY <1>1, Invariance, PTL

(* The current rates are always one completed refresh, whole.                *)
THEOREM CurrentWhole == Spec => []CurrentIsOneRefresh
<1>1. IInv => CurrentIsOneRefresh
  BY DEF IInv, StoreInv
<1> QED
  BY <1>1, Invariance, PTL

(* Only completed refreshes leave snapshots, and each leaves all of them.    *)
THEOREM HistoryWhole == Spec => []SnapshotsAreWhole
<1>1. IInv => SnapshotsAreWhole
  BY DEF IInv, StoreInv, HistoryInv
<1> QED
  BY <1>1, Invariance, PTL

(* Every stored quote is rebuilt from one refresh that was fresh when it was *)
(* created, whatever was refreshed between its read and its insert.          *)
THEOREM QuotesAuditable == Spec => []QuotesRebuild
<1>1. IInv => QuotesRebuild
  BY DEF IInv, StoreInv
<1> QED
  BY <1>1, Invariance, PTL

(* No stored leg beats its mid rate by more than the rounding.               *)
THEOREM SpreadsHold == Spec => []LegsFavourTheHouse
<1>1. IInv => LegsFavourTheHouse
  BY DEF IInv, StoreInv
<1> QED
  BY <1>1, Invariance, PTL

-----------------------------------------------------------------------------
(* Between any two currencies there is a route over one whole refresh.       *)
LEMMA WholeBookRoutes ==
    ASSUME NEW b, \A x, y : (\E row \in b : row.base = x /\ row.quote = y) <=> <<x, y>> \in Pairs,
           NEW r \in Requests
    PROVE  Route(b, r) # <<>>
<1> DEFINE x == r.source
           y == r.destination
           rated(c, d) == FindCurrentRate(b, c, d) # {}
           by(pivot) == /\ pivot \notin {x, y}
                        /\ rated(x, pivot) /\ rated(pivot, y)
<1>1. ASSUME NEW c, NEW d, <<c, d>> \in Pairs \/ <<d, c>> \in Pairs
      PROVE  rated(c, d)
  <2>1. CASE <<c, d>> \in Pairs
    BY <2>1 DEF FindCurrentRate
  <2>2. CASE <<d, c>> \in Pairs
    BY <2>2 DEF FindCurrentRate
  <2> QED
    BY <1>1, <2>1, <2>2
<1>2. x \in Currencies /\ y \in Currencies /\ x # y
  BY DEF Requests
<1>3. Route(b, r) = IF rated(x, y) THEN <<x, y>>
                    ELSE IF by(Usd) THEN <<x, Usd, y>>
                    ELSE IF by(Eur) THEN <<x, Eur, y>> ELSE <<>>
  BY DEF Route, BuildRoute
<1>4. rated(x, y) \/ by(Usd) \/ by(Eur)
  <2> HIDE DEF x, y, rated
  <2>1. \/ <<x, y>> \in Pairs \/ <<y, x>> \in Pairs
        \/ \E pivot \in {Usd, Eur} \ {x, y} :
             /\ <<x, pivot>> \in Pairs \/ <<pivot, x>> \in Pairs
             /\ <<pivot, y>> \in Pairs \/ <<y, pivot>> \in Pairs
    BY <1>2, RoutesAssumption
  <2> QED
    BY <1>1, <2>1
<1> HIDE DEF x, y, rated, by
<1> QED
  BY <1>3, <1>4

(* While the current rates are one refresh, their newest row is as old as    *)
(* any, and GET /readyz reports what a quote would find.                     *)
LEMMA ReadyBook == ASSUME IInv PROVE ReadyMeansQuotable
<1>1. CASE CurrentRates = {}
  BY <1>1 DEF ReadyMeansQuotable, RatesFreshnessStatus, Fresh
<1>2. CASE CurrentRates # {}
  <2>1. PICK a \in Attempts : Completed(a) /\ CurrentRates = BookOf(a)
    BY <1>2 DEF IInv, StoreInv, CurrentIsOneRefresh
  <2>2. /\ \A row \in CurrentRates : row.updated = refreshes[a].fetched
        /\ \A x, y : (\E row \in CurrentRates : row.base = x /\ row.quote = y) <=> <<x, y>> \in Pairs
    <3>1. TypeOK /\ HistoryInv
      BY DEF IInv, StoreInv
    <3> QED
      BY <2>1, <3>1, CompletedBook
  <2>3. refreshes[a].fetched \in Int /\ now \in Int /\ Freshness \in Int
    BY <2>1, RatesAssumption DEF IInv, TypeOK, Completed, RefreshRow, Instants
  <2>4. PICK rows : rows = CurrentRates
    OBVIOUS
  <2>5. \A r \in Requests : Route(rows, r) # <<>>
    BY <2>2, <2>4, WholeBookRoutes
  <2>6. Fresh(CurrentRates) <=> refreshes[a].fetched >= now - Freshness
    BY <1>2, <2>2 DEF Fresh
  <2> DEFINE latest == CHOOSE r \in CurrentRates : \A s \in CurrentRates : s.updated <= r.updated
  <2>7. latest \in CurrentRates
    <3>1. \E r \in CurrentRates : \A s \in CurrentRates : s.updated <= r.updated
      BY <1>2, <2>2, <2>3
    <3> QED
      BY <3>1, Zenon
  <2>8. latest.updated = refreshes[a].fetched
    BY <2>2, <2>7
  <2>9. RatesFreshnessStatus = IF latest.updated < now - Freshness THEN "stale" ELSE "fresh"
    BY <1>2, Zenon DEF RatesFreshnessStatus
  <2> HIDE DEF latest
  <2>10. RatesFreshnessStatus = "fresh" <=> refreshes[a].fetched >= now - Freshness
    <3>1. RatesFreshnessStatus = "fresh" <=> ~ (latest.updated < now - Freshness)
      BY <2>9
    <3> QED
      BY <2>3, <2>8, <3>1
  <2> QED
    BY <2>4, <2>5, <2>6, <2>10 DEF ReadyMeansQuotable
<1> QED
  BY <1>1, <1>2

(* GET /readyz says "fresh" exactly while quotes find fresh rates and a      *)
(* route.                                                                    *)
THEOREM ReadyIsQuotable == Spec => []ReadyMeansQuotable
BY ReadyBook, Invariance, PTL

-----------------------------------------------------------------------------
(* No current rate gives way to an older one. *)
LEMMA RegressionStep ==
    ASSUME IInv, [Next]_vars, NEW p \in Pairs, current[p] # None
    PROVE  current'[p] # None /\ current'[p].updated >= current[p].updated
<1>1. current[p] \in CurrentRow /\ current[p].updated \in Int
  BY RatesAssumption DEF IInv, TypeOK, CurrentRow, Instants
<1>2. CASE UNCHANGED current
  BY <1>1, <1>2
<1>3. ASSUME NEW w \in Refreshers, CommitRefresh(w)
      PROVE  current'[p] # None /\ current'[p].updated >= current[p].updated
  <2>1. PICK a \in Attempts, rows \in SUBSET Snapshot, at \in Instants : Published(a, rows, at)
    BY <1>3, CommitPublishes
  <2>2. TypeOK /\ HistoryInv
    BY DEF IInv, StoreInv
  <2>3. current'[p] # None
    BY <2>1, <2>2, PublishedBook
  <2>4. current'[p].updated = at
    BY <2>1 DEF Published, Upsert
  <2>5. current[p] \in CurrentRates
    BY DEF CurrentRates
  <2>6. PICK c \in Attempts : Completed(c) /\ CurrentRates = BookOf(c)
    BY <2>5 DEF IInv, StoreInv, CurrentIsOneRefresh
  <2>7. current[p].updated = refreshes[c].fetched
    BY <2>2, <2>5, <2>6, CompletedBook
  <2>8. refreshes[c].fetched <= at
    BY <2>1, <2>6 DEF Published
  <2>9. at \in Int
    BY RatesAssumption DEF Instants
  <2> QED
    BY <1>1, <2>3, <2>4, <2>7, <2>8, <2>9
<1>4. UNCHANGED current \/ \E w \in Refreshers : CommitRefresh(w)
  BY DEF Next, RefreshStep, vars, rates, Tick, BeginRefresh, AcquireLock, FetchRates, RefuseRates,
         MisreadPayload, Abort, StorePair, OverflowRate, RecordFailure, RespondRefresh, Fault,
         LoadBook, PriceQuote, RefuseQuote
<1> QED
  BY <1>2, <1>3, <1>4

(* A later refresh is never overtaken by an earlier one's rates.             *)
THEOREM NoRegression == Spec => RatesNeverRegress
<1> DEFINE Advances == \A p \in Pairs : current[p] # None =>
                          current'[p] # None /\ current'[p].updated >= current[p].updated
<1>1. IInv /\ [Next]_vars => [Advances]_vars
  BY RegressionStep
<1>2. Spec => [][Advances]_vars
  BY <1>1, Invariance, PTL DEF Spec
<1> QED
  BY <1>2 DEF RatesNeverRegress

-----------------------------------------------------------------------------
(* The audit of refused refreshes *)

(* A refused attempt is about to be recorded, or is on record as failed. *)
AuditInv(w) ==
    failure[w] = "refused" =>
        \/ pc[w] = "record"
        \/ /\ pc[w] = "idle" /\ attempt[w] \in Attempts
           /\ refreshes[attempt[w]] # None /\ refreshes[attempt[w]].status = "failed"

(* What another refresher does leaves an attempt's row alone.                *)
LEMMA AuditOfOthers ==
    ASSUME IInv, NEW w \in Refreshers, NEW v \in Refreshers \ {w}, AuditInv(w),
           \/ \E a \in Attempts : BeginRefresh(v, a)
           \/ AcquireLock(v) \/ RefreshStep(v) \/ Fault(v)
    PROVE  AuditInv(w)'
<1>1. TypeOK /\ WorkerInv(v)
  BY DEF IInv, RefreshersInv
<1>2. failure'[w] = failure[w] /\ pc'[w] = pc[w] /\ attempt'[w] = attempt[w]
  BY <1>1 DEF TypeOK, RefreshStep, BeginRefresh, AcquireLock, FetchRates, RefuseRates,
       MisreadPayload, StorePair, OverflowRate, Fault, Abort, RecordFailure, CommitRefresh,
       RespondRefresh, Goto, Return
<1>3. \/ UNCHANGED refreshes
      \/ /\ attempt[v] \in Attempts
         /\ \A a \in Attempts \ {attempt[v]} : refreshes'[a] = refreshes[a]
  <2>1. RecordFailure(v) \/ CommitRefresh(v) \/ UNCHANGED refreshes
    BY DEF RefreshStep, BeginRefresh, AcquireLock, FetchRates, RefuseRates, MisreadPayload,
         StorePair, OverflowRate, Fault, Abort, RespondRefresh, rates
  <2>2. RecordFailure(v) \/ CommitRefresh(v) =>
          /\ attempt[v] \in Attempts
          /\ \A a \in Attempts \ {attempt[v]} : refreshes'[a] = refreshes[a]
    BY <1>1 DEF TypeOK, WorkerInv, RecordFailure, CommitRefresh
  <2> QED
    BY <2>1, <2>2
<1>4. attempt[v] \in Attempts => attempt[w] # attempt[v]
  BY <1>1, NoneAssumption DEF WorkerInv
<1> QED
  BY <1>2, <1>3, <1>4 DEF AuditInv

(* A refresher's own step records the failure, forgets it with a new         *)
(* attempt, or dies without an answer.                                       *)
LEMMA AuditOfOwn ==
    ASSUME IInv, NEW w \in Refreshers, AuditInv(w),
           \/ \E a \in Attempts : BeginRefresh(w, a)
           \/ AcquireLock(w) \/ RefreshStep(w) \/ Fault(w)
    PROVE  AuditInv(w)'
<1>1. TypeOK /\ WorkerInv(w)
  BY DEF IInv, RefreshersInv
<1>2. /\ failure \in [Refreshers -> Failures \cup {None}] /\ None # "refused"
      /\ w \in DOMAIN failure /\ w \in DOMAIN pc /\ w \in DOMAIN attempt
  BY <1>1, NoneAssumption DEF TypeOK, Failures
<1>3. CASE \E a \in Attempts : BeginRefresh(w, a)
  BY <1>2, <1>3 DEF BeginRefresh, AuditInv
<1>4. CASE AcquireLock(w)
  BY <1>4 DEF AcquireLock, AuditInv
<1>5. CASE \E p \in Payloads : FetchRates(w, p)
  BY <1>5 DEF FetchRates, AuditInv
<1>6. CASE RefuseRates(w)
  BY <1>2, <1>6 DEF RefuseRates, Goto, AuditInv
<1>7. ASSUME NEW code, code # "refused", Abort(w, code)
      PROVE  AuditInv(w)'
  BY <1>2, <1>7 DEF Abort, AuditInv
<1>8. CASE \E i \in 1 .. Len(CanonicalPairs) : StorePair(w, i)
  BY <1>8 DEF StorePair, AtPair, AuditInv
<1>9. CASE RecordFailure(w)
  <2>1. attempt[w] \in Attempts /\ started[w] \in Instants
    BY <1>1, <1>9 DEF TypeOK, WorkerInv, RecordFailure
  <2>2. PICK row : row = [status |-> "failed", base |-> None, fetched |-> started[w]]
    OBVIOUS
  <2>3. row # None /\ row.status = "failed"
    BY <2>1, <2>2, NoneAssumption DEF RefreshRow
  <2>4. refreshes'[attempt[w]] = row /\ attempt' = attempt /\ pc'[w] = "idle"
    BY <1>1, <1>2, <1>9, <2>1, <2>2 DEF TypeOK, RecordFailure, Return, Goto
  <2> QED
    BY <2>1, <2>3, <2>4 DEF AuditInv
<1>10. CASE CommitRefresh(w)
  BY <1>10 DEF CommitRefresh, AuditInv
<1>11. CASE RespondRefresh(w)
  BY <1>11 DEF RespondRefresh, AuditInv
<1>12. MisreadPayload(w) \/ (\E i \in 1 .. Len(CanonicalPairs) : OverflowRate(w, i)) \/ Fault(w) =>
         \E code \in {"unexpected_payload", None} : Abort(w, code)
  BY DEF MisreadPayload, OverflowRate, Fault
<1> QED
  BY <1>2, <1>3, <1>4, <1>5, <1>6, <1>7, <1>8, <1>9, <1>10, <1>11, <1>12 DEF RefreshStep

(* An attempt that the provider's answer ended is on record as failed when   *)
(* its request is answered, whatever else was refreshed in between.          *)
THEOREM RefusalsOnRecord == Spec => []RefusalsAudited
<1> DEFINE Audits == \A w \in Refreshers : AuditInv(w)
<1>1. Init => Audits
  BY NoneAssumption DEF Init, AuditInv, Failures
<1>2. IInv /\ Audits /\ [Next]_vars => Audits'
  <2> SUFFICES ASSUME IInv, Audits, [Next]_vars, NEW w \in Refreshers
               PROVE  AuditInv(w)'
    OBVIOUS
  <2>1. AuditInv(w)
    OBVIOUS
  <2> HIDE DEF Audits
  <2> DEFINE Steps(v) == \/ \E a \in Attempts : BeginRefresh(v, a)
                         \/ AcquireLock(v) \/ RefreshStep(v) \/ Fault(v)
  <2>2. ASSUME UNCHANGED <<refreshes, pc, attempt, failure>>
        PROVE  AuditInv(w)'
    BY <2>1, <2>2 DEF AuditInv
  <2>3. ASSUME NEW v \in Refreshers \ {w}, Steps(v)
        PROVE  AuditInv(w)'
    BY <2>1, <2>3, AuditOfOthers
  <2>4. ASSUME Steps(w)
        PROVE  AuditInv(w)'
    BY <2>1, <2>4, AuditOfOwn
  <2>5. (\E v \in Refreshers : Steps(v)) \/ UNCHANGED <<refreshes, pc, attempt, failure>>
    <3> HIDE DEF Steps
    <3>1. (\E v \in Refreshers : Steps(v)) \/ Tick \/ UNCHANGED vars
          \/ \E u \in Quoters : (\E r \in Requests : LoadBook(u, r)) \/ PriceQuote(u) \/ RefuseQuote(u)
      BY DEF Next, Steps
    <3> QED
      BY <3>1 DEF Tick, LoadBook, PriceQuote, RefuseQuote, vars, rates, refreshing
  <2> HIDE DEF Steps
  <2> QED
    BY <2>2, <2>3, <2>4, <2>5
<1>3. Audits => RefusalsAudited
  BY DEF AuditInv, RefusalsAudited
<1> QED
  BY <1>1, <1>2, <1>3, Invariance, PTL DEF Spec

-----------------------------------------------------------------------------
(* The answers behind the rates *)

(* What a refresh has staged is its own answer's. *)
StagedInv(w) ==
    pc[w] = "store" => \A s \in staged[w] : s.mid = MidRate(payload[w], s.quote)

AnswersInv == OneAnswerPerRefresh /\ \A w \in Refreshers : StagedInv(w)

(* Only the steps of a refresher change what it has staged, and each adds a  *)
(* rate of the answer it holds.                                              *)
LEMMA StagedStep ==
    ASSUME IInv, AnswersInv, [Next]_vars, NEW w \in Refreshers
    PROVE  StagedInv(w)'
<1>1. TypeOK /\ WorkerInv(w) /\ StagedInv(w)
  BY DEF IInv, RefreshersInv, AnswersInv
<1>2. ASSUME UNCHANGED <<pc[w], staged[w], payload[w]>>
      PROVE  StagedInv(w)'
  BY <1>1, <1>2 DEF StagedInv, MidRate, PairMidRate
<1>3. ASSUME pc'[w] # "store"
      PROVE  StagedInv(w)'
  BY <1>3 DEF StagedInv
<1>4. ASSUME NEW p \in Payloads, FetchRates(w, p)
      PROVE  StagedInv(w)'
  <2>1. staged'[w] = {}
    BY <1>1, <1>4 DEF FetchRates, WorkerInv
  <2> QED
    BY <2>1 DEF StagedInv
<1>5. ASSUME NEW i \in 1 .. Len(CanonicalPairs), StorePair(w, i)
      PROVE  StagedInv(w)'
  <2>1. /\ pc[w] = "store" /\ payload' = payload
        /\ staged'[w] = staged[w] \cup {SnapshotRow(w, CanonicalPairs[i])}
    BY <1>1, <1>5 DEF TypeOK, StorePair, AtPair
  <2>2. \A s \in staged'[w] : s.mid = MidRate(payload[w], s.quote)
    BY <1>1, <2>1 DEF StagedInv, SnapshotRow
  <2> QED
    BY <2>1, <2>2 DEF StagedInv, MidRate, PairMidRate
<1>6. \/ UNCHANGED <<pc[w], staged[w], payload[w]>>
      \/ pc'[w] # "store"
      \/ \E p \in Payloads : FetchRates(w, p)
      \/ \E i \in 1 .. Len(CanonicalPairs) : StorePair(w, i)
  <2>1. ASSUME NEW v \in Refreshers, v # w,
               \/ \E a \in Attempts : BeginRefresh(v, a)
               \/ AcquireLock(v) \/ RefreshStep(v) \/ Fault(v)
        PROVE  UNCHANGED <<pc[w], staged[w], payload[w]>>
    BY <1>1, <2>1 DEF TypeOK, RefreshStep, BeginRefresh, AcquireLock, FetchRates, RefuseRates,
       MisreadPayload, StorePair, OverflowRate, Fault, Abort, RecordFailure, CommitRefresh,
       RespondRefresh, Goto, Return, EndTransaction
  <2>2. ASSUME \/ \E a \in Attempts : BeginRefresh(w, a)
               \/ AcquireLock(w) \/ Fault(w) \/ RefuseRates(w) \/ MisreadPayload(w)
               \/ \E i \in 1 .. Len(CanonicalPairs) : OverflowRate(w, i)
               \/ RecordFailure(w) \/ CommitRefresh(w) \/ RespondRefresh(w)
        PROVE  pc'[w] # "store"
    BY <1>1, <2>2 DEF TypeOK, BeginRefresh, AcquireLock, RefuseRates, MisreadPayload,
       OverflowRate, Fault, Abort, RecordFailure, CommitRefresh, RespondRefresh, Goto, Return
  <2>3. Tick \/ UNCHANGED vars
        \/ (\E u \in Quoters : (\E r \in Requests : LoadBook(u, r)) \/ PriceQuote(u) \/ RefuseQuote(u))
        => UNCHANGED <<pc[w], staged[w], payload[w]>>
    BY DEF Tick, LoadBook, PriceQuote, RefuseQuote, vars, refreshing
  <2> QED
    BY <2>1, <2>2, <2>3 DEF Next, RefreshStep
<1> QED
  BY <1>2, <1>3, <1>4, <1>5, <1>6

(* A commit publishes the staged rates of its answer, and no other refresh's *)
(* history changes.                                                          *)
LEMMA CommitAnswers ==
    ASSUME IInv, AnswersInv, NEW w \in Refreshers, CommitRefresh(w)
    PROVE  OneAnswerPerRefresh'
<1>1. TypeOK /\ WorkerInv(w) /\ StagedInv(w) /\ OneAnswerPerRefresh
  BY DEF IInv, RefreshersInv, AnswersInv
<1>2. PICK c \in Attempts, rows \in SUBSET Snapshot, at \in Instants :
        /\ c = attempt[w] /\ rows = staged[w] /\ at = started[w]
        /\ Published(c, rows, at)
  BY CommitPublishes
<1>3. PICK p \in Payloads : p = payload[w]
  BY <1>1 DEF WorkerInv, CommitRefresh
<1>4. refreshes'[c].base = p.base
  BY <1>1, <1>2, <1>3 DEF TypeOK, CommitRefresh
<1>5. \A s \in rows : s.refresh = c /\ s.mid = MidRate(p, s.quote)
  BY <1>1, <1>2, <1>3 DEF Published, StagedInv, CommitRefresh
<1>6. snapshots' = snapshots \cup rows /\ \A s \in snapshots : s.refresh # c
  BY <1>2 DEF Published
<1>7. \A a \in Attempts \ {c} : refreshes'[a] = refreshes[a]
  BY <1>2 DEF Published
<1> SUFFICES ASSUME NEW a \in Attempts, Completed(a)'
             PROVE  \E q \in Payloads :
                      /\ q.base = refreshes'[a].base
                      /\ \A s \in snapshots' : s.refresh = a => s.mid = MidRate(q, s.quote)
  BY DEF OneAnswerPerRefresh, MidRate, PairMidRate
<1>8. CASE a = c
  BY <1>3, <1>4, <1>5, <1>6, <1>8
<1>9. CASE a # c
  <2>1. Completed(a) /\ refreshes'[a] = refreshes[a]
    BY <1>7, <1>9 DEF Completed
  <2>2. PICK q \in Payloads :
          /\ q.base = refreshes[a].base
          /\ \A s \in snapshots : s.refresh = a => s.mid = MidRate(q, s.quote)
    BY <1>1, <2>1 DEF OneAnswerPerRefresh
  <2> QED
    BY <1>5, <1>6, <1>9, <2>1, <2>2
<1> QED
  BY <1>8, <1>9

(* The rates of a refresh are one answer of the provider's, each in its own  *)
(* currency's column, and the refresh names the base of that answer.         *)
THEOREM OneAnswer == Spec => []OneAnswerPerRefresh
<1>1. Init => AnswersInv
  BY DEF Init, AnswersInv, OneAnswerPerRefresh, StagedInv, Completed
<1>2. IInv /\ AnswersInv /\ [Next]_vars => AnswersInv'
  <2> SUFFICES ASSUME IInv, AnswersInv, [Next]_vars
               PROVE  AnswersInv'
    OBVIOUS
  <2>1. \A w \in Refreshers : StagedInv(w)'
    BY StagedStep
  <2>2. ASSUME UNCHANGED <<refreshes, snapshots>>
        PROVE  OneAnswerPerRefresh'
    BY <2>2 DEF AnswersInv, OneAnswerPerRefresh, Completed, MidRate, PairMidRate
  <2>3. ASSUME NEW w \in Refreshers, CommitRefresh(w)
        PROVE  OneAnswerPerRefresh'
    BY <2>3, CommitAnswers
  <2>4. ASSUME NEW w \in Refreshers, RecordFailure(w)
        PROVE  OneAnswerPerRefresh'
    <3>1. TypeOK /\ WorkerInv(w) /\ OneAnswerPerRefresh
      BY DEF IInv, RefreshersInv, AnswersInv
    <3>2. /\ snapshots' = snapshots /\ attempt[w] \in Attempts
          /\ refreshes'[attempt[w]].status = "failed"
          /\ \A a \in Attempts \ {attempt[w]} : refreshes'[a] = refreshes[a]
      BY <2>4, <3>1 DEF TypeOK, WorkerInv, RecordFailure
    <3>3. \A a \in Attempts : Completed(a)' => Completed(a) /\ refreshes'[a] = refreshes[a]
      BY <3>2 DEF Completed
    <3> QED
      BY <3>1, <3>2, <3>3 DEF OneAnswerPerRefresh, MidRate, PairMidRate
  <2>5. \/ UNCHANGED <<refreshes, snapshots>>
        \/ \E w \in Refreshers : CommitRefresh(w) \/ RecordFailure(w)
    BY DEF Next, RefreshStep, vars, rates, Tick, BeginRefresh, AcquireLock, FetchRates,
       RefuseRates, MisreadPayload, Abort, StorePair, OverflowRate, RespondRefresh, Fault,
       LoadBook, PriceQuote, RefuseQuote
  <2> QED
    BY <2>1, <2>2, <2>3, <2>4, <2>5 DEF AnswersInv
<1>3. AnswersInv => OneAnswerPerRefresh
  BY DEF AnswersInv
<1> QED
  BY <1>1, <1>2, <1>3, Invariance, PTL DEF Spec

(* A rate of an answer whose rates are above half a stored unit is stored as *)
(* a rate above zero.                                                        *)
LEMMA MidRateSurvives ==
    ASSUME NEW p \in Payloads, NEW c \in Currencies, c # p.base => 2 * p.rates[c] > RawScale
    PROVE  MidRate(p, c) # 0
<1> DEFINE raw == PairMidRate(p, c)
<1>1. RawScale \in Nat \ {0} /\ RateScale \in Nat \ {0}
  BY RatesAssumption, ScaleAssumption
<1>2. raw \in Nat /\ 2 * raw > RawScale
  <2>1. CASE c = p.base
    <3>1. raw = RawScale * RateScale
      BY <2>1 DEF PairMidRate
    <3>2. RawScale * RateScale \in Nat /\ RawScale * RateScale >= RawScale
      BY <1>1, SMT
    <3> HIDE DEF raw
    <3> QED
      BY <1>1, <3>1, <3>2, SMT
  <2>2. CASE c # p.base
    BY <2>2, PayloadsAssumption DEF PairMidRate
  <2> QED
    BY <2>1, <2>2
<1> HIDE DEF raw
<1>3. RoundHalfEven(raw, RawScale) # 0
  <2>1. RoundHalfEven(raw, RawScale) = 0 <=> 2 * raw <= RawScale
    BY <1>1, <1>2, VanishingQuotients
  <2> QED
    BY <1>1, <1>2, <2>1
<1> QED
  BY <1>3 DEF MidRate, raw

(* No answer holds a positive rate that its column rounds to zero. *)
RatesSurviveRounding ==
    \A p \in Payloads, c \in Currencies : c # p.base => 2 * p.rates[c] > RawScale

(* A rate rounded to zero is all that stands between "fresh" on GET /readyz  *)
(* and a price for every pair: without one, while it says so, a quote        *)
(* between any two currencies can be computed (readiness, create_quote).     *)
THEOREM ReadyUnlessVanishing == Spec => [](RatesSurviveRounding => ReadyMeansPriceable)
<1>1. IInv /\ OneAnswerPerRefresh => (RatesSurviveRounding => ReadyMeansPriceable)
  <2> SUFFICES ASSUME IInv, OneAnswerPerRefresh, RatesSurviveRounding,
                      RatesFreshnessStatus = "fresh", NEW r \in Requests
               PROVE  CanPrice(CurrentRates, r)
    BY DEF ReadyMeansPriceable
  <2>1. PICK b : b = CurrentRates
    OBVIOUS
  <2>2. Route(b, r) # <<>>
    BY <2>1, ReadyBook DEF ReadyMeansQuotable
  <2>3. b # {}
    BY <2>1 DEF RatesFreshnessStatus
  <2>4. PICK a \in Attempts : Completed(a) /\ b = BookOf(a)
    BY <2>1, <2>3 DEF IInv, StoreInv, CurrentIsOneRefresh
  <2>5. PICK p \in Payloads : \A s \in snapshots : s.refresh = a => s.mid = MidRate(p, s.quote)
    BY <2>4 DEF OneAnswerPerRefresh
  <2>6. \A row \in b : row.mid # 0
    <3> SUFFICES ASSUME NEW s \in snapshots, s.refresh = a
                 PROVE  Upsert(None, s).mid # 0
      BY <2>4 DEF BookOf
    <3>1. s.quote \in Currencies
      BY DEF IInv, TypeOK, Snapshot
    <3>2. s.quote # p.base => 2 * p.rates[s.quote] > RawScale
      BY <3>1 DEF RatesSurviveRounding
    <3>3. MidRate(p, s.quote) # 0
      BY <3>1, <3>2, MidRateSurvives
    <3> QED
      BY <2>5, <3>3 DEF Upsert
  <2> DEFINE route == Route(b, r)
  <2>7. \A i \in 1 .. Len(route) - 1 : FindCurrentRate(b, route[i], route[i + 1]) # {}
    BY <2>2, RouteShape
  <2> HIDE DEF route
  <2>8. \A i \in 1 .. Len(route) - 1 : RateOf(b, route[i], route[i + 1]) \in b
    BY <2>7, RowFound
  <2>9. \A i \in 1 .. Len(route) - 1 : Priceable(RateOf(b, route[i], route[i + 1]), route[i])
    BY <2>6, <2>8 DEF Priceable
  <2> QED
    BY <2>1, <2>2, <2>9 DEF CanPrice, route
<1> QED
  BY <1>1, Invariance, OneAnswer, PTL

-----------------------------------------------------------------------------
(* The course of a refresh *)

(* A refresh that stores has the first few pairs. *)
PrefixInv(w) ==
    pc[w] = "store" =>
        \E n \in 0 .. Len(CanonicalPairs) : PairsOf(staged[w]) = PairsUpTo(n)

(* A refresh that stores is ready to commit, or to store a pair whose row    *)
(* nobody else has written.                                                  *)
StoringGoesOn ==
    \A w \in Refreshers : pc[w] = "store" =>
        \/ PairsOf(staged[w]) = Pairs
        \/ \E i \in 1 .. Len(CanonicalPairs) :
              /\ AtPair(w, i)
              /\ \A v \in Refreshers \ {w} : CanonicalPairs[i] \notin PairsOf(staged[v])

(* The i-th pair is not among the first ones, and completes the first i.     *)
LEMMA NextPair ==
    ASSUME NEW i \in 1 .. Len(CanonicalPairs)
    PROVE  /\ CanonicalPairs[i] \notin PairsUpTo(i - 1)
           /\ PairsUpTo(i) = PairsUpTo(i - 1) \cup {CanonicalPairs[i]}
<1>1. Len(CanonicalPairs) \in Nat
  BY RatesAssumption
<1>2. \A j \in 1 .. i - 1 : j \in 1 .. Len(CanonicalPairs) /\ j # i
  BY <1>1, SMT
<1>3. 1 .. i = (1 .. i - 1) \cup {i}
  BY <1>1, SMT
<1> QED
  BY <1>2, <1>3, RatesAssumption DEF PairsUpTo

(* A round of the storing loop adds its pair.                                *)
LEMMA PairAdded ==
    ASSUME IInv, NEW w \in Refreshers, NEW i \in 1 .. Len(CanonicalPairs), StorePair(w, i)
    PROVE  /\ staged[w] \subseteq staged'[w]
           /\ PairsOf(staged[w]) = PairsUpTo(i - 1)
           /\ PairsOf(staged'[w]) = PairsUpTo(i)
<1>1. /\ PairsOf(staged[w]) = PairsUpTo(i - 1)
      /\ staged'[w] = staged[w] \cup {SnapshotRow(w, CanonicalPairs[i])}
  BY DEF IInv, TypeOK, StorePair, AtPair
<1>2. CanonicalPairs[i] \in Currencies \X Currencies
  BY RatesAssumption
<1>3. PairsOf(staged'[w]) = PairsOf(staged[w]) \cup {CanonicalPairs[i]}
  <2>1. PICK s : s = SnapshotRow(w, CanonicalPairs[i])
    OBVIOUS
  <2>2. <<s.base, s.quote>> = CanonicalPairs[i]
    BY <1>2, <2>1 DEF SnapshotRow
  <2>3. PICK old, new : old = staged[w] /\ new = staged'[w]
    OBVIOUS
  <2>4. new = old \cup {s}
    BY <1>1, <2>1, <2>3
  <2>5. \A rows : PairsOf(rows) = {<<t.base, t.quote>> : t \in rows}
    BY DEF PairsOf
  <2>6. {<<t.base, t.quote>> : t \in new} = {<<t.base, t.quote>> : t \in old} \cup {<<s.base, s.quote>>}
    BY <2>4
  <2> QED
    BY <2>2, <2>3, <2>5, <2>6
<1> QED
  BY <1>1, <1>3, NextPair

(* What a step does to a refresh that has begun: nothing, or it ends it, or  *)
(* it brings it to a later point, or one pair further.                       *)
LEMMA RefresherMoves ==
    ASSUME IInv, [Next]_vars, NEW w \in Refreshers
    PROVE  \/ UNCHANGED <<pc[w], staged[w]>>
           \/ pc'[w] = "idle"
           \/ pc[w] = "idle" /\ pc'[w] = "lock"
           \/ pc[w] = "lock" /\ pc'[w] = "fetch"
           \/ pc[w] = "fetch" /\ pc'[w] = "record"
           \/ pc[w] = "fetch" /\ pc'[w] = "store" /\ staged'[w] = {}
           \/ \E i \in 1 .. Len(CanonicalPairs) :
                 pc[w] = "store" /\ pc'[w] = "store" /\ StorePair(w, i)
           \/ pc[w] = "store" /\ pc'[w] = "respond"
<1>1. TypeOK /\ WorkerInv(w)
  BY DEF IInv, RefreshersInv
<1>2. ASSUME NEW v \in Refreshers, v # w,
             \/ \E a \in Attempts : BeginRefresh(v, a)
             \/ AcquireLock(v) \/ RefreshStep(v) \/ Fault(v)
      PROVE  UNCHANGED <<pc[w], staged[w]>>
  BY <1>1, <1>2 DEF TypeOK, RefreshStep, BeginRefresh, AcquireLock, FetchRates, RefuseRates,
     MisreadPayload, StorePair, OverflowRate, Fault, Abort, RecordFailure, CommitRefresh,
     RespondRefresh, Goto, Return, EndTransaction
<1>3. /\ (\E a \in Attempts : BeginRefresh(w, a)) => pc[w] = "idle" /\ pc'[w] = "lock"
      /\ AcquireLock(w) => pc[w] = "lock" /\ pc'[w] = "fetch"
      /\ RefuseRates(w) => pc[w] = "fetch" /\ pc'[w] = "record"
      /\ CommitRefresh(w) => pc[w] = "store" /\ pc'[w] = "respond"
  BY <1>1 DEF TypeOK, BeginRefresh, AcquireLock, RefuseRates, CommitRefresh, Goto
<1>4. \/ RecordFailure(w) \/ RespondRefresh(w) \/ Fault(w) \/ MisreadPayload(w)
      \/ \E i \in 1 .. Len(CanonicalPairs) : OverflowRate(w, i)
      => pc'[w] = "idle"
  BY <1>1 DEF TypeOK, RecordFailure, RespondRefresh, Fault, MisreadPayload, OverflowRate, Abort,
     Goto, Return
<1>5. (\E p \in Payloads : FetchRates(w, p)) =>
        pc[w] = "fetch" /\ pc'[w] = "store" /\ staged'[w] = {}
  BY <1>1 DEF TypeOK, WorkerInv, FetchRates, Goto
<1>6. \A i \in 1 .. Len(CanonicalPairs) : StorePair(w, i) => pc[w] = "store" /\ pc'[w] = "store"
  BY DEF StorePair, AtPair
<1>7. Tick \/ UNCHANGED vars
      \/ (\E u \in Quoters : (\E r \in Requests : LoadBook(u, r)) \/ PriceQuote(u) \/ RefuseQuote(u))
      => UNCHANGED <<pc[w], staged[w]>>
  BY DEF Tick, LoadBook, PriceQuote, RefuseQuote, vars, refreshing
<1> QED
  BY <1>2, <1>3, <1>4, <1>5, <1>6, <1>7 DEF Next, RefreshStep

(* A refresh never waits between the lock and its commit: the advisory lock  *)
(* keeps every other one from the rows it upserts (_store_pair_rows,         *)
(* acquire_rate_refresh_lock).  It is the safety half of EveryRefreshEnds.   *)
THEOREM StoringNeverWaits == Spec => []StoringGoesOn
<1> DEFINE Prefixes == \A w \in Refreshers : PrefixInv(w)
<1>1. Init => Prefixes
  BY DEF Init, PrefixInv
<1>2. IInv /\ Prefixes /\ [Next]_vars => Prefixes'
  <2> SUFFICES ASSUME IInv, Prefixes, [Next]_vars, NEW w \in Refreshers
               PROVE  PrefixInv(w)'
    OBVIOUS
  <2>1. ASSUME UNCHANGED <<pc[w], staged[w]>>
        PROVE  PrefixInv(w)'
    BY <2>1 DEF PrefixInv
  <2>2. ASSUME pc'[w] # "store"
        PROVE  PrefixInv(w)'
    BY <2>2 DEF PrefixInv
  <2>3. ASSUME staged'[w] = {}
        PROVE  PrefixInv(w)'
    <3>1. PairsOf(staged'[w]) = {} /\ PairsUpTo(0) = {}
      BY <2>3 DEF PairsOf, PairsUpTo
    <3>2. 0 \in 0 .. Len(CanonicalPairs)
      BY RatesAssumption
    <3> QED
      BY <3>1, <3>2 DEF PrefixInv
  <2>4. ASSUME NEW i \in 1 .. Len(CanonicalPairs), StorePair(w, i)
        PROVE  PrefixInv(w)'
    <3>1. i \in 0 .. Len(CanonicalPairs)
      BY RatesAssumption
    <3> QED
      BY <2>4, <3>1, PairAdded DEF PrefixInv
  <2> QED
    BY <2>1, <2>2, <2>3, <2>4, RefresherMoves
<1>3. IInv /\ Prefixes => StoringGoesOn
  <2> SUFFICES ASSUME IInv, Prefixes, NEW w \in Refreshers, pc[w] = "store"
               PROVE  \/ PairsOf(staged[w]) = Pairs
                      \/ \E i \in 1 .. Len(CanonicalPairs) :
                           /\ AtPair(w, i)
                           /\ \A v \in Refreshers \ {w} :
                                CanonicalPairs[i] \notin PairsOf(staged[v])
    BY DEF StoringGoesOn
  <2>1. PICK n \in 0 .. Len(CanonicalPairs) : PairsOf(staged[w]) = PairsUpTo(n)
    BY DEF PrefixInv
  <2>2. \A v \in Refreshers \ {w} : staged[v] = {}
    BY DEF IInv, RefreshersInv, WorkerInv
  <2>3. CASE n = Len(CanonicalPairs)
    BY <2>1, <2>3 DEF Pairs
  <2>4. CASE n # Len(CanonicalPairs)
    <3>1. n + 1 \in 1 .. Len(CanonicalPairs) /\ (n + 1) - 1 = n
      BY <2>4, RatesAssumption
    <3>2. AtPair(w, n + 1)
      BY <2>1, <3>1 DEF AtPair
    <3> QED
      BY <2>2, <3>1, <3>2 DEF PairsOf
  <2> QED
    BY <2>3, <2>4
<1> QED
  BY <1>1, <1>2, <1>3, Invariance, PTL DEF Spec

(* The points of refresh_rates, in their order. *)
Point == [idle |-> 0, lock |-> 1, fetch |-> 2, store |-> 3, respond |-> 4, record |-> 4]

Advance(w) ==
    pc[w] # "idle" =>
        \/ UNCHANGED <<pc[w], staged[w]>>
        \/ pc'[w] = "idle"
        \/ Point[pc'[w]] > Point[pc[w]]
        \/ /\ pc[w] = "store" /\ pc'[w] = "store"
           /\ staged[w] \subseteq staged'[w]
           /\ \E p \in Pairs : /\ p \notin PairsOf(staged[w])
                               /\ PairsOf(staged'[w]) = PairsOf(staged[w]) \cup {p}

RefreshesAdvance == [][\A w \in Refreshers : Advance(w)]_vars

(* A refresh never goes back: each of its steps ends it, brings it to a      *)
(* later point or stores one pair more, so it ends after as many steps as    *)
(* there are pairs and points (refresh_rates retries nothing).               *)
THEOREM RefreshesOnlyAdvance == Spec => RefreshesAdvance
<1>1. IInv /\ [Next]_vars => \A w \in Refreshers : Advance(w)
  <2> SUFFICES ASSUME IInv, [Next]_vars, NEW w \in Refreshers
               PROVE  Advance(w)
    OBVIOUS
  <2>1. ASSUME NEW i \in 1 .. Len(CanonicalPairs), StorePair(w, i)
        PROVE  /\ staged[w] \subseteq staged'[w]
               /\ \E p \in Pairs : /\ p \notin PairsOf(staged[w])
                                   /\ PairsOf(staged'[w]) = PairsOf(staged[w]) \cup {p}
    <3>1. CanonicalPairs[i] \in Pairs
      BY DEF Pairs, PairsUpTo
    <3> QED
      BY <2>1, <3>1, PairAdded, NextPair
  <2>2. /\ Point["fetch"] > Point["lock"] /\ Point["record"] > Point["fetch"]
        /\ Point["store"] > Point["fetch"] /\ Point["respond"] > Point["store"]
    BY DEF Point
  <2> QED
    BY <2>1, <2>2, RefresherMoves DEF Advance
<1> QED
  BY <1>1, Invariance, PTL DEF Spec, RefreshesAdvance

-----------------------------------------------------------------------------
(* The rows that a commit adds are the ones it staged, one for each pair.    *)
LEMMA CommitRefines ==
    ASSUME IInv, NEW w \in Refreshers, CommitRefresh(w)
    PROVE  RateBook!Next
<1>1. PICK a \in Attempts, rows \in SUBSET Snapshot, at \in Instants :
        /\ a = attempt[w] /\ rows = staged[w] /\ at = started[w]
        /\ Published(a, rows, at)
  BY CommitPublishes
<1>2. PICK base \in Currencies : base = payload[w].base
  BY PayloadsAssumption DEF IInv, RefreshersInv, WorkerInv, CommitRefresh
<1>3. refreshes' = [refreshes EXCEPT ![a] = [status |-> "completed", base |-> base, fetched |-> at]]
  BY <1>1, <1>2 DEF CommitRefresh
<1>4. \A b \in Attempts : RateBook!Completed(b) => refreshes[b].fetched <= at
  BY <1>1 DEF Published, Completed, RateBook!Completed
<1>5. snapshots' \ snapshots = rows
  BY <1>1 DEF Published
<1>6. \A s \in rows : s.refresh = a /\ s.fetched = at
  BY <1>1 DEF Published
<1>7. ASSUME NEW p \in Pairs
      PROVE  \E s \in rows : /\ {t \in rows : <<t.base, t.quote>> = p} = {s}
                             /\ current'[p] = RateBook!Row(s)
  <2>1. PICK s \in rows : <<s.base, s.quote>> = p /\ current'[p] = Upsert(None, s)
    BY <1>1 DEF Published
  <2>2. \A t \in rows : <<t.base, t.quote>> = p => t = s
    BY <1>1, <2>1 DEF Published
  <2>3. {t \in rows : <<t.base, t.quote>> = p} = {s}
    BY <2>1, <2>2
  <2>4. RateBook!Row(s) = Upsert(None, s)
    BY DEF RateBook!Row, Upsert
  <2> QED
    BY <2>1, <2>3, <2>4
<1>8. RateBook!Pairs = Pairs
  BY DEF RateBook!Pairs, Pairs, PairsUpTo
<1>9. RateBook!Publish(a, base, at)
  <2>1. refreshes[a] = None /\ snapshots \subseteq snapshots' /\ DOMAIN current' = Pairs
    BY <1>1 DEF Published
  <2>2. UNCHANGED quotes
    BY DEF CommitRefresh
  <2> QED
    BY <1>3, <1>4, <1>5, <1>6, <1>7, <1>8, <2>1, <2>2 DEF RateBook!Publish
<1> QED
  BY <1>9 DEF RateBook!Next, RateBook!Instants, Instants

(* A recorded failure adds its row alone.                                    *)
LEMMA FailureRefines ==
    ASSUME IInv, NEW w \in Refreshers, RecordFailure(w)
    PROVE  RateBook!Next
<1>1. attempt[w] \in Attempts /\ started[w] \in Instants /\ refreshes[attempt[w]] = None
  BY DEF IInv, TypeOK, RefreshersInv, WorkerInv, RecordFailure
<1>2. RateBook!Reject(attempt[w], started[w])
  BY <1>1 DEF RateBook!Reject, RecordFailure
<1> QED
  BY <1>1, <1>2 DEF RateBook!Next, RateBook!Instants, Instants

(* A quote is priced from a completed refresh, current or already not.       *)
LEMMA QuoteRefines ==
    ASSUME IInv, NEW u \in Quoters, PriceQuote(u)
    PROVE  RateBook!Next
<1>1. asked[u] # None /\ Fresh(book[u])
      /\ quotes' = quotes \cup {QuoteFor(book[u], asked[u], now)}
      /\ UNCHANGED <<refreshes, snapshots, current>>
  BY DEF PriceQuote
<1>2. PICK a \in Attempts : /\ Completed(a) /\ book[u] = BookOf(a)
                            /\ now - refreshes[a].fetched \in 0 .. Freshness
  BY <1>1, FreshBook
<1>3. PICK r \in Requests : r = asked[u]
  BY <1>1 DEF IInv, TypeOK
<1>4. /\ r = [source |-> r.source, destination |-> r.destination, amount |-> r.amount]
      /\ r.source \in Currencies /\ r.destination \in Currencies /\ r.amount \in Amounts
  BY DEF Requests
<1>5. PICK b : b = BookOf(a)
  OBVIOUS
<1>6. {RateBook!Row(s) : s \in {t \in snapshots : t.refresh = a}} = b
  BY <1>5 DEF RateBook!Row, BookOf, Upsert
<1>7. PICK q : q = QuoteFor(b, r, now)
  OBVIOUS
<1>8. LET legs == Legs(b, BuildRoute(b, r.source, r.destination))
      IN q = [request |-> r, legs |-> legs, rate |-> RouteRate(legs),
              amount |-> DestinationAmount(r.amount, RouteRate(legs)), created |-> now]
  BY <1>7, Zenon DEF QuoteFor, Route
<1>9. quotes' = quotes \cup {q}
  BY <1>1, <1>2, <1>3, <1>5, <1>7
<1>10. now \in Instants
  BY DEF IInv, TypeOK
<1>11. /\ RateBook!BuildRoute(b, r.source, r.destination) = BuildRoute(b, r.source, r.destination)
       /\ \A x, y : RateBook!FindCurrentRate(b, x, y) = FindCurrentRate(b, x, y)
  BY DEF RateBook!BuildRoute, RateBook!FindCurrentRate, BuildRoute, FindCurrentRate
<1>12. \A n, d : RateBook!RoundHalfEven(n, d) = RoundHalfEven(n, d)
  BY Zenon DEF RateBook!RoundHalfEven, RoundHalfEven
<1>13. /\ \A row, x, y : RateBook!PriceLeg(row, x, y) = PriceLeg(row, x, y)
       /\ \A legs : RateBook!RouteRate(legs) = RouteRate(legs)
       /\ \A n, d : RateBook!DestinationAmount(n, d) = DestinationAmount(n, d)
  BY <1>12, Zenon DEF RateBook!PriceLeg, RateBook!ExecutableRate, RateBook!RouteRate,
     RateBook!DestinationAmount, PriceLeg, ExecutableRate, RouteRate, DestinationAmount
<1>14. RateBook!Price(r.source, r.destination, r.amount, a, now)
  <2>1. RateBook!Completed(a)
    BY <1>2 DEF Completed, RateBook!Completed
  <2>2. [source |-> r.source, destination |-> r.destination, amount |-> r.amount] = r
    BY <1>4
  <2>3. /\ now - refreshes[a].fetched \in 0 .. Freshness
        /\ UNCHANGED <<refreshes, snapshots, current>>
    BY <1>1, <1>2
  <2> DEFINE ofRefresh == {RateBook!Row(s) : s \in {t \in snapshots : t.refresh = a}}
             route == RateBook!BuildRoute(ofRefresh, r.source, r.destination)
             row(i) == CHOOSE x \in RateBook!FindCurrentRate(ofRefresh, route[i], route[i + 1]) : TRUE
             legs == [i \in 1 .. Len(route) - 1 |->
                        RateBook!PriceLeg(row(i), route[i], route[i + 1])]
  <2>4. ofRefresh = b
    BY <1>6
  <2> HIDE DEF ofRefresh
  <2>5. route = BuildRoute(b, r.source, r.destination)
    BY <1>11, <2>4
  <2>6. \A i : row(i) = RateOf(b, route[i], route[i + 1])
    BY <1>11, <2>4 DEF RateOf
  <2> HIDE DEF row, route
  <2>7. legs = [i \in 1 .. Len(route) - 1 |-> PriceLeg(row(i), route[i], route[i + 1])]
    BY <1>13
  <2>8. q = [request |-> r, legs |-> legs, rate |-> RateBook!RouteRate(legs),
             amount |-> RateBook!DestinationAmount(r.amount, RateBook!RouteRate(legs)),
             created |-> now]
    <3>1. legs = Legs(b, route)
      BY <2>6, <2>7 DEF Legs
    <3> QED
      BY <1>8, <1>13, <2>5, <3>1, Zenon
  <2>9. quotes' = quotes \cup
          {[request |-> [source |-> r.source, destination |-> r.destination, amount |-> r.amount],
            legs |-> legs, rate |-> RateBook!RouteRate(legs),
            amount |-> RateBook!DestinationAmount(r.amount, RateBook!RouteRate(legs)),
            created |-> now]}
    BY <1>9, <2>2, <2>8, Zenon
  <2> QED
    BY <2>1, <2>3, <2>9, Zenon DEF RateBook!Price, legs, row, route, ofRefresh
<1> QED
  BY <1>4, <1>10, <1>14 DEF RateBook!Next, RateBook!Instants, Instants

(* Everything else happens out of sight of the rate book.                    *)
LEMMA BookSteps ==
    ASSUME IInv, [Next]_vars
    PROVE  RateBook!Next \/ UNCHANGED RateBook!vars
<1>1. ASSUME NEW w \in Refreshers, CommitRefresh(w)
      PROVE  RateBook!Next
  BY <1>1, CommitRefines
<1>2. ASSUME NEW w \in Refreshers, RecordFailure(w)
      PROVE  RateBook!Next
  BY <1>2, FailureRefines
<1>3. ASSUME NEW u \in Quoters, PriceQuote(u)
      PROVE  RateBook!Next
  BY <1>3, QuoteRefines
<1>4. \/ UNCHANGED rates
      \/ \E w \in Refreshers : CommitRefresh(w) \/ RecordFailure(w)
      \/ \E u \in Quoters : PriceQuote(u)
  BY DEF Next, RefreshStep, vars, rates, Tick, BeginRefresh, AcquireLock, FetchRates, RefuseRates,
         MisreadPayload, Abort, StorePair, OverflowRate, RespondRefresh, Fault, LoadBook,
         RefuseQuote
<1>5. UNCHANGED rates => UNCHANGED RateBook!vars
  BY DEF rates, RateBook!vars
<1> QED
  BY <1>1, <1>2, <1>3, <1>4, <1>5

(* The concurrent refreshes and quotes, with their lock, failures and        *)
(* deaths, implement the rate book: rates change only by whole refreshes in  *)
(* the order of their times, and quotes cite them.                           *)
THEOREM ImplementsRateBook == Spec => RateBookSpec
<1>1. Init => RateBook!Init
  BY DEF Init, RateBook!Init, Pairs, PairsUpTo, RateBook!Pairs
<1>2. IInv /\ [Next]_vars => [RateBook!Next]_(RateBook!vars)
  BY BookSteps
<1> QED
  BY <1>1, <1>2, Invariance, PTL DEF Spec, RateBookSpec, RateBook!Spec
=============================================================================
