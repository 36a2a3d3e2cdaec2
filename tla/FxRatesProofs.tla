---------------------------- MODULE FxRatesProofs ----------------------------
(***************************************************************************)
(* The inductive invariant of FxRates and its proof.  A refresh is right   *)
(* because of what it knows while it holds the advisory lock: its attempt  *)
(* has no row yet, its clock reading is not before any completed refresh,  *)
(* and what it has staged is a prefix of one refresh.  A quote is right    *)
(* because the book it loaded is one refresh, and history only grows.      *)
(***************************************************************************)
EXTENDS FxRates, FxPricingTheorems

(* What a refreshing thread relies on. *)
WorkerInv(w) ==
    /\ pc[w] \in {"fetch", "store"} <=> advisory = w
    /\ pc[w] # "store" => staged[w] = {}
    /\ pc[w] # "idle" => attempt[w] \in Attempts
    /\ attempt[w] # None => \A v \in Refreshers : attempt[v] = attempt[w] => v = w
    /\ pc[w] \in {"lock", "fetch", "store", "record"} => refreshes[attempt[w]] = None
    /\ advisory = w => /\ started[w] <= now
                       /\ \A a \in Attempts : Completed(a) => refreshes[a].fetched <= started[w]
    /\ pc[w] = "store" => /\ payload[w] \in Payloads
                          /\ PairsOf(staged[w]) \subseteq Pairs
    /\ \A s \in staged[w] : s.refresh = attempt[w] /\ s.fetched = started[w]
    /\ \A s, t \in staged[w] : s.base = t.base /\ s.quote = t.quote => s = t

RefreshersInv == \A w \in Refreshers : WorkerInv(w)

OneRowPerPair ==
    \A s, t \in snapshots :
        s.refresh = t.refresh /\ s.base = t.base /\ s.quote = t.quote => s = t

HistoryInv ==
    /\ SnapshotsAreWhole
    /\ OneRowPerPair
    /\ \A a \in Attempts : Completed(a) => refreshes[a].fetched <= now

(* A loaded book is empty or one refresh. *)
BookInv ==
    \A u \in Quoters :
        asked[u] # None =>
            \/ book[u] = {}
            \/ \E a \in Attempts : Completed(a) /\ book[u] = BookOf(a)

StoreInv == HistoryInv /\ CurrentIsOneRefresh /\ BookInv /\ QuotesRebuild /\ LegsFavourTheHouse

IInv == TypeOK /\ RefreshersInv /\ StoreInv

-----------------------------------------------------------------------------
(* The invariant holds initially. *)
LEMMA InitIInv == Init => IInv
<1> SUFFICES ASSUME Init
             PROVE  IInv
  OBVIOUS
<1>1. TypeOK
  <2>1. 0 \in Instants
    BY RatesAssumption DEF Instants
  <2> QED
    BY <2>1 DEF Init, TypeOK
<1>2. RefreshersInv
  BY NoneAssumption DEF Init, RefreshersInv, WorkerInv, Completed
<1>3. HistoryInv
  BY DEF Init, HistoryInv, SnapshotsAreWhole, OneRowPerPair, Completed
<1>4. CurrentIsOneRefresh
  BY DEF Init, CurrentIsOneRefresh, CurrentRates
<1>5. BookInv /\ QuotesRebuild /\ LegsFavourTheHouse
  BY DEF Init, BookInv, QuotesRebuild, LegsFavourTheHouse
<1> QED
  BY <1>1, <1>2, <1>3, <1>4, <1>5 DEF IInv, StoreInv

(* A step that leaves the tables and the quoting threads alone keeps what    *)
(* they are worth; time only moves on.                                       *)
LEMMA StoreKept ==
    ASSUME TypeOK, StoreInv, UNCHANGED <<rates, quoting>>, now' \in Instants, now <= now'
    PROVE  StoreInv'
<1> USE DEF rates, quoting
<1>1. \A a \in Attempts : /\ Completed(a)' <=> Completed(a)
                          /\ BookOf(a)' = BookOf(a)
  BY DEF Completed, BookOf, Upsert
<1>2. HistoryInv'
  <2>1. SnapshotsAreWhole'
    BY <1>1 DEF StoreInv, HistoryInv, SnapshotsAreWhole, Completed
  <2>2. OneRowPerPair'
    BY DEF StoreInv, HistoryInv, OneRowPerPair
  <2>3. \A a \in Attempts : Completed(a)' => refreshes'[a].fetched <= now'
    <3> SUFFICES ASSUME NEW a \in Attempts, Completed(a)
                 PROVE  refreshes[a].fetched <= now'
      BY <1>1
    <3>1. refreshes[a].fetched <= now
      BY DEF StoreInv, HistoryInv
    <3>2. refreshes[a].fetched \in Int /\ now \in Int /\ now' \in Int
      BY RatesAssumption DEF TypeOK, Completed, RefreshRow, Instants
    <3> QED
      BY <3>1, <3>2, SMT
  <2> QED
    BY <2>1, <2>2, <2>3 DEF HistoryInv, Completed
<1>3. CurrentIsOneRefresh'
  BY <1>1 DEF StoreInv, CurrentIsOneRefresh, CurrentRates
<1>4. BookInv'
  BY <1>1 DEF StoreInv, BookInv
<1>5. QuotesRebuild'
  BY <1>1 DEF StoreInv, QuotesRebuild
<1>6. LegsFavourTheHouse'
  BY DEF StoreInv, LegsFavourTheHouse
<1> QED
  BY <1>2, <1>3, <1>4, <1>5, <1>6 DEF StoreInv

(* What the other refreshers rely on survives a step of w that changes only  *)
(* w's own state and leaves the rows of other attempts alone.                *)
OthersKept(w) ==
    \A v \in Refreshers \ {w} :
        /\ pc'[v] = pc[v] /\ attempt'[v] = attempt[v] /\ started'[v] = started[v]
        /\ payload'[v] = payload[v] /\ staged'[v] = staged[v]
        /\ attempt'[w] = None \/ attempt'[w] # attempt[v]
        /\ advisory' = v <=> advisory = v
        /\ attempt[v] \in Attempts => refreshes'[attempt[v]] = refreshes[attempt[v]]
        /\ advisory = v => \A a \in Attempts : Completed(a)' => refreshes'[a] = refreshes[a]

(* When w keeps to its own state, the other refreshers keep what they know. *)
LEMMA OthersInv ==
    ASSUME TypeOK, RefreshersInv, NEW w \in Refreshers, OthersKept(w), WorkerInv(w)', now' = now
    PROVE  RefreshersInv'
<1> SUFFICES ASSUME NEW v \in Refreshers \ {w}
             PROVE  WorkerInv(v)'
  BY DEF RefreshersInv
<1>1. WorkerInv(v)
  BY DEF RefreshersInv
<1>2. \A u \in Refreshers : attempt'[v] # None /\ attempt'[u] = attempt'[v] => u = v
  BY <1>1 DEF OthersKept, WorkerInv
<1>3. advisory' = v => /\ started'[v] <= now'
                       /\ \A a \in Attempts : Completed(a)' => refreshes'[a].fetched <= started'[v]
  BY <1>1 DEF OthersKept, WorkerInv, Completed
<1> QED
  BY <1>1, <1>2, <1>3 DEF OthersKept, WorkerInv

(* A step inside one refresh: nothing of the tables changes.                 *)
LEMMA QuietStep ==
    ASSUME IInv, NEW w \in Refreshers, UNCHANGED <<rates, now, quoting>>,
           TypeOK', OthersKept(w), WorkerInv(w)'
    PROVE  IInv'
<1>1. now \in Instants /\ now <= now
  BY RatesAssumption, SMT DEF IInv, TypeOK, Instants
<1>2. StoreInv'
  BY <1>1, StoreKept DEF IInv
<1>3. RefreshersInv'
  BY OthersInv DEF IInv
<1> QED
  BY <1>2, <1>3 DEF IInv

(* A new attempt is nobody else's. *)
LEMMA BeginRefreshStep ==
    ASSUME IInv, NEW w \in Refreshers, NEW a \in Attempts, BeginRefresh(w, a)
    PROVE  IInv'
<1> USE DEF BeginRefresh, Goto, rates, quoting
<1>1. TypeOK'
  BY DEF IInv, TypeOK
<1>2. OthersKept(w)
  BY DEF IInv, TypeOK, OthersKept, RefreshersInv, WorkerInv, Completed
<1>3. WorkerInv(w)'
  BY NoneAssumption DEF IInv, TypeOK, RefreshersInv, WorkerInv, Completed
<1> QED
  BY <1>1, <1>2, <1>3, QuietStep

(* The lock was free, so whatever has completed was stamped before now. *)
LEMMA AcquireLockStep ==
    ASSUME IInv, NEW w \in Refreshers, AcquireLock(w)
    PROVE  IInv'
<1> USE DEF AcquireLock, Goto, rates, quoting
<1>1. TypeOK'
  BY DEF IInv, TypeOK
<1>2. OthersKept(w)
  BY NoneAssumption DEF IInv, TypeOK, OthersKept, RefreshersInv, WorkerInv, Completed
<1>3. \A a \in Attempts : Completed(a)' => refreshes'[a].fetched <= started'[w]
  BY DEF IInv, TypeOK, StoreInv, HistoryInv, Completed
<1>4. started'[w] <= now'
  BY RatesAssumption, SMT DEF IInv, TypeOK, Instants
<1>5. WorkerInv(w)'
  BY <1>3, <1>4 DEF IInv, TypeOK, RefreshersInv, WorkerInv
<1> QED
  BY <1>1, <1>2, <1>5, QuietStep

(* The answer is only remembered. *)
LEMMA FetchRatesStep ==
    ASSUME IInv, NEW w \in Refreshers, NEW p \in Payloads, FetchRates(w, p)
    PROVE  IInv'
<1> USE DEF FetchRates, Goto, rates, quoting
<1>1. TypeOK'
  BY DEF IInv, TypeOK
<1>2. OthersKept(w)
  BY DEF IInv, TypeOK, OthersKept, RefreshersInv, WorkerInv, Completed
<1>3. WorkerInv(w)'
  BY DEF IInv, TypeOK, RefreshersInv, WorkerInv, Completed, PairsOf
<1> QED
  BY <1>1, <1>2, <1>3, QuietStep

(* The rollback drops what was staged and the lock. *)
LEMMA RefuseRatesStep ==
    ASSUME IInv, NEW w \in Refreshers, RefuseRates(w)
    PROVE  IInv'
<1> USE DEF RefuseRates, EndTransaction, Goto, rates, quoting
<1>1. TypeOK'
  BY DEF IInv, TypeOK, Failures
<1>2. OthersKept(w)
  BY NoneAssumption DEF IInv, TypeOK, OthersKept, RefreshersInv, WorkerInv, Completed
<1>3. WorkerInv(w)'
  BY NoneAssumption DEF IInv, TypeOK, RefreshersInv, WorkerInv, Completed
<1> QED
  BY <1>1, <1>2, <1>3, QuietStep

(* Whatever the reason for which the request ends without a row. *)
LEMMA AbortStep ==
    ASSUME IInv, NEW w \in Refreshers, NEW code \in Failures \cup {None},
           pc[w] # "idle", Abort(w, code)
    PROVE  IInv'
<1> USE DEF Abort, Return, EndTransaction, Goto, rates, quoting
<1>1. TypeOK'
  <2>1. 0 \in Instants
    BY RatesAssumption DEF Instants
  <2> QED
    BY <2>1 DEF IInv, TypeOK
<1>2. OthersKept(w)
  BY NoneAssumption DEF IInv, TypeOK, OthersKept, RefreshersInv, WorkerInv, Completed
<1>3. WorkerInv(w)'
  BY NoneAssumption DEF IInv, TypeOK, RefreshersInv, WorkerInv, Completed
<1> QED
  BY <1>1, <1>2, <1>3, QuietStep

(* The response changes no row. *)
LEMMA RespondRefreshStep ==
    ASSUME IInv, NEW w \in Refreshers, RespondRefresh(w)
    PROVE  IInv'
<1> USE DEF RespondRefresh, Return, Goto, rates, quoting
<1>1. TypeOK'
  <2>1. 0 \in Instants
    BY RatesAssumption DEF Instants
  <2> QED
    BY <2>1 DEF IInv, TypeOK
<1>2. OthersKept(w)
  BY DEF IInv, TypeOK, OthersKept, RefreshersInv, WorkerInv, Completed
<1>3. WorkerInv(w)'
  BY NoneAssumption DEF IInv, TypeOK, RefreshersInv, WorkerInv, Completed
<1> QED
  BY <1>1, <1>2, <1>3, QuietStep

(* Whatever the provider sent, what is stored is a rate: a natural number,   *)
(* possibly 0.                                                               *)
LEMMA MidRateTyped ==
    ASSUME NEW p \in Payloads, NEW quote \in Currencies
    PROVE  MidRate(p, quote) \in Nat
<1>1. PairMidRate(p, quote) \in Nat
  <2>1. RawScale * RateScale \in Nat
    BY RatesAssumption, ScaleAssumption, SMT
  <2> QED
    BY <2>1, PayloadsAssumption DEF PairMidRate
<1>2. RawScale \in Nat \ {0}
  BY RatesAssumption
<1> QED
  BY <1>1, <1>2, RoundingIsNearest DEF MidRate

(* The stored pairs are pairs of currencies. *)
LEMMA PairsTyped ==
    ASSUME NEW i \in 1 .. Len(CanonicalPairs)
    PROVE  /\ CanonicalPairs[i] \in Currencies \X Currencies
           /\ CanonicalPairs[i] = <<CanonicalPairs[i][1], CanonicalPairs[i][2]>>
           /\ CanonicalPairs[i] \in Pairs
           /\ CanonicalPairs[i] \notin PairsUpTo(i - 1)
<1>1. CanonicalPairs \in Seq(Currencies \X Currencies) /\ Len(CanonicalPairs) \in Nat
  BY RatesAssumption
<1>2. CanonicalPairs[i] \in Currencies \X Currencies
  BY <1>1
<1>3. CanonicalPairs[i] \in Pairs
  BY DEF Pairs, PairsUpTo
<1>4. CanonicalPairs[i] \notin PairsUpTo(i - 1)
  <2> SUFFICES ASSUME NEW j \in 1 .. (i - 1), CanonicalPairs[j] = CanonicalPairs[i]
               PROVE  FALSE
    BY DEF PairsUpTo
  <2>1. j \in 1 .. Len(CanonicalPairs) /\ j # i
    BY <1>1, SMT
  <2> QED
    BY <2>1, RatesAssumption
<1> QED
  BY <1>2, <1>3, <1>4

(* A stored pair extends the prefix of one refresh. *)
LEMMA StorePairStep ==
    ASSUME IInv, NEW w \in Refreshers, NEW i \in 1 .. Len(CanonicalPairs), StorePair(w, i)
    PROVE  IInv'
<1> DEFINE pair == CanonicalPairs[i]
           row == SnapshotRow(w, pair)
<1>1. /\ pc[w] = "store"
      /\ PairsOf(staged[w]) = PairsUpTo(i - 1)
      /\ staged' = [staged EXCEPT ![w] = @ \cup {row}]
      /\ UNCHANGED <<rates, now, advisory, pc, attempt, started, payload, failure, quoting>>
  BY DEF StorePair, AtPair
<1>2. WorkerInv(w) /\ TypeOK
  BY DEF IInv, RefreshersInv
<1>3. /\ row.base = pair[1] /\ row.quote = pair[2] /\ pair = <<row.base, row.quote>>
      /\ row.refresh = attempt[w] /\ row.fetched = started[w]
  BY PairsTyped DEF SnapshotRow
<1>4. row \in Snapshot
  <2>1. attempt[w] \in Attempts /\ payload[w] \in Payloads /\ started[w] \in Instants
    BY <1>1, <1>2 DEF WorkerInv, TypeOK
  <2>2. pair[1] \in Currencies /\ pair[2] \in Currencies
    BY PairsTyped
  <2>3. MidRate(payload[w], pair[2]) \in Nat
    BY <2>1, <2>2, MidRateTyped
  <2> QED
    BY <2>1, <2>2, <2>3 DEF Snapshot, SnapshotRow
<1> HIDE DEF row, pair
<1>5. TypeOK'
  BY <1>1, <1>2, <1>4 DEF TypeOK, rates, quoting
<1>6. OthersKept(w)
  BY <1>1 DEF IInv, TypeOK, OthersKept, RefreshersInv, WorkerInv, Completed, rates
<1>7. WorkerInv(w)'
  <2>1. staged'[w] = staged[w] \cup {row}
    BY <1>1, <1>2 DEF TypeOK
  <2>2. PairsOf(staged[w])' = PairsOf(staged[w]) \cup {pair}
    BY <1>3, <2>1 DEF PairsOf
  <2>3. pair \in Pairs /\ pair \notin PairsOf(staged[w])
    BY <1>1, PairsTyped DEF pair
  <2>4. \A s \in staged[w] : ~ (s.base = row.base /\ s.quote = row.quote)
    BY <1>3, <2>3 DEF PairsOf
  <2>5. \A s, t \in staged'[w] : s.base = t.base /\ s.quote = t.quote => s = t
    BY <1>2, <2>1, <2>4 DEF WorkerInv
  <2>6. \A s \in staged'[w] : s.refresh = attempt'[w] /\ s.fetched = started'[w]
    BY <1>1, <1>2, <1>3, <2>1 DEF WorkerInv
  <2>7. PairsOf(staged[w])' \subseteq Pairs
    BY <1>1, <1>2, <2>2, <2>3 DEF WorkerInv
  <2> QED
    BY <1>1, <1>2, <2>5, <2>6, <2>7 DEF WorkerInv, rates, Completed
<1>8. UNCHANGED <<rates, now, quoting>>
  BY <1>1
<1> QED
  BY <1>5, <1>6, <1>7, <1>8, QuietStep

-----------------------------------------------------------------------------
(* Steps that write the tables: completed refreshes and their books stay.    *)
HistoryGrows ==
    \A a \in Attempts : Completed(a) => /\ Completed(a)'
                                        /\ refreshes'[a] = refreshes[a]
                                        /\ BookOf(a)' = BookOf(a)

(* Loaded books and quotes cite refreshes that stay as they are. *)
LEMMA ReadersKept ==
    ASSUME StoreInv, HistoryGrows, UNCHANGED <<quotes, quoting>>
    PROVE  BookInv' /\ QuotesRebuild' /\ LegsFavourTheHouse'
<1> USE DEF quoting
<1>1. BookInv'
  BY DEF StoreInv, BookInv, HistoryGrows
<1>2. QuotesRebuild'
  BY DEF StoreInv, QuotesRebuild, HistoryGrows
<1>3. LegsFavourTheHouse'
  BY DEF StoreInv, LegsFavourTheHouse
<1> QED
  BY <1>1, <1>2, <1>3

(* A failed attempt gets a row that no snapshot and no quote cites. *)
LEMMA RecordFailureStep ==
    ASSUME IInv, NEW w \in Refreshers, RecordFailure(w)
    PROVE  IInv'
<1> DEFINE row == [status |-> "failed", base |-> None, fetched |-> started[w]]
<1>1. /\ pc[w] = "record" /\ attempt[w] \in Attempts /\ refreshes[attempt[w]] = None
      /\ refreshes' = [refreshes EXCEPT ![attempt[w]] = row]
      /\ refreshes'[attempt[w]] = row
      /\ UNCHANGED <<snapshots, current, quotes, quoting, now, advisory, attempt, staged, failure>>
  BY DEF RecordFailure, IInv, TypeOK, RefreshersInv, WorkerInv
<1>2. row \in RefreshRow /\ row # None /\ row.status # "completed"
  BY NoneAssumption DEF IInv, TypeOK, RefreshRow
<1> HIDE DEF row
<1>3. TypeOK'
  <2>1. 0 \in Instants
    BY RatesAssumption DEF Instants
  <2> QED
    BY <1>1, <1>2, <2>1 DEF RecordFailure, Return, Goto, IInv, TypeOK, quoting
<1>4. \A a \in Attempts : /\ Completed(a)' <=> Completed(a)
                          /\ Completed(a) => refreshes'[a] = refreshes[a]
                          /\ BookOf(a)' = BookOf(a)
  BY <1>1, <1>2 DEF IInv, TypeOK, Completed, BookOf, Upsert
<1>5. OthersKept(w)
  BY <1>1, <1>4, NoneAssumption DEF RecordFailure, Return, Goto, IInv, TypeOK, OthersKept, RefreshersInv, WorkerInv
<1>6. WorkerInv(w)'
  BY <1>1, NoneAssumption DEF RecordFailure, Return, Goto, IInv, TypeOK, RefreshersInv, WorkerInv
<1>7. RefreshersInv'
  BY <1>1, <1>5, <1>6, OthersInv DEF IInv
<1>8. HistoryInv'
  <2>1. SnapshotsAreWhole'
    <3>1. \A s \in snapshots : s.refresh \in Attempts
      BY DEF IInv, TypeOK, Snapshot
    <3> QED
      BY <1>1, <1>4, <3>1 DEF IInv, StoreInv, HistoryInv, SnapshotsAreWhole
  <2>2. OneRowPerPair'
    BY <1>1 DEF IInv, StoreInv, HistoryInv, OneRowPerPair
  <2>3. \A a \in Attempts : Completed(a)' => refreshes'[a].fetched <= now'
    BY <1>1, <1>4 DEF IInv, StoreInv, HistoryInv
  <2> QED
    BY <2>1, <2>2, <2>3 DEF HistoryInv
<1>9. CurrentIsOneRefresh'
  BY <1>1, <1>4 DEF IInv, StoreInv, CurrentIsOneRefresh, CurrentRates
<1>10. HistoryGrows
  BY <1>4 DEF HistoryGrows
<1> QED
  BY <1>1, <1>3, <1>7, <1>8, <1>9, <1>10, ReadersKept DEF IInv, StoreInv

(* What a commit publishes: refresh a's rows, one per pair, none of which    *)
(* was there, and a current row for each of them.                            *)
Published(a, rows, at) ==
    /\ a \in Attempts /\ refreshes[a] = None
    /\ refreshes'[a].status = "completed" /\ refreshes'[a].fetched = at
    /\ Completed(a)'
    /\ \A b \in Attempts \ {a} : refreshes'[b] = refreshes[b]
    /\ snapshots' = snapshots \cup rows
    /\ \A s \in snapshots : s.refresh # a
    /\ \A s \in rows : s \in Snapshot /\ s.refresh = a /\ s.fetched = at
    /\ PairsOf(rows) = Pairs
    /\ \A s, t \in rows : s.base = t.base /\ s.quote = t.quote => s = t
    /\ \A p \in Pairs : \E s \in rows : <<s.base, s.quote>> = p /\ current'[p] = Upsert(None, s)
    /\ DOMAIN current' = Pairs
    /\ \A b \in Attempts : Completed(b) => refreshes[b].fetched <= at
    /\ at \in Instants /\ at <= now

(* A commit publishes the whole of what its refresher has staged. *)
LEMMA CommitPublishes ==
    ASSUME IInv, NEW w \in Refreshers, CommitRefresh(w)
    PROVE  \E a \in Attempts, rows \in SUBSET Snapshot, at \in Instants :
             /\ a = attempt[w] /\ rows = staged[w] /\ at = started[w]
             /\ Published(a, rows, at)
<1>1. TypeOK /\ WorkerInv(w) /\ HistoryInv /\ pc[w] = "store"
  BY DEF IInv, StoreInv, RefreshersInv, CommitRefresh
<1>2. /\ attempt[w] \in Attempts /\ refreshes[attempt[w]] = None
      /\ payload[w] \in Payloads /\ advisory = w
      /\ staged[w] \in SUBSET Snapshot /\ started[w] \in Instants
  BY <1>1 DEF TypeOK, WorkerInv
<1>3. PICK a \in Attempts, rows \in SUBSET Snapshot, at \in Instants :
        a = attempt[w] /\ rows = staged[w] /\ at = started[w]
  BY <1>2
<1>4. /\ refreshes' = [refreshes EXCEPT ![a] =
            [status |-> "completed", base |-> payload[w].base, fetched |-> at]]
      /\ snapshots' = snapshots \cup rows
      /\ PairsOf(rows) = Pairs
      /\ current' = [p \in Pairs |->
            Upsert(current[p], CHOOSE s \in rows : <<s.base, s.quote>> = p)]
  BY <1>3 DEF CommitRefresh
<1>5. /\ refreshes[a] = None
      /\ refreshes'[a] = [status |-> "completed", base |-> payload[w].base, fetched |-> at]
      /\ \A b \in Attempts \ {a} : refreshes'[b] = refreshes[b]
  BY <1>1, <1>2, <1>3, <1>4 DEF TypeOK
<1>6. Completed(a)'
  <2>1. payload[w].base \in Currencies
    BY <1>2, PayloadsAssumption
  <2>2. refreshes'[a] \in RefreshRow
    BY <1>5, <2>1 DEF RefreshRow
  <2> QED
    BY <1>5, <2>2, NoneAssumption DEF Completed
<1>7. \A s \in snapshots : s.refresh # a
  BY <1>1, <1>5 DEF HistoryInv, SnapshotsAreWhole, Completed
<1>8. \A s \in rows : s \in Snapshot /\ s.refresh = a /\ s.fetched = at
  BY <1>1, <1>3 DEF TypeOK, WorkerInv
<1>9. ASSUME NEW p \in Pairs
      PROVE  \E s \in rows : <<s.base, s.quote>> = p /\ current'[p] = Upsert(None, s)
  <2>1. \E s \in rows : <<s.base, s.quote>> = p
    BY <1>4 DEF PairsOf
  <2> DEFINE s == CHOOSE s \in rows : <<s.base, s.quote>> = p
  <2>2. s \in rows /\ <<s.base, s.quote>> = p
    BY <2>1
  <2>3. current'[p] = Upsert(None, s)
    BY <1>4 DEF Upsert
  <2> QED
    BY <2>2, <2>3
<1>10. \A s, t \in rows : s.base = t.base /\ s.quote = t.quote => s = t
  BY <1>1, <1>3 DEF WorkerInv
<1>11. at <= now /\ \A b \in Attempts : Completed(b) => refreshes[b].fetched <= at
  BY <1>1, <1>2, <1>3 DEF WorkerInv
<1>12. Published(a, rows, at)
  BY <1>4, <1>5, <1>6, <1>7, <1>8, <1>9, <1>10, <1>11 DEF Published
<1> QED
  BY <1>3, <1>12

(* The rows just published are the whole book of their refresh, and the      *)
(* current rates are that book; no other refresh's book changes.             *)
LEMMA PublishedBook ==
    ASSUME TypeOK, HistoryInv, NEW a, NEW rows, NEW at, Published(a, rows, at)
    PROVE  /\ BookOf(a)' = {Upsert(None, s) : s \in rows}
           /\ CurrentRates' = BookOf(a)'
           /\ \A p \in Pairs : current'[p] # None
           /\ HistoryGrows
<1> USE DEF Published
<1>1. BookOf(a)' = {Upsert(None, s) : s \in rows}
  <2>1. {t \in snapshots' : t.refresh = a} = rows
    OBVIOUS
  <2> QED
    BY <2>1 DEF BookOf, Upsert
<1>2. \A s \in rows : Upsert(None, s) \in CurrentRow
  BY RatesAssumption DEF Snapshot, Upsert, CurrentRow
<1>3. \A p \in Pairs : current'[p] # None
  BY <1>2, NoneAssumption
<1>4. CurrentRates' = {current'[p] : p \in Pairs}
  BY <1>3 DEF CurrentRates
<1>5. \A p \in Pairs : current'[p] \in {Upsert(None, s) : s \in rows}
  OBVIOUS
<1>6. ASSUME NEW s \in rows
      PROVE  \E p \in Pairs : current'[p] = Upsert(None, s)
  <2>1. <<s.base, s.quote>> \in Pairs
    BY DEF PairsOf
  <2>2. PICK t \in rows : /\ <<t.base, t.quote>> = <<s.base, s.quote>>
                          /\ current'[<<s.base, s.quote>>] = Upsert(None, t)
    BY <2>1
  <2>3. t = s
    BY <2>2
  <2> QED
    BY <2>1, <2>2, <2>3
<1>7. CurrentRates' = BookOf(a)'
  BY <1>1, <1>4, <1>5, <1>6
<1>8. ASSUME NEW b \in Attempts, Completed(b)
      PROVE  Completed(b)' /\ refreshes'[b] = refreshes[b] /\ BookOf(b)' = BookOf(b)
  <2>1. b # a
    BY <1>8 DEF Completed
  <2>2. Completed(b)' /\ refreshes'[b] = refreshes[b]
    BY <1>8, <2>1 DEF Completed
  <2>3. {t \in snapshots' : t.refresh = b} = {t \in snapshots : t.refresh = b}
    BY <2>1
  <2> QED
    BY <2>2, <2>3 DEF BookOf, Upsert
<1> QED
  BY <1>1, <1>3, <1>7, <1>8 DEF HistoryGrows

(* The commit replaces the current rates by one whole refresh. *)
LEMMA CommitRefreshStep ==
    ASSUME IInv, NEW w \in Refreshers, CommitRefresh(w)
    PROVE  IInv'
<1>1. PICK a \in Attempts, rows \in SUBSET Snapshot, at \in Instants :
        /\ a = attempt[w] /\ rows = staged[w] /\ at = started[w]
        /\ Published(a, rows, at)
  BY CommitPublishes
<1>2. TypeOK /\ HistoryInv /\ WorkerInv(w)
  BY DEF IInv, StoreInv, RefreshersInv
<1>3. /\ CurrentRates' = BookOf(a)'
      /\ \A p \in Pairs : current'[p] # None
      /\ HistoryGrows
  BY <1>1, <1>2, PublishedBook
<1>4. /\ pc[w] = "store" /\ pc' = [pc EXCEPT ![w] = "respond"]
      /\ staged' = [staged EXCEPT ![w] = {}]
      /\ advisory = w /\ advisory' = None
      /\ UNCHANGED <<quotes, quoting, now, attempt, started, payload, failure>>
  BY <1>2 DEF CommitRefresh, EndTransaction, Goto, WorkerInv
<1>5. TypeOK'
  <2>1. refreshes' \in [Attempts -> RefreshRow \cup {None}]
    <3>1. payload[w].base \in Currencies /\ at \in Instants
      BY <1>2, <1>4, PayloadsAssumption DEF WorkerInv, TypeOK
    <3> QED
      BY <1>2, <3>1 DEF CommitRefresh, TypeOK, RefreshRow
  <2>2. snapshots' \subseteq Snapshot
    BY <1>1, <1>2 DEF Published, TypeOK
  <2>3. current' \in [Pairs -> CurrentRow \cup {None}]
    <3>1. \A s \in rows : Upsert(None, s) \in CurrentRow
      BY <1>1, RatesAssumption DEF Published, Snapshot, Upsert, CurrentRow
    <3>2. \A p \in Pairs : current'[p] \in CurrentRow
      BY <1>1, <3>1 DEF Published
    <3>3. current' = [p \in Pairs |-> current'[p]]
      BY DEF CommitRefresh
    <3> QED
      BY <3>2, <3>3
  <2>4. staged' \in [Refreshers -> SUBSET Snapshot]
    BY <1>2, <1>4 DEF TypeOK
  <2>5. pc' \in [Refreshers -> {"idle", "lock", "fetch", "store", "respond", "record"}]
    BY <1>2, <1>4 DEF TypeOK
  <2> QED
    BY <1>2, <1>4, <2>1, <2>2, <2>3, <2>4, <2>5 DEF TypeOK, quoting
<1>6. OthersKept(w)
  BY <1>1, <1>2, <1>4, NoneAssumption DEF Published, TypeOK, OthersKept, WorkerInv
<1>7. WorkerInv(w)'
  BY <1>1, <1>2, <1>4, NoneAssumption DEF Published, TypeOK, WorkerInv
<1>8. RefreshersInv'
  BY <1>4, <1>6, <1>7, OthersInv DEF IInv
<1>9. HistoryInv'
  <2> USE DEF Published
  <2>1. \A s \in snapshots' : Completed(s.refresh)' /\ s.fetched = refreshes'[s.refresh].fetched
    <3>1. \A s \in rows : Completed(s.refresh)' /\ s.fetched = refreshes'[s.refresh].fetched
      BY <1>1
    <3>2. \A s \in snapshots : Completed(s.refresh)' /\ s.fetched = refreshes'[s.refresh].fetched
      BY <1>2, <1>3 DEF HistoryInv, SnapshotsAreWhole, HistoryGrows, TypeOK, Snapshot
    <3> QED
      BY <1>1, <3>1, <3>2
  <2>2. ASSUME NEW b \in Attempts, Completed(b)'
        PROVE  PairsOf({s \in snapshots : s.refresh = b})' = Pairs
    <3>1. CASE b = a
      <4>1. {s \in snapshots' : s.refresh = a} = rows
        BY <1>1
      <4> QED
        BY <1>1, <3>1, <4>1 DEF PairsOf
    <3>2. CASE b # a
      <4>1. {s \in snapshots' : s.refresh = b} = {s \in snapshots : s.refresh = b}
        BY <1>1, <3>2
      <4>2. Completed(b)
        BY <1>1, <2>2, <3>2 DEF Completed
      <4> QED
        BY <1>2, <4>1, <4>2 DEF HistoryInv, SnapshotsAreWhole, PairsOf
    <3> QED
      BY <3>1, <3>2
  <2>3. OneRowPerPair'
    BY <1>1, <1>2 DEF HistoryInv, OneRowPerPair
  <2>4. \A b \in Attempts : Completed(b)' => refreshes'[b].fetched <= now'
    BY <1>1, <1>2, <1>4 DEF HistoryInv, Completed
  <2> QED
    BY <2>1, <2>2, <2>3, <2>4 DEF HistoryInv, SnapshotsAreWhole
<1>10. CurrentIsOneRefresh'
  BY <1>1, <1>3 DEF CurrentIsOneRefresh, Published
<1>11. BookInv' /\ QuotesRebuild' /\ LegsFavourTheHouse'
  BY <1>3, <1>4, ReadersKept DEF IInv
<1> QED
  BY <1>5, <1>8, <1>9, <1>10, <1>11 DEF IInv, StoreInv

(* Time moves on; nobody's reading of it is in the future. *)
LEMMA TickStep ==
    ASSUME IInv, Tick
    PROVE  IInv'
<1> USE DEF Tick, rates, refreshing, quoting
<1>1. now \in Int /\ now' \in Instants /\ now' \in Int /\ now <= now'
  BY RatesAssumption, SMT DEF IInv, TypeOK, Instants
<1>2. TypeOK'
  BY <1>1 DEF IInv, TypeOK
<1>3. StoreInv'
  BY <1>1, StoreKept DEF IInv
<1>4. ASSUME NEW w \in Refreshers
      PROVE  WorkerInv(w)'
  <2>1. started[w] \in Int
    BY RatesAssumption DEF IInv, TypeOK, Instants
  <2>2. WorkerInv(w)
    BY DEF IInv, RefreshersInv
  <2>3. advisory = w => started[w] <= now'
    BY <1>1, <2>1, <2>2, SMT DEF WorkerInv
  <2> QED
    BY <2>2, <2>3 DEF WorkerInv, Completed, PairsOf
<1> QED
  BY <1>2, <1>3, <1>4 DEF IInv, RefreshersInv

-----------------------------------------------------------------------------
(* Quotes *)

(* The row found for a hop is the pair's own, or else the reversed pair's. *)
LEMMA RowFound ==
    ASSUME NEW b, NEW x, NEW y, FindCurrentRate(b, x, y) # {}
    PROVE  LET row == RateOf(b, x, y)
           IN /\ row \in b
              /\ \/ row.base = x /\ row.quote = y
                 \/ /\ row.base = y /\ row.quote = x
                    /\ \A other \in b : ~ (other.base = x /\ other.quote = y)
<1>1. RateOf(b, x, y) \in FindCurrentRate(b, x, y)
  BY DEF RateOf
<1> QED
  BY <1>1 DEF FindCurrentRate

(* A route is one rated hop, or two over a pivot that is neither end.        *)
LEMMA RouteShape ==
    ASSUME NEW b, NEW r \in Requests, Route(b, r) # <<>>
    PROVE  LET route == Route(b, r)
           IN /\ Len(route) \in {2, 3}
              /\ \A i \in 1 .. Len(route) - 1 :
                    /\ route[i] # route[i + 1]
                    /\ FindCurrentRate(b, route[i], route[i + 1]) # {}
<1> DEFINE x == r.source
           y == r.destination
           rated(c, d) == FindCurrentRate(b, c, d) # {}
           by(pivot) == /\ pivot \notin {x, y}
                        /\ rated(x, pivot) /\ rated(pivot, y)
<1>1. x # y
  BY DEF Requests
<1>2. Route(b, r) = IF rated(x, y) THEN <<x, y>>
                    ELSE IF by(Usd) THEN <<x, Usd, y>>
                    ELSE IF by(Eur) THEN <<x, Eur, y>> ELSE <<>>
  BY DEF Route, BuildRoute
<1>3. \/ rated(x, y) /\ Route(b, r) = <<x, y>>
      \/ \E pivot : by(pivot) /\ Route(b, r) = <<x, pivot, y>>
  <2> HIDE DEF rated, by
  <2> QED
    BY <1>2
<1>4. CASE rated(x, y) /\ Route(b, r) = <<x, y>>
  BY <1>1, <1>4
<1>5. ASSUME NEW pivot, by(pivot), Route(b, r) = <<x, pivot, y>>
      PROVE  LET route == Route(b, r)
             IN /\ Len(route) \in {2, 3}
                /\ \A i \in 1 .. Len(route) - 1 :
                      /\ route[i] # route[i + 1]
                      /\ FindCurrentRate(b, route[i], route[i + 1]) # {}
  <2>1. \A i \in 1 .. 2 : i = 1 \/ i = 2
    BY SMT
  <2> QED
    BY <1>5, <2>1
<1> QED
  BY <1>3, <1>4, <1>5

(* A leg of a priceable route is a well-formed row, and does not beat the    *)
(* mid rate.                                                                 *)
LEMMA LegSound ==
    ASSUME NEW b \in SUBSET CurrentRow, NEW x, NEW y, x # y,
           FindCurrentRate(b, x, y) # {}, Priceable(RateOf(b, x, y), x)
    PROVE  LET leg == PriceLeg(RateOf(b, x, y), x, y)
           IN /\ leg \in Leg
              /\ leg.source = x /\ leg.destination = y
              /\ \/ /\ \E row \in b : row.base = x /\ row.quote = y
                    /\ leg.rate <= leg.mid
                 \/ /\ ~ \E row \in b : row.base = x /\ row.quote = y
                    /\ 2 * leg.mid * leg.rate <= 2 * RateScale * RateScale + leg.mid
<1> DEFINE row == RateOf(b, x, y)
           leg == PriceLeg(row, x, y)
<1>1. /\ row \in b
      /\ \/ row.base = x /\ row.quote = y
         \/ /\ row.base = y /\ row.quote = x
            /\ \A other \in b : ~ (other.base = x /\ other.quote = y)
  BY RowFound
<1>2. row \in CurrentRow
  BY <1>1
<1>3. /\ row.mid \in Nat /\ row.buy \in Nat /\ row.sell \in 0 .. BasisPoints
      /\ row.base \in Currencies /\ row.quote \in Currencies /\ row.refresh \in Attempts
  BY <1>2 DEF CurrentRow
<1>4. /\ leg.source = x /\ leg.destination = y /\ leg.mid = row.mid
      /\ leg.rate = ExecutableRate(row, x) /\ leg.refresh = row.refresh
      /\ leg = [source |-> x, destination |-> y, mid |-> row.mid,
                rate |-> ExecutableRate(row, x), refresh |-> row.refresh]
  BY DEF PriceLeg
<1>5. CASE row.base = x
  <2>1. ExecutableRate(row, x) \in Nat /\ ExecutableRate(row, x) <= row.mid
    BY <1>3, <1>5, SellingPaysAtMostMid
  <2>2. row.quote = y
    BY <1>1, <1>5
  <2> HIDE DEF row, leg
  <2>3. leg \in Leg
    BY <1>3, <1>4, <1>5, <2>1, <2>2 DEF Leg
  <2> QED
    BY <1>1, <1>4, <1>5, <2>1, <2>2, <2>3 DEF row, leg
<1>6. CASE row.base # x
  <2>1. row.mid \in Nat \ {0}
    BY <1>3, <1>6 DEF Priceable
  <2>2. /\ ExecutableRate(row, x) \in Nat
        /\ 2 * row.mid * ExecutableRate(row, x) <= 2 * RateScale * RateScale + row.mid
    BY <1>3, <1>6, <2>1, BuyingCostsAtLeastMid
  <2>3. row.base = y /\ row.quote = x /\ \A other \in b : ~ (other.base = x /\ other.quote = y)
    BY <1>1, <1>6
  <2> HIDE DEF row, leg
  <2>4. leg \in Leg
    BY <1>3, <1>4, <2>2, <2>3 DEF Leg
  <2> QED
    BY <1>4, <2>2, <2>3, <2>4 DEF row, leg
<1> QED
  BY <1>5, <1>6

(* A leg over a stored pair of the book sells the pair's base; any other leg *)
(* buys it.                                                                  *)
SoundLeg(b, leg) ==
    \/ /\ \E row \in b : row.base = leg.source /\ row.quote = leg.destination
       /\ leg.rate <= leg.mid
    \/ /\ ~ \E row \in b : row.base = leg.source /\ row.quote = leg.destination
       /\ 2 * leg.mid * leg.rate <= 2 * RateScale * RateScale + leg.mid

SoundQuote(b, r, at, q) ==
    /\ DOMAIN q = {"request", "legs", "rate", "amount", "created"}
    /\ q.request = r /\ q.created = at
    /\ q.legs = Legs(b, Route(b, r))
    /\ q.rate = RouteRate(q.legs)
    /\ q.amount = DestinationAmount(r.amount, q.rate)
    /\ q.legs \in Seq(Leg) /\ q.rate \in Nat /\ q.amount \in Nat
    /\ \A i \in 1 .. Len(q.legs) : SoundLeg(b, q.legs[i])

(* A quote that can be priced is well-formed, whatever the book.             *)
LEMMA QuoteSound ==
    ASSUME NEW b \in SUBSET CurrentRow, NEW r \in Requests, NEW at \in Instants,
           CanPrice(b, r)
    PROVE  SoundQuote(b, r, at, QuoteFor(b, r, at))
<1> DEFINE route == Route(b, r)
           legs == Legs(b, route)
           n == Len(route) - 1
           q == QuoteFor(b, r, at)
<1>1. route # <<>>
  BY DEF CanPrice
<1>2. /\ Len(route) \in {2, 3}
      /\ \A i \in 1 .. n : /\ route[i] # route[i + 1]
                           /\ FindCurrentRate(b, route[i], route[i + 1]) # {}
  BY <1>1, RouteShape
<1>3. \A i \in 1 .. n : Priceable(RateOf(b, route[i], route[i + 1]), route[i])
  BY DEF CanPrice
<1>4. legs = [i \in 1 .. n |-> PriceLeg(RateOf(b, route[i], route[i + 1]), route[i], route[i + 1])]
  BY DEF Legs
<1> HIDE DEF route, legs
<1>5. ASSUME NEW i \in 1 .. n
      PROVE  legs[i] \in Leg /\ SoundLeg(b, legs[i])
  <2> DEFINE x == route[i]
             y == route[i + 1]
  <2>1. x # y /\ FindCurrentRate(b, x, y) # {} /\ Priceable(RateOf(b, x, y), x)
    BY <1>2, <1>3
  <2>2. legs[i] = PriceLeg(RateOf(b, x, y), x, y)
    BY <1>4
  <2> HIDE DEF x, y
  <2> QED
    BY <2>1, <2>2, LegSound DEF SoundLeg
<1>6. n \in {1, 2}
  BY <1>2, SMT
<1>7. legs \in Seq(Leg) /\ Len(legs) = n
  BY <1>4, <1>5, <1>6, SMT
<1>8. RouteRate(legs) \in Nat
  <2>1. Len(legs) = n
    BY <1>7
  <2>2. \A i \in 1 .. n : legs[i].rate \in Nat
    BY <1>5 DEF Leg
  <2>3. Len(legs) \in {1, 2}
    BY <1>6, <2>1
  <2>4. \A i \in 1 .. Len(legs) : legs[i].rate \in Nat
    BY <2>1, <2>2
  <2> QED
    BY <2>3, <2>4, RouteRateTyped
<1>9. DestinationAmount(r.amount, RouteRate(legs)) \in Nat
  <2>1. r.amount \in Nat
    BY RatesAssumption DEF Requests
  <2>2. r.amount * RouteRate(legs) \in Nat /\ RateScale \in Nat \ {0}
    BY <1>8, <2>1, ScaleAssumption, SMT
  <2> QED
    BY <2>2, RoundingIsNearest DEF DestinationAmount
<1>10. q = [request |-> r, legs |-> legs, rate |-> RouteRate(legs),
            amount |-> DestinationAmount(r.amount, RouteRate(legs)), created |-> at]
  BY DEF QuoteFor, legs, route
<1> HIDE DEF q
<1>11. /\ DOMAIN q = {"request", "legs", "rate", "amount", "created"}
       /\ q.request = r /\ q.created = at /\ q.legs = legs
       /\ q.rate = RouteRate(legs) /\ q.amount = DestinationAmount(r.amount, RouteRate(legs))
  BY <1>10
<1> QED
  BY <1>5, <1>7, <1>8, <1>9, <1>11 DEF SoundQuote, q, legs, route

(* A loaded book, empty or a completed refresh's, with its quote.            *)
LEMMA CompletedBook ==
    ASSUME TypeOK, HistoryInv, NEW a \in Attempts, Completed(a)
    PROVE  /\ BookOf(a) \subseteq CurrentRow
           /\ \A row \in BookOf(a) : row.updated = refreshes[a].fetched
           /\ \A x, y : (\E row \in BookOf(a) : row.base = x /\ row.quote = y)
                         <=> <<x, y>> \in Pairs
<1> DEFINE rows == {t \in snapshots : t.refresh = a}
<1>1. BookOf(a) = {Upsert(None, s) : s \in rows}
  BY DEF BookOf
<1>2. \A s \in rows : s \in Snapshot /\ s.refresh = a /\ s.fetched = refreshes[a].fetched
  BY DEF TypeOK, HistoryInv, SnapshotsAreWhole
<1>3. PairsOf(rows) = Pairs
  BY DEF HistoryInv, SnapshotsAreWhole
<1> HIDE DEF rows
<1>4. \A s \in rows : /\ Upsert(None, s) \in CurrentRow
                      /\ Upsert(None, s).updated = s.fetched
                      /\ Upsert(None, s).base = s.base
                      /\ Upsert(None, s).quote = s.quote
  BY <1>2, RatesAssumption DEF Snapshot, Upsert, CurrentRow
<1>5. BookOf(a) \subseteq CurrentRow
  BY <1>1, <1>4
<1>6. \A row \in BookOf(a) : row.updated = refreshes[a].fetched
  BY <1>1, <1>2, <1>4
<1>7. ASSUME NEW x, NEW y
      PROVE  (\E row \in BookOf(a) : row.base = x /\ row.quote = y) <=> <<x, y>> \in Pairs
  <2>1. (\E row \in BookOf(a) : row.base = x /\ row.quote = y)
        <=> \E s \in rows : s.base = x /\ s.quote = y
    BY <1>1, <1>4
  <2>2. (\E s \in rows : s.base = x /\ s.quote = y) <=> <<x, y>> \in PairsOf(rows)
    BY DEF PairsOf
  <2> QED
    BY <1>3, <2>1, <2>2
<1> QED
  BY <1>5, <1>6, <1>7

(* The steps of quotes leave the refreshing threads alone.                   *)
LEMMA RefreshersKept ==
    ASSUME IInv, UNCHANGED <<refreshes, now, refreshing>>
    PROVE  RefreshersInv'
BY DEF IInv, RefreshersInv, WorkerInv, refreshing, Completed, PairsOf

(* What quotes only read stays as it was.                                    *)
LEMMA HistoryKept ==
    ASSUME IInv, UNCHANGED <<refreshes, snapshots, current, now>>
    PROVE  /\ HistoryInv' /\ CurrentIsOneRefresh'
           /\ \A a \in Attempts : (Completed(a)' <=> Completed(a)) /\ BookOf(a)' = BookOf(a)
<1>1. \A a \in Attempts : (Completed(a)' <=> Completed(a)) /\ BookOf(a)' = BookOf(a)
  BY DEF Completed, BookOf, Upsert
<1>2. HistoryInv'
  BY DEF IInv, StoreInv, HistoryInv, SnapshotsAreWhole, OneRowPerPair, Completed, PairsOf
<1>3. CurrentRates' = CurrentRates
  BY DEF CurrentRates
<1>4. CurrentIsOneRefresh'
  BY <1>1, <1>3 DEF IInv, StoreInv, CurrentIsOneRefresh
<1> QED
  BY <1>1, <1>2, <1>4

(* The book is what was current: nothing, or one completed refresh.          *)
LEMMA LoadBookStep ==
    ASSUME IInv, NEW u \in Quoters, NEW r \in Requests, LoadBook(u, r)
    PROVE  IInv'
<1> USE DEF LoadBook, rates, refreshing
<1>1. CurrentRates \subseteq CurrentRow
  BY DEF CurrentRates, IInv, TypeOK
<1>2. TypeOK'
  BY <1>1 DEF IInv, TypeOK
<1>3. RefreshersInv'
  BY RefreshersKept
<1>4. /\ HistoryInv' /\ CurrentIsOneRefresh'
      /\ \A a \in Attempts : (Completed(a)' <=> Completed(a)) /\ BookOf(a)' = BookOf(a)
  BY HistoryKept
<1>5. CurrentRates # {} => \E a \in Attempts : Completed(a) /\ CurrentRates = BookOf(a)
  BY DEF IInv, StoreInv, CurrentIsOneRefresh
<1>6. BookInv'
  <2> SUFFICES ASSUME NEW v \in Quoters, asked'[v] # None
               PROVE  book'[v] = {} \/ \E a \in Attempts : Completed(a) /\ book'[v] = BookOf(a)
    BY <1>4 DEF BookInv
  <2>1. CASE v = u
    <3>1. book'[v] = CurrentRates
      BY <2>1 DEF IInv, TypeOK
    <3> QED
      BY <1>5, <3>1
  <2>2. CASE v # u
    BY <2>2 DEF IInv, StoreInv, BookInv, TypeOK
  <2> QED
    BY <2>1, <2>2
<1>7. QuotesRebuild'
  BY <1>4 DEF IInv, StoreInv, QuotesRebuild
<1>8. LegsFavourTheHouse'
  BY DEF IInv, StoreInv, LegsFavourTheHouse
<1> QED
  BY <1>2, <1>3, <1>4, <1>6, <1>7, <1>8 DEF IInv, StoreInv

(* A book that is fresh is a completed refresh whose age is in bounds: every *)
(* row was updated by it.                                                    *)
LEMMA FreshBook ==
    ASSUME IInv, NEW u \in Quoters, asked[u] # None, Fresh(book[u])
    PROVE  \E a \in Attempts : /\ Completed(a) /\ book[u] = BookOf(a)
                              /\ now - refreshes[a].fetched \in 0 .. Freshness
<1>1. PICK row \in book[u] : row.updated >= now - Freshness
  BY DEF Fresh
<1>2. PICK a \in Attempts : Completed(a) /\ book[u] = BookOf(a)
  BY <1>1 DEF IInv, StoreInv, BookInv
<1>3. row.updated = refreshes[a].fetched
  BY <1>1, <1>2, CompletedBook DEF IInv, StoreInv
<1>4. refreshes[a].fetched <= now
  BY <1>2 DEF IInv, StoreInv, HistoryInv
<1>5. refreshes[a].fetched \in Nat /\ now \in Nat /\ Freshness \in Nat
  BY <1>2, RatesAssumption DEF IInv, TypeOK, Completed, RefreshRow, Instants
<1>6. now - refreshes[a].fetched \in 0 .. Freshness
  BY <1>1, <1>3, <1>4, <1>5, SMT
<1> QED
  BY <1>2, <1>6

(* The quote stored is rebuilt from the refresh whose book was loaded. *)
LEMMA PriceQuoteStep ==
    ASSUME IInv, NEW u \in Quoters, PriceQuote(u)
    PROVE  IInv'
<1>1. /\ TypeOK /\ HistoryInv /\ BookInv /\ QuotesRebuild /\ LegsFavourTheHouse
      /\ asked[u] # None /\ Fresh(book[u]) /\ CanPrice(book[u], asked[u])
      /\ quotes' = quotes \cup {QuoteFor(book[u], asked[u], now)}
      /\ UNCHANGED <<refreshes, snapshots, current, now, refreshing>>
      /\ asked' = [asked EXCEPT ![u] = None] /\ book' = [book EXCEPT ![u] = None]
  BY DEF IInv, StoreInv, PriceQuote, Idle
<1>2. PICK a \in Attempts : /\ Completed(a) /\ book[u] = BookOf(a)
                            /\ now - refreshes[a].fetched \in 0 .. Freshness
  BY <1>1, FreshBook
<1>3. BookOf(a) \subseteq CurrentRow
  BY <1>1, <1>2, CompletedBook
<1>4. PICK r \in Requests, b \in SUBSET CurrentRow, at \in Instants :
        r = asked[u] /\ b = book[u] /\ at = now
  BY <1>1, <1>2, <1>3 DEF TypeOK
<1>5. CanPrice(b, r)
  BY <1>1, <1>4
<1>6. PICK q : q = QuoteFor(b, r, at)
  OBVIOUS
<1>7. quotes' = quotes \cup {q}
  BY <1>1, <1>4, <1>6
<1>8. SoundQuote(b, r, at, q)
  BY <1>5, <1>6, QuoteSound
<1>9. TypeOK'
  <2>1. \A p \in quotes' : /\ DOMAIN p = {"request", "legs", "rate", "amount", "created"}
                           /\ p.request \in Requests
                           /\ p.legs \in Seq(Leg)
                           /\ p.rate \in Nat /\ p.amount \in Nat
                           /\ p.created \in Instants
    BY <1>1, <1>7, <1>8 DEF TypeOK, SoundQuote
  <2> QED
    BY <1>1, <2>1 DEF TypeOK, refreshing
<1>10. RefreshersInv'
  BY <1>1, RefreshersKept
<1>11. /\ HistoryInv' /\ CurrentIsOneRefresh'
       /\ \A c \in Attempts : (Completed(c)' <=> Completed(c)) /\ BookOf(c)' = BookOf(c)
  BY <1>1, HistoryKept
<1>12. BookInv'
  BY <1>1, <1>11 DEF BookInv, TypeOK
<1>13. QuotesRebuild'
  <2>1. /\ q.created - refreshes[a].fetched \in 0 .. Freshness
        /\ q.legs = Legs(BookOf(a), Route(BookOf(a), q.request))
        /\ q.rate = RouteRate(q.legs)
        /\ q.amount = DestinationAmount(q.request.amount, q.rate)
    BY <1>2, <1>4, <1>8 DEF SoundQuote
  <2>2. ASSUME NEW p \in quotes'
        PROVE  \E c \in Attempts :
                 /\ Completed(c)
                 /\ p.created - refreshes[c].fetched \in 0 .. Freshness
                 /\ p.legs = Legs(BookOf(c), Route(BookOf(c), p.request))
                 /\ p.rate = RouteRate(p.legs)
                 /\ p.amount = DestinationAmount(p.request.amount, p.rate)
    BY <1>1, <1>2, <1>7, <2>1 DEF QuotesRebuild
  <2> QED
    BY <1>1, <1>11, <2>2 DEF QuotesRebuild
<1>14. LegsFavourTheHouse'
  <2> DEFINE Favours(leg) ==
        IF <<leg.source, leg.destination>> \in Pairs THEN leg.rate <= leg.mid
        ELSE 2 * leg.mid * leg.rate <= 2 * RateScale * RateScale + leg.mid
  <2>1. \A x, y : (\E row \in b : row.base = x /\ row.quote = y) <=> <<x, y>> \in Pairs
    <3>1. \A x, y : (\E row \in BookOf(a) : row.base = x /\ row.quote = y) <=> <<x, y>> \in Pairs
      BY <1>1, <1>2, CompletedBook, Zenon
    <3>2. b = BookOf(a)
      BY <1>2, <1>4
    <3> QED
      BY <3>1, <3>2, Zenon
  <2>2. \A i \in 1 .. Len(q.legs) : SoundLeg(b, q.legs[i])
    BY <1>8 DEF SoundQuote
  <2>3. ASSUME NEW i \in 1 .. Len(q.legs)
        PROVE  Favours(q.legs[i])
    <3>1. PICK leg : leg = q.legs[i]
      OBVIOUS
    <3>2. SoundLeg(b, leg)
      BY <2>2, <3>1
    <3>3. (\E row \in b : row.base = leg.source /\ row.quote = leg.destination)
          <=> <<leg.source, leg.destination>> \in Pairs
      BY <2>1
    <3>4. Favours(leg)
      BY <3>2, <3>3, Zenon DEF SoundLeg
    <3> QED
      BY <3>1, <3>4
  <2>4. \A p \in quotes : \A i \in 1 .. Len(p.legs) : Favours(p.legs[i])
    BY <1>1, Zenon DEF LegsFavourTheHouse
  <2>5. LegsFavourTheHouse' <=> \A p \in quotes' : \A i \in 1 .. Len(p.legs) : Favours(p.legs[i])
    BY Zenon DEF LegsFavourTheHouse
  <2> HIDE DEF Favours
  <2> QED
    BY <1>7, <2>3, <2>4, <2>5
<1> QED
  BY <1>9, <1>10, <1>11, <1>12, <1>13, <1>14 DEF IInv, StoreInv

(* A refused quote leaves no row. *)
LEMMA RefuseQuoteStep ==
    ASSUME IInv, NEW u \in Quoters, RefuseQuote(u)
    PROVE  IInv'
<1> USE DEF RefuseQuote, Idle, rates, refreshing
<1>1. TypeOK'
  BY DEF IInv, TypeOK
<1>2. RefreshersInv'
  BY RefreshersKept
<1>3. /\ HistoryInv' /\ CurrentIsOneRefresh'
      /\ \A a \in Attempts : (Completed(a)' <=> Completed(a)) /\ BookOf(a)' = BookOf(a)
  BY HistoryKept
<1>4. BookInv'
  BY <1>3 DEF IInv, TypeOK, StoreInv, BookInv
<1>5. QuotesRebuild'
  BY <1>3 DEF IInv, StoreInv, QuotesRebuild
<1>6. LegsFavourTheHouse'
  BY DEF IInv, StoreInv, LegsFavourTheHouse
<1> QED
  BY <1>1, <1>2, <1>3, <1>4, <1>5, <1>6 DEF IInv, StoreInv

(* A step that changes nothing. *)
LEMMA StutterStep ==
    ASSUME IInv, UNCHANGED vars
    PROVE  IInv'
<1> USE DEF vars, rates, refreshing, quoting
<1>1. TypeOK'
  BY DEF IInv, TypeOK
<1>2. RefreshersInv'
  BY RefreshersKept
<1>3. now' \in Instants /\ now <= now'
  BY RatesAssumption, SMT DEF IInv, TypeOK, Instants
<1>4. StoreInv'
  BY <1>3, StoreKept DEF IInv
<1> QED
  BY <1>1, <1>2, <1>4 DEF IInv

(* Every step keeps the invariant. *)
LEMMA NextIInv == IInv /\ [Next]_vars => IInv'
<1> SUFFICES ASSUME IInv, [Next]_vars
             PROVE  IInv'
  OBVIOUS
<1>1. CASE Tick
  BY <1>1, TickStep
<1>2. ASSUME NEW w \in Refreshers, NEW a \in Attempts, BeginRefresh(w, a)
      PROVE  IInv'
  BY <1>2, BeginRefreshStep
<1>3. ASSUME NEW w \in Refreshers, AcquireLock(w)
      PROVE  IInv'
  BY <1>3, AcquireLockStep
<1>4. ASSUME NEW w \in Refreshers, RefreshStep(w)
      PROVE  IInv'
  <2>1. ASSUME NEW p \in Payloads, FetchRates(w, p)
        PROVE  IInv'
    BY <2>1, FetchRatesStep
  <2>2. CASE RefuseRates(w)
    BY <2>2, RefuseRatesStep
  <2>3. CASE MisreadPayload(w)
    BY <2>3, AbortStep DEF MisreadPayload, Failures
  <2>4. ASSUME NEW i \in 1 .. Len(CanonicalPairs), StorePair(w, i)
        PROVE  IInv'
    BY <2>4, StorePairStep
  <2>5. ASSUME NEW i \in 1 .. Len(CanonicalPairs), OverflowRate(w, i)
        PROVE  IInv'
    BY <2>5, AbortStep DEF OverflowRate, AtPair, Failures
  <2>6. CASE RecordFailure(w)
    BY <2>6, RecordFailureStep
  <2>7. CASE CommitRefresh(w)
    BY <2>7, CommitRefreshStep
  <2>8. CASE RespondRefresh(w)
    BY <2>8, RespondRefreshStep
  <2> QED
    BY <1>4, <2>1, <2>2, <2>3, <2>4, <2>5, <2>6, <2>7, <2>8 DEF RefreshStep
<1>5. ASSUME NEW w \in Refreshers, Fault(w)
      PROVE  IInv'
  BY <1>5, AbortStep DEF Fault
<1>6. ASSUME NEW u \in Quoters, NEW r \in Requests, LoadBook(u, r)
      PROVE  IInv'
  BY <1>6, LoadBookStep
<1>7. ASSUME NEW u \in Quoters, PriceQuote(u)
      PROVE  IInv'
  BY <1>7, PriceQuoteStep
<1>8. ASSUME NEW u \in Quoters, RefuseQuote(u)
      PROVE  IInv'
  BY <1>8, RefuseQuoteStep
<1>9. CASE UNCHANGED vars
  BY <1>9, StutterStep
<1> QED
  BY <1>1, <1>2, <1>3, <1>4, <1>5, <1>6, <1>7, <1>8, <1>9 DEF Next

(* The invariant holds in every reachable state. *)
THEOREM Invariance == Spec => []IInv
BY InitIInv, NextIInv, PTL DEF Spec
=============================================================================
