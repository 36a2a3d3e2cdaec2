---------------------------- MODULE FxPoolTheorems ----------------------------
(***************************************************************************)
(* For any number of threads and any size of the pool: the requests on the *)
(* pool are requests of FxRates, what waits for a connection holds neither *)
(* the advisory lock nor rows, and the pool never waits on itself.         *)
(***************************************************************************)
EXTENDS FxPool, FxRatesTheorems, FiniteSetTheorems

(* Every step on the pool is a step of FxRates, or none.                     *)
LEMMA PooledStepIsStep == PooledNext => [Next]_vars
<1> SUFFICES ASSUME PooledNext, ~ UNCHANGED vars
             PROVE  Next
  OBVIOUS
<1>1. CASE Tick
  BY <1>1 DEF Next
<1>2. ASSUME NEW w \in Refreshers, NEW a \in Attempts, PooledBegin(w, a)
      PROVE  Next
  BY <1>2 DEF PooledBegin, Next
<1>3. ASSUME NEW w \in Refreshers, PooledAcquire(w)
      PROVE  Next
  BY <1>3 DEF PooledAcquire, Next
<1>4. ASSUME NEW w \in Refreshers, RefresherStep(w)
      PROVE  Next
  <2>1. RefreshStep(w)
    BY <1>4 DEF RefresherStep, PooledWork, PooledEnd, PooledRecord, PooledRespond, PooledMisread,
                RefreshStep
  <2> QED
    BY <2>1 DEF Next
<1>5. ASSUME NEW u \in Quoters, QuoterStep(u)
      PROVE  Next
  BY <1>5 DEF QuoterStep, PooledLoad, PooledPrice, PooledRefuse, Next
<1>6. ASSUME NEW t \in Threads, PooledFault(t)
      PROVE  Next
  BY <1>6 DEF PooledFault, Next
<1>7. \/ Tick
      \/ \E w \in Refreshers : \/ \E a \in Attempts : PooledBegin(w, a)
                               \/ PooledAcquire(w) \/ RefresherStep(w)
      \/ \E u \in Quoters : QuoterStep(u)
      \/ \E t \in Threads : PooledFault(t)
  BY DEF PooledNext, ArriveQuote, Connect, ReadBack
<1> QED
  BY <1>1, <1>2, <1>3, <1>4, <1>5, <1>6, <1>7

(* On the pool, refreshes and quotes keep all that FxRates promises of them. *)
THEOREM PoolImplementsRates == PooledSpec => Spec
<1>1. PooledInit => Init
  BY DEF PooledInit
<1>2. [PooledNext]_pooledVars => [Next]_vars
  BY PooledStepIsStep DEF pooledVars
<1> QED
  BY <1>1, <1>2, PTL DEF PooledSpec, Spec

-----------------------------------------------------------------------------
(* Within its transaction on the rates, a refresh is connected.              *)
PoolInv ==
    /\ waiting \subseteq Threads /\ connected \subseteq Threads
    /\ waiting \cap connected = {}
    /\ reading \subseteq waiting \cup connected
    /\ \A w \in Refreshers : pc[w] \in {"fetch", "store"} => w \in connected
    /\ \A w \in Refreshers \cap reading : pc[w] = "idle"

(* Initially nobody is connected.                                            *)
LEMMA InitPoolInv == PooledInit => PoolInv
BY DEF PooledInit, Init, PoolInv

(* Each step keeps connections and transactions together.                    *)
LEMMA NextPoolInv ==
    ASSUME TypeOK, PoolInv, [PooledNext]_pooledVars
    PROVE  PoolInv'
<1> USE DEF PoolInv, TypeOK, Threads
<1>1. ASSUME NEW w \in Refreshers, NEW a \in Attempts, PooledBegin(w, a)
      PROVE  PoolInv'
  BY <1>1 DEF PooledBegin, BeginRefresh, Goto, Enter, Free
<1>2. ASSUME NEW w \in Refreshers, PooledAcquire(w)
      PROVE  PoolInv'
  BY <1>2 DEF PooledAcquire, Ready, AcquireLock, Goto, pool
<1>3. ASSUME NEW w \in Refreshers, PooledWork(w)
      PROVE  PoolInv'
  BY <1>3 DEF PooledWork, FetchRates, StorePair, AtPair, Goto, pool
<1>4. ASSUME NEW w \in Refreshers, PooledEnd(w)
      PROVE  PoolInv'
  BY <1>4 DEF PooledEnd, RefuseRates, CommitRefresh, Goto, Reconnect
<1>5. ASSUME NEW w \in Refreshers, PooledRecord(w)
      PROVE  PoolInv'
  BY <1>5 DEF PooledRecord, Ready, RecordFailure, Return, Goto, Reconnect
<1>6. ASSUME NEW w \in Refreshers, PooledRespond(w)
      PROVE  PoolInv'
  BY <1>6 DEF PooledRespond, Ready, RespondRefresh, Return, Goto, Leave
<1>7. ASSUME NEW w \in Refreshers, PooledMisread(w)
      PROVE  PoolInv'
  <2>1. pc' = [pc EXCEPT ![w] = "idle"] /\ Leave(w)
    BY <1>7 DEF PooledMisread, MisreadPayload, OverflowRate, Abort, Return, Goto
  <2> QED
    BY <2>1 DEF Leave
<1>8. ASSUME NEW u \in Quoters, ArriveQuote(u)
      PROVE  PoolInv'
  BY <1>8 DEF ArriveQuote, Enter, Free, vars, refreshing
<1>9. ASSUME NEW u \in Quoters, QuoterStep(u)
      PROVE  PoolInv'
  <2>1. UNCHANGED pc /\ u \notin Refreshers
    BY <1>9, PoolAssumption DEF QuoterStep, PooledLoad, PooledPrice, PooledRefuse, LoadBook,
       PriceQuote, RefuseQuote, refreshing
  <2>2. \/ UNCHANGED pool
        \/ Reconnect(u) /\ reading' = reading \cup {u}
        \/ Leave(u)
    BY <1>9 DEF QuoterStep, PooledLoad, PooledPrice, PooledRefuse
  <2> QED
    BY <2>1, <2>2 DEF pool, Reconnect, Leave
<1>10. ASSUME NEW t \in Threads, Connect(t)
       PROVE  PoolInv'
  BY <1>10 DEF Connect, vars, refreshing
<1>11. ASSUME NEW t \in Threads, ReadBack(t)
       PROVE  PoolInv'
  BY <1>11 DEF ReadBack, Ready, Leave, vars, refreshing
<1>12. ASSUME NEW t \in Threads, PooledFault(t)
       PROVE  PoolInv'
  <2>1. /\ Leave(t)
        /\ \/ t \in Refreshers /\ pc' = [pc EXCEPT ![t] = "idle"]
           \/ (t \in Refreshers => pc[t] = "idle") /\ UNCHANGED pc
    BY <1>12 DEF PooledFault, Fault, Abort, Return, Goto, vars, refreshing
  <2> QED
    BY <2>1 DEF Leave
<1>13. CASE UNCHANGED pooledVars \/ (Tick /\ UNCHANGED pool)
  BY <1>13 DEF pooledVars, pool, vars, Tick, refreshing
<1> QED
  BY <1>1, <1>2, <1>3, <1>4, <1>5, <1>6, <1>7, <1>8, <1>9, <1>10, <1>11, <1>12, <1>13
  DEF PooledNext, RefresherStep

(* The invariants of the rates and of the pool hold together.                *)
THEOREM PoolInvariance == PooledSpec => [](IInv /\ PoolInv)
<1>1. PooledSpec => []IInv
  BY PoolImplementsRates, Invariance, PTL
<1>2. IInv => TypeOK
  BY DEF IInv
<1> QED
  BY <1>1, <1>2, InitPoolInv, NextPoolInv, PTL DEF PooledSpec

(* No request waits for a connection with the advisory lock or uncommitted   *)
(* rows in hand.                                                             *)
THEOREM NobodyWaitsHolding == PooledSpec => []WaitersHoldNothing
<1>1. IInv /\ PoolInv => WaitersHoldNothing
  BY DEF IInv, RefreshersInv, WorkerInv, PoolInv, WaitersHoldNothing
<1> QED
  BY <1>1, PoolInvariance, PTL

(* When all connections are out, one of the threads that have them can go    *)
(* on: the holder of the lock, or anybody if it is free.                     *)
LEMMA SomebodyGoesOn == ASSUME IInv, PoolInv PROVE PoolNeverWedged
<1> SUFFICES ASSUME Cardinality(connected) = PoolSize
             PROVE  \E t \in connected : ~Stuck(t)
  BY DEF PoolNeverWedged
<1>1. connected # {}
  BY PoolAssumption, FS_EmptySet
<1>2. CASE advisory = None
  BY <1>1, <1>2 DEF Stuck, PoolInv
<1>3. CASE advisory # None
  <2>1. advisory \in Refreshers
    BY <1>3 DEF IInv, TypeOK
  <2>2. pc[advisory] \in {"fetch", "store"}
    BY <2>1 DEF IInv, RefreshersInv, WorkerInv
  <2> QED
    BY <2>1, <2>2 DEF Stuck, PoolInv
<1> QED
  BY <1>2, <1>3

(* The pool never waits on itself, whatever its size and however many        *)
(* refreshes queue for the lock.                                             *)
THEOREM PoolGoesOn == PooledSpec => []PoolNeverWedged
BY SomebodyGoesOn, PoolInvariance, PTL

(* The pool gives and takes connections one at a time.                       *)
LEMMA OneConnectionAtATime ==
    ASSUME [PooledNext]_pooledVars
    PROVE  \/ connected' = connected
           \/ \E t : connected' = connected \ {t}
           \/ \E t : connected' = connected \cup {t} /\ Cardinality(connected) < PoolSize
<1> DEFINE Moves == \/ connected' = connected
                    \/ \E t : connected' = connected \ {t}
                    \/ \E t : connected' = connected \cup {t} /\ Cardinality(connected) < PoolSize
<1> SUFFICES Moves
  OBVIOUS
<1>1. CASE UNCHANGED pooledVars
  BY <1>1 DEF pooledVars, pool
<1>2. ASSUME NEW t \in Threads, Connect(t)
      PROVE  Moves
  BY <1>2 DEF Connect
<1>3. ASSUME NEW w \in Refreshers, RefresherStep(w)
      PROVE  Moves
  BY <1>3 DEF RefresherStep, PooledWork, PooledEnd, PooledRecord, PooledRespond, PooledMisread,
              Reconnect, Leave, pool
<1>4. ASSUME NEW u \in Quoters, QuoterStep(u)
      PROVE  Moves
  BY <1>4 DEF QuoterStep, PooledLoad, PooledPrice, PooledRefuse, Reconnect, Leave, pool
<1>5. ASSUME NEW t \in Threads, ReadBack(t) \/ PooledFault(t)
      PROVE  Moves
  BY <1>5 DEF ReadBack, PooledFault, Leave
<1>6. ASSUME NEW w \in Refreshers, PooledAcquire(w) \/ \E a \in Attempts : PooledBegin(w, a)
      PROVE  Moves
  BY <1>6 DEF PooledBegin, PooledAcquire, Enter, pool
<1>7. ASSUME NEW u \in Quoters, ArriveQuote(u)
      PROVE  Moves
  BY <1>7 DEF ArriveQuote, Enter
<1>8. CASE Tick /\ UNCHANGED pool
  BY <1>8 DEF pool
<1> HIDE DEF Moves
<1> QED
  BY <1>1, <1>2, <1>3, <1>4, <1>5, <1>6, <1>7, <1>8 DEF PooledNext

(* No more connections are out than the engine may open.                     *)
THEOREM PoolTyped == PooledSpec => []PoolTypeOK
<1> DEFINE Bounded == IsFiniteSet(connected) /\ Cardinality(connected) <= PoolSize
<1>1. PooledInit => Bounded
  BY PoolAssumption, FS_EmptySet DEF PooledInit
<1>2. ASSUME Bounded, [PooledNext]_pooledVars
      PROVE  Bounded'
  <2>1. Cardinality(connected) \in Nat /\ PoolSize \in Nat
    BY <1>2, PoolAssumption, FS_CardinalityType
  <2>2. CASE connected' = connected
    BY <1>2, <2>2
  <2>3. ASSUME NEW t, connected' = connected \ {t}
        PROVE  Bounded'
    BY <1>2, <2>1, <2>3, FS_RemoveElement
  <2>4. ASSUME NEW t, connected' = connected \cup {t}, Cardinality(connected) < PoolSize
        PROVE  Bounded'
    BY <1>2, <2>1, <2>4, FS_AddElement
  <2> QED
    BY <1>2, <2>2, <2>3, <2>4, OneConnectionAtATime
<1>3. PoolInv /\ Bounded => PoolTypeOK
  BY DEF PoolInv, PoolTypeOK
<1> HIDE DEF Bounded
<1> QED
  BY <1>1, <1>2, <1>3, PoolInvariance, PTL DEF PooledSpec
=============================================================================
