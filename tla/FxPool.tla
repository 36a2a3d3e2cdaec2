-------------------------------- MODULE FxPool --------------------------------
(***************************************************************************)
(* The requests of FxRates on the bounded connection pool of one process   *)
(* (the engine of app/db/session.py).  A session checks a connection out   *)
(* with its first statement, keeps it while its transaction lasts, above   *)
(* all while the transaction waits for the advisory lock, and gives it     *)
(* back with the commit, the rollback or its close.  A statement after     *)
(* that checks one out again: the audit row of a failed refresh, and every *)
(* read of a committed row.                                                *)
(*                                                                         *)
(* Each step of FxRates is taken here under the same name, with its thread *)
(* connected, and with what it does to the pool.                           *)
(***************************************************************************)
EXTENDS FxRates

CONSTANT PoolSize   \* pool_size and max_overflow of the engine, together

ASSUME PoolAssumption ==
    /\ PoolSize \in Nat \ {0}
    /\ Refreshers \cap Quoters = {}

VARIABLES
    waiting,    \* threads in connect, for want of a connection
    connected,  \* threads with a connection
    reading     \* threads whose request has committed and reads its row back

pool == <<waiting, connected, reading>>
pooledVars == <<vars, pool>>

Threads == Refreshers \cup Quoters

PoolTypeOK ==
    /\ waiting \subseteq Threads
    /\ connected \subseteq Threads /\ Cardinality(connected) <= PoolSize
    /\ reading \subseteq Threads

PooledInit == Init /\ waiting = {} /\ connected = {} /\ reading = {}

Free(t) == t \notin waiting \cup connected

(* The thread's next statement can be sent. *)
Ready(t) == t \in connected \ waiting

-----------------------------------------------------------------------------
(* The pool *)

Enter(t) ==
    /\ Free(t)
    /\ waiting' = waiting \cup {t}
    /\ UNCHANGED <<connected, reading>>

(* The session is closed, and the request over. *)
Leave(t) ==
    /\ waiting' = waiting \ {t}
    /\ connected' = connected \ {t}
    /\ reading' = reading \ {t}

(* Mutant: the next statement goes through another session while this one    *)
(* keeps its connection.                                                     *)
ReconnectHolding(t) ==
    /\ waiting' = waiting \cup {t}
    /\ UNCHANGED connected

(* The transaction ends, and the request's next statement needs a connection *)
(* again.                                                                    *)
Reconnect(t) ==
    /\ waiting' = waiting \cup {t}
    /\ connected' = connected \ {t}

(* Mutant: overflow connections without a limit. *)
ConnectUnbounded(t) ==
    /\ t \in waiting
    /\ waiting' = waiting \ {t}
    /\ connected' = connected \cup {t}
    /\ UNCHANGED <<vars, reading>>

(* A connection of the pool, or one more while it may still overflow.        *)
Connect(t) ==
    /\ t \in waiting
    /\ Cardinality(connected) < PoolSize
    /\ waiting' = waiting \ {t}
    /\ connected' = connected \cup {t}
    /\ UNCHANGED <<vars, reading>>

-----------------------------------------------------------------------------
(* Requests *)

PooledBegin(w, a) == BeginRefresh(w, a) /\ Enter(w)

PooledAcquire(w) == Ready(w) /\ AcquireLock(w) /\ UNCHANGED pool

(* Within the transaction. *)
PooledWork(w) ==
    /\ \/ \E p \in Payloads : FetchRates(w, p)
       \/ \E i \in 1 .. Len(CanonicalPairs) : StorePair(w, i)
    /\ UNCHANGED pool

(* The rollback before the audit row, or the commit before the log.          *)
PooledEnd(w) == (RefuseRates(w) \/ CommitRefresh(w)) /\ Reconnect(w) /\ UNCHANGED reading

PooledRecord(w) ==
    /\ Ready(w)
    /\ RecordFailure(w)
    /\ Reconnect(w)
    /\ reading' = reading \cup {w}

PooledRespond(w) == Ready(w) /\ RespondRefresh(w) /\ Leave(w)

PooledMisread(w) ==
    /\ MisreadPayload(w) \/ \E i \in 1 .. Len(CanonicalPairs) : OverflowRate(w, i)
    /\ Leave(w)

ArriveQuote(u) == Enter(u) /\ UNCHANGED vars

PooledLoad(u, r) ==
    /\ Ready(u) /\ u \notin reading
    /\ LoadBook(u, r)
    /\ UNCHANGED pool

PooledPrice(u) == Reconnect(u) /\ reading' = reading \cup {u} /\ PriceQuote(u)

PooledRefuse(u) == RefuseQuote(u) /\ Leave(u)

(* The log of a quote or of a failed refresh reads the committed row again.  *)
ReadBack(t) == Ready(t) /\ t \in reading /\ Leave(t) /\ UNCHANGED vars

(* The pool's timeout, a fault, or the death of the request.                 *)
PooledFault(t) ==
    \/ t \in Refreshers /\ Fault(t) /\ Leave(t)
    \/ /\ ~Free(t)
       /\ IF t \in Refreshers THEN pc[t] = "idle" ELSE asked[t] = None
       /\ Leave(t) /\ UNCHANGED vars

RefresherStep(w) ==
    \/ PooledWork(w) \/ PooledEnd(w) \/ PooledRecord(w) \/ PooledRespond(w) \/ PooledMisread(w)

QuoterStep(u) ==
    \/ \E r \in Requests : PooledLoad(u, r)
    \/ PooledRefuse(u) \/ PooledPrice(u)

PooledNext ==
    \/ Tick /\ UNCHANGED pool
    \/ \E w \in Refreshers :
        \/ \E a \in Attempts : PooledBegin(w, a)
        \/ PooledAcquire(w) \/ RefresherStep(w)
    \/ \E u \in Quoters : ArriveQuote(u) \/ QuoterStep(u)
    \/ \E t \in Threads : Connect(t) \/ ReadBack(t) \/ PooledFault(t)

PooledSpec == PooledInit /\ [][PooledNext]_pooledVars

(* FairSpec of FxRates, and a pool that serves its waiters in turn; its      *)
(* timeout is not what ends a request.                                       *)
PooledFairSpec ==
    /\ PooledSpec
    /\ \A w \in Refreshers : WF_pooledVars(RefresherStep(w)) /\ SF_pooledVars(PooledAcquire(w))
    /\ \A u \in Quoters : WF_pooledVars(QuoterStep(u))
    /\ \A t \in Threads : WF_pooledVars(ReadBack(t)) /\ SF_pooledVars(Connect(t))

-----------------------------------------------------------------------------
(* A request never waits for a connection with the advisory lock or with     *)
(* uncommitted rows in hand: those go with the connection (refresh_rates,    *)
(* _record_failed_refresh).                                                  *)
WaitersHoldNothing ==
    \A w \in Refreshers \cap waiting : advisory # w /\ staged[w] = {}

(* The thread cannot go on by itself: it waits for another connection, or    *)
(* for the lock that a thread holds.                                         *)
Stuck(t) == t \in waiting \/ (t \in Refreshers /\ pc[t] = "lock" /\ advisory # None)

(* However many refreshes queue for the lock with a connection each, when    *)
(* the pool is exhausted one of those connected can go on, and so the pool   *)
(* never waits on itself (refresh_rates).                                    *)
PoolNeverWedged ==
    Cardinality(connected) = PoolSize => \E t \in connected : ~Stuck(t)

(* A quote that waits for a connection, before its first statement or after  *)
(* its commit, is answered or dies, whatever the refreshes before it do      *)
(* (create_quote).                                                           *)
EveryQuoteEnds == \A u \in Quoters : u \in waiting ~> Free(u)
=============================================================================
