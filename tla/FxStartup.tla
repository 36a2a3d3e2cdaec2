------------------------------- MODULE FxStartup -------------------------------
(***************************************************************************)
(* The start of server processes on a database that others already use     *)
(* (the lifespan of app/main.py and create_all of app/db/session.py).      *)
(*                                                                         *)
(* create_all runs in one transaction: it looks which tables are missing,  *)
(* defines reject_modification, creates the missing tables with their      *)
(* triggers, and then drops and creates again the triggers of              *)
(* IMMUTABLE_TABLES, each under an ACCESS EXCLUSIVE lock of its table that *)
(* lasts until the commit.  Meanwhile the threads of the processes that    *)
(* serve take their locks on the same tables and on rows.  A request for a *)
(* lock waits for the holders it conflicts with and for the earlier        *)
(* waiters it conflicts with.                                              *)
(*                                                                         *)
(* All requests meet on one key, one quote and one balance; FxExecution    *)
(* has the locks of several.                                               *)
(***************************************************************************)
EXTENDS Naturals, Sequences, Functions

CONSTANTS
    Processes,  \* server processes
    Workers,    \* their request threads
    Home,       \* the process of a thread
    Jobs,       \* the requests they serve
    None

ASSUME HomeAssumption == Home \in [Workers -> Processes]
ASSUME SessionsAssumption == Processes \cap Workers = {} /\ None \notin Jobs
ASSUME JobsAssumption == Jobs \subseteq {"execute", "credit", "quote", "refresh"}

VARIABLES
    guard,      \* the committed tables, each with the function its trigger calls
    process,    \* what a server process is doing
    missing,    \* the tables that a start found missing
    overtaken,  \* starts that waited for reject_modification while one committed
    refused,    \* processes whose last start failed because of another one
    job,        \* the transaction a thread runs
    taken,      \* how many locks of its plan a transaction holds
    waiting,    \* the transactions queued for their next lock
    ahead       \* who was in that queue before them, and still is

starts == <<process, missing, overtaken, refused>>
locks == <<taken, waiting, ahead>>
vars == <<guard, starts, job, locks>>

ImmutableTables == <<"quotes", "quote_legs", "executions", "ledger_entries", "rate_snapshots">>

Tables == Range(ImmutableTables) \cup {"credit_adjustments"}

(* The functions that the triggers of the two files call. *)
Absent == [t \in Tables |-> "absent"]
Guarded == [t \in Tables |->
    IF t \in Range(ImmutableTables) THEN "fx_raise_immutable" ELSE "reject_modification"]

Guards == {"absent", "reject_modification", "fx_raise_immutable"}

Sessions == Processes \cup Workers

-----------------------------------------------------------------------------
(* The locks of each transaction, in the order its statements take them *)

(* Mutant: the triggers in the order of _IMMUTABLE_TABLES in models.py. *)
StartPlanLedgerFirst == <<"reject_modification", "ledger_entries", "executions", "quotes",
                          "quote_legs", "rate_snapshots">>

(* A pg_proc row is locked by CREATE OR REPLACE FUNCTION. (The row of        *)
(* fx_raise_immutable is only ever locked by who holds the first.)           *)
StartPlan == <<"reject_modification">> \o ImmutableTables

ExecutePlan == <<"key", "quotes", "quote", "executions", "balance", "ledger_entries">>
CreditPlan == <<"balance", "credit_adjustments", "ledger_entries">>
QuotePlan == <<"quotes", "quote_legs", "rate_snapshots">>
RefreshPlan == <<"advisory", "rate_snapshots">>

(* Mutant: the log of an execution names the execution before its quote. *)
ReadExecutedPlanSwapped == <<"executions", "quotes">>

(* What a commit has expired is read again, in one transaction, for the log: *)
(* the quote and the execution of a success; the quote alone when it has     *)
(* just been made, or when its execution failed.                             *)
ReadExecutedPlan == <<"quotes", "executions">>
ReadBackPlan == <<"quotes">>

Plan(s) ==
    IF s \in Processes THEN StartPlan
    ELSE CASE job[s] = "execute" -> ExecutePlan
           [] job[s] = "credit" -> CreditPlan
           [] job[s] = "quote" -> QuotePlan
           [] job[s] = "refresh" -> RefreshPlan
           [] job[s] = "read_executed" -> ReadExecutedPlan
           [] job[s] = "read_back" -> ReadBackPlan
           [] OTHER -> <<>>

Running(s) == IF s \in Processes THEN process[s] = "starting" ELSE job[s] # None

Done(s) == taken[s] = Len(Plan(s))
NextLock(s) == Plan(s)[taken[s] + 1]

Holds(s, l) == Running(s) /\ \E i \in 1 .. taken[s] : Plan(s)[i] = l

(* The queue that s finds, or has in front of it. *)
Queue(s) ==
    IF s \in waiting THEN ahead[s] ELSE {v \in waiting : NextLock(v) = NextLock(s)}

(* Requests lock tables in modes that all go together; only a start, and     *)
(* whoever wants a row, excludes others.                                     *)
Conflict(s, v) ==
    s # v /\ (NextLock(s) \notin Tables \/ s \in Processes \/ v \in Processes)

Blocks(v, s) == Conflict(s, v) /\ (Holds(v, NextLock(s)) \/ v \in Queue(s))

CanTake(s) == Running(s) /\ ~Done(s) /\ \A v \in Sessions : ~Blocks(v, s)

Dequeue(gone) ==
    /\ waiting' = waiting \ gone
    /\ ahead' = [s \in Sessions |-> IF s \in gone THEN {} ELSE ahead[s] \ gone]

Take(s) ==
    /\ CanTake(s)
    /\ taken' = [taken EXCEPT ![s] = @ + 1]
    /\ Dequeue({s})

(* The next lock is not free: the transaction joins its queue. *)
Wait(s) ==
    /\ Running(s) /\ ~Done(s)
    /\ ~CanTake(s)
    /\ s \notin waiting
    /\ waiting' = waiting \cup {s}
    /\ ahead' = [ahead EXCEPT ![s] = Queue(s)]
    /\ UNCHANGED <<guard, starts, job, taken>>

(* COMMIT or ROLLBACK of some transactions. *)
Release(ended) ==
    /\ taken' = [s \in Sessions |-> IF s \in ended THEN 0 ELSE taken[s]]
    /\ Dequeue(ended)

-----------------------------------------------------------------------------
Init ==
    /\ guard = Absent
    /\ process = [p \in Processes |-> "down"]
    /\ missing = [p \in Processes |-> {}]
    /\ overtaken = {}
    /\ refused = {}
    /\ job = [w \in Workers |-> None]
    /\ taken = [s \in Sessions |-> 0]
    /\ waiting = {}
    /\ ahead = [s \in Sessions |-> {}]

(* create_all *)

MissingTables == {t \in Tables : guard[t] = "absent"}

(* Mutant: the application accepts requests while it creates the tables. *)
StartServing(p) ==
    /\ process[p] = "down"
    /\ process' = [process EXCEPT ![p] = "serving"]
    /\ missing' = [missing EXCEPT ![p] = MissingTables]
    /\ refused' = refused \ {p}
    /\ UNCHANGED <<guard, overtaken, job, locks>>

(* The process starts, and looks for its tables before it locks anything.    *)
(* (One look stands for one per table: what it could make of a commit in     *)
(* between, some tables missing and some not, ends like all missing.)        *)
Start(p) ==
    /\ process[p] = "down"
    /\ process' = [process EXCEPT ![p] = "starting"]
    /\ missing' = [missing EXCEPT ![p] = MissingTables]
    /\ refused' = refused \ {p}
    /\ UNCHANGED <<guard, overtaken, job, locks>>

(* CREATE OR REPLACE FUNCTION fails when the function changed while it       *)
(* waited, CREATE TABLE when another start has created the table.            *)
Collides(p) == p \in overtaken \/ missing[p] \cap MissingTables # missing[p]

(* Mutant: the function is committed first, in a transaction of its own. *)
DefineFunctionEarly(p) ==
    /\ taken[p] = 0
    /\ ~Collides(p)
    /\ Take(p)
    /\ overtaken' = overtaken \cup {q \in waiting \cap Processes : taken[q] = 0}
    /\ UNCHANGED <<guard, process, missing, refused, job>>

DefineFunction(p) ==
    /\ taken[p] = 0
    /\ ~Collides(p)
    /\ Take(p)
    /\ UNCHANGED <<guard, starts, job>>

(* The lifespan fails, and with it the process. *)
Refuse(p) ==
    /\ taken[p] = 0
    /\ Collides(p)
    /\ CanTake(p)
    /\ process' = [process EXCEPT ![p] = "down"]
    /\ overtaken' = overtaken \ {p}
    /\ missing' = [missing EXCEPT ![p] = {}]
    /\ refused' = refused \cup {p}
    /\ Release({p})
    /\ UNCHANGED <<guard, job>>

(* Mutant: create_all runs in autocommit. *)
ReplaceTriggerCommitted(p) ==
    /\ taken[p] > 0
    /\ Take(p)
    /\ guard' = [t \in Tables |-> IF t = NextLock(p) THEN "fx_raise_immutable" ELSE guard[t]]
    /\ UNCHANGED <<starts, job>>

(* DROP TRIGGER IF EXISTS, CREATE TRIGGER. *)
ReplaceTrigger(p) ==
    /\ taken[p] > 0
    /\ Take(p)
    /\ UNCHANGED <<guard, starts, job>>

(* Mutant: the triggers of models.py are taken for duplicates and removed. *)
CreatedUnguarded(p) ==
    [t \in Tables |->
        IF Holds(p, t) THEN "fx_raise_immutable"
        ELSE IF t \in missing[p] THEN "unguarded" ELSE guard[t]]

(* What the transaction has made of the catalog: it has created the missing  *)
(* tables, each with the trigger of models.py, and replaced the triggers of  *)
(* the tables it has locked.                                                 *)
Created(p) ==
    [t \in Tables |->
        IF Holds(p, t) THEN "fx_raise_immutable"
        ELSE IF t \in missing[p] THEN "reject_modification" ELSE guard[t]]

(* Who waits to define the function finds that it has changed. *)
CommitStart(p) ==
    /\ process[p] = "starting"
    /\ Done(p)
    /\ guard' = Created(p)
    /\ process' = [process EXCEPT ![p] = "serving"]
    /\ missing' = [missing EXCEPT ![p] = {}]
    /\ overtaken' = overtaken \cup {q \in waiting \cap Processes : taken[q] = 0}
    /\ Release({p})
    /\ UNCHANGED <<refused, job>>

(* The process ends or dies, and the transactions of its threads with it. *)
Stop(p) ==
    /\ process[p] # "down"
    /\ process' = [process EXCEPT ![p] = "down"]
    /\ missing' = [missing EXCEPT ![p] = {}]
    /\ overtaken' = overtaken \ {p}
    /\ job' = [w \in Workers |-> IF Home[w] = p THEN None ELSE job[w]]
    /\ Release({p} \cup {w \in Workers : Home[w] = p})
    /\ UNCHANGED <<guard, refused>>

-----------------------------------------------------------------------------
(* Requests *)

Begin(w, j) ==
    /\ process[Home[w]] = "serving"
    /\ job[w] = None
    /\ job' = [job EXCEPT ![w] = j]
    /\ UNCHANGED <<guard, starts, locks>>

RequestLock(w) == Take(w) /\ UNCHANGED <<guard, starts, job>>

(* The commit. Executions and quotes go on to read their rows again. *)
Finish(w) ==
    /\ job[w] # None
    /\ Done(w)
    /\ job' = [job EXCEPT ![w] =
          IF @ = "execute" THEN "read_executed" ELSE IF @ = "quote" THEN "read_back" ELSE None]
    /\ Release({w})
    /\ UNCHANGED <<guard, starts>>

(* A rejection or a fault: the rollback. The log of a failed execution may   *)
(* then read its quote, also when it was the log of its success that failed. *)
Abort(w) ==
    /\ job[w] # None
    /\ \E next \in {None, "read_back"} :
          /\ next = "read_back" => job[w] \in {"execute", "read_executed"}
          /\ job' = [job EXCEPT ![w] = next]
    /\ Release({w})
    /\ UNCHANGED <<guard, starts>>

StartStep(p) ==
    DefineFunction(p) \/ Refuse(p) \/ ReplaceTrigger(p) \/ CommitStart(p) \/ Wait(p)

RequestStep(w) == RequestLock(w) \/ Finish(w) \/ Wait(w)

Next ==
    \/ \E p \in Processes : Start(p) \/ StartStep(p) \/ Stop(p)
    \/ \E w \in Workers : RequestStep(w) \/ Abort(w) \/ \E j \in Jobs : Begin(w, j)

Spec == Init /\ [][Next]_vars

(* Every transaction goes on when it can. Nothing makes a process start or   *)
(* a client call.                                                            *)
FairSpec ==
    /\ Spec
    /\ \A p \in Processes : WF_vars(StartStep(p))
    /\ \A w \in Workers : WF_vars(RequestStep(w))

-----------------------------------------------------------------------------
(* Properties *)

TypeOK ==
    /\ guard \in [Tables -> Guards]
    /\ process \in [Processes -> {"down", "starting", "serving"}]
    /\ missing \in [Processes -> SUBSET Tables]
    /\ overtaken \subseteq Processes
    /\ refused \subseteq Processes
    /\ job \in [Workers -> Jobs \cup {"read_executed", "read_back", None}]
    /\ taken \in [Sessions -> 0 .. 6]
    /\ waiting \subseteq Sessions
    /\ ahead \in [Sessions -> SUBSET Sessions]

(* Whatever starts overlap, fail or die, the database never shows a table    *)
(* without its trigger, nor some tables without the others: audit rows can   *)
(* be changed at no moment ("Tables whose rows must never change").          *)
SchemaIsWhole == guard \in {Absent, Guarded}

(* A process accepts requests only when their tables are there (lifespan).   *)
TrafficAfterSchema ==
    \A p \in Processes : process[p] = "serving" => guard = Guarded

(* A start only fails on another start when that one has completed the       *)
(* schema: starting it again needs nobody's help.                            *)
RefusedAfterSuccess == refused # {} => guard = Guarded

WaitsFor(s, v) == s \in waiting /\ Blocks(v, s)

(* A start and the requests of the other processes never wait for each other *)
(* in a circle: the triggers are replaced in the order in which requests use *)
(* their tables.                                                             *)
NoStartDeadlock ==
    \A group \in (SUBSET Sessions) \ {{}} :
        \E s \in group : \A v \in group : ~WaitsFor(s, v)

(* A start gets its locks however many requests keep coming.                 *)
EveryStartEnds == \A p \in Processes : process[p] = "starting" ~> process[p] # "starting"

(* A request outlives the starts of other processes. *)
EveryRequestEnds == \A w \in Workers : job[w] # None ~> job[w] = None
=============================================================================
