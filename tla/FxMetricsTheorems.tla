-------------------------- MODULE FxMetricsTheorems --------------------------
(***************************************************************************)
(* For any number of workers, customers, quotes and keys: requests that    *)
(* count are requests of FxExecution, and what they count is what the      *)
(* README says of the counters and what the tables hold.                   *)
(***************************************************************************)
EXTENDS FxMetrics, FxExecutionTheorems

(* Every step that counts is a step of FxExecution.                          *)
LEMMA MeteredStepIsStep ==
    ASSUME [MeteredNext]_meteredVars
    PROVE  [Next]_vars
<1>1. ASSUME NEW w \in Workers,
             \/ MeteredLockStep(w) \/ MeteredLocalStep(w)
             \/ MeteredArrival(w) \/ MeteredFault(w) \/ MeteredCrash(w)
      PROVE  LockStep(w) \/ LocalStep(w) \/ Arrival(w) \/ Fault(w) \/ Crash(w)
  BY <1>1 DEF MeteredLockStep, MeteredLocalStep, MeteredArrival, MeteredFault, MeteredCrash,
     MeteredClaimKey, MeteredLock, MeteredCreditLock, MeteredCheckKey, MeteredWork,
     UncountedStep, LockStep, LocalStep
<1> QED
  BY <1>1 DEF MeteredNext, meteredVars, Next

(* Counting changes nothing of the money path: all that is proved of         *)
(* FxExecution holds with counters.                                          *)
THEOREM MeteredImplementsExecution == MeteredSpec => Spec
<1>1. MeteredInit => Init
  BY DEF MeteredInit
<1>2. [MeteredNext]_meteredVars => [Next]_vars
  BY MeteredStepIsStep
<1> QED
  BY <1>1, <1>2, PTL DEF MeteredSpec, Spec

-----------------------------------------------------------------------------
(* The inductive invariant *)

Tally(hits) == [c \in Counters |-> IF c \in hits THEN 1 ELSE 0]

(* All that one request can have counted.                                    *)
Tallies == {{}, {"success"}, {"success", "failure"}, {"conflict"}, {"replay"},
            {"failure"}, {"failure", "expired"}, {"failure", "funds"}}

(* The refusals inside the try block.                                        *)
Refusals == {"quote_not_found", "quote_already_executed", "quote_expired",
             "insufficient_funds"}

(* A request counts nothing until it has committed or ends.                  *)
CountInv(w) ==
    /\ \E hits \in Tallies : counted[w] = Tally(hits)
    /\ pc[w] \notin {"idle", "respond"} => counted[w] = Tally({})
    /\ pc[w] = "respond" => counted[w] = Tally({"success"})
    /\ pc[w] # "idle" => reply[w] = None
    /\ counted[w]["success"] = 1 =>
         /\ req[w].quote \in executions
         /\ req[w].key \in Keys
         /\ Completed(req[w].key) /\ responses[req[w].key].quote = req[w].quote
    /\ counted[w]["conflict"] = 1 =>
         pc[w] = "idle" /\ req[w].key \in Keys /\ Completed(req[w].key)
    /\ Answered(w, Refusals) => counted[w]["failure"] = 1

MetricsInv ==
    /\ DOMAIN counted = Workers
    /\ \A w \in Workers : CountInv(w)
    /\ \A v, w \in Workers :
         v # w /\ counted[v]["success"] = 1 /\ counted[w]["success"] = 1
            => req[v].quote # req[w].quote

(* What a step of w may do to its own counters: a success is counted once,   *)
(* for a quote that was not executed before.                                 *)
CountsRightly(w) ==
    /\ CountInv(w)'
    /\ counted'[w]["success"] = 1 =>
         /\ req'[w] = req[w]
         /\ counted[w]["success"] = 1 \/ req[w].quote \notin executions

(* Tallies are told apart by their members.                                  *)
LEMMA TallyOf ==
    ASSUME NEW hits, NEW c \in Counters
    PROVE  Tally(hits)[c] = IF c \in hits THEN 1 ELSE 0
  BY DEF Tally

(* A request that has counted nothing counts each hit once.                  *)
LEMMA CountsOnce ==
    ASSUME DOMAIN counted = Workers, NEW w \in Workers, NEW hits, Count(w, hits),
           NEW before, counted[w] = Tally(before), before \cap hits = {}
    PROVE  /\ counted'[w] = Tally(before \cup hits)
           /\ DOMAIN counted' = Workers
           /\ \A v \in Workers \ {w} : counted'[v] = counted[v]
<1>1. /\ counted'[w] = [c \in Counters |-> IF c \in hits THEN counted[w][c] + 1 ELSE counted[w][c]]
      /\ DOMAIN counted' = Workers
      /\ \A v \in Workers \ {w} : counted'[v] = counted[v]
  BY DEF Count
<1>2. counted'[w] = Tally(before \cup hits)
  BY <1>1 DEF Tally
<1> QED
  BY <1>1, <1>2

(* A new request, or a dead process, has counted nothing.                    *)
LEMMA RestartsEmpty ==
    ASSUME DOMAIN counted = Workers, NEW w \in Workers, Restart(w)
    PROVE  /\ counted'[w] = Tally({})
           /\ DOMAIN counted' = Workers
           /\ \A v \in Workers \ {w} : counted'[v] = counted[v]
  BY DEF Restart, NothingCounted, Tally

(* A request that counts nothing, and is not refused, has nothing to keep.   *)
LEMMA NothingToKeep ==
    ASSUME NEW w \in Workers, counted'[w] = Tally({}), pc'[w] # "respond",
           pc'[w] # "idle" => reply'[w] = None, ~Answered(w, Refusals)'
    PROVE  CountsRightly(w)
<1>1. \A c \in Counters : counted'[w][c] = 0
  BY TallyOf
<1>2. counted'[w]["success"] = 0 /\ counted'[w]["conflict"] = 0
  BY <1>1 DEF Counters
<1>3. {} \in Tallies
  BY DEF Tallies
<1> QED
  BY <1>2, <1>3 DEF CountInv, CountsRightly

-----------------------------------------------------------------------------
(* The steps of a request *)

(* A request that fails inside the try block counts a failure, and its       *)
(* reason at most once.                                                      *)
LEMMA RaisedTally ==
    ASSUME NEW w \in Workers
    PROVE  /\ Raised(w) \in Tallies
           /\ "failure" \in Raised(w)
           /\ "success" \notin Raised(w) /\ "conflict" \notin Raised(w)
<1>1. ~(EndsWith(w, "quote_expired") /\ EndsWith(w, "insufficient_funds"))
  BY DEF EndsWith, Answered
<1>2. Raised(w) \in {{"failure"}, {"failure", "expired"}, {"failure", "funds"}}
  BY <1>1 DEF Raised
<1> QED
  BY <1>2 DEF Tallies

(* Such a request keeps the invariant.                                       *)
LEMMA RaisedCountsRightly ==
    ASSUME NEW w \in Workers, counted'[w] = Tally(Raised(w)), pc'[w] = "idle"
    PROVE  CountsRightly(w)
<1>1. /\ counted'[w]["failure"] = 1
      /\ counted'[w]["success"] = 0
      /\ counted'[w]["conflict"] = 0
  BY RaisedTally, TallyOf DEF Counters
<1> QED
  BY <1>1, RaisedTally DEF CountInv, CountsRightly

(* What a worker's own variables are after a step that ends its request.     *)
LEMMA FailEnds ==
    ASSUME IInv, NEW w \in Workers, NEW code, Fail(w, code)
    PROVE  pc'[w] = "idle" /\ reply'[w].code = code /\ req' = req /\ UNCHANGED books
<1>1. reply'[w] = [code |-> code, body |-> None]
  BY DEF Fail, Answer, IInv, TypeOK
<1> QED
  BY <1>1 DEF Fail, Answer, Goto, IInv, TypeOK

(* The lookup of the key counts a conflict or a replay.                      *)
LEMMA CheckKeyCounts ==
    ASSUME IInv, IInv', MetricsInv, NEW w \in Workers, MeteredCheckKey(w)
    PROVE  CountsRightly(w)
<1> DEFINE hits == {c \in {"conflict"} : EndsWith(w, "idempotency_conflict")}
                     \cup {c \in {"replay"} : EndsWith(w, "replayed")}
<1>1. pc[w] = "check_key" /\ CheckKey(w) /\ Count(w, hits)
  BY DEF MeteredCheckKey, CheckKey
<1>2. counted[w] = Tally({}) /\ reply[w] = None /\ req[w] \in ExecuteRequest
  BY <1>1 DEF MetricsInv, CountInv, IInv, WorkerInv, RequestInv, ExecutePoints
<1>3. counted'[w] = Tally(hits)
  BY <1>1, <1>2, CountsOnce DEF MetricsInv
<1>4. \/ \E code \in {"validation_error", "idempotency_conflict"} : Fail(w, code)
      \/ Goto(w, "claim_key") /\ reply' = reply /\ req' = req
      \/ (\E body : Answer(w, "replayed", body)) /\ req' = req
  BY <1>1 DEF CheckKey
<1>5. /\ req' = req
      /\ \/ pc'[w] = "idle" /\ ~Answered(w, Refusals)'
         \/ pc'[w] = "claim_key" /\ reply'[w] = None
  <2>1. CASE \E code \in {"validation_error", "idempotency_conflict"} : Fail(w, code)
    <3>1. PICK code \in {"validation_error", "idempotency_conflict"} : Fail(w, code)
      BY <2>1
    <3>2. reply'[w].code = code /\ pc'[w] = "idle" /\ req' = req
      BY <3>1, FailEnds
    <3> QED
      BY <3>2 DEF Answered, Refusals
  <2>2. CASE Goto(w, "claim_key") /\ reply' = reply /\ req' = req
    BY <1>2, <2>2 DEF Goto, IInv, TypeOK
  <2>3. CASE (\E body : Answer(w, "replayed", body)) /\ req' = req
    <3>1. PICK body : Answer(w, "replayed", body)
      BY <2>3
    <3>2. pc'[w] = "idle" /\ reply'[w].code = "replayed"
      BY <3>1 DEF Answer, Goto, IInv, TypeOK
    <3> QED
      BY <2>3, <3>2 DEF Answered, Refusals
  <2> QED
    BY <1>4, <2>1, <2>2, <2>3
<1>6. hits \in {{}, {"conflict"}, {"replay"}}
  BY DEF EndsWith, Answered
<1>7. counted'[w]["success"] = 0
  BY <1>3, <1>6, TallyOf DEF Counters
<1>8. counted'[w]["conflict"] = 1 =>
        (pc[w] = "idle" /\ req[w].key \in Keys /\ Completed(req[w].key))'
  <2>1. counted'[w]["conflict"] = 1 => EndsWith(w, "idempotency_conflict")
    BY <1>3, TallyOf DEF Counters
  <2>2. AnswerInv(w)' /\ req'[w] \in ExecuteRequest
    BY <1>2, <1>5 DEF IInv, WorkerInv
  <2> QED
    BY <2>1, <2>2 DEF EndsWith, AnswerInv
<1>9. counted'[w] = Tally({}) \/ pc'[w] = "idle"
  BY <1>3, <1>5 DEF EndsWith
<1>10. ~Answered(w, Refusals)'
  BY <1>5 DEF Answered
<1>11. \E seen \in Tallies : counted'[w] = Tally(seen)
  BY <1>3, <1>6 DEF Tallies
<1> QED
  BY <1>5, <1>7, <1>8, <1>9, <1>10, <1>11 DEF CountInv, CountsRightly

(* The claim of the key counts a conflict, and only for a completed key.     *)
LEMMA ClaimKeyCounts ==
    ASSUME IInv, MetricsInv, NEW w \in Workers, MeteredClaimKey(w)
    PROVE  CountsRightly(w)
<1> DEFINE k == req[w].key
           hits == {c \in {"conflict"} : pc'[w] = "idle"}
<1>1. pc[w] = "claim_key" /\ ClaimKey(w) /\ Count(w, hits)
  BY DEF MeteredClaimKey, ClaimKey
<1>2. /\ counted[w] = Tally({}) /\ reply[w] = None
      /\ k \in Keys
  BY <1>1 DEF MetricsInv, CountInv, IInv, WorkerInv, RequestInv, ExecutePoints
<1>3. counted'[w] = Tally(hits)
  BY <1>1, <1>2, CountsOnce DEF MetricsInv
<1>4. CASE Completed(k)
  <2>1. Fail(w, "idempotency_conflict")
    BY <1>1, <1>4 DEF ClaimKey, Completed
  <2>2. /\ pc'[w] = "idle" /\ reply'[w].code = "idempotency_conflict"
        /\ req' = req /\ responses' = responses
    BY <2>1, FailEnds DEF books
  <2>3. hits = {"conflict"} /\ hits \in Tallies
    BY <2>2 DEF Tallies
  <2>4. counted'[w]["success"] = 0
    BY <1>3, <2>3, TallyOf DEF Counters
  <2>5. ~Answered(w, Refusals)'
    BY <2>2 DEF Answered, Refusals
  <2>6. (req[w].key \in Keys /\ Completed(req[w].key))'
    BY <1>2, <1>4, <2>2 DEF Completed
  <2> QED
    BY <1>3, <2>2, <2>3, <2>4, <2>5, <2>6 DEF CountInv, CountsRightly
<1>5. CASE ~Completed(k)
  <2>1. Goto(w, "lock_quote") /\ reply' = reply
    BY <1>1, <1>5 DEF ClaimKey, Completed
  <2>2. pc'[w] = "lock_quote"
    BY <2>1 DEF Goto, IInv, TypeOK
  <2>3. hits = {}
    BY <2>2
  <2> QED
    BY <1>2, <1>3, <2>1, <2>2, <2>3, NothingToKeep DEF Answered
<1> QED
  BY <1>4, <1>5

(* Inside the try block, before the commit, a request that fails counts a    *)
(* failure, and one that goes on counts nothing.                             *)
LEMMA TryCounts ==
    ASSUME IInv, MetricsInv, NEW w \in Workers,
           pc[w] \notin {"idle", "respond"},
           Count(w, IF pc'[w] = "idle" THEN Raised(w) ELSE {}),
           pc'[w] # "respond", pc'[w] # "idle" => reply' = reply
    PROVE  CountsRightly(w)
<1>1. counted[w] = Tally({}) /\ reply[w] = None
  BY DEF MetricsInv, CountInv
<1>2. CASE pc'[w] = "idle"
  BY <1>1, <1>2, CountsOnce, RaisedCountsRightly DEF MetricsInv
<1>3. CASE pc'[w] # "idle"
  BY <1>1, <1>3, CountsOnce, NothingToKeep DEF MetricsInv, Answered
<1> QED
  BY <1>2, <1>3

(* The locks of the quote and of the balances.                               *)
LEMMA LockCounts ==
    ASSUME IInv, MetricsInv, NEW w \in Workers, MeteredLock(w)
    PROVE  CountsRightly(w)
<1>1. pc[w] \notin {"idle", "respond"} /\ pc'[w] # "respond"
  BY DEF MeteredLock, LockQuote, LockAccount, Fail, Answer, Goto, IInv, TypeOK
<1>2. pc'[w] # "idle" => reply' = reply
  BY DEF MeteredLock, LockQuote, LockAccount, Fail, Answer, Goto, IInv, TypeOK
<1> QED
  BY <1>1, <1>2, TryCounts DEF MeteredLock

(* The work of an execution, with the success of its commit.                 *)
LEMMA WorkCounts ==
    ASSUME IInv, IInv', MetricsInv, NEW w \in Workers, MeteredWork(w)
    PROVE  CountsRightly(w)
<1>1. /\ pc[w] \notin {"idle", "respond"}
      /\ pc'[w] # "idle" => reply' = reply /\ req' = req
  BY DEF MeteredWork, CheckQuote, Debit, CreditDestination, Commit, Fail, Answer, Goto, IInv, TypeOK
<1>2. CASE pc'[w] # "respond"
  <2>1. {c \in {"success"} : pc'[w] = "respond"} = {}
    BY <1>2
  <2> QED
    BY <1>1, <1>2, <2>1, TryCounts DEF MeteredWork
<1>3. CASE pc'[w] = "respond"
  <2>1. Commit(w) /\ pc[w] = "commit" /\ Count(w, {"success"})
    BY <1>3 DEF MeteredWork, CheckQuote, Debit, CreditDestination, Commit, Fail, Answer, Goto,
       IInv, TypeOK
  <2>2. /\ counted[w] = Tally({}) /\ reply[w] = None
        /\ req[w].quote \notin executions
    BY <1>1, <2>1 DEF MetricsInv, CountInv, IInv, WorkerInv, LockInv, PastChecks, WithQuote, WithKey
  <2>3. counted'[w] = Tally({"success"})
    BY <2>1, <2>2, CountsOnce DEF MetricsInv
  <2>4. {"success"} \in Tallies /\ counted'[w]["conflict"] = 0
    BY <2>3, TallyOf DEF Tallies, Counters
  <2>5. req' = req /\ reply'[w] = None
    BY <1>1, <1>3, <2>2
  <2>6. req'[w].quote \in executions'
    BY <1>3, <2>1, <2>5 DEF Commit, Fail, Answer, Goto, IInv, TypeOK
  <2>7. (/\ req[w].key \in Keys
         /\ Completed(req[w].key) /\ responses[req[w].key].quote = req[w].quote)'
    BY <1>3 DEF IInv, WorkerInv, RequestInv, LockInv, ExecutePoints
  <2> QED
    BY <1>3, <2>2, <2>3, <2>4, <2>5, <2>6, <2>7 DEF CountInv, CountsRightly, Answered
<1> QED
  BY <1>2, <1>3

(* An answer after the commit keeps the success; a credit never counts.      *)
LEMMA UncountedKeeps ==
    ASSUME IInv, MetricsInv, NEW w \in Workers,
           UncountedStep(w) \/ MeteredCreditLock(w)
    PROVE  CountsRightly(w)
<1>1. UNCHANGED counted /\ req' = req
  BY DEF UncountedStep, MeteredCreditLock, Respond, PostCredit, CommitCredit, RespondCredit,
     LockCreditAccount, Fail
<1>2. CASE Respond(w)
  <2>1. /\ pc[w] = "respond" /\ pc'[w] = "idle" /\ reply'[w].code = "ok"
        /\ UNCHANGED <<executions, responses>>
    <3>1. reply'[w] = [code |-> "ok", body |-> responses[req[w].key]]
      BY <1>2 DEF Respond, Answer, IInv, TypeOK
    <3> QED
      BY <1>2, <3>1 DEF Respond, Answer, Goto, IInv, TypeOK, books
  <2>2. counted[w] = Tally({"success"}) /\ counted[w]["conflict"] = 0
    BY <2>1, TallyOf DEF MetricsInv, CountInv, Counters
  <2>3. ~Answered(w, Refusals)'
    BY <2>1 DEF Answered, Refusals
  <2>4. {"success"} \in Tallies /\ counted[w]["success"] = 1
    BY <2>2, TallyOf DEF Tallies, Counters
  <2>5. /\ req[w].quote \in executions /\ req[w].key \in Keys
        /\ Completed(req[w].key) /\ responses[req[w].key].quote = req[w].quote
    BY <2>4 DEF MetricsInv, CountInv
  <2> QED
    BY <1>1, <2>1, <2>2, <2>3, <2>4, <2>5 DEF CountInv, CountsRightly, Completed
<1>3. CASE ~Respond(w)
  <2>1. /\ pc[w] \notin {"idle", "respond"} /\ pc'[w] # "respond"
        /\ pc'[w] # "idle" => reply' = reply
    BY <1>3 DEF UncountedStep, MeteredCreditLock, PostCredit, CommitCredit, RespondCredit,
       LockCreditAccount, Fail, Answer, Goto, IInv, TypeOK
  <2>2. counted[w] = Tally({}) /\ reply[w] = None
    BY <2>1 DEF MetricsInv, CountInv
  <2>3. \/ reply' = reply
        \/ \E code \in {"ledger_value_error", "numeric_overflow", "ok"} :
             \E body : Answer(w, code, body)
    BY <1>3 DEF UncountedStep, MeteredCreditLock, PostCredit, CommitCredit, RespondCredit,
       LockCreditAccount, Fail
  <2>4. ~Answered(w, Refusals)'
    <3>1. CASE reply' = reply
      BY <2>2, <3>1 DEF Answered
    <3>2. ASSUME NEW code \in {"ledger_value_error", "numeric_overflow", "ok"}, NEW body,
                 Answer(w, code, body)
          PROVE  ~Answered(w, Refusals)'
      <4>1. reply'[w] = [code |-> code, body |-> body]
        BY <3>2 DEF Answer, IInv, TypeOK
      <4> QED
        BY <4>1 DEF Answered, Refusals
    <3> QED
      BY <2>3, <3>1, <3>2
  <2> QED
    BY <1>1, <2>1, <2>2, <2>4, NothingToKeep
<1> QED
  BY <1>2, <1>3

(* A fault inside the try block is a failure, after the commit as well.      *)
LEMMA FaultCounts ==
    ASSUME IInv, MetricsInv, NEW w \in Workers, MeteredFault(w)
    PROVE  CountsRightly(w)
<1>1. pc[w] # "idle" /\ Fail(w, "system_fault")
  BY DEF MeteredFault, Fault
<1>2. /\ pc'[w] = "idle" /\ reply'[w].code = "system_fault"
      /\ req' = req /\ UNCHANGED <<executions, responses>>
  BY <1>1, FailEnds DEF books
<1>3. ~Answered(w, Refusals)' /\ Raised(w) = {"failure"}
  BY <1>2 DEF Answered, Refusals, Raised, EndsWith
<1>4. CASE ~InsideTry(w)
  <2>1. pc[w] # "respond"
    BY <1>4 DEF InsideTry, ExecutePoints
  <2>2. counted[w] = Tally({}) /\ Count(w, {})
    BY <1>1, <1>4, <2>1 DEF MetricsInv, CountInv, MeteredFault
  <2> QED
    BY <1>2, <1>3, <2>2, CountsOnce, NothingToKeep DEF MetricsInv
<1>5. CASE InsideTry(w) /\ pc[w] # "respond"
  <2>1. counted[w] = Tally({}) /\ Count(w, Raised(w))
    BY <1>1, <1>5 DEF MetricsInv, CountInv, MeteredFault
  <2> QED
    BY <1>2, <2>1, CountsOnce, RaisedCountsRightly DEF MetricsInv
<1>6. CASE InsideTry(w) /\ pc[w] = "respond"
  <2>1. counted[w] = Tally({"success"}) /\ Count(w, {"failure"})
    BY <1>3, <1>6 DEF MetricsInv, CountInv, MeteredFault
  <2>2. counted'[w] = Tally({"success", "failure"})
    <3>1. {"success"} \cup {"failure"} = {"success", "failure"}
      OBVIOUS
    <3>2. {"success"} \cap {"failure"} = {}
      OBVIOUS
    <3> QED
      BY <2>1, <3>1, <3>2, CountsOnce DEF MetricsInv
  <2>3. /\ {"success", "failure"} \in Tallies
        /\ counted[w]["success"] = 1 /\ counted'[w]["conflict"] = 0
    BY <2>1, <2>2, TallyOf DEF Tallies, Counters
  <2>4. /\ req[w].quote \in executions /\ req[w].key \in Keys
        /\ Completed(req[w].key) /\ responses[req[w].key].quote = req[w].quote
    BY <2>3 DEF MetricsInv, CountInv
  <2> QED
    BY <1>2, <1>3, <2>2, <2>3, <2>4 DEF CountInv, CountsRightly, Completed
<1> QED
  BY <1>4, <1>5, <1>6

(* A death and a new request begin with nothing.                             *)
LEMMA RestartCounts ==
    ASSUME IInv, MetricsInv, NEW w \in Workers, MeteredCrash(w) \/ MeteredArrival(w)
    PROVE  CountsRightly(w)
<1>1. counted'[w] = Tally({})
  BY RestartsEmpty DEF MetricsInv, MeteredCrash, MeteredArrival
<1>2. CASE Crash(w)
  <2>1. pc[w] # "idle" /\ pc'[w] = "idle" /\ reply' = reply
    BY <1>2 DEF Crash, Goto, IInv, TypeOK
  <2> QED
    BY <1>1, <2>1, NothingToKeep DEF MetricsInv, CountInv, Answered
<1>3. CASE Arrival(w)
  <2>1. \/ reply'[w] = None /\ pc'[w] \in {"check_key", "lock_credit"}
        \/ reply'[w] = [code |-> "customer_not_found", body |-> None] /\ pc'[w] = "idle"
    BY <1>3 DEF Arrival, Submit, BeginCredit, Answer, Goto, IInv, TypeOK
  <2>2. ~Answered(w, Refusals)'
    BY <2>1 DEF Answered, Refusals
  <2> QED
    BY <1>1, <2>1, <2>2, NothingToKeep
<1> QED
  BY <1>2, <1>3 DEF MeteredCrash, MeteredArrival

-----------------------------------------------------------------------------
(* The steps of the system *)

(* A worker that does not move keeps its part: what has executed stays so.   *)
LEMMA StillCounted ==
    ASSUME NEW v \in Workers, CountInv(v),
           pc'[v] = pc[v], req'[v] = req[v], reply'[v] = reply[v], counted'[v] = counted[v],
           executions \subseteq executions',
           \A k \in Keys : Completed(k) => responses'[k] = responses[k]
    PROVE  CountInv(v)'
  BY DEF CountInv, Completed, Answered

(* The step of a worker, whatever it is, counts rightly for itself and       *)
(* leaves the counts of the others alone.                                    *)
LEMMA WorkerCounts ==
    ASSUME IInv, IInv', MetricsInv, NEW w \in Workers,
           \/ MeteredLockStep(w) \/ MeteredLocalStep(w)
           \/ MeteredArrival(w) \/ MeteredFault(w) \/ MeteredCrash(w)
    PROVE  /\ CountsRightly(w)
           /\ DOMAIN counted' = Workers
           /\ \A v \in Workers \ {w} : /\ pc'[v] = pc[v] /\ req'[v] = req[v]
                                       /\ reply'[v] = reply[v] /\ counted'[v] = counted[v]
<1>1. CountsRightly(w)
  BY CheckKeyCounts, ClaimKeyCounts, LockCounts, WorkCounts, UncountedKeeps, FaultCounts,
     RestartCounts
  DEF MeteredLockStep, MeteredLocalStep
<1>2. DOMAIN counted' = Workers /\ \A v \in Workers \ {w} : counted'[v] = counted[v]
  BY RestartsEmpty
  DEF MetricsInv, MeteredLockStep, MeteredLocalStep, MeteredArrival, MeteredFault, MeteredCrash,
      MeteredClaimKey, MeteredLock, MeteredCreditLock, MeteredCheckKey, MeteredWork,
      UncountedStep, Count
<1>3. LockStep(w) \/ LocalStep(w) \/ Arrival(w) \/ Fault(w) \/ Crash(w)
  BY DEF MeteredLockStep, MeteredLocalStep, MeteredArrival, MeteredFault, MeteredCrash,
     MeteredClaimKey, MeteredLock, MeteredCreditLock, MeteredCheckKey, MeteredWork,
     UncountedStep, LockStep, LocalStep
<1>4. \A v \in Workers \ {w} : pc'[v] = pc[v] /\ req'[v] = req[v]
  BY <1>3, WorkerStep
<1>5. \A v \in Workers \ {w} : reply'[v] = reply[v]
  <2>1. reply' = reply \/ \E new : reply' = [reply EXCEPT ![w] = new]
    BY <1>3 DEF LockStep, LocalStep, Arrival, Fault, Crash, Fail, Answer,
       ClaimKey, LockQuote, LockAccount, LockCreditAccount, CheckKey, CheckQuote, Debit,
       CreditDestination, Commit, Respond, PostCredit, CommitCredit, RespondCredit, Submit,
       BeginCredit
  <2>2. DOMAIN reply = Workers
    BY DEF IInv, TypeOK
  <2> QED
    BY <2>1, <2>2
<1> QED
  BY <1>1, <1>2, <1>4, <1>5

(* Every step keeps what has been counted in line with the tables.           *)
LEMMA NextMetricsInv ==
    ASSUME IInv, IInv', MetricsInv, [MeteredNext]_meteredVars
    PROVE  MetricsInv'
<1>1. /\ executions \subseteq executions'
      /\ \A k \in Keys : Completed(k) => responses'[k] = responses[k]
  BY MeteredStepIsStep, StepRefines, LedgerStepKeepsHistory
<1>2. CASE UNCHANGED meteredVars \/ (Environment /\ UNCHANGED counted)
  <2>1. UNCHANGED <<pc, req, reply, counted>>
    BY <1>2 DEF meteredVars, vars, Environment, CreateCustomer, CreateQuote, Tick, workers
  <2> QED
    BY <1>1, <2>1, StillCounted DEF MetricsInv
<1>3. ASSUME NEW w \in Workers,
             \/ MeteredLockStep(w) \/ MeteredLocalStep(w)
             \/ MeteredArrival(w) \/ MeteredFault(w) \/ MeteredCrash(w)
      PROVE  MetricsInv'
  <2>1. /\ CountsRightly(w) /\ DOMAIN counted' = Workers
        /\ \A v \in Workers \ {w} : /\ pc'[v] = pc[v] /\ req'[v] = req[v]
                                    /\ reply'[v] = reply[v] /\ counted'[v] = counted[v]
    BY <1>3, WorkerCounts
  <2>2. \A v \in Workers : CountInv(v)'
    BY <1>1, <2>1, StillCounted DEF MetricsInv, CountsRightly
  <2>3. \A v \in Workers \ {w} :
          counted'[v]["success"] = 1 /\ counted'[w]["success"] = 1 => req'[v].quote # req'[w].quote
    <3> SUFFICES ASSUME NEW v \in Workers \ {w},
                        counted'[v]["success"] = 1, counted'[w]["success"] = 1
                 PROVE  req'[v].quote # req'[w].quote
      OBVIOUS
    <3>1. req'[v] = req[v] /\ counted[v]["success"] = 1 /\ req[v].quote \in executions
      BY <2>1 DEF MetricsInv, CountInv
    <3>2. req'[w] = req[w] /\ (counted[w]["success"] = 1 \/ req[w].quote \notin executions)
      BY <2>1 DEF CountsRightly
    <3> QED
      BY <3>1, <3>2 DEF MetricsInv
  <2>4. \A u, v \in Workers \ {w} :
          u # v /\ counted'[u]["success"] = 1 /\ counted'[v]["success"] = 1
             => req'[u].quote # req'[v].quote
    BY <2>1 DEF MetricsInv
  <2> QED
    BY <2>1, <2>2, <2>3, <2>4 DEF MetricsInv
<1> QED
  BY <1>2, <1>3 DEF MeteredNext

(* Initially nothing is counted.                                             *)
LEMMA InitMetricsInv == MeteredInit => MetricsInv
<1> SUFFICES ASSUME MeteredInit PROVE MetricsInv
  OBVIOUS
<1>1. DOMAIN counted = Workers /\ \A w \in Workers : counted[w] = Tally({})
  BY DEF MeteredInit, NothingCounted, Tally
<1>2. \A w \in Workers : counted[w]["success"] = 0 /\ counted[w]["conflict"] = 0
  BY <1>1, TallyOf DEF Counters
<1>3. {} \in Tallies /\ \A w \in Workers : pc[w] = "idle" /\ reply[w] = None
  BY DEF Tallies, MeteredInit, Init
<1> QED
  BY <1>1, <1>2, <1>3 DEF MetricsInv, CountInv, Answered

(* Counters and tables stay in line, whatever fails, dies or is retried.     *)
THEOREM MetricsInvariance == MeteredSpec => [](IInv /\ MetricsInv)
<1>1. MeteredSpec => []IInv
  BY MeteredImplementsExecution, Invariance, PTL
<1> QED
  BY <1>1, InitMetricsInv, NextMetricsInv, PTL DEF MeteredSpec

-----------------------------------------------------------------------------
(* The README's relations among the counters hold for any number of          *)
(* requests.                                                                 *)
THEOREM CountersDocumented == MeteredSpec => []CountersAsDocumented
<1>1. IInv /\ MetricsInv => CountersAsDocumented
  <2> SUFFICES ASSUME IInv, MetricsInv, NEW w \in Workers
               PROVE  LET n == counted[w]
                      IN /\ n["expired"] + n["funds"] <= n["failure"] /\ n["failure"] <= 1
                         /\ n["failure"] + n["conflict"] + n["replay"] <= 1
                         /\ n["conflict"] = 1 => Completed(req[w].key) /\ \A r \in Rows : lock[r] # w
                         /\ Answered(w, Refusals) => n["failure"] = 1
    BY DEF CountersAsDocumented, Refusals
  <2>1. CountInv(w)
    BY DEF MetricsInv
  <2>2. PICK hits \in Tallies : counted[w] = Tally(hits)
    BY <2>1 DEF CountInv
  <2>3. \A c \in Counters : counted[w][c] = IF c \in hits THEN 1 ELSE 0
    BY <2>2, TallyOf
  <2>4. /\ counted[w]["expired"] + counted[w]["funds"] <= counted[w]["failure"]
        /\ counted[w]["failure"] <= 1
        /\ counted[w]["failure"] + counted[w]["conflict"] + counted[w]["replay"] <= 1
    BY <2>2, <2>3 DEF Tallies, Counters
  <2>5. pc[w] = "idle" => \A r \in Rows : lock[r] # w
    BY DEF IInv, WorkerInv, OwnedInv, Lockable, WithKey, WithQuote, PastChecks, WithCreditAccount
  <2> QED
    BY <2>1, <2>4, <2>5 DEF CountInv
<1> QED
  BY <1>1, MetricsInvariance, PTL

(* The successes of a process are executions of its requests, each counted   *)
(* once: no fault after the commit, retry or replay counts one again.        *)
THEOREM SuccessesExecuted == MeteredSpec => []SuccessesAreExecutions
<1>1. MetricsInv => SuccessesAreExecutions
  <2> SUFFICES ASSUME MetricsInv, NEW w \in Workers, counted[w]["success"] > 0
               PROVE  /\ counted[w]["success"] = 1 /\ counted[w]["replay"] = 0
                      /\ req[w].quote \in executions
                      /\ Completed(req[w].key) /\ responses[req[w].key].quote = req[w].quote
                      /\ \A v \in Workers \ {w} :
                           counted[v]["success"] > 0 => req[v].quote # req[w].quote
    BY DEF SuccessesAreExecutions
  <2>1. ASSUME NEW v \in Workers, counted[v]["success"] > 0
        PROVE  counted[v]["success"] = 1 /\ counted[v]["replay"] = 0
    <3>1. PICK hits \in Tallies : counted[v] = Tally(hits)
      BY DEF MetricsInv, CountInv
    <3>2. \A c \in Counters : counted[v][c] = IF c \in hits THEN 1 ELSE 0
      BY <3>1, TallyOf
    <3> QED
      BY <2>1, <3>1, <3>2 DEF Tallies, Counters
  <2> QED
    BY <2>1 DEF MetricsInv, CountInv
<1> QED
  BY <1>1, MetricsInvariance, PTL
=============================================================================
