------------------------------- MODULE FxMetrics -------------------------------
(***************************************************************************)
(* The counters of executions (app/utils/observability.py) beside the      *)
(* money path.  A counter of a process is the sum of what its requests     *)
(* have added; `counted' is what each request has added so far.            *)
(*                                                                         *)
(* Each step of a worker of FxExecution is taken here with the increments  *)
(* that the code between its statements makes.                             *)
(***************************************************************************)
EXTENDS FxExecution

VARIABLE counted    \* by worker and counter, the increments of its request

meteredVars == <<vars, counted>>

(* fx_execution_success_total, fx_execution_failure_total,                   *)
(* fx_quote_expired_total, fx_insufficient_funds_total,                      *)
(* fx_idempotency_conflict_total, fx_idempotency_replay_total.               *)
Counters == {"success", "failure", "expired", "funds", "conflict", "replay"}

NothingCounted == [c \in Counters |-> 0]

MeteredInit == Init /\ counted = [w \in Workers |-> NothingCounted]

Count(w, hit) ==
    counted' = [counted EXCEPT ![w] =
        [c \in Counters |-> IF c \in hit THEN @[c] + 1 ELSE @[c]]]

Restart(w) == counted' = [counted EXCEPT ![w] = NothingCounted]

(* The step ends the request with the code. *)
EndsWith(w, code) == pc'[w] = "idle" /\ Answered(w, {code})'

(* The try block of execute_quote, which begins behind the claim of the key. *)
InsideTry(w) == pc[w] \in ExecutePoints \ {"check_key", "claim_key"}

(* What the except clause adds to what the raising branch has added. *)
Raised(w) ==
    {"failure"} \cup {c \in {"expired"} : EndsWith(w, "quote_expired")}
                \cup {c \in {"funds"} : EndsWith(w, "insufficient_funds")}

-----------------------------------------------------------------------------
MeteredCheckKey(w) ==
    /\ CheckKey(w)
    /\ Count(w, {c \in {"conflict"} : EndsWith(w, "idempotency_conflict")}
                \cup {c \in {"replay"} : EndsWith(w, "replayed")})

(* Mutant: the claim is made inside the try block. *)
MeteredClaimKeyInside(w) ==
    /\ ClaimKey(w)
    /\ Count(w, IF pc'[w] = "idle" THEN {"conflict", "failure"} ELSE {})

MeteredClaimKey(w) ==
    /\ ClaimKey(w)
    /\ Count(w, {c \in {"conflict"} : pc'[w] = "idle"})

MeteredLock(w) ==
    /\ LockQuote(w) \/ LockAccount(w)
    /\ Count(w, IF pc'[w] = "idle" THEN Raised(w) ELSE {})

(* Mutant: the success is counted before the commit. *)
MeteredWorkCountingEarly(w) ==
    /\ CheckQuote(w) \/ Debit(w) \/ CreditDestination(w) \/ Commit(w)
    /\ Count(w, IF pc'[w] = "idle" THEN Raised(w)
                ELSE {c \in {"success"} : pc'[w] = "commit"})

MeteredWork(w) ==
    /\ CheckQuote(w) \/ Debit(w) \/ CreditDestination(w) \/ Commit(w)
    /\ Count(w, IF pc'[w] = "idle" THEN Raised(w)
                ELSE {c \in {"success"} : pc'[w] = "respond"})

(* Answers, and the whole of a credit, which counts nothing. *)
UncountedStep(w) ==
    /\ Respond(w) \/ PostCredit(w) \/ CommitCredit(w) \/ RespondCredit(w)
    /\ UNCHANGED counted

MeteredCreditLock(w) == LockCreditAccount(w) /\ UNCHANGED counted

MeteredFault(w) == Fault(w) /\ Count(w, IF InsideTry(w) THEN Raised(w) ELSE {})

(* The counters of a dead process are gone. *)
MeteredCrash(w) == Crash(w) /\ Restart(w)

MeteredArrival(w) == Arrival(w) /\ Restart(w)

MeteredLockStep(w) == MeteredClaimKey(w) \/ MeteredLock(w) \/ MeteredCreditLock(w)
MeteredLocalStep(w) == MeteredCheckKey(w) \/ MeteredWork(w) \/ UncountedStep(w)

MeteredNext ==
    \/ Environment /\ UNCHANGED counted
    \/ \E w \in Workers :
        \/ MeteredLockStep(w) \/ MeteredLocalStep(w)
        \/ MeteredArrival(w) \/ MeteredFault(w) \/ MeteredCrash(w)

MeteredSpec == MeteredInit /\ [][MeteredNext]_meteredVars

(* FairSpec of FxExecution. *)
MeteredFairSpec ==
    /\ MeteredSpec
    /\ \A w \in Workers : WF_meteredVars(MeteredLocalStep(w)) /\ SF_meteredVars(MeteredLockStep(w))

-----------------------------------------------------------------------------
(* The README's "Metrics counter semantics", for the sums because for each   *)
(* request: expiries and lack of funds are subsets of the failures, and a    *)
(* request that was rejected before it claimed its key, or replayed, is no   *)
(* failure; whoever was refused after the claim is one, counted once, and a  *)
(* conflict is counted for a key that has an answer.                         *)
CountersAsDocumented ==
    \A w \in Workers :
        LET n == counted[w]
        IN /\ n["expired"] + n["funds"] <= n["failure"] /\ n["failure"] <= 1
           /\ n["failure"] + n["conflict"] + n["replay"] <= 1
           /\ n["conflict"] = 1 => Completed(req[w].key) /\ \A r \in Rows : lock[r] # w
           /\ Answered(w, {"quote_not_found", "quote_already_executed", "quote_expired",
                           "insufficient_funds"}) => n["failure"] = 1

(* A success is counted for money that has moved, by the request that moved  *)
(* it: neither a fault nor a replay nor a second request counts it again.    *)
SuccessesAreExecutions ==
    \A w \in Workers : counted[w]["success"] > 0 =>
        /\ counted[w]["success"] = 1 /\ counted[w]["replay"] = 0
        /\ req[w].quote \in executions
        /\ Completed(req[w].key) /\ responses[req[w].key].quote = req[w].quote
        /\ \A v \in Workers \ {w} : counted[v]["success"] > 0 => req[v].quote # req[w].quote
=============================================================================
