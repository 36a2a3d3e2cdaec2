--------------------------- MODULE FxExecutionProofs ---------------------------
(***************************************************************************)
(* Theorems about FxExecution, for every set of workers, customers,        *)
(* currencies, quotes and keys and every amount.                           *)
(*                                                                         *)
(* The inductive invariant IInv says, for each worker on its own, what its *)
(* point in the handler lets it rely on: which rows it has locked, that    *)
(* it has locked no others, what it has staged, and how the balances in    *)
(* its memory differ from the committed ones (WorkerInv); and what holds   *)
(* of the books together (BooksInv).  The lemma Undisturbed is the heart   *)
(* of the argument: a worker's part survives every step of another worker  *)
(* that respects the locks.                                                *)
(***************************************************************************)
EXTENDS FxExecution, TLAPS

(* The points of a request at which it has locked its key, its quote, and    *)
(* both accounts, and at which it has passed the checks of the quote.        *)
WithKey == {"lock_quote", "check_quote", "lock_accounts", "debit", "credit", "commit"}
WithQuote == WithKey \ {"lock_quote"}
PastChecks == WithQuote \ {"check_quote"}
WithAccounts == PastChecks \ {"lock_accounts"}
WithCreditAccount == {"post_credit", "commit_credit"}
BeforeCreditCommit == {"lock_credit", "post_credit", "commit_credit"}

RequestInv(w) ==
    /\ pc[w] \in ExecutePoints => req[w] \in ExecuteRequest
    /\ pc[w] \in ExecutePoints \ {"check_key"} => req[w].key \in Keys
    /\ pc[w] \in CreditPoints => /\ req[w] \in CreditRequest
                                 /\ req[w].account[1] \in customers

(* What the request has locked, and what that protects. *)
LockInv(w) ==
    /\ pc[w] \in WithKey => lock[<<"key", req[w].key>>] = w /\ ~Completed(req[w].key)
    /\ pc[w] \in WithQuote => lock[<<"quote", req[w].quote>>] = w /\ TermsOf(w) # None
    /\ pc[w] \in PastChecks => req[w].quote \notin executions
    /\ pc[w] = "lock_accounts" => Unlocked(w) # {}
    /\ pc[w] \in WithAccounts => Holds(w, TermsOf(w).source) /\ Holds(w, TermsOf(w).destination)
    /\ pc[w] \in WithCreditAccount => Holds(w, req[w].account)
    /\ pc[w] \in BeforeCreditCommit => adjustments[req[w].adjustment] = None
    /\ pc[w] = "respond" => /\ Completed(req[w].key)
                            /\ responses[req[w].key].quote = req[w].quote

(* The rows a request may have locked at its point. *)
Lockable(w) ==
    {r \in Rows :
        \/ pc[w] \in WithKey /\ r = <<"key", req[w].key>>
        \/ pc[w] \in WithQuote /\ r = <<"quote", req[w].quote>>
        \/ pc[w] \in PastChecks /\ r = <<"balance", TermsOf(w).source>>
        \/ pc[w] \in PastChecks /\ r = <<"balance", TermsOf(w).destination>>
        \/ pc[w] \in WithCreditAccount /\ r = <<"balance", req[w].account>>}

OwnedInv(w) == \A r \in Rows : lock[r] = w => r \in Lockable(w)

(* What the transaction has staged, and the balances in its memory. *)
PendingInv(w) ==
    /\ pc[w] \notin {"credit", "commit", "commit_credit"} =>
         /\ staged[w] = {}
         /\ \A a \in Accounts : Holds(w, a) => held[w][a] = balance[a]
    /\ pc[w] = "credit" =>
         /\ staged[w] = {DebitEntry(req[w].quote, TermsOf(w))}
         /\ held[w][TermsOf(w).destination] = balance[TermsOf(w).destination]
    /\ pc[w] = "commit" =>
         /\ staged[w] = {DebitEntry(req[w].quote, TermsOf(w)),
                         CreditEntry(req[w].quote, TermsOf(w))}
         /\ held[w][TermsOf(w).destination] =
              balance[TermsOf(w).destination] + TermsOf(w).credit
         /\ TermsOf(w).credit > 0
    /\ pc[w] \in {"credit", "commit"} =>
         /\ held[w][TermsOf(w).source] = balance[TermsOf(w).source] - TermsOf(w).debit
         /\ TermsOf(w).debit > 0
         /\ TermsOf(w).debit <= balance[TermsOf(w).source]
    /\ pc[w] = "commit_credit" =>
         /\ staged[w] = {AdjustmentEntry(req[w].adjustment,
                           [account |-> req[w].account, amount |-> req[w].amount])}
         /\ held[w][req[w].account] = balance[req[w].account] + req[w].amount
         /\ req[w].amount > 0

(* AnswersAreTrue and BackstopsUnreached, for one worker. *)
AnswerInv(w) ==
    /\ req[w] \in ExecuteRequest =>
         /\ Answered(w, {"ok", "replayed"}) =>
              /\ req[w].key \in Keys
              /\ Completed(req[w].key)
              /\ reply[w].body = responses[req[w].key]
              /\ responses[req[w].key].quote = req[w].quote
         /\ Answered(w, {"idempotency_conflict"}) => req[w].key \in Keys /\ Completed(req[w].key)
         /\ Answered(w, {"quote_already_executed"}) => req[w].quote \in executions
    /\ ~Answered(w, {"constraint_violation"})

WorkerInv(w) ==
    RequestInv(w) /\ LockInv(w) /\ OwnedInv(w) /\ PendingInv(w) /\ AnswerInv(w)

(* A quote exchanges two accounts of one existing customer. *)
QuotesInv ==
    \A q \in Quotes : quotes[q] # None =>
        /\ quotes[q].source # quotes[q].destination
        /\ quotes[q].source[1] = quotes[q].destination[1]
        /\ quotes[q].source[1] \in customers

(* Adjustment ids are drawn fresh. *)
AdjustmentsInv ==
    \A v, w \in Workers :
        v # w /\ pc[v] \in CreditPoints /\ pc[w] \in CreditPoints
            => req[v].adjustment # req[w].adjustment

BooksInv ==
    /\ QuotesInv
    /\ AdjustmentsInv
    /\ \A q \in executions : quotes[q] # None
    /\ LedgerMatchesRecords
    /\ OneKeyPerExecution

IInv == TypeOK /\ BooksInv /\ \A w \in Workers : WorkerInv(w)

-----------------------------------------------------------------------------
(* A request is an execution or a credit, and never both. *)
LEMMA RequestsDiffer == \A r : ~(r \in ExecuteRequest /\ r \in CreditRequest)
<1> SUFFICES ASSUME NEW r, r \in ExecuteRequest, r \in CreditRequest
             PROVE  FALSE
  OBVIOUS
<1>1. DOMAIN r = {"quote", "key"}
  BY DEF ExecuteRequest
<1>2. DOMAIN r = {"adjustment", "account", "amount"}
  BY DEF CreditRequest
<1> QED
  BY <1>1, <1>2

(* Initially the books are empty and no request is being served. *)
LEMMA InitIInv == Init => IInv
<1> SUFFICES ASSUME Init PROVE IInv
  OBVIOUS
<1>1. TypeOK
  BY BoundsAssumption DEF Init, TypeOK, Money, Instants, Reply
<1>2. BooksInv
  BY DEF Init, BooksInv, QuotesInv, AdjustmentsInv, LedgerMatchesRecords,
         OneKeyPerExecution, Completed, CreditPoints
<1>3. ASSUME NEW w \in Workers
      PROVE  WorkerInv(w)
  BY <1>3, WorkersAssumption
  DEF Init, WorkerInv, RequestInv, LockInv, OwnedInv, PendingInv, AnswerInv,
      Answered, Holds, WithKey, WithQuote, PastChecks, WithAccounts,
      WithCreditAccount, BeforeCreditCommit, ExecutePoints, CreditPoints
<1> QED
  BY <1>1, <1>2, <1>3 DEF IInv

-----------------------------------------------------------------------------
(* What every step of another worker, of a client or of the clock leaves to  *)
(* a worker v: its own variables, its locks, and the committed rows behind   *)
(* those locks; everything already on record stays on record.                *)
Undisturbed(v) ==
    /\ pc'[v] = pc[v] /\ req'[v] = req[v] /\ reply'[v] = reply[v]
    /\ held'[v] = held[v] /\ staged'[v] = staged[v]
    /\ \A r \in Rows : (lock'[r] = v) <=> (lock[r] = v)
    /\ customers \subseteq customers'
    /\ executions \subseteq executions'
    /\ \A q \in Quotes : quotes[q] # None => quotes'[q] = quotes[q]
    /\ \A k \in Keys : Completed(k) => responses'[k] = responses[k]
    /\ \A k \in Keys : lock[<<"key", k>>] = v => responses'[k] = responses[k]
    /\ \A q \in Quotes : lock[<<"quote", q>>] = v /\ q \in executions' => q \in executions
    /\ \A a \in Accounts : Holds(v, a) => balance'[a] = balance[a]
    /\ pc[v] \in BeforeCreditCommit =>
         adjustments'[req[v].adjustment] = adjustments[req[v].adjustment]

(* Keys, quotes and accounts all have a row that can be locked. *)
LEMMA RowsHaveKinds ==
    /\ \A k \in Keys : <<"key", k>> \in Rows
    /\ \A q \in Quotes : <<"quote", q>> \in Rows
    /\ \A a \in Accounts : <<"balance", a>> \in Rows
  BY DEF Rows

(* A request that has locked its quote works on a well-formed pair of *)
(* accounts and amounts.                                              *)
LEMMA TermsTyped ==
    ASSUME IInv, NEW w \in Workers, pc[w] \in WithQuote
    PROVE  /\ req[w].quote \in Quotes /\ req[w].key \in Keys
           /\ TermsOf(w) \in Terms
           /\ TermsOf(w).source \in Accounts /\ TermsOf(w).destination \in Accounts
           /\ TermsOf(w).debit \in Money /\ TermsOf(w).credit \in Money
           /\ TermsOf(w).source # TermsOf(w).destination
<1>1. pc[w] \in ExecutePoints \ {"check_key"}
  BY DEF WithQuote, WithKey, ExecutePoints
<1>2. req[w].quote \in Quotes /\ req[w].key \in Keys
  BY <1>1 DEF IInv, WorkerInv, RequestInv, ExecuteRequest
<1>3. TermsOf(w) \in Terms
  <2>1. quotes \in [Quotes -> Terms \cup {None}]
    BY DEF IInv, TypeOK
  <2>2. TermsOf(w) # None
    BY DEF IInv, WorkerInv, LockInv
  <2> QED
    BY <1>2, <2>1, <2>2 DEF TermsOf
<1>4. TermsOf(w).source # TermsOf(w).destination
  BY <1>2 DEF IInv, WorkerInv, LockInv, BooksInv, QuotesInv, TermsOf
<1> QED
  BY <1>2, <1>3, <1>4 DEF Terms

(* What a worker relies on survives every step that leaves its locked rows *)
(* alone.                                                                  *)
LEMMA UndisturbedInv ==
    ASSUME IInv, NEW v \in Workers, Undisturbed(v)
    PROVE  WorkerInv(v)'
<1> USE DEF WithKey, WithQuote, PastChecks, WithAccounts, WithCreditAccount,
            BeforeCreditCommit, ExecutePoints, CreditPoints
<1>1. WorkerInv(v)
  BY DEF IInv
<1>2. pc[v] \in WithQuote => TermsOf(v)' = TermsOf(v)
  BY <1>1, TermsTyped DEF Undisturbed, TermsOf, WorkerInv, LockInv, RequestInv
<1>3. \A a \in Accounts : Holds(v, a)' <=> Holds(v, a)
  BY RowsHaveKinds DEF Undisturbed, Holds
<1>4. RequestInv(v)'
  BY <1>1 DEF Undisturbed, WorkerInv, RequestInv
<1>5. LockInv(v)'
  <2>1. pc[v] = "lock_accounts" => Unlocked(v)' = Unlocked(v)
    BY <1>2, <1>3, TermsTyped DEF Unlocked
  <2>2. pc[v] \in WithKey => req[v].key \in Keys /\ req[v].quote \in Quotes
    BY <1>1 DEF WorkerInv, RequestInv, ExecuteRequest
  <2>3. pc[v] = "respond" => req[v].key \in Keys
    BY <1>1 DEF WorkerInv, RequestInv
  <2>4. pc[v] \in CreditPoints => req[v].account \in Accounts
    BY <1>1 DEF WorkerInv, RequestInv, CreditRequest
  <2> QED
    BY <1>1, <1>2, <1>3, <2>1, <2>2, <2>3, <2>4, RowsHaveKinds, TermsTyped
    DEF Undisturbed, WorkerInv, LockInv, Completed
<1>6. OwnedInv(v)'
  BY <1>1, <1>2 DEF Undisturbed, WorkerInv, OwnedInv, Lockable, Rows
<1>7. PendingInv(v)'
  <2>1. pc[v] \in CreditPoints => req[v].account \in Accounts
    BY <1>1 DEF WorkerInv, RequestInv, CreditRequest
  <2> QED
    BY <1>1, <1>2, <1>3, <2>1, TermsTyped
    DEF Undisturbed, WorkerInv, PendingInv, LockInv
<1>8. AnswerInv(v)'
  BY <1>1 DEF Undisturbed, WorkerInv, AnswerInv, Answered, Completed
<1> QED
  BY <1>4, <1>5, <1>6, <1>7, <1>8 DEF WorkerInv

(* The books stay consistent in a step that writes none of them and starts *)
(* no credit.                                                              *)
LEMMA BooksInvKept ==
    ASSUME IInv, UNCHANGED books,
           \A v \in Workers : pc'[v] \in CreditPoints =>
                                  pc[v] \in CreditPoints /\ req'[v] = req[v]
    PROVE  BooksInv'
  BY DEF IInv, BooksInv, QuotesInv, AdjustmentsInv, LedgerMatchesRecords,
         OneKeyPerExecution, Completed, books

(* Ending a transaction releases its locks and no others. *)
LEMMA Released ==
    ASSUME IInv, NEW w \in Workers, EndTransaction(w)
    PROVE  /\ \A r \in Rows : lock'[r] # w
           /\ \A v \in Workers \ {w}, r \in Rows : (lock'[r] = v) <=> (lock[r] = v)
           /\ \A v \in Workers \ {w} : held'[v] = held[v] /\ staged'[v] = staged[v]
           /\ staged'[w] = {}
           /\ lock' \in [Rows -> Workers \cup {None}]
           /\ held' \in [Workers -> [Accounts -> Int]]
           /\ staged' \in [Workers -> SUBSET Entry]
<1>1. /\ lock \in [Rows -> Workers \cup {None}]
      /\ held \in [Workers -> [Accounts -> Int]]
      /\ staged \in [Workers -> SUBSET Entry]
  BY DEF IInv, TypeOK
<1> QED
  BY <1>1, WorkersAssumption DEF EndTransaction

(* Every rejection, failure and rollback, from any point of a request. *)
LEMMA FailStep ==
    ASSUME IInv, NEW w \in Workers,
           NEW code \in (Rejections \cup Failures) \ {"constraint_violation"},
           Fail(w, code),
           req[w] \in ExecuteRequest =>
               /\ code = "idempotency_conflict" => req[w].key \in Keys /\ Completed(req[w].key)
               /\ code = "quote_already_executed" => req[w].quote \in executions
    PROVE  IInv'
<1>1. EndTransaction(w) /\ UNCHANGED <<books, now, req>>
  BY DEF Fail
<1>2. /\ pc' = [pc EXCEPT ![w] = "idle"]
      /\ reply' = [reply EXCEPT ![w] = [code |-> code, body |-> None]]
  BY DEF Fail, Answer, Goto
<1>3. TypeOK'
  <2>1. reply' \in [Workers -> Reply \cup {None}]
    <3>1. [code |-> code, body |-> None] \in Reply
      BY DEF Reply
    <3>2. reply \in [Workers -> Reply \cup {None}]
      BY DEF IInv, TypeOK
    <3> QED
      BY <1>2, <3>1, <3>2
  <2>2. pc' \in [Workers -> {"idle"} \cup ExecutePoints \cup CreditPoints]
    BY <1>2 DEF IInv, TypeOK
  <2> QED
    BY <1>1, <2>1, <2>2, Released DEF IInv, TypeOK, books
<1>4. pc'[w] = "idle" /\ \A v \in Workers \ {w} : pc'[v] = pc[v] /\ reply'[v] = reply[v]
  BY <1>2 DEF IInv, TypeOK
<1>5. BooksInv'
  BY <1>1, <1>4, BooksInvKept DEF CreditPoints
<1>6. WorkerInv(w)'
  <2>1. RequestInv(w)' /\ LockInv(w)' /\ OwnedInv(w)' /\ PendingInv(w)'
    BY <1>1, <1>4, Released, RowsHaveKinds
    DEF RequestInv, LockInv, OwnedInv, PendingInv, Holds, ExecutePoints, CreditPoints,
        WithKey, WithQuote, PastChecks, WithAccounts, WithCreditAccount, BeforeCreditCommit
  <2>2. AnswerInv(w)'
    <3>1. reply'[w] = [code |-> code, body |-> None]
      BY <1>2 DEF IInv, TypeOK
    <3> QED
      BY <1>1, <3>1 DEF AnswerInv, Answered, Rejections, Failures, Completed, books
  <2> QED
    BY <2>1, <2>2 DEF WorkerInv
<1>7. ASSUME NEW v \in Workers \ {w}
      PROVE  WorkerInv(v)'
  <2>1. Undisturbed(v)
    BY <1>1, <1>4, Released DEF Undisturbed, books
  <2> QED
    BY <2>1, UndisturbedInv
<1> QED
  BY <1>3, <1>5, <1>6, <1>7 DEF IInv

-----------------------------------------------------------------------------
(* The steps of an execution *)

(* A row lock is taken from nobody. *)
LEMMA Taken ==
    ASSUME IInv, NEW w \in Workers, NEW row \in Rows, Take(w, row)
    PROVE  /\ lock'[row] = w
           /\ \A r \in Rows \ {row} : lock'[r] = lock[r]
           /\ \A v \in Workers \ {w}, r \in Rows : (lock'[r] = v) <=> (lock[r] = v)
           /\ lock' \in [Rows -> Workers \cup {None}]
<1>1. lock \in [Rows -> Workers \cup {None}]
  BY DEF IInv, TypeOK
<1> QED
  BY <1>1, WorkersAssumption DEF Take

(* It is enough to show of a step of w what it makes of w and of the books. *)
LEMMA StepOf ==
    ASSUME IInv, NEW w \in Workers, TypeOK', BooksInv', WorkerInv(w)',
           \A v \in Workers \ {w} : Undisturbed(v)
    PROVE  IInv'
  BY UndisturbedInv DEF IInv

(* Moving one worker to another point of its handler moves nobody else. *)
LEMMA GotoMoves ==
    ASSUME IInv, NEW w \in Workers, NEW point, Goto(w, point),
           point \in {"idle"} \cup ExecutePoints \cup CreditPoints
    PROVE  /\ pc'[w] = point
           /\ \A v \in Workers \ {w} : pc'[v] = pc[v]
           /\ pc' \in [Workers -> {"idle"} \cup ExecutePoints \cup CreditPoints]
  BY DEF Goto, IInv, TypeOK

(* An answer already given stays true when the books do not change. *)
LEMMA AnswerInvKept ==
    ASSUME IInv, NEW w \in Workers, req'[w] = req[w], reply'[w] = reply[w],
           executions \subseteq executions',
           \A k \in Keys : Completed(k) => responses'[k] = responses[k]
    PROVE  AnswerInv(w)'
  BY DEF IInv, WorkerInv, AnswerInv, Answered, Completed

(* The lookup of the key, with its four outcomes. *)
LEMMA CheckKeyStep == ASSUME IInv, NEW w \in Workers, CheckKey(w) PROVE IInv'
<1> DEFINE k == req[w].key
<1>1. pc[w] = "check_key" /\ req[w] \in ExecuteRequest
  BY DEF CheckKey, IInv, WorkerInv, RequestInv, ExecutePoints
<1>2. CASE k = EmptyKey
  BY <1>2, FailStep DEF CheckKey, Rejections, Failures
<1>3. CASE k # EmptyKey /\ ~Completed(k)
  <2>1. Goto(w, "claim_key") /\ UNCHANGED <<books, lock, now, req, held, staged, reply>>
    BY <1>3 DEF CheckKey, Completed
  <2>2. k \in Keys
    BY <1>1, <1>3 DEF ExecuteRequest
  <2>3. /\ pc'[w] = "claim_key" /\ \A v \in Workers \ {w} : pc'[v] = pc[v]
        /\ pc' \in [Workers -> {"idle"} \cup ExecutePoints \cup CreditPoints]
    BY <2>1, GotoMoves DEF ExecutePoints
  <2>4. TypeOK'
    BY <2>1, <2>3 DEF IInv, TypeOK, books
  <2>5. BooksInv'
    BY <2>1, <2>3, BooksInvKept DEF CreditPoints
  <2>6. WorkerInv(w)'
    <3>1. AnswerInv(w)'
      BY <2>1, AnswerInvKept DEF books
    <3>2. RequestInv(w)' /\ LockInv(w)'
      BY <1>1, <2>1, <2>2, <2>3
      DEF RequestInv, LockInv, ExecutePoints, CreditPoints, WithKey, WithQuote,
          PastChecks, WithAccounts, WithCreditAccount, BeforeCreditCommit
    <3>3. OwnedInv(w)'
      BY <1>1, <2>1, <2>3
      DEF IInv, WorkerInv, OwnedInv, Lockable, WithKey, WithQuote, PastChecks,
          WithCreditAccount
    <3>4. PendingInv(w)'
      BY <1>1, <2>1, <2>3 DEF IInv, WorkerInv, PendingInv, Holds, books
    <3> QED
      BY <3>1, <3>2, <3>3, <3>4 DEF WorkerInv
  <2>7. \A v \in Workers \ {w} : Undisturbed(v)
    BY <2>1, <2>3 DEF Undisturbed, books
  <2> QED
    BY <2>4, <2>5, <2>6, <2>7, StepOf
<1>4. CASE k # EmptyKey /\ Completed(k) /\ responses[k].quote # req[w].quote
  <2>1. k \in Keys
    BY <1>1, <1>4 DEF ExecuteRequest
  <2>2. Fail(w, "idempotency_conflict")
    BY <1>4 DEF CheckKey, Completed
  <2> QED
    BY <1>4, <2>1, <2>2, FailStep DEF Rejections, Failures
<1>5. CASE k # EmptyKey /\ Completed(k) /\ responses[k].quote = req[w].quote
  <2>1. k \in Keys /\ responses[k] \in Response
    BY <1>1, <1>5 DEF ExecuteRequest, IInv, TypeOK, Completed
  <2>2. /\ EndTransaction(w) /\ UNCHANGED <<books, now, req>>
        /\ Goto(w, "idle")
        /\ reply' = [reply EXCEPT ![w] = [code |-> "replayed", body |-> responses[k]]]
    BY <1>5 DEF CheckKey, Completed, Answer
  <2>3. /\ pc'[w] = "idle" /\ \A v \in Workers \ {w} : pc'[v] = pc[v]
        /\ pc' \in [Workers -> {"idle"} \cup ExecutePoints \cup CreditPoints]
    BY <2>2, GotoMoves
  <2>4. /\ reply'[w] = [code |-> "replayed", body |-> responses[k]]
        /\ \A v \in Workers \ {w} : reply'[v] = reply[v]
        /\ reply' \in [Workers -> Reply \cup {None}]
    <3>1. [code |-> "replayed", body |-> responses[k]] \in Reply
      BY <2>1 DEF Reply
    <3> QED
      BY <2>2, <3>1 DEF IInv, TypeOK
  <2>5. TypeOK'
    BY <2>2, <2>3, <2>4, Released DEF IInv, TypeOK, books
  <2>6. BooksInv'
    BY <2>2, <2>3, BooksInvKept DEF CreditPoints
  <2>7. WorkerInv(w)'
    BY <1>5, <2>1, <2>2, <2>3, <2>4, Released, RowsHaveKinds
    DEF WorkerInv, RequestInv, LockInv, OwnedInv, PendingInv, AnswerInv, Answered,
        Completed, Holds, books, ExecutePoints, CreditPoints, WithKey, WithQuote,
        PastChecks, WithAccounts, WithCreditAccount, BeforeCreditCommit
  <2>8. \A v \in Workers \ {w} : Undisturbed(v)
    BY <2>2, <2>3, <2>4, Released DEF Undisturbed, books
  <2> QED
    BY <2>5, <2>6, <2>7, <2>8, StepOf
<1> QED
  BY <1>2, <1>3, <1>4, <1>5

(* The insert of the key: claimed here, or already committed by another. *)
LEMMA ClaimKeyStep == ASSUME IInv, NEW w \in Workers, ClaimKey(w) PROVE IInv'
<1> DEFINE k == req[w].key
<1>1. pc[w] = "claim_key" /\ req[w] \in ExecuteRequest /\ k \in Keys
  BY DEF ClaimKey, IInv, WorkerInv, RequestInv, ExecutePoints
<1>2. CASE Completed(k)
  <2>1. Fail(w, "idempotency_conflict")
    BY <1>2 DEF ClaimKey, Completed
  <2> QED
    BY <1>1, <1>2, <2>1, FailStep DEF Rejections, Failures
<1>3. CASE ~Completed(k)
  <2>1. /\ Take(w, <<"key", k>>) /\ Goto(w, "lock_quote")
        /\ UNCHANGED <<books, now, req, held, staged, reply>>
    BY <1>3 DEF ClaimKey, Completed
  <2>2. <<"key", k>> \in Rows
    BY <1>1, RowsHaveKinds
  <2>3. /\ pc'[w] = "lock_quote" /\ \A v \in Workers \ {w} : pc'[v] = pc[v]
        /\ pc' \in [Workers -> {"idle"} \cup ExecutePoints \cup CreditPoints]
    BY <2>1, GotoMoves DEF ExecutePoints
  <2>4. TypeOK'
    BY <2>1, <2>2, <2>3, Taken DEF IInv, TypeOK, books
  <2>5. BooksInv'
    BY <2>1, <2>3, BooksInvKept DEF CreditPoints
  <2>6. \A a \in Accounts : Holds(w, a)' <=> Holds(w, a)
    BY <2>1, <2>2, Taken, RowsHaveKinds DEF Holds
  <2>7. WorkerInv(w)'
    <3>1. AnswerInv(w)'
      BY <2>1, AnswerInvKept DEF books
    <3>2. RequestInv(w)' /\ LockInv(w)'
      BY <1>1, <1>3, <2>1, <2>2, <2>3, Taken
      DEF RequestInv, LockInv, Completed, books, ExecutePoints, CreditPoints, WithKey,
          WithQuote, PastChecks, WithAccounts, WithCreditAccount, BeforeCreditCommit
    <3>3. OwnedInv(w)'
      BY <1>1, <2>1, <2>2, <2>3, Taken
      DEF IInv, WorkerInv, OwnedInv, Lockable, WithKey, WithQuote, PastChecks,
          WithCreditAccount
    <3>4. PendingInv(w)'
      BY <1>1, <2>1, <2>3, <2>6 DEF IInv, WorkerInv, PendingInv, books
    <3> QED
      BY <3>1, <3>2, <3>3, <3>4 DEF WorkerInv
  <2>8. \A v \in Workers \ {w} : Undisturbed(v)
    BY <2>1, <2>2, <2>3, Taken DEF Undisturbed, books
  <2> QED
    BY <2>4, <2>5, <2>7, <2>8, StepOf
<1> QED
  BY <1>2, <1>3

(* The locking read of the quote. *)
LEMMA LockQuoteStep == ASSUME IInv, NEW w \in Workers, LockQuote(w) PROVE IInv'
<1> DEFINE q == req[w].quote
<1>1. /\ pc[w] = "lock_quote" /\ req[w] \in ExecuteRequest /\ q \in Quotes
      /\ req[w].key \in Keys
  BY DEF LockQuote, IInv, WorkerInv, RequestInv, ExecutePoints, ExecuteRequest
<1>2. CASE TermsOf(w) = None
  BY <1>2, FailStep DEF LockQuote, Rejections, Failures
<1>3. CASE TermsOf(w) # None
  <2>1. /\ Take(w, <<"quote", q>>) /\ Goto(w, "check_quote")
        /\ UNCHANGED <<books, now, req, held, staged, reply>>
    BY <1>3 DEF LockQuote
  <2>2. <<"quote", q>> \in Rows /\ <<"key", req[w].key>> \in Rows
    BY <1>1, RowsHaveKinds
  <2>3. /\ pc'[w] = "check_quote" /\ \A v \in Workers \ {w} : pc'[v] = pc[v]
        /\ pc' \in [Workers -> {"idle"} \cup ExecutePoints \cup CreditPoints]
    BY <2>1, GotoMoves DEF ExecutePoints
  <2>4. TypeOK'
    BY <2>1, <2>2, <2>3, Taken DEF IInv, TypeOK, books
  <2>5. BooksInv'
    BY <2>1, <2>3, BooksInvKept DEF CreditPoints
  <2>6. \A a \in Accounts : Holds(w, a)' <=> Holds(w, a)
    BY <2>1, <2>2, Taken, RowsHaveKinds DEF Holds
  <2>7. WorkerInv(w)'
    <3>1. AnswerInv(w)'
      BY <2>1, AnswerInvKept DEF books
    <3>2. RequestInv(w)' /\ LockInv(w)'
      BY <1>1, <1>3, <2>1, <2>2, <2>3, Taken
      DEF IInv, WorkerInv, RequestInv, LockInv, Completed, TermsOf, books, ExecutePoints,
          CreditPoints, WithKey, WithQuote, PastChecks, WithAccounts, WithCreditAccount,
          BeforeCreditCommit
    <3>3. OwnedInv(w)'
      BY <1>1, <2>1, <2>2, <2>3, Taken
      DEF IInv, WorkerInv, OwnedInv, Lockable, WithKey, WithQuote, PastChecks,
          WithCreditAccount
    <3>4. PendingInv(w)'
      BY <1>1, <2>1, <2>3, <2>6 DEF IInv, WorkerInv, PendingInv, books
    <3> QED
      BY <3>1, <3>2, <3>3, <3>4 DEF WorkerInv
  <2>8. \A v \in Workers \ {w} : Undisturbed(v)
    BY <2>1, <2>2, <2>3, Taken DEF Undisturbed, books
  <2> QED
    BY <2>4, <2>5, <2>7, <2>8, StepOf
<1> QED
  BY <1>2, <1>3

(* The checks of the locked quote: already executed, expired, or good. *)
LEMMA CheckQuoteStep == ASSUME IInv, NEW w \in Workers, CheckQuote(w) PROVE IInv'
<1> DEFINE q == req[w].quote
<1>1. pc[w] = "check_quote" /\ pc[w] \in WithQuote
  BY DEF CheckQuote, WithQuote, WithKey
<1>2. CASE q \in executions
  BY <1>2, FailStep DEF CheckQuote, Rejections, Failures
<1>3. CASE q \notin executions /\ now >= TermsOf(w).expires
  BY <1>3, FailStep DEF CheckQuote, Rejections, Failures
<1>4. CASE q \notin executions /\ ~(now >= TermsOf(w).expires)
  <2>1. Goto(w, "lock_accounts") /\ UNCHANGED <<books, lock, now, req, held, staged, reply>>
    BY <1>4 DEF CheckQuote
  <2>2. /\ pc'[w] = "lock_accounts" /\ \A v \in Workers \ {w} : pc'[v] = pc[v]
        /\ pc' \in [Workers -> {"idle"} \cup ExecutePoints \cup CreditPoints]
    BY <2>1, GotoMoves DEF ExecutePoints
  <2>3. TypeOK'
    BY <2>1, <2>2 DEF IInv, TypeOK, books
  <2>4. BooksInv'
    BY <2>1, <2>2, BooksInvKept DEF CreditPoints
  <2>5. \A a \in Accounts : ~Holds(w, a)
    BY <1>1, RowsHaveKinds
    DEF IInv, WorkerInv, OwnedInv, Lockable, Holds, PastChecks, WithQuote, WithKey,
        WithCreditAccount
  <2>6. WorkerInv(w)'
    <3>1. AnswerInv(w)'
      BY <2>1, AnswerInvKept DEF books
    <3>2. RequestInv(w)'
      BY <1>1, <2>1, <2>2
      DEF IInv, WorkerInv, RequestInv, ExecutePoints, CreditPoints
    <3>3. LockInv(w)'
      <4>1. TermsOf(w).source \in Unlocked(w)
        BY <1>1, <2>5, TermsTyped DEF Unlocked
      <4>2. Unlocked(w)' = Unlocked(w) /\ TermsOf(w)' = TermsOf(w)
        BY <2>1 DEF Unlocked, TermsOf, Holds, books
      <4> QED
        BY <1>1, <1>4, <2>1, <2>2, <4>1, <4>2
        DEF IInv, WorkerInv, LockInv, Completed, books, WithKey, WithQuote, PastChecks,
            WithAccounts, WithCreditAccount, BeforeCreditCommit
    <3>4. OwnedInv(w)'
      BY <1>1, <2>1, <2>2
      DEF IInv, WorkerInv, OwnedInv, Lockable, WithKey, WithQuote, PastChecks,
          WithCreditAccount
    <3>5. PendingInv(w)'
      BY <1>1, <2>1, <2>2 DEF IInv, WorkerInv, PendingInv, Holds, books
    <3> QED
      BY <3>1, <3>2, <3>3, <3>4, <3>5 DEF WorkerInv
  <2>7. \A v \in Workers \ {w} : Undisturbed(v)
    BY <2>1, <2>2 DEF Undisturbed, books
  <2> QED
    BY <2>3, <2>4, <2>6, <2>7, StepOf
<1> QED
  BY <1>2, <1>3, <1>4

(* The next account to lock exists and is one of the two of the quote. *)
LEMMA NextAccountIsUnlocked ==
    ASSUME IInv, NEW w \in Workers, pc[w] = "lock_accounts"
    PROVE  /\ NextAccount(w) \in Unlocked(w)
           /\ NextAccount(w) \in Accounts
           /\ \A b \in Unlocked(w) : Rank[NextAccount(w)[2]] <= Rank[b[2]]
<1>1. pc[w] \in WithQuote
  BY DEF WithQuote, WithKey
<1>2. Unlocked(w) # {}
  BY DEF IInv, WorkerInv, LockInv
<1>3. \A a \in Unlocked(w) : a \in Accounts /\ Rank[a[2]] \in Nat
  BY <1>1, TermsTyped, RankAssumption DEF Unlocked, Accounts
<1>4. \E a \in Unlocked(w) : \A b \in Unlocked(w) : Rank[a[2]] <= Rank[b[2]]
  <2> DEFINE s == TermsOf(w).source
             d == TermsOf(w).destination
  <2>1. \A b \in Unlocked(w) : b = s \/ b = d
    BY DEF Unlocked
  <2>2. CASE s \notin Unlocked(w)
    BY <1>2, <1>3, <2>1, <2>2
  <2>3. CASE d \notin Unlocked(w)
    BY <1>2, <1>3, <2>1, <2>3
  <2>4. CASE s \in Unlocked(w) /\ d \in Unlocked(w)
    <3>1. CASE Rank[s[2]] <= Rank[d[2]]
      BY <1>3, <2>1, <2>4, <3>1
    <3>2. CASE Rank[d[2]] <= Rank[s[2]]
      BY <1>3, <2>1, <2>4, <3>2
    <3> QED
      BY <1>3, <2>4, <3>1, <3>2
  <2> QED
    BY <2>2, <2>3, <2>4
<1>5. /\ NextAccount(w) \in Unlocked(w)
      /\ \A b \in Unlocked(w) : Rank[NextAccount(w)[2]] <= Rank[b[2]]
  BY <1>4 DEF NextAccount
<1> QED
  BY <1>3, <1>5

(* The lock of the next balance row reads the committed balance. *)
LEMMA LockAccountStep == ASSUME IInv, NEW w \in Workers, LockAccount(w) PROVE IInv'
<1> DEFINE a == NextAccount(w)
           row == <<"balance", a>>
<1>1. pc[w] = "lock_accounts" /\ pc[w] \in WithQuote
  BY DEF LockAccount, WithQuote, WithKey
<1>2. a \in Accounts /\ a \in Unlocked(w) /\ row \in Rows
  BY <1>1, NextAccountIsUnlocked, RowsHaveKinds
<1>3. /\ Take(w, row) /\ held' = [held EXCEPT ![w][a] = balance[a]]
      /\ UNCHANGED <<books, now, req, staged, reply>>
  BY DEF LockAccount, ReadForUpdate
<1> DEFINE point == IF Unlocked(w) = {a} THEN "debit" ELSE "lock_accounts"
<1>4. /\ pc'[w] = point /\ \A v \in Workers \ {w} : pc'[v] = pc[v]
      /\ pc' \in [Workers -> {"idle"} \cup ExecutePoints \cup CreditPoints]
  BY GotoMoves DEF LockAccount, ExecutePoints
<1>5. /\ held' \in [Workers -> [Accounts -> Int]]
      /\ held'[w][a] = balance[a]
      /\ \A b \in Accounts \ {a} : held'[w][b] = held[w][b]
      /\ \A v \in Workers \ {w} : held'[v] = held[v]
  <2>1. held \in [Workers -> [Accounts -> Int]] /\ balance[a] \in Int
    BY <1>2, BoundsAssumption DEF IInv, TypeOK, Money
  <2> QED
    BY <1>2, <1>3, <2>1
<1>6. TypeOK'
  BY <1>2, <1>3, <1>4, <1>5, Taken DEF IInv, TypeOK, books
<1>7. BooksInv'
  BY <1>1, <1>3, <1>4, BooksInvKept DEF CreditPoints
<1>8. \A b \in Accounts : Holds(w, b)' <=> Holds(w, b) \/ b = a
  BY <1>2, <1>3, Taken, RowsHaveKinds DEF Holds
<1>9. TermsOf(w)' = TermsOf(w) /\ Unlocked(w)' = Unlocked(w) \ {a}
  <2>1. TermsOf(w)' = TermsOf(w)
    BY <1>3 DEF TermsOf, books
  <2> QED
    BY <1>1, <1>8, <2>1, TermsTyped DEF Unlocked
<1>10. WorkerInv(w)'
  <2>1. AnswerInv(w)'
    BY <1>3, AnswerInvKept DEF books
  <2>2. RequestInv(w)'
    BY <1>1, <1>3, <1>4
    DEF IInv, WorkerInv, RequestInv, ExecutePoints, CreditPoints
  <2>3. LockInv(w)'
    <3>1. req[w].key \in Keys /\ req[w].quote \in Quotes
      BY <1>1, TermsTyped
    <3>2. /\ lock'[<<"key", req[w].key>>] = lock[<<"key", req[w].key>>]
          /\ lock'[<<"quote", req[w].quote>>] = lock[<<"quote", req[w].quote>>]
      BY <1>2, <1>3, <3>1, Taken, RowsHaveKinds
    <3>3. CASE Unlocked(w) = {a}
      <4>1. Holds(w, TermsOf(w).source)' /\ Holds(w, TermsOf(w).destination)'
        BY <1>1, <1>8, <1>9, <3>3, TermsTyped DEF Unlocked
      <4> QED
        BY <1>1, <1>3, <1>4, <1>9, <3>2, <3>3, <4>1
        DEF IInv, WorkerInv, LockInv, Completed, books, WithKey, WithQuote, PastChecks,
            WithAccounts, WithCreditAccount, BeforeCreditCommit
    <3>4. CASE Unlocked(w) # {a}
      <4>1. Unlocked(w)' # {}
        BY <1>2, <1>9, <3>4
      <4> QED
        BY <1>1, <1>3, <1>4, <1>9, <3>2, <3>4, <4>1
        DEF IInv, WorkerInv, LockInv, Completed, books, WithKey, WithQuote, PastChecks,
            WithAccounts, WithCreditAccount, BeforeCreditCommit
    <3> QED
      BY <3>3, <3>4
  <2>4. OwnedInv(w)'
    <3>1. row \in Lockable(w)'
      <4>1. a = TermsOf(w)'.source \/ a = TermsOf(w)'.destination
        BY <1>2, <1>9 DEF Unlocked
      <4> QED
        BY <1>2, <1>4, <4>1 DEF Lockable, PastChecks, WithQuote, WithKey
    <3>2. \A r \in Rows : r \in Lockable(w) => r \in Lockable(w)'
      BY <1>1, <1>3, <1>4, <1>9
      DEF Lockable, WithKey, WithQuote, PastChecks, WithCreditAccount
    <3> QED
      BY <1>2, <1>3, <3>1, <3>2, Taken DEF IInv, WorkerInv, OwnedInv
  <2>5. PendingInv(w)'
    BY <1>1, <1>3, <1>4, <1>5, <1>8 DEF IInv, WorkerInv, PendingInv, books
  <2> QED
    BY <2>1, <2>2, <2>3, <2>4, <2>5 DEF WorkerInv
<1>11. \A v \in Workers \ {w} : Undisturbed(v)
  BY <1>2, <1>3, <1>4, <1>5, Taken DEF Undisturbed, books
<1> QED
  BY <1>6, <1>7, <1>10, <1>11, StepOf

(* The two legs of a well-formed quote are ledger entries. *)
LEMMA EntriesTyped ==
    /\ \A q \in Quotes, t \in Terms : DebitEntry(q, t) \in Entry /\ CreditEntry(q, t) \in Entry
    /\ \A x \in Adjustments, row \in AdjustmentRow : AdjustmentEntry(x, row) \in Entry
  BY DEF DebitEntry, CreditEntry, AdjustmentEntry, Entry, Terms, AdjustmentRow

(* The debit stays within the locked balance, so no constraint can fire. *)
LEMMA DebitStep == ASSUME IInv, NEW w \in Workers, Debit(w) PROVE IInv'
<1> DEFINE q == req[w].quote
           t == TermsOf(w)
<1>1. pc[w] = "debit" /\ pc[w] \in WithQuote
  BY DEF Debit, WithQuote, WithKey
<1>2. /\ q \in Quotes /\ q \notin executions /\ t \in Terms
      /\ t.source \in Accounts /\ t.destination \in Accounts /\ t.source # t.destination
  BY <1>1, TermsTyped
  DEF IInv, WorkerInv, LockInv, PastChecks, WithQuote, WithKey
<1>3. /\ held[w][t.source] = balance[t.source]
      /\ held[w][t.destination] = balance[t.destination]
      /\ staged[w] = {}
      /\ balance[t.source] \in Nat /\ t.debit \in Nat
  <2>1. Holds(w, t.source) /\ Holds(w, t.destination)
    BY <1>1 DEF IInv, WorkerInv, LockInv, WithAccounts, PastChecks, WithQuote, WithKey
  <2>2. balance[t.source] \in Nat /\ t.debit \in Nat
    BY <1>1, <1>2, TermsTyped, BoundsAssumption DEF IInv, TypeOK, Money
  <2> QED
    BY <1>1, <1>2, <2>1, <2>2 DEF IInv, WorkerInv, PendingInv
<1>4. CASE held[w][t.source] < t.debit
  BY <1>4, FailStep DEF Debit, Rejections, Failures
<1>5. CASE ~(held[w][t.source] < t.debit) /\ t.debit = 0
  BY <1>2, <1>5, FailStep DEF Debit, Rejections, Failures
<1>6. CASE ~(held[w][t.source] < t.debit) /\ t.debit # 0
  <2>1. /\ Append(w, DebitEntry(q, t)) /\ Goto(w, "credit")
        /\ held' = [held EXCEPT ![w][t.source] = held[w][t.source] - t.debit]
        /\ UNCHANGED <<books, lock, now, req, reply>>
    BY <1>2, <1>6 DEF Debit
  <2>2. /\ pc'[w] = "credit" /\ \A v \in Workers \ {w} : pc'[v] = pc[v]
        /\ pc' \in [Workers -> {"idle"} \cup ExecutePoints \cup CreditPoints]
    BY <2>1, GotoMoves DEF ExecutePoints
  <2>3. /\ staged' \in [Workers -> SUBSET Entry]
        /\ staged'[w] = {DebitEntry(q, t)}
        /\ held' \in [Workers -> [Accounts -> Int]]
        /\ held'[w][t.source] = balance[t.source] - t.debit
        /\ held'[w][t.destination] = balance[t.destination]
        /\ \A v \in Workers \ {w} : held'[v] = held[v] /\ staged'[v] = staged[v]
    <3>1. /\ staged \in [Workers -> SUBSET Entry] /\ DebitEntry(q, t) \in Entry
          /\ held \in [Workers -> [Accounts -> Int]]
      BY <1>2, EntriesTyped DEF IInv, TypeOK
    <3>2. /\ staged' \in [Workers -> SUBSET Entry]
          /\ staged'[w] = {DebitEntry(q, t)}
          /\ \A v \in Workers \ {w} : staged'[v] = staged[v]
      BY <1>3, <2>1, <3>1 DEF Append
    <3>3. held[w][t.source] - t.debit \in Int
      BY <1>3
    <3> QED
      BY <1>2, <1>3, <2>1, <3>1, <3>2, <3>3
  <2>4. TypeOK'
    BY <2>1, <2>2, <2>3 DEF IInv, TypeOK, books
  <2>5. BooksInv'
    BY <2>1, <2>2, BooksInvKept DEF CreditPoints
  <2>6. WorkerInv(w)'
    <3>1. AnswerInv(w)'
      BY <2>1, AnswerInvKept DEF books
    <3>2. RequestInv(w)'
      BY <1>1, <2>1, <2>2 DEF IInv, WorkerInv, RequestInv, ExecutePoints, CreditPoints
    <3>3. TermsOf(w)' = t
      BY <2>1 DEF TermsOf, books
    <3>4. LockInv(w)'
      <4>1. LockInv(w)
        BY DEF IInv, WorkerInv
      <4>2. Holds(w, t.source)' /\ Holds(w, t.destination)'
        BY <1>1, <2>1, <3>3, <4>1
        DEF LockInv, Holds, WithAccounts, PastChecks, WithQuote, WithKey
      <4> QED
        BY <1>1, <2>1, <2>2, <3>3, <4>1, <4>2
        DEF LockInv, Completed, books, WithKey, WithQuote, PastChecks,
            WithAccounts, WithCreditAccount, BeforeCreditCommit
    <3>5. OwnedInv(w)'
      BY <1>1, <2>1, <2>2, <3>3
      DEF IInv, WorkerInv, OwnedInv, Lockable, WithKey, WithQuote, PastChecks,
          WithCreditAccount
    <3>6. PendingInv(w)'
      BY <1>3, <1>6, <2>1, <2>2, <2>3, <3>3 DEF PendingInv, books
    <3> QED
      BY <3>1, <3>2, <3>4, <3>5, <3>6 DEF WorkerInv
  <2>7. \A v \in Workers \ {w} : Undisturbed(v)
    BY <2>1, <2>2, <2>3 DEF Undisturbed, books
  <2> QED
    BY <2>4, <2>5, <2>6, <2>7, StepOf
<1> QED
  BY <1>4, <1>5, <1>6

(* The credit of the other leg leaves one entry per leg staged. *)
LEMMA CreditDestinationStep ==
    ASSUME IInv, NEW w \in Workers, CreditDestination(w) PROVE IInv'
<1> DEFINE q == req[w].quote
           t == TermsOf(w)
<1>1. pc[w] = "credit" /\ pc[w] \in WithQuote
  BY DEF CreditDestination, WithQuote, WithKey
<1>2. /\ q \in Quotes /\ t \in Terms
      /\ t.source \in Accounts /\ t.destination \in Accounts /\ t.source # t.destination
  BY <1>1, TermsTyped
<1>3. /\ held[w][t.source] = balance[t.source] - t.debit
      /\ t.debit > 0 /\ t.debit <= balance[t.source]
      /\ held[w][t.destination] = balance[t.destination]
      /\ staged[w] = {DebitEntry(q, t)}
  BY <1>1 DEF IInv, WorkerInv, PendingInv
<1>4. balance[t.source] \in Nat /\ balance[t.destination] \in Nat /\ t.debit \in Nat /\ t.credit \in Nat
  BY <1>1, <1>2, TermsTyped, BoundsAssumption DEF IInv, TypeOK, Money
<1>5. CASE t.credit = 0
  BY <1>5, FailStep DEF CreditDestination, Rejections, Failures
<1>6. CASE t.credit # 0
  <2>1. ~(held[w][t.source] < 0)
    BY <1>3, <1>4
  <2>2. /\ Append(w, CreditEntry(q, t)) /\ Goto(w, "commit")
        /\ held' = [held EXCEPT ![w][t.destination] = held[w][t.destination] + t.credit]
        /\ UNCHANGED <<books, lock, now, req, reply>>
    BY <1>6, <2>1 DEF CreditDestination
  <2>3. /\ pc'[w] = "commit" /\ \A v \in Workers \ {w} : pc'[v] = pc[v]
        /\ pc' \in [Workers -> {"idle"} \cup ExecutePoints \cup CreditPoints]
    BY <2>2, GotoMoves DEF ExecutePoints
  <2>4. /\ staged' \in [Workers -> SUBSET Entry]
        /\ staged'[w] = {DebitEntry(q, t), CreditEntry(q, t)}
        /\ held' \in [Workers -> [Accounts -> Int]]
        /\ held'[w][t.source] = balance[t.source] - t.debit
        /\ held'[w][t.destination] = balance[t.destination] + t.credit
        /\ \A v \in Workers \ {w} : held'[v] = held[v] /\ staged'[v] = staged[v]
    <3>1. /\ staged \in [Workers -> SUBSET Entry] /\ CreditEntry(q, t) \in Entry
          /\ held \in [Workers -> [Accounts -> Int]]
      BY <1>2, EntriesTyped DEF IInv, TypeOK
    <3>2. /\ staged' \in [Workers -> SUBSET Entry]
          /\ staged'[w] = {DebitEntry(q, t), CreditEntry(q, t)}
          /\ \A v \in Workers \ {w} : staged'[v] = staged[v]
      BY <1>3, <2>2, <3>1 DEF Append
    <3>3. held[w][t.destination] + t.credit \in Int
      BY <1>3, <1>4
    <3> QED
      BY <1>2, <1>3, <2>2, <3>1, <3>2, <3>3
  <2>5. TypeOK'
    BY <2>2, <2>3, <2>4 DEF IInv, TypeOK, books
  <2>6. BooksInv'
    BY <2>2, <2>3, BooksInvKept DEF CreditPoints
  <2>7. WorkerInv(w)'
    <3>1. AnswerInv(w)'
      BY <2>2, AnswerInvKept DEF books
    <3>2. RequestInv(w)'
      BY <1>1, <2>2, <2>3 DEF IInv, WorkerInv, RequestInv, ExecutePoints, CreditPoints
    <3>3. TermsOf(w)' = t
      BY <2>2 DEF TermsOf, books
    <3>4. LockInv(w)'
      <4>1. LockInv(w)
        BY DEF IInv, WorkerInv
      <4>2. Holds(w, t.source)' /\ Holds(w, t.destination)'
        BY <1>1, <2>2, <3>3, <4>1
        DEF LockInv, Holds, WithAccounts, PastChecks, WithQuote, WithKey
      <4> QED
        BY <1>1, <2>2, <2>3, <3>3, <4>1, <4>2
        DEF LockInv, Completed, books, WithKey, WithQuote, PastChecks,
            WithAccounts, WithCreditAccount, BeforeCreditCommit
    <3>5. OwnedInv(w)'
      BY <1>1, <2>2, <2>3, <3>3
      DEF IInv, WorkerInv, OwnedInv, Lockable, WithKey, WithQuote, PastChecks,
          WithCreditAccount
    <3>6. PendingInv(w)'
      BY <1>3, <1>4, <1>6, <2>2, <2>3, <2>4, <3>3 DEF PendingInv, books
    <3> QED
      BY <3>1, <3>2, <3>4, <3>5, <3>6 DEF WorkerInv
  <2>8. \A v \in Workers \ {w} : Undisturbed(v)
    BY <2>2, <2>3, <2>4 DEF Undisturbed, books
  <2> QED
    BY <2>5, <2>6, <2>7, <2>8, StepOf
<1> QED
  BY <1>5, <1>6

(* What a transaction about to commit an execution has in hand. *)
LEMMA AtCommit ==
    ASSUME IInv, NEW w \in Workers, pc[w] = "commit"
    PROVE  LET q == req[w].quote
               t == TermsOf(w)
           IN /\ q \in Quotes /\ req[w].key \in Keys /\ t \in Terms
              /\ t = quotes[q] /\ q \notin executions /\ ~Completed(req[w].key)
              /\ t.source \in Accounts /\ t.destination \in Accounts /\ t.source # t.destination
              /\ t.debit \in Nat /\ t.credit \in Nat /\ t.debit > 0 /\ t.credit > 0
              /\ t.debit <= balance[t.source]
              /\ staged[w] = {DebitEntry(q, t), CreditEntry(q, t)}
              /\ held[w][t.source] = balance[t.source] - t.debit
              /\ held[w][t.destination] = balance[t.destination] + t.credit
              /\ Flushed(w) = [balance EXCEPT ![t.source] = @ - t.debit,
                                              ![t.destination] = @ + t.credit]
<1> DEFINE q == req[w].quote
           t == TermsOf(w)
<1>1. pc[w] \in WithQuote /\ pc[w] \in WithAccounts /\ pc[w] \in WithKey /\ pc[w] \in PastChecks
  BY DEF WithAccounts, PastChecks, WithQuote, WithKey
<1>2. /\ q \in Quotes /\ req[w].key \in Keys /\ t \in Terms
      /\ t.source \in Accounts /\ t.destination \in Accounts /\ t.source # t.destination
      /\ t.debit \in Nat /\ t.credit \in Nat
  BY <1>1, TermsTyped, BoundsAssumption DEF Money
<1>3. q \notin executions /\ ~Completed(req[w].key) /\ Holds(w, t.source) /\ Holds(w, t.destination)
  BY <1>1 DEF IInv, WorkerInv, LockInv
<1>4. /\ staged[w] = {DebitEntry(q, t), CreditEntry(q, t)}
      /\ held[w][t.source] = balance[t.source] - t.debit
      /\ held[w][t.destination] = balance[t.destination] + t.credit
      /\ t.debit > 0 /\ t.credit > 0 /\ t.debit <= balance[t.source]
  BY DEF IInv, WorkerInv, PendingInv
<1>5. \A a \in Accounts : Holds(w, a) => a = t.source \/ a = t.destination
  BY RowsHaveKinds
  DEF IInv, WorkerInv, OwnedInv, Lockable, Holds, WithCreditAccount
<1>6. balance \in [Accounts -> Money]
  BY DEF IInv, TypeOK
<1>7. Flushed(w) = [balance EXCEPT ![t.source] = @ - t.debit, ![t.destination] = @ + t.credit]
  BY <1>2, <1>3, <1>4, <1>5, <1>6 DEF Flushed
<1> QED
  BY <1>2, <1>3, <1>4, <1>7 DEF TermsOf

(* The books after the commit of an execution. *)
LEMMA CommittedBooks ==
    ASSUME IInv, NEW q \in Quotes, NEW k \in Keys, NEW response \in Response,
           q \notin executions, ~Completed(k), quotes[q] # None,
           response.quote = q,
           ledger' = ledger \cup {DebitEntry(q, quotes[q]), CreditEntry(q, quotes[q])},
           executions' = executions \cup {q},
           responses' = [responses EXCEPT ![k] = response],
           UNCHANGED <<customers, quotes, adjustments, req>>,
           \A v \in Workers : pc'[v] \in CreditPoints => pc[v] \in CreditPoints
    PROVE  BooksInv'
<1>1. BooksInv /\ responses \in [Keys -> Response \cup {None}] /\ response # None
  BY NoneAssumption DEF IInv, TypeOK
<1>2. QuotesInv' /\ AdjustmentsInv' /\ \A p \in executions' : quotes'[p] # None
  BY <1>1 DEF BooksInv, QuotesInv, AdjustmentsInv
<1>3. LedgerMatchesRecords'
  <2>1. {DebitEntry(p, quotes[p]) : p \in executions'}
          = {DebitEntry(p, quotes[p]) : p \in executions} \cup {DebitEntry(q, quotes[q])}
    OBVIOUS
  <2>2. {CreditEntry(p, quotes[p]) : p \in executions'}
          = {CreditEntry(p, quotes[p]) : p \in executions} \cup {CreditEntry(q, quotes[q])}
    OBVIOUS
  <2> QED
    BY <1>1, <2>1, <2>2 DEF BooksInv, LedgerMatchesRecords
<1>4. OneKeyPerExecution'
  <2>1. /\ \A j \in Keys : Completed(j)' <=> Completed(j) \/ j = k
        /\ \A j \in Keys : Completed(j) => responses'[j] = responses[j]
        /\ responses'[k].quote = q
    BY <1>1 DEF Completed
  <2>2. executions' = {responses'[j].quote : j \in {i \in Keys : Completed(i)'}}
    <3>1. executions = {responses[j].quote : j \in {i \in Keys : Completed(i)}}
      BY <1>1 DEF BooksInv, OneKeyPerExecution
    <3> QED
      BY <2>1, <3>1
  <2>3. \A i, j \in Keys :
          Completed(i)' /\ Completed(j)' /\ responses'[i].quote = responses'[j].quote => i = j
    <3>1. \A j \in Keys : Completed(j) => responses[j].quote \in executions
      BY <1>1 DEF BooksInv, OneKeyPerExecution
    <3>2. \A i, j \in Keys :
            Completed(i) /\ Completed(j) /\ responses[i].quote = responses[j].quote => i = j
      BY <1>1 DEF BooksInv, OneKeyPerExecution
    <3> QED
      BY <2>1, <3>1, <3>2
  <2> QED
    BY <2>2, <2>3 DEF OneKeyPerExecution
<1> QED
  BY <1>2, <1>3, <1>4 DEF BooksInv

(* The commit publishes balances, ledger, execution and key together. *)
LEMMA CommitStep == ASSUME IInv, NEW w \in Workers, Commit(w) PROVE IInv'
<1> DEFINE q == req[w].quote
           k == req[w].key
           t == TermsOf(w)
           response == [quote |-> q, source |-> held[w][t.source],
                        destination |-> held[w][t.destination]]
<1>1. pc[w] = "commit"
  BY DEF Commit
<1>2. /\ q \in Quotes /\ k \in Keys /\ t \in Terms /\ t = quotes[q]
      /\ q \notin executions /\ ~Completed(k)
      /\ t.source \in Accounts /\ t.destination \in Accounts /\ t.source # t.destination
      /\ t.debit \in Nat /\ t.credit \in Nat /\ t.debit > 0 /\ t.credit > 0
      /\ t.debit <= balance[t.source]
      /\ staged[w] = {DebitEntry(q, t), CreditEntry(q, t)}
      /\ held[w][t.source] = balance[t.source] - t.debit
      /\ held[w][t.destination] = balance[t.destination] + t.credit
      /\ Flushed(w) = [balance EXCEPT ![t.source] = @ - t.debit,
                                      ![t.destination] = @ + t.credit]
  BY <1>1, AtCommit
<1>3. balance \in [Accounts -> Money]
  BY DEF IInv, TypeOK
<1>4. CASE held[w][t.destination] > MaxMoney
  BY <1>4, FailStep DEF Commit, Rejections, Failures
<1>5. CASE ~(held[w][t.destination] > MaxMoney)
  <2>1. /\ balance' = Flushed(w) /\ ledger' = ledger \cup staged[w]
        /\ executions' = executions \cup {q}
        /\ responses' = [responses EXCEPT ![k] = response]
        /\ EndTransaction(w) /\ Goto(w, "respond")
        /\ UNCHANGED <<customers, quotes, adjustments, now, req, reply>>
    BY <1>5 DEF Commit
  <2>2. /\ pc'[w] = "respond" /\ \A v \in Workers \ {w} : pc'[v] = pc[v]
        /\ pc' \in [Workers -> {"idle"} \cup ExecutePoints \cup CreditPoints]
    BY <2>1, GotoMoves DEF ExecutePoints
  <2>3. held[w][t.source] \in Money /\ held[w][t.destination] \in Money
    BY <1>2, <1>3, <1>5, BoundsAssumption DEF Money
  <2>4. response \in Response /\ response.quote = q
    BY <1>2, <2>3 DEF Response
  <2>5. TypeOK'
    <3>1. balance' \in [Accounts -> Money]
      BY <1>2, <1>3, <2>1, <2>3
    <3>2. ledger' \subseteq Entry
      BY <1>2, <2>1, EntriesTyped DEF IInv, TypeOK
    <3>3. responses' \in [Keys -> Response \cup {None}] /\ executions' \subseteq Quotes
      BY <1>2, <2>1, <2>4 DEF IInv, TypeOK
    <3> QED
      BY <2>1, <2>2, <3>1, <3>2, <3>3, Released DEF IInv, TypeOK
  <2>6. BooksInv'
    <3>1. \A v \in Workers : pc'[v] \in CreditPoints => pc[v] \in CreditPoints
      BY <2>2 DEF CreditPoints
    <3>2. quotes[q] # None
      BY <1>2, NoneAssumption
    <3>3. ledger' = ledger \cup {DebitEntry(q, quotes[q]), CreditEntry(q, quotes[q])}
      BY <1>2, <2>1
    <3> HIDE DEF response, q, k
    <3> QED
      BY <1>2, <2>1, <2>4, <3>1, <3>2, <3>3, CommittedBooks
  <2>7. responses'[k] = response /\ \A j \in Keys \ {k} : responses'[j] = responses[j]
    BY <1>2, <2>1 DEF IInv, TypeOK
  <2>8. WorkerInv(w)'
    <3>1. AnswerInv(w)'
      BY <1>2, <2>1, <2>7, AnswerInvKept DEF Completed
    <3>2. RequestInv(w)'
      BY <1>1, <2>1, <2>2 DEF IInv, WorkerInv, RequestInv, ExecutePoints, CreditPoints
    <3>3. LockInv(w)'
      <4>1. response # None
        BY <2>4, NoneAssumption
      <4>2. Completed(req[w].key)' /\ responses'[req'[w].key].quote = req'[w].quote
        BY <2>1, <2>4, <2>7, <4>1 DEF Completed
      <4> QED
        BY <2>2, <4>2
        DEF LockInv, WithKey, WithQuote, PastChecks, WithAccounts, WithCreditAccount,
            BeforeCreditCommit
    <3>4. OwnedInv(w)' /\ PendingInv(w)'
      BY <2>1, <2>2, Released, RowsHaveKinds DEF OwnedInv, PendingInv, Holds
    <3> QED
      BY <3>1, <3>2, <3>3, <3>4 DEF WorkerInv
  <2>9. ASSUME NEW v \in Workers \ {w} PROVE Undisturbed(v)
    <3>1. /\ lock[<<"key", k>>] = w /\ lock[<<"quote", q>>] = w
          /\ Holds(w, t.source) /\ Holds(w, t.destination)
      BY <1>1
      DEF IInv, WorkerInv, LockInv, WithKey, WithQuote, PastChecks, WithAccounts
    <3>2. \A a \in Accounts : Holds(v, a) => balance'[a] = balance[a]
      BY <1>2, <1>3, <2>1, <3>1 DEF Holds
    <3>3. \A j \in Keys : Completed(j) \/ lock[<<"key", j>>] = v => responses'[j] = responses[j]
      BY <1>2, <2>7, <3>1
    <3>4. \A p \in Quotes : lock[<<"quote", p>>] = v /\ p \in executions' => p \in executions
      BY <2>1, <3>1
    <3> QED
      BY <2>1, <2>2, <3>2, <3>3, <3>4, Released DEF Undisturbed
  <2> QED
    BY <2>5, <2>6, <2>8, <2>9, StepOf
<1> QED
  BY <1>4, <1>5

(* Ending a request with an answer, after its transaction has ended. *)
LEMMA AnswerMoves ==
    ASSUME IInv, NEW w \in Workers, NEW code, NEW body, Answer(w, code, body),
           [code |-> code, body |-> body] \in Reply
    PROVE  /\ pc'[w] = "idle" /\ reply'[w] = [code |-> code, body |-> body]
           /\ \A v \in Workers \ {w} : pc'[v] = pc[v] /\ reply'[v] = reply[v]
           /\ pc' \in [Workers -> {"idle"} \cup ExecutePoints \cup CreditPoints]
           /\ reply' \in [Workers -> Reply \cup {None}]
  BY DEF Answer, Goto, IInv, TypeOK

(* A worker at a point where it has neither locks nor staged rows has none   *)
(* when it becomes idle.                                                     *)
LEMMA IdleInv ==
    ASSUME IInv, NEW w \in Workers, pc[w] \in {"idle", "respond", "respond_credit"},
           pc'[w] = "idle", UNCHANGED <<lock, held, staged>>
    PROVE  RequestInv(w)' /\ LockInv(w)' /\ OwnedInv(w)' /\ PendingInv(w)'
<1>1. \A r \in Rows : lock[r] # w
  BY DEF IInv, WorkerInv, OwnedInv, Lockable, WithKey, WithQuote, PastChecks, WithCreditAccount
<1>2. staged[w] = {}
  BY DEF IInv, WorkerInv, PendingInv
<1> QED
  BY <1>1, <1>2, RowsHaveKinds
  DEF RequestInv, LockInv, OwnedInv, PendingInv, Holds, ExecutePoints, CreditPoints,
      WithKey, WithQuote, PastChecks, WithAccounts, WithCreditAccount, BeforeCreditCommit

(* The answer of an execution is the response stored with its key. *)
LEMMA RespondStep == ASSUME IInv, NEW w \in Workers, Respond(w) PROVE IInv'
<1> DEFINE k == req[w].key
<1>1. pc[w] = "respond" /\ UNCHANGED <<books, lock, now, req, held, staged>>
  BY DEF Respond
<1>2. /\ req[w] \in ExecuteRequest /\ k \in Keys /\ Completed(k)
      /\ responses[k].quote = req[w].quote
  BY <1>1 DEF IInv, WorkerInv, RequestInv, LockInv, ExecutePoints
<1>3. responses[k] \in Response
  BY <1>2 DEF IInv, TypeOK, Completed
<1>4. [code |-> "ok", body |-> responses[k]] \in Reply
  BY <1>3 DEF Reply
<1>5. /\ pc'[w] = "idle" /\ reply'[w] = [code |-> "ok", body |-> responses[k]]
      /\ \A v \in Workers \ {w} : pc'[v] = pc[v] /\ reply'[v] = reply[v]
      /\ pc' \in [Workers -> {"idle"} \cup ExecutePoints \cup CreditPoints]
      /\ reply' \in [Workers -> Reply \cup {None}]
  BY <1>4, AnswerMoves DEF Respond
<1>6. TypeOK'
  BY <1>1, <1>5 DEF IInv, TypeOK, books
<1>7. BooksInv'
  BY <1>1, <1>5, BooksInvKept DEF CreditPoints
<1>8. AnswerInv(w)'
  BY <1>1, <1>2, <1>5 DEF AnswerInv, Answered, Completed, books
<1>9. \A v \in Workers \ {w} : Undisturbed(v)
  BY <1>1, <1>5 DEF Undisturbed, books
<1> QED
  BY <1>1, <1>5, <1>6, <1>7, <1>8, <1>9, IdleInv, StepOf DEF WorkerInv

(* The answer of a credit touches nothing that is stored. *)
LEMMA RespondCreditStep == ASSUME IInv, NEW w \in Workers, RespondCredit(w) PROVE IInv'
<1> DEFINE a == req[w].account
           body == [account |-> a, amount |-> balance[a]]
<1>1. pc[w] = "respond_credit" /\ UNCHANGED <<books, lock, now, req, held, staged>>
  BY DEF RespondCredit
<1>2. req[w] \in CreditRequest /\ a \in Accounts
  BY <1>1 DEF IInv, WorkerInv, RequestInv, CreditPoints, CreditRequest
<1>3. body \in AdjustmentRow
  BY <1>2 DEF AdjustmentRow, IInv, TypeOK
<1>4. [code |-> "ok", body |-> body] \in Reply
  BY <1>3 DEF Reply
<1>5. /\ pc'[w] = "idle" /\ reply'[w] = [code |-> "ok", body |-> body]
      /\ \A v \in Workers \ {w} : pc'[v] = pc[v] /\ reply'[v] = reply[v]
      /\ pc' \in [Workers -> {"idle"} \cup ExecutePoints \cup CreditPoints]
      /\ reply' \in [Workers -> Reply \cup {None}]
  BY <1>4, AnswerMoves DEF RespondCredit
<1>6. TypeOK'
  BY <1>1, <1>5 DEF IInv, TypeOK, books
<1>7. BooksInv'
  BY <1>1, <1>5, BooksInvKept DEF CreditPoints
<1>8. AnswerInv(w)'
  BY <1>1, <1>2, <1>5, RequestsDiffer DEF AnswerInv, Answered
<1>9. \A v \in Workers \ {w} : Undisturbed(v)
  BY <1>1, <1>5 DEF Undisturbed, books
<1> QED
  BY <1>1, <1>5, <1>6, <1>7, <1>8, <1>9, IdleInv, StepOf DEF WorkerInv

(* An execution request arrives at an idle worker. *)
LEMMA SubmitStep ==
    ASSUME IInv, NEW w \in Workers, NEW q \in Quotes, NEW k \in Keys \cup {EmptyKey},
           Submit(w, q, k)
    PROVE  IInv'
<1>1. /\ pc[w] = "idle" /\ Goto(w, "check_key")
      /\ req' = [req EXCEPT ![w] = [quote |-> q, key |-> k]]
      /\ reply' = [reply EXCEPT ![w] = None]
      /\ UNCHANGED <<books, lock, now, held, staged>>
  BY DEF Submit
<1>2. /\ pc'[w] = "check_key" /\ \A v \in Workers \ {w} : pc'[v] = pc[v]
      /\ pc' \in [Workers -> {"idle"} \cup ExecutePoints \cup CreditPoints]
  BY <1>1, GotoMoves DEF ExecutePoints
<1>3. /\ req'[w] = [quote |-> q, key |-> k] /\ req'[w] \in ExecuteRequest
      /\ \A v \in Workers \ {w} : req'[v] = req[v]
      /\ req' \in [Workers -> ExecuteRequest \cup CreditRequest \cup {None}]
  <2>1. [quote |-> q, key |-> k] \in ExecuteRequest
    BY DEF ExecuteRequest
  <2> QED
    BY <1>1, <2>1 DEF IInv, TypeOK
<1>4. /\ reply'[w] = None /\ \A v \in Workers \ {w} : reply'[v] = reply[v]
      /\ reply' \in [Workers -> Reply \cup {None}]
  BY <1>1 DEF IInv, TypeOK
<1>5. TypeOK'
  BY <1>1, <1>2, <1>3, <1>4 DEF IInv, TypeOK, books
<1>6. BooksInv'
  BY <1>1, <1>2, <1>3, BooksInvKept DEF CreditPoints
<1>7. WorkerInv(w)'
  <2>1. \A r \in Rows : lock[r] # w
    BY <1>1
    DEF IInv, WorkerInv, OwnedInv, Lockable, WithKey, WithQuote, PastChecks, WithCreditAccount
  <2>2. staged[w] = {}
    BY <1>1 DEF IInv, WorkerInv, PendingInv
  <2> QED
    BY <1>1, <1>2, <1>3, <1>4, <2>1, <2>2, RowsHaveKinds
    DEF WorkerInv, RequestInv, LockInv, OwnedInv, PendingInv, AnswerInv, Answered, Holds,
        ExecutePoints, CreditPoints, WithKey, WithQuote, PastChecks, WithAccounts,
        WithCreditAccount, BeforeCreditCommit
<1>8. \A v \in Workers \ {w} : Undisturbed(v)
  BY <1>1, <1>2, <1>3, <1>4 DEF Undisturbed, books
<1> QED
  BY <1>5, <1>6, <1>7, <1>8, StepOf

-----------------------------------------------------------------------------
(* The steps of a credit *)

LEMMA BeginCreditStep ==
    ASSUME IInv, NEW w \in Workers, NEW x \in Adjustments, NEW a \in Accounts,
           NEW m \in CreditAmounts, BeginCredit(w, x, a, m)
    PROVE  IInv'
<1> DEFINE r == [adjustment |-> x, account |-> a, amount |-> m]
<1>1. /\ pc[w] = "idle" /\ ~InUse(x)
      /\ req' = [req EXCEPT ![w] = r]
      /\ UNCHANGED <<books, lock, now, held, staged>>
  BY DEF BeginCredit
<1>2. /\ req'[w] = r /\ r \in CreditRequest /\ r \notin ExecuteRequest
      /\ \A v \in Workers \ {w} : req'[v] = req[v]
      /\ req' \in [Workers -> ExecuteRequest \cup CreditRequest \cup {None}]
  <2>1. r \in CreditRequest
    BY DEF CreditRequest
  <2> QED
    BY <1>1, <2>1, RequestsDiffer DEF IInv, TypeOK
<1>3. \A l \in Rows : lock[l] # w
  BY <1>1
  DEF IInv, WorkerInv, OwnedInv, Lockable, WithKey, WithQuote, PastChecks, WithCreditAccount
<1>4. staged[w] = {}
  BY <1>1 DEF IInv, WorkerInv, PendingInv
<1>5. /\ \A v \in Workers \ {w} : pc'[v] = pc[v] /\ reply'[v] = reply[v]
      /\ pc' \in [Workers -> {"idle"} \cup ExecutePoints \cup CreditPoints]
      /\ reply' \in [Workers -> Reply \cup {None}]
      /\ \/ a[1] \in customers /\ pc'[w] = "lock_credit" /\ reply'[w] = None
         \/ pc'[w] = "idle" /\ reply'[w] = [code |-> "customer_not_found", body |-> None]
  <2>1. CASE a[1] \in customers
    <3>1. Goto(w, "lock_credit") /\ reply' = [reply EXCEPT ![w] = None]
      BY <2>1 DEF BeginCredit
    <3>2. /\ pc'[w] = "lock_credit" /\ \A v \in Workers \ {w} : pc'[v] = pc[v]
          /\ pc' \in [Workers -> {"idle"} \cup ExecutePoints \cup CreditPoints]
      BY <3>1, GotoMoves DEF CreditPoints
    <3> QED
      BY <2>1, <3>1, <3>2 DEF IInv, TypeOK
  <2>2. CASE a[1] \notin customers
    <3>1. Answer(w, "customer_not_found", None)
      BY <2>2 DEF BeginCredit
    <3>2. [code |-> "customer_not_found", body |-> None] \in Reply
      BY DEF Reply, Rejections
    <3> QED
      BY <3>1, <3>2, AnswerMoves
  <2> QED
    BY <2>1, <2>2
<1>6. TypeOK'
  BY <1>1, <1>2, <1>5 DEF IInv, TypeOK, books
<1>7. BooksInv'
  <2>1. AdjustmentsInv'
    BY <1>1, <1>2, <1>5 DEF IInv, BooksInv, AdjustmentsInv, InUse
  <2> QED
    BY <1>1, <2>1
    DEF IInv, BooksInv, QuotesInv, LedgerMatchesRecords, OneKeyPerExecution, Completed, books
<1>8. WorkerInv(w)'
  <2>1. AnswerInv(w)'
    BY <1>2, <1>5 DEF AnswerInv, Answered
  <2>2. RequestInv(w)'
    BY <1>1, <1>2, <1>5 DEF RequestInv, ExecutePoints, CreditPoints, books
  <2>3. LockInv(w)'
    BY <1>1, <1>2, <1>5
    DEF LockInv, InUse, books, WithKey, WithQuote, PastChecks, WithAccounts,
        WithCreditAccount, BeforeCreditCommit
  <2>4. OwnedInv(w)' /\ PendingInv(w)'
    BY <1>1, <1>3, <1>4, <1>5, RowsHaveKinds DEF OwnedInv, PendingInv, Holds
  <2> QED
    BY <2>1, <2>2, <2>3, <2>4 DEF WorkerInv
<1>9. \A v \in Workers \ {w} : Undisturbed(v)
  BY <1>1, <1>2, <1>5 DEF Undisturbed, books
<1> QED
  BY <1>6, <1>7, <1>8, <1>9, StepOf

(* A credit locks the one balance it moves. *)
LEMMA LockCreditAccountStep ==
    ASSUME IInv, NEW w \in Workers, LockCreditAccount(w) PROVE IInv'
<1> DEFINE a == req[w].account
           row == <<"balance", a>>
<1>1. /\ pc[w] = "lock_credit" /\ Take(w, row) /\ Goto(w, "post_credit")
      /\ held' = [held EXCEPT ![w][a] = balance[a]]
      /\ UNCHANGED <<books, now, req, staged, reply>>
  BY DEF LockCreditAccount, ReadForUpdate
<1>2. req[w] \in CreditRequest /\ a \in Accounts /\ row \in Rows
  BY <1>1, RowsHaveKinds DEF IInv, WorkerInv, RequestInv, CreditPoints, CreditRequest
<1>3. /\ pc'[w] = "post_credit" /\ \A v \in Workers \ {w} : pc'[v] = pc[v]
      /\ pc' \in [Workers -> {"idle"} \cup ExecutePoints \cup CreditPoints]
  BY <1>1, GotoMoves DEF CreditPoints
<1>4. /\ held' \in [Workers -> [Accounts -> Int]]
      /\ held'[w][a] = balance[a]
      /\ \A v \in Workers \ {w} : held'[v] = held[v]
  <2>1. held \in [Workers -> [Accounts -> Int]] /\ balance[a] \in Int
    BY <1>2, BoundsAssumption DEF IInv, TypeOK, Money
  <2> QED
    BY <1>1, <1>2, <2>1
<1>5. TypeOK'
  BY <1>1, <1>2, <1>3, <1>4, Taken DEF IInv, TypeOK, books
<1>6. BooksInv'
  BY <1>1, <1>3, BooksInvKept DEF CreditPoints
<1>7. WorkerInv(w)'
  <2>1. AnswerInv(w)'
    BY <1>1, AnswerInvKept DEF books
  <2>2. RequestInv(w)'
    BY <1>1, <1>3 DEF IInv, WorkerInv, RequestInv, ExecutePoints, CreditPoints, books
  <2>3. LockInv(w)'
    <3>1. lock'[row] = w /\ req'[w] = req[w]
      BY <1>1, <1>2, Taken
    <3>2. adjustments'[req'[w].adjustment] = None
      BY <1>1 DEF IInv, WorkerInv, LockInv, BeforeCreditCommit, books
    <3> QED
      BY <1>3, <3>1, <3>2
      DEF LockInv, Holds, WithKey, WithQuote, PastChecks, WithAccounts, WithCreditAccount,
          BeforeCreditCommit
  <2>4. \A r \in Rows : lock[r] # w
    BY <1>1
    DEF IInv, WorkerInv, OwnedInv, Lockable, WithKey, WithQuote, PastChecks, WithCreditAccount
  <2>5. OwnedInv(w)'
    BY <1>1, <1>2, <1>3, <2>4, Taken DEF OwnedInv, Lockable, WithCreditAccount
  <2>6. \A b \in Accounts : Holds(w, b)' => b = a
    BY <1>1, <1>2, <2>4, Taken, RowsHaveKinds DEF Holds
  <2>7. PendingInv(w)'
    BY <1>1, <1>3, <1>4, <2>6 DEF IInv, WorkerInv, PendingInv, books
  <2> QED
    BY <2>1, <2>2, <2>3, <2>5, <2>7 DEF WorkerInv
<1>8. \A v \in Workers \ {w} : Undisturbed(v)
  BY <1>1, <1>2, <1>3, <1>4, Taken DEF Undisturbed, books
<1> QED
  BY <1>5, <1>6, <1>7, <1>8, StepOf

(* A credit stages one entry and adds its amount in memory. *)
LEMMA PostCreditStep == ASSUME IInv, NEW w \in Workers, PostCredit(w) PROVE IInv'
<1> DEFINE a == req[w].account
           m == req[w].amount
           entry == AdjustmentEntry(req[w].adjustment, [account |-> a, amount |-> m])
<1>1. pc[w] = "post_credit"
  BY DEF PostCredit
<1>2. /\ req[w] \in CreditRequest /\ a \in Accounts /\ m \in Money /\ m \in Nat
      /\ req[w].adjustment \in Adjustments /\ [account |-> a, amount |-> m] \in AdjustmentRow
      /\ entry \in Entry
  <2>1. req[w] \in CreditRequest
    BY <1>1 DEF IInv, WorkerInv, RequestInv, CreditPoints
  <2>2. a \in Accounts /\ m \in Money /\ req[w].adjustment \in Adjustments
    BY <2>1, OffersAssumption DEF CreditRequest
  <2>3. m \in Nat
    BY <2>2, BoundsAssumption DEF Money
  <2>4. [account |-> a, amount |-> m] \in AdjustmentRow
    BY <2>2 DEF AdjustmentRow
  <2> QED
    BY <2>1, <2>2, <2>3, <2>4, EntriesTyped
<1>3. held[w][a] = balance[a] /\ staged[w] = {} /\ balance[a] \in Int
  <2>1. Holds(w, a)
    BY <1>1 DEF IInv, WorkerInv, LockInv, WithCreditAccount
  <2>2. balance[a] \in Int
    BY <1>2, BoundsAssumption DEF IInv, TypeOK, Money
  <2> QED
    BY <1>1, <1>2, <2>1, <2>2 DEF IInv, WorkerInv, PendingInv
<1>4. CASE m = 0
  BY <1>4, FailStep DEF PostCredit, Rejections, Failures
<1>5. CASE m # 0
  <2>1. /\ Append(w, entry) /\ Goto(w, "commit_credit")
        /\ held' = [held EXCEPT ![w][a] = held[w][a] + m]
        /\ UNCHANGED <<books, lock, now, req, reply>>
    BY <1>5 DEF PostCredit
  <2>2. /\ pc'[w] = "commit_credit" /\ \A v \in Workers \ {w} : pc'[v] = pc[v]
        /\ pc' \in [Workers -> {"idle"} \cup ExecutePoints \cup CreditPoints]
    BY <2>1, GotoMoves DEF CreditPoints
  <2>3. /\ staged' \in [Workers -> SUBSET Entry]
        /\ staged'[w] = {entry}
        /\ held' \in [Workers -> [Accounts -> Int]]
        /\ held'[w][a] = balance[a] + m
        /\ \A v \in Workers \ {w} : held'[v] = held[v] /\ staged'[v] = staged[v]
    <3>1. /\ staged \in [Workers -> SUBSET Entry]
          /\ held \in [Workers -> [Accounts -> Int]]
      BY DEF IInv, TypeOK
    <3>2. /\ staged' \in [Workers -> SUBSET Entry]
          /\ staged'[w] = {entry}
          /\ \A v \in Workers \ {w} : staged'[v] = staged[v]
      BY <1>2, <1>3, <2>1, <3>1 DEF Append
    <3>3. held[w][a] + m \in Int
      BY <1>2, <1>3
    <3> QED
      BY <1>2, <1>3, <2>1, <3>1, <3>2, <3>3
  <2>4. TypeOK'
    BY <2>1, <2>2, <2>3 DEF IInv, TypeOK, books
  <2>5. BooksInv'
    BY <1>1, <2>1, <2>2, BooksInvKept DEF CreditPoints
  <2>6. WorkerInv(w)'
    <3>1. AnswerInv(w)'
      BY <2>1, AnswerInvKept DEF books
    <3>2. RequestInv(w)'
      BY <1>1, <2>1, <2>2 DEF IInv, WorkerInv, RequestInv, ExecutePoints, CreditPoints, books
    <3>3. LockInv(w)'
      BY <1>1, <2>1, <2>2
      DEF IInv, WorkerInv, LockInv, Holds, books, WithKey, WithQuote, PastChecks, WithAccounts,
          WithCreditAccount, BeforeCreditCommit
    <3>4. OwnedInv(w)'
      BY <1>1, <2>1, <2>2
      DEF IInv, WorkerInv, OwnedInv, Lockable, WithKey, WithQuote, PastChecks,
          WithCreditAccount
    <3>5. PendingInv(w)'
      BY <1>2, <1>5, <2>1, <2>2, <2>3 DEF PendingInv, books
    <3> QED
      BY <3>1, <3>2, <3>3, <3>4, <3>5 DEF WorkerInv
  <2>7. \A v \in Workers \ {w} : Undisturbed(v)
    BY <2>1, <2>2, <2>3 DEF Undisturbed, books
  <2> QED
    BY <2>4, <2>5, <2>6, <2>7, StepOf
<1> QED
  BY <1>4, <1>5

(* What a transaction about to commit a credit has in hand. *)
LEMMA AtCommitCredit ==
    ASSUME IInv, NEW w \in Workers, pc[w] = "commit_credit"
    PROVE  LET a == req[w].account
               m == req[w].amount
               x == req[w].adjustment
           IN /\ a \in Accounts /\ x \in Adjustments /\ m \in Nat /\ m > 0
              /\ a[1] \in customers /\ adjustments[x] = None
              /\ [account |-> a, amount |-> m] \in AdjustmentRow
              /\ Holds(w, a)
              /\ staged[w] = {AdjustmentEntry(x, [account |-> a, amount |-> m])}
              /\ held[w][a] = balance[a] + m
              /\ Flushed(w) = [balance EXCEPT ![a] = @ + m]
<1> DEFINE a == req[w].account
           m == req[w].amount
           x == req[w].adjustment
<1>1. /\ a \in Accounts /\ x \in Adjustments /\ m \in Money /\ a[1] \in customers
      /\ m \in Nat /\ [account |-> a, amount |-> m] \in AdjustmentRow
  <2>1. req[w] \in CreditRequest /\ a[1] \in customers
    BY DEF IInv, WorkerInv, RequestInv, CreditPoints
  <2>2. a \in Accounts /\ x \in Adjustments /\ m \in Money
    BY <2>1, OffersAssumption DEF CreditRequest
  <2> QED
    BY <2>1, <2>2, BoundsAssumption DEF AdjustmentRow, Money
<1>2. adjustments[x] = None /\ Holds(w, a)
  BY DEF IInv, WorkerInv, LockInv, BeforeCreditCommit, WithCreditAccount
<1>3. /\ staged[w] = {AdjustmentEntry(x, [account |-> a, amount |-> m])}
      /\ held[w][a] = balance[a] + m /\ m > 0
  BY DEF IInv, WorkerInv, PendingInv
<1>4. \A b \in Accounts : Holds(w, b) => b = a
  BY RowsHaveKinds
  DEF IInv, WorkerInv, OwnedInv, Lockable, Holds, WithKey, WithQuote, PastChecks
<1>5. balance \in [Accounts -> Money]
  BY DEF IInv, TypeOK
<1>6. Flushed(w) = [balance EXCEPT ![a] = @ + m]
  BY <1>1, <1>2, <1>3, <1>4, <1>5 DEF Flushed
<1> QED
  BY <1>1, <1>2, <1>3, <1>6

(* The books after the commit of a credit. *)
LEMMA CreditedBooks ==
    ASSUME IInv, NEW x \in Adjustments, NEW row \in AdjustmentRow, adjustments[x] = None,
           ledger' = ledger \cup {AdjustmentEntry(x, row)},
           adjustments' = [adjustments EXCEPT ![x] = row],
           UNCHANGED <<customers, quotes, executions, responses, req>>,
           \A v \in Workers : pc'[v] \in CreditPoints => pc[v] \in CreditPoints
    PROVE  BooksInv'
<1>1. BooksInv /\ adjustments \in [Adjustments -> AdjustmentRow \cup {None}] /\ row # None
  BY NoneAssumption DEF IInv, TypeOK
<1>2. /\ QuotesInv' /\ AdjustmentsInv' /\ OneKeyPerExecution'
      /\ \A p \in executions' : quotes'[p] # None
  BY <1>1 DEF BooksInv, QuotesInv, AdjustmentsInv, OneKeyPerExecution, Completed
<1>3. {AdjustmentEntry(y, adjustments'[y]) : y \in {z \in Adjustments : adjustments'[z] # None}}
        = {AdjustmentEntry(y, adjustments[y]) : y \in {z \in Adjustments : adjustments[z] # None}}
          \cup {AdjustmentEntry(x, row)}
  <2>1. /\ adjustments'[x] = row
        /\ \A y \in Adjustments \ {x} : adjustments'[y] = adjustments[y]
    BY <1>1
  <2> QED
    BY <1>1, <2>1
<1>4. LedgerMatchesRecords'
  BY <1>1, <1>3 DEF BooksInv, LedgerMatchesRecords
<1> QED
  BY <1>2, <1>4 DEF BooksInv

(* The commit of a credit publishes balance, entry and adjustment together. *)
LEMMA CommitCreditStep == ASSUME IInv, NEW w \in Workers, CommitCredit(w) PROVE IInv'
<1> DEFINE a == req[w].account
           m == req[w].amount
           x == req[w].adjustment
           row == [account |-> a, amount |-> m]
<1>1. pc[w] = "commit_credit"
  BY DEF CommitCredit
<1>2. /\ a \in Accounts /\ x \in Adjustments /\ m \in Nat /\ m > 0
      /\ adjustments[x] = None /\ row \in AdjustmentRow /\ Holds(w, a)
      /\ staged[w] = {AdjustmentEntry(x, row)}
      /\ held[w][a] = balance[a] + m
      /\ Flushed(w) = [balance EXCEPT ![a] = @ + m]
  BY <1>1, AtCommitCredit
<1>3. balance \in [Accounts -> Money] /\ adjustments \in [Adjustments -> AdjustmentRow \cup {None}]
  BY DEF IInv, TypeOK
<1>4. CASE held[w][a] > MaxMoney
  BY <1>4, FailStep DEF CommitCredit, Rejections, Failures
<1>5. CASE ~(held[w][a] > MaxMoney)
  <2>1. /\ balance' = Flushed(w) /\ ledger' = ledger \cup staged[w]
        /\ adjustments' = [adjustments EXCEPT ![x] = row]
        /\ EndTransaction(w) /\ Goto(w, "respond_credit")
        /\ UNCHANGED <<customers, quotes, executions, responses, now, req, reply>>
    BY <1>5 DEF CommitCredit
  <2>2. /\ pc'[w] = "respond_credit" /\ \A v \in Workers \ {w} : pc'[v] = pc[v]
        /\ pc' \in [Workers -> {"idle"} \cup ExecutePoints \cup CreditPoints]
    BY <2>1, GotoMoves DEF CreditPoints
  <2>3. TypeOK'
    <3>1. balance[a] + m \in Money
      BY <1>2, <1>3, <1>5, BoundsAssumption DEF Money
    <3>2. balance' \in [Accounts -> Money]
      BY <1>2, <1>3, <2>1, <3>1
    <3>3. ledger' \subseteq Entry
      BY <1>2, <2>1, EntriesTyped DEF IInv, TypeOK
    <3>4. adjustments' \in [Adjustments -> AdjustmentRow \cup {None}]
      BY <1>2, <1>3, <2>1
    <3> QED
      BY <2>1, <2>2, <3>2, <3>3, <3>4, Released DEF IInv, TypeOK
  <2>4. BooksInv'
    <3>1. \A v \in Workers : pc'[v] \in CreditPoints => pc[v] \in CreditPoints
      BY <1>1, <2>2 DEF CreditPoints
    <3>2. ledger' = ledger \cup {AdjustmentEntry(x, row)}
      BY <1>2, <2>1
    <3> HIDE DEF row, x
    <3> QED
      BY <1>2, <2>1, <3>1, <3>2, CreditedBooks
  <2>5. WorkerInv(w)'
    <3>1. AnswerInv(w)'
      BY <2>1, AnswerInvKept
    <3>2. RequestInv(w)'
      BY <1>1, <2>1, <2>2 DEF IInv, WorkerInv, RequestInv, ExecutePoints, CreditPoints
    <3>3. LockInv(w)'
      BY <2>2
      DEF LockInv, WithKey, WithQuote, PastChecks, WithAccounts, WithCreditAccount,
          BeforeCreditCommit
    <3>4. OwnedInv(w)' /\ PendingInv(w)'
      BY <2>1, <2>2, Released, RowsHaveKinds DEF OwnedInv, PendingInv, Holds
    <3> QED
      BY <3>1, <3>2, <3>3, <3>4 DEF WorkerInv
  <2>6. ASSUME NEW v \in Workers \ {w} PROVE Undisturbed(v)
    <3>1. \A b \in Accounts : Holds(v, b) => balance'[b] = balance[b]
      BY <1>2, <1>3, <2>1 DEF Holds
    <3>2. pc[v] \in BeforeCreditCommit => req[v].adjustment # x
      BY <1>1 DEF IInv, BooksInv, AdjustmentsInv, BeforeCreditCommit, CreditPoints
    <3>3. pc[v] \in BeforeCreditCommit => req[v].adjustment \in Adjustments
      BY DEF IInv, WorkerInv, RequestInv, BeforeCreditCommit, CreditPoints, CreditRequest
    <3>4. pc[v] \in BeforeCreditCommit =>
            adjustments'[req[v].adjustment] = adjustments[req[v].adjustment]
      BY <1>3, <2>1, <3>2, <3>3
    <3> QED
      BY <2>1, <2>2, <3>1, <3>4, Released DEF Undisturbed
  <2> QED
    BY <2>3, <2>4, <2>5, <2>6, StepOf
<1> QED
  BY <1>4, <1>5

-----------------------------------------------------------------------------
(* Failures and the environment *)

LEMMA FaultStep == ASSUME IInv, NEW w \in Workers, Fault(w) PROVE IInv'
  BY FailStep DEF Fault, Rejections, Failures

(* A dead worker leaves its locks and nothing else. *)
LEMMA CrashStep == ASSUME IInv, NEW w \in Workers, Crash(w) PROVE IInv'
<1>1. EndTransaction(w) /\ Goto(w, "idle") /\ UNCHANGED <<books, now, req, reply>>
  BY DEF Crash
<1>2. /\ pc'[w] = "idle" /\ \A v \in Workers \ {w} : pc'[v] = pc[v]
      /\ pc' \in [Workers -> {"idle"} \cup ExecutePoints \cup CreditPoints]
  BY <1>1, GotoMoves
<1>3. TypeOK'
  BY <1>1, <1>2, Released DEF IInv, TypeOK, books
<1>4. BooksInv'
  BY <1>1, <1>2, BooksInvKept DEF CreditPoints
<1>5. WorkerInv(w)'
  <2>1. AnswerInv(w)'
    BY <1>1, AnswerInvKept DEF books
  <2>2. RequestInv(w)' /\ LockInv(w)' /\ OwnedInv(w)' /\ PendingInv(w)'
    BY <1>1, <1>2, Released, RowsHaveKinds
    DEF RequestInv, LockInv, OwnedInv, PendingInv, Holds, ExecutePoints, CreditPoints,
        WithKey, WithQuote, PastChecks, WithAccounts, WithCreditAccount, BeforeCreditCommit
  <2> QED
    BY <2>1, <2>2 DEF WorkerInv
<1>6. \A v \in Workers \ {w} : Undisturbed(v)
  BY <1>1, <1>2, Released DEF Undisturbed, books
<1> QED
  BY <1>3, <1>4, <1>5, <1>6, StepOf

(* New customers, new quotes and the clock disturb no request. *)
LEMMA EnvironmentStep == ASSUME IInv, Environment PROVE IInv'
<1>1. ASSUME NEW c \in Customers, CreateCustomer(c) PROVE IInv'
  <2>1. TypeOK'
    BY <1>1 DEF CreateCustomer, workers, IInv, TypeOK
  <2>2. BooksInv'
    BY <1>1 DEF CreateCustomer, workers, IInv, BooksInv, QuotesInv, AdjustmentsInv,
                LedgerMatchesRecords, OneKeyPerExecution, Completed
  <2>3. \A v \in Workers : Undisturbed(v)
    BY <1>1 DEF CreateCustomer, workers, Undisturbed
  <2> QED
    BY <2>1, <2>2, <2>3, UndisturbedInv DEF IInv
<1>2. ASSUME NEW q \in Quotes, NEW c \in Customers, NEW o \in Offers, CreateQuote(q, c, o)
      PROVE  IInv'
  <2> DEFINE t == [source |-> <<c, o.source>>, destination |-> <<c, o.destination>>,
                   debit |-> o.debit, credit |-> o.credit, expires |-> now + TTL]
  <2>1. /\ quotes[q] = None /\ o.source # o.destination /\ c \in customers
        /\ now + TTL \in Instants
        /\ quotes' = [quotes EXCEPT ![q] = t]
        /\ UNCHANGED <<customers, balance, ledger, adjustments, executions, responses, now>>
        /\ UNCHANGED <<lock, pc, req, held, staged, reply>>
    BY <1>2 DEF CreateQuote, workers
  <2>2. t \in Terms
    BY <2>1, OffersAssumption DEF Terms, Offer, Accounts
  <2>3. quotes \in [Quotes -> Terms \cup {None}]
    BY DEF IInv, TypeOK
  <2>4. quotes'[q] = t /\ \A p \in Quotes \ {q} : quotes'[p] = quotes[p]
    BY <2>1, <2>3
  <2>5. TypeOK'
    BY <2>1, <2>2, <2>3 DEF IInv, TypeOK
  <2>6. BooksInv'
    <3>1. /\ t.source # t.destination /\ t.source[1] = t.destination[1]
          /\ t.source[1] \in customers
      BY <2>1
    <3>2. QuotesInv'
      BY <2>1, <2>4, <3>1 DEF IInv, BooksInv, QuotesInv
    <3>3. \A p \in executions : p \in Quotes /\ quotes'[p] = quotes[p]
      BY <2>1, <2>4 DEF IInv, BooksInv, TypeOK
    <3>4. LedgerMatchesRecords'
      <4>1. {DebitEntry(p, quotes'[p]) : p \in executions}
              = {DebitEntry(p, quotes[p]) : p \in executions}
        BY <3>3
      <4>2. {CreditEntry(p, quotes'[p]) : p \in executions}
              = {CreditEntry(p, quotes[p]) : p \in executions}
        BY <3>3
      <4> QED
        BY <2>1, <4>1, <4>2 DEF IInv, BooksInv, LedgerMatchesRecords
    <3> QED
      BY <2>1, <3>2, <3>3, <3>4
      DEF IInv, BooksInv, AdjustmentsInv, OneKeyPerExecution, Completed
  <2>7. \A v \in Workers : Undisturbed(v)
    BY <2>1, <2>4 DEF Undisturbed
  <2> QED
    BY <2>5, <2>6, <2>7, UndisturbedInv DEF IInv
<1>3. ASSUME Tick PROVE IInv'
  <2>1. TypeOK'
    BY <1>3 DEF Tick, books, workers, IInv, TypeOK
  <2>2. BooksInv'
    BY <1>3, BooksInvKept DEF Tick, workers
  <2>3. \A v \in Workers : Undisturbed(v)
    BY <1>3 DEF Tick, books, workers, Undisturbed
  <2> QED
    BY <2>1, <2>2, <2>3, UndisturbedInv DEF IInv
<1> QED
  BY <1>1, <1>2, <1>3 DEF Environment

-----------------------------------------------------------------------------
(* A step that changes nothing. *)
LEMMA StutterStep == ASSUME IInv, UNCHANGED vars PROVE IInv'
<1>1. TypeOK'
  BY DEF IInv, TypeOK, vars, books
<1>2. BooksInv'
  BY BooksInvKept DEF vars
<1>3. \A v \in Workers : Undisturbed(v)
  BY DEF vars, books, Undisturbed
<1> QED
  BY <1>1, <1>2, <1>3, UndisturbedInv DEF IInv

(* Every step of the system preserves the inductive invariant. *)
LEMMA NextIInv == ASSUME IInv, [Next]_vars PROVE IInv'
<1>1. CASE Environment
  BY <1>1, EnvironmentStep
<1>2. ASSUME NEW w \in Workers, LockStep(w) PROVE IInv'
  BY <1>2, ClaimKeyStep, LockQuoteStep, LockAccountStep, LockCreditAccountStep DEF LockStep
<1>3. ASSUME NEW w \in Workers, LocalStep(w) PROVE IInv'
  BY <1>3, CheckKeyStep, CheckQuoteStep, DebitStep, CreditDestinationStep, CommitStep,
     RespondStep, PostCreditStep, CommitCreditStep, RespondCreditStep
  DEF LocalStep
<1>4. ASSUME NEW w \in Workers, Arrival(w) PROVE IInv'
  BY <1>4, SubmitStep, BeginCreditStep DEF Arrival
<1>5. ASSUME NEW w \in Workers, Fault(w) \/ Crash(w) PROVE IInv'
  BY <1>5, FaultStep, CrashStep
<1>6. CASE UNCHANGED vars
  BY <1>6, StutterStep
<1> QED
  BY <1>1, <1>2, <1>3, <1>4, <1>5, <1>6 DEF Next

(* IInv holds in every reachable state. *)
THEOREM Invariance == Spec => []IInv
<1>1. Init => IInv
  BY InitIInv
<1>2. IInv /\ [Next]_vars => IInv'
  BY NextIInv
<1> QED
  BY <1>1, <1>2, PTL DEF Spec
=============================================================================
