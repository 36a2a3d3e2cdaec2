------------------------------ MODULE FxExecution ------------------------------
(***************************************************************************)
(* The money path of the FX engine: POST /executions (execute_quote) and   *)
(* POST .../balance-credits (credit_balance), run by several workers       *)
(* against one PostgreSQL database at READ COMMITTED, together with the    *)
(* customers and quotes they need and the clock that expires quotes.       *)
(*                                                                         *)
(* A worker is one threadpool thread of one server process serving one     *)
(* request in one database transaction.  What its transaction has written  *)
(* but not committed (`staged', `held') is invisible to the others; what   *)
(* it has locked (`lock') makes them wait.  One action is one database     *)
(* statement that can wait, or the code between two of them.               *)
(***************************************************************************)
EXTENDS FxTables, Integers, FiniteSetsExt

CONSTANTS
    Workers,        \* request threads, each with its own session
    Rank,           \* position of a currency code in alphabetical order
    TTL,            \* QUOTE_TTL_SECONDS, in clock steps
    EmptyKey        \* an Idempotency-Key header that is the empty string

ASSUME WorkersAssumption == None \notin Workers
ASSUME RankAssumption ==
    /\ Rank \in [Currencies -> Nat]
    /\ \A c, d \in Currencies : Rank[c] = Rank[d] => c = d
    /\ \E last \in Currencies : \A c \in Currencies : Rank[c] <= Rank[last]
ASSUME TTLAssumption == TTL \in Nat \ {0}
ASSUME EmptyKeyAssumption == EmptyKey \notin Keys

VARIABLES
    \* committed rows
    customers, quotes, balance, ledger, adjustments, executions, responses,
    \* row locks, and the uncommitted idempotency_keys row of a transaction
    lock,
    \* the clock
    now,
    \* the workers
    pc,       \* where the request is
    req,      \* the request being served, or the last one served
    held,     \* Balance objects loaded under their row lock: the value in memory
    staged,   \* ledger_entries flushed and not committed
    reply     \* the answer to the last request; None if it was never sent

books == <<customers, quotes, balance, ledger, adjustments, executions, responses>>
vars == <<books, lock, now, pc, req, held, staged, reply>>

(* A row that a transaction can lock. Inserting an idempotency_keys row makes *)
(* every other insert of that key wait for the inserting transaction to end.  *)
Rows == ({"key"} \X Keys) \cup ({"quote"} \X Quotes) \cup ({"balance"} \X Accounts)

ExecuteRequest == [quote : Quotes, key : Keys \cup {EmptyKey}]
CreditRequest == [adjustment : Adjustments, account : Accounts, amount : CreditAmounts]

ExecutePoints == {"check_key", "claim_key", "lock_quote", "check_quote",
                  "lock_accounts", "debit", "credit", "commit", "respond"}
CreditPoints == {"lock_credit", "post_credit", "commit_credit", "respond_credit"}

(* EXECUTION_REJECTION_CODES and the rejections before the claim. *)
Rejections == {"validation_error", "idempotency_conflict", "quote_not_found",
               "quote_already_executed", "quote_expired", "insufficient_funds",
               "customer_not_found"}
(* What a client sees as internal_error: the constraints of the schema, the  *)
(* ValueError of append_entry, a NUMERIC overflow, a database failure.       *)
Failures == {"constraint_violation", "ledger_value_error", "numeric_overflow",
             "system_fault"}

Reply == [code : {"ok", "replayed"} \cup Rejections \cup Failures,
          body : Response \cup AdjustmentRow \cup {None}]

TypeOK ==
    /\ customers \subseteq Customers
    /\ quotes \in [Quotes -> Terms \cup {None}]
    /\ balance \in [Accounts -> Money]
    /\ ledger \subseteq Entry
    /\ adjustments \in [Adjustments -> AdjustmentRow \cup {None}]
    /\ executions \subseteq Quotes
    /\ responses \in [Keys -> Response \cup {None}]
    /\ lock \in [Rows -> Workers \cup {None}]
    /\ now \in Instants
    /\ pc \in [Workers -> {"idle"} \cup ExecutePoints \cup CreditPoints]
    /\ req \in [Workers -> ExecuteRequest \cup CreditRequest \cup {None}]
    /\ held \in [Workers -> [Accounts -> Int]]
    /\ staged \in [Workers -> SUBSET Entry]
    /\ reply \in [Workers -> Reply \cup {None}]

Init ==
    /\ customers = {}
    /\ quotes = [q \in Quotes |-> None]
    /\ balance = [a \in Accounts |-> 0]
    /\ ledger = {}
    /\ adjustments = [x \in Adjustments |-> None]
    /\ executions = {}
    /\ responses = [k \in Keys |-> None]
    /\ lock = [r \in Rows |-> None]
    /\ now = 0
    /\ pc = [w \in Workers |-> "idle"]
    /\ req = [w \in Workers |-> None]
    /\ held = [w \in Workers |-> [a \in Accounts |-> 0]]
    /\ staged = [w \in Workers |-> {}]
    /\ reply = [w \in Workers |-> None]

-----------------------------------------------------------------------------
(* Customers, quotes and time. Each of the two handlers below is one          *)
(* transaction that waits for nobody and that nobody reads half of.           *)

workers == <<lock, pc, req, held, staged, reply>>

(* create_customer inserts the customer and, in the same transaction, its    *)
(* four balance rows: every account of a customer has a row from then on,    *)
(* so the INSERT ... ON CONFLICT DO NOTHING of ensure_balance never inserts. *)
CreateCustomer(c) ==
    /\ c \notin customers
    /\ customers' = customers \cup {c}
    /\ UNCHANGED <<quotes, balance, ledger, adjustments, executions, responses,
                   now, workers>>

(* create_quote, after pricing: Offers stands for what the rates of the      *)
(* moment make of the request.                                               *)
CreateQuote(q, c, o) ==
    /\ quotes[q] = None
    /\ o.source # o.destination
    /\ c \in customers
    /\ now + TTL \in Instants
    /\ quotes' = [quotes EXCEPT ![q] =
         [source |-> <<c, o.source>>, destination |-> <<c, o.destination>>,
          debit |-> o.debit, credit |-> o.credit, expires |-> now + TTL]]
    /\ UNCHANGED <<customers, balance, ledger, adjustments, executions, responses,
                   now, workers>>

Tick ==
    /\ now + 1 \in Instants
    /\ now' = now + 1
    /\ UNCHANGED <<books, workers>>

-----------------------------------------------------------------------------
(* Transactions *)

Goto(w, point) == pc' = [pc EXCEPT ![w] = point]

(* Mutant: the session goes back to the pool without ending the transaction. *)
EndTransactionKeepingLocks(w) ==
    /\ held' = [held EXCEPT ![w] = [a \in Accounts |-> 0]]
    /\ staged' = [staged EXCEPT ![w] = {}]
    /\ UNCHANGED lock

(* COMMIT and ROLLBACK both release every lock of the transaction, and       *)
(* expire or drop what the session had in memory.                            *)
EndTransaction(w) ==
    /\ lock' = [r \in Rows |-> IF lock[r] = w THEN None ELSE lock[r]]
    /\ held' = [held EXCEPT ![w] = [a \in Accounts |-> 0]]
    /\ staged' = [staged EXCEPT ![w] = {}]

Answer(w, code, body) ==
    /\ reply' = [reply EXCEPT ![w] = [code |-> code, body |-> body]]
    /\ Goto(w, "idle")

(* session.rollback() and the error that becomes the answer. *)
Fail(w, code) ==
    /\ EndTransaction(w)
    /\ Answer(w, code, None)
    /\ UNCHANGED <<books, now, req>>

Take(w, row) ==
    /\ lock[row] = None
    /\ lock' = [lock EXCEPT ![row] = w]

(* get_balance_for_update: the statement waits for the row lock and then     *)
(* reads the row as last committed. (The Balance object that ensure_balance  *)
(* loaded before the lock is already gone from the session's weak identity   *)
(* map, so its older value does not survive.)                                *)
ReadForUpdate(w, a) ==
    /\ Take(w, <<"balance", a>>)
    /\ held' = [held EXCEPT ![w][a] = balance[a]]

(* append_entry *)
Append(w, entry) == staged' = [staged EXCEPT ![w] = @ \cup {entry}]

Holds(w, a) == lock[<<"balance", a>>] = w

(* The UPDATE of balances that the flush of a commit sends. *)
Flushed(w) == [a \in Accounts |-> IF Holds(w, a) THEN held[w][a] ELSE balance[a]]

-----------------------------------------------------------------------------
(* execute_quote *)

TermsOf(w) == quotes[req[w].quote]

Submit(w, q, k) ==
    /\ pc[w] = "idle"
    /\ req' = [req EXCEPT ![w] = [quote |-> q, key |-> k]]
    /\ reply' = [reply EXCEPT ![w] = None]
    /\ Goto(w, "check_key")
    /\ UNCHANGED <<books, lock, now, held, staged>>

(* Mutant: any completed row of the key is replayed, whatever its hash. *)
CheckKeyIgnoringHash(w) ==
    /\ pc[w] = "check_key"
    /\ LET k == req[w].key IN
       IF k = EmptyKey THEN Fail(w, "validation_error")
       ELSE IF responses[k] = None
       THEN Goto(w, "claim_key") /\ UNCHANGED <<books, lock, now, req, held, staged, reply>>
       ELSE /\ EndTransaction(w)
            /\ Answer(w, "replayed", responses[k])
            /\ UNCHANGED <<books, now, req>>

(* The lookup of the key, before anything is locked. Committed key rows are  *)
(* complete: they are inserted and completed in one transaction.             *)
CheckKey(w) ==
    /\ pc[w] = "check_key"
    /\ LET k == req[w].key IN
       IF k = EmptyKey THEN Fail(w, "validation_error")
       ELSE IF responses[k] = None
       THEN Goto(w, "claim_key") /\ UNCHANGED <<books, lock, now, req, held, staged, reply>>
       ELSE IF responses[k].quote # req[w].quote THEN Fail(w, "idempotency_conflict")
       ELSE /\ EndTransaction(w)
            /\ Answer(w, "replayed", responses[k])
            /\ UNCHANGED <<books, now, req>>

(* Mutant: an upsert of the key in place of the insert. *)
ClaimKeyByUpsert(w) ==
    /\ pc[w] = "claim_key"
    /\ Take(w, <<"key", req[w].key>>)
    /\ Goto(w, "lock_quote")
    /\ UNCHANGED <<books, now, req, held, staged, reply>>

(* Mutant: a request that loses the race for its key looks the key up again. *)
ClaimKeyRetrying(w) ==
    /\ pc[w] = "claim_key"
    /\ LET k == req[w].key IN
        /\ lock[<<"key", k>>] = None
        /\ IF responses[k] # None
           THEN Goto(w, "check_key") /\ UNCHANGED lock
           ELSE Take(w, <<"key", k>>) /\ Goto(w, "lock_quote")
    /\ UNCHANGED <<books, now, req, held, staged, reply>>

(* The flush of the new key row: it waits for a transaction that inserted    *)
(* the same key, and is a unique violation if that one committed.            *)
ClaimKey(w) ==
    /\ pc[w] = "claim_key"
    /\ LET k == req[w].key IN
        /\ lock[<<"key", k>>] = None
        /\ IF responses[k] # None
           THEN Fail(w, "idempotency_conflict")
           ELSE /\ Take(w, <<"key", k>>)
                /\ Goto(w, "lock_quote")
                /\ UNCHANGED <<books, now, req, held, staged, reply>>

(* Mutant: the quote is read without FOR UPDATE. *)
LockQuotePlainRead(w) ==
    /\ pc[w] = "lock_quote"
    /\ IF TermsOf(w) = None
       THEN Fail(w, "quote_not_found")
       ELSE /\ Goto(w, "check_quote")
            /\ UNCHANGED <<books, lock, now, req, held, staged, reply>>

LockQuote(w) ==
    /\ pc[w] = "lock_quote"
    /\ IF TermsOf(w) = None
       THEN Fail(w, "quote_not_found")
       ELSE /\ Take(w, <<"quote", req[w].quote>>)
            /\ Goto(w, "check_quote")
            /\ UNCHANGED <<books, now, req, held, staged, reply>>

(* Mutant: a quote is still good at the instant it expires. *)
CheckQuoteInclusive(w) ==
    /\ pc[w] = "check_quote"
    /\ IF req[w].quote \in executions THEN Fail(w, "quote_already_executed")
       ELSE IF now > TermsOf(w).expires THEN Fail(w, "quote_expired")
       ELSE Goto(w, "lock_accounts") /\ UNCHANGED <<books, lock, now, req, held, staged, reply>>

CheckQuote(w) ==
    /\ pc[w] = "check_quote"
    /\ IF req[w].quote \in executions THEN Fail(w, "quote_already_executed")
       ELSE IF now >= TermsOf(w).expires THEN Fail(w, "quote_expired")
       ELSE Goto(w, "lock_accounts") /\ UNCHANGED <<books, lock, now, req, held, staged, reply>>

(* The two balance rows, in the alphabetical order of their currencies. *)
Unlocked(w) == {a \in {TermsOf(w).source, TermsOf(w).destination} : ~Holds(w, a)}

(* Mutant: the source is locked first, as in the text of the request. *)
NextAccountSourceFirst(w) ==
    IF Holds(w, TermsOf(w).source) THEN TermsOf(w).destination ELSE TermsOf(w).source

NextAccount(w) ==
    CHOOSE a \in Unlocked(w) : \A b \in Unlocked(w) : Rank[a[2]] <= Rank[b[2]]

(* Mutant: both Balance objects are loaded with the first lock and stay in   *)
(* the identity map, so that the second FOR UPDATE returns an older value.   *)
LockAccountKeepingObjects(w) ==
    /\ pc[w] = "lock_accounts"
    /\ Take(w, <<"balance", NextAccount(w)>>)
    /\ LET source == TermsOf(w).source
           destination == TermsOf(w).destination
       IN held' = IF Unlocked(w) = {source, destination}
                  THEN [held EXCEPT ![w][source] = balance[source],
                                    ![w][destination] = balance[destination]]
                  ELSE held
    /\ Goto(w, IF Unlocked(w) = {NextAccount(w)} THEN "debit" ELSE "lock_accounts")
    /\ UNCHANGED <<books, now, req, staged, reply>>

LockAccount(w) ==
    /\ pc[w] = "lock_accounts"
    /\ ReadForUpdate(w, NextAccount(w))
    /\ Goto(w, IF Unlocked(w) = {NextAccount(w)} THEN "debit" ELSE "lock_accounts")
    /\ UNCHANGED <<books, now, req, staged, reply>>

(* Mutant: append_entry commits what it has inserted. *)
DebitCommittingEntry(w) ==
    /\ pc[w] = "debit"
    /\ LET q == req[w].quote
           t == TermsOf(w)
       IN /\ held[w][t.source] >= t.debit
          /\ ledger' = ledger \cup {DebitEntry(q, t)}
          /\ Append(w, DebitEntry(q, t))
          /\ held' = [held EXCEPT ![w][t.source] = @ - t.debit]
    /\ Goto(w, "credit")
    /\ UNCHANGED <<customers, quotes, balance, adjustments, executions, responses,
                   lock, now, req, reply>>

(* From the funds check to the debit in memory, with the executions row and  *)
(* the debit entry flushed on the way.                                       *)
Debit(w) ==
    /\ pc[w] = "debit"
    /\ LET q == req[w].quote
           t == TermsOf(w)
       IN IF held[w][t.source] < t.debit THEN Fail(w, "insufficient_funds")
          ELSE IF q \in executions THEN Fail(w, "constraint_violation")
          ELSE IF t.debit = 0 THEN Fail(w, "ledger_value_error")
          ELSE /\ Append(w, DebitEntry(q, t))
               /\ held' = [held EXCEPT ![w][t.source] = @ - t.debit]
               /\ Goto(w, "credit")
               /\ UNCHANGED <<books, lock, now, req, reply>>

(* Mutant: the destination is debited too. *)
CreditDestinationWrongSign(w) ==
    /\ pc[w] = "credit"
    /\ LET t == TermsOf(w)
       IN /\ Append(w, CreditEntry(req[w].quote, t))
          /\ held' = [held EXCEPT ![w][t.destination] = @ - t.credit]
    /\ Goto(w, "commit")
    /\ UNCHANGED <<books, lock, now, req, reply>>

(* Mutant: append_entry takes the smallest amount for none. *)
CreditDestinationAboveOne(w) ==
    /\ pc[w] = "credit"
    /\ LET t == TermsOf(w)
       IN IF t.credit <= 1 THEN Fail(w, "ledger_value_error")
          ELSE /\ Append(w, CreditEntry(req[w].quote, t))
               /\ held' = [held EXCEPT ![w][t.destination] = @ + t.credit]
               /\ Goto(w, "commit")
               /\ UNCHANGED <<books, lock, now, req, reply>>

(* The credit entry, whose flush also sends the debited balance to the       *)
(* CHECK (balance >= 0), and the credit in memory.                           *)
CreditDestination(w) ==
    /\ pc[w] = "credit"
    /\ LET t == TermsOf(w)
       IN IF t.credit = 0 THEN Fail(w, "ledger_value_error")
          ELSE IF held[w][t.source] < 0 THEN Fail(w, "constraint_violation")
          ELSE /\ Append(w, CreditEntry(req[w].quote, t))
               /\ held' = [held EXCEPT ![w][t.destination] = @ + t.credit]
               /\ Goto(w, "commit")
               /\ UNCHANGED <<books, lock, now, req, reply>>

(* Mutant: the key is completed in a later transaction. *)
CommitBeforeKey(w) ==
    /\ pc[w] = "commit"
    /\ balance' = Flushed(w)
    /\ ledger' = ledger \cup staged[w]
    /\ executions' = executions \cup {req[w].quote}
    /\ EndTransaction(w)
    /\ Goto(w, "respond")
    /\ UNCHANGED <<customers, quotes, adjustments, responses, now, req, reply>>

(* The response is built from the balances in memory and stored with the key; *)
(* the commit flushes it with the destination balance.                       *)
Commit(w) ==
    /\ pc[w] = "commit"
    /\ LET q == req[w].quote
           t == TermsOf(w)
       IN IF held[w][t.destination] > MaxMoney THEN Fail(w, "numeric_overflow")
          ELSE /\ balance' = Flushed(w)
               /\ ledger' = ledger \cup staged[w]
               /\ executions' = executions \cup {q}
               /\ responses' = [responses EXCEPT ![req[w].key] =
                    [quote |-> q, source |-> held[w][t.source],
                     destination |-> held[w][t.destination]]]
               /\ EndTransaction(w)
               /\ Goto(w, "respond")
               /\ UNCHANGED <<customers, quotes, adjustments, now, req, reply>>

(* The success log reads the expired quote again, in a new transaction, and  *)
(* then the payload is returned.                                             *)
Respond(w) ==
    /\ pc[w] = "respond"
    /\ Answer(w, "ok", responses[req[w].key])
    /\ UNCHANGED <<books, lock, now, req, held, staged>>

-----------------------------------------------------------------------------
(* credit_balance *)

(* The id of the adjustment row is drawn when it is inserted; drawing it here *)
(* bounds the credits by Adjustments.                                        *)
InUse(x) ==
    \/ adjustments[x] # None
    \/ \E w \in Workers : pc[w] \in CreditPoints /\ req[w].adjustment = x

BeginCredit(w, x, a, m) ==
    /\ pc[w] = "idle"
    /\ ~InUse(x)
    /\ req' = [req EXCEPT ![w] = [adjustment |-> x, account |-> a, amount |-> m]]
    /\ IF a[1] \in customers
       THEN reply' = [reply EXCEPT ![w] = None] /\ Goto(w, "lock_credit")
       ELSE Answer(w, "customer_not_found", None)
    /\ UNCHANGED <<books, lock, now, held, staged>>

LockCreditAccount(w) ==
    /\ pc[w] = "lock_credit"
    /\ ReadForUpdate(w, req[w].account)
    /\ Goto(w, "post_credit")
    /\ UNCHANGED <<books, now, req, staged, reply>>

(* Mutant: the balance is credited without a ledger entry. *)
PostCreditWithoutEntry(w) ==
    /\ pc[w] = "post_credit"
    /\ held' = [held EXCEPT ![w][req[w].account] = @ + req[w].amount]
    /\ Goto(w, "commit_credit")
    /\ UNCHANGED <<books, lock, now, req, staged, reply>>

PostCredit(w) ==
    /\ pc[w] = "post_credit"
    /\ LET a == req[w].account
           m == req[w].amount
       IN IF m = 0 THEN Fail(w, "ledger_value_error")
          ELSE /\ Append(w, AdjustmentEntry(req[w].adjustment,
                                            [account |-> a, amount |-> m]))
               /\ held' = [held EXCEPT ![w][a] = @ + m]
               /\ Goto(w, "commit_credit")
               /\ UNCHANGED <<books, lock, now, req, reply>>

CommitCredit(w) ==
    /\ pc[w] = "commit_credit"
    /\ LET a == req[w].account
       IN IF held[w][a] > MaxMoney THEN Fail(w, "numeric_overflow")
          ELSE /\ balance' = Flushed(w)
               /\ ledger' = ledger \cup staged[w]
               /\ adjustments' = [adjustments EXCEPT ![req[w].adjustment] =
                    [account |-> a, amount |-> req[w].amount]]
               /\ EndTransaction(w)
               /\ Goto(w, "respond_credit")
               /\ UNCHANGED <<customers, quotes, executions, responses, now, req, reply>>

(* `return balance.balance' refreshes the expired object: the answer is the  *)
(* balance of that later moment.                                             *)
RespondCredit(w) ==
    /\ pc[w] = "respond_credit"
    /\ LET a == req[w].account
       IN Answer(w, "ok", [account |-> a, amount |-> balance[a]])
    /\ UNCHANGED <<books, lock, now, req, held, staged>>

-----------------------------------------------------------------------------
(* Failures *)

(* The database fails a statement: the transaction is rolled back and the    *)
(* client gets internal_error. After the commit there is nothing left to     *)
(* roll back, and the client gets internal_error all the same.               *)
Fault(w) ==
    /\ pc[w] # "idle"
    /\ Fail(w, "system_fault")

(* The process or its connection dies: the server rolls back, nobody answers. *)
Crash(w) ==
    /\ pc[w] # "idle"
    /\ EndTransaction(w)
    /\ Goto(w, "idle")
    /\ UNCHANGED <<books, now, req, reply>>

-----------------------------------------------------------------------------
(* Steps that can wait for another transaction, and the others. *)
LockStep(w) == ClaimKey(w) \/ LockQuote(w) \/ LockAccount(w) \/ LockCreditAccount(w)

LocalStep(w) ==
    \/ CheckKey(w) \/ CheckQuote(w) \/ Debit(w) \/ CreditDestination(w)
    \/ Commit(w) \/ Respond(w)
    \/ PostCredit(w) \/ CommitCredit(w) \/ RespondCredit(w)

Arrival(w) ==
    \/ \E q \in Quotes, k \in Keys \cup {EmptyKey} : Submit(w, q, k)
    \/ \E x \in Adjustments, a \in Accounts, m \in CreditAmounts : BeginCredit(w, x, a, m)

Environment ==
    \/ \E c \in Customers : CreateCustomer(c)
    \/ \E q \in Quotes, c \in Customers, o \in Offers : CreateQuote(q, c, o)
    \/ Tick

Next ==
    \/ Environment
    \/ \E w \in Workers : LockStep(w) \/ LocalStep(w) \/ Arrival(w) \/ Fault(w) \/ Crash(w)

Spec == Init /\ [][Next]_vars

(* A thread that is not waiting goes on, and PostgreSQL grants a row lock to *)
(* the transactions queued for it in turn. Nothing makes clients call, time  *)
(* pass or the database fail.                                                *)
FairSpec ==
    Spec /\ \A w \in Workers : WF_vars(LocalStep(w)) /\ SF_vars(LockStep(w))

-----------------------------------------------------------------------------
(* Properties *)

(* compute_balance *)
ComputeBalance(a) ==
    LET entries(d) == {e \in ledger : e.account = a /\ e.direction = d}
        amount(e) == e.amount
    IN MapThenSumSet(amount, entries("credit")) - MapThenSumSet(amount, entries("debit"))

(* The materialized balance of an account always equals the sum of its       *)
(* ledger (LedgerEntry docstring), whatever transactions overlapped, failed  *)
(* or died in between.                                                       *)
BalanceMatchesLedger == \A a \in Accounts : balance[a] = ComputeBalance(a)

(* The ledger is exactly the two legs of every execution on its quote's      *)
(* terms and one entry per adjustment: no movement is written in part, twice *)
(* or without its record.                                                    *)
LedgerMatchesRecords ==
    ledger = {DebitEntry(q, quotes[q]) : q \in executions}
             \cup {CreditEntry(q, quotes[q]) : q \in executions}
             \cup {AdjustmentEntry(x, adjustments[x]) :
                     x \in {y \in Adjustments : adjustments[y] # None}}

Completed(k) == responses[k] # None

(* Executions and completed keys are in one-to-one correspondence: a retry   *)
(* under the same key or another never moves the money again, and no key     *)
(* answers for a quote that did not execute.                                 *)
OneKeyPerExecution ==
    /\ executions = {responses[k].quote : k \in {j \in Keys : Completed(j)}}
    /\ \A j, k \in Keys :
         Completed(j) /\ Completed(k) /\ responses[j].quote = responses[k].quote => j = k

Answered(w, codes) == reply[w] # None /\ reply[w].code \in codes

(* A client told that its execution went through, first hand or by replay,   *)
(* has been given the stored response of its own key and quote, and one told *)
(* of a conflict or of an executed quote was told the truth: the transaction *)
(* it lost to did commit.                                                    *)
AnswersAreTrue ==
    \A w \in Workers : req[w] \in ExecuteRequest =>
        LET q == req[w].quote
            k == req[w].key
        IN /\ Answered(w, {"ok", "replayed"}) =>
                /\ Completed(k)
                /\ reply[w].body = responses[k]
                /\ responses[k].quote = q
           /\ Answered(w, {"idempotency_conflict"}) => Completed(k)
           /\ Answered(w, {"quote_already_executed"}) => q \in executions

(* The checks made under the locks decide: the UNIQUE and CHECK constraints  *)
(* behind them are never what stops an execution.                            *)
BackstopsUnreached == \A w \in Workers : ~Answered(w, {"constraint_violation"})

(* A balance locked by a transaction differs from the committed one by what  *)
(* that transaction has posted and by nothing else: nobody can have changed  *)
(* it since it was read, so the commit overwrites no other movement.         *)
NoLostUpdate ==
    \A w \in Workers, a \in Accounts : Holds(w, a) =>
        LET posted(d) == {e \in staged[w] : e.account = a /\ e.direction = d}
            amount(e) == e.amount
        IN held[w][a] = balance[a] + MapThenSumSet(amount, posted("credit"))
                                   - MapThenSumSet(amount, posted("debit"))

(* The row the next statement of a worker needs to lock. *)
Wanted(w) ==
    CASE pc[w] = "claim_key" -> {<<"key", req[w].key>>}
      [] pc[w] = "lock_quote" /\ TermsOf(w) # None -> {<<"quote", req[w].quote>>}
      [] pc[w] = "lock_accounts" -> {<<"balance", NextAccount(w)>>}
      [] pc[w] = "lock_credit" -> {<<"balance", req[w].account>>}
      [] OTHER -> {}

WaitsFor(w, v) == \E r \in Wanted(w) : lock[r] = v

(* Nobody waits for ever in a circle, so PostgreSQL never has to break a     *)
(* deadlock: in every group of workers somebody waits for nobody in it.      *)
NoWaitCycle ==
    \A group \in (SUBSET Workers) \ {{}} :
        \E w \in group : \A v \in group : ~WaitsFor(w, v)

(* The lock hierarchy: idempotency key, quote, balances by currency code. *)
Level(r) ==
    CASE r[1] = "key" -> 0
      [] r[1] = "quote" -> 1
      [] r[1] = "balance" -> 2 + Rank[r[2][2]]

(* A worker only asks for locks above all those it holds, which is why there *)
(* is no circle, however many workers, accounts and currencies there are.    *)
LocksClimb ==
    \A w \in Workers, r \in Rows : lock[r] = w =>
        \A s \in Wanted(w) : Level(r) < Level(s)

(* A step may add to the record and never rewrites it: ledger, executions,   *)
(* quotes, adjustments and completed keys keep what they have.               *)
HistoryIsKept ==
    [][/\ ledger \subseteq ledger'
       /\ executions \subseteq executions'
       /\ \A q \in Quotes : quotes[q] # None => quotes'[q] = quotes[q]
       /\ \A x \in Adjustments : adjustments[x] # None => adjustments'[x] = adjustments[x]
       /\ \A k \in Keys : Completed(k) => responses'[k] = responses[k]]_vars

(* An unexecuted quote whose time is over and that no request is past the    *)
(* expiry check of. *)
Lapsed(q) ==
    /\ quotes[q] # None
    /\ q \notin executions
    /\ now >= quotes[q].expires
    /\ \A w \in Workers :
         pc[w] \in {"lock_accounts", "debit", "credit", "commit"} => req[w].quote # q

(* A quote that has lapsed stays unexecuted for good: no retry, waiting      *)
(* request or late lock grant brings it back.                                *)
LapsedQuotesStayLapsed == [][\A q \in Quotes : Lapsed(q) => Lapsed(q)']_vars

(* The ways to an internal error that are no fault of the system, all of     *)
(* them: an amount that rounded to nothing, and a credit beyond the column   *)
(* (execute_quote, credit_balance). Nothing else that the checks of the two  *)
(* handlers let through is stopped by the schema or by append_entry.         *)
InternalErrorsExplained ==
    [][\A w \in Workers :
        reply'[w] # reply[w] /\ Answered(w, Failures \ {"system_fault"})' =>
            IF req[w] \in ExecuteRequest
            THEN LET t == TermsOf(w)
                 IN \/ t.debit = 0 \/ t.credit = 0
                    \/ balance[t.destination] + t.credit > MaxMoney
            ELSE \/ req[w].amount = 0
                 \/ balance[req[w].account] + req[w].amount > MaxMoney]_vars

(* The statements of a request, in their order; the second of its accounts   *)
(* is locked after the first.                                                *)
Stage == [check_key |-> 1, claim_key |-> 2, lock_quote |-> 3, check_quote |-> 4,
          lock_accounts |-> 5, debit |-> 7, credit |-> 8, commit |-> 9, respond |-> 10,
          lock_credit |-> 1, post_credit |-> 2, commit_credit |-> 3, respond_credit |-> 4]
Progress(w) ==
    IF pc[w] = "lock_accounts" /\ \E a \in Accounts : Holds(w, a) THEN 6 ELSE Stage[pc[w]]

(* A request never goes back: a step leaves it alone, ends it or brings it   *)
(* on, so ten steps of its own end any request (neither handler retries).    *)
RequestsAdvance ==
    [][\A w \in Workers : pc[w] # "idle" =>
        \/ UNCHANGED <<pc[w], req[w], held[w], staged[w], reply[w]>>
        \/ pc'[w] = "idle"
        \/ Progress(w)' > Progress(w)]_vars

(* The workers, locks and transactions together do nothing to the books that *)
(* FxLedger does not allow in one step.                                      *)
Ledger == INSTANCE FxLedger WITH
    customers <- customers, quotes <- quotes, balance <- balance, ledger <- ledger,
    adjustments <- adjustments, executions <- executions, responses <- responses
LedgerSpec == Ledger!Spec

(* Every request is answered or dies: nobody waits for ever for a row lock,  *)
(* whatever the others do. *)
EveryRequestEnds == \A w \in Workers : pc[w] # "idle" ~> pc[w] = "idle"

-----------------------------------------------------------------------------
(* What the documents of the repository say and the code does not keep *)

(* "If any step fails, rollback all balance, execution, and idempotency      *)
(* writes" (SPEC.md:137): no execution that has committed ends as a failure. *)
FailureRollsBack ==
    [][\A w \in Workers :
        req[w] \in ExecuteRequest /\ pc[w] = "respond"
            => reply'[w] = reply[w] \/ Answered(w, {"ok"})']_vars

(* Client-caused failures are rejections, "leaving execution.failed at ERROR *)
(* for true system faults" (executions.py:54-56): every internal error of an *)
(* execution is a fault of the system.                                       *)
FailedMeansSystemFault ==
    \A w \in Workers : req[w] \in ExecuteRequest =>
        ~Answered(w, Failures \ {"system_fault"})

(* "Same key + same request hash + completed result returns stored response" *)
(* (SPEC.md:160).                                                            *)
CompletedKeyReplays ==
    [][\A w \in Workers :
        req[w] \in ExecuteRequest /\ pc[w] # "idle" /\ Answered(w, {"idempotency_conflict"})'
            => responses[req[w].key].quote # req[w].quote]_vars
=============================================================================
