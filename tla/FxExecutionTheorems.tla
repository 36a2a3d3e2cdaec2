-------------------------- MODULE FxExecutionTheorems --------------------------
(***************************************************************************)
(* What follows from the inductive invariant of FxExecutionProofs: the     *)
(* safety properties of FxExecution, its action properties, the order of   *)
(* its locks, and that it implements FxLedger, for every value of the      *)
(* constants.                                                              *)
(***************************************************************************)
EXTENDS FxExecutionProofs, FiniteSetTheorems, WellFoundedInduction

(* Every row and every session has a well-formed value; in particular no     *)
(* committed balance is ever negative or beyond NUMERIC(20,2).               *)
THEOREM TypeCorrect == Spec => []TypeOK
<1>1. IInv => TypeOK
  BY DEF IInv
<1> QED
  BY <1>1, Invariance, PTL

(* The ledger is always exactly the legs of the executions and the entries   *)
(* of the adjustments.                                                       *)
THEOREM LedgerRecords == Spec => []LedgerMatchesRecords
<1>1. IInv => LedgerMatchesRecords
  BY DEF IInv, BooksInv
<1> QED
  BY <1>1, Invariance, PTL

(* No retry, concurrent request or crash executes a quote twice, or leaves   *)
(* an execution without its completed key.                                   *)
THEOREM ExecutedOnce == Spec => []OneKeyPerExecution
<1>1. IInv => OneKeyPerExecution
  BY DEF IInv, BooksInv
<1> QED
  BY <1>1, Invariance, PTL

(* What the clients of execute_quote are told is true of the books.          *)
THEOREM TrueAnswers == Spec => []AnswersAreTrue
<1>1. IInv => AnswersAreTrue
  BY DEF IInv, WorkerInv, AnswerInv, AnswersAreTrue
<1> QED
  BY <1>1, Invariance, PTL

(* No execution that has claimed its key trips over a UNIQUE or CHECK        *)
(* constraint.                                                               *)
THEOREM Backstops == Spec => []BackstopsUnreached
<1>1. IInv => BackstopsUnreached
  BY DEF IInv, WorkerInv, AnswerInv, BackstopsUnreached
<1> QED
  BY <1>1, Invariance, PTL

-----------------------------------------------------------------------------
(* The steps of a worker, seen by the others *)

(* A step of one worker moves nobody else and takes or releases no lock for  *)
(* them. Only the check of its quote brings a request into the part of the   *)
(* handler that locks accounts.                                              *)
LEMMA WorkerStep ==
    ASSUME IInv, NEW w \in Workers,
           LockStep(w) \/ LocalStep(w) \/ Arrival(w) \/ Fault(w) \/ Crash(w)
    PROVE  /\ \A v \in Workers \ {w} : pc'[v] = pc[v] /\ req'[v] = req[v]
           /\ \A v \in Workers \ {w}, r \in Rows : (lock'[r] = v) <=> (lock[r] = v)
           /\ now' = now /\ quotes' = quotes
           /\ pc'[w] = "lock_accounts" => CheckQuote(w) \/ LockAccount(w)
           /\ pc'[w] \in PastChecks =>
                req'[w] = req[w] /\ (pc[w] \in PastChecks \/ CheckQuote(w))
<1> DEFINE Shape ==
      /\ \A v \in Workers \ {w} : pc'[v] = pc[v] /\ req'[v] = req[v]
      /\ \A v \in Workers \ {w}, r \in Rows : (lock'[r] = v) <=> (lock[r] = v)
      /\ now' = now /\ quotes' = quotes
      /\ pc'[w] = "lock_accounts" => CheckQuote(w) \/ LockAccount(w)
      /\ pc'[w] \in PastChecks =>
           req'[w] = req[w] /\ (pc[w] \in PastChecks \/ CheckQuote(w))
<1> USE DEF PastChecks, WithQuote, WithKey
<1>1. pc \in [Workers -> {"idle"} \cup ExecutePoints \cup CreditPoints] /\ DOMAIN req = Workers
  BY DEF IInv, TypeOK
<1>2. ASSUME NEW code, Fail(w, code) PROVE Shape
  BY <1>1, <1>2, Released DEF Fail, Answer, Goto, books
<1>3. ASSUME NEW point, NEW row \in Rows, Goto(w, point), Take(w, row), req' = req,
             UNCHANGED <<books, now>>,
             point = "lock_accounts" => LockAccount(w),
             point \in PastChecks => pc[w] \in PastChecks
      PROVE  Shape
  BY <1>1, <1>3, Taken DEF Goto, books
<1>4. ASSUME NEW point, Goto(w, point), UNCHANGED <<books, now, lock>>,
             \A v \in Workers \ {w} : req'[v] = req[v],
             point = "lock_accounts" => CheckQuote(w),
             point \in PastChecks => req' = req /\ (pc[w] \in PastChecks \/ CheckQuote(w))
      PROVE  Shape
  BY <1>1, <1>4 DEF Goto, books
<1>5. ASSUME NEW point, Goto(w, point), EndTransaction(w), req' = req,
             UNCHANGED <<quotes, now>>, point \notin PastChecks
      PROVE  Shape
  BY <1>1, <1>5, Released DEF Goto
<1>6. CASE LockStep(w)
  <2>1. CASE ClaimKey(w)
    <3>1. req[w].key \in Keys
      BY <2>1 DEF IInv, WorkerInv, RequestInv, ClaimKey, ExecutePoints
    <3> QED
      BY <1>2, <1>3, <2>1, <3>1, RowsHaveKinds DEF ClaimKey
  <2>2. CASE LockQuote(w)
    <3>1. req[w].quote \in Quotes
      BY <2>2 DEF IInv, WorkerInv, RequestInv, LockQuote, ExecutePoints, ExecuteRequest
    <3> QED
      BY <1>2, <1>3, <2>2, <3>1, RowsHaveKinds DEF LockQuote
  <2>3. CASE LockAccount(w)
    <3>1. pc[w] = "lock_accounts"
      BY <2>3 DEF LockAccount
    <3>2. <<"balance", NextAccount(w)>> \in Rows
      BY <3>1, NextAccountIsUnlocked, RowsHaveKinds
    <3> QED
      BY <1>3, <2>3, <3>1, <3>2 DEF LockAccount, ReadForUpdate
  <2>4. CASE LockCreditAccount(w)
    <3>1. req[w].account \in Accounts
      BY <2>4 DEF IInv, WorkerInv, RequestInv, LockCreditAccount, CreditPoints, CreditRequest
    <3> QED
      BY <1>3, <2>4, <3>1, RowsHaveKinds DEF LockCreditAccount, ReadForUpdate
  <2> QED
    BY <1>6, <2>1, <2>2, <2>3, <2>4 DEF LockStep
<1>7. CASE LocalStep(w)
  <2>1. CASE CheckKey(w)
    BY <1>2, <1>4, <1>5, <2>1 DEF CheckKey, Answer, books
  <2>2. CASE CheckQuote(w)
    BY <1>2, <1>4, <2>2 DEF CheckQuote
  <2>3. CASE Debit(w)
    BY <1>2, <1>4, <2>3 DEF Debit
  <2>4. CASE CreditDestination(w)
    BY <1>2, <1>4, <2>4 DEF CreditDestination
  <2>5. CASE Commit(w)
    BY <1>2, <1>5, <2>5 DEF Commit
  <2>6. CASE Respond(w)
    BY <1>4, <2>6 DEF Respond, Answer
  <2>7. CASE PostCredit(w)
    BY <1>2, <1>4, <2>7 DEF PostCredit
  <2>8. CASE CommitCredit(w)
    BY <1>2, <1>5, <2>8 DEF CommitCredit
  <2>9. CASE RespondCredit(w)
    BY <1>4, <2>9 DEF RespondCredit, Answer
  <2> QED
    BY <1>7, <2>1, <2>2, <2>3, <2>4, <2>5, <2>6, <2>7, <2>8, <2>9 DEF LocalStep
<1>8. CASE Arrival(w)
  <2>1. ASSUME NEW q \in Quotes, NEW k \in Keys \cup {EmptyKey}, Submit(w, q, k) PROVE Shape
    BY <1>1, <1>4, <2>1 DEF Submit
  <2>2. ASSUME NEW x \in Adjustments, NEW a \in Accounts, NEW m \in CreditAmounts,
               BeginCredit(w, x, a, m)
        PROVE  Shape
    BY <1>1, <1>4, <2>2 DEF BeginCredit, Answer
  <2> QED
    BY <1>8, <2>1, <2>2 DEF Arrival
<1>9. CASE Fault(w)
  BY <1>2, <1>9 DEF Fault
<1>10. CASE Crash(w)
  BY <1>5, <1>10 DEF Crash, books
<1> QED
  BY <1>6, <1>7, <1>8, <1>9, <1>10

(* The environment moves no worker and touches no lock, quote or execution.  *)
LEMMA EnvironmentMovesNobody ==
    ASSUME IInv, Environment
    PROVE  /\ UNCHANGED <<lock, pc, req, executions, responses, ledger, adjustments, balance>>
           /\ \A q \in Quotes : quotes[q] # None => quotes'[q] = quotes[q]
           /\ now <= now'
<1>1. now \in Nat /\ quotes \in [Quotes -> Terms \cup {None}]
  BY BoundsAssumption DEF IInv, TypeOK, Instants
<1> QED
  BY <1>1 DEF Environment, CreateCustomer, CreateQuote, Tick, books, workers

-----------------------------------------------------------------------------
(* Lock order *)

(* A worker that has locked one of its two accounts has locked the one with  *)
(* the lower currency code.                                                  *)
OrderInv(w) ==
    pc[w] = "lock_accounts" =>
        \A a, b \in Accounts :
            Holds(w, a) /\ b \in Unlocked(w) => Rank[a[2]] < Rank[b[2]]

(* The two accounts of a quote have different ranks: they belong to one      *)
(* customer and are different, so their currencies differ.                   *)
LEMMA RanksDiffer ==
    ASSUME IInv, NEW w \in Workers, pc[w] \in WithQuote
    PROVE  /\ Rank[TermsOf(w).source[2]] \in Nat /\ Rank[TermsOf(w).destination[2]] \in Nat
           /\ Rank[TermsOf(w).source[2]] # Rank[TermsOf(w).destination[2]]
<1> DEFINE s == TermsOf(w).source
           d == TermsOf(w).destination
<1>1. s \in Customers \X Currencies /\ d \in Customers \X Currencies /\ s # d
  BY TermsTyped DEF Accounts
<1>2. s[1] = d[1]
  BY TermsTyped DEF IInv, WorkerInv, LockInv, BooksInv, QuotesInv, TermsOf
<1>3. s[2] # d[2]
  BY <1>1, <1>2
<1> QED
  BY <1>1, <1>3, RankAssumption

(* Passing the check of the quote, a worker holds no account; locking the    *)
(* first, it leaves the higher one.                                          *)
LEMMA OrderStep ==
    ASSUME IInv, IInv', NEW w \in Workers, CheckQuote(w) \/ LockAccount(w), OrderInv(w)
    PROVE  OrderInv(w)'
<1> USE DEF WithQuote, WithKey, PastChecks
<1>1. CASE CheckQuote(w)
  <2>1. pc[w] = "check_quote"
    BY <1>1 DEF CheckQuote
  <2>2. \A a \in Accounts : ~Holds(w, a)
    BY <2>1, RowsHaveKinds DEF IInv, WorkerInv, OwnedInv, Lockable, Holds, WithCreditAccount
  <2>3. CASE pc'[w] = "lock_accounts"
    <3>1. UNCHANGED lock
      BY <1>1, <2>1, <2>3 DEF CheckQuote, Fail, Answer, Goto, IInv, TypeOK
    <3> QED
      BY <2>2, <3>1 DEF OrderInv, Holds
  <2> QED
    BY <2>3 DEF OrderInv
<1>2. CASE LockAccount(w)
  <2> DEFINE s == TermsOf(w).source
             d == TermsOf(w).destination
             n == NextAccount(w)
  <2>1. pc[w] = "lock_accounts" /\ Take(w, <<"balance", n>>) /\ UNCHANGED <<books, req>>
    BY <1>2 DEF LockAccount, ReadForUpdate
  <2>2. /\ n \in Unlocked(w) /\ n \in Accounts /\ Unlocked(w) \subseteq {s, d}
        /\ \A b \in Unlocked(w) : Rank[n[2]] <= Rank[b[2]]
    BY <2>1, NextAccountIsUnlocked DEF Unlocked
  <2>3. /\ s \in Accounts /\ d \in Accounts
        /\ Rank[s[2]] \in Nat /\ Rank[d[2]] \in Nat /\ Rank[s[2]] # Rank[d[2]]
    BY <2>1, RanksDiffer, TermsTyped
  <2>4. \A a \in Accounts : Holds(w, a)' <=> Holds(w, a) \/ a = n
    <3>1. <<"balance", n>> \in Rows
      BY <2>2, RowsHaveKinds
    <3>2. /\ lock'[<<"balance", n>>] = w
          /\ \A r \in Rows \ {<<"balance", n>>} : lock'[r] = lock[r]
      BY <2>1, <3>1, Taken
    <3> QED
      BY <3>2, RowsHaveKinds DEF Holds
  <2>5. Unlocked(w)' = Unlocked(w) \ {n}
    BY <2>1, <2>3, <2>4 DEF Unlocked, TermsOf, books
  <2>6. ASSUME NEW a \in Accounts, NEW b \in Accounts, Holds(w, a)', b \in Unlocked(w)'
        PROVE  Rank[a[2]] < Rank[b[2]]
    <3>1. b \in Unlocked(w) /\ b # n
      BY <2>5, <2>6
    <3>2. CASE a = n
      BY <2>2, <2>3, <3>1, <3>2
    <3>3. CASE Holds(w, a)
      BY <2>1, <3>1, <3>3 DEF OrderInv
    <3> QED
      BY <2>4, <2>6, <3>2, <3>3
  <2> QED
    BY <2>6 DEF OrderInv
<1> QED
  BY <1>1, <1>2

(* No step puts a worker's locks out of order. *)
LEMMA NextOrder ==
    ASSUME IInv, IInv', \A w \in Workers : OrderInv(w), [Next]_vars
    PROVE  \A w \in Workers : OrderInv(w)'
<1> SUFFICES ASSUME NEW v \in Workers PROVE OrderInv(v)'
  OBVIOUS
<1>1. ASSUME pc'[v] = pc[v], req'[v] = req[v], \A r \in Rows : (lock'[r] = v) <=> (lock[r] = v),
             \A q \in Quotes : quotes[q] # None => quotes'[q] = quotes[q]
      PROVE  OrderInv(v)'
  <2>1. CASE pc[v] = "lock_accounts"
    <3>1. pc[v] \in WithQuote
      BY <2>1 DEF WithQuote, WithKey
    <3>2. TermsOf(v)' = TermsOf(v)
      BY <1>1, <3>1, TermsTyped DEF TermsOf, IInv, WorkerInv, LockInv
    <3>3. \A a \in Accounts : Holds(v, a)' <=> Holds(v, a)
      BY <1>1, RowsHaveKinds DEF Holds
    <3>4. Unlocked(v)' = Unlocked(v)
      BY <3>1, <3>2, <3>3, TermsTyped DEF Unlocked
    <3> QED
      BY <1>1, <3>3, <3>4 DEF OrderInv
  <2> QED
    BY <1>1, <2>1 DEF OrderInv
<1>2. CASE Environment
  BY <1>1, <1>2, EnvironmentMovesNobody
<1>3. ASSUME NEW w \in Workers,
             LockStep(w) \/ LocalStep(w) \/ Arrival(w) \/ Fault(w) \/ Crash(w)
      PROVE  OrderInv(v)'
  <2>1. CASE v = w
    BY <1>3, <2>1, WorkerStep, OrderStep DEF OrderInv
  <2>2. CASE v # w
    BY <1>1, <1>3, <2>2, WorkerStep
  <2> QED
    BY <2>1, <2>2
<1>4. CASE UNCHANGED vars
  BY <1>1, <1>4 DEF vars, books
<1> QED
  BY <1>2, <1>3, <1>4 DEF Next

(* What a worker asks for lies above what it holds. *)
LEMMA OrderedLocksClimb ==
    ASSUME IInv, \A w \in Workers : OrderInv(w)
    PROVE  LocksClimb
<1> SUFFICES ASSUME NEW w \in Workers, NEW r \in Rows, lock[r] = w, NEW s \in Wanted(w)
             PROVE  Level(r) < Level(s)
  BY DEF LocksClimb
<1> USE DEF WithKey, WithQuote, PastChecks, WithCreditAccount
<1>1. r \in Lockable(w)
  BY DEF IInv, WorkerInv, OwnedInv
<1>2. CASE pc[w] = "claim_key"
  BY <1>1, <1>2 DEF Lockable
<1>3. CASE pc[w] = "lock_quote"
  <2>1. s = <<"quote", req[w].quote>>
    BY <1>3 DEF Wanted
  <2>2. r = <<"key", req[w].key>>
    BY <1>1, <1>3 DEF Lockable
  <2> QED
    BY <2>1, <2>2 DEF Level
<1>4. CASE pc[w] = "lock_accounts"
  <2>1. s = <<"balance", NextAccount(w)>>
    BY <1>4 DEF Wanted
  <2>2. /\ NextAccount(w) \in Unlocked(w) /\ NextAccount(w) \in Customers \X Currencies
        /\ Rank[NextAccount(w)[2]] \in Nat
    BY <1>4, NextAccountIsUnlocked, RankAssumption DEF Accounts
  <2>3. Level(s) = 2 + Rank[NextAccount(w)[2]]
    BY <2>1 DEF Level
  <2>4. CASE r[1] = "key" \/ r[1] = "quote"
    <3>1. Level(r) = 0 \/ Level(r) = 1
      BY <2>4 DEF Level
    <3> QED
      BY <2>2, <2>3, <3>1
  <2>5. ASSUME NEW a \in Accounts, r = <<"balance", a>>
        PROVE  Level(r) < Level(s)
    <3>1. Rank[a[2]] < Rank[NextAccount(w)[2]]
      BY <1>4, <2>2, <2>5 DEF OrderInv, Holds, Accounts
    <3>2. Level(r) = 2 + Rank[a[2]] /\ Rank[a[2]] \in Nat
      BY <2>5, RankAssumption DEF Level, Accounts
    <3> QED
      BY <2>2, <2>3, <3>1, <3>2
  <2> QED
    BY <2>4, <2>5 DEF Rows
<1>5. CASE pc[w] = "lock_credit"
  BY <1>1, <1>5 DEF Lockable
<1> QED
  BY <1>2, <1>3, <1>4, <1>5 DEF Wanted

(* The order of a worker's locks is an invariant next to IInv. *)
LEMMA OrderInvariance == Spec => [](IInv /\ \A w \in Workers : OrderInv(w))
<1>1. Init => IInv /\ \A w \in Workers : OrderInv(w)
  BY InitIInv DEF Init, OrderInv
<1>2. IInv /\ (\A w \in Workers : OrderInv(w)) /\ [Next]_vars
        => (IInv /\ \A w \in Workers : OrderInv(w))'
  BY NextIInv, NextOrder
<1> QED
  BY <1>1, <1>2, PTL DEF Spec

(* Locks are only ever requested upwards: key, quote, balances by currency   *)
(* code, for any number of workers, customers and currencies.                *)
THEOREM LocksInOrder == Spec => []LocksClimb
<1>1. IInv /\ (\A w \in Workers : OrderInv(w)) => LocksClimb
  BY OrderedLocksClimb
<1> QED
  BY <1>1, OrderInvariance, PTL

(* A bounded set of levels that is not empty has a highest one. *)
LEMMA HighestExists ==
    ASSUME NEW S, S \subseteq Nat, S # {}, NEW top \in Nat, \A n \in S : n <= top
    PROVE  \E m \in S : \A n \in S : n <= m
<1> DEFINE T == {top - n : n \in S}
<1>1. T \subseteq Nat /\ T # {}
  <2>1. \A n \in S : top - n \in Nat
    OBVIOUS
  <2> QED
    BY <2>1
<1>2. \E m \in T : \A n \in T : ~(n < m)
  <2>1. \E m \in T : \A n \in T : <<n, m>> \notin OpToRel(<, Nat)
    BY <1>1, NatLessThanWellFounded, WFMin
  <2> QED
    BY <1>1, <2>1 DEF OpToRel
<1>3. PICK m \in S : \A n \in S : ~(top - n < top - m)
  BY <1>2
<1> QED
  BY <1>3

(* In every group, a worker that asks for the highest row waits for nobody   *)
(* in the group: an owner of that row would be asking for a higher one.      *)
LEMMA ClimbingLocksMakeNoCycle ==
    ASSUME IInv, LocksClimb
    PROVE  NoWaitCycle
<1> SUFFICES ASSUME NEW group \in SUBSET Workers, group # {},
                    \A w \in group : \E v \in group : WaitsFor(w, v)
             PROVE  FALSE
  BY DEF NoWaitCycle
<1> DEFINE wanted == UNION {Wanted(w) : w \in group}
           levels == {Level(r) : r \in wanted}
<1>1. \A w \in group : Wanted(w) \subseteq Rows
  <2> SUFFICES ASSUME NEW w \in group PROVE Wanted(w) \subseteq Rows
    OBVIOUS
  <2>1. pc[w] = "claim_key" => req[w].key \in Keys
    BY DEF IInv, WorkerInv, RequestInv, ExecutePoints
  <2>2. pc[w] = "lock_quote" => req[w].quote \in Quotes
    BY DEF IInv, WorkerInv, RequestInv, ExecutePoints, ExecuteRequest
  <2>3. pc[w] = "lock_accounts" => NextAccount(w) \in Accounts
    BY NextAccountIsUnlocked
  <2>4. pc[w] = "lock_credit" => req[w].account \in Accounts
    BY DEF IInv, WorkerInv, RequestInv, CreditPoints, CreditRequest
  <2> QED
    BY <2>1, <2>2, <2>3, <2>4, RowsHaveKinds DEF Wanted
<1>2. PICK top \in Nat : \A r \in Rows : Level(r) \in Nat /\ Level(r) <= top
  <2>1. PICK last \in Currencies : \A c \in Currencies : Rank[c] <= Rank[last]
    BY RankAssumption
  <2>2. Rank[last] \in Nat
    BY RankAssumption
  <2>3. ASSUME NEW r \in Rows PROVE Level(r) \in Nat /\ Level(r) <= 2 + Rank[last]
    <3>1. CASE r[1] = "key" \/ r[1] = "quote"
      BY <2>2, <3>1 DEF Level
    <3>2. ASSUME NEW a \in Accounts, r = <<"balance", a>>
          PROVE  Level(r) \in Nat /\ Level(r) <= 2 + Rank[last]
      <4>1. Level(r) = 2 + Rank[a[2]] /\ a[2] \in Currencies
        BY <3>2 DEF Level, Accounts
      <4>2. Rank[a[2]] \in Nat /\ Rank[a[2]] <= Rank[last]
        BY <2>1, <4>1, RankAssumption
      <4> QED
        BY <2>2, <4>1, <4>2
    <3> QED
      BY <3>1, <3>2 DEF Rows
  <2> QED
    BY <2>2, <2>3
<1>3. levels # {}
  BY DEF WaitsFor
<1>4. PICK m \in levels : \A n \in levels : n <= m
  <2>1. levels \subseteq Nat /\ \A n \in levels : n <= top
    BY <1>1, <1>2
  <2> QED
    BY <1>3, <2>1, HighestExists
<1>5. PICK w \in group : \E r \in Wanted(w) : Level(r) = m
  BY <1>4
<1>6. PICK v \in group : WaitsFor(w, v)
  OBVIOUS
<1>7. \A r, s \in Wanted(w) : r = s
  BY DEF Wanted
<1>8. PICK r \in Wanted(w) : Level(r) = m /\ lock[r] = v
  BY <1>5, <1>6, <1>7 DEF WaitsFor
<1>9. PICK s \in Wanted(v) : TRUE
  BY DEF WaitsFor
<1>10. m < Level(s)
  BY <1>1, <1>8, <1>9 DEF LocksClimb
<1>11. Level(s) <= m /\ Level(s) \in Nat /\ m \in Nat
  BY <1>1, <1>2, <1>4, <1>5, <1>9
<1> QED
  BY <1>10, <1>11

(* No group of workers ever waits in a circle, whatever its size: PostgreSQL *)
(* has no deadlock to break.                                                 *)
THEOREM NoDeadlock == Spec => []NoWaitCycle
<1>1. IInv /\ (\A w \in Workers : OrderInv(w)) => NoWaitCycle
  BY OrderedLocksClimb, ClimbingLocksMakeNoCycle
<1> QED
  BY <1>1, OrderInvariance, PTL

-----------------------------------------------------------------------------
(* Refinement *)

(* Only four kinds of step write the books. *)
LEMMA BookSteps ==
    ASSUME IInv, [Next]_vars
    PROVE  \/ UNCHANGED books
           \/ \E c \in Customers : CreateCustomer(c)
           \/ \E q \in Quotes, c \in Customers, o \in Offers : CreateQuote(q, c, o)
           \/ \E w \in Workers : Commit(w) /\ ~UNCHANGED books
           \/ \E w \in Workers : CommitCredit(w) /\ ~UNCHANGED books
  BY DEF Next, vars, Environment, Tick, LockStep, LocalStep, Arrival, Fault, Crash, Fail,
         ClaimKey, LockQuote, LockAccount, LockCreditAccount, CheckKey, CheckQuote, Debit,
         CreditDestination, Respond, PostCredit, RespondCredit, Submit, BeginCredit

(* The commit of an execution settles its quote under its key. *)
LEMMA CommitSettles ==
    ASSUME IInv, NEW w \in Workers, Commit(w), ~UNCHANGED books
    PROVE  Ledger!Settle(req[w].quote, req[w].key)
<1> DEFINE q == req[w].quote
           k == req[w].key
           t == TermsOf(w)
<1>1. pc[w] = "commit"
  BY DEF Commit
<1>2. held[w][t.destination] <= MaxMoney
  <2>1. ~(held[w][t.destination] > MaxMoney)
    BY DEF Commit, Fail
  <2>2. held[w][t.destination] \in Int
    BY <1>1, AtCommit, BoundsAssumption DEF IInv, TypeOK
  <2> QED
    BY <2>1, <2>2, BoundsAssumption
<1>3. /\ balance' = Flushed(w)
      /\ ledger' = ledger \cup staged[w]
      /\ executions' = executions \cup {q}
      /\ responses' = [responses EXCEPT ![k] =
           [quote |-> q, source |-> held[w][t.source], destination |-> held[w][t.destination]]]
      /\ UNCHANGED <<customers, quotes, adjustments>>
  BY DEF Commit, Fail
<1>4. quotes[q] # None
  BY <1>1 DEF IInv, WorkerInv, LockInv, TermsOf, WithQuote, WithKey
<1>5. /\ DebitEntry(q, t) = Ledger!DebitEntry(q, t)
      /\ CreditEntry(q, t) = Ledger!CreditEntry(q, t)
  BY DEF DebitEntry, CreditEntry, Ledger!DebitEntry, Ledger!CreditEntry
<1> QED
  BY <1>1, <1>2, <1>3, <1>4, <1>5, AtCommit DEF Ledger!Settle, Completed

(* The commit of a credit is one abstract credit. *)
LEMMA CommitCreditCredits ==
    ASSUME IInv, NEW w \in Workers, CommitCredit(w), ~UNCHANGED books
    PROVE  Ledger!Credit(req[w].adjustment,
                         [account |-> req[w].account, amount |-> req[w].amount])
<1> DEFINE a == req[w].account
           m == req[w].amount
           x == req[w].adjustment
           row == [account |-> a, amount |-> m]
<1>1. pc[w] = "commit_credit"
  BY DEF CommitCredit
<1>2. /\ a \in Accounts /\ x \in Adjustments /\ m \in Nat /\ m > 0
      /\ a[1] \in customers /\ adjustments[x] = None
      /\ staged[w] = {AdjustmentEntry(x, row)}
      /\ held[w][a] = balance[a] + m
      /\ Flushed(w) = [balance EXCEPT ![a] = @ + m]
  BY <1>1, AtCommitCredit
<1>3. balance[a] + m <= MaxMoney
  <2>1. ~(held[w][a] > MaxMoney)
    BY DEF CommitCredit, Fail
  <2>2. balance[a] \in Int
    BY <1>2, BoundsAssumption DEF IInv, TypeOK, Money
  <2> QED
    BY <1>2, <2>1, <2>2, BoundsAssumption
<1>4. /\ balance' = Flushed(w)
      /\ ledger' = ledger \cup staged[w]
      /\ adjustments' = [adjustments EXCEPT ![x] = row]
      /\ UNCHANGED <<customers, quotes, executions, responses>>
  BY DEF CommitCredit, Fail
<1>5. AdjustmentEntry(x, row) = Ledger!AdjustmentEntry(x, row)
  BY DEF AdjustmentEntry, Ledger!AdjustmentEntry
<1> QED
  BY <1>2, <1>3, <1>4, <1>5 DEF Ledger!Credit

(* Every step of the workers is a step of the ledger or leaves it alone. *)
LEMMA StepRefines == ASSUME IInv, [Next]_vars PROVE Ledger!Next \/ UNCHANGED books
<1>1. ASSUME NEW c \in Customers, CreateCustomer(c) PROVE Ledger!Next
  BY <1>1 DEF CreateCustomer, Ledger!Next, Ledger!OpenCustomer
<1>2. ASSUME NEW q \in Quotes, NEW c \in Customers, NEW o \in Offers, CreateQuote(q, c, o)
      PROVE  Ledger!Next
  <2> DEFINE t == [source |-> <<c, o.source>>, destination |-> <<c, o.destination>>,
                   debit |-> o.debit, credit |-> o.credit, expires |-> now + TTL]
  <2>1. /\ quotes[q] = None /\ o.source # o.destination /\ c \in customers
        /\ now + TTL \in Instants
        /\ quotes' = [quotes EXCEPT ![q] = t]
        /\ UNCHANGED <<customers, balance, ledger, adjustments, executions, responses>>
    BY <1>2 DEF CreateQuote
  <2>2. t \in Ledger!Terms
    BY <2>1, OffersAssumption DEF Offer, Ledger!Terms, Ledger!Accounts, Ledger!Money,
                                  Money, Ledger!Instants, Instants
  <2>3. t.source # t.destination /\ t.source[1] = t.destination[1] /\ t.source[1] \in customers
    BY <2>1
  <2>4. Ledger!Publish(q)
    BY <2>1, <2>2, <2>3 DEF Ledger!Publish
  <2> QED
    BY <2>4 DEF Ledger!Next
<1>3. ASSUME NEW w \in Workers, Commit(w), ~UNCHANGED books PROVE Ledger!Next
  <2>1. req[w].quote \in Quotes /\ req[w].key \in Keys
    BY <1>3, AtCommit DEF Commit
  <2> QED
    BY <1>3, <2>1, CommitSettles DEF Ledger!Next
<1>4. ASSUME NEW w \in Workers, CommitCredit(w), ~UNCHANGED books PROVE Ledger!Next
  <2> DEFINE row == [account |-> req[w].account, amount |-> req[w].amount]
  <2>1. req[w].adjustment \in Adjustments /\ row \in AdjustmentRow
    BY <1>4, AtCommitCredit DEF CommitCredit
  <2>2. row \in Ledger!AdjustmentRow
    BY <2>1 DEF AdjustmentRow, Ledger!AdjustmentRow, Accounts, Ledger!Accounts,
                Money, Ledger!Money
  <2> QED
    BY <1>4, <2>1, <2>2, CommitCreditCredits DEF Ledger!Next
<1> QED
  BY <1>1, <1>2, <1>3, <1>4, BookSteps

(* The concurrent system, with its locks, failures and crashes, implements   *)
(* the ledger: money moves only by whole operations.                         *)
THEOREM ImplementsLedger == Spec => LedgerSpec
<1>1. Init => Ledger!Init
  BY DEF Init, Ledger!Init, Accounts, Ledger!Accounts
<1>2. IInv /\ [Next]_vars => [Ledger!Next]_(Ledger!books)
  BY StepRefines DEF books, Ledger!books
<1> QED
  BY <1>1, <1>2, Invariance, PTL DEF Spec, LedgerSpec, Ledger!Spec

-----------------------------------------------------------------------------
(* Sums of amounts.  That a sum does not depend on the order in which its    *)
(* entries are added is an induction over sets of entries; each of the       *)
(* lemmas below makes it by taking a smallest subset for which the claim     *)
(* fails (the inclusion of the subsets of a finite set is well-founded).     *)

(* g is the fold that adds up the amounts of the subsets of S, one entry     *)
(* after another: the function MapThenSumSet is defined by.                  *)
Adds(g, S) ==
    g = [s \in SUBSET S |->
           IF s = {} THEN 0 ELSE LET x == CHOOSE x \in s : TRUE IN x.amount + g[s \ {x}]]

(* The sum of the amounts of the entries of S.                               *)
Total(S) == (CHOOSE g : Adds(g, S))[S]

(* A set of subsets of a finite set has a smallest member.                   *)
LEMMA SmallestSubset ==
    ASSUME NEW S, IsFiniteSet(S), NEW Bad, Bad \subseteq SUBSET S, Bad # {}
    PROVE  \E T \in Bad : \A U \in Bad : U \subseteq T => U = T
<1>1. IsWellFoundedOn(StrictSubsetOrdering(S), SUBSET S)
  BY FS_StrictSubsetOrderingWellFounded, FS_FiniteSubsetsOfFinite
<1>2. PICK T \in Bad : \A U \in Bad : <<U, T>> \notin StrictSubsetOrdering(S)
  BY <1>1, WFMin
<1> QED
  BY <1>2 DEF StrictSubsetOrdering

(* Two foldings agree on the finite sets that both are of.                   *)
LEMMA FoldsAgree ==
    ASSUME NEW S, NEW T, NEW g, NEW h, Adds(g, S), Adds(h, T),
           NEW U, IsFiniteSet(U), U \subseteq S, U \subseteq T
    PROVE  g[U] = h[U]
<1> DEFINE Bad == {V \in SUBSET U : g[V] # h[V]}
<1> SUFFICES ASSUME Bad # {} PROVE FALSE
  OBVIOUS
<1>1. PICK V \in Bad : \A W \in Bad : W \subseteq V => W = V
  <2>1. Bad \subseteq SUBSET U
    OBVIOUS
  <2> HIDE DEF Bad
  <2> QED
    BY <2>1, SmallestSubset
<1> DEFINE x == CHOOSE x \in V : TRUE
<1>2. V # {}
  BY DEF Adds
<1>3. x \in V /\ V \ {x} \in SUBSET U /\ V \ {x} # V
  BY <1>2
<1>4. g[V \ {x}] = h[V \ {x}]
  BY <1>1, <1>3
<1>5. g[V] = x.amount + g[V \ {x}] /\ h[V] = x.amount + h[V \ {x}]
  BY <1>2 DEF Adds
<1> QED
  BY <1>4, <1>5

(* The total of a subset can be read off any folding of a larger set.        *)
LEMMA TotalOfFold ==
    ASSUME NEW S, NEW g, Adds(g, S), NEW U, U \subseteq S, IsFiniteSet(U)
    PROVE  Total(U) = g[U]
<1> DEFINE h == [s \in SUBSET U |-> g[s]]
<1>1. Adds(h, U)
  <2>1. \A s \in SUBSET U :
          h[s] = IF s = {} THEN 0 ELSE LET x == CHOOSE x \in s : TRUE IN x.amount + h[s \ {x}]
    BY DEF Adds
  <2> QED
    BY <2>1 DEF Adds
<1>2. Adds(CHOOSE f : Adds(f, U), U)
  BY <1>1
<1> QED
  BY <1>2, FoldsAgree DEF Total

(* Every finite set can be folded.                                           *)
LEMMA FoldExists ==
    ASSUME NEW S, IsFiniteSet(S)
    PROVE  \E g : Adds(g, S)
<1> DEFINE Bad == {T \in SUBSET S : ~ \E g : Adds(g, T)}
<1> SUFFICES ASSUME Bad # {} PROVE FALSE
  OBVIOUS
<1>1. PICK T \in Bad : \A U \in Bad : U \subseteq T => U = T
  <2>1. Bad \subseteq SUBSET S
    OBVIOUS
  <2> HIDE DEF Bad
  <2> QED
    BY <2>1, SmallestSubset
<1> DEFINE h == [s \in SUBSET T |->
                   IF s = {} THEN 0
                   ELSE LET x == CHOOSE x \in s : TRUE IN x.amount + Total(s \ {x})]
<1>2. ASSUME NEW U \in SUBSET T, U # T
      PROVE  h[U] = Total(U)
  <2>1. PICK g : Adds(g, U)
    BY <1>1, <1>2
  <2>2. IsFiniteSet(U)
    BY FS_Subset
  <2>3. Total(U) = g[U]
    BY <2>1, <2>2, TotalOfFold
  <2>4. CASE U = {}
    BY <2>1, <2>3, <2>4 DEF Adds
  <2>5. CASE U # {}
    <3> DEFINE x == CHOOSE x \in U : TRUE
    <3>1. g[U] = x.amount + g[U \ {x}]
      BY <2>1, <2>5 DEF Adds
    <3>2. IsFiniteSet(U \ {x}) /\ U \ {x} \subseteq U
      BY <2>2, FS_Subset
    <3>3. Total(U \ {x}) = g[U \ {x}]
      BY <2>1, <3>2, TotalOfFold
    <3> QED
      BY <2>3, <2>5, <3>1, <3>3
  <2> QED
    BY <2>4, <2>5
<1>3. Adds(h, T)
  <2>1. ASSUME NEW s \in SUBSET T, s # {}
        PROVE  LET x == CHOOSE x \in s : TRUE IN h[s] = x.amount + h[s \ {x}]
    <3> DEFINE x == CHOOSE x \in s : TRUE
    <3>1. x \in s /\ s \ {x} \in SUBSET T /\ s \ {x} # T
      BY <2>1
    <3>2. h[s \ {x}] = Total(s \ {x})
      BY <1>2, <3>1
    <3>3. h[s] = x.amount + Total(s \ {x})
      BY <2>1
    <3> QED
      BY <3>2, <3>3
  <2> QED
    BY <2>1 DEF Adds
<1> QED
  BY <1>1, <1>3

(* The total of a finite set satisfies the equation that defines it.         *)
LEMMA TotalUnfolds ==
    ASSUME NEW S, IsFiniteSet(S)
    PROVE  Total(S) = IF S = {} THEN 0
                      ELSE LET x == CHOOSE x \in S : TRUE IN x.amount + Total(S \ {x})
<1>1. PICK g : Adds(g, S)
  BY FoldExists
<1>2. \A U \in SUBSET S : Total(U) = g[U]
  BY <1>1, TotalOfFold, FS_Subset
<1>3. g[S] = IF S = {} THEN 0
             ELSE LET x == CHOOSE x \in S : TRUE IN x.amount + g[S \ {x}]
  BY <1>1 DEF Adds
<1> QED
  BY <1>2, <1>3

(* Whichever entry is taken out, its amount is what the total loses.         *)
LEMMA TotalWithout ==
    ASSUME NEW S, IsFiniteSet(S), \A e \in S : e.amount \in Int
    PROVE  /\ Total(S) \in Int
           /\ \A e \in S : Total(S) = e.amount + Total(S \ {e})
<1> DEFINE Fine(T) == /\ Total(T) \in Int
                      /\ \A e \in T : Total(T) = e.amount + Total(T \ {e})
           Bad == {T \in SUBSET S : ~Fine(T)}
<1> SUFFICES ASSUME Bad # {} PROVE FALSE
  OBVIOUS
<1>1. PICK T \in Bad : \A U \in Bad : U \subseteq T => U = T
  <2>1. Bad \subseteq SUBSET S
    OBVIOUS
  <2> HIDE DEF Bad
  <2> QED
    BY <2>1, SmallestSubset
<1>2. \A U \in SUBSET T : U # T => Fine(U)
  BY <1>1
<1> HIDE DEF Bad
<1>3. IsFiniteSet(T) /\ T \in SUBSET S /\ ~Fine(T)
  BY <1>1, FS_Subset DEF Bad
<1>4. T # {}
  <2>1. Total({}) = 0
    BY FS_EmptySet, TotalUnfolds
  <2> QED
    BY <1>3, <2>1
<1> DEFINE x == CHOOSE x \in T : TRUE
<1>5. x \in T /\ x.amount \in Int
  BY <1>3, <1>4
<1>6. Total(T) = x.amount + Total(T \ {x})
  BY <1>3, <1>4, TotalUnfolds
<1> HIDE DEF x
<1>7. Fine(T \ {x})
  BY <1>2, <1>5
<1>8. ASSUME NEW e \in T, e # x
      PROVE  Total(T) = e.amount + Total(T \ {e})
  <2>1. Fine(T \ {e}) /\ Fine(T \ {x, e})
    BY <1>2, <1>5
  <2>2. Total(T \ {x}) = e.amount + Total(T \ {x, e})
    <3>1. (T \ {x}) \ {e} = T \ {x, e}
      OBVIOUS
    <3> QED
      BY <1>7, <1>8, <3>1
  <2>3. Total(T \ {e}) = x.amount + Total(T \ {x, e})
    <3>1. (T \ {e}) \ {x} = T \ {x, e}
      OBVIOUS
    <3> QED
      BY <1>5, <1>8, <2>1, <3>1
  <2>4. e.amount \in Int
    BY <1>3
  <2> QED
    BY <1>5, <1>6, <2>1, <2>2, <2>3, <2>4
<1>9. Total(T) \in Int
  BY <1>5, <1>6, <1>7
<1> QED
  BY <1>3, <1>6, <1>8, <1>9

(* An entry that is added adds its amount. *)
LEMMA TotalWith ==
    ASSUME NEW S, IsFiniteSet(S), \A e \in S : e.amount \in Int,
           NEW x, x \notin S, x.amount \in Int
    PROVE  IsFiniteSet(S \cup {x}) /\ Total(S \cup {x}) = Total(S) + x.amount
<1>1. IsFiniteSet(S \cup {x})
  BY FS_AddElement
<1>2. Total(S \cup {x}) = x.amount + Total((S \cup {x}) \ {x})
  BY <1>1, TotalWithout
<1>3. (S \cup {x}) \ {x} = S
  OBVIOUS
<1>4. Total(S) \in Int
  BY TotalWithout
<1>5. Total(S \cup {x}) = x.amount + Total(S)
  BY <1>2, <1>3
<1> QED
  BY <1>1, <1>4, <1>5

-----------------------------------------------------------------------------
(* Balances and the ledger *)

(* The entries of S on one side of an account, and what S comes to for it.   *)
Posted(S, a, d) == {e \in S : e.account = a /\ e.direction = d}
Net(S, a) == Total(Posted(S, a, "credit")) - Total(Posted(S, a, "debit"))

(* What compute_balance adds up, before and after a step. *)
LEMMA BalanceIsNet ==
    \A a : ComputeBalance(a) = Net(ledger, a) /\ ComputeBalance(a)' = Net(ledger', a)
  BY DEF ComputeBalance, MapThenSumSet, MapThenFoldSet, Net, Posted, Total, Adds

(* No entries come to nothing. *)
LEMMA NetOfNone == \A a : Net({}, a) = 0
<1>1. Total({}) = 0
  BY FS_EmptySet, TotalUnfolds
<1>2. \A a, d : Posted({}, a, d) = {}
  BY DEF Posted
<1> QED
  BY <1>1, <1>2 DEF Net

(* One more entry changes its own account, by its amount. *)
LEMMA NetWith ==
    ASSUME NEW S, IsFiniteSet(S), S \subseteq Entry, NEW e \in Entry, e \notin S, NEW a
    PROVE  /\ Net(S, a) \in Int
           /\ IsFiniteSet(S \cup {e}) /\ S \cup {e} \subseteq Entry
           /\ e.account # a => Net(S \cup {e}, a) = Net(S, a)
           /\ e.account = a /\ e.direction = "credit" =>
                Net(S \cup {e}, a) = Net(S, a) + e.amount
           /\ e.account = a /\ e.direction = "debit" =>
                Net(S \cup {e}, a) = Net(S, a) - e.amount
<1>1. \A f \in Entry : f.amount \in Int
  BY BoundsAssumption DEF Entry, Money
<1>2. ASSUME NEW d
      PROVE  /\ Total(Posted(S, a, d)) \in Int
             /\ Total(Posted(S \cup {e}, a, d)) =
                  IF e.account = a /\ e.direction = d
                  THEN Total(Posted(S, a, d)) + e.amount ELSE Total(Posted(S, a, d))
  <2>1. /\ IsFiniteSet(Posted(S, a, d)) /\ e \notin Posted(S, a, d)
        /\ \A f \in Posted(S, a, d) : f.amount \in Int
    BY <1>1, FS_Subset DEF Posted
  <2>2. Posted(S \cup {e}, a, d) =
          IF e.account = a /\ e.direction = d
          THEN Posted(S, a, d) \cup {e} ELSE Posted(S, a, d)
    BY DEF Posted
  <2>3. Total(Posted(S, a, d)) \in Int
    BY <2>1, TotalWithout
  <2>4. Total(Posted(S, a, d) \cup {e}) = Total(Posted(S, a, d)) + e.amount
    BY <1>1, <2>1, TotalWith
  <2> QED
    BY <2>2, <2>3, <2>4
<1>3. IsFiniteSet(S \cup {e})
  BY FS_AddElement
<1> DEFINE new == S \cup {e}
           c == Total(Posted(S, a, "credit"))
           d == Total(Posted(S, a, "debit"))
<1>4. /\ Total(Posted(new, a, "credit")) =
           IF e.account = a /\ e.direction = "credit" THEN c + e.amount ELSE c
      /\ Total(Posted(new, a, "debit")) =
           IF e.account = a /\ e.direction = "debit" THEN d + e.amount ELSE d
      /\ c \in Int /\ d \in Int /\ e.amount \in Int
  BY <1>1, <1>2
<1>5. /\ Net(S, a) = c - d
      /\ Net(new, a) = Total(Posted(new, a, "credit")) - Total(Posted(new, a, "debit"))
  BY DEF Net
<1> HIDE DEF new, c, d
<1>6. e.account # a => Net(new, a) = Net(S, a)
  BY <1>4, <1>5
<1>7. e.account = a /\ e.direction = "credit" => Net(new, a) = Net(S, a) + e.amount
  BY <1>4, <1>5
<1>8. e.account = a /\ e.direction = "debit" => Net(new, a) = Net(S, a) - e.amount
  BY <1>4, <1>5
<1> QED
  BY <1>3, <1>4, <1>5, <1>6, <1>7, <1>8 DEF new

(* The ledger is finite and every balance is the sum of its entries.         *)
SumsInv == IsFiniteSet(ledger) /\ BalanceMatchesLedger

(* A manual credit adds one new entry and its amount.                        *)
LEMMA CreditKeepsSums ==
    ASSUME IInv, SumsInv, NEW x \in Adjustments, NEW row \in AdjustmentRow,
           Ledger!Credit(x, row)
    PROVE  SumsInv'
<1> DEFINE e == AdjustmentEntry(x, row)
<1>1. /\ adjustments[x] = None
      /\ ledger' = ledger \cup {e}
      /\ balance' = [balance EXCEPT ![row.account] = @ + row.amount]
  <2>1. e = Ledger!AdjustmentEntry(x, row)
    BY DEF AdjustmentEntry, Ledger!AdjustmentEntry
  <2> QED
    BY <2>1 DEF Ledger!Credit
<1>2. e \in Entry /\ e.account = row.account /\ e.amount = row.amount /\ e.direction = "credit"
  BY EntriesTyped DEF AdjustmentEntry
<1>3. e \notin ledger
  BY <1>1 DEF IInv, BooksInv, LedgerMatchesRecords, DebitEntry, CreditEntry, AdjustmentEntry
<1>4. ledger \subseteq Entry /\ balance \in [Accounts -> Int]
  BY BoundsAssumption DEF IInv, TypeOK, Money
<1>5. ASSUME NEW a \in Accounts PROVE balance'[a] = Net(ledger', a)
  <2>1. balance[a] = Net(ledger, a)
    BY BalanceIsNet DEF SumsInv, BalanceMatchesLedger
  <2>2. balance'[a] = IF e.account = a THEN balance[a] + e.amount ELSE balance[a]
    BY <1>1, <1>2, <1>4
  <2> HIDE DEF e
  <2>3. /\ e.account # a => Net(ledger \cup {e}, a) = Net(ledger, a)
        /\ e.account = a => Net(ledger \cup {e}, a) = Net(ledger, a) + e.amount
    <3>1. IsFiniteSet(ledger) /\ ledger \subseteq Entry /\ e \in Entry /\ e \notin ledger
      BY <1>2, <1>3, <1>4 DEF SumsInv
    <3> QED
      BY <1>2, <3>1, NetWith
  <2> QED
    BY <1>1, <2>1, <2>2, <2>3
<1>6. IsFiniteSet(ledger')
  BY <1>1, FS_AddElement DEF SumsInv
<1> QED
  BY <1>5, <1>6, BalanceIsNet DEF SumsInv, BalanceMatchesLedger

(* A settlement adds two new entries, one to each of two accounts.           *)
LEMMA SettleKeepsSums ==
    ASSUME IInv, SumsInv, NEW q \in Quotes, NEW k \in Keys, Ledger!Settle(q, k)
    PROVE  SumsInv'
<1> DEFINE t == quotes[q]
           d == DebitEntry(q, t)
           c == CreditEntry(q, t)
<1>1. /\ t # None /\ q \notin executions
      /\ ledger' = (ledger \cup {d}) \cup {c}
      /\ balance' = [balance EXCEPT ![t.source] = @ - t.debit,
                                    ![t.destination] = @ + t.credit]
  <2>1. d = Ledger!DebitEntry(q, t) /\ c = Ledger!CreditEntry(q, t)
    BY DEF DebitEntry, CreditEntry, Ledger!DebitEntry, Ledger!CreditEntry
  <2> QED
    BY <2>1 DEF Ledger!Settle
<1>2. /\ t \in Terms /\ t.source # t.destination
      /\ t.source \in Accounts /\ t.destination \in Accounts
      /\ t.debit \in Int /\ t.credit \in Int
  BY <1>1, BoundsAssumption DEF IInv, TypeOK, BooksInv, QuotesInv, Terms, Money
<1>3. /\ d \in Entry /\ d.account = t.source /\ d.amount = t.debit /\ d.direction = "debit"
      /\ c \in Entry /\ c.account = t.destination /\ c.amount = t.credit
      /\ c.direction = "credit"
  BY <1>2, EntriesTyped DEF DebitEntry, CreditEntry
<1>4. d \notin ledger /\ c \notin ledger \cup {d}
  BY <1>1 DEF IInv, BooksInv, LedgerMatchesRecords, DebitEntry, CreditEntry, AdjustmentEntry
<1>5. ledger \subseteq Entry /\ balance \in [Accounts -> Int]
  BY BoundsAssumption DEF IInv, TypeOK, Money
<1>6. ASSUME NEW a \in Accounts PROVE balance'[a] = Net(ledger', a)
  <2>1. balance[a] = Net(ledger, a)
    BY BalanceIsNet DEF SumsInv, BalanceMatchesLedger
  <2>2. balance'[a] = IF a = t.source THEN balance[a] - t.debit
                      ELSE IF a = t.destination THEN balance[a] + t.credit
                      ELSE balance[a]
    BY <1>1, <1>2, <1>5
  <2> HIDE DEF t, d, c
  <2>3. /\ Net(ledger, a) \in Int
        /\ IsFiniteSet(ledger \cup {d}) /\ ledger \cup {d} \subseteq Entry
        /\ Net(ledger \cup {d}, a) =
             IF a = t.source THEN Net(ledger, a) - t.debit ELSE Net(ledger, a)
    <3>1. IsFiniteSet(ledger) /\ ledger \subseteq Entry /\ d \in Entry /\ d \notin ledger
      BY <1>3, <1>4, <1>5 DEF SumsInv
    <3>2. /\ Net(ledger, a) \in Int
          /\ IsFiniteSet(ledger \cup {d}) /\ ledger \cup {d} \subseteq Entry
          /\ d.account # a => Net(ledger \cup {d}, a) = Net(ledger, a)
          /\ d.account = a /\ d.direction = "debit" =>
               Net(ledger \cup {d}, a) = Net(ledger, a) - d.amount
      BY <3>1, NetWith
    <3> QED
      BY <1>3, <3>2
  <2>4. Net(ledger', a) = IF a = t.destination
                          THEN Net(ledger \cup {d}, a) + t.credit ELSE Net(ledger \cup {d}, a)
    <3> DEFINE S == ledger \cup {d}
    <3>1. IsFiniteSet(S) /\ S \subseteq Entry /\ c \in Entry /\ c \notin S
      BY <1>3, <1>4, <2>3
    <3>2. ledger' = S \cup {c}
      BY <1>1
    <3> HIDE DEF S
    <3>3. Net(S \cup {c}, a) = IF a = t.destination THEN Net(S, a) + t.credit ELSE Net(S, a)
      BY <1>3, <3>1, NetWith
    <3> QED
      BY <3>2, <3>3 DEF S
  <2> QED
    BY <1>2, <2>1, <2>2, <2>3, <2>4
<1>7. IsFiniteSet(ledger')
  BY <1>1, FS_AddElement DEF SumsInv
<1> QED
  BY <1>6, <1>7, BalanceIsNet DEF SumsInv, BalanceMatchesLedger

(* Every other step leaves balances and ledger alone.                        *)
LEMMA StepKeepsSums == ASSUME IInv, SumsInv, [Next]_vars PROVE SumsInv'
<1>1. CASE UNCHANGED <<balance, ledger>>
  BY <1>1, BalanceIsNet DEF SumsInv, BalanceMatchesLedger
<1>2. ASSUME NEW x \in Adjustments, NEW row \in Ledger!AdjustmentRow, Ledger!Credit(x, row)
      PROVE  SumsInv'
  <2>1. row \in AdjustmentRow
    BY DEF AdjustmentRow, Ledger!AdjustmentRow, Accounts, Ledger!Accounts, Money, Ledger!Money
  <2> QED
    BY <1>2, <2>1, CreditKeepsSums
<1>3. CASE \E q \in Quotes, k \in Keys : Ledger!Settle(q, k)
  BY <1>3, SettleKeepsSums
<1> QED
  BY <1>1, <1>2, <1>3, StepRefines
  DEF books, Ledger!Next, Ledger!OpenCustomer, Ledger!Publish

(* The materialized balance of an account is always the sum of its ledger    *)
(* entries, as compute_balance adds them up, for any number of workers,      *)
(* crashes and failures.                                                     *)
THEOREM BalancesAreSums == Spec => []BalanceMatchesLedger
<1>1. Init => SumsInv
  <2> SUFFICES ASSUME Init PROVE SumsInv
    OBVIOUS
  <2>1. ledger = {} /\ \A a \in Accounts : balance[a] = 0
    BY DEF Init
  <2> QED
    BY <2>1, BalanceIsNet, NetOfNone, FS_EmptySet DEF SumsInv, BalanceMatchesLedger
<1>2. IInv /\ SumsInv /\ [Next]_vars => SumsInv'
  BY StepKeepsSums
<1>3. SumsInv => BalanceMatchesLedger
  BY DEF SumsInv
<1> QED
  BY <1>1, <1>2, <1>3, Invariance, PTL DEF Spec

-----------------------------------------------------------------------------
(* Balances in memory *)

(* What a single entry comes to. *)
LEMMA NetOfOne ==
    ASSUME NEW e \in Entry, NEW a
    PROVE  /\ IsFiniteSet({e}) /\ {e} \subseteq Entry
           /\ e.account # a => Net({e}, a) = 0
           /\ e.account = a /\ e.direction = "credit" => Net({e}, a) = e.amount
           /\ e.account = a /\ e.direction = "debit" => Net({e}, a) = 0 - e.amount
<1> DEFINE S == {}
<1>1. /\ IsFiniteSet(S) /\ S \subseteq Entry /\ e \notin S
      /\ Net(S, a) = 0 /\ S \cup {e} = {e}
  BY NetOfNone, FS_EmptySet
<1>2. e.amount \in Int
  BY BoundsAssumption DEF Entry, Money
<1> HIDE DEF S
<1>3. /\ IsFiniteSet(S \cup {e}) /\ S \cup {e} \subseteq Entry
      /\ e.account # a => Net(S \cup {e}, a) = Net(S, a)
      /\ e.account = a /\ e.direction = "credit" =>
           Net(S \cup {e}, a) = Net(S, a) + e.amount
      /\ e.account = a /\ e.direction = "debit" =>
           Net(S \cup {e}, a) = Net(S, a) - e.amount
  BY <1>1, NetWith
<1> QED
  BY <1>1, <1>2, <1>3

(* A transaction can only have locked the accounts that its request names.   *)
LEMMA HeldAccounts ==
    ASSUME IInv, NEW w \in Workers, NEW a \in Accounts, Holds(w, a)
    PROVE  /\ pc[w] \in {"credit", "commit"} => a \in {TermsOf(w).source, TermsOf(w).destination}
           /\ pc[w] = "commit_credit" => a = req[w].account
<1>1. <<"balance", a>> \in Lockable(w)
  BY RowsHaveKinds DEF IInv, WorkerInv, OwnedInv, Holds
<1> QED
  BY <1>1 DEF Lockable, WithKey, WithQuote, PastChecks, WithCreditAccount

(* What the entries of a transaction come to, for each of its accounts.      *)
LEMMA StagedNet ==
    ASSUME IInv, NEW w \in Workers, NEW a \in Accounts, Holds(w, a)
    PROVE  /\ IsFiniteSet(staged[w]) /\ staged[w] \subseteq Entry
           /\ held[w][a] = balance[a] + Net(staged[w], a)
<1>1. PendingInv(w) /\ balance[a] \in Int
  BY BoundsAssumption DEF IInv, TypeOK, WorkerInv, Money
<1>2. IsFiniteSet({}) /\ {} \subseteq Entry /\ Net({}, a) = 0
  BY NetOfNone, FS_EmptySet
<1>3. CASE pc[w] \notin {"credit", "commit", "commit_credit"}
  <2>1. staged[w] = {} /\ held[w][a] = balance[a]
    BY <1>1, <1>3 DEF PendingInv
  <2> QED
    BY <1>1, <1>2, <2>1
<1>4. CASE pc[w] \in {"credit", "commit"}
  <2> DEFINE q == req[w].quote
             t == TermsOf(w)
             d == DebitEntry(q, t)
             c == CreditEntry(q, t)
  <2>1. /\ q \in Quotes /\ t \in Terms /\ t.source # t.destination
        /\ t.debit \in Int /\ t.credit \in Int
    BY <1>4, TermsTyped, BoundsAssumption DEF Money, WithQuote, WithKey
  <2>2. /\ d \in Entry /\ d.account = t.source /\ d.amount = t.debit /\ d.direction = "debit"
        /\ c \in Entry /\ c.account = t.destination /\ c.amount = t.credit
        /\ c.direction = "credit"
    BY <2>1, EntriesTyped DEF DebitEntry, CreditEntry
  <2>3. a = t.source \/ a = t.destination
    BY <1>4, HeldAccounts
  <2>4. held[w][t.source] = balance[t.source] - t.debit
    BY <1>1, <1>4 DEF PendingInv
  <2>5. /\ IsFiniteSet({d}) /\ {d} \subseteq Entry
        /\ d.account # a => Net({d}, a) = 0
        /\ d.account = a => Net({d}, a) = 0 - d.amount
    BY <2>2, NetOfOne
  <2>6. CASE pc[w] = "credit"
    <3>1. staged[w] = {d} /\ held[w][t.destination] = balance[t.destination]
      BY <1>1, <2>6 DEF PendingInv
    <3> HIDE DEF t, d
    <3> QED
      BY <1>1, <2>1, <2>2, <2>3, <2>4, <2>5, <3>1
  <2>7. CASE pc[w] = "commit"
    <3>1. /\ staged[w] = {d} \cup {c}
          /\ held[w][t.destination] = balance[t.destination] + t.credit
      BY <1>1, <2>7 DEF PendingInv
    <3>2. c \notin {d}
      BY <2>2
    <3>3. /\ IsFiniteSet({d} \cup {c}) /\ {d} \cup {c} \subseteq Entry
          /\ c.account # a => Net({d} \cup {c}, a) = Net({d}, a)
          /\ c.account = a => Net({d} \cup {c}, a) = Net({d}, a) + c.amount
      BY <2>2, <2>5, <3>2, NetWith
    <3> HIDE DEF t, d, c
    <3>4. IsFiniteSet(staged[w]) /\ staged[w] \subseteq Entry
      BY <3>1, <3>3
    <3>5. CASE a = t.source
      <4>1. d.account = a /\ c.account # a
        BY <2>1, <2>2, <3>5
      <4>2. Net({d}, a) = 0 - t.debit
        BY <2>2, <2>5, <4>1
      <4>3. Net(staged[w], a) = 0 - t.debit
        BY <3>1, <3>3, <4>1, <4>2
      <4> QED
        BY <1>1, <2>1, <2>4, <3>4, <3>5, <4>3
    <3>6. CASE a = t.destination
      <4>1. d.account # a /\ c.account = a
        BY <2>1, <2>2, <3>6
      <4>2. Net({d}, a) = 0
        BY <2>5, <4>1
      <4>3. Net({d} \cup {c}, a) = 0 + t.credit
        BY <2>2, <3>3, <4>1, <4>2
      <4>4. 0 + t.credit = t.credit
        BY <2>1
      <4>5. Net(staged[w], a) = t.credit
        BY <3>1, <4>3, <4>4
      <4> QED
        BY <3>1, <3>4, <3>6, <4>5
    <3> QED
      BY <2>3, <3>5, <3>6
  <2> QED
    BY <1>4, <2>6, <2>7
<1>5. CASE pc[w] = "commit_credit"
  <2> DEFINE row == [account |-> req[w].account, amount |-> req[w].amount]
             e == AdjustmentEntry(req[w].adjustment, row)
  <2>1. a = req[w].account
    BY <1>5, HeldAccounts
  <2>2. req[w].adjustment \in Adjustments /\ row \in AdjustmentRow
    BY <1>5, AtCommitCredit
  <2>3. e \in Entry /\ e.account = a /\ e.amount = req[w].amount /\ e.direction = "credit"
    BY <2>1, <2>2, EntriesTyped DEF AdjustmentEntry
  <2>4. staged[w] = {e} /\ held[w][a] = balance[a] + e.amount
    BY <1>1, <1>5, <2>1, <2>3 DEF PendingInv
  <2>5. e.amount \in Int
    BY <2>3, BoundsAssumption DEF Entry, Money
  <2>6. IsFiniteSet({e}) /\ {e} \subseteq Entry /\ Net({e}, a) = e.amount
    BY <2>3, NetOfOne
  <2> HIDE DEF e
  <2> QED
    BY <1>1, <1>2, <2>4, <2>5, <2>6
<1> QED
  BY <1>3, <1>4, <1>5

(* A balance that a transaction has locked and loaded differs from the       *)
(* committed one by what that transaction has posted: no commit overwrites   *)
(* the movement of another, however many workers there are.                  *)
THEOREM UpdatesKept == Spec => []NoLostUpdate
<1>1. IInv => NoLostUpdate
  <2> SUFFICES ASSUME IInv, NEW w \in Workers, NEW a \in Accounts, Holds(w, a)
               PROVE  LET posted(d) == {e \in staged[w] : e.account = a /\ e.direction = d}
                          amount(e) == e.amount
                      IN held[w][a] = balance[a] + MapThenSumSet(amount, posted("credit"))
                                                 - MapThenSumSet(amount, posted("debit"))
    BY DEF NoLostUpdate
  <2> DEFINE credits == Total(Posted(staged[w], a, "credit"))
             debits == Total(Posted(staged[w], a, "debit"))
  <2>1. credits \in Int /\ debits \in Int
    <3>1. \A e \in Entry : e.amount \in Int
      BY BoundsAssumption DEF Entry, Money
    <3>2. IsFiniteSet(staged[w]) /\ staged[w] \subseteq Entry
      BY StagedNet
    <3>3. ASSUME NEW d PROVE Total(Posted(staged[w], a, d)) \in Int
      <4>1. /\ IsFiniteSet(Posted(staged[w], a, d))
            /\ \A e \in Posted(staged[w], a, d) : e.amount \in Int
        BY <3>1, <3>2, FS_Subset DEF Posted
      <4> QED
        BY <4>1, TotalWithout
    <3> QED
      BY <3>3
  <2>2. balance[a] \in Int
    BY BoundsAssumption DEF IInv, TypeOK, Money
  <2>3. held[w][a] = balance[a] + (credits - debits)
    BY StagedNet DEF Net
  <2>4. held[w][a] = balance[a] + credits - debits
    BY <2>1, <2>2, <2>3
  <2> QED
    BY <2>4 DEF MapThenSumSet, MapThenFoldSet, Posted, Total, Adds
<1> QED
  BY <1>1, Invariance, PTL

-----------------------------------------------------------------------------
(* The course of a request *)

(* A step of one worker leaves to the others everything of their own.        *)
LEMMA StepIsOwn ==
    ASSUME IInv, NEW w \in Workers, NEW v \in Workers \ {w},
           LockStep(w) \/ LocalStep(w) \/ Arrival(w) \/ Fault(w) \/ Crash(w)
    PROVE  UNCHANGED <<pc[v], req[v], held[v], staged[v], reply[v]>>
<1>1. pc'[v] = pc[v] /\ req'[v] = req[v]
  BY WorkerStep
<1> DEFINE Kept == held'[v] = held[v] /\ staged'[v] = staged[v] /\ reply'[v] = reply[v]
<1> SUFFICES Kept
  BY <1>1
<1>2. ASSUME NEW code, NEW body, EndTransaction(w), Answer(w, code, body) PROVE Kept
  BY <1>2, Released DEF Answer, IInv, TypeOK
<1>3. ASSUME NEW a, ReadForUpdate(w, a), UNCHANGED <<staged, reply>> PROVE Kept
  BY <1>3 DEF ReadForUpdate, IInv, TypeOK
<1>4. ASSUME EndTransaction(w), UNCHANGED reply PROVE Kept
  BY <1>4, Released
<1>5. ASSUME NEW code, Fail(w, code) PROVE Kept
  BY <1>2, <1>5 DEF Fail
<1>6. CASE LockStep(w)
  BY <1>3, <1>5, <1>6 DEF LockStep, ClaimKey, LockQuote, LockAccount, LockCreditAccount
<1>7. CASE LocalStep(w)
  <2>1. CASE CheckKey(w) \/ CheckQuote(w)
    BY <1>2, <1>5, <2>1 DEF CheckKey, CheckQuote
  <2>2. CASE Debit(w) \/ CreditDestination(w) \/ PostCredit(w)
    BY <1>5, <2>2 DEF Debit, CreditDestination, PostCredit, Append, IInv, TypeOK
  <2>3. CASE Commit(w) \/ CommitCredit(w)
    BY <1>4, <1>5, <2>3 DEF Commit, CommitCredit
  <2>4. CASE Respond(w) \/ RespondCredit(w)
    BY <2>4 DEF Respond, RespondCredit, Answer, IInv, TypeOK
  <2> QED
    BY <1>7, <2>1, <2>2, <2>3, <2>4 DEF LocalStep
<1>8. CASE Arrival(w)
  BY <1>8 DEF Arrival, Submit, BeginCredit, Answer, IInv, TypeOK
<1>9. CASE Fault(w) \/ Crash(w)
  BY <1>4, <1>5, <1>9 DEF Fault, Crash
<1> QED
  BY <1>6, <1>7, <1>8, <1>9

(* Its own step brings a request on, or to its end.                          *)
LEMMA OwnStepAdvances ==
    ASSUME IInv, NEW w \in Workers, pc[w] # "idle",
           LockStep(w) \/ LocalStep(w) \/ Arrival(w) \/ Fault(w) \/ Crash(w)
    PROVE  pc'[w] = "idle" \/ Progress(w)' > Progress(w)
<1> DEFINE Done == pc'[w] = "idle" \/ Progress(w)' > Progress(w)
<1>1. \A point : Goto(w, point) => pc'[w] = point
  BY DEF Goto, IInv, TypeOK
<1>2. ASSUME NEW code, NEW body, Answer(w, code, body) PROVE Done
  BY <1>1, <1>2 DEF Answer
<1>3. ASSUME NEW code, Fail(w, code) PROVE Done
  BY <1>2, <1>3 DEF Fail
<1> USE DEF Progress, Stage
<1>4. CASE LockAccount(w)
  <2> DEFINE n == NextAccount(w)
             s == TermsOf(w).source
             d == TermsOf(w).destination
  <2>1. pc[w] = "lock_accounts" /\ Take(w, <<"balance", n>>)
        /\ Goto(w, IF Unlocked(w) = {n} THEN "debit" ELSE "lock_accounts")
    BY <1>4 DEF LockAccount, ReadForUpdate
  <2>2. n \in Unlocked(w) /\ n \in Accounts /\ Unlocked(w) \subseteq {s, d}
    BY <2>1, NextAccountIsUnlocked DEF Unlocked
  <2>3. CASE Unlocked(w) = {n}
    BY <1>1, <2>1, <2>3
  <2>4. CASE Unlocked(w) # {n}
    <3>1. \A a \in Accounts : ~Holds(w, a)
      <4> SUFFICES ASSUME NEW a \in Accounts, Holds(w, a) PROVE FALSE
        OBVIOUS
      <4>1. <<"balance", a>> \in Lockable(w)
        BY RowsHaveKinds DEF IInv, WorkerInv, OwnedInv, Holds
      <4>2. a \in {s, d} /\ a \notin Unlocked(w)
        BY <2>1, <4>1
        DEF Lockable, Unlocked, WithKey, WithQuote, PastChecks, WithCreditAccount
      <4> QED
        BY <2>2, <2>4, <4>2
    <3>2. \E a \in Accounts : Holds(w, a)'
      <4>1. PICK a \in Accounts : a = n
        BY <2>2
      <4>2. <<"balance", a>> \in Rows /\ Take(w, <<"balance", a>>)
        BY <2>1, <4>1, RowsHaveKinds
      <4>3. lock'[<<"balance", a>>] = w
        BY <4>2, Taken
      <4> QED
        BY <4>3 DEF Holds
    <3>3. pc'[w] = "lock_accounts"
      BY <1>1, <2>1, <2>4
    <3>4. Progress(w) = 5
      BY <2>1, <3>1
    <3>5. Progress(w)' = 6
      BY <3>2, <3>3
    <3> QED
      BY <3>4, <3>5
  <2> QED
    BY <2>3, <2>4
<1>5. CASE ClaimKey(w) \/ LockQuote(w) \/ LockCreditAccount(w)
  BY <1>1, <1>3, <1>5 DEF ClaimKey, LockQuote, LockCreditAccount
<1>6. CASE CheckKey(w)
  BY <1>1, <1>2, <1>3, <1>6 DEF CheckKey
<1>7. CASE CheckQuote(w)
  BY <1>1, <1>3, <1>7 DEF CheckQuote
<1>8. CASE Debit(w) \/ CreditDestination(w) \/ PostCredit(w)
  BY <1>1, <1>3, <1>8 DEF Debit, CreditDestination, PostCredit
<1>9. CASE Commit(w) \/ CommitCredit(w)
  BY <1>1, <1>3, <1>9 DEF Commit, CommitCredit
<1>10. CASE Respond(w) \/ RespondCredit(w)
  BY <1>2, <1>10 DEF Respond, RespondCredit
<1>11. CASE Fault(w) \/ Crash(w)
  BY <1>1, <1>3, <1>11 DEF Fault, Crash
<1>12. ~Arrival(w)
  BY DEF Arrival, Submit, BeginCredit
<1> QED
  BY <1>4, <1>5, <1>6, <1>7, <1>8, <1>9, <1>10, <1>11, <1>12 DEF LockStep, LocalStep

(* No step takes a request back: with ten steps of its own it has ended.     *)
THEOREM RequestsOnlyAdvance == Spec => RequestsAdvance
<1> DEFINE Moves(w) == pc[w] # "idle" =>
             \/ UNCHANGED <<pc[w], req[w], held[w], staged[w], reply[w]>>
             \/ pc'[w] = "idle"
             \/ Progress(w)' > Progress(w)
           Advance == \A w \in Workers : Moves(w)
<1>1. IInv /\ [Next]_vars => [Advance]_vars
  <2> SUFFICES ASSUME IInv, Next, NEW v \in Workers
               PROVE  Moves(v)
    OBVIOUS
  <2>1. CASE Environment
    BY <2>1 DEF Environment, CreateCustomer, CreateQuote, Tick, workers
  <2>2. ASSUME NEW w \in Workers,
               LockStep(w) \/ LocalStep(w) \/ Arrival(w) \/ Fault(w) \/ Crash(w)
        PROVE  Moves(v)
    <3>1. CASE v = w
      BY <2>2, <3>1, OwnStepAdvances
    <3>2. CASE v # w
      BY <2>2, <3>2, StepIsOwn
    <3> QED
      BY <3>1, <3>2
  <2> QED
    BY <2>1, <2>2 DEF Next
<1>2. Spec => [][Advance]_vars
  BY <1>1, Invariance, PTL DEF Spec
<1> QED
  BY <1>2 DEF RequestsAdvance

(* Unless all are idle, the statement of some request waits for nobody:      *)
(* every lock it asks for is free.                                           *)
SomebodyGoesOn ==
    (\E w \in Workers : pc[w] # "idle") =>
        \E w \in Workers : pc[w] # "idle" /\ \A r \in Wanted(w) \cap Rows : lock[r] = None

(* Together with RequestsOnlyAdvance: the requests under way cannot block    *)
(* each other, and none goes on for ever. What is left to the scheduler is   *)
(* to let the one that can go on go on.                                      *)
THEOREM NeverAllWaiting == Spec => []SomebodyGoesOn
<1>1. IInv /\ NoWaitCycle => SomebodyGoesOn
  <2> SUFFICES ASSUME IInv, NoWaitCycle, NEW u \in Workers, pc[u] # "idle"
               PROVE  \E w \in Workers :
                        pc[w] # "idle" /\ \A r \in Wanted(w) \cap Rows : lock[r] = None
    BY DEF SomebodyGoesOn
  <2> DEFINE busy == {w \in Workers : pc[w] # "idle"}
  <2>1. PICK w \in busy : \A v \in busy : ~WaitsFor(w, v)
    BY DEF NoWaitCycle
  <2>2. ASSUME NEW r \in Rows, lock[r] # None PROVE lock[r] \in busy
    <3>1. lock[r] \in Workers
      BY <2>2 DEF IInv, TypeOK
    <3>2. r \in Lockable(lock[r])
      BY <3>1 DEF IInv, WorkerInv, OwnedInv
    <3> QED
      BY <3>1, <3>2 DEF Lockable, WithKey, WithQuote, PastChecks, WithCreditAccount
  <2> QED
    BY <2>1, <2>2 DEF WaitsFor
<1> QED
  BY <1>1, Invariance, NoDeadlock, PTL

-----------------------------------------------------------------------------
(* Internal errors *)

(* Wherever an execution or a credit ends in an internal error that is no    *)
(* fault of the system, it is one of the two known ones.                     *)
LEMMA ErrorExplained ==
    ASSUME IInv, NEW w \in Workers, LocalStep(w) \/ LockStep(w) \/ Arrival(w),
           reply'[w] # reply[w], Answered(w, Failures \ {"system_fault"})'
    PROVE  IF req[w] \in ExecuteRequest
           THEN LET t == TermsOf(w)
                IN \/ t.debit = 0 \/ t.credit = 0
                   \/ balance[t.destination] + t.credit > MaxMoney
           ELSE \/ req[w].amount = 0
                \/ balance[req[w].account] + req[w].amount > MaxMoney
<1> DEFINE Codes == Failures \ {"system_fault"}
<1>1. \A code, body : Answer(w, code, body) => code \in Codes
  BY DEF Answer, Answered, IInv, TypeOK
<1>2. \A code : Fail(w, code) => code \in Codes
  BY <1>1 DEF Fail
<1> USE DEF Failures
<1>3. CASE Debit(w)
  <2>1. pc[w] = "debit" /\ req[w] \in ExecuteRequest
    BY <1>3 DEF Debit, IInv, WorkerInv, RequestInv, ExecutePoints
  <2>2. req[w].quote \notin executions
    BY <2>1 DEF IInv, WorkerInv, LockInv, PastChecks, WithQuote, WithKey
  <2> QED
    BY <1>2, <1>3, <2>1, <2>2 DEF Debit
<1>4. CASE CreditDestination(w)
  <2>1. pc[w] = "credit" /\ req[w] \in ExecuteRequest
    BY <1>4 DEF CreditDestination, IInv, WorkerInv, RequestInv, ExecutePoints
  <2>2. ~(held[w][TermsOf(w).source] < 0)
    <3>1. /\ held[w][TermsOf(w).source] = balance[TermsOf(w).source] - TermsOf(w).debit
          /\ TermsOf(w).debit <= balance[TermsOf(w).source]
      BY <2>1 DEF IInv, WorkerInv, PendingInv
    <3>2. TermsOf(w).debit \in Nat /\ balance[TermsOf(w).source] \in Nat
      BY <2>1, TermsTyped, BoundsAssumption DEF WithQuote, WithKey, IInv, TypeOK, Money
    <3> QED
      BY <3>1, <3>2
  <2> QED
    BY <1>2, <1>4, <2>1, <2>2 DEF CreditDestination
<1>5. CASE Commit(w)
  <2>1. pc[w] = "commit" /\ req[w] \in ExecuteRequest
    BY <1>5 DEF Commit, IInv, WorkerInv, RequestInv, ExecutePoints
  <2>2. held[w][TermsOf(w).destination] > MaxMoney
    BY <1>5 DEF Commit
  <2>3. held[w][TermsOf(w).destination] = balance[TermsOf(w).destination] + TermsOf(w).credit
    BY <2>1 DEF IInv, WorkerInv, PendingInv
  <2> QED
    BY <2>1, <2>2, <2>3
<1>6. CASE PostCredit(w)
  <2>1. req[w] \in CreditRequest
    BY <1>6 DEF PostCredit, IInv, WorkerInv, RequestInv, CreditPoints
  <2> QED
    BY <1>6, <2>1, RequestsDiffer DEF PostCredit
<1>7. CASE CommitCredit(w)
  <2>1. pc[w] = "commit_credit" /\ req[w] \in CreditRequest
    BY <1>7 DEF CommitCredit, IInv, WorkerInv, RequestInv, CreditPoints
  <2>2. held[w][req[w].account] > MaxMoney
    BY <1>7 DEF CommitCredit
  <2>3. held[w][req[w].account] = balance[req[w].account] + req[w].amount
    BY <2>1 DEF IInv, WorkerInv, PendingInv
  <2> QED
    BY <2>1, <2>2, <2>3, RequestsDiffer
<1>8. CASE CheckKey(w)
  BY <1>1, <1>2, <1>8 DEF CheckKey
<1>9. CASE CheckQuote(w)
  BY <1>2, <1>9 DEF CheckQuote
<1>10. CASE Respond(w) \/ RespondCredit(w)
  BY <1>1, <1>10 DEF Respond, RespondCredit
<1>11. CASE LockStep(w)
  BY <1>2, <1>11 DEF LockStep, ClaimKey, LockQuote, LockAccount, LockCreditAccount
<1>12. CASE Arrival(w)
  <2>1. ASSUME NEW q \in Quotes, NEW k \in Keys \cup {EmptyKey}, Submit(w, q, k) PROVE FALSE
    BY <2>1 DEF Submit, Answered, IInv, TypeOK
  <2>2. ASSUME NEW x \in Adjustments, NEW a \in Accounts, NEW m \in CreditAmounts,
               BeginCredit(w, x, a, m)
        PROVE  FALSE
    <3>1. CASE reply' = [reply EXCEPT ![w] = None]
      BY <3>1 DEF Answered, IInv, TypeOK
    <3> QED
      BY <1>1, <2>2, <3>1 DEF BeginCredit
  <2> QED
    BY <1>12, <2>1, <2>2 DEF Arrival
<1> QED
  BY <1>3, <1>4, <1>5, <1>6, <1>7, <1>8, <1>9, <1>10, <1>11, <1>12 DEF LocalStep

(* An internal error is a fault of the system, an amount that rounded to     *)
(* nothing or a balance beyond its column, and never anything else.          *)
THEOREM ErrorsExplained == Spec => InternalErrorsExplained
<1> DEFINE Explained(w) ==
             reply'[w] # reply[w] /\ Answered(w, Failures \ {"system_fault"})' =>
               IF req[w] \in ExecuteRequest
               THEN LET t == TermsOf(w)
                    IN \/ t.debit = 0 \/ t.credit = 0
                       \/ balance[t.destination] + t.credit > MaxMoney
               ELSE \/ req[w].amount = 0
                    \/ balance[req[w].account] + req[w].amount > MaxMoney
           AllExplained == \A w \in Workers : Explained(w)
<1>1. IInv /\ [Next]_vars => [AllExplained]_vars
  <2> SUFFICES ASSUME IInv, Next, NEW v \in Workers, reply'[v] # reply[v],
                      Answered(v, Failures \ {"system_fault"})'
               PROVE  Explained(v)
    OBVIOUS
  <2>1. ~Environment
    BY DEF Environment, CreateCustomer, CreateQuote, Tick, workers
  <2>2. PICK w \in Workers : LockStep(w) \/ LocalStep(w) \/ Arrival(w) \/ Fault(w) \/ Crash(w)
    BY <2>1 DEF Next
  <2>3. w = v
    BY <2>2, StepIsOwn
  <2>4. ~Crash(v)
    BY DEF Crash
  <2>5. ~Fault(v)
    <3>1. Fault(v) => reply' = [reply EXCEPT ![v] = [code |-> "system_fault", body |-> None]]
      BY DEF Fault, Fail, Answer
    <3> QED
      BY <3>1 DEF Answered, IInv, TypeOK
  <2> QED
    BY <2>2, <2>3, <2>4, <2>5, ErrorExplained
<1>2. Spec => [][AllExplained]_vars
  BY <1>1, Invariance, PTL DEF Spec
<1> QED
  BY <1>2 DEF InternalErrorsExplained

-----------------------------------------------------------------------------
(* History *)

(* No step of the ledger rewrites or removes what is on record. *)
LEMMA LedgerStepKeepsHistory ==
    ASSUME IInv, Ledger!Next \/ UNCHANGED books
    PROVE  /\ ledger \subseteq ledger'
           /\ executions \subseteq executions'
           /\ \A q \in Quotes : quotes[q] # None => quotes'[q] = quotes[q]
           /\ \A x \in Adjustments : adjustments[x] # None => adjustments'[x] = adjustments[x]
           /\ \A k \in Keys : Completed(k) => responses'[k] = responses[k]
<1>1. CASE UNCHANGED books
  BY <1>1 DEF books
<1>2. ASSUME NEW c \in Customers, Ledger!OpenCustomer(c)
      PROVE  UNCHANGED <<quotes, ledger, adjustments, executions, responses>>
  BY <1>2 DEF Ledger!OpenCustomer
<1>3. CASE \E q \in Quotes : Ledger!Publish(q)
  BY <1>3 DEF Ledger!Publish, IInv, TypeOK
<1>4. CASE \E x \in Adjustments, row \in Ledger!AdjustmentRow : Ledger!Credit(x, row)
  BY <1>4 DEF Ledger!Credit, IInv, TypeOK
<1>5. CASE \E q \in Quotes, k \in Keys : Ledger!Settle(q, k)
  BY <1>5 DEF Ledger!Settle, IInv, TypeOK, Completed
<1> QED
  BY <1>1, <1>2, <1>3, <1>4, <1>5 DEF Ledger!Next

(* Ledger, executions, quotes, adjustments and completed keys only grow. *)
THEOREM HistoryKept == Spec => HistoryIsKept
<1> DEFINE Kept == /\ ledger \subseteq ledger'
                   /\ executions \subseteq executions'
                   /\ \A q \in Quotes : quotes[q] # None => quotes'[q] = quotes[q]
                   /\ \A x \in Adjustments :
                        adjustments[x] # None => adjustments'[x] = adjustments[x]
                   /\ \A k \in Keys : Completed(k) => responses'[k] = responses[k]
<1>1. IInv /\ [Next]_vars => [Kept]_vars
  BY StepRefines, LedgerStepKeepsHistory
<1>2. Spec => [][Kept]_vars
  BY <1>1, Invariance, PTL DEF Spec
<1> QED
  BY <1>2 DEF HistoryIsKept

(* A request that is past the check of a quote got there before the quote    *)
(* expired, and the clock does not go back.                                  *)
LEMMA LapseStep ==
    ASSUME IInv, [Next]_vars, NEW q \in Quotes, Lapsed(q)
    PROVE  Lapsed(q)'
<1>1. /\ quotes[q] # None /\ q \notin executions /\ now >= quotes[q].expires
      /\ \A w \in Workers : pc[w] \in PastChecks => req[w].quote # q
  BY DEF Lapsed, PastChecks, WithQuote, WithKey
<1>2. quotes[q] \in Terms /\ quotes[q].expires \in Nat /\ now \in Nat
  BY <1>1, BoundsAssumption DEF IInv, TypeOK, Terms, Instants
<1> SUFFICES /\ quotes'[q] = quotes[q] /\ q \notin executions' /\ now' >= quotes[q].expires
             /\ \A w \in Workers : pc'[w] \in PastChecks => req'[w].quote # q
  BY <1>1 DEF Lapsed, PastChecks, WithQuote, WithKey
<1>3. CASE Environment
  <2>1. now' \in Nat
    BY <1>2, <1>3, BoundsAssumption
    DEF Environment, CreateCustomer, CreateQuote, Tick, Instants
  <2> QED
    BY <1>1, <1>2, <1>3, <2>1, EnvironmentMovesNobody
<1>4. ASSUME NEW w \in Workers,
             LockStep(w) \/ LocalStep(w) \/ Arrival(w) \/ Fault(w) \/ Crash(w)
      PROVE  /\ quotes'[q] = quotes[q] /\ q \notin executions' /\ now' >= quotes[q].expires
             /\ \A v \in Workers : pc'[v] \in PastChecks => req'[v].quote # q
  <2>1. q \notin executions'
    BY <1>1, <1>4, BookSteps
    DEF Commit, CommitCredit, CreateCustomer, CreateQuote, books, PastChecks, WithQuote, WithKey,
        Fail
  <2>2. pc'[w] \in PastChecks => req'[w].quote # q
    <3>1. CASE CheckQuote(w) /\ req[w].quote = q
      BY <1>1, <1>2, <3>1
      DEF CheckQuote, TermsOf, Fail, Answer, Goto, IInv, TypeOK, PastChecks, WithQuote, WithKey
    <3> QED
      BY <1>1, <1>4, <3>1, WorkerStep
  <2> QED
    BY <1>1, <1>4, <2>1, <2>2, WorkerStep
<1>5. CASE UNCHANGED vars
  BY <1>1, <1>5 DEF vars, books
<1> QED
  BY <1>3, <1>4, <1>5 DEF Next

(* A lapsed quote never executes. *)
THEOREM LapseIsFinal == Spec => LapsedQuotesStayLapsed
<1> DEFINE Stays == \A q \in Quotes : Lapsed(q) => Lapsed(q)'
<1>1. IInv /\ [Next]_vars => [Stays]_vars
  BY LapseStep
<1>2. Spec => [][Stays]_vars
  BY <1>1, Invariance, PTL DEF Spec
<1> QED
  BY <1>2 DEF LapsedQuotesStayLapsed
=============================================================================
