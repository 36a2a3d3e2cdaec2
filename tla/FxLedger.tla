------------------------------- MODULE FxLedger -------------------------------
(***************************************************************************)
(* What the FX engine promises about money, with no requests, locks,       *)
(* transactions or clock: accounts that move only by whole operations, an  *)
(* append-only ledger, a quote that settles at most once and on its stored *)
(* terms, and an idempotency key whose response is written once.           *)
(* FxExecution implements this specification.                              *)
(***************************************************************************)
EXTENDS FxTables, Integers

VARIABLES customers, quotes, balance, ledger, adjustments, executions, responses

books == <<customers, quotes, balance, ledger, adjustments, executions, responses>>

Init ==
    /\ customers = {}
    /\ quotes = [q \in Quotes |-> None]
    /\ balance = [a \in Accounts |-> 0]
    /\ ledger = {}
    /\ adjustments = [x \in Adjustments |-> None]
    /\ executions = {}
    /\ responses = [k \in Keys |-> None]

(* A customer starts with a zero balance in every currency. *)
OpenCustomer(c) ==
    /\ c \notin customers
    /\ customers' = customers \cup {c}
    /\ UNCHANGED <<quotes, balance, ledger, adjustments, executions, responses>>

(* A quote belongs to an existing customer, exchanges two different          *)
(* currencies, and touches no balance.                                       *)
Publish(q) ==
    /\ quotes[q] = None
    /\ \E t \in Terms :
        /\ t.source[1] = t.destination[1] /\ t.source[1] \in customers
        /\ t.source # t.destination
        /\ quotes' = [quotes EXCEPT ![q] = t]
    /\ UNCHANGED <<customers, balance, ledger, adjustments, executions, responses>>

(* A manual credit: adjustment row, ledger entry and balance together. *)
Credit(x, row) ==
    /\ adjustments[x] = None
    /\ row.account[1] \in customers
    /\ row.amount > 0
    /\ balance[row.account] + row.amount <= MaxMoney
    /\ adjustments' = [adjustments EXCEPT ![x] = row]
    /\ ledger' = ledger \cup {AdjustmentEntry(x, row)}
    /\ balance' = [balance EXCEPT ![row.account] = @ + row.amount]
    /\ UNCHANGED <<customers, quotes, executions, responses>>

(* The whole of an FX transfer: both legs on the quoted amounts, the         *)
(* execution row and the completed idempotency key, or none of them.         *)
Settle(q, k) ==
    /\ quotes[q] # None
    /\ q \notin executions
    /\ responses[k] = None
    /\ LET t == quotes[q] IN
        /\ t.debit > 0 /\ t.credit > 0
        /\ t.debit <= balance[t.source]
        /\ balance[t.destination] + t.credit <= MaxMoney
        /\ balance' = [balance EXCEPT ![t.source] = @ - t.debit,
                                      ![t.destination] = @ + t.credit]
        /\ ledger' = ledger \cup {DebitEntry(q, t), CreditEntry(q, t)}
        /\ responses' = [responses EXCEPT
             ![k] = [quote |-> q, source |-> balance[t.source] - t.debit,
                     destination |-> balance[t.destination] + t.credit]]
    /\ executions' = executions \cup {q}
    /\ UNCHANGED <<customers, quotes, adjustments>>

Next ==
    \/ \E c \in Customers : OpenCustomer(c)
    \/ \E q \in Quotes : Publish(q)
    \/ \E x \in Adjustments, row \in AdjustmentRow : Credit(x, row)
    \/ \E q \in Quotes, k \in Keys : Settle(q, k)

Spec == Init /\ [][Next]_books
=============================================================================
