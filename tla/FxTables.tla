------------------------------- MODULE FxTables -------------------------------
(***************************************************************************)
(* The database rows of the FX engine (app/db/models.py): the types of the *)
(* tables the money path reads and writes, and the rows it builds.         *)
(*                                                                         *)
(* Money is counted in cents.  Every stored amount is NUMERIC(20,2), so    *)
(* round_money is exact on sums and differences of stored amounts; what it *)
(* does to amounts that are not yet whole cents shows up here as amounts   *)
(* of 0 (0.004 is accepted as positive and then rounds to 0.00).           *)
(***************************************************************************)
EXTENDS Naturals

CONSTANTS
    Customers,      \* identities a customers row can have
    Currencies,     \* the supported currency codes
    Quotes,         \* identities a quotes row can have
    Keys,           \* non-empty Idempotency-Key values
    Adjustments,    \* identities a credit_adjustments row can have
    Offers,         \* what pricing can come to: currencies and amounts
    CreditAmounts,  \* rounded amounts a manual credit can have
    MaxMoney,       \* largest amount a NUMERIC(20,2) column holds, in cents
    LastInstant,    \* bound: the clock readings considered are 0 .. LastInstant
    None            \* no row, no owner, no body

ASSUME BoundsAssumption == MaxMoney \in Nat /\ LastInstant \in Nat

(* Clock readings, as stored in expires_at. *)
Instants == 0 .. LastInstant

(* An account is one row of the balances table. *)
Accounts == Customers \X Currencies

(* NUMERIC(20,2) together with CHECK (balance >= 0). *)
Money == 0 .. MaxMoney

Offer == [source : Currencies, destination : Currencies,
          debit : Money, credit : Money]

ASSUME OffersAssumption ==
    /\ Offers \subseteq Offer
    /\ CreditAmounts \subseteq Money

(* A quotes row, reduced to what execution reads of it. *)
Terms == [source : Accounts, destination : Accounts,
          debit : Money, credit : Money, expires : Instants]

AdjustmentRow == [account : Accounts, amount : Money]

(* The stored response of a completed idempotency_keys row. Its quote field  *)
(* is also the request hash: method and path are fixed, the body is the      *)
(* quote id, and SHA-256 is taken to be injective.                           *)
Response == [quote : Quotes, source : Money, destination : Money]

Entry == [reference : ({"execution"} \X Quotes)
                      \cup ({"credit_adjustment"} \X Adjustments),
          direction : {"debit", "credit"},
          account : Accounts,
          amount : Money]

ASSUME NoneAssumption ==
    None \notin Terms \cup AdjustmentRow \cup Response \cup Quotes

(* The two legs of an execution. The reference of the code is the fresh id   *)
(* of the executions row; UNIQUE (quote_id) ties it to the quote, whose      *)
(* identity stands for it here.                                              *)
DebitEntry(q, terms) ==
    [reference |-> <<"execution", q>>, direction |-> "debit",
     account |-> terms.source, amount |-> terms.debit]

CreditEntry(q, terms) ==
    [reference |-> <<"execution", q>>, direction |-> "credit",
     account |-> terms.destination, amount |-> terms.credit]

AdjustmentEntry(x, row) ==
    [reference |-> <<"credit_adjustment", x>>, direction |-> "credit",
     account |-> row.account, amount |-> row.amount]
=============================================================================
