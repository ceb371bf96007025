------------------------------- MODULE Ledger -------------------------------
(***************************************************************************)
(* The double-entry ledger of one tenant in one currency (lib/ledger.ts,   *)
(* lib/ledger-db.ts).  The table ledger_entries is a journal: a sequence   *)
(* of postings in commit order, each posting standing for the debit and    *)
(* the credit row that postEntry writes together.  Balances are derived,   *)
(* never stored.                                                           *)
(***************************************************************************)
EXTENDS Integers, Sequences, Functions, FiniteSets

LedgerAccounts ==
    {"CASH", "PENDING", "COLLECTED", "AVAILABLE", "RESERVE", "FEES",
     "PAID_OUT", "WALLET", "TAX_PAYABLE"}

LedgerCategories ==
    {"CAPTURE", "FEE", "REFUND", "CHARGEBACK", "PAYOUT", "SPLIT",
     "RESERVE_RELEASE", "ADJUSTMENT", "FX_ADJUSTMENT", "DISBURSEMENT", "TAX"}

(***************************************************************************)
(* One balanced posting.  debit and credit are the accounts of the two     *)
(* legs, party is the credited beneficiary (or ""), source the             *)
(* sourceType/sourceId pair every movement is keyed on.                    *)
(***************************************************************************)
posting(debit, credit, cents, category, sourceType, sourceId, party) ==
    [debit |-> debit, credit |-> credit, cents |-> cents,
     category |-> category, sourceType |-> sourceType,
     sourceId |-> sourceId, party |-> party]

\* The signed contribution of a posting to an account: credit +, debit -.
delta(p, account) ==
    (IF p.credit = account THEN p.cents ELSE 0)
        - (IF p.debit = account THEN p.cents ELSE 0)

\* The balance of one account over the postings numbered in a set.
balanceOver(journal, account, numbers) ==
    SumFunctionOnSet([n \in DOMAIN journal |-> delta(journal[n], account)],
                     numbers)

\* The balance of one account: sum of credits minus sum of debits.
balanceOf(journal, account) == balanceOver(journal, account, DOMAIN journal)

\* The numbers of the postings that a source wrote.
PostingsOf(journal, sourceType, sourceId) ==
    {n \in DOMAIN journal : /\ journal[n].sourceType = sourceType
                            /\ journal[n].sourceId = sourceId}

\* A finite set of posting numbers in journal order.
InOrder(numbers) ==
    [k \in 1..Cardinality(numbers) |->
        CHOOSE n \in numbers : Cardinality({m \in numbers : m <= n}) = k]

\* postEntry for each posting of a list, inside one transaction.
postEntries(journal, postings) == journal \o postings
=============================================================================
