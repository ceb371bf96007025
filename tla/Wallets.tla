------------------------------ MODULE Wallets -------------------------------
(***************************************************************************)
(* Stored value (lib/wallet.ts, lib/wallet-db.ts, routes/wallets.ts) and   *)
(* the finance configuration that decides when its commission is taken     *)
(* (lib/finance-config-db.ts), for one tenant and one currency.            *)
(*                                                                         *)
(* Every movement of a wallet takes the tenant's advisory lock before it   *)
(* reads the row and posts and records in the same transaction, so each    *)
(* operation is one step.  The ledger is kept as the balances it derives:  *)
(* account, and held, the part of WALLET that each wallet's postings made. *)
(***************************************************************************)
EXTENDS Ledger, Pricing, FinanceConfig

CONSTANTS
    WalletIds,       \* owners a wallet may be created for
    Amounts,         \* amounts of a request, in centimes
    Schedules,       \* the fee schedules that may be in force
    Configs,         \* the finance configurations an owner may store
    MaxMovements     \* bound: rows of wallet_transactions per wallet

ASSUME WalletsAssumption ==
    /\ Amounts \subseteq Nat \ {0}
    /\ MaxMovements \in Nat
    /\ \A schedule \in Schedules : \A cents \in Amounts :
          computeFee(schedule, cents) \in Nat

VARIABLES
    account,         \* balances of the ledger accounts
    held,            \* WALLET balance of the postings of each wallet
    wallet,          \* the wallets rows: balance is the cached snapshot
    movements,       \* wallet_transactions: rows, and the sum of their amounts
    config           \* finance_config: capabilities and commission basis

walletVars == <<account, held, wallet, movements, config>>

-----------------------------------------------------------------------------
(***************************************************************************)
(* The movements of lib/wallet.ts: the signed change of the balance.  Each *)
(* is defined where the code does not throw.                               *)
(***************************************************************************)
AcceptsTopUp(gross, fee) == gross > 0 /\ gross - fee > 0

AcceptsDebit(balance, cents) == cents > 0 /\ cents <= balance

AcceptsAdjustment(balance, signed) == balance + signed >= 0

\* One balanced posting, as balances see it.
moved(accounts, debit, credit, cents) ==
    [accounts EXCEPT ![debit] = @ - cents, ![credit] = @ + cents]

\* loadActiveWallet: the row exists and is ACTIVE.
Active(w) ==
    /\ wallet[w].status = "ACTIVE"
    /\ movements[w].rows < MaxMovements

\* recordMovement: the audit row and the snapshot; the source is wallet w.
recordMovement(w, signed) ==
    /\ movements' = [movements EXCEPT ![w].rows = @ + 1, ![w].cents = @ + signed]
    /\ wallet' = [wallet EXCEPT ![w].balance = @ + signed]

\* The postings of an operation, and the part of WALLET they are keyed on.
Posts(w, accounts) ==
    /\ account' = accounts
    /\ held' = [held EXCEPT ![w] = @ + accounts["WALLET"] - account["WALLET"]]
    /\ UNCHANGED config

-----------------------------------------------------------------------------
createWallet(w) ==
    /\ "WALLET" \in config.capabilities
    /\ wallet[w].status = "NONE"
    /\ wallet' = [wallet EXCEPT ![w] = [status |-> "ACTIVE", balance |-> 0]]
    /\ UNCHANGED <<account, held, movements, config>>

upsertFinanceConfig(new) ==
    /\ ValidFinanceConfig(new.capabilities, new.basis)
    /\ config' = new
    /\ UNCHANGED <<account, held, wallet, movements>>

\* A top-up on the load basis that stores the gross and keeps the fee as well.
topUpGross(w, gross, schedule) ==
    LET fee    == IF config.basis = "load" THEN computeFee(schedule, gross) ELSE 0
        loaded == moved(account, "CASH", "WALLET", gross)
    IN  /\ Active(w)
        /\ AcceptsTopUp(gross, fee)
        /\ Posts(w, moved(loaded, "WALLET", "FEES", fee))
        /\ recordMovement(w, gross)

topUpWallet(w, gross, schedule) ==
    LET fee    == IF config.basis = "load" THEN computeFee(schedule, gross) ELSE 0
        loaded == moved(account, "CASH", "WALLET", gross)
    IN  /\ Active(w)
        /\ AcceptsTopUp(gross, fee)
        /\ Posts(w, moved(loaded, "WALLET", "FEES", fee))
        /\ recordMovement(w, gross - fee)

\* A draw-down whose commission is debited to the wallet instead of the tenant.
debitFeeFromWallet(w, cents, schedule) ==
    LET fee    == IF config.basis = "load" THEN 0 ELSE computeFee(schedule, cents)
        earned == moved(account, "WALLET", "AVAILABLE", cents)
    IN  /\ Active(w)
        /\ AcceptsDebit(wallet[w].balance, cents)
        /\ Posts(w, moved(earned, "WALLET", "FEES", fee))
        /\ recordMovement(w, 0 - cents - fee)

debitWallet(w, cents, schedule) ==
    LET fee    == IF config.basis = "load" THEN 0 ELSE computeFee(schedule, cents)
        earned == moved(account, "WALLET", "AVAILABLE", cents)
    IN  /\ Active(w)
        /\ AcceptsDebit(wallet[w].balance, cents)
        /\ Posts(w, moved(earned, "AVAILABLE", "FEES", fee))
        /\ recordMovement(w, 0 - cents)

refundWallet(w, cents) ==
    /\ Active(w)
    /\ Posts(w, moved(account, "AVAILABLE", "WALLET", cents))
    /\ recordMovement(w, cents)

\* A correction in either direction; of nothing, it only adds the audit row.
adjustWallet(w, signed) ==
    /\ Active(w)
    /\ AcceptsAdjustment(wallet[w].balance, signed)
    /\ Posts(w, moved(account, "AVAILABLE", "WALLET", signed))
    /\ recordMovement(w, signed)

-----------------------------------------------------------------------------
WalletInit ==
    /\ account = [a \in LedgerAccounts |-> 0]
    /\ held = [w \in WalletIds |-> 0]
    /\ wallet = [w \in WalletIds |-> [status |-> "NONE", balance |-> 0]]
    /\ movements = [w \in WalletIds |-> [rows |-> 0, cents |-> 0]]
    /\ config = [capabilities |-> FINANCE_PRESETS.full, basis |-> "usage"]

WalletNext ==
    \/ \E w \in WalletIds :
          \/ createWallet(w)
          \/ \E cents \in Amounts :
                \/ \E schedule \in Schedules :
                      \/ topUpWallet(w, cents, schedule)
                      \/ debitWallet(w, cents, schedule)
                \/ refundWallet(w, cents)
                \/ adjustWallet(w, cents)
                \/ adjustWallet(w, 0 - cents)
          \/ adjustWallet(w, 0)
    \/ \E new \in Configs : upsertFinanceConfig(new)

-----------------------------------------------------------------------------
\* Properties.

(***************************************************************************)
(* "the derived sum is the authoritative balance" (lib/wallet.ts): the     *)
(* snapshot on the wallet, the sum of its audit rows and its share of the  *)
(* WALLET account agree, through every change of the commission basis.     *)
(***************************************************************************)
SnapshotIsDerived ==
    \A w \in WalletIds : /\ wallet[w].balance = movements[w].cents
                         /\ wallet[w].balance = held[w]

(***************************************************************************)
(* What makes it inductive, and the purses whole: the shape of the rows,   *)
(* and no wallet below zero.                                               *)
(***************************************************************************)
WalletInvariant ==
    /\ DOMAIN account = LedgerAccounts /\ account["WALLET"] \in Int
    /\ held \in [WalletIds -> Nat]
    /\ wallet \in [WalletIds -> [status : {"NONE", "ACTIVE"}, balance : Nat]]
    /\ movements \in [WalletIds -> [rows : Nat, cents : Int]]
    /\ SnapshotIsDerived
    /\ \A w \in WalletIds : wallet[w].status = "NONE" => wallet[w].balance = 0

P == INSTANCE Purse WITH Owners <- WalletIds, purse <- held

(***************************************************************************)
(* The ledger's view of the wallets implements the abstract purses: an     *)
(* operation changes the stored value of one owner only and never takes it *)
(* below zero, whatever draw-downs, corrections, commissions and changes   *)
(* of the commission basis came before.                                    *)
(***************************************************************************)
PurseSpec == P!Spec
=============================================================================
