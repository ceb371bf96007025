--------------------------------- MODULE Fx ---------------------------------
(***************************************************************************)
(* Currencies of one tenant: quotes (lib/fx.ts), the plan of a conversion  *)
(* (lib/fx-settlement.ts) and the sweep of foreign AVAILABLE balances at   *)
(* the head of createPayout (lib/fx-settlement-db.ts, lib/payout-db.ts).   *)
(* The advisory lock makes every operation here one step.  Of the ledger   *)
(* only the sums per currency that the code reads are kept; which credits  *)
(* a payout reserves, and the cancel that overtakes a settlement, are in   *)
(* Payouts.  Rates are those of the sandbox, which the ECB provider also   *)
(* falls back on.  A rate has 8 decimals in the code, Precision parts of a *)
(* unit here.                                                              *)
(***************************************************************************)
EXTENDS Pricing

CONSTANTS
    Currencies,      \* a subset of SUPPORTED_CURRENCIES
    Precision,       \* the parts of a unit a rate is rounded to
    Drafts,          \* idempotency keys of the payouts that are open together
    Deposits,        \* what a capture leaves in AVAILABLE
    MaxDeposits,     \* bound: captures
    TakenBack,       \* what a refund, a clawback or a wallet fee takes
    MaxTakenBack,    \* bound: refunds, clawbacks and fees
    Leftovers,       \* what the whole credits of a payout leave unreserved
    MaxSwitches      \* bound: changes of the settlement currency

ASSUME FxAssumption ==
    /\ Currencies \subseteq {"MAD", "USD", "EUR", "GBP", "CAD"} /\ "MAD" \in Currencies
    /\ Precision \in Nat \ {0}
    /\ IsFiniteSet(Drafts)
    /\ Deposits \subseteq Nat /\ TakenBack \subseteq Nat /\ Leftovers \subseteq Nat

VARIABLES
    settlementCurrency,
    avail,           \* per currency: the AVAILABLE balance
    credits,         \* AVAILABLE credits that no payout has reserved
    debits,          \* AVAILABLE debits of another category than PAYOUT
    draft,           \* per payout: its currency, amount and the credits it reserves
    paid,            \* PAID_OUT
    fx               \* steps of each kind so far, their worth, rounding allowed

fxVars == <<settlementCurrency, avail, credits, debits, draft, paid, fx>>

\* 1 unit of each currency in hundredths of a dirham.
FX_BASE_RATES == [MAD |-> 100, USD |-> 1005, EUR |-> 1102, GBP |-> 1288, CAD |-> 741]

\* crossRate, rounded by formatRate: 1 from is crossRate / Precision to.
crossRate(from, to) == RoundedRatio(FX_BASE_RATES[from], Precision, FX_BASE_RATES[to])

convertMinor(cents, rate) == RoundedRatio(cents, rate, Precision)

\* The worth of balances, and the worst two roundings of a conversion make of it.
Worth(balances) == SumFunction([c \in DOMAIN balances |-> FX_BASE_RATES[c] * balances[c]])
RoundingOf(cents, to) == FX_BASE_RATES[to] * (Precision + cents)

\* No payout, or one that has ended.
NoPayout == [currency |-> "MAD", cents |-> 0, held |-> 0]

-----------------------------------------------------------------------------
\* A capture, a top-up fee or a release credits AVAILABLE in its own currency.
Deposit(c, cents) ==
    /\ fx.deposits < MaxDeposits
    /\ avail' = [avail EXCEPT ![c] = @ + cents]
    /\ credits' = [credits EXCEPT ![c] = @ + cents]
    /\ fx' = [fx EXCEPT !.deposits = @ + 1, !.worth = @ + FX_BASE_RATES[c] * cents]
    /\ UNCHANGED <<settlementCurrency, debits, draft, paid>>

(***************************************************************************)
(* A refund, the clawback of a lost dispute or a wallet fee debits         *)
(* AVAILABLE, whatever the open payouts count on.  ALLOW_NEGATIVE lets a   *)
(* clawback take it below zero.                                            *)
(***************************************************************************)
TakeBack(c, cents) ==
    /\ fx.taken < MaxTakenBack
    /\ avail' = [avail EXCEPT ![c] = @ - cents]
    /\ debits' = [debits EXCEPT ![c] = @ + cents]
    /\ fx' = [fx EXCEPT !.taken = @ + 1, !.worth = @ - FX_BASE_RATES[c] * cents]
    /\ UNCHANGED <<settlementCurrency, credits, draft, paid>>

\* PATCH /tenant, which never looks at the payouts.
ChangeSettlement(c) ==
    /\ c # settlementCurrency
    /\ fx.switches < MaxSwitches
    /\ settlementCurrency' = c
    /\ fx' = [fx EXCEPT !.switches = @ + 1]
    /\ UNCHANGED <<avail, credits, debits, draft, paid>>

\* convertForeignBalancesToSettlement: the foreign balances and what each becomes.
Foreign == {c \in Currencies \ {settlementCurrency} : avail[c] > 0}

planFxConversion ==
    [c \in Foreign |-> convertMinor(avail[c], crossRate(c, settlementCurrency))]

Converted == SumFunction(planFxConversion)

\* Unpaid credits alone, without the debits against them.
unpaidAlone == credits[settlementCurrency] + Converted

\* What is payable after the sweep, every conversion being a credit.
payable == credits[settlementCurrency] + Converted - debits[settlementCurrency]

(***************************************************************************)
(* createPayout under a key of its own: the sweep, then the draft, beside  *)
(* whatever payouts are open.  With nothing payable it throws and the      *)
(* sweep rolls back.  FIFO allocation reserves whole credits, the oldest   *)
(* first; what stays unreserved is at most what the debits took.           *)
(***************************************************************************)
CreatePayout(p, rest) ==
    LET to == settlementCurrency
    IN  /\ draft[p].cents = 0
        /\ payable > 0
        /\ rest <= debits[to]
        /\ avail' = [c \in Currencies |-> IF c = to THEN avail[c] + Converted
                                          ELSE IF c \in Foreign THEN 0 ELSE avail[c]]
        /\ debits' = [c \in Currencies |->
                         debits[c] + IF c \in Foreign THEN avail[c] ELSE 0]
        /\ draft' = [draft EXCEPT ![p] = [currency |-> to, cents |-> payable,
                                          held |-> credits[to] + Converted - rest]]
        /\ credits' = [credits EXCEPT ![to] = rest]
        /\ fx' = [fx EXCEPT !.rounding =
                     @ + SumFunction([c \in Foreign |-> RoundingOf(avail[c], to)])]
        /\ UNCHANGED <<settlementCurrency, paid>>

\* markPayoutPaid, refused when AVAILABLE has fallen below the amount.
PayPayout(p) ==
    LET c == draft[p].currency
    IN  /\ draft[p].cents > 0
        /\ avail[c] >= draft[p].cents
        /\ avail' = [avail EXCEPT ![c] = @ - draft[p].cents]
        /\ paid' = [paid EXCEPT ![c] = @ + draft[p].cents]
        /\ draft' = [draft EXCEPT ![p] = NoPayout]
        /\ UNCHANGED <<settlementCurrency, credits, debits, fx>>

\* cancelPayout and markPayoutFailed release the credits.
ReleasePayout(p) ==
    /\ draft[p].cents > 0
    /\ credits' = [credits EXCEPT ![draft[p].currency] = @ + draft[p].held]
    /\ draft' = [draft EXCEPT ![p] = NoPayout]
    /\ UNCHANGED <<settlementCurrency, avail, debits, paid, fx>>

FxInit ==
    LET zero == [c \in Currencies |-> 0]
    IN  /\ settlementCurrency = "MAD"
        /\ avail = zero /\ credits = zero /\ debits = zero /\ paid = zero
        /\ draft = [p \in Drafts |-> NoPayout]
        /\ fx = [deposits |-> 0, taken |-> 0, switches |-> 0, worth |-> 0, rounding |-> 0]

FxNext ==
    \/ \E c \in Currencies :
          \/ \E cents \in Deposits : Deposit(c, cents)
          \/ \E cents \in TakenBack : TakeBack(c, cents)
          \/ ChangeSettlement(c)
    \/ \E p \in Drafts :
          \/ PayPayout(p)
          \/ ReleasePayout(p)
          \/ \E rest \in Leftovers : CreatePayout(p, rest)

FxSpec == FxInit /\ [][FxNext]_fxVars

-----------------------------------------------------------------------------
\* Properties.

\* What is held or was paid, against what was deposited and not taken back.
Lost == fx.worth - Worth(avail) - Worth(paid)

\* What the open payouts of a currency are to pay.
Promised(c) ==
    SumFunction([p \in Drafts |-> IF draft[p].currency = c THEN draft[p].cents ELSE 0])

(***************************************************************************)
(* The sweep keeps the tenant's money, whatever refunds, clawbacks and     *)
(* changes of the settlement currency come while payouts are open.  A new  *)
(* payout leaves AVAILABLE enough for all the open ones of its currency    *)
(* together, those included whose balance an earlier sweep had converted   *)
(* away: what was converted is not payable a second time in its old        *)
(* currency.  And however often balances go back and forth nothing is lost *)
(* but half a centime and the rounding of the rate per conversion.         *)
(***************************************************************************)
SweepKeepsMoney ==
    /\ [][\A p \in Drafts, c \in Currencies :
             draft[p].cents = 0 /\ draft'[p].cents > 0 /\ draft'[p].currency = c
             => Promised(c)' <= avail'[c]]_fxVars
    /\ [](2 * Precision * (IF Lost < 0 THEN -Lost ELSE Lost) <= fx.rounding)
=============================================================================
