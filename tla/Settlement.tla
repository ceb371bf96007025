----------------------------- MODULE Settlement -----------------------------
(***************************************************************************)
(* Capture settlement and refund unwinding (lib/settlement-db.ts,          *)
(* lib/refund-db.ts) for one tenant.                                       *)
(*                                                                         *)
(* A caller is one invocation of settleCapture: a step of a webhook job, a *)
(* retry of that step, or a manual capture.  Its transaction runs at READ  *)
(* COMMITTED and reaches the tenant's advisory lock only in the first      *)
(* postEntry, so it is two steps: the unlocked alreadySettled read that    *)
(* also fixes the plan, and the postings, which commit together under the  *)
(* lock.  settleRefund takes the lock before it reads, so it is one step.  *)
(***************************************************************************)
EXTENDS Ledger, Pricing

CONSTANTS
    Intents,         \* payment intents whose capture the provider confirmed
    Callers,         \* invocations of settleCapture
    Gross,           \* the charge of each intent, in centimes
    TenantConfigs    \* the fee/policy/tax/split rows a capture may find active

ASSUME SettlementAssumption ==
    /\ Gross \in [Intents -> Int]
    /\ \A cfg \in TenantConfigs :
          /\ cfg.schedule \in [feeType : {"FLAT", "PER_METHOD", "PERCENTAGE", "TIERED"},
                               flat : Nat, bps : Nat, tiers : Seq([upTo : Nat, bps : Nat])]
          /\ cfg.policy \in [reserveType : {"NONE", "FIXED", "ROLLING"}, reserve : Nat]
          /\ cfg.tax \in [bps : Nat, exempt : BOOLEAN]
          /\ cfg.shares \in Seq([party : Nat, bps : Nat])
          /\ cfg.shares # << >> => ValidShares(cfg.shares)

VARIABLES
    journal,         \* ledger_entries, one element per posting
    caller           \* the progress of each settleCapture invocation

vars == <<journal, caller>>

\* A refund that forgets the reserve hold-back.
RefundedWithoutReserve == {"AVAILABLE", "FEES"}

REFUNDED_ACCOUNTS == {"AVAILABLE", "FEES", "RESERVE"}

NoParty == 0

-----------------------------------------------------------------------------
Optional(p) == IF p.cents > 0 THEN <<p>> ELSE << >>

\* The postings of a capture, in the order settleCapture makes them.
SplitLegs(i, shares) ==
    LET parts == split(Gross[i], shares)
    IN  [n \in DOMAIN shares |->
            posting("COLLECTED", "AVAILABLE", parts.shares[n], "SPLIT",
                    "payment_intent", i, shares[n].party)]
        \o Optional(posting("COLLECTED", "AVAILABLE", parts.platform, "SPLIT",
                            "payment_intent", i, NoParty))

PlanFor(i, cfg) ==
    planCaptureSettlement(
        IF cfg.shares = << >> THEN Gross[i]
                              ELSE split(Gross[i], cfg.shares).platform,
        cfg.schedule, cfg.policy, cfg.tax)

\* A capture that plans the tax but never posts it.
CarvedWithoutTax(i, plan, feeFrom) ==
    LET leg(credit, cents, category) ==
            posting(feeFrom, credit, cents, category,
                    "payment_intent", i, NoParty)
    IN  Optional(leg("FEES", plan.fee, "FEE"))
        \o Optional(leg("RESERVE", plan.reserve, "CAPTURE"))

CarvedLegs(i, plan, feeFrom) ==
    LET leg(credit, cents, category) ==
            posting(feeFrom, credit, cents, category,
                    "payment_intent", i, NoParty)
    IN  Optional(leg("FEES", plan.fee, "FEE"))
        \o Optional(leg("TAX_PAYABLE", plan.tax, "TAX"))
        \o Optional(leg("RESERVE", plan.reserve, "CAPTURE"))

captureLegs(i, cfg) ==
    LET plan  == PlanFor(i, cfg)
        gross == posting("CASH", "COLLECTED", Gross[i], "CAPTURE",
                         "payment_intent", i, NoParty)
        net   == posting("COLLECTED", "AVAILABLE", plan.net, "CAPTURE",
                         "payment_intent", i, NoParty)
    IN  <<gross>> \o
        (IF cfg.shares = << >>
         THEN CarvedLegs(i, plan, "COLLECTED") \o Optional(net)
         ELSE SplitLegs(i, cfg.shares) \o CarvedLegs(i, plan, "AVAILABLE"))

\* The row settleCapture looks for: the gross credit of COLLECTED.
IsCaptureOf(p, i) ==
    /\ p.sourceType = "payment_intent"
    /\ p.sourceId = i
    /\ p.category = "CAPTURE"
    /\ p.credit = "COLLECTED"

\* Looking for the net instead of the gross: a split capture has no such row.
alreadySettledByNet(i) ==
    \E n \in DOMAIN journal : /\ journal[n].sourceId = i
                              /\ journal[n].category = "CAPTURE"
                              /\ journal[n].credit = "AVAILABLE"

alreadySettled(i) == \E n \in DOMAIN journal : IsCaptureOf(journal[n], i)

-----------------------------------------------------------------------------
Init ==
    /\ journal = << >>
    /\ caller = [c \in Callers |-> [phase |-> "idle"]]

(***************************************************************************)
(* settleCapture up to its first postEntry: a non-positive amount or a     *)
(* capture already in the ledger returns {settled: false}.                 *)
(***************************************************************************)
BeginSettle(c, i) ==
    /\ caller[c].phase = "idle"
    /\ \/ /\ Gross[i] <= 0 \/ alreadySettled(i)
          /\ caller' = [caller EXCEPT ![c] = [phase |-> "skipped"]]
       \/ /\ Gross[i] > 0 /\ ~alreadySettled(i)
          /\ \E cfg \in TenantConfigs :
                caller' = [caller EXCEPT ![c] =
                    [phase |-> "planned", intent |-> i,
                     seen |-> Len(journal), cfg |-> cfg,
                     legs |-> captureLegs(i, cfg)]]
    /\ UNCHANGED journal

\* The postings and the commit, under the advisory lock the first one takes.
CommitSettle(c) ==
    /\ caller[c].phase = "planned"
    /\ journal' = postEntries(journal, caller[c].legs)
    /\ caller' = [caller EXCEPT ![c] =
            [phase |-> "booked", intent |-> caller[c].intent,
             seen |-> caller[c].seen, cfg |-> caller[c].cfg,
             at |-> Len(journal) + 1]]

\* The process dies or a statement fails: Postgres rolls the transaction back.
AbortSettle(c) ==
    /\ caller[c].phase = "planned"
    /\ caller' = [caller EXCEPT ![c] = [phase |-> "aborted"]]
    /\ UNCHANGED journal

-----------------------------------------------------------------------------
IsSettledCredit(p, i) ==
    /\ p.sourceType = "payment_intent"
    /\ p.sourceId = i
    /\ p.credit \in REFUNDED_ACCOUNTS

\* The net the over-draw check looks at: one AVAILABLE credit, whichever comes first.
CheckedNets(i) ==
    LET nets == {n \in DOMAIN journal : /\ IsSettledCredit(journal[n], i)
                                        /\ journal[n].credit = "AVAILABLE"}
    IN  IF nets = {} THEN {0} ELSE {journal[n].cents : n \in nets}

\* The credits a refund reverses: one posting per ledger row it finds.
RefundedCredits(i) ==
    {n \in DOMAIN journal : IsSettledCredit(journal[n], i) /\ journal[n].cents > 0}

refundLegs(i) ==
    LET rows == InOrder(RefundedCredits(i))
    IN  [k \in DOMAIN rows |->
            posting(journal[rows[k]].credit, "CASH", journal[rows[k]].cents,
                    "REFUND", "refund", i, NoParty)]

(***************************************************************************)
(* settleRefund: a refund of intent i, keyed on its refund row (at most    *)
(* one refund of an intent is active, refund_one_active_per_intent, so the *)
(* intent names it).  A replay, or an intent with nothing settled, changes *)
(* nothing; a net already paid out throws REFUND_AFTER_PAYOUT.             *)
(***************************************************************************)
SettleRefund(i) ==
    /\ PostingsOf(journal, "refund", i) = {}
    /\ \E n \in DOMAIN journal : IsSettledCredit(journal[n], i)
    /\ \E net \in CheckedNets(i) : net <= balanceOf(journal, "AVAILABLE")
    /\ journal' = postEntries(journal, refundLegs(i))
    /\ UNCHANGED caller

-----------------------------------------------------------------------------
Next ==
    \/ \E c \in Callers : \/ \E i \in Intents : BeginSettle(c, i)
                          \/ CommitSettle(c)
                          \/ AbortSettle(c)
    \/ \E i \in Intents : SettleRefund(i)

Spec == Init /\ [][Next]_vars

-----------------------------------------------------------------------------
(***************************************************************************)
(* settleCapture keyed on the intent books it once: a second booking can   *)
(* only come from an invocation whose alreadySettled read ran before the   *)
(* first one committed.  A replay that starts later posts nothing.         *)
(***************************************************************************)
DuplicateOnlyFromOverlap ==
    \A c, d \in Callers :
        ( /\ c # d
          /\ caller[c].phase = "booked" /\ caller[d].phase = "booked"
          /\ caller[c].intent = caller[d].intent
          /\ caller[c].at <= caller[d].at )
        => caller[d].seen < caller[c].at

(***************************************************************************)
(* What fee, tax and reserve take of a capture beyond its gross.  Nothing  *)
(* in settlement-db.ts keeps a flat fee below a small charge: it posts the *)
(* fee in full and no net.  A split capture takes them from AVAILABLE.     *)
(***************************************************************************)
Shortfall(i, cfg) ==
    LET net == PlanFor(i, cfg).net
    IN  IF cfg.shares = << >> /\ net < 0 THEN -net ELSE 0

Booked == {c \in Callers : caller[c].phase = "booked"}

Shortfalls == [c \in Booked |-> Shortfall(caller[c].intent, caller[c].cfg)]

\* The intents all of whose captures, however many, were paid from their gross.
PaidFromGross ==
    {i \in Intents : \A c \in Booked : caller[c].intent = i => Shortfalls[c] = 0}

(***************************************************************************)
(* COLLECTED is only a clearing account: over any journal its balance is   *)
(* exactly what the booked captures were short of, and zero, as            *)
(* docs/money-flow.md has it, when none was.  A leg that is dropped,       *)
(* doubled or carved from the wrong account breaks the sum.                *)
(***************************************************************************)
CollectedClears == balanceOf(journal, "COLLECTED") = -SumFunction(Shortfalls)

\* The postings of a refunded intent up to and including its refund.
UnwoundPostings(i) ==
    LET refund == PostingsOf(journal, "refund", i)
    IN  {n \in PostingsOf(journal, "payment_intent", i) :
            \A r \in refund : n < r} \cup refund

(***************************************************************************)
(* What the code does guarantee of settleRefund, however often the capture *)
(* was booked before: CorpoPay keeps neither fee nor reserve; without tax  *)
(* or split legs every account of the tenant but CASH and COLLECTED is     *)
(* back at zero, and those two as well when the captures were paid from    *)
(* their gross (else the fee that went beyond it is returned from CASH).   *)
(***************************************************************************)
RefundUnwindsCapture ==
    \A i \in Intents : PostingsOf(journal, "refund", i) # {} =>
        LET zero(accounts) ==
                \A account \in accounts :
                    balanceOver(journal, account, UnwoundPostings(i)) = 0
        IN  /\ zero({"FEES", "RESERVE"})
            /\ (\A n \in UnwoundPostings(i) :
                    journal[n].category \notin {"TAX", "SPLIT"}) =>
                  /\ zero(LedgerAccounts \ {"CASH", "COLLECTED"})
                  /\ i \in PaidFromGross => zero({"CASH", "COLLECTED"})
=============================================================================
