------------------------------ MODULE Pricing -------------------------------
(***************************************************************************)
(* The pure arithmetic of the money path: fees (lib/fees.ts), tax on the   *)
(* fee (lib/tax.ts), the reserve hold-back (lib/settlement-policy.ts), the *)
(* capture plan (lib/settlement.ts), marketplace shares (lib/splits.ts)    *)
(* and the funding of a clawback (lib/reversals.ts).  Amounts are integer  *)
(* centimes, rates are basis points; BpsUnit is 10 000 in the code and a   *)
(* constant here so that small instances reach every rounding case.        *)
(***************************************************************************)
EXTENDS Integers, Sequences, Functions, FiniteSets

CONSTANT BpsUnit

ASSUME BpsUnitAssumption == BpsUnit \in Nat \ {0}

Smaller(a, b) == IF a <= b THEN a ELSE b

\* Math.round(a * b / c) of non-negative operands: half rounds up.
RoundedRatio(a, b, c) == (2 * a * b + c) \div (2 * c)

applyBps(cents, bps) == RoundedRatio(cents, bps, BpsUnit)

(***************************************************************************)
(* A fee schedule is [feeType, flat, bps, tiers]; flat also stands for the *)
(* amount a PER_METHOD schedule has for the method of the charge.  TIERED  *)
(* takes the first tier whose upTo reaches the amount, else the last tier. *)
(***************************************************************************)
TierFor(tiers, cents) ==
    LET reached == {n \in DOMAIN tiers : cents <= tiers[n].upTo}
    IN  IF reached # {} THEN CHOOSE n \in reached : \A m \in reached : n <= m
                        ELSE Len(tiers)

computeFee(schedule, cents) ==
    CASE schedule.feeType \in {"FLAT", "PER_METHOD"} -> schedule.flat
      [] schedule.feeType = "PERCENTAGE" -> applyBps(cents, schedule.bps)
      [] schedule.feeType = "TIERED" ->
            IF schedule.tiers = << >> THEN 0
            ELSE applyBps(cents,
                          schedule.tiers[TierFor(schedule.tiers, cents)].bps)

computeTax(feeCents, tax) ==
    IF tax.exempt \/ tax.bps = 0 THEN 0 ELSE applyBps(feeCents, tax.bps)

computeReserve(policy, cents) ==
    CASE policy.reserveType = "NONE"    -> 0
      [] policy.reserveType = "FIXED"   -> Smaller(policy.reserve, cents)
      [] policy.reserveType = "ROLLING" -> applyBps(cents, policy.reserve)

\* How a capture of cents is divided; net may be negative (a flat fee).
planCaptureSettlement(cents, schedule, policy, tax) ==
    LET fee     == computeFee(schedule, cents)
        taxed   == computeTax(fee, tax)
        reserve == computeReserve(policy, cents)
    IN  [fee |-> fee, tax |-> taxed, reserve |-> reserve,
         net |-> cents - fee - taxed - reserve]

-----------------------------------------------------------------------------
\* Marketplace shares: a sequence of [party, bps], parties numbered in name order.

TotalBps(shares) == SumFunction([n \in DOMAIN shares |-> shares[n].bps])

\* validateShares: at least one share, every one positive, at most the unit in all.
ValidShares(shares) ==
    /\ shares # << >>
    /\ \A n \in DOMAIN shares : shares[n].bps \in 1..BpsUnit
    /\ TotalBps(shares) <= BpsUnit

\* A mutant: the centimes left over are dropped.
floorShares(cents, shares) ==
    [n \in DOMAIN shares |-> (cents * shares[n].bps) \div TotalBps(shares)]

\* A mutant: ties are broken by position in the list.
sharesByPosition(cents, shares) ==
    LET total == TotalBps(shares)
        floor == floorShares(cents, shares)
        frac(n) == (cents * shares[n].bps) % total
        rank(n) == Cardinality({m \in DOMAIN shares :
                      frac(m) > frac(n) \/ (frac(m) = frac(n) /\ m < n)})
    IN  [n \in DOMAIN shares |->
            floor[n] + IF rank(n) < cents - SumFunction(floor) THEN 1 ELSE 0]

(***************************************************************************)
(* computeShares: largest remainder.  Each share gets the floor of its     *)
(* exact part; the centimes left over go one each down the shares ordered  *)
(* by fraction (largest first), by party and by position, cyclically.      *)
(* The code compares fractions as doubles, so parts whose fractions are    *)
(* equal here may be ordered there by their last bit instead of by party.  *)
(***************************************************************************)
computeShares(cents, shares) ==
    LET total    == TotalBps(shares)
        floor[n \in DOMAIN shares] == (cents * shares[n].bps) \div total
        frac[n \in DOMAIN shares]  == (cents * shares[n].bps) % total
        before(m, n) == \/ frac[m] > frac[n]
                        \/ frac[m] = frac[n] /\ shares[m].party < shares[n].party
                        \/ /\ frac[m] = frac[n] /\ m < n
                           /\ shares[m].party = shares[n].party
        rank(n)  == Cardinality({m \in DOMAIN shares : before(m, n)})
        left     == cents - SumFunction(floor)
        extra(n) == (left + Len(shares) - 1 - rank(n)) \div Len(shares)
    IN  [n \in DOMAIN shares |-> floor[n] + extra(n)]

\* split: what each beneficiary gets, and what is left to the platform.
split(cents, shares) ==
    LET parts == computeShares(RoundedRatio(cents, TotalBps(shares), BpsUnit),
                               shares)
    IN  [shares |-> parts, platform |-> cents - SumFunction(parts)]

-----------------------------------------------------------------------------
\* fundReversal is defined only for balances that are not negative (it throws).
Fundable(available, reserve) == available \in Nat /\ reserve \in Nat

\* A clawback that drops what neither account covers.
fundWithoutRest(funding, gross, available, reserve) ==
    LET fromReserve == IF funding = "DEBIT_RESERVE"
                       THEN Smaller(gross, reserve) ELSE 0
    IN  [fromAvailable |-> Smaller(gross - fromReserve, available),
         fromReserve |-> fromReserve, uncovered |-> 0]

fundReversal(funding, gross, available, reserve) ==
    LET fromReserve == IF funding = "DEBIT_RESERVE"
                       THEN Smaller(gross, reserve) ELSE 0
        fromAvailable ==
            CASE funding \in {"NET_FROM_AVAILABLE", "DEBIT_RESERVE"} ->
                    Smaller(gross - fromReserve, available)
              [] funding = "INVOICE_TENANT" -> 0
              [] funding = "ALLOW_NEGATIVE" -> gross
    IN  [fromAvailable |-> fromAvailable, fromReserve |-> fromReserve,
         uncovered |-> gross - fromReserve - fromAvailable]
=============================================================================
