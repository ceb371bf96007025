------------------------------ MODULE PricingCases --------------------------
(***************************************************************************)
(* The split arithmetic over bounded inputs.  A state is one call: a       *)
(* source amount and a valid list of shares.                               *)
(***************************************************************************)
EXTENDS Pricing

CONSTANTS
    MaxCents,        \* the largest source amount
    Parties          \* beneficiaries, numbered in name order

ASSUME PartiesAssumption == Parties \subseteq Int

VARIABLES cents, shares

pricingVars == <<cents, shares>>

Share == [party : Parties, bps : 1..BpsUnit]

ShareLists ==
    {s \in UNION {[1..n -> Share] : n \in 1..Cardinality(Parties)} :
        /\ ValidShares(s)
        /\ \A m, n \in DOMAIN s : s[m].party = s[n].party => m = n}

PricingInit == cents = 0 /\ shares \in ShareLists

PricingNext ==
    /\ cents < MaxCents
    /\ cents' = cents + 1
    /\ UNCHANGED shares

PricingSpec == PricingInit /\ [][PricingNext]_pricingVars

-----------------------------------------------------------------------------
(***************************************************************************)
(* splits.ts: the shares and the platform's remainder sum to the source,   *)
(* the remainder is not negative, no beneficiary is a whole centime away   *)
(* from its exact part, and what it receives does not depend on the order  *)
(* in which the rows of the rule are read (computeShares breaks every tie). *)
(***************************************************************************)
SplitIsExact ==
    LET result    == split(cents, shares)
        pool      == SumFunction(result.shares)
        total     == TotalBps(shares)
        mirror(n) == Len(shares) + 1 - n
        backwards == split(cents, [n \in DOMAIN shares |-> shares[mirror(n)]])
    IN  /\ pool = RoundedRatio(cents, total, BpsUnit)
        /\ result.platform \in Nat
        /\ pool + result.platform = cents
        /\ \A n \in DOMAIN shares :
              LET error == result.shares[n] * total - pool * shares[n].bps
              IN  /\ -total < error /\ error < total
                  /\ result.shares[n] = backwards.shares[mirror(n)]
=============================================================================
