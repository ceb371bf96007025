------------------------------ MODULE Policies ------------------------------
(***************************************************************************)
(* Which settlement policy and which fee apply to a tenant: the presets of *)
(* the industries (lib/settlement-presets.ts), the overrides of a tenant   *)
(* on top of them (lib/settlement-policy.ts, lib/policy-db.ts), what an    *)
(* approval promises (lib/onboarding.ts) and what a capture applies        *)
(* (lib/fees-db.ts, lib/settlement-db.ts).  An optional value is a set     *)
(* with at most one element, null the empty one.  Identity (mcc), the rail *)
(* and splitting follow the same rule as the fields kept here.             *)
(***************************************************************************)
EXTENDS Integers

CONSTANT Industries  \* what a tenant may write, a key of a preset or not

VARIABLES
    policyRow,       \* the active settlement_policies row, none or one
    promised         \* the policySpec an approval answered with, none or one

policyVars == <<policyRow, promised>>

Null == {}

Coalesce(a, b) == IF a # Null THEN a ELSE b

\* A preset, or the overrides of a request, by its four dimensions.
Availability(mode, days) == [mode |-> mode, days |-> days]
Reserve(type, bps, fixed) == [type |-> type, bps |-> bps, fixed |-> fixed]
PayoutWhen(schedule, min) == [schedule |-> schedule, min |-> min]
Reversal(funding, negative) == [funding |-> funding, negative |-> negative]

Terms(availability, reserve, payout, reversal) ==
    [availability |-> availability, reserve |-> reserve, payout |-> payout,
     reversal |-> reversal]

Immediate == Availability({"IMMEDIATE"}, Null)
Rolling(bps) == Reserve({"ROLLING"}, {bps}, Null)
NoReserve == Reserve({"NONE"}, Null, Null)
Netted == Reversal({"NET_FROM_AVAILABLE"}, {FALSE})

DEFAULT_PRESET ==
    [fee |-> 290,
     terms |-> Terms(Immediate, Rolling(500), PayoutWhen({"AUTO_DAILY"}, Null), Netted)]

marketplace ==
    [fee |-> 350,
     terms |-> Terms(Availability({"ON_FULFILLMENT"}, Null), Rolling(1000),
                     PayoutWhen({"THRESHOLD"}, {100000}),
                     Reversal({"DEBIT_RESERVE"}, {FALSE}))]

saas ==
    [fee |-> 290,
     terms |-> Terms(Immediate, NoReserve, PayoutWhen({"AUTO_DAILY"}, Null), Netted)]

retail ==
    [fee |-> 250,
     terms |-> Terms(Immediate, Rolling(300), PayoutWhen({"AUTO_DAILY"}, Null), Netted)]

travel ==
    [fee |-> 320,
     terms |-> Terms(Availability({"DELAY"}, {7}), Rolling(1000),
                     PayoutWhen({"AUTO_WEEKLY"}, Null), Reversal({"DEBIT_RESERVE"}, {FALSE}))]

escrow ==
    [fee |-> 150,
     terms |-> Terms(Availability({"ON_FULFILLMENT"}, Null), NoReserve,
                     PayoutWhen({"MANUAL"}, Null), Reversal({"INVOICE_TENANT"}, {FALSE}))]

\* The fee is flat: 500 centimes.
lending ==
    [fee |-> 500,
     terms |-> Terms(Immediate, NoReserve, PayoutWhen({"MANUAL"}, Null),
                     Reversal({"ALLOW_NEGATIVE"}, {TRUE}))]

on_demand ==
    [fee |-> 400,
     terms |-> Terms(Immediate, NoReserve, PayoutWhen({"INSTANT"}, Null), Netted)]

INDUSTRY_PRESETS ==
    [saas |-> saas, marketplace |-> marketplace, retail |-> retail, travel |-> travel,
     escrow |-> escrow, lending |-> lending, on_demand |-> on_demand]

presetForIndustry(industry) ==
    IF industry \in DOMAIN INDUSTRY_PRESETS THEN INDUSTRY_PRESETS[industry]
                                            ELSE DEFAULT_PRESET

-----------------------------------------------------------------------------
\* With || in the place of ??: false counts as missing.
resolveFalsy(preset, over) ==
    [dim \in DOMAIN preset |->
        [field \in DOMAIN preset[dim] |->
            IF \/ over[dim][field] = Null
               \/ field = "negative" /\ over[dim][field] = {FALSE}
            THEN preset[dim][field] ELSE over[dim][field]]]

\* resolvePolicy: every field falls back on the preset when it is null.
resolvePolicy(preset, over) ==
    [dim \in DOMAIN preset |->
        [field \in DOMAIN preset[dim] |->
            Coalesce(over[dim][field], preset[dim][field])]]

\* validatePolicy; the schema of the route has refused negative numbers.
validatePolicy(terms) ==
    /\ terms.reserve.type = {"FIXED"} => terms.reserve.fixed # Null
    /\ terms.reserve.type = {"ROLLING"} => terms.reserve.bps # Null
    /\ terms.availability.mode = {"DELAY"} => terms.availability.days # Null
    /\ terms.payout.schedule = {"THRESHOLD"} => terms.payout.min # Null
    /\ terms.reversal.funding = {"ALLOW_NEGATIVE"} => terms.reversal.negative = {TRUE}

NoOverrides == Terms(Availability(Null, Null), Reserve(Null, Null, Null),
                     PayoutWhen(Null, Null), Reversal(Null, Null))

policySpecForIndustry(industry) ==
    resolvePolicy(presetForIndustry(industry).terms, NoOverrides)

\* resolveFeeSpec of a tenant without a fee schedule of its own.
resolveFeeSpec ==
    IF policyRow = {} THEN DEFAULT_PRESET.fee
    ELSE LET row == CHOOSE r \in policyRow : TRUE IN presetForIndustry(row.industry).fee

\* What settleCapture applies: the row, or the default and not the industry's preset.
appliedPolicy ==
    IF policyRow = {} THEN policySpecForIndustry("default")
    ELSE LET row == CHOOSE r \in policyRow : TRUE IN row.terms

-----------------------------------------------------------------------------
\* The tenant is approved: the answer carries the preset, nothing is stored.
PromisePolicy(industry) ==
    /\ promised' = {policySpecForIndustry(industry)}
    /\ UNCHANGED policyRow

\* createSettlementPolicy; an invalid result throws.  The versions are in Versions.
CreatePolicy(industry, over) ==
    LET resolved == resolvePolicy(presetForIndustry(industry).terms, over)
    IN  /\ validatePolicy(resolved)
        /\ policyRow' = {[industry |-> industry, terms |-> resolved]}
        /\ UNCHANGED promised

\* The overrides a tenant sends: any of one dimension.
SomeOf(values) == {Null} \cup {{v} : v \in values}

Overrides ==
    {[NoOverrides EXCEPT !.availability = Availability(mode, days)] :
        mode \in SomeOf({"IMMEDIATE", "DELAY"}), days \in SomeOf({0, 3})}
    \cup {[NoOverrides EXCEPT !.reserve = Reserve(type, bps, fixed)] :
        type \in SomeOf({"NONE", "ROLLING", "FIXED"}), bps \in SomeOf({0, 200}),
        fixed \in SomeOf({50})}
    \cup {[NoOverrides EXCEPT !.payout = PayoutWhen(schedule, min)] :
        schedule \in SomeOf({"MANUAL", "THRESHOLD"}), min \in SomeOf({10})}
    \cup {[NoOverrides EXCEPT !.reversal = Reversal(funding, negative)] :
        funding \in SomeOf({"NET_FROM_AVAILABLE", "ALLOW_NEGATIVE"}),
        negative \in SomeOf(BOOLEAN)}

PolicyInit == policyRow = {} /\ promised = {}

PolicyNext ==
    \E industry \in Industries :
        \/ PromisePolicy(industry)
        \/ \E over \in Overrides : CreatePolicy(industry, over)

PolicySpec == PolicyInit /\ [][PolicyNext]_policyVars

-----------------------------------------------------------------------------
\* Properties.

\* What settlement reads of a policy: the companion of another mode plays no part.
Meaning(terms) ==
    [availability |-> <<terms.availability.mode,
                        IF terms.availability.mode = {"DELAY"}
                        THEN terms.availability.days ELSE Null>>,
     reserve |-> <<terms.reserve.type,
                   IF terms.reserve.type = {"ROLLING"} THEN terms.reserve.bps ELSE Null,
                   IF terms.reserve.type = {"FIXED"} THEN terms.reserve.fixed ELSE Null>>,
     payout |-> <<terms.payout.schedule,
                  IF terms.payout.schedule = {"THRESHOLD"} THEN terms.payout.min ELSE Null>>,
     reversal |-> terms.reversal]

\* A policy that is read and posted again, under any industry, is the same one.
RepostKeepsPolicy ==
    \A row \in policyRow : \A industry \in Industries :
        LET again == resolvePolicy(presetForIndustry(industry).terms, row.terms)
        IN  validatePolicy(again) /\ Meaning(again) = Meaning(row.terms)

(***************************************************************************)
(* Whatever a tenant posts, no policy in use is incomplete: the one that   *)
(* an approval promises and the default a capture falls back on would pass *)
(* validatePolicy although nothing validates them, no tenant is charged    *)
(* nothing, and a policy survives being read and posted again: null means  *)
(* "use the preset" field by field, false and zero are values.             *)
(***************************************************************************)
PoliciesHold ==
    /\ \A terms \in promised \cup {appliedPolicy} : validatePolicy(terms)
    /\ resolveFeeSpec > 0
    /\ RepostKeepsPolicy
=============================================================================
