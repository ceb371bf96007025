---------------------------- MODULE MCSettlement ----------------------------
(* Small instances of Settlement: charges and tenant configurations. *)
EXTENDS Settlement

CONSTANTS i1, i2

MCGross == [i \in {i1, i2} |-> IF i = i1 THEN 10 ELSE 7]

percentage == [feeType |-> "PERCENTAGE", flat |-> 0, bps |-> 3, tiers |-> << >>]
flatFee    == [feeType |-> "FLAT", flat |-> 2, bps |-> 0, tiers |-> << >>]
dearFee    == [flatFee EXCEPT !.flat = 8]

rolling   == [reserveType |-> "ROLLING", reserve |-> 2]
noReserve == [reserveType |-> "NONE", reserve |-> 0]
fixed     == [reserveType |-> "FIXED", reserve |-> 1]

noTax == [bps |-> 0, exempt |-> FALSE]
vat   == [bps |-> 5, exempt |-> FALSE]

twoParties == <<[party |-> 1, bps |-> 3], [party |-> 2, bps |-> 4]>>

plain    == [schedule |-> percentage, policy |-> rolling, tax |-> noTax,
             shares |-> << >>]
flat     == [plain EXCEPT !.schedule = flatFee, !.policy = fixed]
\* A flat fee above the smaller charge.
dear     == [plain EXCEPT !.schedule = dearFee]
taxed    == [plain EXCEPT !.tax = vat]
split2   == [plain EXCEPT !.shares = twoParties, !.policy = noReserve,
                          !.tax = vat]

AllConfigs   == {plain, flat, dear, taxed, split2}
=============================================================================
