------------------------------ MODULE MCSplits ------------------------------
(* A small instance of Splits: schedules, configurations and share lists. *)
EXTENDS Splits, TLC

flatOne == [feeType |-> "FLAT", flat |-> 1, bps |-> 0, tiers |-> << >>]
percent == [feeType |-> "PERCENTAGE", flat |-> 0, bps |-> 3, tiers |-> << >>]

MCSchedules == {flatOne, percent}

MCConfigs ==
    {[capabilities |-> FINANCE_PRESETS.wallet, basis |-> "load"],
     [capabilities |-> FINANCE_PRESETS.marketplace, basis |-> "usage"]}

MCRules == {<<[party |-> 1, bps |-> 3]>>,
            <<[party |-> 1, bps |-> 3], [party |-> 2, bps |-> 4]>>}

MCSymmetry == Permutations(WalletIds) \cup Permutations(Releasers)
=============================================================================
