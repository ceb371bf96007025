---------------------------- MODULE FinanceConfig ---------------------------
(***************************************************************************)
(* The capabilities of a tenant (lib/finance-config.ts): which sets of     *)
(* them the validator accepts, and the presets.                            *)
(***************************************************************************)

FINANCE_CAPABILITIES ==
    {"INSTANT_CAPTURE", "PREAUTH_CAPTURE", "WALLET", "SUBSCRIPTIONS",
     "INSTALLMENTS", "MARKETPLACE_SPLITS"}

CAPTURE_DEPENDENT == {"SUBSCRIPTIONS", "INSTALLMENTS", "MARKETPLACE_SPLITS"}

WALLET_COMMISSION_BASIS == {"usage", "load"}

FINANCE_PRESETS ==
    [standard    |-> {"INSTANT_CAPTURE", "PREAUTH_CAPTURE", "SUBSCRIPTIONS",
                      "INSTALLMENTS"},
     wallet      |-> {"WALLET", "INSTANT_CAPTURE"},
     marketplace |-> {"INSTANT_CAPTURE", "PREAUTH_CAPTURE",
                      "MARKETPLACE_SPLITS"},
     full        |-> FINANCE_CAPABILITIES]

\* validateFinanceConfig finds nothing to reject (a set has no duplicates).
ValidFinanceConfig(capabilities, basis) ==
    /\ capabilities \subseteq FINANCE_CAPABILITIES
    /\ capabilities \cap CAPTURE_DEPENDENT # {} =>
          capabilities \cap {"INSTANT_CAPTURE", "PREAUTH_CAPTURE"} # {}
    /\ basis \in WALLET_COMMISSION_BASIS
=============================================================================
