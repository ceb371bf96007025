-------------------------------- MODULE Risk --------------------------------
(***************************************************************************)
(* Risk scoring (lib/risk.ts): the verdict of an amount and a velocity     *)
(* count under the thresholds of the tenant's tier, and the sliding        *)
(* window.  Amounts are in centimes, as everywhere.                        *)
(***************************************************************************)
EXTENDS Integers, FiniteSets

RISK_VERDICTS == {"ALLOW", "REVIEW", "BLOCK"}

\* The strict side of a REVIEW lost: the count may reach the threshold.
evaluateLate(cents, count, thresholds) ==
    IF cents > thresholds.maxAmountCents THEN "BLOCK"
    ELSE IF count > thresholds.maxPerWindow THEN "REVIEW"
    ELSE "ALLOW"

evaluateRisk(cents, count, thresholds) ==
    IF cents > thresholds.maxAmountCents THEN "BLOCK"
    ELSE IF count >= thresholds.maxPerWindow THEN "REVIEW"
    ELSE "ALLOW"

\* A time at the cutoff itself is still inside the window.
InWindow(at, now, window) == at >= now - window
=============================================================================
