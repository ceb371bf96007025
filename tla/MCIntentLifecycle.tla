-------------------------- MODULE MCIntentLifecycle -------------------------
(* Small instances of IntentLifecycle: the events each provider delivers. *)
EXTENDS IntentLifecycle, TLC

vpsEvents == [paid |-> "SUCCEEDED", declined |-> "FAILED", refunded |-> "REFUNDED"]

vpsHoldEvents == [auth |-> "AUTHORIZED", paid |-> "SUCCEEDED", voided |-> "CANCELED"]

\* A Stripe payment without a hold.
stripeEvents ==
    [e \in {"sessionCompleted", "intentSucceeded", "paymentFailed", "chargeRefunded"} |->
        stripeEventStatus[e]]

MCSymmetry == Permutations(Merchants)
=============================================================================
