----------------------------- MODULE MCCheckout -----------------------------
(***************************************************************************)
(* The checkout and the operator's sandbox, side by side: a behaviour      *)
(* picks one and leaves the variables of the other at their initial values. *)
(***************************************************************************)
EXTENDS Checkout, SandboxCharge, TLC

VARIABLE scene

vars == <<scene, checkoutVars, sandboxVars>>

Init ==
    /\ scene \in {"checkout", "sandbox"}
    /\ CheckoutInit
    /\ SandboxInit

Next ==
    /\ UNCHANGED scene
    /\ \/ scene = "checkout" /\ CheckoutNext /\ UNCHANGED sandboxVars
       \/ scene = "sandbox" /\ SandboxNext /\ UNCHANGED checkoutVars

Spec == Init /\ [][Next]_vars

MCSymmetry == Permutations(Requests) \cup Permutations(Operators)

MCThresholds == [maxAmountCents |-> 5, maxPerWindow |-> 1]

=============================================================================
