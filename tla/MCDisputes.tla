----------------------------- MODULE MCDisputes -----------------------------
(* Small instances of Disputes: what funds the accounts, and the grosses. *)
EXTENDS Disputes

CONSTANTS d1, d2

MCCents == [d \in {d1, d2} |-> IF d = d1 THEN 3 ELSE 5]

MCCredits ==
    {posting("COLLECTED", "AVAILABLE", 4, "CAPTURE", "payment_intent", "i", 0),
     posting("COLLECTED", "RESERVE", 2, "CAPTURE", "payment_intent", "i", 0)}
=============================================================================
