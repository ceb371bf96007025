------------------------------ MODULE MCPayouts -----------------------------
(* Small instances of Payouts: the other movements of the tenant. *)
EXTENDS Payouts, TLC

captured(cents) ==
    posting("COLLECTED", "AVAILABLE", cents, "CAPTURE", "payment_intent", "i", 0)

clawed(cents) ==
    posting("AVAILABLE", "CASH", cents, "CHARGEBACK", "dispute", "d", 0)

MCOtherPostings == {captured(0), captured(3), captured(5), clawed(2)}

MCSymmetry == Permutations(Keys) \cup Permutations(Requests)
=============================================================================
