------------------------------- MODULE Purse --------------------------------
(***************************************************************************)
(* What stored value promises its owner, without a ledger: a purse is      *)
(* filled and spent, one purse at a time, and never holds less than        *)
(* nothing.  Wallets implements it with the WALLET postings of each wallet *)
(* as the purse.                                                           *)
(***************************************************************************)
EXTENDS Integers

CONSTANT Owners

VARIABLE purse

Init == purse = [w \in Owners |-> 0]

\* One purse changes, by filling or spending, and is not overdrawn.
Move(w) ==
    /\ purse'[w] \in Nat
    /\ purse' = [purse EXCEPT ![w] = purse'[w]]

Next == \E w \in Owners : Move(w)

Spec == Init /\ [][Next]_purse
=============================================================================
