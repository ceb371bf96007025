------------------------------- MODULE Splits -------------------------------
(***************************************************************************)
(* Marketplace splits outside capture settlement (lib/splits-db.ts,        *)
(* routes/splits.ts): executions, of a stored rule or of an inline one,    *)
(* and the release of a held share.  They divide what the draw-downs of    *)
(* Wallets earn, so both work on the accounts of one tenant.               *)
(*                                                                         *)
(* executeSplit posts and writes its rows under the tenant's lock and is   *)
(* one step.  releaseSplit reads the row before its first postEntry takes  *)
(* that lock, so a release is a read and a commit.                         *)
(***************************************************************************)
EXTENDS Wallets

CONSTANTS
    Releasers,       \* requests of POST /splits/:id/release
    Rules,           \* share lists a rule may have, or an inline request
    MaxSplits        \* bound: Split rows before another execution

ASSUME SplitsAssumption ==
    /\ MaxSplits \in Nat
    /\ Rules \subseteq Seq([party : Nat, bps : Nat])
    /\ \A shares \in Rules : ValidShares(shares)

VARIABLES
    splits,          \* the Split rows, in order of creation
    releaser         \* the progress of each release request

splitVars == <<splits, releaser>>

vars == <<walletVars, splitVars>>

TRIGGERS == {"AT_CAPTURE", "ON_USAGE", "MANUAL"}

Idle == [pc |-> "idle", row |-> 0]

-----------------------------------------------------------------------------
sourceAccountFor(trigger) ==
    IF trigger = "AT_CAPTURE" THEN "COLLECTED" ELSE "AVAILABLE"

canTransition(from, to) == from = "PENDING" /\ to \in {"SETTLED", "REVERSED"}

\* The legs of every share leave the source account.
ShareTotal(cents, shares) == SumFunction(split(cents, shares).shares)

\* executeSplitInTx as the balances see it.
SplitPosted(accounts, cents, shares, trigger, hold) ==
    LET source == sourceAccountFor(trigger)
        shared == moved(accounts, source, IF hold THEN "RESERVE" ELSE "AVAILABLE",
                        ShareTotal(cents, shares))
    IN  IF trigger = "AT_CAPTURE"
        THEN moved(shared, source, "AVAILABLE", split(cents, shares).platform)
        ELSE shared

\* One row per beneficiary: PENDING while it is held.
SplitRows(cents, shares, hold) ==
    [n \in DOMAIN shares |->
        [party |-> shares[n].party, cents |-> split(cents, shares).shares[n],
         status |-> IF hold THEN "PENDING" ELSE "SETTLED", held |-> hold,
         released |-> 0]]

\* An execution that marks a held share as settled.
executeSettled(cents, shares, trigger, hold) ==
    /\ Len(splits) < MaxSplits
    /\ account' = SplitPosted(account, cents, shares, trigger, hold)
    /\ splits' = splits \o SplitRows(cents, shares, FALSE)
    /\ UNCHANGED <<held, wallet, movements, config, releaser>>

\* executeSplit: shares and trigger of the request, or of a stored rule, active or not.
executeSplit(cents, shares, trigger, hold) ==
    /\ Len(splits) < MaxSplits
    /\ account' = SplitPosted(account, cents, shares, trigger, hold)
    /\ splits' = splits \o SplitRows(cents, shares, hold)
    /\ UNCHANGED <<held, wallet, movements, config, releaser>>

\* releaseSplit up to assertTransition.
ReadRelease(r, n) ==
    /\ releaser[r] = Idle
    /\ canTransition(splits[n].status, "SETTLED")
    /\ releaser' = [releaser EXCEPT ![r] = [pc |-> "read", row |-> n]]
    /\ UNCHANGED <<walletVars, splits>>

\* The posting and the row; released counts the RESERVE_RELEASE postings of it.
CommitRelease(r) ==
    LET n == releaser[r].row
    IN  /\ releaser[r].pc = "read"
        /\ account' = moved(account, "RESERVE", "AVAILABLE", splits[n].cents)
        /\ splits' = [splits EXCEPT ![n].released = @ + 1, ![n].status = "SETTLED"]
        /\ releaser' = [releaser EXCEPT ![r] = Idle]
        /\ UNCHANGED <<held, wallet, movements, config>>

AbortRelease(r) ==
    /\ releaser[r].pc = "read"
    /\ releaser' = [releaser EXCEPT ![r] = Idle]
    /\ UNCHANGED <<walletVars, splits>>

-----------------------------------------------------------------------------
Init ==
    /\ WalletInit
    /\ splits = << >>
    /\ releaser = [r \in Releasers |-> Idle]

Next ==
    \/ WalletNext /\ UNCHANGED splitVars
    \/ \E shares \in Rules, trigger \in TRIGGERS :
          \E cents \in Amounts, hold \in BOOLEAN :
             executeSplit(cents, shares, trigger, hold)
    \/ \E r \in Releasers :
          \/ \E n \in DOMAIN splits : ReadRelease(r, n)
          \/ CommitRelease(r)
          \/ AbortRelease(r)

Spec == Init /\ [][Next]_vars
-----------------------------------------------------------------------------
\* Properties.

Escrowed ==
    SumFunctionOnSet([n \in DOMAIN splits |-> splits[n].cents],
                     {n \in DOMAIN splits : splits[n].status = "PENDING"})

(***************************************************************************)
(* RESERVE holds exactly the shares that are still PENDING, so every one   *)
(* of them can be released in full, unless overlapping requests released   *)
(* some share twice (releaseSplit reads before it locks).                  *)
(***************************************************************************)
EscrowCoversPending ==
    (\A n \in DOMAIN splits : splits[n].released <= 1)
        => account["RESERVE"] = Escrowed
=============================================================================
