------------------------------ MODULE Disputes ------------------------------
(***************************************************************************)
(* Chargebacks and clawbacks (lib/reversals-db.ts, lib/reversals.ts) of    *)
(* one tenant.  A dispute is named by its providerDisputeId; a resolver is *)
(* one call of resolveDispute (tenant route or back office).               *)
(*                                                                         *)
(* resolveDispute LOST reads the dispute and the ledger and decides the    *)
(* funding before its transaction, re-reads the status inside it without   *)
(* locking the row, and takes the advisory lock only with its first        *)
(* posting: three steps.  WON is a read and a write in one transaction     *)
(* that takes no lock: two steps.                                          *)
(***************************************************************************)
EXTENDS Ledger, Pricing

CONSTANTS
    DisputeIds,      \* providerDisputeIds
    Resolvers,       \* calls of resolveDispute
    DisputedCents,   \* the gross of each dispute
    Funding,         \* the policy's reversalFunding
    Credits,         \* postings that fund AVAILABLE and RESERVE
    MaxCredits       \* bound: how many of them

ASSUME DisputesAssumption ==
    /\ DisputedCents \in [DisputeIds -> Nat]
    /\ Funding \in {"NET_FROM_AVAILABLE", "DEBIT_RESERVE", "INVOICE_TENANT",
                    "ALLOW_NEGATIVE"}
    /\ \A p \in Credits : p.sourceType # "dispute" /\ p.cents \in Nat
    /\ MaxCredits \in Nat

VARIABLES
    journal,         \* ledger_entries, one element per posting
    dispute,         \* per id: the status of its row, "NONE" before creation
    recovery,        \* the recoveries table: [dispute, cents], unique dispute
    resolver         \* the progress of each resolveDispute call

vars == <<journal, dispute, recovery, resolver>>

canTransition(from, to) == from = "OPEN" /\ to \in {"WON", "LOST"}

Idle == [step |-> "idle"]

-----------------------------------------------------------------------------
Init ==
    /\ journal = << >>
    /\ dispute = [d \in DisputeIds |-> "NONE"]
    /\ recovery = {}
    /\ resolver = [r \in Resolvers |-> Idle]

\* A capture or a wallet draw-down funds the accounts a clawback debits.
Fund(p) ==
    /\ Len(journal) < MaxCredits
    /\ journal' = postEntries(journal, <<p>>)
    /\ UNCHANGED <<dispute, recovery, resolver>>

\* createDispute: a repeated providerDisputeId returns the existing row.
createDispute(d) ==
    /\ dispute[d] = "NONE"
    /\ dispute' = [dispute EXCEPT ![d] = "OPEN"]
    /\ UNCHANGED <<journal, recovery, resolver>>

-----------------------------------------------------------------------------
ReadWon(r, d) ==
    /\ resolver[r] = Idle
    /\ canTransition(dispute[d], "WON")
    /\ resolver' = [resolver EXCEPT ![r] = [step |-> "won", id |-> d]]
    /\ UNCHANGED <<journal, dispute, recovery>>

CommitWon(r) ==
    /\ resolver[r].step = "won"
    /\ dispute' = [dispute EXCEPT ![resolver[r].id] = "WON"]
    /\ resolver' = [resolver EXCEPT ![r] = Idle]
    /\ UNCHANGED <<journal, recovery>>

\* LOST, outside the transaction: status check, balances, funding decision.
ReadLost(r, d) ==
    LET available == balanceOf(journal, "AVAILABLE")
        reserve   == balanceOf(journal, "RESERVE")
    IN  /\ resolver[r] = Idle
        /\ canTransition(dispute[d], "LOST")
        /\ Fundable(available, reserve)
        /\ resolver' = [resolver EXCEPT ![r] =
                [step |-> "funded", id |-> d,
                 allocation |-> fundReversal(Funding, DisputedCents[d],
                                             available, reserve)]]
        /\ UNCHANGED <<journal, dispute, recovery>>

\* LOST, without the second look at the status.
RecheckNothing(r) ==
    /\ resolver[r].step = "funded"
    /\ resolver' = [resolver EXCEPT ![r].step = "checked"]
    /\ UNCHANGED <<journal, dispute, recovery>>

\* LOST, inside the transaction: the status is read again.
RecheckLost(r) ==
    /\ resolver[r].step = "funded"
    /\ resolver' = [resolver EXCEPT ![r] =
            IF canTransition(dispute[resolver[r].id], "LOST")
            THEN [resolver[r] EXCEPT !.step = "checked"] ELSE Idle]
    /\ UNCHANGED <<journal, dispute, recovery>>

clawbackLegs(d, allocation) ==
    LET leg(account, cents) ==
            IF cents > 0
            THEN <<posting(account, "CASH", cents, "CHARGEBACK",
                           "dispute", d, 0)>>
            ELSE << >>
    IN  leg("AVAILABLE", allocation.fromAvailable)
        \o leg("RESERVE", allocation.fromReserve)

HasRecovery(d) == \E rec \in recovery : rec.dispute = d

(***************************************************************************)
(* The postings, the status flip and the Recovery row commit together; a   *)
(* second Recovery of one dispute trips the unique index and rolls back.   *)
(***************************************************************************)
CommitLost(r) ==
    LET d == resolver[r].id
        allocation == resolver[r].allocation
    IN  /\ resolver[r].step = "checked"
        /\ ~(allocation.uncovered > 0 /\ HasRecovery(d))
        /\ journal' = postEntries(journal, clawbackLegs(d, allocation))
        /\ dispute' = [dispute EXCEPT ![d] = "LOST"]
        /\ recovery' = recovery \cup
              (IF allocation.uncovered > 0
               THEN {[dispute |-> d, cents |-> allocation.uncovered]} ELSE {})
        /\ resolver' = [resolver EXCEPT ![r] = Idle]

\* A throw, a rollback or a crash ends the call.
AbortResolve(r) ==
    /\ resolver[r] # Idle
    /\ resolver' = [resolver EXCEPT ![r] = Idle]
    /\ UNCHANGED <<journal, dispute, recovery>>

-----------------------------------------------------------------------------
Next ==
    \/ \E p \in Credits : Fund(p)
    \/ \E d \in DisputeIds : createDispute(d)
    \/ \E r \in Resolvers :
          \/ \E d \in DisputeIds : ReadWon(r, d) \/ ReadLost(r, d)
          \/ CommitWon(r)
          \/ RecheckLost(r)
          \/ CommitLost(r)
          \/ AbortResolve(r)

Spec == Init /\ [][Next]_vars

-----------------------------------------------------------------------------
Allocations == [fromAvailable : Nat, fromReserve : Nat, uncovered : Nat]

ClawbackPostings ==
    [debit : {"AVAILABLE", "RESERVE"}, credit : {"CASH"}, cents : Nat,
     category : {"CHARGEBACK"}, sourceType : {"dispute"},
     sourceId : DisputeIds, party : {0}]

Postings == Credits \cup ClawbackPostings

ResolverStates ==
    {Idle} \cup [step : {"won"}, id : DisputeIds]
    \cup [step : {"funded", "checked"}, id : DisputeIds,
          allocation : Allocations]

TypeOK ==
    /\ journal \in Seq(Postings)
    /\ dispute \in [DisputeIds -> {"NONE", "OPEN", "WON", "LOST"}]
    /\ recovery \subseteq [dispute : DisputeIds, cents : Nat]
    /\ resolver \in [Resolvers -> ResolverStates]

\* What the clawbacks of a dispute returned to the card network.
Clawed(d) == balanceOver(journal, "CASH", PostingsOf(journal, "dispute", d))

\* What the tenant still owes for it.
Receivable(d) ==
    SumFunctionOnSet([rec \in recovery |-> rec.cents],
                     {rec \in recovery : rec.dispute = d})

(***************************************************************************)
(* resolveDispute settles a lost dispute in full: it is never LOST with    *)
(* less than its gross clawed back or recorded as a Recovery.              *)
(***************************************************************************)
LostIsCovered ==
    \A d \in DisputeIds :
        dispute[d] = "LOST" => Clawed(d) + Receivable(d) >= DisputedCents[d]

\* What a dispute costs the tenant so far.
Taken(d) == Clawed(d) + Receivable(d)

\* Resolved, and no call is between its last look at the status and its commit.
AtRest(d) ==
    /\ dispute[d] \in {"WON", "LOST"}
    /\ ~ \E r \in Resolvers : resolver[r].step \in {"won", "checked"}
                             /\ resolver[r].id = d

(***************************************************************************)
(* "Re-check inside the transaction so a concurrent resolve can't          *)
(* double-claw" (resolveDispute): the commit that loses an open dispute    *)
(* takes its gross, neither more nor less; and once a dispute is resolved, *)
(* no call, whatever it read and decided before, changes the outcome or    *)
(* what was taken.  Only calls that were past the re-check before the      *)
(* first one committed still can, since the re-check locks nothing.        *)
(***************************************************************************)
ResolutionIsFinal ==
    [][\A d \in DisputeIds :
        /\ dispute[d] = "OPEN" /\ dispute'[d] = "LOST" => Taken(d)' = DisputedCents[d]
        /\ AtRest(d) =>
              AtRest(d)' /\ dispute'[d] = dispute[d] /\ Taken(d)' = Taken(d)]_vars
=============================================================================
