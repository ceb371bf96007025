------------------------------- MODULE Payouts ------------------------------
(***************************************************************************)
(* The payout engine (lib/payout-db.ts, lib/payout.ts, routes/payouts.ts)  *)
(* of one tenant, and the settlement summary (lib/settlement-summary.ts).  *)
(*                                                                         *)
(* A payout is named by its idempotency key.  A request is one HTTP call   *)
(* of POST /payouts/:id/cancel, POST /payouts/:id/process or               *)
(* POST /admin/payouts/:id/execute.                                        *)
(*                                                                         *)
(* Every statement commits or reads at READ COMMITTED.  createPayout and   *)
(* markPayoutPaid hold the tenant's advisory lock, which also serialises   *)
(* every other posting of the tenant; cancelPayout and markPayoutFailed    *)
(* never take it and check the status before their transaction starts.  So *)
(* createPayout is one step, markPayoutPaid is a locked read and a commit, *)
(* and the other two are a read and a blind write.                         *)
(*                                                                         *)
(* All amounts are in the settlement currency: the sweep of foreign        *)
(* balances at the start of createPayout finds nothing to convert.         *)
(***************************************************************************)
EXTENDS Ledger

CONSTANTS
    Keys,            \* idempotency keys, one payout each
    Requests,        \* HTTP requests that cancel or process a payout
    Rail,            \* the policy's payoutRail: "MANUAL" or "STRIPE_CONNECT"
    OtherPostings,   \* the postings the rest of the system may make
    MaxPostings,     \* bound: postings in the journal when another one starts
    MaxTransfers,    \* bound: provider transfers per payout
    Free             \* the advisory lock is held by no request

ASSUME PayoutsAssumption ==
    /\ Free \notin Requests
    /\ Rail \in {"MANUAL", "STRIPE_CONNECT"}
    /\ MaxPostings \in Nat /\ MaxTransfers \in Nat
    /\ \A p \in OtherPostings : p.category # "PAYOUT" /\ p.cents \in Nat

VARIABLES
    journal,         \* ledger_entries, one element per posting
    lock,            \* pg_advisory_xact_lock of the tenant
    status,          \* per key: the status of its row, "NONE" before creation
    amount,          \* per key: the amount of its row
    items,           \* payout_items: [entry, key, cents]
    request,         \* per request: what it is doing, and to which payout
    transfers        \* per key: how often the provider moved the money

vars == <<journal, lock, status, amount, items, request, transfers>>

OPEN_PAYOUT_STATUSES == {"DRAFT", "SCHEDULED", "PENDING", "PROCESSING"}

TERMINAL == {"PAID", "FAILED", "CANCELLED"}

canTransition(from, to) ==
    <<from, to>> \in
        {<<"DRAFT", "SCHEDULED">>, <<"DRAFT", "CANCELLED">>,
         <<"SCHEDULED", "PENDING">>, <<"SCHEDULED", "CANCELLED">>,
         <<"PENDING", "PROCESSING">>, <<"PENDING", "FAILED">>,
         <<"PENDING", "CANCELLED">>, <<"PROCESSING", "PAID">>,
         <<"PROCESSING", "FAILED">>}

Idle == [op |-> "idle"]

Doing(op, k) == [op |-> op, key |-> k]

-----------------------------------------------------------------------------
\* createPayout's snapshot.

IsReserved(n) == \E it \in items : it.entry = n

\* Forgetting the payout_items of the other payouts.
AllCredits == {n \in DOMAIN journal : journal[n].credit = "AVAILABLE"}

\* AVAILABLE credits that no payout has reserved, oldest first.
UnpaidCredits ==
    {n \in DOMAIN journal : journal[n].credit = "AVAILABLE" /\ ~IsReserved(n)}

\* Forgetting the refunds and clawbacks already taken.
NoDebits == {}

OtherDebits ==
    {n \in DOMAIN journal : /\ journal[n].debit = "AVAILABLE"
                            /\ journal[n].category # "PAYOUT"}

CentsOf(numbers) ==
    SumFunctionOnSet([n \in DOMAIN journal |-> journal[n].cents], numbers)

Payable == CentsOf(UnpaidCredits) - CentsOf(OtherDebits)

\* An allocation that reserves the last credit whole.
WholeAllocation(k, cents) ==
    LET before(n) == CentsOf({m \in UnpaidCredits : m < n})
    IN  {[entry |-> n, key |-> k, cents |-> journal[n].cents] :
            n \in {n \in UnpaidCredits : before(n) < cents}}

\* FIFO allocation of cents over the unpaid credits; the last may be partial.
Allocation(k, cents) ==
    LET before(n) == CentsOf({m \in UnpaidCredits : m < n})
    IN  {[entry |-> n, key |-> k,
          cents |-> IF before(n) + journal[n].cents <= cents
                    THEN journal[n].cents ELSE cents - before(n)] :
            n \in {n \in UnpaidCredits : before(n) < cents}}

\* computeSettlementSummary: what the summary says can be scheduled right now.
Scheduled ==
    SumFunctionOnSet(amount,
                     {k \in Keys : status[k] \in OPEN_PAYOUT_STATUSES})

Eligible ==
    LET rest == balanceOf(journal, "AVAILABLE") - Scheduled
    IN  IF rest > 0 THEN rest ELSE 0

-----------------------------------------------------------------------------
Init ==
    /\ journal = << >>
    /\ lock = Free
    /\ status = [k \in Keys |-> "NONE"]
    /\ amount = [k \in Keys |-> 0]
    /\ items = {}
    /\ request = [r \in Requests |-> Idle]
    /\ transfers = [k \in Keys |-> 0]

(***************************************************************************)
(* postEntry on behalf of captures, refunds, clawbacks, wallets, splits:   *)
(* under the tenant's lock, never of category PAYOUT.                      *)
(***************************************************************************)
OtherPosting(p) ==
    /\ lock = Free
    /\ Len(journal) < MaxPostings
    /\ journal' = postEntries(journal, <<p>>)
    /\ UNCHANGED <<lock, status, amount, items, request, transfers>>

(***************************************************************************)
(* createPayout.  A key that has a payout returns it; two concurrent calls *)
(* with one key leave one row (the loser finds no funds or trips the       *)
(* unique index), so only the first call of a key changes state.           *)
(***************************************************************************)
CreatePayout(k) ==
    /\ lock = Free
    /\ status[k] = "NONE"
    /\ Payable \in Nat \ {0}
    /\ status' = [status EXCEPT ![k] = "DRAFT"]
    /\ amount' = [amount EXCEPT ![k] = Payable]
    /\ items' = items \cup Allocation(k, Payable)
    /\ UNCHANGED <<journal, lock, request, transfers>>

-----------------------------------------------------------------------------
\* cancelPayout: the status check, then deleteMany + update in a transaction.

ReadCancel(r, k) ==
    /\ request[r] = Idle
    /\ canTransition(status[k], "CANCELLED")
    /\ request' = [request EXCEPT ![r] = Doing("cancel", k)]
    /\ UNCHANGED <<journal, lock, status, amount, items, transfers>>

ReleaseWith(r, final) ==
    LET k == request[r].key
    IN  /\ items' = {it \in items : it.key # k}
        /\ status' = [status EXCEPT ![k] = final]
        /\ request' = [request EXCEPT ![r] = Idle]
        /\ UNCHANGED <<journal, lock, amount, transfers>>

CommitCancel(r) == request[r].op = "cancel" /\ ReleaseWith(r, "CANCELLED")

-----------------------------------------------------------------------------
\* POST /payouts/:id/process: any existing payout, whatever its status.

ReadProcess(r, k) ==
    /\ request[r] = Idle
    /\ status[k] # "NONE"
    /\ request' = [request EXCEPT ![r] =
            Doing(IF Rail = "MANUAL" THEN "settle" ELSE "transfer", k)]
    /\ UNCHANGED <<journal, lock, status, amount, items, transfers>>

\* POST /admin/payouts/:id/execute: a transfer made by hand, on any rail.
ExecutePayout(r, k) ==
    /\ request[r] = Idle
    /\ status[k] \notin {"NONE", "PAID"}
    /\ request' = [request EXCEPT ![r] = Doing("settle", k)]
    /\ UNCHANGED <<journal, lock, status, amount, items, transfers>>

\* adapter.createPayout succeeds: the provider has moved the money.
TransferSucceeds(r) ==
    /\ request[r].op = "transfer"
    /\ transfers[request[r].key] < MaxTransfers
    /\ transfers' = [transfers EXCEPT ![request[r].key] = @ + 1]
    /\ request' = [request EXCEPT ![r].op = "settle"]
    /\ UNCHANGED <<journal, lock, status, amount, items>>

\* markPayoutFailed without its status check.
TransferFailsUnchecked(r) ==
    /\ request[r].op = "transfer"
    /\ request' = [request EXCEPT ![r] = Doing("fail", request[r].key)]
    /\ UNCHANGED <<journal, lock, status, amount, items, transfers>>

\* adapter.createPayout reports failure: markPayoutFailed's status check.
TransferFails(r) ==
    /\ request[r].op = "transfer"
    /\ request' = [request EXCEPT ![r] =
            IF status[request[r].key] \in TERMINAL
            THEN Idle ELSE Doing("fail", request[r].key)]
    /\ UNCHANGED <<journal, lock, status, amount, items, transfers>>

CommitFailed(r) == request[r].op = "fail" /\ ReleaseWith(r, "FAILED")

\* markPayoutPaid trusting the status that the route read.
LockPaidStale(r) ==
    /\ request[r].op = "settle"
    /\ lock = Free
    /\ balanceOf(journal, "AVAILABLE") >= amount[request[r].key]
    /\ request' = [request EXCEPT ![r].op = "pay"]
    /\ lock' = r
    /\ UNCHANGED <<journal, status, amount, items, transfers>>

(***************************************************************************)
(* markPayoutPaid takes the lock and re-validates the status and the       *)
(* current AVAILABLE balance; a conflict throws and the request ends.      *)
(***************************************************************************)
LockPaid(r) ==
    LET k == request[r].key
    IN  /\ request[r].op = "settle"
        /\ lock = Free
        /\ IF \/ status[k] \in TERMINAL
              \/ balanceOf(journal, "AVAILABLE") < amount[k]
           THEN request' = [request EXCEPT ![r] = Idle] /\ UNCHANGED lock
           ELSE /\ request' = [request EXCEPT ![r].op = "pay"]
                /\ lock' = r
        /\ UNCHANGED <<journal, status, amount, items, transfers>>

\* The AVAILABLE -> PAID_OUT posting and the status flip commit together.
CommitPaid(r) ==
    LET k == request[r].key
    IN  /\ request[r].op = "pay"
        /\ journal' = postEntries(journal,
                <<posting("AVAILABLE", "PAID_OUT", amount[k], "PAYOUT",
                          "payout", k, 0)>>)
        /\ status' = [status EXCEPT ![k] = "PAID"]
        /\ request' = [request EXCEPT ![r] = Idle]
        /\ lock' = Free
        /\ UNCHANGED <<amount, items, transfers>>

\* The process dies, or a call throws: an open transaction rolls back.
Abort(r) ==
    /\ request[r] # Idle
    /\ request' = [request EXCEPT ![r] = Idle]
    /\ lock' = IF lock = r THEN Free ELSE lock
    /\ UNCHANGED <<journal, status, amount, items, transfers>>

-----------------------------------------------------------------------------
Next ==
    \/ \E p \in OtherPostings : OtherPosting(p)
    \/ \E k \in Keys : CreatePayout(k)
    \/ \E r \in Requests :
          \/ \E k \in Keys : ReadCancel(r, k) \/ ReadProcess(r, k) \/ ExecutePayout(r, k)
          \/ CommitCancel(r)
          \/ TransferSucceeds(r)
          \/ TransferFails(r)
          \/ CommitFailed(r)
          \/ LockPaid(r)
          \/ CommitPaid(r)
          \/ Abort(r)

Spec == Init /\ [][Next]_vars

-----------------------------------------------------------------------------
Statuses == {"NONE"} \cup OPEN_PAYOUT_STATUSES \cup TERMINAL

Operations == {"cancel", "transfer", "fail", "settle", "pay"}

PayoutPostings ==
    [debit : {"AVAILABLE"}, credit : {"PAID_OUT"}, cents : Nat,
     category : {"PAYOUT"}, sourceType : {"payout"}, sourceId : Keys,
     party : {0}]

Postings == OtherPostings \cup PayoutPostings

RequestStates == {Idle} \cup [op : Operations, key : Keys]

TypeOK ==
    /\ journal \in Seq(Postings)
    /\ lock \in Requests \cup {Free}
    /\ status \in [Keys -> Statuses]
    /\ amount \in [Keys -> Nat]
    /\ \A it \in items : it.entry \in DOMAIN journal /\ it.key \in Keys
    /\ request \in [Requests -> RequestStates]
    /\ transfers \in [Keys -> Nat]

IsSettlementOf(p, k) == p.category = "PAYOUT" /\ p.sourceId = k

(***************************************************************************)
(* However cancel, fail and process requests interleave, markPayoutPaid    *)
(* moves the money of a payout at most once: the lock makes its status     *)
(* check and its posting one unit against every other markPayoutPaid, and  *)
(* the unlocked writers only ever write terminal statuses.                 *)
(***************************************************************************)
SettledAtMostOnce ==
    \A k \in Keys : \A m, n \in DOMAIN journal :
        IsSettlementOf(journal[m], k) /\ IsSettlementOf(journal[n], k) => m = n

(***************************************************************************)
(* "each AVAILABLE entry settled at most once" (prisma/schema.prisma): no  *)
(* two payouts reserve one credit, so the unique index never rejects one.  *)
(***************************************************************************)
EntryReservedOnce ==
    \A it, other \in items : it.entry = other.entry => it = other

(***************************************************************************)
(* An open payout is funded to the centime by the credits it reserves, and *)
(* takes no more of a credit than the credit holds (createPayout's FIFO).  *)
(***************************************************************************)
OpenPayoutIsFunded ==
    /\ \A it \in items : it.cents \in 0..journal[it.entry].cents
    /\ \A k \in Keys : status[k] \in OPEN_PAYOUT_STATUSES =>
          SumFunctionOnSet([it \in items |-> it.cents],
                           {it \in items : it.key = k}) = amount[k]

ItemsOf(k) == {it \in items : it.key = k}

\* Requests that have checked the status of a payout and have yet to write it.
PastTheCheck(k) ==
    \E r \in Requests : /\ request[r].op \in {"cancel", "fail", "pay"}
                        /\ request[r].key = k

\* A payout that is settled, failed or cancelled, and that nobody is about to write.
AtRest(k) == status[k] \in TERMINAL /\ ~PastTheCheck(k)

(***************************************************************************)
(* TERMINAL ("payout is already ..."): whichever requests arrive, and      *)
(* however late a transfer fails or succeeds, a payout at rest stays as it *)
(* is.  Its status and its reservations can still be overwritten only by a *)
(* request that had passed its status check before the payout ended, which *)
(* cancelPayout and markPayoutFailed, that take no lock, do not rule out.  *)
(***************************************************************************)
TerminalIsFinal ==
    [][\A k \in Keys : AtRest(k) =>
          AtRest(k)' /\ status'[k] = status[k] /\ ItemsOf(k)' = ItemsOf(k)]_vars

\* The ledger and the rows of a payout disagree: released but paid, or paid but released.
Torn(k) ==
    \/ status[k] # "PAID" /\ \E n \in DOMAIN journal :
                                        IsSettlementOf(journal[n], k)
    \/ status[k] = "PAID" /\ ~ \E it \in items : it.key = k

\* markPayoutPaid: no posting slips in between its re-validation and its own.
PaysWithinBalance(k) ==
    status[k] # "PAID" /\ status'[k] = "PAID" => balanceOf(journal', "AVAILABLE") >= 0

\* createPayout drafts what the settlement summary calls eligible, or less.
DraftsWithinEligible(k) ==
    /\ status[k] = "NONE" /\ status'[k] = "DRAFT"
    /\ \A l \in Keys : ~Torn(l)
    => amount'[k] <= Eligible

(***************************************************************************)
(* A payout stays within the tenant's funds, when it is drafted (AVAILABLE *)
(* less the open payouts, unless a cancel raced a process and tore some    *)
(* payout) and again when it is paid, whatever clawbacks and other payouts *)
(* came in between (createPayout, markPayoutPaid).                         *)
(***************************************************************************)
PayoutWithinFunds ==
    [][\A k \in Keys : PaysWithinBalance(k) /\ DraftsWithinEligible(k)]_vars
=============================================================================
