-------------------------- MODULE IntentLifecycle ---------------------------
(***************************************************************************)
(* The life of one payment intent, and everyone who writes its status: the *)
(* checkout route (routes/paymentIntents.ts), the webhook jobs of VPS/NAPS *)
(* and of Stripe (jobs/webhookProcessor, jobs/stripeWebhookProcessor), the *)
(* poller (jobs/paymentPoller), the status route, the merchant's capture   *)
(* and void requests (lib/intent-actions.ts) and refunds                   *)
(* (routes/refunds.ts).                                                    *)
(*                                                                         *)
(* The provider is external: charge is the truth it holds, and every       *)
(* change of it sends the events that report it.  Events are delivered in  *)
(* any order and at any time; the dedup by idempotency key                 *)
(* (routes/webhooks.ts and the queue's event id) gives each event one job, *)
(* and a step of a job that is not acknowledged runs again.                *)
(*                                                                         *)
(* settled and unwound say whether the ledger holds the postings of        *)
(* settleCapture and settleRefund; module Settlement models those.         *)
(***************************************************************************)
EXTENDS Naturals

CONSTANTS
    Provider,        \* "VPS" (also NAPS) or "STRIPE"
    Preauth,         \* body.isPreauth: the merchant captures later
    Verdict,         \* the risk verdict of the intent, "ALLOW" or "REVIEW"
    EventStatus,     \* per event the provider delivers: the status it maps to
    Outages,         \* the provider's API may be down longer than a step is retried
    Merchants,       \* capture and void requests
    Queries,         \* calls of GET /payment-intents/:id/status
    Refunders        \* calls of POST /transactions/:id/refund

ASSUME IntentAssumption ==
    /\ Provider \in {"VPS", "STRIPE"}
    /\ Preauth \in BOOLEAN
    /\ Verdict \in {"ALLOW", "REVIEW"}
    /\ Outages \in BOOLEAN

VARIABLES
    status,          \* PaymentIntent.status
    linkPaid,        \* PaymentLink.status = "PAID"
    charge,          \* the provider's own state of the charge
    job,             \* per event: the progress of its webhook job
    poller,          \* the poll-status job
    query,           \* per status call: its progress
    merchant,        \* per capture or void request: its progress
    refunder,        \* per refund request: its progress
    refund,          \* the status of the active Refund row
    settled,         \* settleCapture has booked the capture
    unwound,         \* settleRefund has reversed it
    notified         \* statuses sent to the tenant as payment/notify

vars == <<status, linkPaid, charge, job, poller, query, merchant, refunder,
          refund, settled, unwound, notified>>

\* Everything but the status and the row of one actor's progress.
rows == <<linkPaid, refund, settled, unwound, notified>>

Events == DOMAIN EventStatus

Statuses == {"CREATED", "REQUIRES_ACTION", "AUTHORIZED", "PROCESSING",
             "SUCCEEDED", "FAILED", "CANCELED", "REFUNDED"}

ASSUME EventAssumption == EventStatus \in [Events -> Statuses]

TERMINAL == {"SUCCEEDED", "FAILED", "CANCELED", "REFUNDED"}

\* What the checkout session asks of the provider, and what the row remembers.
HoldsFunds == Preauth \/ Verdict = "REVIEW"
isPreauth  == Preauth

Rest == [pc |-> "rest", seen |-> "CREATED"]

At(pc, seen) == [pc |-> pc, seen |-> seen]

-----------------------------------------------------------------------------
\* The provider.

\* queryTransactionStatus of each adapter, through lib/status-maps.ts.  A charge
\* that VPS does not know yet, and a Stripe session not started, are pending.
VpsStatus ==
    [none |-> "REQUIRES_ACTION", open |-> "REQUIRES_ACTION",
     authorized |-> "AUTHORIZED", captured |-> "SUCCEEDED", voided |-> "CANCELED",
     declined |-> "FAILED", refunded |-> "REFUNDED"]

StripeStatus ==
    [none |-> "REQUIRES_ACTION", open |-> "REQUIRES_ACTION",
     authorized |-> "AUTHORIZED", captured |-> "SUCCEEDED", voided |-> "CANCELED",
     declined |-> "REQUIRES_ACTION", refunded |-> "SUCCEEDED"]

Reported == IF Provider = "VPS" THEN VpsStatus[charge] ELSE StripeStatus[charge]

\* The charge changes and the events that report the change are sent.
ChargeBecomes(new, reported) ==
    /\ charge' = new
    /\ job' = [e \in Events |->
                  IF EventStatus[e] = reported /\ job[e].pc = "rest"
                  THEN At("sent", "CREATED") ELSE job[e]]

(***************************************************************************)
(* The Stripe events the job acts on; it skips every other.  A payment     *)
(* without a hold sends both of the first two.                             *)
(***************************************************************************)
stripeEventStatus ==
    [sessionCompleted |-> "SUCCEEDED",
     intentSucceeded |-> "SUCCEEDED",
     amountCapturableUpdated |-> "AUTHORIZED",
     paymentFailed |-> "FAILED",
     intentCanceled |-> "CANCELED",
     chargeRefunded |-> "REFUNDED"]

\* A declined Stripe session stays open for another card.
Payable == charge = "open" \/ (Provider = "STRIPE" /\ charge = "declined")

CustomerPays ==
    /\ Payable
    /\ IF HoldsFunds THEN ChargeBecomes("authorized", "AUTHORIZED")
                     ELSE ChargeBecomes("captured", "SUCCEEDED")
    /\ UNCHANGED <<status, poller, query, merchant, refunder, rows>>

CardDeclined ==
    /\ charge = "open"
    /\ ChargeBecomes("declined", "FAILED")
    /\ UNCHANGED <<status, poller, query, merchant, refunder, rows>>

-----------------------------------------------------------------------------
Init ==
    /\ status = "CREATED"
    /\ linkPaid = FALSE
    /\ charge = "none"
    /\ job = [e \in Events |-> Rest]
    /\ poller = Rest
    /\ query = [q \in Queries |-> Rest]
    /\ merchant = [m \in Merchants |-> Rest]
    /\ refunder = [r \in Refunders |-> Rest]
    /\ refund = "NONE"
    /\ settled = FALSE
    /\ unwound = FALSE
    /\ notified = {}

(***************************************************************************)
(* The provider opened a checkout session for the CREATED row; the row and *)
(* the poller follow before the customer is redirected.                    *)
(***************************************************************************)
OpenCheckout ==
    /\ charge = "none"
    /\ charge' = "open"
    /\ status' = "REQUIRES_ACTION"
    /\ poller' = At("sleep", "CREATED")
    /\ UNCHANGED <<job, query, merchant, refunder, rows>>

-----------------------------------------------------------------------------
\* The webhook job of an event.

(***************************************************************************)
(* The status the job decides on: VPS memoises it in its first step, find- *)
(* intent; Stripe reads it again at the start of update-intent-status.     *)
(***************************************************************************)
ReadStatus(e) ==
    /\ job[e].pc = "sent"
    /\ job' = [job EXCEPT ![e] = At("read", status)]
    /\ UNCHANGED <<status, charge, poller, query, merchant, refunder, rows>>

\* Whether update-intent-status writes the status of the event over the one read.
Applies(seen, new) ==
    IF Provider = "VPS"
    THEN seen \notin TERMINAL
    ELSE seen \in TERMINAL =>
            /\ seen # new
            /\ new = "REFUNDED" => seen = "SUCCEEDED"
            /\ new \in TERMINAL

\* A mutant: Stripe settles every event that changed the status.
SettlesAll(seen, new) ==
    (Provider = "VPS" /\ new = "SUCCEEDED") \/ Applies(seen, new)

\* VPS settles every SUCCEEDED event, Stripe one that changed the status.
Settles(seen, new) ==
    new = "SUCCEEDED" /\ (Provider = "VPS" \/ Applies(seen, new))

(***************************************************************************)
(* update-intent-status.  When the step is not acknowledged it runs again, *)
(* on VPS with the same memoised status, on Stripe with a fresh one.       *)
(***************************************************************************)
UpdateStatus(e, acknowledged) ==
    LET seen == job[e].seen
        new  == EventStatus[e]
    IN  /\ job[e].pc = "read"
        /\ status' = IF Applies(seen, new) THEN new ELSE status
        /\ linkPaid' = (linkPaid \/ (Provider = "VPS" /\ new = "SUCCEEDED"))
        /\ job' = [job EXCEPT ![e] =
                IF acknowledged
                THEN At(IF Settles(seen, new) THEN "settle" ELSE "store", seen)
                ELSE IF Provider = "VPS" THEN job[e] ELSE At("sent", seen)]
        /\ UNCHANGED <<charge, poller, query, merchant, refunder, refund,
                       settled, unwound, notified>>

(***************************************************************************)
(* The VPS step catches every error, a passing one of the database too,    *)
(* and records the event as not processed: it is not tried again.          *)
(***************************************************************************)
DropEvent(e) ==
    /\ Provider = "VPS"
    /\ job[e].pc = "read"
    /\ job' = [job EXCEPT ![e].pc = "dropped"]
    /\ UNCHANGED <<status, charge, poller, query, merchant, refunder, rows>>

\* settle-capture; a repeated run finds the capture booked.
SettleEvent(e) ==
    /\ job[e].pc = "settle"
    /\ settled' = TRUE
    /\ job' = [job EXCEPT ![e].pc = "store"]
    /\ UNCHANGED <<status, charge, poller, query, merchant, refunder, linkPaid,
                   refund, unwound, notified>>

\* The statuses each processor tells the tenant about.
notifiableStatuses ==
    {"AUTHORIZED", "SUCCEEDED", "FAILED", "REFUNDED",
     IF Provider = "VPS" THEN "CANCELLED" ELSE "CANCELED"}

\* mark-link-paid (Stripe), store-webhook-event and send-payment-notification.
StoreEvent(e) ==
    LET seen == job[e].seen
        new  == EventStatus[e]
    IN  /\ job[e].pc = "store"
        /\ linkPaid' = (linkPaid \/ new = "SUCCEEDED")
        /\ notified' = notified \cup
              {s \in {new} \cap notifiableStatuses :
                  Provider = "VPS" \/ Applies(seen, new)}
        /\ job' = [job EXCEPT ![e].pc = "done"]
        /\ UNCHANGED <<status, charge, poller, query, merchant, refunder, refund,
                       settled, unwound>>

-----------------------------------------------------------------------------
\* The poller and the status route: read, ask the provider, write blindly.

\* A mutant: no pre-auth guard.
PollFetchHolds(late) ==
    /\ poller.pc = "sleep"
    /\ poller' = IF status \in TERMINAL THEN At("done", status)
                 ELSE At(IF late THEN "late" ELSE "ask", status)
    /\ UNCHANGED <<status, charge, job, query, merchant, refunder, rows>>

(***************************************************************************)
(* A wake-up of the poller.  late: maxDuration has passed.  A terminal     *)
(* intent ends the loop, a pre-auth or a live Stripe session sleeps on.    *)
(***************************************************************************)
PollFetch(late) ==
    /\ poller.pc = "sleep"
    /\ poller' =
        CASE status \in TERMINAL -> At("done", status)
          [] status \notin TERMINAL /\ isPreauth -> poller
          [] status \notin TERMINAL /\ ~isPreauth /\ late -> At("late", status)
          [] OTHER -> IF Provider = "STRIPE" /\ status = "REQUIRES_ACTION"
                      THEN poller ELSE At("ask", status)
    /\ UNCHANGED <<status, charge, job, query, merchant, refunder, rows>>

\* mark-timeout-failed.
PollTimeout ==
    /\ poller.pc = "late"
    /\ status' = "FAILED"
    /\ poller' = At("done", "FAILED")
    /\ UNCHANGED <<charge, job, query, merchant, refunder, rows>>

\* A mutant: a missing config ends the loop.
PollAskOnce(outcome) ==
    /\ poller.pc = "ask"
    /\ outcome # "outage"
    /\ poller' = IF outcome = "answered" /\ Reported # poller.seen
                 THEN At("write", Reported) ELSE At("dead", poller.seen)
    /\ UNCHANGED <<status, charge, job, query, merchant, refunder, rows>>

(***************************************************************************)
(* query-provider.  Without a connected config, or when nothing changed,   *)
(* the loop sleeps on.  A query that rejects is returned, not awaited,     *)
(* inside the try: the step fails, is retried, and then fails the run.     *)
(***************************************************************************)
PollAsk(outcome) ==
    /\ poller.pc = "ask"
    /\ poller' =
        CASE outcome = "answered" /\ Reported # poller.seen
                                      -> At("write", Reported)
          [] outcome = "outage"       -> At("dead", poller.seen)
          [] OTHER                    -> At("sleep", "CREATED")
    /\ outcome = "outage" => Outages
    /\ UNCHANGED <<status, charge, job, query, merchant, refunder, rows>>

PollWrite ==
    /\ poller.pc = "write"
    /\ status' = poller.seen
    /\ notified' = notified \cup ({poller.seen} \cap {"SUCCEEDED", "REFUNDED"})
    /\ poller' = IF poller.seen \in TERMINAL THEN At("done", poller.seen)
                                             ELSE At("sleep", "CREATED")
    /\ UNCHANGED <<charge, job, query, merchant, refunder, linkPaid, refund,
                   settled, unwound>>

QueryFetch(q) ==
    /\ query[q] = Rest
    /\ charge # "none"
    /\ status \notin TERMINAL
    /\ query' = [query EXCEPT ![q] = At("ask", status)]
    /\ UNCHANGED <<status, charge, job, poller, merchant, refunder, rows>>

QueryAsk(q) ==
    /\ query[q].pc = "ask"
    /\ query' = [query EXCEPT ![q] =
            IF Reported # query[q].seen THEN At("write", Reported) ELSE Rest]
    /\ UNCHANGED <<status, charge, job, poller, merchant, refunder, rows>>

QueryWrite(q) ==
    /\ query[q].pc = "write"
    /\ status' = query[q].seen
    /\ query' = [query EXCEPT ![q] = Rest]
    /\ UNCHANGED <<charge, job, poller, merchant, refunder, rows>>

-----------------------------------------------------------------------------
\* captureIntent and voidIntent.

\* The atomic AUTHORIZED -> PROCESSING gate.
Lock(m, op) ==
    /\ merchant[m] = Rest
    /\ status = "AUTHORIZED"
    /\ status' = "PROCESSING"
    /\ merchant' = [merchant EXCEPT ![m] = At(op, status)]
    /\ UNCHANGED <<charge, job, poller, query, refunder, rows>>

\* capturePayment and cancelPayment succeed.
CaptureAccepted(m) ==
    /\ merchant[m].pc = "capture"
    /\ ChargeBecomes("captured", "SUCCEEDED")
    /\ merchant' = [merchant EXCEPT ![m].pc = "captured"]

VoidAccepted(m) ==
    /\ merchant[m].pc = "void"
    /\ ChargeBecomes("voided", "CANCELED")
    /\ merchant' = [merchant EXCEPT ![m].pc = "voided"]

ProviderAccepts(m) ==
    /\ charge = "authorized"
    /\ CaptureAccepted(m) \/ VoidAccepted(m)
    /\ UNCHANGED <<status, poller, query, refunder, rows>>

\* No amount, or the provider says no: revertLock, which checks nothing.
ProviderRejects(m) ==
    /\ merchant[m].pc \in {"capture", "void"}
    /\ status' = "AUTHORIZED"
    /\ merchant' = [merchant EXCEPT ![m] = Rest]
    /\ UNCHANGED <<charge, job, poller, query, refunder, rows>>

\* A mutant: the provider's answer is not checked.
FinishUnchecked(m) ==
    /\ merchant[m].pc \in {"capture", "captured"}
    /\ status' = "SUCCEEDED"
    /\ merchant' = [merchant EXCEPT ![m].pc = "settle"]
    /\ UNCHANGED <<charge, job, poller, query, refunder, rows>>

FinishAction(m) ==
    /\ merchant[m].pc \in {"captured", "voided"}
    /\ IF merchant[m].pc = "captured"
       THEN /\ status' = "SUCCEEDED"
            /\ merchant' = [merchant EXCEPT ![m].pc = "settle"]
       ELSE /\ status' = "CANCELED"
            /\ merchant' = [merchant EXCEPT ![m] = Rest]
    /\ UNCHANGED <<charge, job, poller, query, refunder, rows>>

SettleAction(m) ==
    /\ merchant[m].pc = "settle"
    /\ settled' = TRUE
    /\ merchant' = [merchant EXCEPT ![m] = Rest]
    /\ UNCHANGED <<status, charge, job, poller, query, refunder, linkPaid, refund,
                   unwound, notified>>

\* A missing provider config, an adapter that throws, a crash: no revertLock.
AbandonAction(m) ==
    /\ merchant[m] # Rest
    /\ merchant' = [merchant EXCEPT ![m] = Rest]
    /\ UNCHANGED <<status, charge, job, poller, query, refunder, rows>>

-----------------------------------------------------------------------------
\* POST /transactions/:id/refund.

CheckRefund(r) ==
    /\ refunder[r] = Rest
    /\ status = "SUCCEEDED"
    /\ refund \notin {"PENDING", "SUCCEEDED"}
    /\ refunder' = [refunder EXCEPT ![r] = At("checked", status)]
    /\ UNCHANGED <<status, charge, job, poller, query, merchant, rows>>

\* A mutant: no unique index.
CreateUnguarded(r) ==
    /\ refunder[r].pc = "checked"
    /\ refund' = "PENDING"
    /\ refunder' = [refunder EXCEPT ![r].pc = "created"]
    /\ UNCHANGED <<status, charge, job, poller, query, merchant, linkPaid,
                   settled, unwound, notified>>

\* The unique index on active refunds decides; the loser gets a 409.
CreateRefund(r) ==
    /\ refunder[r].pc = "checked"
    /\ IF refund \in {"PENDING", "SUCCEEDED"}
       THEN refunder' = [refunder EXCEPT ![r] = Rest] /\ UNCHANGED refund
       ELSE /\ refund' = "PENDING"
            /\ refunder' = [refunder EXCEPT ![r].pc = "created"]
    /\ UNCHANGED <<status, charge, job, poller, query, merchant, linkPaid,
                   settled, unwound, notified>>

ProviderRefunds(r) ==
    /\ refunder[r].pc = "created"
    /\ \/ /\ charge = "captured"
          /\ ChargeBecomes("refunded", "REFUNDED")
          /\ refunder' = [refunder EXCEPT ![r].pc = "refunded"]
       \/ /\ refunder' = [refunder EXCEPT ![r].pc = "refused"]
          /\ UNCHANGED <<charge, job>>
    /\ UNCHANGED <<status, poller, query, merchant, rows>>

(***************************************************************************)
(* settleRefund: reverses a booked capture, does nothing when there is     *)
(* none, or throws REFUND_AFTER_PAYOUT, which leaves the row PENDING.      *)
(***************************************************************************)
SettleRefund(r) ==
    /\ refunder[r].pc = "refunded"
    /\ \/ /\ unwound' = (unwound \/ settled)
          /\ refunder' = [refunder EXCEPT ![r].pc = "unwound"]
       \/ /\ settled /\ ~unwound
          /\ refunder' = [refunder EXCEPT ![r] = Rest]
          /\ UNCHANGED unwound
    /\ UNCHANGED <<status, charge, job, poller, query, merchant, linkPaid, refund,
                   settled, notified>>

FinishRefund(r) ==
    /\ refunder[r].pc \in {"unwound", "refused"}
    /\ IF refunder[r].pc = "unwound"
       THEN refund' = "SUCCEEDED" /\ status' = "REFUNDED"
       ELSE refund' = "FAILED" /\ status' = "SUCCEEDED"
    /\ refunder' = [refunder EXCEPT ![r] = Rest]
    /\ UNCHANGED <<charge, job, poller, query, merchant, linkPaid, settled,
                   unwound, notified>>

\* The provider call throws or the process dies: the row stays as it is.
AbandonRefund(r) ==
    /\ refunder[r] # Rest
    /\ refunder' = [refunder EXCEPT ![r] = Rest]
    /\ UNCHANGED <<status, charge, job, poller, query, merchant, rows>>

-----------------------------------------------------------------------------
Next ==
    \/ OpenCheckout \/ CustomerPays \/ CardDeclined
    \/ \E e \in Events :
          \/ ReadStatus(e)
          \/ \E acknowledged \in BOOLEAN : UpdateStatus(e, acknowledged)
          \/ DropEvent(e)
          \/ SettleEvent(e)
          \/ StoreEvent(e)
    \/ \E late \in BOOLEAN : PollFetch(late)
    \/ PollTimeout
    \/ \E outcome \in {"answered", "no config", "outage"} : PollAsk(outcome)
    \/ PollWrite
    \/ \E q \in Queries : QueryFetch(q) \/ QueryAsk(q) \/ QueryWrite(q)
    \/ \E m \in Merchants :
          \/ Lock(m, "capture") \/ Lock(m, "void")
          \/ ProviderAccepts(m) \/ ProviderRejects(m)
          \/ FinishAction(m) \/ SettleAction(m) \/ AbandonAction(m)
    \/ \E r \in Refunders :
          \/ CheckRefund(r) \/ CreateRefund(r) \/ ProviderRefunds(r)
          \/ SettleRefund(r) \/ FinishRefund(r) \/ AbandonRefund(r)

(***************************************************************************)
(* The queue runs the steps of the jobs it accepted and retries them, the  *)
(* poller among them, and the poller's query is answered now and then.     *)
(* Requests may die, and nothing obliges a customer or a merchant to act.  *)
(***************************************************************************)
Fairness ==
    /\ \A e \in Events : /\ WF_vars(ReadStatus(e))
                         /\ SF_vars(UpdateStatus(e, TRUE))
                         /\ WF_vars(SettleEvent(e))
                         /\ WF_vars(StoreEvent(e))
    /\ WF_vars(PollFetch(FALSE))
    /\ WF_vars(PollTimeout)
    /\ SF_vars(PollAsk("answered"))
    /\ WF_vars(PollWrite)

Spec == Init /\ [][Next]_vars /\ Fairness
-----------------------------------------------------------------------------
\* Properties.

Charges == {"none", "open", "authorized", "captured", "voided", "declined",
            "refunded"}

Progress(pcs) == [pc : pcs \cup {"rest"}, seen : Statuses]

\* The rows hold members of the schema's enums, and every actor is at a step.
TypeOK ==
    /\ status \in Statuses
    /\ linkPaid \in BOOLEAN
    /\ charge \in Charges
    /\ job \in [Events -> Progress({"sent", "read", "dropped", "settle",
                                    "store", "done"})]
    /\ poller \in Progress({"sleep", "late", "ask", "write", "dead", "done"})
    /\ query \in [Queries -> Progress({"ask", "write"})]
    /\ merchant \in [Merchants -> Progress({"capture", "void", "captured",
                                            "voided", "settle"})]
    /\ refunder \in [Refunders -> Progress({"checked", "created", "refunded",
                                            "refused", "unwound"})]
    /\ refund \in {"NONE", "PENDING", "FAILED", "SUCCEEDED"}
    /\ settled \in BOOLEAN
    /\ unwound \in BOOLEAN
    /\ notified \subseteq Statuses

(***************************************************************************)
(* Whoever of the webhook jobs, the poller and the capture request gets    *)
(* there first, the ledger is credited, the link marked PAID and the       *)
(* tenant told SUCCEEDED only for money the provider has captured.         *)
(***************************************************************************)
MoneyFollowsCapture ==
    settled \/ linkPaid \/ "SUCCEEDED" \in notified
        => charge \in {"captured", "refunded"}

(***************************************************************************)
(* The Refund row agrees with the provider: it says SUCCEEDED only when    *)
(* the money went back, and money that went back is never recorded as a    *)
(* failed refund, which a later request would be free to repeat (the check *)
(* and the unique index of routes/refunds.ts).                             *)
(***************************************************************************)
RefundRowMatchesProvider ==
    /\ refund = "SUCCEEDED" => charge = "refunded"
    /\ charge = "refunded" => refund \in {"PENDING", "SUCCEEDED"}

(***************************************************************************)
(* While the provider holds the funds the intent stays in a state that     *)
(* capture or void can still reach: no writer ends it (the poller "must    *)
(* never force-fail it").                                                  *)
(***************************************************************************)
HoldNotTerminal == charge = "authorized" => status \notin TERMINAL

(***************************************************************************)
(* paymentPoller: the intent of a captured charge ends, whether or not the *)
(* webhook that reports it arrives.                                        *)
(***************************************************************************)
PollerSelfHeals == (charge = "captured") ~> (status \in TERMINAL)
=============================================================================
