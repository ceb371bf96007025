---------------------------- MODULE Installments ----------------------------
(***************************************************************************)
(* Buy now, pay later: the plan (routes/installmentPlans.ts), one agreement *)
(* from its checkout (routes/paymentIntents.ts, POST /pay/:slug) through    *)
(* its activation (jobs/webhookProcessor), the charge runs and their        *)
(* dunning ladder (jobs/installmentCharge, lib/dunning.ts) and the          *)
(* merchant's cancel (routes/installmentAgreements.ts); and the sandbox's   *)
(* rehearsal of it (routes/simulation.ts, jobs/installmentSimulation).      *)
(*                                                                         *)
(* A sleep is a step that may take any time.  An event is delivered once   *)
(* and starts a run; one idempotency id is charged at most once by the     *)
(* provider.  A run whose charge gets no answer dies (retries: 0).         *)
(***************************************************************************)
EXTENDS Naturals

CONSTANTS
    Runs,            \* bound: charge and simulation runs alive at one time
    Total,           \* durationMonths: the down payment and the charges after it
    Sandbox          \* whether the agreement may be one of the simulator's

ASSUME InstallmentsAssumption == Total \in Nat \ {0} /\ Sandbox \in BOOLEAN

VARIABLES
    plan,            \* InstallmentPlan: "none", "active", "inactive"
    planner,         \* the request that changes the plan
    agreement,       \* InstallmentAgreement: status, paidCount, sandbox
    chargeRows,      \* per installment: the InstallmentCharge rows, last status
    charged,         \* idempotency ids the provider has charged
    run,             \* the runs
    queue,           \* events that wait for their run
    webhook,         \* bootstrap-installment-agreement
    awaiter,         \* GET /bnpl/await-agreement
    request,         \* the merchant's cancel, or the operator's fire and cleanup
    dropped          \* history: a run died, or an event was not sent

installmentsVars == <<plan, planner, agreement, chargeRows, charged, run, queue, webhook,
                      awaiter, request, dropped>>

\* Everything a run leaves alone.
actors == <<plan, planner, webhook, awaiter, request>>

Terminal == {"CANCELLED", "COMPLETED", "DEFAULTED"}

InstallmentStatus == {"NONE", "PENDING_CHECKOUT", "ACTIVE", "DELETED"} \cup Terminal

Numbers == 1 .. (Total + 1)

maxAttempts == 4

Idle == [kind |-> "charge", num |-> 1, pc |-> "idle", n |-> 1]

Exists == agreement.status \notin {"NONE", "DELETED"}

Updates(status) == agreement' = [agreement EXCEPT !.status = status]

-----------------------------------------------------------------------------
\* Plans.

CreatePlan ==
    /\ plan = "none"
    /\ planner = "rest"
    /\ plan' = "active"
    /\ UNCHANGED <<planner, agreement, chargeRows, charged, run, queue, webhook, awaiter,
                   request, dropped>>

\* PATCH /installment-plans/:id, isActive: the checkout alone reads it.
UpdatePlan ==
    /\ agreement.status = "NONE"
    /\ plan \in {"active", "inactive"}
    /\ plan' = IF plan = "active" THEN "inactive" ELSE "active"
    /\ UNCHANGED <<planner, agreement, chargeRows, charged, run, queue, webhook, awaiter,
                   request, dropped>>

\* DELETE /installment-plans/:id up to the count of its open agreements.
DeletePlanRead ==
    /\ planner = "rest"
    /\ plan # "none"
    /\ agreement.status \notin {"ACTIVE", "PENDING_CHECKOUT"}
    /\ planner' = "delete"
    /\ UNCHANGED <<plan, agreement, chargeRows, charged, run, queue, webhook, awaiter,
                   request, dropped>>

\* The delete; the foreign key refuses it while any agreement of the plan exists.
DeletePlan ==
    /\ planner = "delete"
    /\ plan' = IF Exists THEN plan ELSE "none"
    /\ planner' = "rest"
    /\ UNCHANGED <<agreement, chargeRows, charged, run, queue, webhook, awaiter, request, dropped>>

-----------------------------------------------------------------------------
\* Checkout and activation.

\* The installment path of POST /pay/:slug: the plan is active, the row is created.
Checkout ==
    /\ agreement.status = "NONE"
    /\ plan = "active"
    /\ agreement' = [status |-> "PENDING_CHECKOUT", paid |-> 0, sim |-> FALSE]
    /\ UNCHANGED <<plan, planner, chargeRows, charged, run, queue, webhook, awaiter,
                   request, dropped>>

\* POST /bnpl/prepare: a throwaway plan and agreement.
Prepare ==
    /\ Sandbox
    /\ agreement.status = "NONE"
    /\ plan = "none"
    /\ plan' = "active"
    /\ agreement' = [status |-> "PENDING_CHECKOUT", paid |-> 0, sim |-> TRUE]
    /\ UNCHANGED <<planner, chargeRows, charged, run, queue, webhook, awaiter, request, dropped>>

\* The agreement and the row of the down payment, in one transaction.
Activates ==
    /\ agreement' = [agreement EXCEPT !.status = "ACTIVE", !.paid = 1]
    /\ chargeRows' = [chargeRows EXCEPT ![1] = "CHARGED"]

\* The webhook of the paid checkout; only PENDING_CHECKOUT passes.
WebhookRead ==
    /\ webhook = "rest"
    /\ agreement.status = "PENDING_CHECKOUT"
    /\ webhook' = "read"
    /\ UNCHANGED <<plan, planner, agreement, chargeRows, charged, run, queue, awaiter,
                   request, dropped>>

WebhookActivate ==
    /\ webhook = "read"
    /\ IF Exists THEN Activates ELSE UNCHANGED <<agreement, chargeRows>>
    /\ webhook' = IF Exists THEN "send" ELSE "done"
    /\ UNCHANGED <<plan, planner, charged, run, queue, awaiter, request, dropped>>

\* An activation that leaves the first charge to a sweep that does not exist.
WebhookNoSend ==
    /\ webhook = "send"
    /\ webhook' = "done"
    /\ UNCHANGED <<plan, planner, agreement, chargeRows, charged, run, queue, awaiter,
                   request, dropped>>

\* The event of installment 2, or the end of an agreement of one installment.
WebhookSend ==
    /\ webhook = "send"
    /\ IF Total > 1
       THEN /\ queue' = queue \cup {[kind |-> "charge", num |-> 2]}
            /\ UNCHANGED agreement
       ELSE /\ IF Exists THEN Updates("COMPLETED") ELSE UNCHANGED agreement
            /\ UNCHANGED queue
    /\ webhook' = "done"
    /\ UNCHANGED <<plan, planner, chargeRows, charged, run, awaiter, request, dropped>>

(***************************************************************************)
(* The step dies after its transaction: the retry finds the agreement      *)
(* ACTIVE and returns, so the event is never sent.                         *)
(***************************************************************************)
WebhookCrash ==
    /\ webhook = "send"
    /\ agreement.status # "PENDING_CHECKOUT"
    /\ webhook' = "done"
    /\ dropped' = TRUE
    /\ UNCHANGED <<plan, planner, agreement, chargeRows, charged, run, queue, awaiter, request>>

\* The poll of the sandbox: it reads, asks the provider, settles, and activates.
AwaitRead ==
    /\ awaiter = "rest"
    /\ agreement.sim
    /\ agreement.status = "PENDING_CHECKOUT"
    /\ awaiter' = "read"
    /\ UNCHANGED <<plan, planner, agreement, chargeRows, charged, run, queue, webhook,
                   request, dropped>>

AwaitActivate ==
    /\ awaiter = "read"
    /\ IF Exists THEN Activates ELSE UNCHANGED <<agreement, chargeRows>>
    /\ awaiter' = "done"
    /\ UNCHANGED <<plan, planner, charged, run, queue, webhook, request, dropped>>

\* The provider has not charged the card, or does not answer.
AwaitPending ==
    /\ awaiter = "read"
    /\ awaiter' = "rest"
    /\ UNCHANGED <<plan, planner, agreement, chargeRows, charged, run, queue, webhook,
                   request, dropped>>

-----------------------------------------------------------------------------
\* The runs.

Goes(r, pc) == run' = [run EXCEPT ![r].pc = pc]

Ends(r) == run' = [run EXCEPT ![r] = Idle]

StartRun(r, event) ==
    /\ event \in queue
    /\ run[r].pc = "idle"
    /\ run' = [run EXCEPT ![r] = [kind |-> event.kind, num |-> event.num,
                                  pc |-> "validate", n |-> 1]]
    /\ queue' = queue \ {event}
    /\ UNCHANGED <<agreement, chargeRows, charged, dropped, actors>>

\* validate-agreement; a simulation starts after the installments already paid.
Validate(r) ==
    /\ run[r].pc = "validate"
    /\ IF ~Exists \/ agreement.status \in Terminal THEN Ends(r)
       ELSE IF run[r].kind = "charge" THEN Goes(r, "attempt")
       ELSE run' = [run EXCEPT ![r].pc = "next", ![r].num = agreement.paid + 1]
    /\ UNCHANGED <<agreement, chargeRows, charged, queue, dropped, actors>>

\* The loop of the simulation: the check before installment num, or sim-complete.
SimNext(r) ==
    /\ run[r].pc = "next"
    /\ IF run[r].num <= Total
       THEN /\ IF agreement.status = "CANCELLED" THEN Ends(r) ELSE Goes(r, "attempt")
            /\ UNCHANGED agreement
       ELSE /\ Ends(r)
            /\ IF Exists THEN Updates("COMPLETED") ELSE UNCHANGED agreement
    /\ UNCHANGED <<chargeRows, charged, queue, dropped, actors>>

AfterFailure(n) == IF n < maxAttempts THEN "asleep" ELSE "exhausted"

\* chargeInstallment up to the provider.
AttemptRead(r) ==
    /\ run[r].pc = "attempt"
    /\ IF ~Exists THEN Ends(r)
       ELSE Goes(r, IF agreement.status \in Terminal THEN AfterFailure(run[r].n)
                                                     ELSE "charge")
    /\ UNCHANGED <<agreement, chargeRows, charged, queue, dropped, actors>>

\* A ladder that takes a lost answer for a decline and tries again.
AttemptRetriesLost(r, outcome) ==
    LET kind == run[r].kind
        num  == run[r].num
        n    == run[r].n
    IN  /\ run[r].pc = "charge"
        /\ charged' = IF outcome \in {"CHARGED", "LOST_CHARGED"}
                      THEN charged \cup {<<kind, num, n>>} ELSE charged
        /\ UNCHANGED chargeRows
        /\ Goes(r, IF outcome = "CHARGED" THEN "success" ELSE AfterFailure(n))
        /\ UNCHANGED <<agreement, queue, dropped, actors>>

\* The charge and its row (found by number, or created).
AttemptCharge(r, outcome) ==
    LET kind == run[r].kind
        num  == run[r].num
        n    == run[r].n
    IN  /\ run[r].pc = "charge"
        /\ charged' = IF outcome \in {"CHARGED", "LOST_CHARGED"}
                      THEN charged \cup {<<kind, num, n>>} ELSE charged
        /\ IF outcome \in {"CHARGED", "DECLINED"} /\ Exists
           THEN chargeRows' = [chargeRows EXCEPT ![num] = outcome]
           ELSE UNCHANGED chargeRows
        /\ CASE ~Exists \/ outcome \in {"LOST", "LOST_CHARGED"} -> Ends(r)
             [] outcome = "CHARGED" -> Goes(r, "success")
             [] OTHER               -> Goes(r, AfterFailure(n))
        /\ dropped' = (dropped \/ outcome \in {"LOST", "LOST_CHARGED"})
        /\ UNCHANGED <<agreement, queue, actors>>

\* The sleep is over; only a cancelled agreement stops the ladder.
CheckBeforeRetry(r) ==
    /\ run[r].pc = "asleep"
    /\ IF agreement.status = "CANCELLED" THEN Ends(r)
       ELSE run' = [run EXCEPT ![r].pc = "attempt", ![r].n = @ + 1]
    /\ UNCHANGED <<agreement, chargeRows, charged, queue, dropped, actors>>

\* onInstallmentSuccess, whatever the status has become; the next is sent at once.
OnInstallmentSuccess(r) ==
    LET paid == agreement.paid + 1
        next == run[r].num + 1
    IN  /\ run[r].pc = "success"
        /\ run[r].kind = "charge"
        /\ Ends(r)
        /\ IF ~Exists THEN UNCHANGED <<agreement, queue>>
           ELSE IF paid >= Total
                THEN /\ agreement' = [agreement EXCEPT !.paid = paid, !.status = "COMPLETED"]
                     /\ UNCHANGED queue
                ELSE /\ agreement' = [agreement EXCEPT !.paid = paid]
                     /\ queue' = queue \cup {[kind |-> "charge", num |-> next]}
        /\ UNCHANGED <<chargeRows, charged, dropped, actors>>

\* advanceSimAgreement, whatever the status has become; then the next installment.
AdvanceSimAgreement(r) ==
    LET paid == IF agreement.paid > run[r].num THEN agreement.paid ELSE run[r].num
    IN  /\ run[r].pc = "success"
        /\ run[r].kind = "sim"
        /\ IF ~Exists
           THEN Ends(r) /\ UNCHANGED agreement
           ELSE /\ agreement' = [agreement EXCEPT !.paid = paid,
                                    !.status = IF paid >= Total THEN "COMPLETED" ELSE "ACTIVE"]
                /\ run' = [run EXCEPT ![r].pc = "next", ![r].num = @ + 1, ![r].n = 1]
        /\ UNCHANGED <<chargeRows, charged, queue, dropped, actors>>

MarkDefaulted(r) ==
    /\ run[r].pc = "exhausted"
    /\ IF Exists THEN Updates("DEFAULTED") ELSE UNCHANGED agreement
    /\ Ends(r)
    /\ UNCHANGED <<chargeRows, charged, queue, dropped, actors>>

RunStep(r) ==
    \/ Validate(r)
    \/ SimNext(r)
    \/ AttemptRead(r)
    \/ \E outcome \in {"CHARGED", "DECLINED", "UNCONFIGURED", "LOST", "LOST_CHARGED"} :
          AttemptCharge(r, outcome)
    \/ CheckBeforeRetry(r)
    \/ OnInstallmentSuccess(r)
    \/ AdvanceSimAgreement(r)
    \/ MarkDefaulted(r)

-----------------------------------------------------------------------------
\* Requests: a read, then the write.

Permits(r) ==
    CASE r = "cancel"  -> agreement.status \in {"ACTIVE", "PENDING_CHECKOUT"}
      [] r = "fire"    -> agreement.sim /\ agreement.status = "ACTIVE"
      [] r = "cleanup" -> agreement.sim /\ Exists

Request(r) ==
    /\ request = "rest" \/ (request = "fired" /\ r # "fire")
    /\ Permits(r)
    /\ request' = r
    /\ UNCHANGED <<plan, planner, agreement, chargeRows, charged, run, queue, webhook,
                   awaiter, dropped>>

Cancel ==
    /\ request = "cancel"
    /\ IF Exists THEN Updates("CANCELLED") ELSE UNCHANGED agreement
    /\ request' = "done"
    /\ UNCHANGED <<plan, planner, chargeRows, charged, run, queue, webhook, awaiter, dropped>>

\* The event of a simulation has no id (bound: it is fired once).
Fire ==
    /\ request = "fire"
    /\ queue' = queue \cup {[kind |-> "sim", num |-> 1]}
    /\ request' = "fired"
    /\ UNCHANGED <<plan, planner, agreement, chargeRows, charged, run, webhook, awaiter, dropped>>

\* DELETE /bnpl/cleanup: the charges, the agreement, its intent, link and plan.
Cleanup ==
    /\ request = "cleanup"
    /\ chargeRows' = [number \in Numbers |-> "none"]
    /\ Updates("DELETED")
    /\ plan' = "none"
    /\ request' = "done"
    /\ UNCHANGED <<planner, charged, run, queue, webhook, awaiter, dropped>>

-----------------------------------------------------------------------------
InstallmentsInit ==
    /\ plan = "none"
    /\ planner = "rest"
    /\ agreement = [status |-> "NONE", paid |-> 0, sim |-> FALSE]
    /\ chargeRows = [number \in Numbers |-> "none"]
    /\ charged = {}
    /\ run = [r \in Runs |-> Idle]
    /\ queue = {}
    /\ webhook = "rest"
    /\ awaiter = "rest"
    /\ request = "rest"
    /\ dropped = FALSE

InstallmentsNext ==
    \/ CreatePlan
    \/ UpdatePlan
    \/ DeletePlanRead
    \/ DeletePlan
    \/ Checkout
    \/ Prepare
    \/ WebhookRead
    \/ WebhookActivate
    \/ WebhookSend
    \/ WebhookCrash
    \/ AwaitRead
    \/ AwaitActivate
    \/ AwaitPending
    \/ \E r \in Runs, event \in queue : StartRun(r, event)
    \/ \E r \in Runs : RunStep(r)
    \/ \E r \in {"cancel", "fire", "cleanup"} : Request(r)
    \/ Cancel
    \/ Fire
    \/ Cleanup

(***************************************************************************)
(* The queue runs the webhook's steps, starts the runs it has events for   *)
(* and runs their steps.                                                   *)
(***************************************************************************)
InstallmentsFairness ==
    /\ WF_installmentsVars(WebhookSend)
    /\ WF_installmentsVars(\E r \in Runs, event \in queue : StartRun(r, event))
    /\ \A r \in Runs : WF_installmentsVars(RunStep(r))

InstallmentsSpec ==
    InstallmentsInit /\ [][InstallmentsNext]_installmentsVars /\ InstallmentsFairness

-----------------------------------------------------------------------------
\* Properties.

(***************************************************************************)
(* A customer's agreement (not one of the simulator) is charged as         *)
(* planned: for no installment twice, for none outside the plan, and it is *)
(* COMPLETED only when every installment after the down payment has been   *)
(* charged, whatever retries, lost answers and cancels did on the way      *)
(* (jobs/installmentCharge; onInstallmentSuccess counts, it does not look). *)
(***************************************************************************)
ChargedAsPlanned ==
    ~agreement.sim =>
        /\ \A id \in charged : id[2] \in 2 .. Total
        /\ \A a, b \in charged : a[2] = b[2] => a = b
        /\ agreement.status = "COMPLETED" => {id[2] : id \in charged} = 2 .. Total

(***************************************************************************)
(* Nothing sweeps installments: an ACTIVE agreement of a customer reaches  *)
(* an end by its own chain of runs, unless a link of the chain was lost.   *)
(***************************************************************************)
AgreementEnds ==
    agreement.status = "ACTIVE" /\ ~agreement.sim
        ~> agreement.status \in Terminal \/ dropped
=============================================================================
