--------------------------- MODULE Subscriptions ----------------------------
(***************************************************************************)
(* Recurring billing of one subscription: the bootstrap of the webhook job *)
(* (jobs/webhookProcessor), jobs/subscriptionActivated, the daily sweep    *)
(* (jobs/billingDailySweep), the renewal runs and their dunning ladder     *)
(* (jobs/billingRenewal, lib/dunning.ts), the merchant's pause, resume and *)
(* cancel (routes/subscriptions.ts), and the sandbox's accelerated run     *)
(* (jobs/billingSimulation, routes/simulation.ts).                         *)
(*                                                                         *)
(* Time is a day counter.  A step.run is one step unless it awaits the     *)
(* provider between a read and a write.  The queue is external: it drops   *)
(* an event whose id it accepted within 24 hours, which is certain on the  *)
(* same day and possible on the next.  The provider is external too: one   *)
(* idempotency id is charged at most once.                                 *)
(***************************************************************************)
EXTENDS Naturals, Sequences

CONSTANTS
    Runs,            \* bound: renewal and simulation runs alive at one time
    Interval,        \* days of a billing period
    Trials,          \* lengths of a trial, in days
    Outcomes,        \* what a charge may come to
    MaxRequests,     \* bound: requests of the merchant or the operator
    MaxDay           \* bound: the last day of the calendar

ASSUME SubscriptionsAssumption ==
    /\ MaxRequests \in Nat
    /\ Outcomes \subseteq {"CHARGED", "DECLINED", "UNCONFIGURED", "LOST", "LOST_CHARGED"}
    /\ Interval \in Nat \ {0}
    /\ Trials \subseteq Nat
    /\ MaxDay \in Nat \ {0}

VARIABLES
    today,           \* the current day
    sub,             \* the Subscription row: status, nextBillingDate, sandbox
    queue,           \* events that wait for their run
    accepted,        \* per event id of billing/renewal.due: the day it was taken
    run,             \* the runs: period key, step, attempt number, wake-up day
    charges,         \* idempotency ids the provider has charged
    events,          \* status of the BillingEvent rows
    sweep,           \* the cron job of the day
    merchant,        \* the request of the merchant or operator in progress
    requests,        \* requests made so far
    activation       \* the job started by billing/subscription.activated

vars == <<today, sub, queue, accepted, run, charges, events, sweep, merchant, requests,
          activation>>

\* Progress of everyone but the runs.
actors == <<sweep, merchant, requests, activation>>

SubscriptionStatus ==
    {"ABSENT", "PENDING", "ACTIVE", "PAST_DUE", "PAUSED", "CANCELLED", "DELETED"}

\* A period is named by the date it is due (billingIdempotencyKey).
Keys == 1 .. (MaxDay + Interval)

maxAttempts == 4

delays(kind) == IF kind = "sim" THEN <<0, 0, 0>> ELSE <<1, 2, 4>>

computeNextBillingDate(from) == from + Interval

Idle == [kind |-> "renewal", key |-> 1, pc |-> "idle", n |-> 1, wake |-> 0]

Begun(kind, key) == [kind |-> kind, key |-> key, pc |-> "validate", n |-> 1, wake |-> 0]

Rest == [pc |-> "rest", key |-> 1]

NoActivation == [pc |-> "rest", key |-> 1, wake |-> 0]

Updates(status) == sub' = [sub EXCEPT !.status = status]

Gone == sub.status = "DELETED"

-----------------------------------------------------------------------------
\* The queue: billing/renewal.due with the period's key as its event id.

Duplicate(key) == accepted[key] # 0

Fresh(key) == accepted[key] = 0 \/ today > accepted[key]

Send(key) ==
    \/ /\ Duplicate(key)
       /\ UNCHANGED <<accepted, queue>>
    \/ /\ Fresh(key)
       /\ accepted' = [accepted EXCEPT ![key] = today]
       /\ queue' = queue \cup {[kind |-> "renewal", key |-> key]}

\* An accepted event starts a run.
StartRun(r, event) ==
    /\ event \in queue
    /\ run[r].pc = "idle"
    /\ run' = [run EXCEPT ![r] = Begun(event.kind, event.key)]
    /\ queue' = queue \ {event}
    /\ UNCHANGED <<today, sub, accepted, charges, events, actors>>

-----------------------------------------------------------------------------
\* Creation.

(***************************************************************************)
(* bootstrap-subscription.  When the send fails the step is retried, finds *)
(* the row and returns: the activation is lost.                            *)
(***************************************************************************)
BootstrapSubscription(sent, trial) ==
    /\ sub.status = "ABSENT"
    /\ sub' = [status |-> "PENDING", due |-> 0, sim |-> FALSE]
    /\ activation' = IF sent THEN [NoActivation EXCEPT !.pc = "queued", !.wake = trial]
                     ELSE [NoActivation EXCEPT !.pc = "done"]
    /\ UNCHANGED <<queue, today, accepted, run, charges, events, sweep, merchant, requests>>

\* activate-subscription: whatever the status has become.
ActivateSubscription ==
    /\ activation.pc = "queued"
    /\ sub' = [sub EXCEPT !.status = "ACTIVE", !.due = computeNextBillingDate(today)]
    /\ activation' = [pc |-> "trigger", key |-> computeNextBillingDate(today),
                      wake |-> today + activation.wake]
    /\ UNCHANGED <<queue, today, accepted, run, charges, events, sweep, merchant, requests>>

\* trigger-first-renewal: after the trial, under the key of the next date.
TriggerFirstRenewal ==
    /\ activation.pc = "trigger" /\ activation.wake <= today
    /\ Send(activation.key)
    /\ activation' = [NoActivation EXCEPT !.pc = "done"]
    /\ UNCHANGED <<today, run, sub, charges, events, sweep, merchant, requests>>

\* POST /admin/simulation/start; its event has no id.
StartSimulation ==
    /\ sub.status = "ABSENT"
    /\ sub' = [status |-> "ACTIVE", due |-> today, sim |-> TRUE]
    /\ queue' = queue \cup {[kind |-> "sim", key |-> today]}
    /\ UNCHANGED <<today, accepted, run, charges, events, actors>>

-----------------------------------------------------------------------------
\* The runs: validation, then the dunning ladder.

Goes(r, pc) == run' = [run EXCEPT ![r].pc = pc]

Ends(r) == run' = [run EXCEPT ![r] = Idle]

\* onFailure of attempt n, or the exhausted ladder.
AfterFailure(n) ==
    IF n = 1 THEN "pastdue" ELSE IF n < maxAttempts THEN "sleep" ELSE "exhausted"

Refuses(kind) == IF kind = "sim" THEN {"CANCELLED"} ELSE {"CANCELLED", "PAUSED"}

\* A run that does not look at the status before it charges.
ValidateNothing(r) ==
    /\ run[r].pc = "validate"
    /\ ~Gone
    /\ Goes(r, "attempt")
    /\ UNCHANGED <<queue, today, sub, accepted, charges, events, actors>>

Validate(r) ==
    /\ run[r].pc = "validate"
    /\ ~Gone
    /\ IF sub.status \in Refuses(run[r].kind) THEN Ends(r) ELSE Goes(r, "attempt")
    /\ UNCHANGED <<queue, today, sub, accepted, charges, events, actors>>

\* chargeSubscription up to the provider: only CANCELLED is refused here.
AttemptRead(r) ==
    /\ run[r].pc = "attempt"
    /\ ~Gone
    /\ Goes(r, IF sub.status = "CANCELLED" THEN AfterFailure(run[r].n) ELSE "charge")
    /\ UNCHANGED <<queue, today, sub, accepted, charges, events, actors>>

(***************************************************************************)
(* The BillingEvent of attempt n.  The upsert's id is cut to the 25        *)
(* characters of the subscription's own id, so every renewal of it writes  *)
(* one row (row 0); a simulation creates a row for each attempt.           *)
(***************************************************************************)
Recorded(kind, n, status) ==
    [events EXCEPT ![IF kind = "sim" THEN n ELSE 0] = status]

(***************************************************************************)
(* chargeRenewal and the record of it.  A missing config is a failure      *)
(* without a row; an answer that is lost ends the run (retries: 0), whether *)
(* the card was charged or not.                                            *)
(***************************************************************************)
AttemptCharge(r, outcome) ==
    LET key == run[r].key
        n   == run[r].n
    IN  /\ run[r].pc = "charge"
        /\ charges' = IF outcome \in {"CHARGED", "LOST_CHARGED"}
                      THEN charges \cup {<<key, n>>} ELSE charges
        /\ events' = IF outcome \in {"CHARGED", "DECLINED"} /\ ~Gone
                     THEN Recorded(run[r].kind, n, outcome) ELSE events
        /\ CASE Gone /\ outcome # "UNCONFIGURED"           -> Ends(r)
             [] outcome \in {"LOST", "LOST_CHARGED"}       -> Ends(r)
             [] outcome = "CHARGED" /\ ~Gone               -> Goes(r, "advance")
             [] OTHER                                      -> Goes(r, AfterFailure(n))
        /\ UNCHANGED <<queue, today, sub, accepted, actors>>

\* mark-past-due: whatever the status has become.
MarkPastDue(r) ==
    /\ run[r].pc = "pastdue"
    /\ ~Gone
    /\ Updates("PAST_DUE")
    /\ Goes(r, "sleep")
    /\ UNCHANGED <<queue, today, accepted, charges, events, actors>>

Sleep(r) ==
    /\ run[r].pc = "sleep"
    /\ run' = [run EXCEPT ![r].pc = "asleep",
                          ![r].wake = today + delays(run[r].kind)[run[r].n]]
    /\ UNCHANGED <<queue, today, sub, accepted, charges, events, actors>>

\* A retry that does not count its attempts.
CheckWithoutCount(r) ==
    /\ run[r].pc = "asleep"
    /\ run[r].wake <= today
    /\ IF sub.status \in Refuses(run[r].kind) THEN Ends(r)
       ELSE run' = [run EXCEPT ![r].pc = "attempt", ![r].wake = 0]
    /\ UNCHANGED <<queue, today, sub, accepted, charges, events, actors>>

\* The sleep is over: shouldStop, then the next attempt.
CheckBeforeRetry(r) ==
    /\ run[r].pc = "asleep"
    /\ run[r].wake <= today
    /\ IF sub.status \in Refuses(run[r].kind) THEN Ends(r)
       ELSE run' = [run EXCEPT ![r].pc = "attempt", ![r].n = @ + 1, ![r].wake = 0]
    /\ UNCHANGED <<queue, today, sub, accepted, charges, events, actors>>

(***************************************************************************)
(* advanceBillingCycle, whatever the status has become; the next renewal   *)
(* is sent at once.  The simulation only moves the date.                   *)
(***************************************************************************)
AdvanceBillingCycle(r) ==
    LET next == computeNextBillingDate(today)
    IN  /\ run[r].pc = "advance"
        /\ ~Gone
        /\ sub' = [sub EXCEPT !.status = "ACTIVE", !.due = next]
        /\ Ends(r)
        /\ IF run[r].kind = "sim" THEN UNCHANGED <<accepted, queue>>
           ELSE Send(next)
        /\ UNCHANGED <<today, charges, events, actors>>

CancelExhausted(r) ==
    /\ run[r].pc = "exhausted"
    /\ ~Gone
    /\ Updates("CANCELLED")
    /\ Ends(r)
    /\ UNCHANGED <<queue, today, accepted, charges, events, actors>>

\* Every read or write of a deleted row throws.
RowGone(r) ==
    /\ Gone
    /\ run[r].pc \in {"validate", "attempt", "advance", "pastdue", "exhausted"}
    /\ Ends(r)
    /\ UNCHANGED <<queue, today, sub, accepted, charges, events, actors>>

RunStep(r) ==
    \/ Validate(r)
    \/ AttemptRead(r)
    \/ \E outcome \in Outcomes : AttemptCharge(r, outcome)
    \/ MarkPastDue(r)
    \/ Sleep(r)
    \/ CheckBeforeRetry(r)
    \/ AdvanceBillingCycle(r)
    \/ CancelExhausted(r)
    \/ RowGone(r)

-----------------------------------------------------------------------------
\* The daily sweep.

\* find-due-subscriptions: sandbox rows as well.
SweepFind ==
    /\ sweep.pc = "due"
    /\ sweep' = IF sub.status \in {"ACTIVE", "PAST_DUE"} /\ sub.due <= today
                THEN [pc |-> "found", key |-> sub.due]
                ELSE Rest
    /\ UNCHANGED <<queue, today, sub, accepted, run, charges, events, merchant, requests, activation>>

SweepDispatch ==
    /\ sweep.pc = "found"
    /\ Send(sweep.key)
    /\ sweep' = Rest
    /\ UNCHANGED <<today, run, sub, charges, events, merchant, requests, activation>>

-----------------------------------------------------------------------------
\* The merchant, and the operator of the sandbox: a read, then the write.

Permits(request) ==
    CASE request = "pause"   -> sub.status \in {"ACTIVE", "PAST_DUE"}
      [] request = "resume"  -> sub.status = "PAUSED"
      [] request = "cancel"  -> sub.status \notin {"ABSENT", "CANCELLED", "DELETED"}
      [] request = "cleanup" -> sub.sim /\ ~Gone

\* resume: a date in the past becomes today.
Request(request) ==
    /\ merchant.pc = "rest"
    /\ Permits(request)
    /\ requests < MaxRequests
    /\ requests' = requests + 1
    /\ merchant' = [pc |-> request, key |-> CASE request # "resume" -> 1
                                              [] sub.due > today    -> sub.due
                                              [] OTHER              -> today]
    /\ UNCHANGED <<queue, today, sub, accepted, run, charges, events, sweep, activation>>

Pause ==
    /\ merchant.pc = "pause"
    /\ IF Gone THEN UNCHANGED sub ELSE Updates("PAUSED")
    /\ merchant' = Rest
    /\ UNCHANGED <<queue, today, accepted, run, charges, events, sweep, requests, activation>>

Resume ==
    /\ merchant.pc = "resume"
    /\ IF Gone THEN UNCHANGED <<sub, accepted, queue>>
       ELSE Updates("ACTIVE") /\ Send(merchant.key)
    /\ merchant' = Rest
    /\ UNCHANGED <<today, run, charges, events, sweep, requests, activation>>

Cancel ==
    /\ merchant.pc = "cancel"
    /\ IF Gone THEN UNCHANGED sub ELSE Updates("CANCELLED")
    /\ merchant' = Rest
    /\ UNCHANGED <<queue, today, accepted, run, charges, events, sweep, requests, activation>>

\* DELETE /admin/simulation/cleanup; the rows of the events go with the subscription.
Cleanup ==
    /\ merchant.pc = "cleanup"
    /\ Updates("DELETED")
    /\ events' = [row \in DOMAIN events |-> "none"]
    /\ merchant' = Rest
    /\ UNCHANGED <<queue, today, accepted, run, charges, sweep, requests, activation>>

-----------------------------------------------------------------------------
(***************************************************************************)
(* Midnight.  The jobs' steps take less than a day, and the queue starts   *)
(* its events the same day unless every run is taken (the bound); it       *)
(* forgets ids.  The calendar starts with the subscription.                *)
(***************************************************************************)
Tick ==
    /\ today < MaxDay
    /\ sub.status # "ABSENT"
    /\ \A r \in Runs : \/ run[r].pc = "idle"
                       \/ run[r].pc = "asleep" /\ run[r].wake > today
    /\ queue = {} \/ \A r \in Runs : run[r].pc # "idle"
    /\ sweep.pc = "rest"
    /\ \/ activation.pc \in {"rest", "done"}
       \/ activation.pc = "trigger" /\ activation.wake > today
    /\ today' = today + 1
    /\ accepted' = [key \in Keys |-> IF accepted[key] < today THEN 0 ELSE accepted[key]]
    /\ sweep' = [Rest EXCEPT !.pc = "due"]
    /\ UNCHANGED <<queue, sub, run, charges, events, merchant, requests, activation>>

Init ==
    /\ today = 1
    /\ sub = [status |-> "ABSENT", due |-> 0, sim |-> FALSE]
    /\ queue = {}
    /\ accepted = [key \in Keys |-> 0]
    /\ run = [r \in Runs |-> Idle]
    /\ charges = {}
    /\ events = [row \in 0 .. maxAttempts |-> "none"]
    /\ sweep = Rest
    /\ merchant = Rest
    /\ requests = 0
    /\ activation = NoActivation

Next ==
    \/ \E sent \in BOOLEAN, trial \in Trials : BootstrapSubscription(sent, trial)
    \/ ActivateSubscription
    \/ TriggerFirstRenewal
    \/ StartSimulation
    \/ \E r \in Runs, event \in queue : StartRun(r, event)
    \/ \E r \in Runs : RunStep(r)
    \/ SweepFind
    \/ SweepDispatch
    \/ \E request \in {"pause", "resume", "cancel", "cleanup"} : Request(request)
    \/ Pause
    \/ Resume
    \/ Cancel
    \/ Cleanup
    \/ Tick

(***************************************************************************)
(* The queue runs every step it has accepted, the cron fires every day and *)
(* time passes; nobody owes the merchant's requests.                       *)
(***************************************************************************)
Fairness ==
    /\ \A r \in Runs : WF_vars(RunStep(r))
    /\ WF_vars(\E r \in Runs, event \in queue : StartRun(r, event))
    /\ WF_vars(SweepFind)
    /\ WF_vars(SweepDispatch)
    /\ WF_vars(ActivateSubscription)
    /\ WF_vars(TriggerFirstRenewal)
    /\ WF_vars(Tick)

Spec == Init /\ [][Next]_vars /\ Fairness

-----------------------------------------------------------------------------
\* Properties.

RunRecord == [kind : {"renewal", "sim"}, key : Nat,
              pc : {"idle", "validate", "attempt", "charge", "pastdue", "sleep",
                    "asleep", "advance", "exhausted"},
              n : 1 .. maxAttempts, wake : Nat]

\* The rows hold members of the enums; an attempt number never passes the last rung.
TypeOK ==
    /\ today \in Nat
    /\ sub \in [status : SubscriptionStatus, due : Nat, sim : BOOLEAN]
    /\ queue \subseteq [kind : {"renewal", "sim"}, key : Nat]
    /\ accepted \in [Keys -> Nat]
    /\ run \in [Runs -> RunRecord]
    /\ charges \subseteq Nat \X (1 .. maxAttempts)
    /\ events \in [0 .. maxAttempts -> {"none", "CHARGED", "DECLINED"}]
    /\ sweep \in [pc : {"rest", "due", "found"}, key : Nat]
    /\ merchant \in [pc : {"rest", "pause", "resume", "cancel", "cleanup"}, key : Nat]
    /\ requests \in Nat
    /\ activation \in [pc : {"rest", "queued", "trigger", "done"}, key : Nat, wake : Nat]

(***************************************************************************)
(* A ladder that sleeps has an attempt left (runDunningLadder), so the     *)
(* delay it looks up exists.                                               *)
(***************************************************************************)
LadderInvariant ==
    /\ TypeOK
    /\ \A r \in Runs : run[r].pc \in {"pastdue", "sleep", "asleep"} => run[r].n < maxAttempts

\* No request, activation or run that has read the row before it was stopped.
Drained ==
    /\ merchant.pc = "rest"
    /\ activation.pc # "queued"
    /\ \A r \in Runs : run[r].pc \in {"idle", "validate", "sleep", "asleep"}

Stopped ==
    /\ sub.status \in {"CANCELLED", "PAUSED"}
    /\ \A r \in Runs : sub.status \in Refuses(run[r].kind)

(***************************************************************************)
(* A stop that has drained is final for the machinery: from a cancelled or *)
(* paused subscription no sweep, sleeping ladder, late event or first      *)
(* renewal charges the card or makes it billable again; only a merchant's  *)
(* own request does (jobs/billingRenewal: validation and shouldStop).      *)
(***************************************************************************)
StopIsFinal ==
    [][Drained /\ Stopped /\ merchant'.pc = "rest" =>
          Drained' /\ charges' = charges /\ sub'.status = sub.status]_vars

(***************************************************************************)
(* A dunning ladder ends: it charges, is stopped, cancels the subscription *)
(* or dies, within the seven days of its delays, whatever the sweep, the   *)
(* provider and the merchant do meanwhile (runDunningLadder).              *)
(***************************************************************************)
LadderEnds ==
    \A r \in Runs : run[r].pc # "idle" /\ today + 7 <= MaxDay ~> run[r].pc = "idle"

(***************************************************************************)
(* "only one workflow fires per subscription per billing period"           *)
(* (jobs/billingRenewal.inngest.ts): a period is charged once.             *)
(***************************************************************************)
ChargedOncePerPeriod ==
    \A a, b \in charges : a[1] = b[1] => a = b
=============================================================================
