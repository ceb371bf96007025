------------------------ MODULE SubscriptionsProofs -------------------------
(***************************************************************************)
(* Billing, for every period, trial, calendar and number of runs at once:  *)
(* types, the rungs of the ladder, and that a drained stop is final.       *)
(***************************************************************************)
EXTENDS Subscriptions, TLAPS

\* lib/dunning.ts: attempts 1 to 4 and a delay in days after each but the last.
LEMMA Rungs ==
    /\ maxAttempts = 4
    /\ \A kind, n : n \in 1..3 => delays(kind)[n] \in Nat
BY DEF maxAttempts, delays

\* computeNextBillingDate is a date.
LEMMA NextDate == \A from \in Nat : computeNextBillingDate(from) \in Nat
BY SubscriptionsAssumption DEF computeNextBillingDate

\* The queue: sending an event keeps the ids and the events well formed.
LEMMA SendTypes ==
    ASSUME TypeOK, NEW key \in Nat, Send(key)
    PROVE  /\ queue' \subseteq [kind : {"renewal", "sim"}, key : Nat]
           /\ accepted' \in [Keys -> Nat]
<1>1. CASE UNCHANGED <<accepted, queue>>
    BY <1>1 DEF TypeOK
<1>2. CASE /\ accepted' = [accepted EXCEPT ![key] = today]
           /\ queue' = queue \cup {[kind |-> "renewal", key |-> key]}
    <2>1. accepted' \in [Keys -> Nat]
        BY <1>2 DEF TypeOK
    <2>2. [kind |-> "renewal", key |-> key] \in [kind : {"renewal", "sim"}, key : Nat]
        OBVIOUS
    <2> QED
        BY <1>2, <2>1, <2>2 DEF TypeOK
<1> QED
    BY <1>1, <1>2 DEF Send

\* What a step of one run may make of it: a well-formed run on an existing rung.
GoodRun(record) ==
    /\ record \in RunRecord
    /\ record.pc \in {"pastdue", "sleep", "asleep"} => record.n < maxAttempts

\* One run changes, and into a good one.
LEMMA RunKept ==
    ASSUME LadderInvariant, NEW r \in Runs, NEW record, GoodRun(record),
           run' = [run EXCEPT ![r] = record]
    PROVE  /\ run' \in [Runs -> RunRecord]
           /\ \A s \in Runs : run'[s].pc \in {"pastdue", "sleep", "asleep"}
                                 => run'[s].n < maxAttempts
BY DEF LadderInvariant, TypeOK, GoodRun

LEMMA IdleIsGood == GoodRun(Idle)
BY Rungs DEF GoodRun, Idle, RunRecord

\* Goes is a change of one record.
LEMMA GoesIsGood ==
    ASSUME LadderInvariant, NEW r \in Runs,
           NEW pc \in {"validate", "attempt", "charge", "pastdue", "sleep", "advance", "exhausted"},
           pc \in {"pastdue", "sleep"} => run[r].n < maxAttempts,
           Goes(r, pc)
    PROVE  /\ run' \in [Runs -> RunRecord]
           /\ \A s \in Runs : run'[s].pc \in {"pastdue", "sleep", "asleep"}
                                 => run'[s].n < maxAttempts
<1> DEFINE record == [run[r] EXCEPT !.pc = pc]
<1>1. run[r] \in RunRecord
    BY DEF LadderInvariant, TypeOK
<1>2. record \in RunRecord /\ record.pc = pc /\ record.n = run[r].n
    BY <1>1 DEF RunRecord
<1>3. run' = [run EXCEPT ![r] = record]
    BY DEF Goes
<1> HIDE DEF record
<1> QED
    BY <1>2, <1>3, RunKept DEF GoodRun

\* onFailure: the rung after attempt n.
LEMMA AfterFailureIsRung ==
    ASSUME NEW n \in 1..maxAttempts
    PROVE  /\ AfterFailure(n) \in {"pastdue", "sleep", "exhausted"}
           /\ AfterFailure(n) \in {"pastdue", "sleep"} => n < maxAttempts
BY Rungs DEF AfterFailure

LEMMA EndsIsGood ==
    ASSUME LadderInvariant, NEW r \in Runs, Ends(r)
    PROVE  /\ run' \in [Runs -> RunRecord]
           /\ \A s \in Runs : run'[s].pc \in {"pastdue", "sleep", "asleep"}
                                 => run'[s].n < maxAttempts
BY IdleIsGood, RunKept DEF Ends

LEMMA LadderStart == Init => LadderInvariant
BY SubscriptionsAssumption, Rungs, IdleIsGood
   DEF Init, LadderInvariant, TypeOK, GoodRun, Rest, NoActivation, SubscriptionStatus, Idle

\* The steps of a run (jobs/billingRenewal, lib/dunning.ts).
LEMMA RunStepKeeps ==
    ASSUME LadderInvariant, NEW r \in Runs, RunStep(r)
    PROVE  LadderInvariant'
<1> DEFINE Runnable == /\ run' \in [Runs -> RunRecord]
                       /\ \A s \in Runs : run'[s].pc \in {"pastdue", "sleep", "asleep"}
                                             => run'[s].n < maxAttempts
<1>n. run[r].n \in 1..maxAttempts /\ run[r].key \in Nat
    BY DEF LadderInvariant, TypeOK, RunRecord
<1>t. TypeOK
    BY DEF LadderInvariant
<1>1. CASE Validate(r)
    <2>1. Runnable
        BY <1>1, EndsIsGood, GoesIsGood DEF Validate
    <2> QED
        BY <1>1, <1>t, <2>1 DEF Validate, LadderInvariant, TypeOK, actors
<1>2. CASE AttemptRead(r)
    <2>1. Runnable
        BY <1>2, <1>n, AfterFailureIsRung, GoesIsGood DEF AttemptRead
    <2> QED
        BY <1>2, <1>t, <2>1 DEF AttemptRead, LadderInvariant, TypeOK, actors
<1>3. ASSUME NEW outcome \in Outcomes, AttemptCharge(r, outcome) PROVE LadderInvariant'
    <2>1. Runnable
        BY <1>3, <1>n, AfterFailureIsRung, GoesIsGood, EndsIsGood DEF AttemptCharge
    <2>2. charges' \subseteq Nat \X (1 .. maxAttempts)
        BY <1>3, <1>n, <1>t DEF AttemptCharge, TypeOK
    <2>3. events' \in [0 .. maxAttempts -> {"none", "CHARGED", "DECLINED"}]
        BY <1>3, <1>n, <1>t, Rungs DEF AttemptCharge, TypeOK, Recorded
    <2> QED
        BY <1>3, <1>t, <2>1, <2>2, <2>3 DEF AttemptCharge, LadderInvariant, TypeOK, actors
<1>4. CASE MarkPastDue(r)
    <2>1. Runnable
        BY <1>4, GoesIsGood DEF MarkPastDue, LadderInvariant
    <2>2. sub' \in [status : SubscriptionStatus, due : Nat, sim : BOOLEAN]
        BY <1>4, <1>t DEF MarkPastDue, Updates, TypeOK, SubscriptionStatus
    <2> QED
        BY <1>4, <1>t, <2>1, <2>2 DEF MarkPastDue, LadderInvariant, TypeOK, actors
<1>5. CASE Sleep(r)
    <2> DEFINE until  == today + delays(run[r].kind)[run[r].n]
               record == [run[r] EXCEPT !.pc = "asleep", !.wake = until]
    <2>1. run[r].n < maxAttempts
        BY <1>5 DEF Sleep, LadderInvariant
    <2>2. until \in Nat
        <3>1. run[r].n \in 1..3
            BY <1>n, <2>1, Rungs
        <3> QED
            BY <3>1, <1>t, Rungs DEF TypeOK
    <2>3. run' = [run EXCEPT ![r] = record]
        BY <1>5 DEF Sleep
    <2> HIDE DEF until
    <2>4. GoodRun(record)
        <3>1. run[r] \in RunRecord
            BY <1>t DEF TypeOK
        <3>2. record \in RunRecord /\ record.n = run[r].n
            BY <2>2, <3>1 DEF RunRecord
        <3> QED
            BY <2>1, <3>2 DEF GoodRun
    <2> HIDE DEF record
    <2>5. Runnable
        BY <2>3, <2>4, RunKept
    <2> QED
        BY <1>5, <1>t, <2>5 DEF Sleep, LadderInvariant, TypeOK, actors
<1>6. CASE CheckBeforeRetry(r)
    <2> DEFINE record == [run[r] EXCEPT !.pc = "attempt", !.n = @ + 1, !.wake = 0]
    <2>1. run[r].n < maxAttempts
        BY <1>6 DEF CheckBeforeRetry, LadderInvariant
    <2>2. GoodRun(record)
        <3>1. run[r].n + 1 \in 1..maxAttempts
            BY <1>n, <2>1, Rungs
        <3>2. run[r] \in RunRecord
            BY <1>t DEF TypeOK
        <3>3. /\ record \in RunRecord
              /\ record.pc = "attempt"
            BY <3>1, <3>2 DEF RunRecord
        <3> QED
            BY <3>3 DEF GoodRun
    <2>3. Ends(r) \/ run' = [run EXCEPT ![r] = record]
        BY <1>6 DEF CheckBeforeRetry
    <2> HIDE DEF record
    <2>4. Runnable
        BY <2>2, <2>3, RunKept, EndsIsGood
    <2> QED
        BY <1>6, <1>t, <2>4 DEF CheckBeforeRetry, LadderInvariant, TypeOK, actors
<1>7. CASE AdvanceBillingCycle(r)
    <2> DEFINE next == computeNextBillingDate(today)
    <2>1. next \in Nat
        BY <1>t, NextDate DEF TypeOK
    <2>2. /\ sub' = [sub EXCEPT !.status = "ACTIVE", !.due = next]
          /\ UNCHANGED <<accepted, queue>> \/ Send(next)
        BY <1>7 DEF AdvanceBillingCycle
    <2> HIDE DEF next
    <2>3. sub' \in [status : SubscriptionStatus, due : Nat, sim : BOOLEAN]
        BY <1>t, <2>1, <2>2 DEF TypeOK, SubscriptionStatus
    <2>4. /\ queue' \subseteq [kind : {"renewal", "sim"}, key : Nat]
          /\ accepted' \in [Keys -> Nat]
        <3>1. CASE UNCHANGED <<accepted, queue>>
            BY <3>1, <1>t DEF TypeOK
        <3>2. CASE Send(next)
            BY <3>2, <1>t, <2>1, SendTypes
        <3> QED
            BY <2>2, <3>1, <3>2
    <2>5. Runnable
        BY <1>7, EndsIsGood DEF AdvanceBillingCycle
    <2> QED
        BY <1>7, <1>t, <2>3, <2>4, <2>5 DEF AdvanceBillingCycle, LadderInvariant, TypeOK, actors
<1>8. CASE CancelExhausted(r)
    <2>1. Runnable
        BY <1>8, EndsIsGood DEF CancelExhausted
    <2>2. sub' \in [status : SubscriptionStatus, due : Nat, sim : BOOLEAN]
        BY <1>8, <1>t DEF CancelExhausted, Updates, TypeOK, SubscriptionStatus
    <2> QED
        BY <1>8, <1>t, <2>1, <2>2 DEF CancelExhausted, LadderInvariant, TypeOK, actors
<1>9. CASE RowGone(r)
    <2>1. Runnable
        BY <1>9, EndsIsGood DEF RowGone
    <2> QED
        BY <1>9, <1>t, <2>1 DEF RowGone, LadderInvariant, TypeOK, actors
<1> QED
    BY <1>1, <1>2, <1>3, <1>4, <1>5, <1>6, <1>7, <1>8, <1>9 DEF RunStep

\* A step that changes neither the runs nor what they are made of.
LEMMA RunsStand ==
    ASSUME LadderInvariant, UNCHANGED run
    PROVE  /\ run' \in [Runs -> RunRecord]
           /\ \A s \in Runs : run'[s].pc \in {"pastdue", "sleep", "asleep"}
                                 => run'[s].n < maxAttempts
BY DEF LadderInvariant, TypeOK

\* Every step of billing.
LEMMA LadderStep == LadderInvariant /\ [Next]_vars => LadderInvariant'
<1> SUFFICES ASSUME LadderInvariant, [Next]_vars
             PROVE  LadderInvariant'
    OBVIOUS
<1>t. TypeOK
    BY DEF LadderInvariant
<1> USE <1>t, SubscriptionsAssumption
<1>1. ASSUME NEW sent \in BOOLEAN, NEW trial \in Trials, BootstrapSubscription(sent, trial)
      PROVE  LadderInvariant'
    BY <1>1, RunsStand DEF BootstrapSubscription, NoActivation, LadderInvariant, TypeOK,
                           SubscriptionStatus
<1>2. CASE ActivateSubscription
    <2> DEFINE next == computeNextBillingDate(today)
    <2>0. today \in Nat /\ activation.wake \in Nat
        BY DEF TypeOK
    <2>1. next \in Nat /\ today + activation.wake \in Nat
        BY <2>0, NextDate
    <2>2. /\ sub' = [sub EXCEPT !.status = "ACTIVE", !.due = next]
          /\ activation' = [pc |-> "trigger", key |-> next, wake |-> today + activation.wake]
        BY <1>2 DEF ActivateSubscription
    <2> HIDE DEF next
    <2>3. sub' \in [status : SubscriptionStatus, due : Nat, sim : BOOLEAN]
        BY <2>1, <2>2 DEF TypeOK, SubscriptionStatus
    <2>4. activation' \in [pc : {"rest", "queued", "trigger", "done"}, key : Nat, wake : Nat]
        BY <2>1, <2>2
    <2> QED
        BY <1>2, <2>3, <2>4, RunsStand DEF ActivateSubscription, LadderInvariant, TypeOK
<1>3. CASE TriggerFirstRenewal
    <2>1. activation.key \in Nat
        BY DEF TypeOK
    <2> QED
        BY <1>3, <2>1, SendTypes, RunsStand
        DEF TriggerFirstRenewal, NoActivation, LadderInvariant, TypeOK
<1>4. CASE StartSimulation
    BY <1>4, RunsStand DEF StartSimulation, LadderInvariant, TypeOK, actors, SubscriptionStatus
<1>5. ASSUME NEW r \in Runs, NEW event \in queue, StartRun(r, event)
      PROVE  LadderInvariant'
    <2>1. GoodRun(Begun(event.kind, event.key))
        BY Rungs DEF GoodRun, Begun, RunRecord, TypeOK
    <2>2. /\ run' \in [Runs -> RunRecord]
          /\ \A s \in Runs : run'[s].pc \in {"pastdue", "sleep", "asleep"}
                                => run'[s].n < maxAttempts
        BY <1>5, <2>1, RunKept DEF StartRun
    <2> QED
        BY <1>5, <2>2 DEF StartRun, LadderInvariant, TypeOK, actors
<1>6. CASE SweepFind
    BY <1>6, RunsStand DEF SweepFind, Rest, LadderInvariant, TypeOK
<1>7. CASE SweepDispatch
    <2>1. sweep.key \in Nat
        BY DEF TypeOK
    <2> QED
        BY <1>7, <2>1, SendTypes, RunsStand DEF SweepDispatch, Rest, LadderInvariant, TypeOK
<1>8. ASSUME NEW request \in {"pause", "resume", "cancel", "cleanup"}, Request(request)
      PROVE  LadderInvariant'
    <2>1. merchant' \in [pc : {"rest", "pause", "resume", "cancel", "cleanup"}, key : Nat]
        BY <1>8 DEF Request, TypeOK
    <2> QED
        BY <1>8, <2>1, RunsStand, SMTT(30) DEF Request, LadderInvariant, TypeOK
<1>9. CASE Pause \/ Cancel
    <2>1. sub' \in [status : SubscriptionStatus, due : Nat, sim : BOOLEAN]
        BY <1>9, SMTT(30) DEF Pause, Cancel, Updates, TypeOK, SubscriptionStatus
    <2> QED
        BY <1>9, <2>1, RunsStand, SMTT(30) DEF Pause, Cancel, Rest, LadderInvariant, TypeOK
<1>10. CASE Resume
    <2>1. sub' \in [status : SubscriptionStatus, due : Nat, sim : BOOLEAN]
        BY <1>10 DEF Resume, Updates, TypeOK, SubscriptionStatus
    <2>2. merchant.key \in Nat
        BY DEF TypeOK
    <2>3. /\ queue' \subseteq [kind : {"renewal", "sim"}, key : Nat]
          /\ accepted' \in [Keys -> Nat]
        <3>1. CASE UNCHANGED <<accepted, queue>>
            BY <3>1 DEF TypeOK
        <3>2. CASE Send(merchant.key)
            BY <2>2, <3>2, SendTypes
        <3> QED
            BY <1>10, <3>1, <3>2 DEF Resume
    <2> QED
        BY <1>10, <2>1, <2>3, RunsStand DEF Resume, Rest, LadderInvariant, TypeOK
<1>11. CASE Cleanup
    <2>1. sub' \in [status : SubscriptionStatus, due : Nat, sim : BOOLEAN]
        BY <1>11 DEF Cleanup, Updates, TypeOK, SubscriptionStatus
    <2>2. events' \in [0 .. maxAttempts -> {"none", "CHARGED", "DECLINED"}]
        BY <1>11 DEF Cleanup, TypeOK
    <2> QED
        BY <1>11, <2>1, <2>2, RunsStand DEF Cleanup, Rest, LadderInvariant, TypeOK
<1>12. CASE Tick
    <2>1. accepted' \in [Keys -> Nat]
        BY <1>12 DEF Tick, TypeOK
    <2>2. today' \in Nat
        BY <1>12 DEF Tick, TypeOK
    <2>3. sweep' \in [pc : {"rest", "due", "found"}, key : Nat]
        BY <1>12 DEF Tick, Rest
    <2> QED
        BY <1>12, <2>1, <2>2, <2>3, RunsStand DEF Tick, LadderInvariant, TypeOK
<1>13. CASE UNCHANGED vars
    BY <1>13, RunsStand DEF vars, LadderInvariant, TypeOK
<1> QED
    BY <1>1, <1>2, <1>3, <1>4, <1>5, <1>6, <1>7, <1>8, <1>9, <1>10, <1>11, <1>12, <1>13,
       RunStepKeeps DEF Next

(***************************************************************************)
(* jobs/billingRenewal, lib/dunning.ts: one step from a drained stop.  A   *)
(* run that is idle, about to validate or asleep does not charge, and the  *)
(* refusal it meets sends it back to idle.                                 *)
(***************************************************************************)
LEMMA DrainedStep ==
    ASSUME LadderInvariant, [Next]_vars, Drained, Stopped, merchant'.pc = "rest"
    PROVE  Drained' /\ charges' = charges /\ sub'.status = sub.status
<1> DEFINE Quiet(record) == record.pc \in {"idle", "validate", "sleep", "asleep"}
<1>1. ASSUME NEW r \in Runs, RunStep(r)
      PROVE  Drained' /\ charges' = charges /\ sub'.status = sub.status
    <2>1. Quiet(run[r]) /\ run[r] \in RunRecord /\ run \in [Runs -> RunRecord]
        BY DEF Drained, LadderInvariant, TypeOK
    <2>2. Validate(r) \/ Sleep(r) \/ CheckBeforeRetry(r) \/ RowGone(r)
        BY <1>1, <2>1 DEF RunStep, AttemptRead, AttemptCharge, MarkPastDue,
                          AdvanceBillingCycle, CancelExhausted
    <2>3. UNCHANGED <<sub, charges, merchant, activation>>
        BY <2>2 DEF Validate, Sleep, CheckBeforeRetry, RowGone, actors
    <2>4. sub.status \in Refuses(run[r].kind)
        BY DEF Stopped
    <2>5. Ends(r) \/ Sleep(r)
        BY <2>2, <2>4 DEF Validate, CheckBeforeRetry, RowGone
    <2>6. \A s \in Runs : Quiet(run'[s])
        <3>1. CASE Ends(r)
            BY <2>1, <3>1 DEF Ends, Idle, Drained
        <3>2. CASE Sleep(r)
            BY <2>1, <3>2 DEF Sleep, Drained, RunRecord
        <3> QED
            BY <2>5, <3>1, <3>2
    <2> QED
        BY <2>3, <2>6 DEF Drained
<1>2. ASSUME NEW r \in Runs, NEW event \in queue, StartRun(r, event)
      PROVE  Drained' /\ charges' = charges /\ sub'.status = sub.status
    BY <1>2 DEF StartRun, Begun, Drained, LadderInvariant, TypeOK, actors
<1>3. CASE \/ \E sent \in BOOLEAN, trial \in Trials : BootstrapSubscription(sent, trial)
           \/ StartSimulation
    BY <1>3 DEF BootstrapSubscription, StartSimulation, Stopped
<1>4. CASE ActivateSubscription
    BY <1>4 DEF ActivateSubscription, Drained
<1>5. CASE TriggerFirstRenewal
    BY <1>5 DEF TriggerFirstRenewal, NoActivation, Drained
<1>6. CASE SweepFind \/ SweepDispatch \/ Tick
    BY <1>6 DEF SweepFind, SweepDispatch, Tick, Drained
<1>7. CASE \E request \in {"pause", "resume", "cancel", "cleanup"} : Request(request)
    BY <1>7 DEF Request
<1>8. CASE Pause \/ Resume \/ Cancel \/ Cleanup
    BY <1>8 DEF Pause, Resume, Cancel, Cleanup, Drained
<1>9. CASE UNCHANGED vars
    BY <1>9 DEF vars, Drained
<1> QED
    BY <1>1, <1>2, <1>3, <1>4, <1>5, <1>6, <1>7, <1>8, <1>9 DEF Next

(***************************************************************************)
(* jobs/billingRenewal, lib/dunning.ts: no ladder goes past its last rung, *)
(* however runs, sweeps and requests interleave.                           *)
(***************************************************************************)
THEOREM LadderStaysOnItsRungs == Spec => []LadderInvariant
<1> QED
    BY LadderStart, LadderStep, PTL DEF Spec

(***************************************************************************)
(* jobs/billingRenewal: once a cancel or a pause has drained, only a       *)
(* request of the merchant charges or revives the subscription.            *)
(***************************************************************************)
THEOREM DrainedStopIsFinal == Spec => StopIsFinal
<1>1. LadderInvariant /\ [Next]_vars
          => [Drained /\ Stopped /\ merchant'.pc = "rest" =>
                 Drained' /\ charges' = charges /\ sub'.status = sub.status]_vars
    BY DrainedStep
<1> QED
    BY <1>1, LadderStart, LadderStep, PTL DEF Spec, StopIsFinal
=============================================================================
