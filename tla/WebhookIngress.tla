--------------------------- MODULE WebhookIngress ---------------------------
(***************************************************************************)
(* From a provider's callback to the job that applies it                   *)
(* (routes/webhooks.ts, lib/webhook-verify.ts): the signature is verified  *)
(* with the key of the tenant the intent belongs to, an event that is      *)
(* already stored is answered, any other is sent to the queue under its    *)
(* idempotency key.  The provider, its redeliveries and the queue, which   *)
(* forgets a key after 24 hours, are external.  What the job does to the   *)
(* intent is in IntentLifecycle; here it ends stored, skipped, or out of   *)
(* retries.                                                                *)
(***************************************************************************)
EXTENDS Naturals, FiniteSets

CONSTANTS
    Events,          \* idempotency keys of the provider's events
    Handled,         \* those of a type the job has a branch for
    Deliveries,      \* callbacks being served at the same time
    MaxRepeats       \* bound: redeliveries of an event already answered

ASSUME HandledAssumption == Handled \subseteq Events

VARIABLES
    known,           \* the intent and the provider config are found
    delivery,        \* the progress of each callback
    acked,           \* events answered with 200
    repeats,         \* redeliveries of answered events
    queue,           \* events whose job has not ended
    recent,          \* keys the queue still remembers
    stored,          \* webhook_events rows
    handled,         \* jobs that ran to their end, per event
    skipped,         \* events whose job ended without a row
    failed           \* events whose job ran out of retries

jobVars == <<stored, handled, skipped, failed>>
ingressVars == <<known, delivery, acked, repeats, queue, recent, jobVars>>

NoDelivery == [pc |-> "idle", event |-> CHOOSE e \in Events : TRUE]

Answered(d) == delivery' = [delivery EXCEPT ![d] = NoDelivery]

InFlight(e) == \E d \in Deliveries : delivery[d].pc # "idle" /\ delivery[d].event = e

-----------------------------------------------------------------------------
\* The provider delivers, until it has its 200 and now and then once more.
Deliver(d, e) ==
    /\ delivery[d].pc = "idle"
    /\ \/ e \notin acked /\ UNCHANGED repeats
       \/ /\ e \in acked
          /\ repeats < MaxRepeats
          /\ repeats' = repeats + 1
    /\ delivery' = [delivery EXCEPT ![d] = [pc |-> "verify", event |-> e]]
    /\ UNCHANGED <<known, acked, queue, recent, jobVars>>

\* verifyWebhook: without the intent or its config there is no key: 401.
Verify(d) ==
    /\ delivery[d].pc = "verify"
    /\ IF known THEN delivery' = [delivery EXCEPT ![d].pc = "look"] ELSE Answered(d)
    /\ UNCHANGED <<known, acked, repeats, queue, recent, jobVars>>

\* The lookup of a webhook_events row left out.
LookUpNothing(d) ==
    /\ delivery[d].pc = "look"
    /\ delivery' = [delivery EXCEPT ![d].pc = "send"]
    /\ UNCHANGED <<acked, known, repeats, queue, recent, jobVars>>

\* A stored event is a duplicate and is answered at once.
LookUp(d) ==
    /\ delivery[d].pc = "look"
    /\ IF delivery[d].event \in stored
       THEN Answered(d) /\ acked' = acked \cup {delivery[d].event}
       ELSE delivery' = [delivery EXCEPT ![d].pc = "send"] /\ UNCHANGED acked
    /\ UNCHANGED <<known, repeats, queue, recent, jobVars>>

\* inngest.send: a remembered key is dropped by the queue.
Send(d) ==
    LET e == delivery[d].event
    IN  /\ delivery[d].pc = "send"
        /\ queue' = IF e \in recent THEN queue ELSE queue \cup {e}
        /\ recent' = recent \cup {e}
        /\ acked' = acked \cup {e}
        /\ Answered(d)
        /\ UNCHANGED <<known, repeats, jobVars>>

\* A failure to queue that is answered like a success.
SendFailsQuietly(d) ==
    /\ delivery[d].pc = "send"
    /\ acked' = acked \cup {delivery[d].event}
    /\ Answered(d)
    /\ UNCHANGED <<known, repeats, queue, recent, jobVars>>

\* The queue is out of reach: the route throws and the provider gets a 500.
SendFails(d) ==
    /\ delivery[d].pc = "send"
    /\ Answered(d)
    /\ UNCHANGED <<known, acked, repeats, queue, recent, jobVars>>

-----------------------------------------------------------------------------
(***************************************************************************)
(* The Stripe job ends without a row when it does not find the intent or   *)
(* has no branch for the type of the event.  (The jobs of the other        *)
(* providers store whatever they get.)                                     *)
(***************************************************************************)
Skips(e) == known => e \notin Handled

JobSkips(e) ==
    /\ e \in queue
    /\ Skips(e)
    /\ queue' = queue \ {e}
    /\ skipped' = skipped \cup {e}
    /\ UNCHANGED <<known, delivery, acked, repeats, recent, stored, handled, failed>>

\* The job applies the event and ends with its webhook_events row.
JobStores(e) ==
    /\ e \in queue
    /\ ~ Skips(e)
    /\ queue' = queue \ {e}
    /\ stored' = stored \cup {e}
    /\ handled' = [handled EXCEPT ![e] = @ + 1]
    /\ UNCHANGED <<known, delivery, acked, repeats, recent, skipped, failed>>

\* The retries of the job are used up.
JobFails(e) ==
    /\ e \in queue
    /\ queue' = queue \ {e}
    /\ failed' = failed \cup {e}
    /\ UNCHANGED <<known, delivery, acked, repeats, recent, stored, handled, skipped>>

\* A day has passed: long after the job and any callback have ended.
Forget(e) ==
    /\ e \in recent \ queue
    /\ ~ InFlight(e)
    /\ recent' = recent \ {e}
    /\ UNCHANGED <<known, delivery, acked, repeats, queue, jobVars>>

\* The request that creates the intent commits its row.
IntentAppears ==
    /\ ~ known
    /\ known' = TRUE
    /\ UNCHANGED <<delivery, acked, repeats, queue, recent, jobVars>>

-----------------------------------------------------------------------------
IngressInit ==
    /\ known = FALSE
    /\ delivery = [d \in Deliveries |-> NoDelivery]
    /\ acked = {}
    /\ repeats = 0
    /\ queue = {}
    /\ recent = {}
    /\ stored = {}
    /\ handled = [e \in Events |-> 0]
    /\ skipped = {}
    /\ failed = {}

IngressNext ==
    \/ \E d \in Deliveries :
          \/ \E e \in Events : Deliver(d, e)
          \/ Verify(d)
          \/ LookUp(d)
          \/ Send(d)
          \/ SendFails(d)
    \/ \E e \in Events : JobSkips(e) \/ JobStores(e) \/ JobFails(e) \/ Forget(e)
    \/ IntentAppears

IngressSpec == IngressInit /\ [][IngressNext]_ingressVars

-----------------------------------------------------------------------------
\* Properties.

(***************************************************************************)
(* The two levels of deduplication together: however often the provider    *)
(* repeats an event, at once or after the queue has forgotten its key, one *)
(* job at most applies it to the end.                                      *)
(***************************************************************************)
HandledOnce == \A e \in Events : handled[e] <= 1

(***************************************************************************)
(* Every event of a type the job handles is stored in the end or runs out  *)
(* of the job's retries, also one that arrives before the intent it is     *)
(* about: the verification refuses it until the row is there, so no job    *)
(* skips it as nobody's.  The others are skipped, or run out of retries.   *)
(***************************************************************************)
EventLands ==
    /\ \A e \in Handled : <>(e \in stored \cup failed)
    /\ \A e \in Events \ Handled : <>(e \in skipped \cup failed)
=============================================================================
