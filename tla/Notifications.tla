--------------------------- MODULE Notifications ----------------------------
(***************************************************************************)
(* The webhook sent to a merchant (jobs/notifications.inngest.ts) and the  *)
(* settings it reads, kept by PATCH /tenant (routes/tenant.ts).  An event  *)
(* is one payment/notify of the queue; a run that throws is started again  *)
(* from its first line, at most Retries times.  The merchant's endpoint    *)
(* and the sink of a private fork are external.                            *)
(***************************************************************************)
EXTENDS Naturals, FiniteSets

CONSTANTS
    Notices,         \* payment/notify events
    Retries,         \* retries of the job
    Patches,         \* PATCH /tenant requests
    MaxSecrets       \* bound: secrets generated

VARIABLES
    url,             \* notifyWebhookUrl is set
    secret,          \* webhookSigningSecret: 0 for none
    issued,          \* secrets generated so far
    patch,           \* what each PATCH /tenant has read
    notice           \* each event: queued, sent or dropped, and what was sent

notifyVars == <<url, secret, issued, patch, notice>>

NoPatch == [pc |-> "idle", fresh |-> FALSE]

-----------------------------------------------------------------------------
\* PATCH /tenant with a URL: is there a secret to sign with?
ReadSecret(o) ==
    /\ patch[o].pc = "idle"
    /\ patch' = [patch EXCEPT ![o] = [pc |-> "write", fresh |-> secret = 0]]
    /\ UNCHANGED <<url, secret, issued, notice>>

\* A URL that is stored without a secret.
WriteUrlOnly(o) ==
    /\ patch[o].pc = "write"
    /\ url' = TRUE
    /\ patch' = [patch EXCEPT ![o] = NoPatch]
    /\ UNCHANGED <<secret, issued, notice>>

\* The URL and, when there was none, a new secret in one update.
WriteUrl(o) ==
    /\ patch[o].pc = "write"
    /\ patch[o].fresh => issued < MaxSecrets
    /\ url' = TRUE
    /\ issued' = IF patch[o].fresh THEN issued + 1 ELSE issued
    /\ secret' = IF patch[o].fresh THEN issued + 1 ELSE secret
    /\ patch' = [patch EXCEPT ![o] = NoPatch]
    /\ UNCHANGED notice

\* PATCH /tenant with rotateWebhookSigningSecret, with no URL or a null one.
Rotate ==
    /\ issued < MaxSecrets
    /\ issued' = issued + 1
    /\ secret' = issued + 1
    /\ url' \in {url, FALSE}
    /\ UNCHANGED <<patch, notice>>

\* PATCH /tenant with a null URL.
ClearUrl ==
    /\ url
    /\ url' = FALSE
    /\ UNCHANGED <<secret, issued, patch, notice>>

-----------------------------------------------------------------------------
Running(n) == notice[n].state = "queued"

\* The run ends without a call: the tenant has no URL.
Skip(n) ==
    /\ Running(n)
    /\ ~ url
    /\ notice' = [notice EXCEPT ![n].state = "skipped"]
    /\ UNCHANGED <<url, secret, issued, patch>>

(***************************************************************************)
(* One run that calls the endpoint, signed with the secret it reads.  The  *)
(* endpoint takes it and answers 2xx and the sink does not throw; or the   *)
(* endpoint takes it and the answer is lost, late or an error, or the sink *)
(* throws; or the endpoint is not reached.  A failed run is repeated.      *)
(***************************************************************************)
Notify(n, taken, ok) ==
    /\ Running(n)
    /\ url
    /\ ok => taken
    /\ notice' = [notice EXCEPT ![n] =
          [state |-> IF ok THEN "sent"
                     ELSE IF @.runs = Retries THEN "dropped" ELSE "queued",
           runs |-> @.runs + 1,
           taken |-> IF taken THEN @.taken + 1 ELSE @.taken,
           signed |-> @.signed /\ (taken => secret # 0)]]
    /\ UNCHANGED <<url, secret, issued, patch>>

NotifyInit ==
    /\ url = FALSE
    /\ secret = 0
    /\ issued = 0
    /\ patch = [o \in Patches |-> NoPatch]
    /\ notice = [n \in Notices |-> [state |-> "queued", runs |-> 0, taken |-> 0, signed |-> TRUE]]

NotifyNext ==
    \/ Rotate
    \/ ClearUrl
    \/ \E o \in Patches : ReadSecret(o) \/ WriteUrl(o)
    \/ \E n \in Notices : Skip(n) \/ \E taken, ok \in BOOLEAN : Notify(n, taken, ok)

NotifySpec == NotifyInit /\ [][NotifyNext]_notifyVars

-----------------------------------------------------------------------------
\* Properties.

(***************************************************************************)
(* Every webhook a merchant takes is signed: the job signs only when the   *)
(* tenant has a secret, and no order of the requests that set, clear and   *)
(* rotate leaves a URL without one.                                        *)
(***************************************************************************)
TakenIsSigned == \A n \in Notices : notice[n].signed
=============================================================================
