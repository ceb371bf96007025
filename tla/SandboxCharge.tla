---------------------------- MODULE SandboxCharge ---------------------------
(***************************************************************************)
(* The smoke tests of a VPS account (routes/simulation.ts, direct and      *)
(* preauth): a throwaway link and intent, a status route that asks the     *)
(* provider at every poll because its callbacks cannot reach the tester,   *)
(* and for a pre-auth the operator's capture and release.  A direct charge *)
(* is opened in AUTHORIZE mode too and is settled by the poll itself.      *)
(*                                                                         *)
(* Operators act at the same time and nothing is locked: a route reads the *)
(* row, calls the provider, then writes the status it decided on.          *)
(***************************************************************************)
EXTENDS Naturals

CONSTANTS
    Operators,       \* requests being served at the same time
    Kinds            \* which tests are run: "direct", "preauth"

VARIABLES
    kind,            \* the test this session runs
    charge,          \* the provider's charge
    row,             \* payment_intents: status, and whether providerRef is set
    operator,        \* the progress of each request
    asked            \* history: a capture was requested

sandboxVars == <<kind, charge, row, operator, asked>>

SIM_TERMINAL == {"SUCCEEDED", "FAILED", "CANCELED"}

NoRow == [status |-> "GONE", ref |-> FALSE]

NoOperation == [pc |-> "idle", saw |-> "none"]

\* The status the provider's answer is mapped to (status-maps.ts).
LiveStatus(c) ==
    CASE c = "challenge"  -> "REQUIRES_ACTION"
      [] c = "authorised" -> "AUTHORIZED"
      [] c = "charged"    -> "SUCCEEDED"
      [] c = "reversed"   -> "CANCELED"
      [] c = "declined"   -> "FAILED"

Awaits(o, pc, saw) == operator' = [operator EXCEPT ![o] = [pc |-> pc, saw |-> saw]]

Returns(o) == operator' = [operator EXCEPT ![o] = NoOperation]

\* prisma update: it throws when the row was cleaned up.
Writes(status) ==
    row' = IF row.status = "GONE" THEN row ELSE [row EXCEPT !.status = status]

-----------------------------------------------------------------------------
\* prepare: the rows, the session, the status; a session that fails leaves
\* an intent without a providerRef.
Prepare(o) ==
    /\ operator[o].pc = "idle"
    /\ row = NoRow
    /\ charge = "none"
    /\ \/ row' = [status |-> "REQUIRES_ACTION", ref |-> TRUE]
       \/ row' = [status |-> "CREATED", ref |-> FALSE]
    /\ UNCHANGED <<kind, charge, operator, asked>>

\* status, up to the answer of queryTransactionStatus; a 404 changes nothing.
PollAskCharge(o) ==
    /\ operator[o].pc = "idle"
    /\ row.ref
    /\ row.status \notin SIM_TERMINAL
    /\ charge # "none"
    /\ Awaits(o, "poll", charge)
    /\ UNCHANGED <<kind, charge, row, asked>>

\* direct/status: an authorised charge is settled at once.
DirectDecide(o) ==
    /\ kind = "direct"
    /\ operator[o].pc = "poll"
    /\ IF operator[o].saw = "authorised"
       THEN Awaits(o, "settle", "none") /\ UNCHANGED row
       ELSE Writes(LiveStatus(operator[o].saw)) /\ Returns(o)
    /\ UNCHANGED <<kind, charge, asked>>

\* A pre-auth poll that settles like the direct one.
PreauthSettles(o) ==
    /\ kind = "preauth"
    /\ operator[o].pc = "poll"
    /\ IF operator[o].saw = "authorised"
       THEN Awaits(o, "settle", "none") /\ UNCHANGED row
       ELSE Writes(LiveStatus(operator[o].saw)) /\ Returns(o)
    /\ UNCHANGED <<kind, charge, asked>>

\* preauth/status: the hold is recorded and left to the operator.
PreauthDecide(o) ==
    /\ kind = "preauth"
    /\ operator[o].pc = "poll"
    /\ Writes(LiveStatus(operator[o].saw))
    /\ Returns(o)
    /\ UNCHANGED <<kind, charge, asked>>

\* preauth/capture and preauth/cancel, up to their checks.
ReadForCapture(o) ==
    /\ operator[o].pc = "idle"
    /\ row.status = "AUTHORIZED"
    /\ row.ref
    /\ Awaits(o, "settle", "none")
    /\ asked' = TRUE
    /\ UNCHANGED <<kind, charge, row>>

ReadForCancel(o) ==
    /\ operator[o].pc = "idle"
    /\ row.status = "AUTHORIZED"
    /\ row.ref
    /\ Awaits(o, "reverse", "none")
    /\ UNCHANGED <<kind, charge, row, asked>>

\* capturePayment and cancelPayment: the provider does it, answers that it
\* did not (success is not looked at), or the call throws.
CallProvider(o, pc, done, becomes) ==
    /\ operator[o].pc = pc
    /\ \/ /\ charge = "authorised"
          /\ charge' = becomes
          /\ Awaits(o, done, "none")
       \/ UNCHANGED charge /\ Awaits(o, done, "none")
       \/ UNCHANGED charge /\ Returns(o)
    /\ UNCHANGED <<kind, row, asked>>

SettleCharge(o) == CallProvider(o, "settle", "settled", "charged")

ReverseCharge(o) == CallProvider(o, "reverse", "reversed", "reversed")

WriteCaptured(o) ==
    /\ operator[o].pc = "settled"
    /\ Writes("SUCCEEDED")
    /\ Returns(o)
    /\ UNCHANGED <<kind, charge, asked>>

WriteReleased(o) ==
    /\ operator[o].pc = "reversed"
    /\ Writes("CANCELED")
    /\ Returns(o)
    /\ UNCHANGED <<kind, charge, asked>>

\* cleanup deletes the intent, whatever became of the charge.
Cleanup(o) ==
    /\ operator[o].pc = "idle"
    /\ row' = NoRow
    /\ UNCHANGED <<kind, charge, operator, asked>>

\* The tester on the provider's page.
TesterPays ==
    /\ \/ charge = "none" /\ row.ref /\ charge' \in {"challenge", "authorised", "declined"}
       \/ charge = "challenge" /\ charge' \in {"authorised", "declined"}
    /\ UNCHANGED <<kind, row, operator, asked>>

-----------------------------------------------------------------------------
SandboxInit ==
    /\ kind \in Kinds
    /\ charge = "none"
    /\ row = NoRow
    /\ operator = [o \in Operators |-> NoOperation]
    /\ asked = FALSE

SandboxNext ==
    \/ \E o \in Operators :
          \/ Prepare(o)
          \/ PollAskCharge(o)
          \/ DirectDecide(o)
          \/ PreauthDecide(o)
          \/ SettleCharge(o)
          \/ WriteCaptured(o)
          \/ kind = "preauth" /\ (ReadForCapture(o) \/ ReadForCancel(o))
          \/ ReverseCharge(o)
          \/ WriteReleased(o)
          \/ Cleanup(o)
    \/ TesterPays

SandboxSpec == SandboxInit /\ [][SandboxNext]_sandboxVars

-----------------------------------------------------------------------------
\* Properties.

(***************************************************************************)
(* "does NOT auto-settle when AUTHORISED": the hold of a pre-auth test is  *)
(* captured at the provider only after an operator asked for the capture,  *)
(* whatever polls run next to it.                                          *)
(***************************************************************************)
HoldWaitsForOperator == kind = "preauth" /\ charge = "charged" => asked

=============================================================================
