------------------------------ MODULE Checkout ------------------------------
(***************************************************************************)
(* How a payment intent comes to be (routes/paymentIntents.ts,             *)
(* routes/paymentLinks.ts, lib/risk-scorer.ts), for one tenant: direct     *)
(* requests of an API client, deduplicated by reference, and the payments  *)
(* of one payment link, capped by maxAttempts.  IntentLifecycle takes over *)
(* from the row this module creates; here a payment has only its outcome.  *)
(*                                                                         *)
(* A request is a process: nothing is locked, so each database or provider *)
(* call is a step of its own.  The clock counts units of five minutes.     *)
(* asked and seen are history: when a request came, and which sessions had *)
(* been stored by then.                                                    *)
(***************************************************************************)
EXTENDS Risk, Sequences, FiniteSetsExt

CONSTANTS
    Requests,        \* requests being served at the same time
    MaxAttempts,     \* payment_links.maxAttempts
    ExpiresAt,       \* payment_links.expiresAt
    Recurring,       \* payment_links.isRecurring
    Thresholds,      \* risk thresholds of the tenant's tier
    LinkCents,       \* payment_links.amount
    Amounts,         \* amounts a direct request may ask for
    Holds,           \* the isPreauth a direct request may ask for
    Providers,       \* the connected providers a direct request may name
    DedupWindow,     \* the 5 minutes of the reference lookup
    RiskWindow,      \* DEFAULT_VELOCITY_WINDOW_SECONDS
    MaxClock,        \* bound: the last instant
    MaxIntents       \* bound: intents, with those being created

ASSUME CheckoutAssumption ==
    /\ {MaxAttempts, ExpiresAt, DedupWindow, RiskWindow, MaxClock, MaxIntents} \subseteq Nat
    /\ IsFiniteSet(Requests) /\ Requests # {}
    /\ Recurring \in BOOLEAN
    /\ Holds \subseteq BOOLEAN
    /\ Thresholds.maxPerWindow \in Nat
    /\ DedupWindow <= RiskWindow

VARIABLES
    clock,           \* units of five minutes since the start
    link,            \* the payment_links row
    intents,         \* the payment_intents rows, in order of creation
    request          \* the progress of each request

checkoutVars == <<clock, link, intents, request>>

OPEN == {"CREATED", "REQUIRES_ACTION", "AUTHORIZED"}

\* A direct request sets walletMode, or checkoutMode "element", or neither.
Modes == {"hosted", "element", "wallet"}

\* A link's request names no provider: its session is hosted with any of them.
NoRequest == [pc |-> "idle", by |-> "none", provider |-> "none", mode |-> "hosted",
              cents |-> 0, hold |-> FALSE, asked |-> 0, seen |-> {},
              verdict |-> "ALLOW", row |-> 0]

-----------------------------------------------------------------------------
Goes(r, pc) == request' = [request EXCEPT ![r].pc = pc]

Ends(r) == request' = [request EXCEPT ![r] = NoRequest]

(***************************************************************************)
(* The rows the reference lookup can match: the reference is stored in the *)
(* metadata only once the provider has answered, and never by a link.      *)
(***************************************************************************)
Cached(now) ==
    {i \in DOMAIN intents : /\ intents[i].tagged
                            /\ intents[i].status \in OPEN
                            /\ InWindow(intents[i].created, now, DedupWindow)}

\* existingIsWallet = isWalletRequest: a stored clientSecret makes an intent a
\* wallet's, whichever mode it was created in; walletMode makes a request one.
SameKind(i, mode) == intents[i].secret = (mode = "wallet")

\* The lookup takes the first row of an unordered result.
OldestMatches(mode) ==
    /\ Cached(clock) # {}
    /\ SameKind(Min(Cached(clock)), mode)

\* findFirst, newest first, with any provider; a row of the other kind is
\* ignored with the rest.
Matches(mode) ==
    /\ Cached(clock) # {}
    /\ SameKind(Max(Cached(clock)), mode)

\* POST /payment-intents: with a connected provider, and nothing cached.
StartDirect(r, provider, mode, cents, hold) ==
    /\ request[r].pc = "idle"
    /\ ~ Matches(mode)
    /\ request' = [request EXCEPT ![r] =
          [NoRequest EXCEPT !.pc = "score", !.by = "direct", !.provider = provider,
                            !.mode = mode, !.cents = cents, !.hold = hold,
                            !.asked = clock,
                            !.seen = {i \in DOMAIN intents : intents[i].tagged}]]
    /\ UNCHANGED <<clock, link, intents>>

\* POST /public/checkout/:slug/pay, up to the read of the link.
StartLink(r) ==
    /\ request[r].pc = "idle"
    /\ link.status = "ACTIVE"
    /\ clock <= ExpiresAt
    /\ request' = [request EXCEPT ![r] =
          [NoRequest EXCEPT !.pc = "bump", !.by = "link", !.cents = LinkCents]]
    /\ UNCHANGED <<clock, link, intents>>

\* The cap read with the link, the count written back later.
BumpStale(r) ==
    /\ request[r].pc = "bump"
    /\ link' = [link EXCEPT !.attempts = @ + 1]
    /\ Goes(r, "config")
    /\ UNCHANGED <<clock, intents>>

\* One conditional UPDATE counts the attempt, or refuses it.
BumpAttempt(r) ==
    /\ request[r].pc = "bump"
    /\ IF link.attempts < MaxAttempts
       THEN link' = [link EXCEPT !.attempts = @ + 1] /\ Goes(r, "config")
       ELSE UNCHANGED link /\ Ends(r)
    /\ UNCHANGED <<clock, intents>>

\* A provider that is not connected, or a body that does not parse, has
\* consumed the attempt all the same.
CheckConfig(r) ==
    /\ request[r].pc = "config"
    /\ \/ Goes(r, "score")
       \/ Ends(r)
    /\ UNCHANGED <<clock, link, intents>>

\* scoreRisk: BLOCK ends the request before a row exists.
Score(r) ==
    LET count   == Cardinality({i \in DOMAIN intents :
                                   InWindow(intents[i].created, clock, RiskWindow)})
        verdict == evaluateRisk(request[r].cents, count, Thresholds)
    IN  /\ request[r].pc = "score"
        /\ IF verdict = "BLOCK" THEN Ends(r)
           ELSE request' = [request EXCEPT ![r].pc = "create", ![r].verdict = verdict]
        /\ UNCHANGED <<clock, link, intents>>

CreateIntent(r) ==
    /\ request[r].pc = "create"
    /\ intents' = Append(intents,
          [by |-> request[r].by, created |-> clock, status |-> "CREATED",
           verdict |-> request[r].verdict, held |-> FALSE, secret |-> FALSE,
           tagged |-> FALSE])
    /\ request' = [request EXCEPT ![r].pc = "session", ![r].row = Len(intents')]
    /\ UNCHANGED <<clock, link>>

\* The isPreauth of createCheckoutSession, by route.
HoldsFunds(req) ==
    IF req.by = "direct" THEN req.hold \/ req.verdict = "REVIEW"
    ELSE req.verdict = "REVIEW" /\ ~ Recurring

\* Only Stripe answers with a clientSecret, and to both in-page modes.
GivesSecret(req) == req.provider = "STRIPE" /\ req.mode \in {"element", "wallet"}

(***************************************************************************)
(* createCheckoutSession and the transaction that stores its session and,  *)
(* on a direct intent, the reference: the client learns of the session     *)
(* after both.  A provider that throws leaves the row CREATED.             *)
(***************************************************************************)
OpenSession(r) ==
    /\ request[r].pc = "session"
    /\ \/ intents' = [intents EXCEPT
              ![request[r].row].held = HoldsFunds(request[r]),
              ![request[r].row].status = "REQUIRES_ACTION",
              ![request[r].row].secret = GivesSecret(request[r]),
              ![request[r].row].tagged = request[r].by = "direct"]
       \/ UNCHANGED intents
    /\ Ends(r)
    /\ UNCHANGED <<clock, link>>

-----------------------------------------------------------------------------
\* The provider reports the outcome of an open session (see IntentLifecycle).
CustomerPays(i) ==
    /\ intents[i].status = "REQUIRES_ACTION"
    /\ intents' = [intents EXCEPT ![i].status =
                      IF intents[i].held THEN "AUTHORIZED" ELSE "SUCCEEDED"]
    /\ link' = [link EXCEPT !.status = IF intents[i].by = "link" /\ ~ intents[i].held
                                       THEN "PAID" ELSE @]
    /\ UNCHANGED <<clock, request>>

CustomerFails(i) ==
    /\ intents[i].status = "REQUIRES_ACTION"
    /\ intents' = [intents EXCEPT ![i].status = "FAILED"]
    /\ UNCHANGED <<clock, link, request>>

\* POST /admin/risk-decisions/:id/resolve: a held payment is captured or
\* voided.  The new verdict is recorded in any status and never read again.
ResolveRisk(i, verdict) ==
    /\ intents[i].status = "AUTHORIZED"
    /\ intents' = [intents EXCEPT ![i].status =
                      IF verdict = "ALLOW" THEN "SUCCEEDED" ELSE "CANCELED"]
    /\ UNCHANGED <<clock, link, request>>

\* PATCH /payment-links/:id/cancel: the read, and the unconditional write.
ReadCancelLink(r) ==
    /\ request[r].pc = "idle"
    /\ link.status = "ACTIVE"
    /\ Goes(r, "cancel")
    /\ UNCHANGED <<clock, link, intents>>

CommitCancelLink(r) ==
    /\ request[r].pc = "cancel"
    /\ link' = [link EXCEPT !.status = "CANCELED"]
    /\ Ends(r)
    /\ UNCHANGED <<clock, intents>>

Tick ==
    /\ clock < MaxClock
    /\ clock' = clock + 1
    /\ UNCHANGED <<link, intents, request>>

-----------------------------------------------------------------------------
CheckoutInit ==
    /\ clock = 0
    /\ link = [status |-> "ACTIVE", attempts |-> 0]
    /\ intents = << >>
    /\ request = [r \in Requests |-> NoRequest]

CheckoutNext ==
    \/ \E r \in Requests :
          \/ /\ Len(intents) + Cardinality({q \in Requests : request[q].pc # "idle"})
                    < MaxIntents
             /\ \/ StartLink(r)
                \/ \E provider \in Providers, mode \in Modes :
                      \E cents \in Amounts, hold \in Holds :
                         StartDirect(r, provider, mode, cents, hold)
          \/ BumpAttempt(r)
          \/ CheckConfig(r)
          \/ Score(r)
          \/ CreateIntent(r)
          \/ OpenSession(r)
          \/ ReadCancelLink(r)
          \/ CommitCancelLink(r)
    \/ \E i \in DOMAIN intents :
          \/ CustomerPays(i)
          \/ CustomerFails(i)
          \/ \E verdict \in {"ALLOW", "BLOCK"} : ResolveRisk(i, verdict)
    \/ Tick

CheckoutSpec == CheckoutInit /\ [][CheckoutNext]_checkoutVars

-----------------------------------------------------------------------------
\* Properties.

(***************************************************************************)
(* "prevents concurrent requests from bypassing maxAttempts" (H-2): a link *)
(* never has more intents than attempts, nor more attempts than allowed,   *)
(* with any number of payments in flight.                                  *)
(***************************************************************************)
AttemptsBounded ==
    LET inFlight == {r \in Requests : request[r].pc \in {"config", "score", "create"}
                                      /\ request[r].by = "link"}
        made     == {i \in DOMAIN intents : intents[i].by = "link"}
    IN  /\ Cardinality(made) + Cardinality(inFlight) <= link.attempts
        /\ link.attempts <= MaxAttempts

(***************************************************************************)
(* "return it as-is instead of creating a duplicate": a request is on its  *)
(* way to a session of its own, although it could see an answered, live    *)
(* and recent one of its kind (with a client secret for a walletMode       *)
(* request, without for any other), only if a session of the other kind    *)
(* came in between, because the lookup sees the newest row alone.  That is *)
(* all a client is promised: a repeated checkoutMode "element" request of  *)
(* Stripe is not of the kind of the session it got, nor is a walletMode    *)
(* request of another provider.                                            *)
(***************************************************************************)
RepeatsAreCached ==
    \A r \in Requests : \A i \in request[r].seen :
        /\ intents[i].status \in OPEN
        /\ SameKind(i, request[r].mode)
        /\ InWindow(intents[i].created, request[r].asked, DedupWindow)
        => \E k \in request[r].seen : k > i /\ ~ SameKind(k, request[r].mode)

(***************************************************************************)
(* The velocity count is read before the row it should include exists, so  *)
(* the threshold is passed, but by no more than the other requests in      *)
(* flight: in any hour at most maxPerWindow + (requests - 1) are let       *)
(* through without review.                                                 *)
(***************************************************************************)
VelocityOvershoot ==
    \A now \in 0..clock :
        Cardinality({i \in DOMAIN intents : /\ intents[i].verdict = "ALLOW"
                                            /\ intents[i].created <= now
                                            /\ InWindow(intents[i].created, now, RiskWindow)})
            <= Thresholds.maxPerWindow + Cardinality(Requests) - 1

=============================================================================
