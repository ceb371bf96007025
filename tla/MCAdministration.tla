-------------------------- MODULE MCAdministration --------------------------
(***************************************************************************)
(* The small machines around the money path, side by side: they share no   *)
(* state, so a behaviour runs one of them, the scene, and the others stand *)
(* still in their initial state.                                           *)
(***************************************************************************)
EXTENDS Versions, Policies, Desk, ProviderConfigs, TenantGate, Team, Bookkeeping,
        Listings, WebhookIngress, Notifications, Fx, PricingCases

VARIABLE scene       \* the machine that runs

Scenes == {"versions", "policies", "desk", "provider", "gate", "team", "books",
           "listing", "ingress", "notify", "fx", "pricing"}

vars == <<scene, versionsVars, policyVars, deskVars, configVars, gateVars, teamVars,
          booksVars, listingVars, ingressVars, notifyVars, fxVars, pricingVars>>

\* The postings and the reports of Bookkeeping.
MCPostings ==
    {[debit |-> "COLLECTED", credit |-> "AVAILABLE", category |-> "CAPTURE"],
     [debit |-> "AVAILABLE", credit |-> "CASH", category |-> "REFUND"]}

Line(source, amount) == [reference |-> source, cents |-> amount]

MCReports ==
    LET s == CHOOSE s \in Sources : TRUE
        t == CHOOSE t \in Sources : t # s
    IN  {<<Line(s, 1)>>, <<Line(s, 1), Line(s, 1)>>, <<Line(s, 2), Line(t, 1)>>}

\* The machines with many initial states start in one of them when they stand still.
PricingStart ==
    IF scene = "pricing" THEN PricingInit
    ELSE cents = 0 /\ shares = <<[party |-> 1, bps |-> BpsUnit]>>

ListingStart ==
    /\ ListingInit
    /\ scene # "listing" => list = adminPayouts /\ \A n \in Limits : reader.limit <= n

TeamStart ==
    /\ TeamInit
    /\ scene # "team" => role[CHOOSE m \in Members : TRUE] = "OWNER"

Init ==
    /\ scene \in Scenes
    /\ VersionsInit /\ PolicyInit /\ DeskInit /\ ConfigInit /\ GateInit
    /\ TeamStart /\ BooksInit /\ ListingStart /\ IngressInit /\ NotifyInit
    /\ FxInit /\ PricingStart

Still(machine, variables) == IF scene = machine THEN TRUE ELSE UNCHANGED variables

Next ==
    /\ UNCHANGED scene
    /\ Still("versions", versionsVars) /\ Still("policies", policyVars)
    /\ Still("desk", deskVars) /\ Still("provider", configVars)
    /\ Still("gate", gateVars) /\ Still("team", teamVars)
    /\ Still("books", booksVars) /\ Still("listing", listingVars)
    /\ Still("ingress", ingressVars) /\ Still("notify", notifyVars)
    /\ Still("fx", fxVars) /\ Still("pricing", pricingVars)
    /\ \/ scene = "versions" /\ VersionsNext
       \/ scene = "policies" /\ PolicyNext
       \/ scene = "desk" /\ DeskNext
       \/ scene = "provider" /\ ConfigNext
       \/ scene = "gate" /\ GateNext
       \/ scene = "team" /\ TeamNext
       \/ scene = "books" /\ BooksNext
       \/ scene = "listing" /\ ListingNext
       \/ scene = "ingress" /\ IngressNext
       \/ scene = "notify" /\ NotifyNext
       \/ scene = "fx" /\ FxNext
       \/ scene = "pricing" /\ PricingNext

(***************************************************************************)
(* The provider redelivers what was not answered with 200, a callback is   *)
(* served to its end, the queue is not out of reach for ever, a queued job *)
(* ends, and the request that creates the intent commits.                  *)
(***************************************************************************)
Serves(action) == scene = "ingress" /\ action

IngressFairness ==
    /\ WF_ingressVars(Serves(IntentAppears))
    /\ \A e \in Events :
          /\ WF_ingressVars(Serves(JobSkips(e) \/ JobStores(e) \/ JobFails(e)))
          /\ SF_ingressVars(Serves(\E d \in Deliveries : e \notin acked /\ Deliver(d, e)))
    /\ \A d \in Deliveries :
          /\ WF_ingressVars(Serves(Verify(d) \/ LookUp(d)))
          /\ SF_ingressVars(Serves(Send(d)))

Spec == Init /\ [][Next]_vars /\ IngressFairness

\* EventLands, of the behaviours in which the webhooks run.
WebhookLands == scene = "ingress" => EventLands
=============================================================================
