------------------------ MODULE IntentLifecycleProofs -----------------------
(***************************************************************************)
(* Proofs about the intent lifecycle, for both providers, every set of     *)
(* events they deliver and any number of concurrent requests; and about    *)
(* the chain of charges of an installment agreement, for every number of   *)
(* installments.                                                           *)
(***************************************************************************)
EXTENDS IntentLifecycle, Installments, TLAPS

\* The provider's answer is a member of the status enum.
LEMMA ReportedType == charge \in Charges => Reported \in Statuses
BY DEF Charges, Statuses, Reported, VpsStatus, StripeStatus

\* Neither provider reports SUCCEEDED for a charge that it has not captured.
LEMMA ReportedSuccess ==
    charge \in Charges /\ Reported = "SUCCEEDED" => charge \in {"captured", "refunded"}
BY DEF Charges, Reported, VpsStatus, StripeStatus

LEMMA InitTypeOK == Init => TypeOK
<1> SUFFICES ASSUME Init PROVE TypeOK
  OBVIOUS
<1>1. \A pcs : Rest \in Progress(pcs)
  BY DEF Rest, Progress, Statuses
<1>2. QED
  BY <1>1 DEF Init, TypeOK, Statuses, Charges

\* Every handler keeps the types.
LEMMA StepTypeOK == TypeOK /\ [Next]_vars => TypeOK'
<1> SUFFICES ASSUME TypeOK, [Next]_vars PROVE TypeOK'
  OBVIOUS
<1> USE EventAssumption
<1>0. Reported \in Statuses
  BY ReportedType DEF TypeOK
<1>1. ASSUME OpenCheckout PROVE TypeOK'
  BY <1>1, <1>0 DEF OpenCheckout, TypeOK, Progress, At, Rest, rows, Charges, Statuses
<1>2. ASSUME CustomerPays PROVE TypeOK'
  BY <1>2, <1>0 DEF CustomerPays, TypeOK, Progress, At, Rest, rows, ChargeBecomes, Charges, Statuses
<1>3. ASSUME CardDeclined PROVE TypeOK'
  BY <1>3, <1>0 DEF CardDeclined, TypeOK, Progress, At, Rest, rows, ChargeBecomes, Charges, Statuses
<1>4. ASSUME NEW e \in Events, ReadStatus(e) PROVE TypeOK'
  BY <1>4, <1>0 DEF ReadStatus, TypeOK, Progress, At, Rest, rows, Statuses
<1>5. ASSUME NEW e \in Events, NEW acknowledged \in BOOLEAN, UpdateStatus(e, acknowledged) PROVE TypeOK'
  BY <1>5, <1>0 DEF UpdateStatus, TypeOK, Progress, At, Rest, rows, Statuses
<1>6. ASSUME NEW e \in Events, DropEvent(e) PROVE TypeOK'
  BY <1>6, <1>0 DEF DropEvent, TypeOK, Progress, At, Rest, rows, Statuses
<1>7. ASSUME NEW e \in Events, SettleEvent(e) PROVE TypeOK'
  BY <1>7, <1>0 DEF SettleEvent, TypeOK, Progress, At, Rest, rows, Statuses
<1>8. ASSUME NEW e \in Events, StoreEvent(e) PROVE TypeOK'
  BY <1>8, <1>0 DEF StoreEvent, TypeOK, Progress, At, Rest, rows, Statuses
<1>9. ASSUME NEW late \in BOOLEAN, PollFetch(late) PROVE TypeOK'
  BY <1>9, <1>0 DEF PollFetch, TypeOK, Progress, At, Rest, rows, Statuses
<1>10. ASSUME PollTimeout PROVE TypeOK'
  BY <1>10, <1>0 DEF PollTimeout, TypeOK, Progress, At, Rest, rows, Statuses
<1>11. ASSUME NEW outcome \in {"answered", "no config", "outage"}, PollAsk(outcome) PROVE TypeOK'
  <2>1. \/ poller' = At("write", Reported)
        \/ poller' = At("dead", poller.seen)
        \/ poller' = At("sleep", "CREATED")
    BY <1>11 DEF PollAsk
  <2>2. poller' \in Progress({"sleep", "late", "ask", "write", "dead", "done"})
    <3>1. poller.seen \in Statuses /\ "CREATED" \in Statuses
      BY DEF TypeOK, Progress, Statuses
    <3>2. \A pc \in {"write", "dead", "sleep"}, seen \in Statuses :
             At(pc, seen) \in Progress({"sleep", "late", "ask", "write", "dead",
                                       "done"})
      BY DEF Progress, At
    <3>3. QED
      BY <1>0, <2>1, <3>1, <3>2
  <2>3. QED
    BY <1>11, <2>2 DEF PollAsk, TypeOK, rows
<1>12. ASSUME PollWrite PROVE TypeOK'
  BY <1>12, <1>0 DEF PollWrite, TypeOK, Progress, At, Rest, rows, Statuses
<1>13. ASSUME NEW q \in Queries, QueryFetch(q) PROVE TypeOK'
  BY <1>13, <1>0 DEF QueryFetch, TypeOK, Progress, At, Rest, rows, Statuses
<1>14. ASSUME NEW q \in Queries, QueryAsk(q) PROVE TypeOK'
  BY <1>14, <1>0 DEF QueryAsk, TypeOK, Progress, At, Rest, rows, Statuses
<1>15. ASSUME NEW q \in Queries, QueryWrite(q) PROVE TypeOK'
  BY <1>15, <1>0 DEF QueryWrite, TypeOK, Progress, At, Rest, rows, Statuses
<1>16. ASSUME NEW m \in Merchants, NEW op \in {"capture", "void"}, Lock(m, op) PROVE TypeOK'
  BY <1>16, <1>0 DEF Lock, TypeOK, Progress, At, Rest, rows, Statuses
<1>17. ASSUME NEW m \in Merchants, ProviderAccepts(m) PROVE TypeOK'
  BY <1>17, <1>0, SMTT(40) DEF ProviderAccepts, CaptureAccepted, VoidAccepted, TypeOK, Progress, At, Rest, rows, ChargeBecomes, Charges, Statuses
<1>18. ASSUME NEW m \in Merchants, ProviderRejects(m) PROVE TypeOK'
  BY <1>18, <1>0 DEF ProviderRejects, TypeOK, Progress, At, Rest, rows, Statuses
<1>19. ASSUME NEW m \in Merchants, FinishAction(m) PROVE TypeOK'
  BY <1>19, <1>0 DEF FinishAction, TypeOK, Progress, At, Rest, rows, Statuses
<1>20. ASSUME NEW m \in Merchants, SettleAction(m) PROVE TypeOK'
  BY <1>20, <1>0 DEF SettleAction, TypeOK, Progress, At, Rest, rows, Statuses
<1>21. ASSUME NEW m \in Merchants, AbandonAction(m) PROVE TypeOK'
  BY <1>21, <1>0 DEF AbandonAction, TypeOK, Progress, At, Rest, rows, Statuses
<1>22. ASSUME NEW r \in Refunders, CheckRefund(r) PROVE TypeOK'
  BY <1>22, <1>0 DEF CheckRefund, TypeOK, Progress, At, Rest, rows, Statuses
<1>23. ASSUME NEW r \in Refunders, CreateRefund(r) PROVE TypeOK'
  BY <1>23, <1>0, SMTT(30) DEF CreateRefund, TypeOK, Progress, At, Rest, rows, Statuses
<1>24. ASSUME NEW r \in Refunders, ProviderRefunds(r) PROVE TypeOK'
  BY <1>24, <1>0, SMTT(40) DEF ProviderRefunds, TypeOK, Progress, At, Rest, rows, ChargeBecomes, Charges, Statuses
<1>25. ASSUME NEW r \in Refunders, SettleRefund(r) PROVE TypeOK'
  BY <1>25, <1>0 DEF SettleRefund, TypeOK, Progress, At, Rest, rows, Statuses
<1>26. ASSUME NEW r \in Refunders, FinishRefund(r) PROVE TypeOK'
  BY <1>26, <1>0 DEF FinishRefund, TypeOK, Progress, At, Rest, rows, Statuses
<1>27. ASSUME NEW r \in Refunders, AbandonRefund(r) PROVE TypeOK'
  BY <1>27, <1>0 DEF AbandonRefund, TypeOK, Progress, At, Rest, rows, Statuses
<1>28. ASSUME UNCHANGED vars PROVE TypeOK'
  BY <1>28 DEF vars, TypeOK, Progress, At, Rest, rows, rows
<1>29. QED
  BY <1>1, <1>2, <1>3, <1>4, <1>5, <1>6, <1>7, <1>8, <1>9, <1>10, <1>11, <1>12, <1>13, <1>14, <1>15, <1>16, <1>17, <1>18, <1>19, <1>20, <1>21, <1>22, <1>23, <1>24, <1>25, <1>26, <1>27, <1>28 DEF Next

(***************************************************************************)
(* Theorem: the intent row only ever holds a status of the enum, and every *)
(* job and request is at one of its steps.                                 *)
(***************************************************************************)
THEOREM IntentTypeCorrect == Spec => []TypeOK
BY InitTypeOK, StepTypeOK, PTL DEF Spec
-----------------------------------------------------------------------------
Paid == charge \in {"captured", "refunded"}

(***************************************************************************)
(* Everyone on the way to crediting the tenant has learnt of the capture   *)
(* from the provider, and the provider never takes a capture back other    *)
(* than by a refund.                                                       *)
(***************************************************************************)
MoneyInv ==
    /\ MoneyFollowsCapture
    /\ \A e \in Events :
          /\ job[e].pc # "rest" /\ EventStatus[e] = "SUCCEEDED" => Paid
          /\ job[e].pc = "settle" => EventStatus[e] = "SUCCEEDED"
    /\ poller.pc = "write" /\ poller.seen = "SUCCEEDED" => Paid
    /\ \A m \in Merchants : merchant[m].pc \in {"captured", "settle"} => Paid

LEMMA InitMoneyInv == Init => MoneyInv
BY DEF Init, MoneyInv, MoneyFollowsCapture, Paid, Rest

LEMMA StepMoneyInv == TypeOK /\ MoneyInv /\ [Next]_vars => MoneyInv'
<1> SUFFICES ASSUME TypeOK, MoneyInv, [Next]_vars PROVE MoneyInv'
  OBVIOUS
<1> USE EventAssumption DEF TypeOK, Progress
<1>1. ASSUME OpenCheckout PROVE MoneyInv'
  BY <1>1 DEF OpenCheckout, MoneyInv, MoneyFollowsCapture, Paid, rows, At, Rest
<1>2. ASSUME CustomerPays PROVE MoneyInv'
  BY <1>2 DEF CustomerPays, MoneyInv, MoneyFollowsCapture, Paid, rows, At, Rest, ChargeBecomes, Payable
<1>3. ASSUME CardDeclined PROVE MoneyInv'
  BY <1>3 DEF CardDeclined, MoneyInv, MoneyFollowsCapture, Paid, rows, At, Rest, ChargeBecomes
<1>4. ASSUME NEW e \in Events, ReadStatus(e) PROVE MoneyInv'
  BY <1>4 DEF ReadStatus, MoneyInv, MoneyFollowsCapture, Paid, rows, At, Rest
<1>5. ASSUME NEW e \in Events, NEW acknowledged \in BOOLEAN, UpdateStatus(e, acknowledged) PROVE MoneyInv'
  BY <1>5 DEF UpdateStatus, MoneyInv, MoneyFollowsCapture, Paid, rows, At, Rest, Settles
<1>6. ASSUME NEW e \in Events, DropEvent(e) PROVE MoneyInv'
  BY <1>6 DEF DropEvent, MoneyInv, MoneyFollowsCapture, Paid, rows, At, Rest
<1>7. ASSUME NEW e \in Events, SettleEvent(e) PROVE MoneyInv'
  BY <1>7 DEF SettleEvent, MoneyInv, MoneyFollowsCapture, Paid, rows, At, Rest
<1>8. ASSUME NEW e \in Events, StoreEvent(e) PROVE MoneyInv'
  BY <1>8 DEF StoreEvent, MoneyInv, MoneyFollowsCapture, Paid, rows, At, Rest
<1>9. ASSUME NEW late \in BOOLEAN, PollFetch(late) PROVE MoneyInv'
  BY <1>9 DEF PollFetch, MoneyInv, MoneyFollowsCapture, Paid, rows, At, Rest
<1>10. ASSUME PollTimeout PROVE MoneyInv'
  BY <1>10 DEF PollTimeout, MoneyInv, MoneyFollowsCapture, Paid, rows, At, Rest
<1>11. ASSUME NEW outcome \in {"answered", "no config", "outage"}, PollAsk(outcome) PROVE MoneyInv'
  <2>1. \/ poller' = At("write", Reported)
        \/ poller' = At("dead", poller.seen)
        \/ poller' = At("sleep", "CREATED")
    BY <1>11 DEF PollAsk
  <2>2. Reported = "SUCCEEDED" => Paid
    BY ReportedSuccess DEF Paid
  <2>3. poller'.pc = "write" /\ poller'.seen = "SUCCEEDED" => Paid
    <3>1. CASE poller' = At("write", Reported)
      BY <2>2, <3>1 DEF At
    <3>2. CASE poller' = At("dead", poller.seen)
      BY <3>2 DEF At
    <3>3. CASE poller' = At("sleep", "CREATED")
      BY <3>3 DEF At
    <3>4. QED
      BY <2>1, <3>1, <3>2, <3>3
  <2>4. QED
    BY <1>11, <2>3 DEF PollAsk, MoneyInv, MoneyFollowsCapture, Paid, rows
<1>12. ASSUME PollWrite PROVE MoneyInv'
  BY <1>12 DEF PollWrite, MoneyInv, MoneyFollowsCapture, Paid, rows, At, Rest
<1>13. ASSUME NEW q \in Queries, QueryFetch(q) PROVE MoneyInv'
  BY <1>13 DEF QueryFetch, MoneyInv, MoneyFollowsCapture, Paid, rows, At, Rest
<1>14. ASSUME NEW q \in Queries, QueryAsk(q) PROVE MoneyInv'
  BY <1>14 DEF QueryAsk, MoneyInv, MoneyFollowsCapture, Paid, rows, At, Rest
<1>15. ASSUME NEW q \in Queries, QueryWrite(q) PROVE MoneyInv'
  BY <1>15 DEF QueryWrite, MoneyInv, MoneyFollowsCapture, Paid, rows, At, Rest
<1>16. ASSUME NEW m \in Merchants, NEW op \in {"capture", "void"}, Lock(m, op) PROVE MoneyInv'
  BY <1>16 DEF Lock, MoneyInv, MoneyFollowsCapture, Paid, rows, At, Rest
<1>17. ASSUME NEW m \in Merchants, ProviderAccepts(m) PROVE MoneyInv'
  BY <1>17 DEF ProviderAccepts, CaptureAccepted, VoidAccepted, MoneyInv, MoneyFollowsCapture, Paid, rows, At, Rest, ChargeBecomes
<1>18. ASSUME NEW m \in Merchants, ProviderRejects(m) PROVE MoneyInv'
  BY <1>18 DEF ProviderRejects, MoneyInv, MoneyFollowsCapture, Paid, rows, At, Rest
<1>19. ASSUME NEW m \in Merchants, FinishAction(m) PROVE MoneyInv'
  BY <1>19 DEF FinishAction, MoneyInv, MoneyFollowsCapture, Paid, rows, At, Rest
<1>20. ASSUME NEW m \in Merchants, SettleAction(m) PROVE MoneyInv'
  BY <1>20 DEF SettleAction, MoneyInv, MoneyFollowsCapture, Paid, rows, At, Rest
<1>21. ASSUME NEW m \in Merchants, AbandonAction(m) PROVE MoneyInv'
  BY <1>21 DEF AbandonAction, MoneyInv, MoneyFollowsCapture, Paid, rows, At, Rest
<1>22. ASSUME NEW r \in Refunders, CheckRefund(r) PROVE MoneyInv'
  BY <1>22 DEF CheckRefund, MoneyInv, MoneyFollowsCapture, Paid, rows, At, Rest
<1>23. ASSUME NEW r \in Refunders, CreateRefund(r) PROVE MoneyInv'
  BY <1>23 DEF CreateRefund, MoneyInv, MoneyFollowsCapture, Paid, rows, At, Rest
<1>24. ASSUME NEW r \in Refunders, ProviderRefunds(r) PROVE MoneyInv'
  BY <1>24 DEF ProviderRefunds, MoneyInv, MoneyFollowsCapture, Paid, rows, At, Rest, ChargeBecomes
<1>25. ASSUME NEW r \in Refunders, SettleRefund(r) PROVE MoneyInv'
  BY <1>25 DEF SettleRefund, MoneyInv, MoneyFollowsCapture, Paid, rows, At, Rest
<1>26. ASSUME NEW r \in Refunders, FinishRefund(r) PROVE MoneyInv'
  BY <1>26 DEF FinishRefund, MoneyInv, MoneyFollowsCapture, Paid, rows, At, Rest
<1>27. ASSUME NEW r \in Refunders, AbandonRefund(r) PROVE MoneyInv'
  BY <1>27 DEF AbandonRefund, MoneyInv, MoneyFollowsCapture, Paid, rows, At, Rest
<1>28. ASSUME UNCHANGED vars PROVE MoneyInv'
  BY <1>28 DEF vars, MoneyInv, MoneyFollowsCapture, Paid, rows, At, Rest, rows
<1>29. QED
  BY <1>1, <1>2, <1>3, <1>4, <1>5, <1>6, <1>7, <1>8, <1>9, <1>10, <1>11, <1>12, <1>13, <1>14, <1>15, <1>16, <1>17, <1>18, <1>19, <1>20, <1>21, <1>22, <1>23, <1>24, <1>25, <1>26, <1>27, <1>28 DEF Next

(***************************************************************************)
(* Theorem: whatever the order of webhooks, polls and captures, the ledger *)
(* is credited, the link marked PAID and the tenant told SUCCEEDED only    *)
(* for money the provider has captured.                                    *)
(***************************************************************************)
THEOREM MoneyOnlyAfterCapture == Spec => []MoneyFollowsCapture
<1>1. Spec => []MoneyInv
  BY InitMoneyInv, StepMoneyInv, IntentTypeCorrect, PTL DEF Spec
<1>2. MoneyInv => MoneyFollowsCapture
  BY DEF MoneyInv
<1>3. QED
  BY <1>1, <1>2, PTL
-----------------------------------------------------------------------------
\* The refund requests that own the active Refund row.
Active(r) == refunder[r].pc \in {"created", "refunded", "refused", "unwound"}

(***************************************************************************)
(* At most one request owns the row, which is PENDING while it does, and   *)
(* the request knows what the provider did.                                *)
(***************************************************************************)
RefundInv ==
    /\ RefundRowMatchesProvider
    /\ \A r, s \in Refunders : Active(r) /\ Active(s) => r = s
    /\ \A r \in Refunders :
          /\ Active(r) => refund = "PENDING"
          /\ refunder[r].pc \in {"refunded", "unwound"} => charge = "refunded"
          /\ refunder[r].pc \in {"created", "refused"} => charge # "refunded"

LEMMA InitRefundInv == Init => RefundInv
BY DEF Init, RefundInv, RefundRowMatchesProvider, Active, Rest

LEMMA StepRefundInv == TypeOK /\ RefundInv /\ [Next]_vars => RefundInv'
<1> SUFFICES ASSUME TypeOK, RefundInv, [Next]_vars PROVE RefundInv'
  OBVIOUS
<1> USE DEF TypeOK, Progress
<1>1. ASSUME OpenCheckout PROVE RefundInv'
  BY <1>1 DEF OpenCheckout, RefundInv, RefundRowMatchesProvider, Active, rows, At, Rest
<1>2. ASSUME CustomerPays PROVE RefundInv'
  BY <1>2 DEF CustomerPays, RefundInv, RefundRowMatchesProvider, Active, rows, At, Rest, ChargeBecomes, Payable
<1>3. ASSUME CardDeclined PROVE RefundInv'
  BY <1>3 DEF CardDeclined, RefundInv, RefundRowMatchesProvider, Active, rows, At, Rest, ChargeBecomes
<1>4. ASSUME NEW e \in Events, ReadStatus(e) PROVE RefundInv'
  BY <1>4 DEF ReadStatus, RefundInv, RefundRowMatchesProvider, Active, rows, At, Rest
<1>5. ASSUME NEW e \in Events, NEW acknowledged \in BOOLEAN, UpdateStatus(e, acknowledged) PROVE RefundInv'
  BY <1>5 DEF UpdateStatus, RefundInv, RefundRowMatchesProvider, Active, rows, At, Rest
<1>6. ASSUME NEW e \in Events, DropEvent(e) PROVE RefundInv'
  BY <1>6 DEF DropEvent, RefundInv, RefundRowMatchesProvider, Active, rows, At, Rest
<1>7. ASSUME NEW e \in Events, SettleEvent(e) PROVE RefundInv'
  BY <1>7 DEF SettleEvent, RefundInv, RefundRowMatchesProvider, Active, rows, At, Rest
<1>8. ASSUME NEW e \in Events, StoreEvent(e) PROVE RefundInv'
  BY <1>8 DEF StoreEvent, RefundInv, RefundRowMatchesProvider, Active, rows, At, Rest
<1>9. ASSUME NEW late \in BOOLEAN, PollFetch(late) PROVE RefundInv'
  BY <1>9 DEF PollFetch, RefundInv, RefundRowMatchesProvider, Active, rows, At, Rest
<1>10. ASSUME PollTimeout PROVE RefundInv'
  BY <1>10 DEF PollTimeout, RefundInv, RefundRowMatchesProvider, Active, rows, At, Rest
<1>11. ASSUME NEW outcome \in {"answered", "no config", "outage"}, PollAsk(outcome) PROVE RefundInv'
  BY <1>11 DEF PollAsk, RefundInv, RefundRowMatchesProvider, Active, rows, At, Rest
<1>12. ASSUME PollWrite PROVE RefundInv'
  BY <1>12 DEF PollWrite, RefundInv, RefundRowMatchesProvider, Active, rows, At, Rest
<1>13. ASSUME NEW q \in Queries, QueryFetch(q) PROVE RefundInv'
  BY <1>13 DEF QueryFetch, RefundInv, RefundRowMatchesProvider, Active, rows, At, Rest
<1>14. ASSUME NEW q \in Queries, QueryAsk(q) PROVE RefundInv'
  BY <1>14 DEF QueryAsk, RefundInv, RefundRowMatchesProvider, Active, rows, At, Rest
<1>15. ASSUME NEW q \in Queries, QueryWrite(q) PROVE RefundInv'
  BY <1>15 DEF QueryWrite, RefundInv, RefundRowMatchesProvider, Active, rows, At, Rest
<1>16. ASSUME NEW m \in Merchants, NEW op \in {"capture", "void"}, Lock(m, op) PROVE RefundInv'
  BY <1>16 DEF Lock, RefundInv, RefundRowMatchesProvider, Active, rows, At, Rest
<1>17. ASSUME NEW m \in Merchants, ProviderAccepts(m) PROVE RefundInv'
  BY <1>17 DEF ProviderAccepts, CaptureAccepted, VoidAccepted, RefundInv, RefundRowMatchesProvider, Active, rows, At, Rest, ChargeBecomes
<1>18. ASSUME NEW m \in Merchants, ProviderRejects(m) PROVE RefundInv'
  BY <1>18 DEF ProviderRejects, RefundInv, RefundRowMatchesProvider, Active, rows, At, Rest
<1>19. ASSUME NEW m \in Merchants, FinishAction(m) PROVE RefundInv'
  BY <1>19 DEF FinishAction, RefundInv, RefundRowMatchesProvider, Active, rows, At, Rest
<1>20. ASSUME NEW m \in Merchants, SettleAction(m) PROVE RefundInv'
  BY <1>20 DEF SettleAction, RefundInv, RefundRowMatchesProvider, Active, rows, At, Rest
<1>21. ASSUME NEW m \in Merchants, AbandonAction(m) PROVE RefundInv'
  BY <1>21 DEF AbandonAction, RefundInv, RefundRowMatchesProvider, Active, rows, At, Rest
<1>22. ASSUME NEW r \in Refunders, CheckRefund(r) PROVE RefundInv'
  BY <1>22 DEF CheckRefund, RefundInv, RefundRowMatchesProvider, Active, rows, At, Rest
<1>23. ASSUME NEW r \in Refunders, CreateRefund(r) PROVE RefundInv'
  <2>1. CASE refund \in {"PENDING", "SUCCEEDED"}
    <3>1. UNCHANGED <<charge, refund>> /\ refunder'[r].pc = "rest"
      BY <1>23, <2>1 DEF CreateRefund, Rest
    <3>2. \A s \in Refunders \ {r} : refunder'[s] = refunder[s]
      BY <1>23, <2>1 DEF CreateRefund
    <3>3. QED
      BY <3>1, <3>2 DEF RefundInv, RefundRowMatchesProvider, Active
  <2>2. CASE refund \notin {"PENDING", "SUCCEEDED"}
    <3>1. /\ refund' = "PENDING" /\ charge' = charge /\ charge # "refunded"
          /\ refunder'[r].pc = "created"
      BY <1>23, <2>2 DEF CreateRefund, RefundInv, RefundRowMatchesProvider
    <3>2. \A s \in Refunders \ {r} : refunder'[s] = refunder[s] /\ ~Active(s)
      BY <1>23, <2>2 DEF CreateRefund, RefundInv
    <3>3. QED
      BY <3>1, <3>2 DEF RefundInv, RefundRowMatchesProvider, Active
  <2>3. QED
    BY <2>1, <2>2
<1>24. ASSUME NEW r \in Refunders, ProviderRefunds(r) PROVE RefundInv'
  <2>1. /\ Active(r) /\ refund = "PENDING" /\ refund' = refund
        /\ charge # "refunded"
    BY <1>24 DEF ProviderRefunds, RefundInv, Active, rows
  <2>2. \/ charge' = "refunded" /\ refunder'[r].pc = "refunded"
        \/ charge' = charge /\ refunder'[r].pc = "refused"
    BY <1>24 DEF ProviderRefunds, ChargeBecomes
  <2>3. \A s \in Refunders \ {r} : refunder'[s] = refunder[s] /\ ~Active(s)
    BY <1>24, <2>1 DEF ProviderRefunds, RefundInv
  <2>4. QED
    BY <2>1, <2>2, <2>3 DEF RefundInv, RefundRowMatchesProvider, Active
<1>25. ASSUME NEW r \in Refunders, SettleRefund(r) PROVE RefundInv'
  <2>1. Active(r) /\ charge = "refunded" /\ UNCHANGED <<charge, refund>>
    BY <1>25 DEF SettleRefund, RefundInv, Active
  <2>2. refunder'[r].pc \in {"unwound", "rest"}
    BY <1>25 DEF SettleRefund, Rest
  <2>3. \A s \in Refunders \ {r} : refunder'[s] = refunder[s] /\ ~Active(s)
    BY <1>25, <2>1 DEF SettleRefund, RefundInv
  <2>4. QED
    BY <2>1, <2>2, <2>3 DEF RefundInv, RefundRowMatchesProvider, Active
<1>26. ASSUME NEW r \in Refunders, FinishRefund(r) PROVE RefundInv'
  BY <1>26 DEF FinishRefund, RefundInv, RefundRowMatchesProvider, Active, rows, At, Rest
<1>27. ASSUME NEW r \in Refunders, AbandonRefund(r) PROVE RefundInv'
  BY <1>27 DEF AbandonRefund, RefundInv, RefundRowMatchesProvider, Active, rows, At, Rest
<1>28. ASSUME UNCHANGED vars PROVE RefundInv'
  BY <1>28 DEF vars, RefundInv, RefundRowMatchesProvider, Active, rows, At, Rest, rows
<1>29. QED
  BY <1>1, <1>2, <1>3, <1>4, <1>5, <1>6, <1>7, <1>8, <1>9, <1>10, <1>11, <1>12, <1>13, <1>14, <1>15, <1>16, <1>17, <1>18, <1>19, <1>20, <1>21, <1>22, <1>23, <1>24, <1>25, <1>26, <1>27, <1>28 DEF Next

(***************************************************************************)
(* Theorem: however many refund requests race, the Refund row agrees with  *)
(* what the provider did.                                                  *)
(***************************************************************************)
THEOREM RefundRowIsTrue == Spec => []RefundRowMatchesProvider
<1>1. Spec => []RefundInv
  BY InitRefundInv, StepRefundInv, IntentTypeCorrect, PTL DEF Spec
<1>2. RefundInv => RefundRowMatchesProvider
  BY DEF RefundInv
<1>3. QED
  BY <1>1, <1>2, PTL

-----------------------------------------------------------------------------
(***************************************************************************)
(* The money of a pre-authorization has not moved, nor has the hold ended. *)
(***************************************************************************)
Held == charge \in {"none", "open", "authorized"}

(***************************************************************************)
(* What keeps a hold of VPS open: the poller sleeps on a pre-auth, and     *)
(* until the charge leaves the hold there is no event, no answer of a      *)
(* query and no request that could write a terminal status.                *)
(***************************************************************************)
HoldInv ==
    /\ poller.pc \notin {"late", "ask", "write"}
    /\ Held =>
          /\ status \notin TERMINAL
          /\ \A e \in Events : EventStatus[e] \in TERMINAL => job[e].pc = "rest"
          /\ \A q \in Queries : query[q].pc = "write" => query[q].seen \notin TERMINAL
          /\ \A m \in Merchants : merchant[m].pc \notin {"captured", "voided", "settle"}
          /\ \A r \in Refunders : refunder[r].pc = "rest"

LEMMA InitHoldInv == Init => HoldInv
BY DEF Init, HoldInv, Held, TERMINAL, Rest

\* Every handler keeps the hold open, on VPS and for a pre-auth.
LEMMA StepHoldInv ==
    ASSUME Provider = "VPS", Preauth
    PROVE  TypeOK /\ HoldInv /\ [Next]_vars => HoldInv'
<1> SUFFICES ASSUME TypeOK, HoldInv, [Next]_vars PROVE HoldInv'
  OBVIOUS
<1> USE DEF HoldInv, Held, TERMINAL, At, Rest, rows
<1>1. ASSUME OpenCheckout PROVE HoldInv'
  BY <1>1 DEF OpenCheckout, TypeOK, Progress
<1>2. ASSUME CustomerPays PROVE HoldInv'
  BY <1>2 DEF ChargeBecomes, Payable, HoldsFunds, CustomerPays, TypeOK, Progress
<1>3. ASSUME CardDeclined PROVE HoldInv'
  BY <1>3 DEF ChargeBecomes, CardDeclined, TypeOK, Progress
<1>4. ASSUME NEW e \in Events, ReadStatus(e) PROVE HoldInv'
  BY <1>4 DEF ReadStatus, TypeOK, Progress
<1>5. ASSUME NEW e \in Events, NEW acknowledged \in BOOLEAN, UpdateStatus(e, acknowledged) PROVE HoldInv'
  BY <1>5 DEF UpdateStatus, TypeOK, Progress
<1>6. ASSUME NEW e \in Events, DropEvent(e) PROVE HoldInv'
  BY <1>6 DEF DropEvent, TypeOK, Progress
<1>7. ASSUME NEW e \in Events, SettleEvent(e) PROVE HoldInv'
  BY <1>7 DEF SettleEvent, TypeOK, Progress
<1>8. ASSUME NEW e \in Events, StoreEvent(e) PROVE HoldInv'
  BY <1>8 DEF StoreEvent, TypeOK, Progress
<1>9. ASSUME NEW late \in BOOLEAN, PollFetch(late) PROVE HoldInv'
  BY <1>9 DEF isPreauth, PollFetch, TypeOK, Progress
<1>10. ASSUME PollTimeout PROVE HoldInv'
  BY <1>10 DEF PollTimeout, TypeOK, Progress
<1>11. ASSUME NEW outcome \in {"answered", "no config", "outage"}, PollAsk(outcome) PROVE HoldInv'
  BY <1>11 DEF PollAsk, TypeOK, Progress
<1>12. ASSUME PollWrite PROVE HoldInv'
  BY <1>12 DEF PollWrite, TypeOK, Progress
<1>13. ASSUME NEW q \in Queries, QueryFetch(q) PROVE HoldInv'
  BY <1>13 DEF QueryFetch, TypeOK, Progress
<1>14. ASSUME NEW q \in Queries, QueryAsk(q) PROVE HoldInv'
  BY <1>14 DEF Reported, VpsStatus, Charges, QueryAsk, TypeOK, Progress
<1>15. ASSUME NEW q \in Queries, QueryWrite(q) PROVE HoldInv'
  BY <1>15 DEF QueryWrite, TypeOK, Progress
<1>16. ASSUME NEW m \in Merchants, NEW op \in {"capture", "void"}, Lock(m, op) PROVE HoldInv'
  BY <1>16 DEF Lock, TypeOK, Progress
<1>17. ASSUME NEW m \in Merchants, ProviderAccepts(m) PROVE HoldInv'
  BY <1>17 DEF ChargeBecomes, CaptureAccepted, VoidAccepted, ProviderAccepts, TypeOK, Progress
<1>18. ASSUME NEW m \in Merchants, ProviderRejects(m) PROVE HoldInv'
  BY <1>18 DEF ProviderRejects, TypeOK, Progress
<1>19. ASSUME NEW m \in Merchants, FinishAction(m) PROVE HoldInv'
  BY <1>19 DEF FinishAction, TypeOK, Progress
<1>20. ASSUME NEW m \in Merchants, SettleAction(m) PROVE HoldInv'
  BY <1>20 DEF SettleAction, TypeOK, Progress
<1>21. ASSUME NEW m \in Merchants, AbandonAction(m) PROVE HoldInv'
  BY <1>21 DEF AbandonAction, TypeOK, Progress
<1>22. ASSUME NEW r \in Refunders, CheckRefund(r) PROVE HoldInv'
  BY <1>22 DEF CheckRefund, TypeOK, Progress
<1>23. ASSUME NEW r \in Refunders, CreateRefund(r) PROVE HoldInv'
  BY <1>23 DEF CreateRefund, TypeOK, Progress
<1>24. ASSUME NEW r \in Refunders, ProviderRefunds(r) PROVE HoldInv'
  BY <1>24 DEF ChargeBecomes, ProviderRefunds, TypeOK, Progress
<1>25. ASSUME NEW r \in Refunders, SettleRefund(r) PROVE HoldInv'
  BY <1>25 DEF SettleRefund, TypeOK, Progress
<1>26. ASSUME NEW r \in Refunders, FinishRefund(r) PROVE HoldInv'
  BY <1>26 DEF FinishRefund, TypeOK, Progress
<1>27. ASSUME NEW r \in Refunders, AbandonRefund(r) PROVE HoldInv'
  BY <1>27 DEF AbandonRefund, TypeOK, Progress
<1>28. ASSUME UNCHANGED vars PROVE HoldInv'
  BY <1>28 DEF vars, TypeOK, Progress
<1>29. QED
  BY <1>1, <1>2, <1>3, <1>4, <1>5, <1>6, <1>7, <1>8, <1>9, <1>10, <1>11, <1>12, <1>13, <1>14, <1>15, <1>16, <1>17, <1>18, <1>19, <1>20, <1>21, <1>22, <1>23, <1>24, <1>25, <1>26, <1>27, <1>28 DEF Next

(***************************************************************************)
(* Theorem: no webhook, poll, query or request ends the intent of a VPS    *)
(* pre-authorization while the provider holds the funds, for every set of  *)
(* events and any number of requests.  A hold that a review put on a       *)
(* payment, and a Stripe hold after a declined card, have no such promise: *)
(* the poller and the late event of the decline end them.                  *)
(***************************************************************************)
THEOREM PreauthStaysOpen ==
    ASSUME Provider = "VPS", Preauth PROVE Spec => []HoldNotTerminal
<1>1. HoldInv => HoldNotTerminal
  BY DEF HoldInv, Held, HoldNotTerminal
<1>2. QED
  BY <1>1, InitHoldInv, StepHoldInv, IntentTypeCorrect, PTL DEF Spec

-----------------------------------------------------------------------------
(***************************************************************************)
(* Installments.  A customer's agreement is charged by a chain that holds  *)
(* one link at a time: the activation sends the event of installment 2,    *)
(* that event is one run, and only the success of a run sends the next     *)
(* event.  So the numbers charged are always 2 up to the number of the     *)
(* link, and paidCount is one less than that number.                       *)
(***************************************************************************)

RunSteps == {"idle", "validate", "next", "attempt", "charge", "asleep", "success", "exhausted"}

Kinds == {"charge", "sim"}

\* The types of the state that the chain uses.
ChainTypeOK ==
    /\ agreement \in [status : InstallmentStatus, paid : Nat, sim : BOOLEAN]
    /\ charged \subseteq Kinds \X Nat \X Nat
    /\ run \in [Runs -> [kind : Kinds, num : Nat, pc : RunSteps, n : Nat]]
    /\ queue \subseteq [kind : Kinds, num : Nat]
    /\ webhook \in {"rest", "read", "send", "done"}

\* The installments the provider has charged.
ChargedNumbers == {id[2] : id \in charged}

Charging(r) == run[r].pc # "idle"

\* An agreement that is not there yet, or not yet active, has been charged nothing.
BeforeChain ==
    /\ agreement.sim => agreement.status # "NONE"
    /\ ~agreement.sim =>
        /\ awaiter = "rest"
        /\ request \in {"rest", "cancel", "done"}
        /\ agreement.status # "DELETED"
        /\ agreement.status = "NONE" => webhook = "rest"
        /\ webhook # "done" =>
              charged = {} /\ queue = {} /\ \A r \in Runs : ~Charging(r)
        /\ webhook = "send" => agreement.paid = 1

\* The chain has at most one link: one event, or one run.
OneLink ==
    ~agreement.sim =>
        /\ \A e, f \in queue : e = f
        /\ \A r, s \in Runs : Charging(r) /\ Charging(s) => r = s
        /\ \A r \in Runs : Charging(r) => queue = {}

\* Installment num is the next to be charged, and all before it have been.
UpTo(num) ==
    /\ num \in 2 .. Total
    /\ agreement.paid = num - 1
    /\ ChargedNumbers = 2 .. (num - 1)

\* Installment num has been charged and is not yet counted.
Through(num) ==
    /\ num \in 2 .. Total
    /\ agreement.paid = num - 1
    /\ ChargedNumbers = 2 .. num

\* What the link says about the charges made so far.
LinkInv ==
    ~agreement.sim =>
        /\ \A e \in queue : e.kind = "charge" /\ UpTo(e.num)
        /\ \A r \in Runs : Charging(r) =>
              /\ run[r].kind = "charge"
              /\ run[r].pc # "next"
              /\ IF run[r].pc = "success" THEN Through(run[r].num) ELSE UpTo(run[r].num)

ChainInv == ChainTypeOK /\ BeforeChain /\ OneLink /\ LinkInv /\ ChargedAsPlanned

LEMMA InitChainInv == InstallmentsInit => ChainInv
<1> SUFFICES ASSUME InstallmentsInit PROVE ChainInv
  OBVIOUS
<1> USE DEF InstallmentsInit
<1>1. ChainTypeOK
  BY DEF ChainTypeOK, Idle, Kinds, RunSteps, InstallmentStatus
<1>2. BeforeChain /\ OneLink /\ LinkInv
  BY DEF BeforeChain, OneLink, LinkInv, Charging, Idle
<1>3. ChargedAsPlanned
  BY DEF ChargedAsPlanned
<1>4. QED
  BY <1>1, <1>2, <1>3 DEF ChainInv

\* Where a failed attempt leads is a step of a run.
LEMMA AfterFailureType == \A n \in Nat : AfterFailure(n) \in {"asleep", "exhausted"}
BY DEF AfterFailure

\* A run that ends, or goes on, is still a run.
LEMMA RunType ==
    ASSUME ChainTypeOK, NEW r \in Runs
    PROVE  /\ Ends(r) => run' \in [Runs -> [kind : Kinds, num : Nat, pc : RunSteps, n : Nat]]
           /\ \A pc \in RunSteps : Goes(r, pc) =>
                 run' \in [Runs -> [kind : Kinds, num : Nat, pc : RunSteps, n : Nat]]
BY DEF ChainTypeOK, Ends, Goes, Idle, Kinds, RunSteps

LEMMA StepChainType ==
    ASSUME ChainTypeOK, [InstallmentsNext]_installmentsVars PROVE ChainTypeOK'
<1>1. CASE UNCHANGED <<agreement, charged, run, queue, webhook>>
  BY <1>1 DEF ChainTypeOK
<1>2. CASE Checkout \/ Prepare
  <2>1. agreement' \in [status : InstallmentStatus, paid : Nat, sim : BOOLEAN]
    <3>1. PICK sim \in BOOLEAN :
             agreement' = [status |-> "PENDING_CHECKOUT", paid |-> 0, sim |-> sim]
      BY <1>2 DEF Checkout, Prepare
    <3>2. QED
      BY <3>1 DEF InstallmentStatus
  <2>2. UNCHANGED <<charged, run, queue, webhook>>
    BY <1>2 DEF Checkout, Prepare
  <2>3. QED
    BY <2>1, <2>2 DEF ChainTypeOK
<1>3. CASE WebhookRead \/ WebhookActivate \/ WebhookCrash \/ AwaitActivate
  <2>1. agreement' \in [status : InstallmentStatus, paid : Nat, sim : BOOLEAN]
    <3>1. \/ agreement' = agreement
          \/ agreement' = [agreement EXCEPT !.status = "ACTIVE", !.paid = 1]
      BY <1>3 DEF WebhookRead, WebhookActivate, WebhookCrash, AwaitActivate, Activates
    <3>2. "ACTIVE" \in InstallmentStatus /\ 1 \in Nat
      BY DEF InstallmentStatus
    <3>3. agreement \in [status : InstallmentStatus, paid : Nat, sim : BOOLEAN]
      BY DEF ChainTypeOK
    <3>4. CASE agreement' = [agreement EXCEPT !.status = "ACTIVE", !.paid = 1]
      BY <3>2, <3>3, <3>4
    <3>5. QED
      BY <3>1, <3>3, <3>4
  <2>2. UNCHANGED <<charged, run, queue>>
    BY <1>3 DEF WebhookRead, WebhookActivate, WebhookCrash, AwaitActivate
  <2>3. webhook' \in {"rest", "read", "send", "done"}
    BY <1>3 DEF WebhookRead, WebhookActivate, WebhookCrash, AwaitActivate, ChainTypeOK
  <2>4. QED
    BY <2>1, <2>2, <2>3 DEF ChainTypeOK
<1>4. CASE WebhookSend
  BY <1>4 DEF WebhookSend, Updates, ChainTypeOK, InstallmentStatus, Kinds, Terminal
<1>5. ASSUME NEW r \in Runs, NEW event \in queue, StartRun(r, event) PROVE ChainTypeOK'
  BY <1>5 DEF StartRun, actors, ChainTypeOK, RunSteps
<1>6. ASSUME NEW r \in Runs, RunStep(r) PROVE ChainTypeOK'
  <2> USE InstallmentsAssumption
  <2>1. CASE Validate(r)
    BY <2>1, RunType DEF Validate, actors, ChainTypeOK, RunSteps
  <2>2. CASE SimNext(r)
    BY <2>2, RunType DEF SimNext, Updates, actors, ChainTypeOK, RunSteps, InstallmentStatus, Terminal
  <2>3. CASE AttemptRead(r)
    <3>1. run[r].n \in Nat
      BY DEF ChainTypeOK
    <3>2. run' \in [Runs -> [kind : Kinds, num : Nat, pc : RunSteps, n : Nat]]
      BY <2>3, <3>1, RunType, AfterFailureType DEF AttemptRead, RunSteps
    <3>3. QED
      BY <2>3, <3>2 DEF AttemptRead, actors, ChainTypeOK
  <2>4. ASSUME NEW outcome, AttemptCharge(r, outcome) PROVE ChainTypeOK'
    <3>1. run[r] \in [kind : Kinds, num : Nat, pc : RunSteps, n : Nat]
      BY DEF ChainTypeOK
    <3>2. run' \in [Runs -> [kind : Kinds, num : Nat, pc : RunSteps, n : Nat]]
      <4>1. AfterFailure(run[r].n) \in RunSteps /\ "success" \in RunSteps
        BY <3>1, AfterFailureType DEF RunSteps
      <4>2. Ends(r) \/ Goes(r, "success") \/ Goes(r, AfterFailure(run[r].n))
        BY <2>4 DEF AttemptCharge
      <4>3. QED
        BY <4>1, <4>2, RunType
    <3>3. charged' \subseteq Kinds \X Nat \X Nat
      BY <2>4, <3>1 DEF AttemptCharge, ChainTypeOK
    <3>4. UNCHANGED <<agreement, queue, webhook>>
      BY <2>4 DEF AttemptCharge, actors
    <3>5. QED
      BY <3>2, <3>3, <3>4 DEF ChainTypeOK
  <2>5. CASE CheckBeforeRetry(r)
    BY <2>5, RunType DEF CheckBeforeRetry, actors, ChainTypeOK, RunSteps
  <2>6. CASE OnInstallmentSuccess(r)
    <3>1. run' \in [Runs -> [kind : Kinds, num : Nat, pc : RunSteps, n : Nat]]
      BY <2>6, RunType DEF OnInstallmentSuccess
    <3>2. agreement' \in [status : InstallmentStatus, paid : Nat, sim : BOOLEAN]
      <4>1. agreement.paid + 1 \in Nat /\ "COMPLETED" \in InstallmentStatus
        BY DEF ChainTypeOK, InstallmentStatus, Terminal
      <4>2. \/ agreement' = agreement
            \/ agreement' = [agreement EXCEPT !.paid = agreement.paid + 1, !.status = "COMPLETED"]
            \/ agreement' = [agreement EXCEPT !.paid = agreement.paid + 1]
        BY <2>6 DEF OnInstallmentSuccess
      <4>3. QED
        BY <4>1, <4>2 DEF ChainTypeOK
    <3>3. queue' \subseteq [kind : Kinds, num : Nat]
      BY <2>6 DEF OnInstallmentSuccess, ChainTypeOK, Kinds
    <3>4. QED
      BY <2>6, <3>1, <3>2, <3>3 DEF OnInstallmentSuccess, actors, ChainTypeOK
  <2>7. CASE AdvanceSimAgreement(r)
    <3>1. run' \in [Runs -> [kind : Kinds, num : Nat, pc : RunSteps, n : Nat]]
      BY <2>7, RunType DEF AdvanceSimAgreement, ChainTypeOK, RunSteps
    <3>2. agreement' \in [status : InstallmentStatus, paid : Nat, sim : BOOLEAN]
      BY <2>7 DEF AdvanceSimAgreement, ChainTypeOK, InstallmentStatus, Terminal
    <3>3. QED
      BY <2>7, <3>1, <3>2 DEF AdvanceSimAgreement, actors, ChainTypeOK
  <2>8. CASE MarkDefaulted(r)
    BY <2>8, RunType DEF MarkDefaulted, Updates, actors, ChainTypeOK, InstallmentStatus, Terminal
  <2>9. QED
    BY <1>6, <2>1, <2>2, <2>3, <2>4, <2>5, <2>6, <2>7, <2>8 DEF RunStep
<1>7. CASE Cancel \/ Cleanup
  BY <1>7 DEF Cancel, Cleanup, Updates, ChainTypeOK, InstallmentStatus, Terminal
<1>8. CASE Fire
  BY <1>8 DEF Fire, ChainTypeOK, Kinds
<1>9. CASE \/ CreatePlan \/ UpdatePlan \/ DeletePlanRead \/ DeletePlan
           \/ AwaitRead \/ AwaitPending
           \/ \E r \in {"cancel", "fire", "cleanup"} : Request(r)
  BY <1>9, <1>1 DEF CreatePlan, UpdatePlan, DeletePlanRead, DeletePlan, AwaitRead, AwaitPending, Request
<1>10. QED
  BY <1>1, <1>2, <1>3, <1>4, <1>5, <1>6, <1>7, <1>8, <1>9 DEF InstallmentsNext, installmentsVars

\* The charge of a run adds its number.
LEMMA ChargedNumbersGrow ==
    ASSUME NEW kind, NEW num, NEW n, charged' = charged \cup {<<kind, num, n>>}
    PROVE  ChargedNumbers' = ChargedNumbers \cup {num}
<1> DEFINE new == <<kind, num, n>>
<1>1. new[2] = num
  OBVIOUS
<1>2. ChargedNumbers' = {id[2] : id \in charged \cup {new}}
  BY DEF ChargedNumbers
<1> HIDE DEF new
<1>3. {id[2] : id \in charged \cup {new}} = {id[2] : id \in charged} \cup {new[2]}
  OBVIOUS
<1>4. QED
  BY <1>1, <1>2, <1>3 DEF ChargedNumbers

\* A simulated agreement stays one, and it exists.
LEMMA StepSimulated ==
    ASSUME ChainInv, [InstallmentsNext]_installmentsVars, agreement.sim
    PROVE  agreement'.sim /\ agreement'.status # "NONE"
<1>1. agreement.status # "NONE" /\ agreement \in [status : InstallmentStatus, paid : Nat, sim : BOOLEAN]
  BY DEF ChainInv, ChainTypeOK, BeforeChain
<1>2. \/ agreement' = agreement
      \/ Checkout \/ Prepare \/ WebhookActivate \/ WebhookSend \/ AwaitActivate \/ Cancel \/ Cleanup
      \/ \E r \in Runs : \/ SimNext(r) \/ OnInstallmentSuccess(r) \/ AdvanceSimAgreement(r)
                         \/ MarkDefaulted(r)
  BY DEF InstallmentsNext, installmentsVars, RunStep, CreatePlan, UpdatePlan, DeletePlanRead,
         DeletePlan, WebhookRead, WebhookCrash, AwaitRead, AwaitPending, StartRun, Validate,
         AttemptRead, AttemptCharge, CheckBeforeRetry, Request, Fire
<1>3. \/ agreement' = agreement
      \/ \E reached \in {"ACTIVE", "COMPLETED", "CANCELLED", "DELETED", "DEFAULTED"} :
            \/ agreement' = [agreement EXCEPT !.status = reached]
            \/ \E paid \in {1, agreement.paid + 1} :
                  agreement' = [agreement EXCEPT !.paid = paid, !.status = reached]
      \/ \E paid : agreement' = [agreement EXCEPT !.paid = paid]
      \/ \E r \in Runs : AdvanceSimAgreement(r)
  BY <1>1, <1>2 DEF Checkout, Prepare, WebhookActivate, WebhookSend, AwaitActivate, Activates, Cancel,
         Cleanup, SimNext, OnInstallmentSuccess, MarkDefaulted, Updates
<1>4. CASE \E r \in Runs : AdvanceSimAgreement(r)
  BY <1>1, <1>4 DEF AdvanceSimAgreement
<1>5. QED
  BY <1>1, <1>3, <1>4

\* The charges stay as planned when only the agreement's status moves.
LEMMA PlanKept ==
    ASSUME ChargedAsPlanned, ~agreement.sim, UNCHANGED charged,
           agreement'.status = "COMPLETED" =>
               agreement.status = "COMPLETED" \/ ChargedNumbers = 2 .. Total
    PROVE  ChargedAsPlanned'
BY DEF ChargedAsPlanned, ChargedNumbers

\* And when the number of the link is charged.
LEMMA PlanGrows ==
    ASSUME ChainInv, ~agreement.sim, UNCHANGED agreement,
           NEW num, UpTo(num), NEW kind, NEW n, charged' = charged \cup {<<kind, num, n>>}
    PROVE  ChargedAsPlanned' /\ Through(num)'
<1> DEFINE new == <<kind, num, n>>
<1>1. new[2] = num
  OBVIOUS
<1>2. charged' = charged \cup {new}
  OBVIOUS
<1> HIDE DEF new
<1> USE InstallmentsAssumption
<1>3. num \in 2 .. Total /\ ChargedNumbers = 2 .. (num - 1) /\ agreement.paid = num - 1
  BY DEF UpTo
<1>4. ChargedNumbers' = ChargedNumbers \cup {num}
  BY ChargedNumbersGrow
<1>5. ChargedNumbers' = 2 .. num
  BY <1>3, <1>4
<1>6. \A id \in charged : id[2] \in 2 .. (num - 1)
  BY <1>3 DEF ChargedNumbers
<1>7. \A id \in charged' : id[2] \in 2 .. Total
  BY <1>1, <1>2, <1>3, <1>6
<1>8. \A a, b \in charged' : a[2] = b[2] => a = b
  <2>1. \A a \in charged : a[2] # num
    BY <1>3, <1>6
  <2>2. \A a, b \in charged : a[2] = b[2] => a = b
    BY DEF ChainInv, ChargedAsPlanned
  <2>3. QED
    BY <1>1, <1>2, <2>1, <2>2
<1>9. agreement.status # "COMPLETED"
  <2>1. agreement.status = "COMPLETED" => ChargedNumbers = 2 .. Total
    BY DEF ChainInv, ChargedAsPlanned, ChargedNumbers
  <2>2. num \in 2 .. Total /\ num \notin 2 .. (num - 1)
    BY <1>3
  <2>3. QED
    BY <1>3, <2>1, <2>2
<1>10. ChargedAsPlanned'
  BY <1>7, <1>8, <1>9 DEF ChargedAsPlanned
<1>11. QED
  BY <1>3, <1>5, <1>10 DEF Through

\* A run that charges is the chain's only link, and it comes after the activation.
LEMMA TheLink ==
    ASSUME ChainInv, ~agreement.sim, NEW r \in Runs, Charging(r)
    PROVE  /\ queue = {}
           /\ \A s \in Runs : Charging(s) => s = r
           /\ webhook = "done"
           /\ agreement.status \notin {"NONE", "DELETED"}
           /\ Exists
           /\ run[r].kind = "charge"
           /\ run[r].pc # "next"
           /\ IF run[r].pc = "success" THEN Through(run[r].num) ELSE UpTo(run[r].num)
BY DEF ChainInv, BeforeChain, OneLink, LinkInv, Exists

\* A run's step hands the link on, or ends it.
LEMMA LinkMoves ==
    ASSUME ChainInv, ~agreement.sim, ~agreement'.sim,
           NEW r \in Runs, Charging(r), NEW x, run' = [run EXCEPT ![r] = x],
           UNCHANGED <<queue, webhook, awaiter, request>>,
           agreement'.status \notin {"NONE", "DELETED"},
           x.pc # "idle" =>
               /\ x.kind = "charge"
               /\ x.pc # "next"
               /\ IF x.pc = "success" THEN Through(x.num)' ELSE UpTo(x.num)'
    PROVE  (BeforeChain /\ OneLink /\ LinkInv)'
<1>1. run \in [Runs -> [kind : Kinds, num : Nat, pc : RunSteps, n : Nat]]
  BY DEF ChainInv, ChainTypeOK
<1>2. run'[r] = x /\ \A s \in Runs : s # r => run'[s] = run[s]
  BY <1>1
<1>3. queue' = {} /\ \A s \in Runs : Charging(s)' => s = r
  BY <1>2, TheLink DEF Charging
<1>4. BeforeChain'
  BY TheLink DEF ChainInv, BeforeChain
<1>5. OneLink'
  BY <1>3 DEF OneLink
<1>6. LinkInv'
  BY <1>2, <1>3 DEF LinkInv, Charging
<1>7. QED
  BY <1>4, <1>5, <1>6

\* A step of a run keeps the chain.
LEMMA RunStepChain ==
    ASSUME ChainInv, ~agreement.sim, NEW r \in Runs, RunStep(r)
    PROVE  (BeforeChain /\ OneLink /\ LinkInv /\ ChargedAsPlanned)'
<1> USE InstallmentsAssumption
<1>1. Charging(r)
  BY DEF RunStep, Validate, SimNext, AttemptRead, AttemptCharge, CheckBeforeRetry,
         OnInstallmentSuccess, AdvanceSimAgreement, MarkDefaulted, Charging
<1>2. PICK x : x = run[r]
  OBVIOUS
<1>3. /\ x \in [kind : Kinds, num : Nat, pc : RunSteps, n : Nat]
      /\ agreement \in [status : InstallmentStatus, paid : Nat, sim : BOOLEAN]
      /\ run \in [Runs -> [kind : Kinds, num : Nat, pc : RunSteps, n : Nat]]
  BY <1>2 DEF ChainInv, ChainTypeOK
<1>4. /\ queue = {}
      /\ \A s \in Runs : Charging(s) => s = r
      /\ webhook = "done"
      /\ agreement.status \notin {"NONE", "DELETED"}
      /\ Exists
      /\ x.kind = "charge"
      /\ x.pc # "next"
      /\ IF x.pc = "success" THEN Through(x.num) ELSE UpTo(x.num)
  BY <1>1, <1>2, TheLink
<1>5. ChargedAsPlanned
  BY DEF ChainInv
\* Steps that neither charge nor count: the link stays before its charge, or ends.
<1>6. ASSUME x.pc # "success", UNCHANGED <<charged, queue, actors>>,
             ~agreement'.sim, agreement'.paid = agreement.paid,
             agreement'.status \notin {"NONE", "DELETED", "COMPLETED"} \/ agreement' = agreement,
             NEW y, run' = [run EXCEPT ![r] = y],
             \/ y.pc = "idle"
             \/ /\ y.pc \notin {"idle", "next", "success"}
                /\ y.kind = x.kind
                /\ y.num = x.num
      PROVE  (BeforeChain /\ OneLink /\ LinkInv /\ ChargedAsPlanned)'
  <2>1. UpTo(x.num)'
    BY <1>4, <1>6 DEF UpTo, ChargedNumbers
  <2>2. (BeforeChain /\ OneLink /\ LinkInv)'
    <3>1. UNCHANGED <<queue, webhook, awaiter, request>>
      BY <1>6 DEF actors
    <3>2. agreement'.status \notin {"NONE", "DELETED"}
      BY <1>4, <1>6
    <3>3. y.pc # "idle" =>
              /\ y.kind = "charge"
              /\ y.pc # "next"
              /\ IF y.pc = "success" THEN Through(y.num)' ELSE UpTo(y.num)'
      BY <1>4, <1>6, <2>1
    <3>4. QED
      BY <1>1, <1>6, <3>1, <3>2, <3>3, LinkMoves
  <2>3. ChargedAsPlanned'
    BY <1>5, <1>6, PlanKept
  <2>4. QED
    BY <2>2, <2>3
<1>7. Idle.pc = "idle"
  BY DEF Idle
<1>8. ASSUME Ends(r), x.pc # "success", UNCHANGED <<charged, queue, actors, agreement>>
      PROVE  (BeforeChain /\ OneLink /\ LinkInv /\ ChargedAsPlanned)'
  BY <1>6, <1>7, <1>8 DEF Ends
<1>9. ASSUME NEW pc, Goes(r, pc), pc \notin {"idle", "next", "success"}, x.pc # "success",
             UNCHANGED <<charged, queue, actors, agreement>>
      PROVE  (BeforeChain /\ OneLink /\ LinkInv /\ ChargedAsPlanned)'
  <2>1. run' = [run EXCEPT ![r] = [x EXCEPT !.pc = pc]]
    BY <1>2, <1>9 DEF Goes
  <2>2. [x EXCEPT !.pc = pc].kind = x.kind /\ [x EXCEPT !.pc = pc].num = x.num
            /\ [x EXCEPT !.pc = pc].pc = pc
    BY <1>3
  <2>3. PICK y : y = [x EXCEPT !.pc = pc]
    OBVIOUS
  <2>4. QED
    BY <1>6, <1>9, <2>1, <2>2, <2>3
<1>10. CASE Validate(r)
  BY <1>2, <1>4, <1>8, <1>9, <1>10 DEF Validate
<1>11. CASE SimNext(r)
  BY <1>2, <1>4, <1>11 DEF SimNext
<1>12. CASE AttemptRead(r)
  <2>1. AfterFailure(x.n) \notin {"idle", "next", "success"}
    BY <1>3, AfterFailureType
  <2>2. \E pc : pc \in {"charge", AfterFailure(x.n)} /\ Goes(r, pc)
    BY <1>2, <1>4, <1>12 DEF AttemptRead
  <2>3. x.pc # "success" /\ UNCHANGED <<charged, queue, actors, agreement>>
    BY <1>2, <1>12 DEF AttemptRead
  <2>4. QED
    BY <1>9, <2>1, <2>2, <2>3
<1>13. ASSUME NEW outcome, AttemptCharge(r, outcome)
       PROVE  (BeforeChain /\ OneLink /\ LinkInv /\ ChargedAsPlanned)'
  <2>1. x.pc = "charge" /\ UpTo(x.num) /\ UNCHANGED <<queue, actors, agreement>>
    BY <1>2, <1>4, <1>13 DEF AttemptCharge
  <2>2. CASE outcome \in {"CHARGED", "LOST_CHARGED"}
    <3>1. charged' = charged \cup {<<x.kind, x.num, x.n>>}
      BY <1>2, <1>13, <2>2 DEF AttemptCharge
    <3>2. ChargedAsPlanned' /\ Through(x.num)'
      BY <2>1, <3>1, PlanGrows
    <3>3. Goes(r, "success") \/ Ends(r)
      BY <1>4, <1>13, <2>2 DEF AttemptCharge
    <3>4. PICK y : /\ run' = [run EXCEPT ![r] = y]
                   /\ y.pc = "idle" \/ (y.pc = "success" /\ y.kind = x.kind /\ y.num = x.num)
      <4>1. CASE Ends(r)
        BY <1>7, <4>1 DEF Ends
      <4>2. CASE Goes(r, "success")
        <5>1. run' = [run EXCEPT ![r] = [x EXCEPT !.pc = "success"]]
          BY <1>2, <4>2 DEF Goes
        <5>2. [x EXCEPT !.pc = "success"].kind = x.kind /\ [x EXCEPT !.pc = "success"].num = x.num
                  /\ [x EXCEPT !.pc = "success"].pc = "success"
          BY <1>3
        <5>3. QED
          BY <5>1, <5>2
      <4>3. QED
        BY <3>3, <4>1, <4>2
    <3>5. UNCHANGED <<queue, webhook, awaiter, request>> /\ ~agreement'.sim
              /\ agreement'.status \notin {"NONE", "DELETED"}
      BY <1>4, <2>1 DEF actors
    <3>6. y.pc # "idle" =>
              /\ y.kind = "charge"
              /\ y.pc # "next"
              /\ IF y.pc = "success" THEN Through(y.num)' ELSE UpTo(y.num)'
      BY <1>4, <3>2, <3>4
    <3>7. (BeforeChain /\ OneLink /\ LinkInv)'
      BY <1>1, <3>4, <3>5, <3>6, LinkMoves
    <3>8. QED
      BY <3>2, <3>7
  <2>3. CASE outcome \notin {"CHARGED", "LOST_CHARGED"}
    <3>1. UNCHANGED charged /\ (Ends(r) \/ Goes(r, AfterFailure(x.n)))
      BY <1>2, <1>4, <1>13, <2>3 DEF AttemptCharge
    <3>2. AfterFailure(x.n) \notin {"idle", "next", "success"}
      BY <1>3, AfterFailureType
    <3>3. x.pc # "success" /\ UNCHANGED <<charged, queue, actors, agreement>>
      BY <2>1, <3>1
    <3>4. QED
      BY <1>8, <1>9, <3>1, <3>2, <3>3
  <2>4. QED
    BY <2>2, <2>3
<1>14. CASE CheckBeforeRetry(r)
  <2>1. x.pc = "asleep" /\ UNCHANGED <<charged, queue, actors, agreement>>
    BY <1>2, <1>14 DEF CheckBeforeRetry
  <2>2. CASE Ends(r)
    BY <1>8, <2>1, <2>2
  <2>3. CASE run' = [run EXCEPT ![r].pc = "attempt", ![r].n = @ + 1]
    <3>1. PICK y : y = [x EXCEPT !.pc = "attempt", !.n = x.n + 1]
      OBVIOUS
    <3>2. run' = [run EXCEPT ![r] = y]
      BY <1>2, <1>3, <2>3, <3>1
    <3>3. y.pc = "attempt" /\ y.kind = x.kind /\ y.num = x.num
      BY <1>3, <3>1
    <3>4. QED
      BY <1>6, <2>1, <3>2, <3>3
  <2>4. QED
    BY <1>14, <2>2, <2>3 DEF CheckBeforeRetry
<1>15. CASE OnInstallmentSuccess(r)
  <2>1. /\ x.pc = "success" /\ x.num \in 2 .. Total /\ agreement.paid = x.num - 1
        /\ ChargedNumbers = 2 .. x.num
    BY <1>2, <1>4, <1>15 DEF OnInstallmentSuccess, Through
  <2>2. UNCHANGED <<charged, webhook, awaiter, request>> /\ ChargedNumbers' = ChargedNumbers
    BY <1>15 DEF OnInstallmentSuccess, actors, ChargedNumbers
  <2>3. \A s \in Runs : ~Charging(s)'
    BY <1>3, <1>4, <1>7, <1>15 DEF OnInstallmentSuccess, Ends, Charging
  <2>4. CASE x.num = Total
    <3>1. agreement' = [agreement EXCEPT !.paid = x.num, !.status = "COMPLETED"] /\ queue' = {}
      <4>1. agreement.paid + 1 = x.num /\ x.num >= Total
        BY <1>3, <2>1, <2>4
      <4>2. agreement' = [agreement EXCEPT !.paid = agreement.paid + 1, !.status = "COMPLETED"]
                /\ UNCHANGED queue
        BY <1>4, <1>15, <4>1 DEF OnInstallmentSuccess
      <4>3. QED
        BY <1>4, <4>1, <4>2
    <3>2. ~agreement'.sim /\ agreement'.status = "COMPLETED"
      BY <1>3, <3>1
    <3>3. BeforeChain' /\ OneLink' /\ LinkInv'
      BY <1>4, <2>2, <2>3, <3>1, <3>2 DEF ChainInv, BeforeChain, OneLink, LinkInv
    <3>4. ChargedAsPlanned'
      BY <1>5, <2>1, <2>2, <2>4, PlanKept
    <3>5. QED
      BY <3>3, <3>4
  <2>5. CASE x.num # Total
    <3>1. PICK next : next = [kind |-> "charge", num |-> x.num + 1]
      OBVIOUS
    <3>2. agreement' = [agreement EXCEPT !.paid = x.num] /\ queue' = {next}
      BY <1>2, <1>3, <1>4, <1>15, <2>1, <2>5, <3>1 DEF OnInstallmentSuccess
    <3>3. agreement'.sim = agreement.sim /\ agreement'.status = agreement.status
              /\ agreement'.paid = x.num
      BY <1>3, <3>2
    <3>4. UpTo(next.num)' /\ next.kind = "charge"
      BY <2>1, <2>2, <2>5, <3>1, <3>3 DEF UpTo
    <3>5. BeforeChain'
      BY <1>4, <2>2, <3>3 DEF ChainInv, BeforeChain
    <3>6. OneLink' /\ LinkInv'
      BY <2>3, <3>2, <3>4 DEF OneLink, LinkInv
    <3>7. ChargedAsPlanned'
      BY <1>5, <2>2, <3>3, PlanKept
    <3>8. QED
      BY <3>5, <3>6, <3>7
  <2>6. QED
    BY <2>4, <2>5
<1>16. CASE AdvanceSimAgreement(r)
  BY <1>2, <1>4, <1>16 DEF AdvanceSimAgreement
<1>17. CASE MarkDefaulted(r)
  <2>1. agreement' = [agreement EXCEPT !.status = "DEFAULTED"] /\ run' = [run EXCEPT ![r] = Idle]
            /\ x.pc # "success" /\ UNCHANGED <<charged, queue, actors>>
    BY <1>2, <1>4, <1>17 DEF MarkDefaulted, Updates, Ends
  <2>2. ~agreement'.sim /\ agreement'.paid = agreement.paid
            /\ agreement'.status \notin {"NONE", "DELETED", "COMPLETED"}
    BY <1>3, <2>1
  <2>3. QED
    BY <1>6, <1>7, <2>1, <2>2
<1>18. QED
  BY <1>10, <1>11, <1>12, <1>13, <1>14, <1>15, <1>16, <1>17 DEF RunStep

\* Everything but the steps of the runs.
LEMMA StepChain ==
    ASSUME ChainInv, ~agreement.sim, ~agreement'.sim, [InstallmentsNext]_installmentsVars
    PROVE  (BeforeChain /\ OneLink /\ LinkInv /\ ChargedAsPlanned)'
<1> USE InstallmentsAssumption
<1>1. /\ agreement \in [status : InstallmentStatus, paid : Nat, sim : BOOLEAN]
      /\ run \in [Runs -> [kind : Kinds, num : Nat, pc : RunSteps, n : Nat]]
      /\ queue \subseteq [kind : Kinds, num : Nat]
  BY DEF ChainInv, ChainTypeOK
<1>2. BeforeChain /\ OneLink /\ LinkInv /\ ChargedAsPlanned
  BY DEF ChainInv
<1>3. UNCHANGED charged => ChargedNumbers' = ChargedNumbers
  BY DEF ChargedNumbers
\* The status alone moves.
<1>4. ASSUME UNCHANGED <<charged, run, queue, webhook, awaiter>>,
             agreement'.paid = agreement.paid,
             agreement' = agreement \/ agreement'.status = "CANCELLED",
             request' = request \/ request' \in {"cancel", "done"},
             agreement' # agreement => agreement.status # "NONE"
      PROVE  (BeforeChain /\ OneLink /\ LinkInv /\ ChargedAsPlanned)'
  <2>1. BeforeChain' /\ OneLink'
    BY <1>2, <1>4 DEF BeforeChain, OneLink, Charging
  <2>2. LinkInv'
    BY <1>2, <1>3, <1>4 DEF LinkInv, Charging, UpTo, Through
  <2>3. ChargedAsPlanned'
    BY <1>2, <1>4, PlanKept
  <2>4. QED
    BY <2>1, <2>2, <2>3
<1>5. CASE UNCHANGED installmentsVars \/ CreatePlan \/ UpdatePlan \/ DeletePlanRead \/ DeletePlan
  BY <1>4, <1>5 DEF installmentsVars, CreatePlan, UpdatePlan, DeletePlanRead, DeletePlan
<1>6. CASE \E r \in {"cancel", "fire", "cleanup"} : Request(r)
  <2>1. PICK r \in {"cancel", "fire", "cleanup"} : Request(r)
    BY <1>6
  <2>2. r = "cancel"
    BY <2>1 DEF Request, Permits
  <2>3. QED
    BY <1>4, <2>1, <2>2 DEF Request
<1>7. CASE Cancel
  BY <1>1, <1>4, <1>7 DEF Cancel, Updates, Exists
<1>8. CASE AwaitRead \/ AwaitActivate \/ AwaitPending \/ Fire \/ Cleanup
  BY <1>2, <1>8 DEF AwaitRead, AwaitActivate, AwaitPending, Fire, Cleanup, BeforeChain
<1>9. CASE Checkout
  <2>1. webhook = "rest" /\ charged = {} /\ queue = {} /\ \A r \in Runs : ~Charging(r)
    BY <1>2, <1>9 DEF Checkout, BeforeChain
  <2>2. agreement'.status = "PENDING_CHECKOUT"
            /\ UNCHANGED <<charged, run, queue, webhook, awaiter, request>>
    BY <1>9 DEF Checkout
  <2>3. \A r \in Runs : ~Charging(r)'
    BY <2>1, <2>2 DEF Charging
  <2>4. BeforeChain' /\ OneLink' /\ LinkInv'
    BY <1>2, <2>1, <2>2, <2>3 DEF BeforeChain, OneLink, LinkInv
  <2>5. ChargedAsPlanned'
    BY <1>2, <2>2, PlanKept
  <2>6. QED
    BY <2>4, <2>5
<1>10. CASE Prepare
  BY <1>10 DEF Prepare
<1>11. CASE WebhookRead \/ WebhookActivate \/ WebhookCrash
  <2>1. \/ agreement' = agreement
        \/ agreement' = [agreement EXCEPT !.status = "ACTIVE", !.paid = 1]
    BY <1>11 DEF WebhookRead, WebhookActivate, WebhookCrash, Activates
  <2>2. webhook # "done" /\ UNCHANGED <<charged, run, queue, awaiter, request>>
    BY <1>11 DEF WebhookRead, WebhookActivate, WebhookCrash
  <2>3. charged = {} /\ queue = {} /\ \A r \in Runs : ~Charging(r)
    BY <1>2, <2>2 DEF BeforeChain
  <2>4. agreement'.status \in {agreement.status, "ACTIVE"}
    BY <1>1, <2>1
  <2>5. agreement'.status # "NONE" /\ webhook' # "rest"
            /\ (webhook' = "send" => agreement'.paid = 1)
    BY <1>1, <1>2, <1>11 DEF WebhookRead, WebhookActivate, WebhookCrash, Activates, BeforeChain, Exists
  <2>6. \A r \in Runs : ~Charging(r)'
    BY <2>2, <2>3 DEF Charging
  <2>7. BeforeChain' /\ OneLink' /\ LinkInv'
    BY <1>2, <2>2, <2>3, <2>4, <2>5, <2>6 DEF BeforeChain, OneLink, LinkInv
  <2>8. ChargedAsPlanned'
    BY <1>2, <2>2, <2>4, PlanKept
  <2>9. QED
    BY <2>7, <2>8
<1>12. CASE WebhookSend
  <2>1. webhook = "send" /\ UNCHANGED <<charged, run, awaiter, request>> /\ webhook' = "done"
    BY <1>12 DEF WebhookSend
  <2>2. charged = {} /\ queue = {} /\ agreement.paid = 1 /\ \A r \in Runs : ~Charging(r)'
    BY <1>2, <2>1 DEF BeforeChain, Charging
  <2>3. ChargedNumbers = {}
    BY <2>2 DEF ChargedNumbers
  <2>4. agreement.status # "NONE"
    BY <1>2, <2>1 DEF BeforeChain
  <2>5. CASE Total > 1
    <3>1. PICK next : next = [kind |-> "charge", num |-> 2]
      OBVIOUS
    <3>2. agreement' = agreement /\ queue' = {next}
      BY <1>12, <2>2, <2>5, <3>1 DEF WebhookSend
    <3>3. UpTo(next.num)' /\ next.kind = "charge"
      BY <1>3, <2>1, <2>2, <2>3, <2>5, <3>1, <3>2 DEF UpTo
    <3>4. BeforeChain' /\ OneLink' /\ LinkInv'
      BY <1>2, <2>1, <2>2, <2>4, <3>2, <3>3 DEF BeforeChain, OneLink, LinkInv
    <3>5. ChargedAsPlanned'
      BY <1>2, <2>1, <3>2, PlanKept
    <3>6. QED
      BY <3>4, <3>5
  <2>6. CASE ~(Total > 1)
    <3>1. queue' = {} /\ ChargedNumbers = 2 .. Total
      BY <1>12, <2>2, <2>3, <2>6 DEF WebhookSend
    <3>2. agreement' = agreement \/ agreement' = [agreement EXCEPT !.status = "COMPLETED"]
      BY <1>12, <2>6 DEF WebhookSend, Updates
    <3>3. agreement'.status \in {agreement.status, "COMPLETED"}
      BY <1>1, <3>2
    <3>4. BeforeChain' /\ OneLink' /\ LinkInv'
      BY <1>2, <2>1, <2>2, <2>4, <3>1, <3>3 DEF BeforeChain, OneLink, LinkInv
    <3>5. ChargedAsPlanned'
      BY <1>2, <2>1, <3>1, PlanKept
    <3>6. QED
      BY <3>4, <3>5
  <2>7. QED
    BY <2>5, <2>6
<1>13. ASSUME NEW r \in Runs, NEW event \in queue, StartRun(r, event)
       PROVE  (BeforeChain /\ OneLink /\ LinkInv /\ ChargedAsPlanned)'
  <2>1. queue' = {} /\ UNCHANGED <<agreement, charged, webhook, awaiter, request>>
    BY <1>2, <1>13 DEF StartRun, actors, OneLink
  <2>2. event.kind = "charge" /\ UpTo(event.num) /\ webhook = "done"
    BY <1>2, <1>13 DEF LinkInv, BeforeChain
  <2>3. run'[r] = [kind |-> event.kind, num |-> event.num, pc |-> "validate", n |-> 1]
            /\ \A s \in Runs : s # r => run'[s] = run[s]
    BY <1>1, <1>13 DEF StartRun
  <2>4. \A s \in Runs : Charging(s)' => s = r
    BY <1>2, <1>13, <2>3 DEF Charging, OneLink
  <2>5. UpTo(event.num)'
    BY <1>3, <2>1, <2>2 DEF UpTo
  <2>6. BeforeChain' /\ OneLink'
    BY <1>2, <2>1, <2>2, <2>4 DEF BeforeChain, OneLink
  <2>7. LinkInv'
    BY <2>1, <2>2, <2>3, <2>4, <2>5 DEF LinkInv
  <2>8. ChargedAsPlanned'
    BY <1>2, <2>1, PlanKept
  <2>9. QED
    BY <2>6, <2>7, <2>8
<1>14. ASSUME NEW r \in Runs, RunStep(r)
       PROVE  (BeforeChain /\ OneLink /\ LinkInv /\ ChargedAsPlanned)'
  BY <1>14, RunStepChain
<1>15. QED
  BY <1>5, <1>6, <1>7, <1>8, <1>9, <1>10, <1>11, <1>12, <1>13, <1>14 DEF InstallmentsNext

LEMMA StepChainInv == ChainInv /\ [InstallmentsNext]_installmentsVars => ChainInv'
<1> SUFFICES ASSUME ChainInv, [InstallmentsNext]_installmentsVars PROVE ChainInv'
  OBVIOUS
<1>1. ChainTypeOK'
  BY StepChainType DEF ChainInv
<1>2. CASE agreement'.sim
  <2>1. agreement'.status # "NONE"
    <3>1. CASE agreement.sim
      BY <3>1, StepSimulated
    <3>2. CASE ~agreement.sim
      <4>1. agreement' # agreement
        BY <1>2, <3>2
      <4>2. agreement \in [status : InstallmentStatus, paid : Nat, sim : BOOLEAN]
        BY DEF ChainInv, ChainTypeOK
      <4>3. Prepare
        <5>1. \/ Checkout \/ Prepare \/ WebhookActivate \/ WebhookSend \/ AwaitActivate \/ Cancel
              \/ Cleanup
              \/ \E r \in Runs : \/ SimNext(r) \/ OnInstallmentSuccess(r)
                                 \/ AdvanceSimAgreement(r) \/ MarkDefaulted(r)
          BY <4>1 DEF InstallmentsNext, installmentsVars, RunStep, CreatePlan, UpdatePlan,
                      DeletePlanRead, DeletePlan, WebhookRead, WebhookCrash, AwaitRead, AwaitPending,
                      StartRun, Validate, AttemptRead, AttemptCharge, CheckBeforeRetry, Request, Fire
        <5>2. \/ Prepare
              \/ agreement' = [status |-> "PENDING_CHECKOUT", paid |-> 0, sim |-> FALSE]
              \/ \E reached : agreement' = [agreement EXCEPT !.status = reached]
              \/ \E reached, paid : agreement' = [agreement EXCEPT !.paid = paid, !.status = reached]
              \/ \E paid : agreement' = [agreement EXCEPT !.paid = paid]
              \/ \E reached, paid : agreement' = [agreement EXCEPT !.status = reached, !.paid = paid]
          <6>1. CASE \E r \in Runs : AdvanceSimAgreement(r)
            BY <4>1, <6>1 DEF AdvanceSimAgreement
          <6>2. CASE \E r \in Runs : OnInstallmentSuccess(r)
            BY <4>1, <6>2 DEF OnInstallmentSuccess
          <6>3. CASE \E r \in Runs : SimNext(r) \/ MarkDefaulted(r)
            BY <4>1, <6>3 DEF SimNext, MarkDefaulted, Updates
          <6>4. CASE WebhookActivate \/ AwaitActivate
            BY <4>1, <6>4 DEF WebhookActivate, AwaitActivate, Activates
          <6>5. CASE WebhookSend \/ Cancel \/ Cleanup
            BY <4>1, <6>5 DEF WebhookSend, Cancel, Cleanup, Updates
          <6>6. CASE Checkout
            BY <6>6 DEF Checkout
          <6>7. QED
            BY <5>1, <6>1, <6>2, <6>3, <6>4, <6>5, <6>6
        <5>3. ASSUME NEW reached, agreement' = [agreement EXCEPT !.status = reached]
              PROVE  FALSE
          BY <1>2, <3>2, <4>2, <5>3
        <5>4. ASSUME NEW reached, NEW paid,
                     agreement' = [agreement EXCEPT !.paid = paid, !.status = reached]
              PROVE  FALSE
          BY <1>2, <3>2, <4>2, <5>4
        <5>5. ASSUME NEW reached, NEW paid,
                     agreement' = [agreement EXCEPT !.status = reached, !.paid = paid]
              PROVE  FALSE
          BY <1>2, <3>2, <4>2, <5>5
        <5>6. ASSUME NEW paid, agreement' = [agreement EXCEPT !.paid = paid]
              PROVE  FALSE
          BY <1>2, <3>2, <4>2, <5>6
        <5>7. agreement' # [status |-> "PENDING_CHECKOUT", paid |-> 0, sim |-> FALSE]
          BY <1>2
        <5>8. QED
          BY <5>2, <5>3, <5>4, <5>5, <5>6, <5>7
      <4>4. QED
        BY <4>3 DEF Prepare
    <3>3. QED
      BY <3>1, <3>2
  <2>2. (BeforeChain /\ OneLink /\ LinkInv /\ ChargedAsPlanned)'
    BY <1>2, <2>1 DEF BeforeChain, OneLink, LinkInv, ChargedAsPlanned
  <2>3. QED
    BY <1>1, <2>2 DEF ChainInv
<1>3. CASE ~agreement'.sim
  <2>1. ~agreement.sim
    BY <1>3, StepSimulated
  <2>2. QED
    BY <1>1, <1>3, <2>1, StepChain DEF ChainInv
<1>4. QED
  BY <1>2, <1>3

(***************************************************************************)
(* A customer's agreement is charged as planned, for every number of       *)
(* installments and of runs: no installment twice, none outside the plan,  *)
(* and COMPLETED only when all have been charged (jobs/installmentCharge). *)
(***************************************************************************)
THEOREM AgreementsAreChargedAsPlanned == InstallmentsSpec => []ChargedAsPlanned
<1>1. ChainInv => ChargedAsPlanned
  BY DEF ChainInv
<1>2. QED
  BY <1>1, InitChainInv, StepChainInv, PTL DEF InstallmentsSpec
=============================================================================
