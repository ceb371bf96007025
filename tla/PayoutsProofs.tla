---------------------------- MODULE PayoutsProofs ---------------------------
(***************************************************************************)
(* Proofs about the payout engine, for any number of payouts, requests and *)
(* postings of the rest of the system.                                     *)
(***************************************************************************)
EXTENDS Payouts, MoneyProofs

(***************************************************************************)
(* What makes SettledAtMostOnce inductive.  The lock is held exactly by    *)
(* the request that is about to commit markPayoutPaid, and the payout it   *)
(* is about to pay has not been posted yet; a posted payout has a terminal *)
(* status, so no later LockPaid can get past the status check; a payout    *)
(* that does not exist yet has no posting and no request works on it.      *)
(***************************************************************************)
Posted(k) == \E n \in DOMAIN journal : IsSettlementOf(journal[n], k)

LockHeldByPayer ==
    \A r \in Requests : request[r].op = "pay" => lock = r

PayerIsFirst ==
    \A r \in Requests : request[r].op = "pay" => ~Posted(request[r].key)

PostedIsTerminal == \A k \in Keys : Posted(k) => status[k] \in TERMINAL

RequestedExists ==
    \A r \in Requests : request[r] # Idle => status[request[r].key] # "NONE"

IInv ==
    /\ TypeOK
    /\ LockHeldByPayer
    /\ PayerIsFirst
    /\ PostedIsTerminal
    /\ RequestedExists
    /\ SettledAtMostOnce

-----------------------------------------------------------------------------
\* A request that is not idle names its payout.
LEMMA BusyRequest ==
    ASSUME TypeOK, NEW r \in Requests, request[r] # Idle
    PROVE  request[r] \in [op : Operations, key : Keys]
BY DEF TypeOK, RequestStates

\* The states a step of a request may put it in.
LEMMA RequestMoves ==
    /\ Idle \in RequestStates
    /\ \A op \in Operations, k \in Keys : Doing(op, k) \in RequestStates
    /\ \A op \in Operations, s \in [op : Operations, key : Keys] :
          /\ [s EXCEPT !.op = op] = Doing(op, s.key)
          /\ s.key \in Keys
BY DEF RequestStates, Doing

\* What one posting does to the journal (postEntry).
LEMMA AppendOne ==
    ASSUME TypeOK, NEW p \in Postings, journal' = postEntries(journal, <<p>>)
    PROVE  /\ journal' \in Seq(Postings)
           /\ DOMAIN journal' = DOMAIN journal \cup {Len(journal) + 1}
           /\ DOMAIN journal \subseteq DOMAIN journal'
           /\ Len(journal) + 1 \notin DOMAIN journal
           /\ journal'[Len(journal) + 1] = p
           /\ \A n \in DOMAIN journal : journal'[n] = journal[n]
BY DEF postEntries, TypeOK

\* A posting of createPayout's allocation reserves an unreserved credit, once.
LEMMA AllocationReserves ==
    ASSUME NEW k, NEW cents, NEW it \in Allocation(k, cents)
    PROVE  /\ it.entry \in DOMAIN journal /\ ~IsReserved(it.entry)
           /\ journal[it.entry].credit = "AVAILABLE"
           /\ it.key = k
           /\ \A other \in Allocation(k, cents) :
                 it.entry = other.entry => it = other
<1> DEFINE before(n) == CentsOf({m \in UnpaidCredits : m < n})
           part(n)   == IF before(n) + journal[n].cents <= cents
                        THEN journal[n].cents ELSE cents - before(n)
           item(n)   == [entry |-> n, key |-> k, cents |-> part(n)]
           taken     == {n \in UnpaidCredits : before(n) < cents}
<1>1. Allocation(k, cents) = {item(n) : n \in taken}
  BY DEF Allocation
<1>2. \A n : item(n).entry = n /\ item(n).key = k
  OBVIOUS
<1>3. taken \subseteq UnpaidCredits
  OBVIOUS
<1> HIDE DEF item, taken
<1>4. PICK n \in taken : it = item(n)
  BY <1>1
<1>5. ASSUME NEW other \in Allocation(k, cents), it.entry = other.entry
      PROVE  it = other
  <2>1. PICK m \in taken : other = item(m)
    BY <1>1
  <2>2. n = m
    BY <1>2, <1>4, <1>5, <2>1
  <2>3. QED
    BY <1>4, <2>1, <2>2
<1>6. QED
  BY <1>2, <1>3, <1>4, <1>5 DEF UnpaidCredits

LEMMA CommitPaidPosting ==
    ASSUME TypeOK, NEW r \in Requests, CommitPaid(r)
    PROVE  LET k == request[r].key
               p == posting("AVAILABLE", "PAID_OUT", amount[k], "PAYOUT",
                            "payout", k, 0)
           IN  /\ k \in Keys
               /\ p \in PayoutPostings
               /\ journal' = postEntries(journal, <<p>>)
<1>1. request[r].key \in Keys
  BY BusyRequest DEF CommitPaid, Idle
<1>2. QED
  BY <1>1 DEF TypeOK, CommitPaid, posting, PayoutPostings

-----------------------------------------------------------------------------
LEMMA InitTypeOK == Init => TypeOK
BY RequestMoves DEF Init, TypeOK, Statuses

\* Every step of the engine and of the rest of the system keeps the types.
LEMMA StepTypeOK == TypeOK /\ [Next]_vars => TypeOK'
<1> SUFFICES ASSUME TypeOK, [Next]_vars PROVE TypeOK'
  OBVIOUS
<1>1. ASSUME NEW p \in OtherPostings, OtherPosting(p) PROVE TypeOK'
  <2>1. p \in Postings
    BY DEF Postings
  <2>2. /\ journal' \in Seq(Postings)
        /\ DOMAIN journal \subseteq DOMAIN journal'
    BY <1>1, <2>1, AppendOne DEF OtherPosting
  <2>3. QED
    BY <1>1, <2>2 DEF OtherPosting, TypeOK
<1>2. ASSUME NEW k \in Keys, CreatePayout(k) PROVE TypeOK'
  <2>1. \A it \in items' : it.entry \in DOMAIN journal /\ it.key \in Keys
    BY <1>2, AllocationReserves DEF CreatePayout, TypeOK
  <2>2. QED
    BY <1>2, <2>1 DEF CreatePayout, TypeOK, Statuses, OPEN_PAYOUT_STATUSES
<1>3. ASSUME NEW r \in Requests, NEW k \in Keys,
             ReadCancel(r, k) \/ ReadProcess(r, k) \/ ExecutePayout(r, k)
      PROVE  TypeOK'
  <2>1. \E op \in Operations : request' = [request EXCEPT ![r] = Doing(op, k)]
    BY <1>3 DEF ReadCancel, ReadProcess, ExecutePayout, Operations
  <2>2. request' \in [Requests -> RequestStates]
    BY <2>1, RequestMoves DEF TypeOK
  <2>3. QED
    BY <1>3, <2>2 DEF ReadCancel, ReadProcess, ExecutePayout, TypeOK
<1>4. ASSUME NEW r \in Requests, CommitCancel(r) \/ CommitFailed(r) PROVE TypeOK'
  <2>1. request[r].key \in Keys
    BY <1>4, BusyRequest DEF CommitCancel, CommitFailed, Idle
  <2>2. QED
    BY <1>4, <2>1, RequestMoves DEF CommitCancel, CommitFailed, ReleaseWith, TypeOK,
                      Statuses, TERMINAL
<1>5. ASSUME NEW r \in Requests, TransferSucceeds(r) PROVE TypeOK'
  <2>1. request[r] \in [op : Operations, key : Keys]
    BY <1>5, BusyRequest DEF TransferSucceeds, Idle
  <2>2. request' = [request EXCEPT ![r] = Doing("settle", request[r].key)]
    BY <1>5, <2>1, RequestMoves DEF TransferSucceeds, TypeOK, Operations
  <2>3. request' \in [Requests -> RequestStates]
    BY <2>1, <2>2, RequestMoves DEF TypeOK, Operations
  <2>4. QED
    BY <1>5, <2>1, <2>3 DEF TransferSucceeds, TypeOK
<1>6. ASSUME NEW r \in Requests, TransferFails(r) PROVE TypeOK'
  <2>1. request[r].key \in Keys
    BY <1>6, BusyRequest DEF TransferFails, Idle
  <2>2. QED
    BY <1>6, <2>1, RequestMoves DEF TransferFails, TypeOK, Operations
<1>7. ASSUME NEW r \in Requests, LockPaid(r) PROVE TypeOK'
  <2>1. request[r] \in [op : Operations, key : Keys]
    BY <1>7, BusyRequest DEF LockPaid, Idle
  <2>2. \/ request' = [request EXCEPT ![r] = Idle]
        \/ request' = [request EXCEPT ![r] = Doing("pay", request[r].key)]
    BY <1>7, <2>1, RequestMoves DEF LockPaid, TypeOK, Operations
  <2>3. Doing("pay", request[r].key) \in RequestStates /\ Idle \in RequestStates
    BY <2>1, RequestMoves DEF Operations
  <2>4. request' \in [Requests -> RequestStates]
    BY <2>2, <2>3 DEF TypeOK
  <2>5. QED
    BY <1>7, <2>1, <2>4 DEF LockPaid, TypeOK
<1>8. ASSUME NEW r \in Requests, CommitPaid(r) PROVE TypeOK'
  <2>1. PICK p \in Postings : /\ request[r].key \in Keys
                             /\ journal' = postEntries(journal, <<p>>)
    BY <1>8, CommitPaidPosting DEF Postings
  <2>2. journal' \in Seq(Postings) /\ DOMAIN journal \subseteq DOMAIN journal'
    BY <2>1, AppendOne
  <2>3. QED
    BY <1>8, <2>1, <2>2, RequestMoves DEF CommitPaid, TypeOK, Statuses, TERMINAL
<1>9. ASSUME NEW r \in Requests, Abort(r) PROVE TypeOK'
  BY <1>9, RequestMoves DEF Abort, TypeOK
<1>10. CASE UNCHANGED vars
  BY <1>10 DEF vars, TypeOK
<1>11. QED
  BY <1>1, <1>2, <1>3, <1>4, <1>5, <1>6, <1>7, <1>8, <1>9, <1>10 DEF Next

(***************************************************************************)
(* The rows, the reservations and the requests of the payout engine keep   *)
(* their types: a payout's amount is a natural number of centimes, and     *)
(* every payout_item points at a posting that exists.                      *)
(***************************************************************************)
THEOREM PayoutsTypeCorrect == Spec => []TypeOK
BY InitTypeOK, StepTypeOK, PTL DEF Spec

-----------------------------------------------------------------------------
LEMMA InitIInv == Init => IInv
<1> SUFFICES ASSUME Init PROVE IInv
  OBVIOUS
<1>1. TypeOK
  BY InitTypeOK
<1>2. \A r \in Requests : request[r] = Idle
  BY DEF Init
<1>3. \A k \in Keys : ~Posted(k)
  BY DEF Init, Posted
<1>4. LockHeldByPayer /\ PayerIsFirst /\ RequestedExists
  BY <1>2 DEF LockHeldByPayer, PayerIsFirst, RequestedExists, Idle
<1>5. PostedIsTerminal /\ SettledAtMostOnce
  BY <1>3 DEF PostedIsTerminal, SettledAtMostOnce, Posted
<1>6. QED
  BY <1>1, <1>4, <1>5 DEF IInv

(***************************************************************************)
(* A step that posts nothing of category PAYOUT keeps which payouts are    *)
(* posted, and cannot post one twice.                                      *)
(***************************************************************************)
LEMMA NotPayoutPosting ==
    ASSUME IInv, NEW p \in OtherPostings, journal' = postEntries(journal, <<p>>)
    PROVE  (\A k \in Keys : Posted(k)' = Posted(k)) /\ SettledAtMostOnce'
<1>1. p \in Postings /\ \A k : ~IsSettlementOf(p, k)
  BY PayoutsAssumption DEF Postings, IsSettlementOf
<1>2. /\ DOMAIN journal' = DOMAIN journal \cup {Len(journal) + 1}
      /\ journal'[Len(journal) + 1] = p
      /\ \A n \in DOMAIN journal : journal'[n] = journal[n]
  BY <1>1, AppendOne DEF IInv
<1>3. \A k, n : n \in DOMAIN journal' /\ IsSettlementOf(journal'[n], k)
                <=> n \in DOMAIN journal /\ IsSettlementOf(journal[n], k)
  BY <1>1, <1>2
<1>4. QED
  BY <1>3 DEF Posted, SettledAtMostOnce, IInv

LEMMA UnchangedJournal ==
    ASSUME IInv, UNCHANGED journal
    PROVE  (\A k \in Keys : Posted(k)' = Posted(k)) /\ SettledAtMostOnce'
BY DEF Posted, SettledAtMostOnce, IInv

\* The settlement posting of markPayoutPaid is the first of its payout.
LEMMA PayoutPosting ==
    ASSUME IInv, NEW r \in Requests, CommitPaid(r)
    PROVE  /\ \A k \in Keys : Posted(k)' = (Posted(k) \/ k = request[r].key)
           /\ SettledAtMostOnce'
<1> DEFINE k == request[r].key
           p == posting("AVAILABLE", "PAID_OUT", amount[k], "PAYOUT",
                        "payout", k, 0)
<1>1. k \in Keys /\ p \in Postings /\ journal' = postEntries(journal, <<p>>)
  BY CommitPaidPosting DEF IInv, Postings
<1>2. \A l : IsSettlementOf(p, l) <=> l = k
  BY DEF posting, IsSettlementOf
<1>3. ~Posted(k)
  BY DEF IInv, PayerIsFirst, CommitPaid
<1> HIDE DEF p, k
<1>4. /\ DOMAIN journal' = DOMAIN journal \cup {Len(journal) + 1}
      /\ journal'[Len(journal) + 1] = p
      /\ \A n \in DOMAIN journal : journal'[n] = journal[n]
  BY <1>1, AppendOne DEF IInv
<1>5. \A l, n : n \in DOMAIN journal' /\ IsSettlementOf(journal'[n], l) <=>
                \/ n \in DOMAIN journal /\ IsSettlementOf(journal[n], l)
                \/ n = Len(journal) + 1 /\ l = k
  BY <1>2, <1>4
<1>6. \A l \in Keys : Posted(l)' = (Posted(l) \/ l = k)
  BY <1>5 DEF Posted
<1>7. SettledAtMostOnce'
  <2> SUFFICES ASSUME NEW l \in Keys,
                      NEW m \in DOMAIN journal', NEW n \in DOMAIN journal',
                      IsSettlementOf(journal'[m], l), IsSettlementOf(journal'[n], l)
               PROVE  m = n
    BY DEF SettledAtMostOnce, IsSettlementOf
  <2>1. CASE l = k
    <3>1. ~ \E j \in DOMAIN journal : IsSettlementOf(journal[j], l)
      BY <1>3, <2>1 DEF Posted
    <3>2. m = Len(journal) + 1
      BY <1>5, <3>1, <2>1
    <3>3. n = Len(journal) + 1
      BY <1>5, <3>1, <2>1
    <3>4. QED
      BY <3>2, <3>3
  <2>2. CASE l # k
    <3>1. /\ m \in DOMAIN journal /\ IsSettlementOf(journal[m], l)
          /\ n \in DOMAIN journal /\ IsSettlementOf(journal[n], l)
      BY <1>5, <2>2
    <3>2. QED
      BY <3>1 DEF SettledAtMostOnce, IInv
  <2>3. QED
    BY <2>1, <2>2
<1>8. QED
  BY <1>6, <1>7 DEF k

-----------------------------------------------------------------------------
\* The strengthened invariant is kept by every step, one case per action.
LEMMA StepIInv == IInv /\ [Next]_vars => IInv'
<1> SUFFICES ASSUME IInv, [Next]_vars PROVE IInv'
  OBVIOUS
<1>0. TypeOK /\ TypeOK'
  BY StepTypeOK DEF IInv
<1>1. ASSUME NEW p \in OtherPostings, OtherPosting(p) PROVE IInv'
  <2>1. (\A k \in Keys : Posted(k)' = Posted(k)) /\ SettledAtMostOnce'
    BY <1>1, NotPayoutPosting DEF OtherPosting
  <2>2. \A r \in Requests : request[r].op = "pay" => request[r].key \in Keys
    BY <1>0, BusyRequest DEF Idle
  <2>3. QED
    BY <1>0, <1>1, <2>1, <2>2 DEF OtherPosting, IInv, LockHeldByPayer,
       PayerIsFirst, PostedIsTerminal, RequestedExists
<1>2. ASSUME NEW k \in Keys, CreatePayout(k) PROVE IInv'
  <2>1. (\A l \in Keys : Posted(l)' = Posted(l)) /\ SettledAtMostOnce'
    BY <1>2, UnchangedJournal DEF CreatePayout
  <2>2. ~Posted(k) /\ \A r \in Requests : request[r] # Idle => request[r].key # k
    BY <1>2 DEF CreatePayout, IInv, PostedIsTerminal, TERMINAL, RequestedExists
  <2>3. \A r \in Requests : request[r] # Idle => request[r].key \in Keys
    BY <1>0, BusyRequest
  <2>4. LockHeldByPayer' /\ PayerIsFirst'
    BY <1>0, <1>2, <2>1, <2>3 DEF CreatePayout, IInv, LockHeldByPayer,
       PayerIsFirst, Idle
  <2>5. PostedIsTerminal' /\ RequestedExists'
    BY <1>0, <1>2, <2>1, <2>2, <2>3 DEF CreatePayout, IInv, PostedIsTerminal,
       RequestedExists, TypeOK
  <2>6. QED
    BY <1>0, <2>1, <2>4, <2>5 DEF IInv
<1>3. ASSUME NEW r \in Requests, NEW k \in Keys, NEW op \in Operations,
             op # "pay", status[k] # "NONE",
             request' = [request EXCEPT ![r] = Doing(op, k)],
             UNCHANGED <<journal, lock, status>>
      PROVE  IInv'
  <2>1. (\A l \in Keys : Posted(l)' = Posted(l)) /\ SettledAtMostOnce'
    BY <1>3, UnchangedJournal
  <2>2. request'[r].op # "pay" /\ request'[r].key = k
    BY <1>0, <1>3 DEF Doing, TypeOK
  <2>3. \A s \in Requests : s # r => request'[s] = request[s]
    BY <1>0, <1>3 DEF TypeOK
  <2>4. \A s \in Requests : request[s].op = "pay" => request[s].key \in Keys
    BY <1>0, BusyRequest DEF Idle
  <2>5. LockHeldByPayer' /\ PayerIsFirst'
    BY <1>3, <2>1, <2>2, <2>3, <2>4 DEF IInv, LockHeldByPayer, PayerIsFirst
  <2>6. PostedIsTerminal' /\ RequestedExists'
    BY <1>3, <2>1, <2>2, <2>3 DEF IInv, PostedIsTerminal, RequestedExists
  <2>7. QED
    BY <1>0, <2>1, <2>5, <2>6 DEF IInv
<1>4. ASSUME NEW r \in Requests, request' = [request EXCEPT ![r] = Idle],
             UNCHANGED journal, lock # r => lock' = lock,
             \A k \in Keys : status'[k] = status[k] \/ status'[k] \in TERMINAL
      PROVE  IInv'
  <2>1. (\A l \in Keys : Posted(l)' = Posted(l)) /\ SettledAtMostOnce'
    BY <1>4, UnchangedJournal
  <2>2. request'[r] = Idle /\ \A s \in Requests : s # r => request'[s] = request[s]
    BY <1>0, <1>4 DEF TypeOK
  <2>3. \A s \in Requests : request[s] # Idle => request[s].key \in Keys
    BY <1>0, BusyRequest
  <2>4. Idle.op # "pay"
    BY DEF Idle
  <2>5. LockHeldByPayer'
    BY <1>4, <2>2, <2>4 DEF IInv, LockHeldByPayer
  <2>6. PayerIsFirst'
    BY <2>1, <2>2, <2>3, <2>4 DEF IInv, PayerIsFirst
  <2>7. PostedIsTerminal'
    BY <1>4, <2>1 DEF IInv, PostedIsTerminal
  <2>8. RequestedExists'
    BY <1>4, <2>2, <2>3 DEF IInv, RequestedExists, TERMINAL
  <2>9. QED
    BY <1>0, <2>1, <2>5, <2>6, <2>7, <2>8 DEF IInv
<1>5. ASSUME NEW r \in Requests, NEW k \in Keys,
             ReadCancel(r, k) \/ ReadProcess(r, k) \/ ExecutePayout(r, k)
      PROVE  IInv'
  <2>1. status[k] # "NONE"
    BY <1>5 DEF ReadCancel, ReadProcess, ExecutePayout, canTransition
  <2>2. \E op \in Operations :
           op # "pay" /\ request' = [request EXCEPT ![r] = Doing(op, k)]
    BY <1>5 DEF ReadCancel, ReadProcess, ExecutePayout, Operations
  <2>3. QED
    BY <1>3, <1>5, <2>1, <2>2 DEF ReadCancel, ReadProcess, ExecutePayout
<1>6. ASSUME NEW r \in Requests, CommitCancel(r) \/ CommitFailed(r) PROVE IInv'
  <2>1. PICK final \in TERMINAL : ReleaseWith(r, final)
    BY <1>6 DEF CommitCancel, CommitFailed, TERMINAL
  <2>2. \A k \in Keys : status'[k] = status[k] \/ status'[k] \in TERMINAL
    BY <1>0, <2>1 DEF ReleaseWith, TypeOK
  <2>3. QED
    BY <1>4, <2>1, <2>2 DEF ReleaseWith
<1>7. ASSUME NEW r \in Requests, TransferSucceeds(r) PROVE IInv'
  <2>1. /\ request[r] \in [op : Operations, key : Keys]
        /\ status[request[r].key] # "NONE"
    BY <1>0, <1>7, BusyRequest DEF TransferSucceeds, Idle, IInv, RequestedExists
  <2>2. request' = [request EXCEPT ![r] = Doing("settle", request[r].key)]
    BY <1>7, <2>1, RequestMoves DEF TransferSucceeds, Operations, TypeOK
  <2>3. QED
    BY <1>3, <1>7, <2>1, <2>2 DEF TransferSucceeds, Operations
<1>8. ASSUME NEW r \in Requests, TransferFails(r) PROVE IInv'
  <2>1. request[r].key \in Keys /\ status[request[r].key] # "NONE"
    BY <1>0, <1>8, BusyRequest DEF TransferFails, Idle, IInv, RequestedExists
  <2>2. \/ request' = [request EXCEPT ![r] = Idle]
        \/ request' = [request EXCEPT ![r] = Doing("fail", request[r].key)]
    BY <1>8 DEF TransferFails
  <2>3. QED
    BY <1>3, <1>4, <1>8, <2>1, <2>2 DEF TransferFails, Operations
<1>9. ASSUME NEW r \in Requests, LockPaid(r) PROVE IInv'
  <2> DEFINE k == request[r].key
  <2>1. /\ request[r] \in [op : Operations, key : Keys]
        /\ status[k] # "NONE"
    BY <1>0, <1>9, BusyRequest DEF LockPaid, Idle, IInv, RequestedExists
  <2>2. CASE request' = [request EXCEPT ![r] = Idle] /\ UNCHANGED lock
    BY <1>4, <1>9, <2>2 DEF LockPaid
  <2>3. CASE /\ request' = [request EXCEPT ![r].op = "pay"] /\ lock' = r
             /\ status[k] \notin TERMINAL
    <3>1. (\A l \in Keys : Posted(l)' = Posted(l)) /\ SettledAtMostOnce'
      BY <1>9, UnchangedJournal DEF LockPaid
    <3>2. k \in Keys /\ ~Posted(k)
      BY <2>1, <2>3 DEF IInv, PostedIsTerminal
    <3>3. \A s \in Requests : request[s].op # "pay"
      BY <1>9, PayoutsAssumption DEF LockPaid, IInv, LockHeldByPayer
    <3>4. request'[r] = Doing("pay", k)
      BY <1>0, <2>1, <2>3, RequestMoves DEF TypeOK, Operations
    <3>5. \A s \in Requests : s # r => request'[s] = request[s]
      BY <1>0, <2>3 DEF TypeOK
    <3>6. LockHeldByPayer' /\ PayerIsFirst'
      BY <2>3, <3>1, <3>2, <3>3, <3>4, <3>5 DEF LockHeldByPayer, PayerIsFirst,
         Doing
    <3>7. PostedIsTerminal' /\ RequestedExists'
      BY <1>9, <2>1, <3>1, <3>4, <3>5 DEF LockPaid, IInv, PostedIsTerminal,
         RequestedExists, Doing
    <3>8. QED
      BY <1>0, <3>1, <3>6, <3>7 DEF IInv
  <2>4. QED
    BY <1>9, <2>2, <2>3 DEF LockPaid
<1>10. ASSUME NEW r \in Requests, CommitPaid(r) PROVE IInv'
  <2> DEFINE k == request[r].key
  <2>1. k \in Keys
    BY <1>0, <1>10, BusyRequest DEF CommitPaid, Idle
  <2>2. /\ \A l \in Keys : Posted(l)' = (Posted(l) \/ l = k)
        /\ SettledAtMostOnce'
    BY <1>10, PayoutPosting
  <2>3. request'[r] = Idle /\ \A s \in Requests : s # r => request'[s] = request[s]
    BY <1>0, <1>10 DEF CommitPaid, TypeOK
  <2>4. \A s \in Requests : s # r => request[s].op # "pay"
    BY <1>10 DEF CommitPaid, IInv, LockHeldByPayer
  <2>5. status'[k] = "PAID" /\ \A l \in Keys : l # k => status'[l] = status[l]
    BY <1>0, <1>10, <2>1 DEF CommitPaid, TypeOK
  <2>6. LockHeldByPayer' /\ PayerIsFirst'
    BY <2>3, <2>4 DEF LockHeldByPayer, PayerIsFirst, Idle
  <2>7. PostedIsTerminal'
    BY <2>2, <2>5 DEF IInv, PostedIsTerminal, TERMINAL
  <2>8. RequestedExists'
    <3>1. \A s \in Requests : request[s] # Idle => request[s].key \in Keys
      BY <1>0, BusyRequest
    <3>2. QED
      BY <2>3, <2>5, <3>1 DEF IInv, RequestedExists
  <2>9. QED
    BY <1>0, <2>2, <2>6, <2>7, <2>8 DEF IInv
<1>11. ASSUME NEW r \in Requests, Abort(r) PROVE IInv'
  BY <1>4, <1>11 DEF Abort
<1>12. CASE UNCHANGED vars
  BY <1>0, <1>12, UnchangedJournal DEF vars, IInv, LockHeldByPayer, PayerIsFirst,
     PostedIsTerminal, RequestedExists, Posted
<1>13. QED
  BY <1>1, <1>2, <1>5, <1>6, <1>7, <1>8, <1>9, <1>10, <1>11, <1>12 DEF Next

(***************************************************************************)
(* However many cancel, fail and process requests run at once, the ledger  *)
(* receives at most one AVAILABLE -> PAID_OUT posting per payout.          *)
(***************************************************************************)
THEOREM PayoutSettledOnce == Spec => []SettledAtMostOnce
<1>1. IInv => SettledAtMostOnce
  BY DEF IInv
<1>2. QED
  BY <1>1, InitIInv, StepIInv, PTL DEF Spec

-----------------------------------------------------------------------------
\* A step adds the allocation of one createPayout, releases items, or neither.
LEMMA StepItems ==
    ASSUME [Next]_vars
    PROVE  \/ items' \subseteq items
           \/ \E k \in Keys : items' = items \cup Allocation(k, Payable)
<1>1. ASSUME NEW r \in Requests, CommitCancel(r) \/ CommitFailed(r)
      PROVE  items' \subseteq items
  BY <1>1 DEF CommitCancel, CommitFailed, ReleaseWith
<1>2. ASSUME NEW k \in Keys, CreatePayout(k)
      PROVE  items' = items \cup Allocation(k, Payable)
  BY <1>2 DEF CreatePayout
<1>3. ASSUME NEW r \in Requests,
             \/ \E k \in Keys : ReadCancel(r, k) \/ ReadProcess(r, k) \/ ExecutePayout(r, k)
             \/ TransferSucceeds(r) \/ TransferFails(r)
             \/ LockPaid(r) \/ CommitPaid(r) \/ Abort(r)
      PROVE  items' = items
  BY <1>3 DEF ReadCancel, ReadProcess, ExecutePayout, TransferSucceeds, TransferFails,
     LockPaid, CommitPaid, Abort
<1>4. ASSUME NEW p \in OtherPostings, OtherPosting(p) PROVE items' = items
  BY <1>4 DEF OtherPosting
<1>5. CASE UNCHANGED vars
  BY <1>5 DEF vars
<1>6. QED
  BY <1>1, <1>2, <1>3, <1>4, <1>5 DEF Next

(***************************************************************************)
(* No credit is reserved by two payouts, whatever is created, cancelled,   *)
(* failed and recreated: createPayout only takes credits no payout_item    *)
(* points at, and cancelling deletes the items of one payout as a whole.   *)
(***************************************************************************)
THEOREM CreditReservedOnce == Spec => []EntryReservedOnce
<1>1. Init => EntryReservedOnce
  BY DEF Init, EntryReservedOnce
<1>2. EntryReservedOnce /\ [Next]_vars => EntryReservedOnce'
  <2> SUFFICES ASSUME EntryReservedOnce, [Next]_vars PROVE EntryReservedOnce'
    OBVIOUS
  <2>1. CASE items' \subseteq items
    BY <2>1 DEF EntryReservedOnce
  <2>2. ASSUME NEW k \in Keys, items' = items \cup Allocation(k, Payable)
        PROVE  EntryReservedOnce'
    <3> SUFFICES ASSUME NEW it \in items', NEW other \in items',
                        it.entry = other.entry
                 PROVE  it = other
      BY DEF EntryReservedOnce
    <3>1. CASE it \in items /\ other \in items
      BY <3>1 DEF EntryReservedOnce
    <3>2. CASE it \in Allocation(k, Payable) /\ other \in Allocation(k, Payable)
      BY <3>2, AllocationReserves
    <3>3. CASE it \in items /\ other \in Allocation(k, Payable)
      BY <3>3, AllocationReserves DEF IsReserved
    <3>4. CASE it \in Allocation(k, Payable) /\ other \in items
      BY <3>4, AllocationReserves DEF IsReserved
    <3>5. QED
      BY <2>2, <3>1, <3>2, <3>3, <3>4
  <2>3. QED
    BY <2>1, <2>2, StepItems
<1>3. QED
  BY <1>1, <1>2, PTL DEF Spec

-----------------------------------------------------------------------------
\* A step that writes no status and no item, and lets no request past a check on k.
LEMMA RestsUntouched ==
    ASSUME NEW k \in Keys, AtRest(k), status'[k] = status[k], ItemsOf(k)' = ItemsOf(k),
           PastTheCheck(k)' => PastTheCheck(k)
    PROVE  AtRest(k)' /\ status'[k] = status[k] /\ ItemsOf(k)' = ItemsOf(k)
BY DEF AtRest

\* A request that turns to another payout, or to a step before its check, or stops.
LEMMA RequestElsewhere ==
    ASSUME TypeOK, NEW r \in Requests, NEW k \in Keys, NEW new \in RequestStates,
           request' = [request EXCEPT ![r] = new],
           new.op \in {"cancel", "fail", "pay"} => new.key # k
    PROVE  PastTheCheck(k)' => PastTheCheck(k)
BY DEF PastTheCheck, TypeOK

\* Every step leaves a payout at rest as it is.
LEMMA StepTerminalIsFinal ==
    ASSUME TypeOK, [Next]_vars, NEW k \in Keys, AtRest(k)
    PROVE  AtRest(k)' /\ status'[k] = status[k] /\ ItemsOf(k)' = ItemsOf(k)
<1>0. /\ status[k] \in TERMINAL
      /\ \A r \in Requests : request[r].op \in {"cancel", "fail", "pay"}
                             => request[r].key # k
  BY DEF AtRest, PastTheCheck
<1>1. ASSUME NEW p \in OtherPostings, OtherPosting(p)
      PROVE  UNCHANGED <<status, items, request>>
  BY <1>1 DEF OtherPosting
<1>2. CASE UNCHANGED <<status, items, request>>
  BY <1>2, RestsUntouched DEF ItemsOf, PastTheCheck
<1>3. ASSUME NEW l \in Keys, CreatePayout(l)
      PROVE  AtRest(k)' /\ status'[k] = status[k] /\ ItemsOf(k)' = ItemsOf(k)
  <2>1. l # k /\ status'[k] = status[k] /\ UNCHANGED request
    BY <1>0, <1>3 DEF CreatePayout, TERMINAL, TypeOK
  <2>2. \A it \in Allocation(l, Payable) : it.key # k
    BY <2>1, AllocationReserves
  <2>3. ItemsOf(k)' = ItemsOf(k)
    BY <1>3, <2>2 DEF CreatePayout, ItemsOf
  <2>4. QED
    BY <2>1, <2>3, RestsUntouched DEF PastTheCheck
<1>4. ASSUME NEW r \in Requests, NEW new \in RequestStates,
             request' = [request EXCEPT ![r] = new],
             new.op \in {"cancel", "fail", "pay"} => new.key # k,
             UNCHANGED <<status, items>>
      PROVE  AtRest(k)' /\ status'[k] = status[k] /\ ItemsOf(k)' = ItemsOf(k)
  BY <1>4, RequestElsewhere, RestsUntouched DEF ItemsOf
<1>5. ASSUME NEW r \in Requests, NEW l \in Keys,
             ReadCancel(r, l) \/ ReadProcess(r, l) \/ ExecutePayout(r, l)
      PROVE  AtRest(k)' /\ status'[k] = status[k] /\ ItemsOf(k)' = ItemsOf(k)
  <2>1. PICK op \in {"cancel", "settle", "transfer"} :
           /\ request' = [request EXCEPT ![r] = Doing(op, l)]
           /\ op = "cancel" => canTransition(status[l], "CANCELLED")
           /\ UNCHANGED <<status, items>>
    BY <1>5 DEF ReadCancel, ReadProcess, ExecutePayout
  <2>2. op = "cancel" => l # k
    BY <1>0, <2>1 DEF canTransition, TERMINAL
  <2>3. /\ Doing(op, l) \in RequestStates
        /\ Doing(op, l).op = op /\ Doing(op, l).key = l
    BY RequestMoves DEF Operations, Doing
  <2>4. QED
    BY <1>4, <2>1, <2>2, <2>3
<1>6. ASSUME NEW r \in Requests, request[r].op \in {"cancel", "fail", "pay"},
             status' = [status EXCEPT ![request[r].key] = status'[request[r].key]],
             ItemsOf(k)' = ItemsOf(k), request' = [request EXCEPT ![r] = Idle]
      PROVE  AtRest(k)' /\ status'[k] = status[k] /\ ItemsOf(k)' = ItemsOf(k)
  <2>1. request[r].key # k
    BY <1>0, <1>6
  <2>2. status'[k] = status[k]
    BY <1>6, <2>1 DEF TypeOK
  <2>3. Idle \in RequestStates /\ Idle.op = "idle"
    BY RequestMoves DEF Idle
  <2>4. PastTheCheck(k)' => PastTheCheck(k)
    BY <1>6, <2>3, RequestElsewhere
  <2>5. QED
    BY <1>6, <2>2, <2>4, RestsUntouched
<1>7. ASSUME NEW r \in Requests, CommitCancel(r) \/ CommitFailed(r)
      PROVE  AtRest(k)' /\ status'[k] = status[k] /\ ItemsOf(k)' = ItemsOf(k)
  <2>1. PICK final : ReleaseWith(r, final) /\ request[r].op \in {"cancel", "fail"}
    BY <1>7 DEF CommitCancel, CommitFailed
  <2>2. request[r].key # k /\ request[r].key \in Keys
    BY <1>0, <2>1, BusyRequest DEF Idle
  <2>3. ItemsOf(k)' = ItemsOf(k)
    BY <2>1, <2>2 DEF ReleaseWith, ItemsOf
  <2>4. status' = [status EXCEPT ![request[r].key] = status'[request[r].key]]
    BY <2>1, <2>2 DEF ReleaseWith, TypeOK
  <2>5. QED
    BY <1>6, <2>1, <2>3, <2>4 DEF ReleaseWith
<1>8. ASSUME NEW r \in Requests, TransferSucceeds(r)
      PROVE  AtRest(k)' /\ status'[k] = status[k] /\ ItemsOf(k)' = ItemsOf(k)
  <2>1. request[r] \in [op : Operations, key : Keys]
    BY <1>8, BusyRequest DEF TransferSucceeds, Idle
  <2>2. request' = [request EXCEPT ![r] = Doing("settle", request[r].key)]
    BY <1>8, <2>1, RequestMoves DEF TransferSucceeds, TypeOK, Operations
  <2>3. /\ Doing("settle", request[r].key) \in RequestStates
        /\ Doing("settle", request[r].key).op = "settle"
    BY <2>1, RequestMoves DEF Operations, Doing
  <2>4. QED
    BY <1>4, <1>8, <2>2, <2>3 DEF TransferSucceeds
<1>9. ASSUME NEW r \in Requests, TransferFails(r)
      PROVE  AtRest(k)' /\ status'[k] = status[k] /\ ItemsOf(k)' = ItemsOf(k)
  <2> DEFINE l == request[r].key
  <2>1. l \in Keys
    BY <1>9, BusyRequest DEF TransferFails, Idle
  <2>2. CASE status[l] \in TERMINAL
    <3>1. Idle \in RequestStates /\ Idle.op = "idle"
      BY RequestMoves DEF Idle
    <3>2. QED
      BY <1>4, <1>9, <2>2, <3>1 DEF TransferFails
  <2>3. CASE status[l] \notin TERMINAL
    <3>1. l # k
      BY <1>0, <2>3
    <3>2. /\ Doing("fail", l) \in RequestStates
          /\ Doing("fail", l).key = l
      BY <2>1, RequestMoves DEF Operations, Doing
    <3>3. QED
      BY <1>4, <1>9, <2>3, <3>1, <3>2 DEF TransferFails
  <2>4. QED
    BY <2>2, <2>3
<1>10. ASSUME NEW r \in Requests, LockPaid(r)
       PROVE  AtRest(k)' /\ status'[k] = status[k] /\ ItemsOf(k)' = ItemsOf(k)
  <2> DEFINE l == request[r].key
  <2>1. request[r] \in [op : Operations, key : Keys] /\ l \in Keys
    BY <1>10, BusyRequest DEF LockPaid, Idle
  <2>2. CASE request' = [request EXCEPT ![r] = Idle]
    <3>1. Idle \in RequestStates /\ Idle.op = "idle"
      BY RequestMoves DEF Idle
    <3>2. QED
      BY <1>4, <1>10, <2>2, <3>1 DEF LockPaid
  <2>3. CASE status[l] \notin TERMINAL /\ request' = [request EXCEPT ![r].op = "pay"]
    <3>1. l # k
      BY <1>0, <2>3
    <3>2. request' = [request EXCEPT ![r] = Doing("pay", l)]
      BY <2>1, <2>3, RequestMoves DEF TypeOK, Operations
    <3>3. Doing("pay", l) \in RequestStates /\ Doing("pay", l).key = l
      BY <2>1, RequestMoves DEF Operations, Doing
    <3>4. QED
      BY <1>4, <1>10, <3>1, <3>2, <3>3 DEF LockPaid
  <2>4. QED
    BY <1>10, <2>2, <2>3 DEF LockPaid
<1>11. ASSUME NEW r \in Requests, CommitPaid(r)
       PROVE  AtRest(k)' /\ status'[k] = status[k] /\ ItemsOf(k)' = ItemsOf(k)
  <2>1. request[r].key \in Keys /\ request[r].op = "pay"
    BY <1>11, BusyRequest DEF CommitPaid, Idle
  <2>2. status' = [status EXCEPT ![request[r].key] = status'[request[r].key]]
    BY <1>11, <2>1 DEF CommitPaid, TypeOK
  <2>3. QED
    BY <1>6, <1>11, <2>1, <2>2 DEF CommitPaid, ItemsOf
<1>12. ASSUME NEW r \in Requests, Abort(r)
       PROVE  AtRest(k)' /\ status'[k] = status[k] /\ ItemsOf(k)' = ItemsOf(k)
  <2>1. Idle \in RequestStates /\ Idle.op = "idle"
    BY RequestMoves DEF Idle
  <2>2. QED
    BY <1>4, <1>12, <2>1 DEF Abort
<1>13. CASE UNCHANGED vars
  BY <1>2, <1>13 DEF vars
<1>14. QED
  BY <1>1, <1>2, <1>3, <1>5, <1>7, <1>8, <1>9, <1>10, <1>11, <1>12, <1>13 DEF Next

(***************************************************************************)
(* TERMINAL: for any number of payouts and requests, a payout that ended   *)
(* and that nobody is about to write keeps its status and its reservations *)
(* for good; a payout is overwritten only by a request that had passed its *)
(* status check before it ended (cancelPayout, markPayoutFailed, and       *)
(* markPayoutPaid next to a cancel that took no lock).                     *)
(***************************************************************************)
THEOREM EndedPayoutStays == Spec => TerminalIsFinal
<1>1. TypeOK /\ [Next]_vars =>
         [\A k \in Keys : AtRest(k) =>
             AtRest(k)' /\ status'[k] = status[k] /\ ItemsOf(k)' = ItemsOf(k)]_vars
  BY StepTerminalIsFinal
<1>2. QED
  BY <1>1, PayoutsTypeCorrect, PTL DEF Spec, TerminalIsFinal

-----------------------------------------------------------------------------
(***************************************************************************)
(* The money of a payout: what its payout_items reserve.                   *)
(***************************************************************************)
Reserved(k) == SumOver([it \in items |-> it.cents], ItemsOf(k))

Created == {k \in Keys : status[k] # "NONE"}

(***************************************************************************)
(* What makes OpenPayoutIsFunded inductive: only a payout that was created *)
(* has items, and it has all of them, for its whole amount, until the one  *)
(* delete of a cancel or a failure takes them all.                         *)
(***************************************************************************)
ReservedWhole ==
    \A k \in Keys :
        /\ ItemsOf(k) # {} => status[k] # "NONE" /\ Reserved(k) = amount[k]
        /\ status[k] \in OPEN_PAYOUT_STATUSES => Reserved(k) = amount[k]

ItemsInv ==
    /\ IsFiniteSet(items)
    /\ IsFiniteSet(Created)
    /\ \A it \in items : /\ it.cents \in 0..journal[it.entry].cents
                         /\ journal[it.entry].credit = "AVAILABLE"
    /\ ReservedWhole

\* The journal of the engine, as the lemmas about balances want it.
LEMMA JournalOfAmounts ==
    ASSUME TypeOK
    PROVE  /\ IsSequence(journal) /\ IntegerCents(journal)
           /\ IsFiniteSet(DOMAIN journal) /\ DOMAIN journal \subseteq Int
           /\ \A n \in DOMAIN journal : journal[n] \in Postings /\ journal[n].cents \in Nat
<1>1. journal \in Seq(Postings)
  BY DEF TypeOK
<1>2. IsSequence(journal) /\ Len(journal) \in Nat /\ DOMAIN journal = 1..Len(journal)
  BY <1>1, SequenceShape
<1>3. ASSUME NEW p \in Postings PROVE p.cents \in Nat
  BY PayoutsAssumption DEF Postings, PayoutPostings
<1>4. \A n \in DOMAIN journal : journal[n] \in Postings /\ journal[n].cents \in Nat
  BY <1>1, <1>2, <1>3
<1>5. IsFiniteSet(DOMAIN journal) /\ DOMAIN journal \subseteq Int
  BY <1>2, FS_Interval
<1>6. QED
  BY <1>2, <1>4, <1>5 DEF IntegerCents

LEMMA CentsAreAmounts ==
    ASSUME TypeOK, NEW N \in SUBSET DOMAIN journal
    PROVE  IsFiniteSet(N) /\ CentsOf(N) \in Nat
<1> DEFINE f == [n \in DOMAIN journal |-> journal[n].cents]
<1>1. IsFiniteSet(N)
  BY JournalOfAmounts, FS_Subset
<1>2. \A n \in N : f[n] \in Nat
  BY JournalOfAmounts
<1>3. CentsOf(N) = SumOver(f, N)
  BY DEF CentsOf, SumOver
<1> HIDE DEF f
<1>4. SumOver(f, N) \in Nat
  BY <1>1, <1>2, SumOfAmounts
<1>5. QED
  BY <1>1, <1>3, <1>4

\* createPayout never drafts more than the unpaid credits hold.
LEMMA PayableWithinCredits ==
    ASSUME TypeOK
    PROVE  Payable \in Int /\ Payable <= CentsOf(UnpaidCredits)
<1>1. /\ UnpaidCredits \in SUBSET DOMAIN journal
      /\ OtherDebits \in SUBSET DOMAIN journal
  BY DEF UnpaidCredits, OtherDebits
<1>2. CentsOf(UnpaidCredits) \in Nat /\ CentsOf(OtherDebits) \in Nat
  BY <1>1, CentsAreAmounts
<1>3. QED
  BY <1>2 DEF Payable

\* createPayout's FIFO loop reserves the amount to the centime.
LEMMA AllocationFunds ==
    ASSUME TypeOK, NEW k, NEW c \in Nat, c <= CentsOf(UnpaidCredits), NEW g,
           \A it \in Allocation(k, c) : g[it] = it.cents
    PROVE  /\ IsFiniteSet(Allocation(k, c))
           /\ \A it \in Allocation(k, c) : it.cents \in 0..journal[it.entry].cents
           /\ SumOver(g, Allocation(k, c)) = c
<1> DEFINE U == UnpaidCredits
           f == [n \in DOMAIN journal |-> journal[n].cents]
           before(n) == CentsOf({m \in U : m < n})
           part(n)   == IF before(n) + journal[n].cents <= c
                        THEN journal[n].cents ELSE c - before(n)
           item(n)   == [entry |-> n, key |-> k, cents |-> part(n)]
           taken     == {n \in U : before(n) < c}
           take      == [n \in U |-> IF before(n) < c THEN part(n) ELSE 0]
           b         == [n \in taken |-> item(n)]
<1>1. U \in SUBSET DOMAIN journal
  BY DEF UnpaidCredits
<1>2. IsFiniteSet(U) /\ U \subseteq Int /\ \A n \in U : f[n] \in Nat
  BY <1>1, CentsAreAmounts, JournalOfAmounts
<1>3. \A N : CentsOf(N) = SumOver(f, N)
  BY DEF CentsOf, SumOver
<1>4. Allocation(k, c) = {item(n) : n \in taken}
  BY DEF Allocation
<1> HIDE DEF U
<1>5. \A n \in U : take[n] = FifoPart(f, U, c, n)
  <2> SUFFICES ASSUME NEW n \in U PROVE take[n] = FifoPart(f, U, c, n)
    OBVIOUS
  <2>1. before(n) = SumOver(f, Earlier(U, n)) /\ f[n] = journal[n].cents
    BY <1>1, <1>3 DEF Earlier
  <2> HIDE DEF before, f
  <2>2. QED
    BY <2>1 DEF FifoPart
<1>6. c <= SumOver(f, U)
  BY <1>3 DEF U
<1>7. SumOver(take, U) = c /\ \A n \in U : take[n] \in 0..f[n]
  <2> HIDE DEF f, take
  <2>1. QED
    BY <1>2, <1>5, <1>6, FifoTakesAll
<1>8. taken \in SUBSET U /\ \A n \in U \ taken : take[n] = 0
  OBVIOUS
<1>9. \A n \in taken : /\ take[n] = part(n) /\ take[n] \in 0..journal[n].cents
                       /\ b[n] = item(n)
  <2>1. \A n \in taken : f[n] = journal[n].cents
    BY <1>1, <1>8
  <2> HIDE DEF f, part
  <2>2. QED
    BY <1>7, <2>1
<1>10. \A n : item(n).entry = n /\ item(n).key = k /\ item(n).cents = part(n)
  OBVIOUS
<1>11. IsFiniteSet(taken) /\ IntegerOn(take, taken)
  <2> HIDE DEF taken, take, f
  <2>1. ASSUME NEW n \in U PROVE take[n] \in Int
    <3>1. take[n] \in 0..f[n] /\ f[n] \in Nat
      BY <1>2, <1>7
    <3>2. QED
      BY <3>1
  <2>2. QED
    BY <1>2, <1>8, <2>1, FS_Subset DEF IntegerOn
<1> HIDE DEF item, part, taken, take, before
<1>12. SumOver(take, U) = SumOver(take, taken)
  BY <1>2, <1>8, <1>11, SumSupport
<1>13. \A n \in taken : b[n] \in Allocation(k, c) /\ take[n] = g[b[n]]
  BY <1>4, <1>9, <1>10
<1>14. \A m, n \in taken : b[m] = b[n] => m = n
  BY <1>9, <1>10
<1>15. \A it \in Allocation(k, c) : \E n \in taken : b[n] = it
  BY <1>4, <1>9
<1>16. Allocation(k, c) = {b[n] : n \in taken}
  BY <1>4, <1>9
<1> HIDE DEF b
<1>17. SumOver(take, taken) = SumOver(g, Allocation(k, c))
  BY <1>11, <1>13, <1>14, <1>15, SumRenamed
<1>18. IsFiniteSet(Allocation(k, c))
  BY <1>11, <1>16, ImageIsFinite
<1>19. ASSUME NEW it \in Allocation(k, c) PROVE it.cents \in 0..journal[it.entry].cents
  <2>1. PICK n \in taken : it = item(n)
    BY <1>4
  <2>2. QED
    BY <1>9, <1>10, <2>1
<1>20. QED
  BY <1>7, <1>12, <1>17, <1>18, <1>19

-----------------------------------------------------------------------------
\* Items, and what they reserve, of a payout whose items a step leaves alone.
LEMMA ReservedUnchanged ==
    ASSUME IsFiniteSet(items), NEW k, ItemsOf(k)' = ItemsOf(k)
    PROVE  Reserved(k)' = Reserved(k)
<1> DEFINE f == [it \in items |-> it.cents]
           g == [it \in items' |-> it.cents]
           S == ItemsOf(k)
<1>1. IsFiniteSet(S) /\ \A it \in S : f[it] = g[it]
  BY FS_Subset DEF ItemsOf
<1>2. Reserved(k) = SumOver(f, S) /\ Reserved(k)' = SumOver(g, S)
  BY DEF Reserved
<1> HIDE DEF f, g, S
<1>3. QED
  BY <1>1, <1>2, SumCongruent

\* A step that touches no payout_item and opens no payout.
LEMMA ItemsStay ==
    ASSUME ItemsInv, TypeOK, UNCHANGED <<items, amount>>,
           \A n \in DOMAIN journal : journal'[n] = journal[n],
           \A k \in Keys : \/ status'[k] = status[k]
                           \/ status'[k] \in TERMINAL /\ status[k] # "NONE"
    PROVE  ItemsInv'
<1>1. Created' = Created
  BY DEF Created, TERMINAL
<1>2. \A k : ItemsOf(k)' = ItemsOf(k) /\ Reserved(k)' = Reserved(k)
  BY DEF ItemsOf, Reserved
<1>3. \A it \in items' : /\ it.cents \in 0..journal'[it.entry].cents
                         /\ journal'[it.entry].credit = "AVAILABLE"
  BY DEF ItemsInv, TypeOK
<1>4. ReservedWhole'
  <2> SUFFICES ASSUME NEW k \in Keys
               PROVE  /\ ItemsOf(k)' # {} => status'[k] # "NONE" /\ Reserved(k)' = amount'[k]
                      /\ status'[k] \in OPEN_PAYOUT_STATUSES => Reserved(k)' = amount'[k]
    BY DEF ReservedWhole
  <2>1. /\ ItemsOf(k) # {} => status[k] # "NONE" /\ Reserved(k) = amount[k]
        /\ status[k] \in OPEN_PAYOUT_STATUSES => Reserved(k) = amount[k]
    BY DEF ItemsInv, ReservedWhole
  <2>2. QED
    BY <1>2, <2>1 DEF TERMINAL, OPEN_PAYOUT_STATUSES
<1>5. QED
  BY <1>1, <1>3, <1>4 DEF ItemsInv

\* cancelPayout and markPayoutFailed delete the items of one payout and end it.
LEMMA ItemsReleased ==
    ASSUME ItemsInv, IInv, NEW r \in Requests, NEW final \in TERMINAL, ReleaseWith(r, final),
           request[r] # Idle
    PROVE  ItemsInv'
<1>1. PICK k \in Keys : k = request[r].key
  BY BusyRequest DEF IInv
<1>2. /\ items' = {it \in items : it.key # k} /\ amount' = amount /\ journal' = journal
      /\ status[k] # "NONE"
      /\ status'[k] = final /\ \A l \in Keys : l # k => status'[l] = status[l]
  BY <1>1 DEF ReleaseWith, IInv, TypeOK, RequestedExists
<1>3. IsFiniteSet(items')
  BY <1>2, FS_Subset DEF ItemsInv
<1>4. Created' = Created
  BY <1>2 DEF Created, TERMINAL
<1>5. \A it \in items' : /\ it.cents \in 0..journal'[it.entry].cents
                         /\ journal'[it.entry].credit = "AVAILABLE"
  BY <1>2 DEF ItemsInv
<1>6. ReservedWhole'
  <2> SUFFICES ASSUME NEW l \in Keys
               PROVE  /\ ItemsOf(l)' # {} => status'[l] # "NONE" /\ Reserved(l)' = amount'[l]
                      /\ status'[l] \in OPEN_PAYOUT_STATUSES => Reserved(l)' = amount'[l]
    BY DEF ReservedWhole
  <2>1. CASE l = k
    BY <1>2, <2>1 DEF ItemsOf, TERMINAL, OPEN_PAYOUT_STATUSES
  <2>2. CASE l # k
    <3>1. ItemsOf(l)' = ItemsOf(l)
      BY <1>2, <2>2 DEF ItemsOf
    <3>2. Reserved(l)' = Reserved(l)
      BY <3>1, ReservedUnchanged DEF ItemsInv
    <3>3. QED
      BY <1>2, <2>2, <3>1, <3>2 DEF ItemsInv, ReservedWhole
  <2>3. QED
    BY <2>1, <2>2
<1>7. QED
  BY <1>3, <1>4, <1>5, <1>6 DEF ItemsInv

\* createPayout reserves the whole amount of the payout it creates.
LEMMA ItemsReserved ==
    ASSUME ItemsInv, TypeOK, NEW k \in Keys, CreatePayout(k) PROVE ItemsInv'
<1> DEFINE A == Allocation(k, Payable)
           g == [it \in items' |-> it.cents]
<1>1. /\ items' = items \cup A /\ journal' = journal /\ status[k] = "NONE"
      /\ amount'[k] = Payable /\ Payable \in Nat
      /\ status'[k] = "DRAFT"
      /\ \A l \in Keys : l # k => status'[l] = status[l] /\ amount'[l] = amount[l]
  BY DEF CreatePayout, TypeOK
<1>2. Payable <= CentsOf(UnpaidCredits)
  BY PayableWithinCredits
<1>3. \A it \in A : g[it] = it.cents
  BY <1>1
<1>4. \A it \in A : /\ it.key = k /\ it.entry \in DOMAIN journal
                     /\ journal[it.entry].credit = "AVAILABLE"
  BY AllocationReserves
<1> HIDE DEF g
<1>5. /\ IsFiniteSet(A) /\ SumOver(g, A) = Payable
      /\ \A it \in A : it.cents \in 0..journal[it.entry].cents
  BY <1>1, <1>2, <1>3, AllocationFunds
<1> HIDE DEF A
<1>6. IsFiniteSet(items')
  BY <1>1, <1>5, FS_Union DEF ItemsInv
<1>7. IsFiniteSet(Created')
  <2>1. Created' = Created \cup {k}
    BY <1>1 DEF Created
  <2>2. QED
    BY <2>1, FS_AddElement DEF ItemsInv
<1>8. \A it \in items' : /\ it.cents \in 0..journal'[it.entry].cents
                         /\ journal'[it.entry].credit = "AVAILABLE"
  BY <1>1, <1>4, <1>5 DEF ItemsInv
<1>9. ItemsOf(k)' = A
  <2>1. ItemsOf(k) = {}
    BY <1>1 DEF ItemsInv, ReservedWhole
  <2>2. QED
    BY <1>1, <1>4, <2>1 DEF ItemsOf
<1>10. Reserved(k)' = Payable
  BY <1>5, <1>9 DEF Reserved, g
<1>11. ASSUME NEW l \in Keys, l # k
       PROVE  ItemsOf(l)' = ItemsOf(l) /\ Reserved(l)' = Reserved(l)
  <2>1. ItemsOf(l)' = ItemsOf(l)
    BY <1>1, <1>4, <1>11 DEF ItemsOf
  <2>2. QED
    BY <2>1, ReservedUnchanged DEF ItemsInv
<1>12. ReservedWhole'
  <2> SUFFICES ASSUME NEW l \in Keys
               PROVE  /\ ItemsOf(l)' # {} => status'[l] # "NONE" /\ Reserved(l)' = amount'[l]
                      /\ status'[l] \in OPEN_PAYOUT_STATUSES => Reserved(l)' = amount'[l]
    BY DEF ReservedWhole
  <2>1. CASE l = k
    BY <1>1, <1>10, <2>1
  <2>2. CASE l # k
    BY <1>1, <1>11, <2>2 DEF ItemsInv, ReservedWhole
  <2>3. QED
    BY <2>1, <2>2
<1>13. QED
  BY <1>6, <1>7, <1>8, <1>12 DEF ItemsInv

\* What a step does to the journal: nothing, or one posting at its end.
LEMMA JournalKeepsEntries ==
    ASSUME TypeOK, [Next]_vars
    PROVE  \A n \in DOMAIN journal : n \in DOMAIN journal' /\ journal'[n] = journal[n]
<1>1. ASSUME NEW p \in OtherPostings, OtherPosting(p)
      PROVE  \A n \in DOMAIN journal : n \in DOMAIN journal' /\ journal'[n] = journal[n]
  BY <1>1, AppendOne DEF OtherPosting, Postings
<1>2. ASSUME NEW r \in Requests, CommitPaid(r)
      PROVE  \A n \in DOMAIN journal : n \in DOMAIN journal' /\ journal'[n] = journal[n]
  <2>1. PICK p \in Postings : journal' = postEntries(journal, <<p>>)
    BY <1>2, CommitPaidPosting DEF Postings
  <2>2. QED
    BY <2>1, AppendOne
<1>3. ASSUME NEW r \in Requests,
             \/ \E k \in Keys : ReadCancel(r, k) \/ ReadProcess(r, k) \/ ExecutePayout(r, k)
             \/ CommitCancel(r) \/ CommitFailed(r)
             \/ TransferSucceeds(r) \/ TransferFails(r) \/ LockPaid(r) \/ Abort(r)
      PROVE  journal' = journal
  BY <1>3 DEF ReadCancel, ReadProcess, ExecutePayout, CommitCancel, CommitFailed,
     ReleaseWith, TransferSucceeds, TransferFails, LockPaid, Abort
<1>4. ASSUME (\E k \in Keys : CreatePayout(k)) \/ UNCHANGED vars PROVE journal' = journal
  BY <1>4 DEF CreatePayout, vars
<1>5. QED
  BY <1>1, <1>2, <1>3, <1>4 DEF Next

LEMMA StepItemsInv == IInv /\ ItemsInv /\ [Next]_vars => ItemsInv'
<1> SUFFICES ASSUME IInv, ItemsInv, [Next]_vars PROVE ItemsInv'
  OBVIOUS
<1>0. TypeOK /\ \A n \in DOMAIN journal : n \in DOMAIN journal' /\ journal'[n] = journal[n]
  BY JournalKeepsEntries DEF IInv
<1>1. ASSUME UNCHANGED <<items, amount, status>> PROVE ItemsInv'
  BY <1>0, <1>1, ItemsStay
<1>2. ASSUME NEW p \in OtherPostings, OtherPosting(p) PROVE ItemsInv'
  BY <1>1, <1>2 DEF OtherPosting
<1>3. ASSUME NEW k \in Keys, CreatePayout(k) PROVE ItemsInv'
  BY <1>0, <1>3, ItemsReserved
<1>4. ASSUME NEW r \in Requests, CommitCancel(r) \/ CommitFailed(r) PROVE ItemsInv'
  <2>1. PICK final \in TERMINAL : ReleaseWith(r, final)
    BY <1>4 DEF CommitCancel, CommitFailed, TERMINAL
  <2>2. request[r] # Idle
    BY <1>4 DEF CommitCancel, CommitFailed, Idle
  <2>3. QED
    BY <2>1, <2>2, ItemsReleased
<1>5. ASSUME NEW r \in Requests, CommitPaid(r) PROVE ItemsInv'
  <2> DEFINE k == request[r].key
  <2>1. k \in Keys /\ status[k] # "NONE"
    BY <1>0, <1>5, BusyRequest DEF CommitPaid, Idle, IInv, RequestedExists
  <2>2. \A l \in Keys : \/ status'[l] = status[l]
                        \/ status'[l] \in TERMINAL /\ status[l] # "NONE"
    BY <1>0, <1>5, <2>1 DEF CommitPaid, TypeOK, TERMINAL
  <2>3. UNCHANGED <<items, amount>>
    BY <1>5 DEF CommitPaid
  <2>4. QED
    BY <1>0, <2>2, <2>3, ItemsStay
<1>6. ASSUME NEW r \in Requests,
             \/ \E k \in Keys : ReadCancel(r, k) \/ ReadProcess(r, k) \/ ExecutePayout(r, k)
             \/ TransferSucceeds(r) \/ TransferFails(r) \/ LockPaid(r) \/ Abort(r)
      PROVE  ItemsInv'
  BY <1>1, <1>6 DEF ReadCancel, ReadProcess, ExecutePayout, TransferSucceeds,
     TransferFails, LockPaid, Abort
<1>7. CASE UNCHANGED vars
  BY <1>1, <1>7 DEF vars
<1>8. QED
  BY <1>2, <1>3, <1>4, <1>5, <1>6, <1>7 DEF Next

LEMMA InitItemsInv == Init => ItemsInv
<1> SUFFICES ASSUME Init PROVE ItemsInv
  OBVIOUS
<1>1. Created = {} /\ \A k : ItemsOf(k) = {}
  BY DEF Init, Created, ItemsOf
<1>2. \A k \in Keys : status[k] = "NONE"
  BY DEF Init
<1>3. QED
  BY <1>1, <1>2, FS_EmptySet DEF Init, ItemsInv, ReservedWhole, OPEN_PAYOUT_STATUSES

(***************************************************************************)
(* createPayout, cancelPayout, markPayoutFailed: an open payout is funded  *)
(* to the centime by the credits its payout_items reserve, and takes of no *)
(* credit more than it holds, whatever captures, clawbacks and concurrent  *)
(* payouts the ledger sees.                                                *)
(***************************************************************************)
THEOREM OpenPayoutFunded == Spec => []OpenPayoutIsFunded
<1>1. ItemsInv => OpenPayoutIsFunded
  BY DEF ItemsInv, ReservedWhole, OpenPayoutIsFunded, Reserved, ItemsOf, SumOver
<1>2. QED
  BY <1>1, InitIInv, StepIInv, InitItemsInv, StepItemsInv, PTL DEF Spec

-----------------------------------------------------------------------------
(***************************************************************************)
(* What the two halves of PayoutWithinFunds need.  markPayoutPaid read the *)
(* balance under the lock it still holds; a settlement posting carries the *)
(* amount of its payout.                                                   *)
(***************************************************************************)
PayerFunded ==
    \A r \in Requests : request[r].op = "pay" =>
        amount[request[r].key] <= balanceOf(journal, "AVAILABLE")

PostedAmounts ==
    \A n \in DOMAIN journal : journal[n].category = "PAYOUT" =>
        /\ journal[n].sourceId \in Keys
        /\ journal[n].cents = amount[journal[n].sourceId]

LEMMA BalanceIsNumber ==
    ASSUME TypeOK PROVE balanceOf(journal, "AVAILABLE") \in Int
<1>1. DOMAIN journal \in SUBSET DOMAIN journal
  OBVIOUS
<1>2. QED
  BY <1>1, JournalOfAmounts, BalanceIsInteger DEF balanceOf

\* While a request is about to pay, nobody else posts and no amount changes.
LEMMA StepPayerFunded == IInv /\ PayerFunded /\ [Next]_vars => PayerFunded'
<1> SUFFICES ASSUME IInv, PayerFunded, [Next]_vars PROVE PayerFunded'
  OBVIOUS
<1>0. TypeOK
  BY DEF IInv
<1>1. ASSUME lock = Free PROVE \A r \in Requests : request[r].op # "pay"
  BY <1>1, PayoutsAssumption DEF IInv, LockHeldByPayer
<1>2. ASSUME \A r \in Requests : request'[r].op # "pay" PROVE PayerFunded'
  BY <1>2 DEF PayerFunded
<1>3. ASSUME NEW r \in Requests, NEW state, state.op # "pay",
             request' = [request EXCEPT ![r] = state], UNCHANGED <<journal, amount>>
      PROVE  PayerFunded'
  BY <1>0, <1>3 DEF PayerFunded, TypeOK
<1>4. ASSUME NEW p \in OtherPostings, OtherPosting(p) PROVE PayerFunded'
  BY <1>1, <1>2, <1>4 DEF OtherPosting
<1>5. ASSUME NEW k \in Keys, CreatePayout(k) PROVE PayerFunded'
  BY <1>1, <1>2, <1>5 DEF CreatePayout
<1>6. ASSUME NEW r \in Requests, NEW k \in Keys,
             ReadCancel(r, k) \/ ReadProcess(r, k) \/ ExecutePayout(r, k)
      PROVE  PayerFunded'
  <2>1. PICK op \in Operations :
           op # "pay" /\ request' = [request EXCEPT ![r] = Doing(op, k)]
    BY <1>6 DEF ReadCancel, ReadProcess, ExecutePayout, Operations
  <2>2. Doing(op, k).op # "pay"
    BY <2>1 DEF Doing
  <2>3. QED
    BY <1>3, <1>6, <2>1, <2>2 DEF ReadCancel, ReadProcess, ExecutePayout
<1>7. ASSUME NEW r \in Requests, CommitCancel(r) \/ CommitFailed(r) \/ Abort(r)
      PROVE  PayerFunded'
  BY <1>3, <1>7 DEF CommitCancel, CommitFailed, ReleaseWith, Abort, Idle
<1>8. ASSUME NEW r \in Requests, TransferSucceeds(r) PROVE PayerFunded'
  <2>1. request[r] \in [op : Operations, key : Keys]
    BY <1>0, <1>8, BusyRequest DEF TransferSucceeds, Idle
  <2>2. request' = [request EXCEPT ![r] = Doing("settle", request[r].key)]
    BY <1>0, <1>8, <2>1, RequestMoves DEF TransferSucceeds, Operations, TypeOK
  <2>3. QED
    BY <1>3, <1>8, <2>2 DEF TransferSucceeds, Doing
<1>9. ASSUME NEW r \in Requests, TransferFails(r) PROVE PayerFunded'
  BY <1>3, <1>9 DEF TransferFails, Idle, Doing
<1>10. ASSUME NEW r \in Requests, LockPaid(r) PROVE PayerFunded'
  <2> DEFINE k == request[r].key
  <2>1. request[r] \in [op : Operations, key : Keys] /\ UNCHANGED <<journal, amount>>
    BY <1>0, <1>10, BusyRequest DEF LockPaid, Idle
  <2>2. CASE request' = [request EXCEPT ![r] = Idle]
    BY <1>3, <2>1, <2>2 DEF Idle
  <2>3. CASE /\ request' = [request EXCEPT ![r].op = "pay"]
             /\ ~(balanceOf(journal, "AVAILABLE") < amount[k])
    <3>1. request'[r] = Doing("pay", k) /\ \A s \in Requests \ {r} : request'[s] = request[s]
      BY <1>0, <2>1, <2>3, RequestMoves DEF TypeOK, Operations
    <3>2. balanceOf(journal, "AVAILABLE") \in Int /\ amount[k] \in Nat
      BY <1>0, <2>1, BalanceIsNumber DEF TypeOK
    <3>3. amount[k] <= balanceOf(journal, "AVAILABLE")
      BY <2>3, <3>2
    <3>4. request'[r].key = k
      BY <3>1 DEF Doing
    <3>5. QED
      BY <2>1, <3>1, <3>3, <3>4 DEF PayerFunded
  <2>4. QED
    BY <1>10, <2>2, <2>3 DEF LockPaid
<1>11. ASSUME NEW r \in Requests, CommitPaid(r) PROVE PayerFunded'
  <2>1. \A s \in Requests : s # r => request[s].op # "pay"
    BY <1>11 DEF CommitPaid, IInv, LockHeldByPayer
  <2>2. request'[r] = Idle /\ \A s \in Requests \ {r} : request'[s] = request[s]
    BY <1>0, <1>11 DEF CommitPaid, TypeOK
  <2>3. QED
    BY <1>2, <2>1, <2>2 DEF Idle
<1>12. CASE UNCHANGED vars
  BY <1>12 DEF vars, PayerFunded
<1>13. QED
  BY <1>4, <1>5, <1>6, <1>7, <1>8, <1>9, <1>10, <1>11, <1>12 DEF Next

LEMMA StepPostedAmounts == IInv /\ PostedAmounts /\ [Next]_vars => PostedAmounts'
<1> SUFFICES ASSUME IInv, PostedAmounts, [Next]_vars PROVE PostedAmounts'
  OBVIOUS
<1>0. TypeOK
  BY DEF IInv
<1>1. ASSUME UNCHANGED <<journal, amount>> PROVE PostedAmounts'
  BY <1>1 DEF PostedAmounts
<1>2. ASSUME NEW p \in OtherPostings, OtherPosting(p) PROVE PostedAmounts'
  <2>1. p.category # "PAYOUT" /\ p \in Postings /\ amount' = amount
    BY <1>2, PayoutsAssumption DEF Postings, OtherPosting
  <2>2. QED
    BY <1>0, <1>2, <2>1, AppendOne DEF OtherPosting, PostedAmounts
<1>3. ASSUME NEW k \in Keys, CreatePayout(k) PROVE PostedAmounts'
  <2>1. journal' = journal /\ \A l \in Keys : l # k => amount'[l] = amount[l]
    BY <1>0, <1>3 DEF CreatePayout, TypeOK
  <2>2. ~Posted(k)
    BY <1>3 DEF CreatePayout, IInv, PostedIsTerminal, TERMINAL
  <2>3. \A n \in DOMAIN journal : journal[n].category = "PAYOUT" => journal[n].sourceId # k
    BY <2>2 DEF Posted, IsSettlementOf
  <2>4. QED
    BY <2>1, <2>3 DEF PostedAmounts
<1>4. ASSUME NEW r \in Requests, CommitPaid(r) PROVE PostedAmounts'
  <2> DEFINE k == request[r].key
             p == posting("AVAILABLE", "PAID_OUT", amount[k], "PAYOUT", "payout", k, 0)
  <2>1. k \in Keys /\ p \in Postings /\ journal' = postEntries(journal, <<p>>)
    BY <1>0, <1>4, CommitPaidPosting DEF Postings
  <2>2. amount' = amount /\ p.sourceId = k /\ p.cents = amount[k]
    BY <1>4 DEF CommitPaid, posting
  <2> HIDE DEF p, k
  <2>3. QED
    BY <1>0, <2>1, <2>2, AppendOne DEF PostedAmounts
<1>5. ASSUME NEW r \in Requests,
             \/ \E k \in Keys : ReadCancel(r, k) \/ ReadProcess(r, k) \/ ExecutePayout(r, k)
             \/ CommitCancel(r) \/ CommitFailed(r)
             \/ TransferSucceeds(r) \/ TransferFails(r) \/ LockPaid(r) \/ Abort(r)
      PROVE  UNCHANGED <<journal, amount>>
  BY <1>5 DEF ReadCancel, ReadProcess, ExecutePayout, CommitCancel, CommitFailed,
     ReleaseWith, TransferSucceeds, TransferFails, LockPaid, Abort
<1>6. CASE UNCHANGED vars
  BY <1>1, <1>6 DEF vars
<1>7. QED
  BY <1>1, <1>2, <1>3, <1>4, <1>5, <1>6 DEF Next

-----------------------------------------------------------------------------
\* The postings that touch AVAILABLE, by the role they have for createPayout.
AvailableCredits == {n \in DOMAIN journal : journal[n].credit = "AVAILABLE"}

ReservedCredits == {n \in AvailableCredits : IsReserved(n)}

PayoutDebits == {n \in DOMAIN journal : journal[n].category = "PAYOUT"}

\* The cents of disjoint sets of postings add up.
LEMMA CentsOfUnion ==
    ASSUME TypeOK, NEW M \in SUBSET DOMAIN journal, NEW N \in SUBSET DOMAIN journal,
           M \cap N = {}
    PROVE  CentsOf(M \cup N) = CentsOf(M) + CentsOf(N)
<1> DEFINE f == [n \in DOMAIN journal |-> journal[n].cents]
<1>1. IsFiniteSet(M) /\ IsFiniteSet(N)
  BY CentsAreAmounts
<1>2. IntegerOn(f, M \cup N)
  BY JournalOfAmounts DEF IntegerOn
<1>3. \A X : CentsOf(X) = SumOver(f, X)
  BY DEF CentsOf, SumOver
<1> HIDE DEF f
<1>4. QED
  BY <1>1, <1>2, <1>3, SumDisjointUnion

\* AVAILABLE: the credits, less the clawbacks and fees, less the payouts.
LEMMA AvailableBalance ==
    ASSUME TypeOK
    PROVE  balanceOf(journal, "AVAILABLE")
              = CentsOf(AvailableCredits) - CentsOf(OtherDebits) - CentsOf(PayoutDebits)
<1> DEFINE D == DOMAIN journal
           debits == {n \in D : journal[n].debit = "AVAILABLE"}
           f == [n \in D |-> journal[n].cents]
           d == [n \in D |-> delta(journal[n], "AVAILABLE")]
           cr == [n \in D |-> IF journal[n].credit = "AVAILABLE" THEN journal[n].cents ELSE 0]
           db == [n \in D |-> IF journal[n].debit = "AVAILABLE" THEN journal[n].cents ELSE 0]
<1>1. /\ IsFiniteSet(D)
      /\ \A n \in D : journal[n] \in Postings /\ journal[n].cents \in Nat
  BY JournalOfAmounts
<1>2. /\ IntegerOn(d, D) /\ IntegerOn(db, D) /\ IntegerOn(cr, D) /\ IntegerOn(f, D)
      /\ \A n \in D : cr[n] = d[n] + db[n]
  BY <1>1 DEF IntegerOn, delta
<1>3. /\ AvailableCredits \in SUBSET D /\ debits \in SUBSET D
      /\ OtherDebits \in SUBSET D /\ PayoutDebits \in SUBSET D
  BY DEF AvailableCredits, OtherDebits, PayoutDebits
<1>4. debits = OtherDebits \cup PayoutDebits /\ OtherDebits \cap PayoutDebits = {}
  <2>1. ASSUME NEW p \in Postings, p.category = "PAYOUT" PROVE p.debit = "AVAILABLE"
    BY <2>1, PayoutsAssumption DEF Postings, PayoutPostings
  <2>2. QED
    BY <1>1, <2>1 DEF OtherDebits, PayoutDebits
<1>5. /\ \A n \in D \ AvailableCredits : cr[n] = 0
      /\ \A n \in AvailableCredits : cr[n] = f[n]
      /\ \A n \in D \ debits : db[n] = 0
      /\ \A n \in debits : db[n] = f[n]
  BY DEF AvailableCredits
<1>6. balanceOf(journal, "AVAILABLE") = SumOver(d, D) /\ \A X : CentsOf(X) = SumOver(f, X)
  BY DEF balanceOf, balanceOver, CentsOf, SumOver
<1> HIDE DEF D, f, d, cr, db, debits
<1>7. SumOver(cr, D) = SumOver(d, D) + SumOver(db, D)
  BY <1>1, <1>2, SumPlus
<1>8. /\ IsFiniteSet(AvailableCredits) /\ IsFiniteSet(debits)
      /\ IntegerOn(cr, AvailableCredits) /\ IntegerOn(db, debits)
  BY <1>1, <1>2, <1>3, FS_Subset DEF IntegerOn
<1>9. SumOver(cr, D) = CentsOf(AvailableCredits)
  <2>1. SumOver(cr, D) = SumOver(cr, AvailableCredits)
    BY <1>1, <1>3, <1>5, <1>8, SumSupport
  <2>2. SumOver(cr, AvailableCredits) = SumOver(f, AvailableCredits)
    BY <1>5, <1>8, SumCongruent
  <2>3. QED
    BY <1>6, <2>1, <2>2
<1>10. SumOver(db, D) = CentsOf(debits)
  <2>1. SumOver(db, D) = SumOver(db, debits)
    BY <1>1, <1>3, <1>5, <1>8, SumSupport
  <2>2. SumOver(db, debits) = SumOver(f, debits)
    BY <1>5, <1>8, SumCongruent
  <2>3. QED
    BY <1>6, <2>1, <2>2
<1>11. CentsOf(debits) = CentsOf(OtherDebits) + CentsOf(PayoutDebits)
  BY <1>3, <1>4, CentsOfUnion DEF D
<1>12. /\ CentsOf(OtherDebits) \in Nat /\ CentsOf(PayoutDebits) \in Nat
       /\ CentsOf(AvailableCredits) \in Nat
  BY <1>3, CentsAreAmounts DEF D
<1>13. SumOver(d, D) \in Int
  BY <1>1, <1>2, SumIsInteger
<1>14. QED
  BY <1>6, <1>7, <1>9, <1>10, <1>11, <1>12, <1>13

\* The reserved credits hold at least what the payout_items take of them.
LEMMA ReservedCreditsHold ==
    ASSUME TypeOK, ItemsInv, EntryReservedOnce
    PROVE  LET f == [it \in items |-> it.cents]
           IN  /\ \A it \in items : f[it] \in Nat
               /\ SumOver(f, items) <= CentsOf(ReservedCredits)
<1> DEFINE f == [it \in items |-> it.cents]
           h == [it \in items |-> journal[it.entry].cents]
           c == [n \in DOMAIN journal |-> journal[n].cents]
           b == [it \in items |-> it.entry]
<1>1. /\ IsFiniteSet(items)
      /\ \A it \in items : /\ it.entry \in DOMAIN journal
                           /\ it.cents \in 0..journal[it.entry].cents
                           /\ journal[it.entry].credit = "AVAILABLE"
  BY DEF ItemsInv, TypeOK
<1>2. ASSUME NEW it \in items PROVE f[it] \in Nat /\ h[it] \in Nat /\ f[it] <= h[it]
  <2>1. journal[it.entry].cents \in Nat /\ it.cents \in 0..journal[it.entry].cents
    BY <1>1, JournalOfAmounts
  <2>2. QED
    BY <2>1
<1>3. /\ \A it \in items : b[it] \in ReservedCredits /\ h[it] = c[b[it]]
      /\ \A it, other \in items : b[it] = b[other] => it = other
      /\ \A n \in ReservedCredits : \E it \in items : b[it] = n
  BY <1>1 DEF ReservedCredits, AvailableCredits, IsReserved, EntryReservedOnce
<1>4. CentsOf(ReservedCredits) = SumOver(c, ReservedCredits)
  BY DEF CentsOf, SumOver
<1> HIDE DEF f, h, c, b
<1>5. IntegerOn(f, items) /\ IntegerOn(h, items) /\ AtMost(f, h, items)
  BY <1>2 DEF IntegerOn, AtMost
<1>6. SumOver(f, items) <= SumOver(h, items)
  BY <1>1, <1>5, SumMonotone
<1>7. SumOver(h, items) = SumOver(c, ReservedCredits)
  BY <1>1, <1>3, <1>5, SumRenamed
<1>8. QED
  BY <1>2, <1>4, <1>6, <1>7 DEF f

(***************************************************************************)
(* When no cancel raced a process, the payout_items cover every payout     *)
(* that is open or has been posted.                                        *)
(***************************************************************************)
LEMMA ItemsCoverPayouts ==
    ASSUME IInv, ItemsInv, PostedAmounts, \A l \in Keys : ~Torn(l),
           \A it \in items : it.cents \in Nat
    PROVE  LET f == [it \in items |-> it.cents]
           IN  /\ Scheduled \in Nat
               /\ Scheduled + CentsOf(PayoutDebits) <= SumOver(f, items)
<1> DEFINE f == [it \in items |-> it.cents]
           key == [it \in items |-> it.key]
           R == [k \in Created |-> Reserved(k)]
           Open == {k \in Keys : status[k] \in OPEN_PAYOUT_STATUSES}
           b == [n \in PayoutDebits |-> journal[n].sourceId]
           Paid == {b[n] : n \in PayoutDebits}
           c == [n \in DOMAIN journal |-> journal[n].cents]
<1>0. TypeOK /\ IsFiniteSet(items) /\ IsFiniteSet(Created)
  BY DEF IInv, ItemsInv
<1>1. \A it \in items : f[it] \in Nat /\ key[it] \in Created
  <2> SUFFICES ASSUME NEW it \in items PROVE it.key \in Created
    OBVIOUS
  <2>1. it.key \in Keys /\ it \in ItemsOf(it.key)
    BY <1>0 DEF TypeOK, ItemsOf
  <2>2. QED
    BY <2>1 DEF ItemsInv, ReservedWhole, Created
<1>2. \A k \in Created : R[k] = SumOver(f, {it \in items : key[it] = k})
  <2> SUFFICES ASSUME NEW k \in Created
               PROVE  Reserved(k) = SumOver(f, {it \in items : key[it] = k})
    OBVIOUS
  <2>1. {it \in items : key[it] = k} = ItemsOf(k)
    BY DEF ItemsOf
  <2>2. QED
    BY <2>1 DEF Reserved
<1>3. SumOver(f, items) = SumOver(R, Created)
  <2> HIDE DEF f, key, R
  <2>1. IntegerOn(f, items) /\ Grouped(f, items, key, Created, R)
    BY <1>1, <1>2 DEF IntegerOn, Grouped
  <2>2. QED
    BY <1>0, <2>1, SumOfGroups
<1>4. \A k \in Created : R[k] \in Nat
  <2> SUFFICES ASSUME NEW k \in Created PROVE R[k] \in Nat
    OBVIOUS
  <2> DEFINE S == {it \in items : key[it] = k}
  <2>1. IsFiniteSet(S) /\ \A it \in S : f[it] \in Nat
    BY <1>0, <1>1, FS_Subset
  <2>2. R[k] = SumOver(f, S)
    BY <1>2
  <2> HIDE DEF S, f, R, key
  <2>3. QED
    BY <2>1, <2>2, SumOfAmounts
<1>5. \A k \in Open : k \in Created /\ R[k] = amount[k]
  BY DEF Created, OPEN_PAYOUT_STATUSES, ItemsInv, ReservedWhole
<1>6. ASSUME NEW n \in PayoutDebits
      PROVE  /\ b[n] \in Created /\ b[n] \notin Open /\ R[b[n]] = amount[b[n]]
             /\ c[n] = amount[b[n]]
  <2>1. /\ n \in DOMAIN journal /\ b[n] = journal[n].sourceId /\ b[n] \in Keys
        /\ c[n] = amount[b[n]] /\ IsSettlementOf(journal[n], b[n])
    BY DEF PayoutDebits, PostedAmounts, IsSettlementOf
  <2> HIDE DEF b, R
  <2>2. status[b[n]] = "PAID" /\ \E it \in items : it.key = b[n]
    BY <2>1 DEF Torn
  <2>3. ItemsOf(b[n]) # {} /\ b[n] \in Created /\ b[n] \notin Open
    BY <2>1, <2>2 DEF ItemsOf, Created, OPEN_PAYOUT_STATUSES
  <2>4. Reserved(b[n]) = amount[b[n]]
    BY <2>1, <2>3 DEF ItemsInv, ReservedWhole
  <2>5. QED
    BY <2>1, <2>3, <2>4 DEF R
<1>7. \A m, n \in PayoutDebits : b[m] = b[n] => m = n
  <2> SUFFICES ASSUME NEW m \in PayoutDebits, NEW n \in PayoutDebits,
                      journal[m].sourceId = journal[n].sourceId
               PROVE  m = n
    OBVIOUS
  <2>1. /\ m \in DOMAIN journal /\ n \in DOMAIN journal /\ journal[m].sourceId \in Keys
        /\ IsSettlementOf(journal[m], journal[m].sourceId)
        /\ IsSettlementOf(journal[n], journal[m].sourceId)
    BY DEF PayoutDebits, PostedAmounts, IsSettlementOf
  <2>2. QED
    BY <2>1 DEF IInv, SettledAtMostOnce
<1>8. PayoutDebits \in SUBSET DOMAIN journal
  BY DEF PayoutDebits
<1>9. IsFiniteSet(PayoutDebits) /\ CentsOf(PayoutDebits) \in Nat
  BY <1>0, <1>8, CentsAreAmounts
<1>10. CentsOf(PayoutDebits) = SumOver(c, PayoutDebits) /\ Scheduled = SumOver(amount, Open)
  BY DEF CentsOf, SumOver, Scheduled
<1>11. Paid \in SUBSET Created /\ Open \in SUBSET Created /\ Paid \cap Open = {}
  BY <1>5, <1>6
<1>12. /\ \A n \in PayoutDebits : b[n] \in Paid /\ c[n] = R[b[n]]
       /\ \A k \in Paid : \E n \in PayoutDebits : b[n] = k
  BY <1>6
<1>13. IntegerOn(c, PayoutDebits)
  <2>1. \A n \in PayoutDebits : c[n] \in Int
    BY <1>0, <1>8, JournalOfAmounts
  <2>2. QED
    BY <2>1 DEF IntegerOn
<1> HIDE DEF f, key, R, Open, b, Paid, c
<1>14. SumOver(c, PayoutDebits) = SumOver(R, Paid)
  BY <1>7, <1>9, <1>12, <1>13, SumRenamed
<1>15. IsFiniteSet(Open) /\ IsFiniteSet(Paid)
  BY <1>0, <1>11, FS_Subset
<1>16. SumOver(amount, Open) = SumOver(R, Open)
  BY <1>5, <1>15, SumCongruent
<1>17. SumOver(R, Paid \cup Open) = SumOver(R, Paid) + SumOver(R, Open)
  <2>1. IntegerOn(R, Paid \cup Open)
    BY <1>4, <1>11 DEF IntegerOn
  <2>2. QED
    BY <1>11, <1>15, <2>1, SumDisjointUnion
<1>18. /\ SumOver(R, Paid \cup Open) <= SumOver(R, Created)
       /\ SumOver(R, Open) \in Nat /\ SumOver(R, Paid) \in Nat
       /\ SumOver(R, Created) \in Nat
  <2>1. Paid \cup Open \in SUBSET Created
    BY <1>11
  <2>2. QED
    BY <1>0, <1>4, <1>11, <2>1, SumOfAmounts
<1>19. QED
  BY <1>3, <1>10, <1>14, <1>16, <1>17, <1>18 DEF f

\* createPayout drafts within what the settlement summary shows.
LEMMA DraftIsEligible ==
    ASSUME IInv, ItemsInv, EntryReservedOnce, PostedAmounts, \A l \in Keys : ~Torn(l),
           Payable \in Nat \ {0}
    PROVE  Payable <= Eligible
<1> DEFINE f == [it \in items |-> it.cents]
           reserved == SumOver(f, items)
           bal == balanceOf(journal, "AVAILABLE")
<1>0. TypeOK
  BY DEF IInv
<1>1. (\A it \in items : f[it] \in Nat) /\ reserved <= CentsOf(ReservedCredits)
  BY <1>0, ReservedCreditsHold
<1>2. \A it \in items : it.cents \in Nat
  BY <1>1
<1>3. Scheduled \in Nat /\ Scheduled + CentsOf(PayoutDebits) <= reserved
  BY <1>2, ItemsCoverPayouts
<1>4. reserved \in Nat
  <2>1. IsFiniteSet(items)
    BY DEF ItemsInv
  <2> HIDE DEF f
  <2>2. QED
    BY <1>1, <2>1, SumOfAmounts
<1>5. /\ AvailableCredits = UnpaidCredits \cup ReservedCredits
      /\ UnpaidCredits \cap ReservedCredits = {}
      /\ UnpaidCredits \in SUBSET DOMAIN journal
      /\ ReservedCredits \in SUBSET DOMAIN journal
      /\ OtherDebits \in SUBSET DOMAIN journal
      /\ PayoutDebits \in SUBSET DOMAIN journal
  BY DEF AvailableCredits, UnpaidCredits, ReservedCredits, OtherDebits, PayoutDebits
<1>6. CentsOf(AvailableCredits) = CentsOf(UnpaidCredits) + CentsOf(ReservedCredits)
  BY <1>0, <1>5, CentsOfUnion
<1>7. /\ CentsOf(UnpaidCredits) \in Nat /\ CentsOf(ReservedCredits) \in Nat
      /\ CentsOf(OtherDebits) \in Nat /\ CentsOf(PayoutDebits) \in Nat
  BY <1>0, <1>5, CentsAreAmounts
<1>8. bal = CentsOf(AvailableCredits) - CentsOf(OtherDebits) - CentsOf(PayoutDebits)
  BY <1>0, AvailableBalance
<1>9. Payable = CentsOf(UnpaidCredits) - CentsOf(OtherDebits)
  BY DEF Payable
<1> HIDE DEF f, reserved, bal
<1>10. Payable <= bal - Scheduled
  BY <1>1, <1>3, <1>4, <1>6, <1>7, <1>8, <1>9
<1>11. bal - Scheduled \in Int
  BY <1>3, <1>6, <1>7, <1>8
<1>12. Eligible = IF bal - Scheduled > 0 THEN bal - Scheduled ELSE 0
  BY DEF Eligible, bal
<1>13. QED
  BY <1>10, <1>11, <1>12

\* markPayoutPaid posts what it re-validated.
LEMMA PaymentIsCovered ==
    ASSUME IInv, PayerFunded, NEW r \in Requests, CommitPaid(r)
    PROVE  balanceOf(journal', "AVAILABLE") >= 0
<1> DEFINE k == request[r].key
           p == posting("AVAILABLE", "PAID_OUT", amount[k], "PAYOUT", "payout", k, 0)
<1>0. TypeOK
  BY DEF IInv
<1>1. k \in Keys /\ p \in Postings /\ journal' = postEntries(journal, <<p>>)
  BY <1>0, CommitPaidPosting DEF Postings
<1>2. amount[k] \in Nat /\ amount[k] <= balanceOf(journal, "AVAILABLE")
  BY <1>0, <1>1 DEF TypeOK, PayerFunded, CommitPaid
<1>3. p.cents = amount[k] /\ delta(p, "AVAILABLE") = 0 - amount[k]
  BY <1>2 DEF posting, delta
<1> HIDE DEF p, k
<1>4. /\ IsSequence(<<p>>) /\ IntegerCents(<<p>>)
      /\ balanceOf(<<p>>, "AVAILABLE") = 0 - amount[k]
  BY <1>2, <1>3, BalanceOfOne
<1>5. balanceOf(journal \o <<p>>, "AVAILABLE")
         = balanceOf(journal, "AVAILABLE") + balanceOf(<<p>>, "AVAILABLE")
  BY <1>0, <1>4, JournalOfAmounts, BalanceOfAppended
<1>6. balanceOf(journal, "AVAILABLE") \in Int
  BY <1>0, BalanceIsNumber
<1>7. QED
  BY <1>1, <1>2, <1>4, <1>5, <1>6 DEF postEntries

\* Which steps draft a payout, and which mark one PAID.
LEMMA StepWithinFunds ==
    ASSUME IInv, ItemsInv, EntryReservedOnce, PostedAmounts, PayerFunded, Next,
           NEW k \in Keys
    PROVE  PaysWithinBalance(k) /\ DraftsWithinEligible(k)
<1>0. TypeOK
  BY DEF IInv
<1>1. ASSUME status'[k] # "PAID" \/ status[k] = "PAID" PROVE PaysWithinBalance(k)
  BY <1>1 DEF PaysWithinBalance
<1>2. ASSUME status'[k] # "DRAFT" \/ status[k] # "NONE" PROVE DraftsWithinEligible(k)
  BY <1>2 DEF DraftsWithinEligible
<1>3. ASSUME UNCHANGED status PROVE PaysWithinBalance(k) /\ DraftsWithinEligible(k)
  BY <1>1, <1>2, <1>3
<1>4. ASSUME NEW l \in Keys, CreatePayout(l)
      PROVE  PaysWithinBalance(k) /\ DraftsWithinEligible(k)
  <2>1. CASE k = l
    <3>1. /\ status'[k] = "DRAFT" /\ amount'[k] = Payable /\ Payable \in Nat \ {0}
      BY <1>0, <1>4, <2>1 DEF CreatePayout, TypeOK
    <3>2. DraftsWithinEligible(k)
      BY <3>1, DraftIsEligible DEF DraftsWithinEligible
    <3>3. QED
      BY <1>1, <3>1, <3>2
  <2>2. CASE k # l
    BY <1>0, <1>1, <1>2, <1>4, <2>2 DEF CreatePayout, TypeOK
  <2>3. QED
    BY <2>1, <2>2
<1>5. ASSUME NEW r \in Requests, CommitPaid(r)
      PROVE  PaysWithinBalance(k) /\ DraftsWithinEligible(k)
  <2>1. balanceOf(journal', "AVAILABLE") >= 0
    BY <1>5, PaymentIsCovered
  <2>2. status'[k] = status[k] \/ status'[k] = "PAID"
    BY <1>0, <1>5 DEF CommitPaid, TypeOK
  <2>3. QED
    BY <1>2, <2>1, <2>2 DEF PaysWithinBalance
<1>6. ASSUME NEW r \in Requests, CommitCancel(r) \/ CommitFailed(r)
      PROVE  PaysWithinBalance(k) /\ DraftsWithinEligible(k)
  <2>1. status'[k] = status[k] \/ status'[k] \in {"CANCELLED", "FAILED"}
    BY <1>0, <1>6 DEF CommitCancel, CommitFailed, ReleaseWith, TypeOK
  <2>2. QED
    BY <1>1, <1>2, <2>1
<1>7. ASSUME NEW r \in Requests,
             \/ \E l \in Keys : ReadCancel(r, l) \/ ReadProcess(r, l) \/ ExecutePayout(r, l)
             \/ TransferSucceeds(r) \/ TransferFails(r) \/ LockPaid(r) \/ Abort(r)
      PROVE  UNCHANGED status
  BY <1>7 DEF ReadCancel, ReadProcess, ExecutePayout, TransferSucceeds, TransferFails,
     LockPaid, Abort
<1>8. ASSUME NEW p \in OtherPostings, OtherPosting(p) PROVE UNCHANGED status
  BY <1>8 DEF OtherPosting
<1>9. QED
  BY <1>3, <1>4, <1>5, <1>6, <1>7, <1>8 DEF Next

(***************************************************************************)
(* createPayout, markPayoutPaid: a payout is drafted within AVAILABLE less *)
(* the open payouts (as long as no cancel raced a process and tore some    *)
(* payout) and AVAILABLE is not negative once it is paid, for any number   *)
(* of payouts, requests and other movements.                               *)
(***************************************************************************)
THEOREM PayoutStaysWithinFunds == Spec => PayoutWithinFunds
<1>1. Init => PayerFunded /\ PostedAmounts
  BY DEF Init, PayerFunded, PostedAmounts, Idle
<1>2. /\ IInv /\ ItemsInv /\ EntryReservedOnce /\ PostedAmounts /\ PayerFunded
      /\ [Next]_vars
      => [\A k \in Keys : PaysWithinBalance(k) /\ DraftsWithinEligible(k)]_vars
  BY StepWithinFunds
<1>3. Spec => [](PayerFunded /\ PostedAmounts)
  BY <1>1, InitIInv, StepIInv, StepPayerFunded, StepPostedAmounts, PTL DEF Spec
<1>4. Spec => [](IInv /\ ItemsInv)
  BY InitIInv, StepIInv, InitItemsInv, StepItemsInv, PTL DEF Spec
<1>5. QED
  BY <1>2, <1>3, <1>4, CreditReservedOnce, PTL DEF Spec, PayoutWithinFunds
=============================================================================
