---------------------------- MODULE DisputesProofs --------------------------
(***************************************************************************)
(* Proofs about clawbacks, for any number of disputes and of concurrent    *)
(* resolveDispute calls, and every funding policy.                         *)
(***************************************************************************)
EXTENDS Disputes, MoneyProofs

(***************************************************************************)
(* fundReversal is total-preserving: its three legs are amounts and sum to *)
(* the gross, and it takes no more than the balances hold unless the       *)
(* policy is ALLOW_NEGATIVE.                                               *)
(***************************************************************************)
LEMMA FundReversalIsExact ==
    ASSUME NEW gross \in Nat, NEW available, NEW reserve,
           Fundable(available, reserve)
    PROVE  LET a == fundReversal(Funding, gross, available, reserve)
           IN  /\ a \in Allocations
               /\ a.fromAvailable + a.fromReserve + a.uncovered = gross
               /\ a.fromReserve <= reserve
               /\ Funding # "ALLOW_NEGATIVE" => a.fromAvailable <= available
<1> DEFINE fromReserve == IF Funding = "DEBIT_RESERVE"
                          THEN Smaller(gross, reserve) ELSE 0
           rest == gross - fromReserve
           a == fundReversal(Funding, gross, available, reserve)
<1>1. available \in Nat /\ reserve \in Nat
  BY DEF Fundable
<1>2. fromReserve \in 0..gross /\ fromReserve <= reserve /\ rest \in Nat
  BY <1>1 DEF Smaller
<1>3. CASE Funding \in {"NET_FROM_AVAILABLE", "DEBIT_RESERVE"}
  <2>1. a = [fromAvailable |-> Smaller(rest, available),
             fromReserve |-> fromReserve,
             uncovered |-> gross - fromReserve - Smaller(rest, available)]
    BY <1>3 DEF fundReversal
  <2>2. Smaller(rest, available) \in 0..rest /\ Smaller(rest, available) <= available
    BY <1>1, <1>2 DEF Smaller
  <2> HIDE DEF fromReserve
  <2>3. QED
    BY <1>1, <1>2, <2>1, <2>2 DEF Allocations
<1>4. CASE Funding = "INVOICE_TENANT"
  BY <1>1, <1>4 DEF fundReversal, Allocations
<1>5. CASE Funding = "ALLOW_NEGATIVE"
  BY <1>1, <1>5 DEF fundReversal, Allocations
<1>6. QED
  BY <1>3, <1>4, <1>5, DisputesAssumption

\* The clawback of a dispute posts amounts that the dispute is the source of.
LEMMA ClawbackLegsType ==
    ASSUME NEW d \in DisputeIds, NEW allocation \in Allocations
    PROVE  clawbackLegs(d, allocation) \in Seq(ClawbackPostings)
<1> DEFINE leg(account, cents) ==
               IF cents > 0
               THEN <<posting(account, "CASH", cents, "CHARGEBACK",
                              "dispute", d, 0)>>
               ELSE << >>
<1>1. \A account \in {"AVAILABLE", "RESERVE"}, cents \in Nat :
         posting(account, "CASH", cents, "CHARGEBACK", "dispute", d, 0)
            \in ClawbackPostings
  BY DEF posting, ClawbackPostings
<1>2. \A account \in {"AVAILABLE", "RESERVE"}, cents \in Nat :
         leg(account, cents) \in Seq(ClawbackPostings)
  BY <1>1
<1>3. clawbackLegs(d, allocation) = leg("AVAILABLE", allocation.fromAvailable)
                                    \o leg("RESERVE", allocation.fromReserve)
  BY DEF clawbackLegs
<1> HIDE DEF leg
<1>4. leg("AVAILABLE", allocation.fromAvailable) \in Seq(ClawbackPostings)
  BY <1>2 DEF Allocations
<1>5. leg("RESERVE", allocation.fromReserve) \in Seq(ClawbackPostings)
  BY <1>2 DEF Allocations
<1>6. QED
  BY <1>3, <1>4, <1>5

\* What a resolver past its first step remembers.
LEMMA ResolverShape ==
    ASSUME TypeOK, NEW r \in Resolvers
    PROVE  /\ resolver[r].step = "won" => resolver[r].id \in DisputeIds
           /\ resolver[r].step \in {"funded", "checked"} =>
                 resolver[r] \in [step : {"funded", "checked"}, id : DisputeIds,
                                  allocation : Allocations]
BY DEF TypeOK, ResolverStates, Idle

LEMMA Concatenation ==
    ASSUME journal \in Seq(Postings), NEW legs \in Seq(Postings),
           journal' = postEntries(journal, legs)
    PROVE  /\ journal' \in Seq(Postings)
           /\ Len(journal) \in Nat /\ Len(legs) \in Nat
           /\ DOMAIN journal = 1..Len(journal)
           /\ DOMAIN journal' = 1..(Len(journal) + Len(legs))
           /\ \A n \in DOMAIN journal : journal'[n] = journal[n]
           /\ \A n \in DOMAIN journal' \ DOMAIN journal :
                 /\ n - Len(journal) \in 1..Len(legs)
                 /\ journal'[n] = legs[n - Len(journal)]
BY DEF postEntries
-----------------------------------------------------------------------------
LEMMA InitTypeOK == Init => TypeOK
BY DEF Init, TypeOK, ResolverStates

\* Every step of resolveDispute keeps the types.
LEMMA StepTypeOK == TypeOK /\ [Next]_vars => TypeOK'
<1> SUFFICES ASSUME TypeOK, [Next]_vars PROVE TypeOK'
  OBVIOUS
<1>0. Idle \in ResolverStates
  BY DEF ResolverStates
<1>1. ASSUME NEW p \in Credits, Fund(p) PROVE TypeOK'
  <2>1. <<p>> \in Seq(Postings)
    BY DEF Postings
  <2>2. journal' \in Seq(Postings)
    BY <1>1, <2>1, Concatenation DEF Fund, TypeOK
  <2>3. QED
    BY <1>1, <2>2 DEF Fund, TypeOK
<1>2. ASSUME NEW d \in DisputeIds, createDispute(d) PROVE TypeOK'
  BY <1>2 DEF createDispute, TypeOK
<1>3. ASSUME NEW r \in Resolvers, NEW d \in DisputeIds, ReadWon(r, d) PROVE TypeOK'
  <2>1. [step |-> "won", id |-> d] \in ResolverStates
    BY DEF ResolverStates
  <2>2. QED
    BY <1>3, <2>1 DEF ReadWon, TypeOK
<1>4. ASSUME NEW r \in Resolvers, NEW d \in DisputeIds, ReadLost(r, d) PROVE TypeOK'
  <2> DEFINE available == balanceOf(journal, "AVAILABLE")
             reserve   == balanceOf(journal, "RESERVE")
             a == fundReversal(Funding, DisputedCents[d], available, reserve)
  <2>1. DisputedCents[d] \in Nat /\ Fundable(available, reserve)
    BY <1>4, DisputesAssumption DEF ReadLost
  <2> HIDE DEF available, reserve
  <2>2. a \in Allocations
    BY <2>1, FundReversalIsExact
  <2>3. resolver' = [resolver EXCEPT ![r] =
                        [step |-> "funded", id |-> d, allocation |-> a]]
    BY <1>4 DEF ReadLost, available, reserve
  <2> HIDE DEF a
  <2>4. [step |-> "funded", id |-> d, allocation |-> a] \in ResolverStates
    BY <2>2 DEF ResolverStates
  <2>5. QED
    BY <1>4, <2>3, <2>4 DEF ReadLost, TypeOK
<1>5. ASSUME NEW r \in Resolvers, CommitWon(r) PROVE TypeOK'
  BY <1>0, <1>5, ResolverShape DEF CommitWon, TypeOK
<1>6. ASSUME NEW r \in Resolvers, RecheckLost(r) PROVE TypeOK'
  <2>1. [resolver[r] EXCEPT !.step = "checked"] \in ResolverStates
    BY <1>6, ResolverShape DEF RecheckLost, ResolverStates
  <2>2. QED
    BY <1>0, <1>6, <2>1 DEF RecheckLost, TypeOK
<1>7. ASSUME NEW r \in Resolvers, CommitLost(r) PROVE TypeOK'
  <2> DEFINE d == resolver[r].id
             a == resolver[r].allocation
  <2>1. d \in DisputeIds /\ a \in Allocations
    BY <1>7, ResolverShape DEF CommitLost
  <2>2. clawbackLegs(d, a) \in Seq(Postings)
    BY <2>1, ClawbackLegsType DEF Postings
  <2>3. journal' \in Seq(Postings)
    BY <1>7, <2>2, Concatenation DEF CommitLost, TypeOK
  <2>4. recovery' \subseteq [dispute : DisputeIds, cents : Nat]
    BY <1>7, <2>1 DEF CommitLost, TypeOK, Allocations
  <2>5. QED
    BY <1>0, <1>7, <2>1, <2>3, <2>4 DEF CommitLost, TypeOK
<1>8. ASSUME NEW r \in Resolvers, AbortResolve(r) PROVE TypeOK'
  BY <1>0, <1>8 DEF AbortResolve, TypeOK
<1>9. CASE UNCHANGED vars
  BY <1>9 DEF vars, TypeOK
<1>10. QED
  BY <1>1, <1>2, <1>3, <1>4, <1>5, <1>6, <1>7, <1>8, <1>9 DEF Next

(***************************************************************************)
(* The dispute rows, the recoveries and the allocations resolveDispute     *)
(* carries from its read to its commit keep their types; no clawback leg   *)
(* and no receivable is ever a negative amount.                            *)
(***************************************************************************)
THEOREM DisputesTypeCorrect == Spec => []TypeOK
BY InitTypeOK, StepTypeOK, PTL DEF Spec

-----------------------------------------------------------------------------
\* Postings that a dispute is not the source of leave its clawback as it was.
LEMMA OtherSourcesKeepPostings ==
    ASSUME TypeOK, NEW legs \in Seq(Postings),
           journal' = postEntries(journal, legs), NEW d,
           \A n \in DOMAIN legs :
              ~(legs[n].sourceType = "dispute" /\ legs[n].sourceId = d),
           PostingsOf(journal, "dispute", d) = {}
    PROVE  PostingsOf(journal', "dispute", d) = {}
<1>1. SUFFICES ASSUME NEW n \in DOMAIN journal',
                      journal'[n].sourceType = "dispute",
                      journal'[n].sourceId = d
               PROVE  FALSE
  BY DEF PostingsOf
<1>2. CASE n \in DOMAIN journal
  <2>1. journal'[n] = journal[n]
    BY <1>2, Concatenation DEF TypeOK
  <2>2. QED
    BY <1>1, <1>2, <2>1 DEF PostingsOf
<1>3. CASE n \notin DOMAIN journal
  <2>1. /\ n - Len(journal) \in 1..Len(legs)
        /\ journal'[n] = legs[n - Len(journal)]
    BY <1>3, Concatenation DEF TypeOK
  <2>2. QED
    BY <1>1, <2>1
<1>4. QED
  BY <1>2, <1>3

\* Before a resolution of a dispute commits, nothing of it is in the ledger.
OpenMovesNoMoney ==
    \A d \in DisputeIds : dispute[d] \in {"NONE", "OPEN"} =>
        PostingsOf(journal, "dispute", d) = {} /\ ~HasRecovery(d)

\* Aborted and racing resolveDispute calls leave nothing behind.
LEMMA StepOpenMovesNoMoney ==
    ASSUME TypeOK, OpenMovesNoMoney, [Next]_vars PROVE OpenMovesNoMoney'
<1> SUFFICES ASSUME NEW d \in DisputeIds, dispute'[d] \in {"NONE", "OPEN"}
             PROVE  /\ PostingsOf(journal', "dispute", d) = {}
                    /\ \A rec \in recovery' : rec.dispute # d
  BY DEF OpenMovesNoMoney, HasRecovery
<1>0. dispute[d] \in {"NONE", "OPEN"} =>
         /\ PostingsOf(journal, "dispute", d) = {}
         /\ \A rec \in recovery : rec.dispute # d
  BY DEF OpenMovesNoMoney, HasRecovery
<1> DEFINE Goal == /\ PostingsOf(journal', "dispute", d) = {}
                   /\ \A rec \in recovery' : rec.dispute # d
<1>1. ASSUME NEW p \in Credits, Fund(p) PROVE Goal
  <2>1. <<p>> \in Seq(Postings) /\ DOMAIN <<p>> = {1} /\ <<p>>[1] = p
    BY DEF Postings
  <2>2. p.sourceType # "dispute"
    BY DisputesAssumption
  <2>3. PostingsOf(journal, "dispute", d) = {}
    BY <1>0, <1>1 DEF Fund
  <2>4. PostingsOf(journal', "dispute", d) = {}
    BY <1>1, <2>1, <2>2, <2>3, OtherSourcesKeepPostings DEF Fund
  <2>5. QED
    BY <1>0, <1>1, <2>4 DEF Fund
<1>2. ASSUME NEW e \in DisputeIds, createDispute(e) PROVE Goal
  BY <1>0, <1>2 DEF createDispute, TypeOK
<1>3. ASSUME NEW r \in Resolvers, CommitWon(r) PROVE Goal
  <2>1. dispute[d] \in {"NONE", "OPEN"}
    BY <1>3, ResolverShape DEF CommitWon, TypeOK
  <2>2. QED
    BY <1>0, <1>3, <2>1 DEF CommitWon
<1>4. ASSUME NEW r \in Resolvers, CommitLost(r) PROVE Goal
  <2> DEFINE e == resolver[r].id
             a == resolver[r].allocation
             legs == clawbackLegs(e, a)
  <2>1. e \in DisputeIds /\ a \in Allocations
    BY <1>4, ResolverShape DEF CommitLost
  <2>2. d # e /\ dispute[d] \in {"NONE", "OPEN"}
    BY <1>4, <2>1 DEF CommitLost, TypeOK
  <2>3. legs \in Seq(ClawbackPostings)
    BY <2>1, ClawbackLegsType
  <2>4. \A n \in DOMAIN legs : legs[n].sourceId = e
    <3>1. \A account, cents :
             posting(account, "CASH", cents, "CHARGEBACK", "dispute", e, 0).sourceId = e
      BY DEF posting
    <3> HIDE DEF e, a
    <3>2. QED
      BY <2>1, <3>1 DEF clawbackLegs
  <2>5. journal' = postEntries(journal, legs)
    BY <1>4 DEF CommitLost
  <2>6. \A rec \in recovery' : rec \in recovery \/ rec.dispute = e
    BY <1>4 DEF CommitLost
  <2> HIDE DEF legs, e, a
  <2>7. legs \in Seq(Postings)
    BY <2>3 DEF Postings
  <2>8. PostingsOf(journal', "dispute", d) = {}
    BY <1>0, <2>2, <2>4, <2>5, <2>7, OtherSourcesKeepPostings
  <2>9. QED
    BY <1>0, <2>2, <2>6, <2>8
<1>5. ASSUME UNCHANGED <<journal, dispute, recovery>> PROVE Goal
  BY <1>0, <1>5
<1>6. ASSUME NEW r \in Resolvers,
             \/ \E e \in DisputeIds : ReadWon(r, e) \/ ReadLost(r, e)
             \/ RecheckLost(r) \/ AbortResolve(r)
      PROVE  UNCHANGED <<journal, dispute, recovery>>
  BY <1>6 DEF ReadWon, ReadLost, RecheckLost, AbortResolve
<1>7. CASE UNCHANGED vars
  BY <1>5, <1>7 DEF vars
<1>8. QED
  BY <1>1, <1>2, <1>3, <1>4, <1>5, <1>6, <1>7 DEF Next

-----------------------------------------------------------------------------
(***************************************************************************)
(* What makes LostIsCovered inductive: the allocation that resolveDispute  *)
(* carries from its read to its commit covers the gross to the centime,    *)
(* and the recoveries table is finite.                                     *)
(***************************************************************************)
AllocationsExact ==
    \A r \in Resolvers : resolver[r].step \in {"funded", "checked"} =>
        LET a == resolver[r].allocation
        IN  a.fromAvailable + a.fromReserve + a.uncovered = DisputedCents[resolver[r].id]

CoverInv == IsFiniteSet(recovery) /\ AllocationsExact /\ LostIsCovered

\* What a posting gives back to the card network, if it is of a dispute.
LEMMA PostingCents ==
    ASSUME NEW p \in Postings
    PROVE  /\ p.cents \in Nat
           /\ p.sourceType = "dispute" => delta(p, "CASH") = p.cents
<1>1. CASE p \in Credits
  BY <1>1, DisputesAssumption
<1>2. CASE p \in ClawbackPostings
  BY <1>2 DEF ClawbackPostings, delta
<1>3. QED
  BY <1>1, <1>2 DEF Postings

LEMMA JournalOfPostings ==
    ASSUME NEW s \in Seq(Postings)
    PROVE  IsSequence(s) /\ IntegerCents(s)
<1>1. IsSequence(s) /\ DOMAIN s = 1..Len(s) /\ Len(s) \in Nat
  BY SequenceShape
<1>2. ASSUME NEW n \in DOMAIN s PROVE s[n].cents \in Int
  <2>1. s[n] \in Postings
    BY <1>1
  <2>2. QED
    BY <2>1, PostingCents
<1>3. QED
  BY <1>1, <1>2 DEF IntegerCents

\* The postings of a dispute never take back what they gave.
LEMMA DisputePostingsGive ==
    ASSUME NEW s \in Seq(Postings), NEW d
    PROVE  balanceOver(s, "CASH", PostingsOf(s, "dispute", d)) \in Nat
<1> DEFINE N == PostingsOf(s, "dispute", d)
           f == [n \in DOMAIN s |-> delta(s[n], "CASH")]
<1>1. N \in SUBSET DOMAIN s
  BY DEF PostingsOf
<1>2. IsFiniteSet(N)
  BY <1>1, JournalOfPostings, BalanceIsInteger
<1>3. ASSUME NEW n \in N PROVE f[n] \in Nat
  <2>1. n \in DOMAIN s /\ s[n].sourceType = "dispute"
    BY <1>3 DEF PostingsOf
  <2>2. s[n] \in Postings
    BY <2>1
  <2>3. QED
    BY <2>1, <2>2, PostingCents
<1>4. balanceOver(s, "CASH", N) = SumOver(f, N)
  BY DEF balanceOver, SumOver
<1> HIDE DEF N, f
<1>5. SumOver(f, N) \in Nat
  BY <1>2, <1>3, SumOfAmounts
<1>6. QED
  BY <1>4, <1>5 DEF N

\* postEntry adds to what was clawed back for a dispute, and never reduces it.
LEMMA ClawedGrows ==
    ASSUME TypeOK, NEW legs \in Seq(Postings), journal' = postEntries(journal, legs), NEW d
    PROVE  LET more == balanceOver(legs, "CASH", PostingsOf(legs, "dispute", d))
           IN  /\ Clawed(d) \in Nat /\ more \in Nat
               /\ Clawed(d)' = Clawed(d) + more
<1> DEFINE N == PostingsOf(journal, "dispute", d)
           K == PostingsOf(legs, "dispute", d)
<1>1. journal \in Seq(Postings) /\ journal' = journal \o legs
  BY DEF TypeOK, postEntries
<1>2. /\ IsSequence(journal) /\ IntegerCents(journal)
      /\ IsSequence(legs) /\ IntegerCents(legs)
  BY <1>1, JournalOfPostings
<1>3. /\ PostingsOf(journal', "dispute", d) = N \cup {Len(journal) + k : k \in K}
      /\ N \in SUBSET DOMAIN journal /\ K \in SUBSET DOMAIN legs
  BY <1>1, <1>2, PostingsAppend
<1>4. balanceOver(journal, "CASH", N) \in Nat /\ balanceOver(legs, "CASH", K) \in Nat
  BY <1>1, DisputePostingsGive
<1> HIDE DEF N, K
<1>5. balanceOver(journal \o legs, "CASH", N \cup {Len(journal) + k : k \in K})
         = balanceOver(journal, "CASH", N) + balanceOver(legs, "CASH", K)
  BY <1>2, <1>3, BalanceAppends
<1>6. QED
  BY <1>1, <1>3, <1>4, <1>5 DEF Clawed, N, K

\* The recoveries of a dispute, when the table grows.
LEMMA ReceivableGrows ==
    ASSUME TypeOK, TypeOK', IsFiniteSet(recovery'), recovery \subseteq recovery', NEW d
    PROVE  /\ Receivable(d) \in Nat /\ Receivable(d)' \in Nat
           /\ Receivable(d) <= Receivable(d)'
           /\ \A rec \in recovery' : rec.dispute = d => rec.cents <= Receivable(d)'
<1> DEFINE f == [rec \in recovery |-> rec.cents]
           g == [rec \in recovery' |-> rec.cents]
           S == {rec \in recovery : rec.dispute = d}
           T == {rec \in recovery' : rec.dispute = d}
<1>1. IsFiniteSet(T) /\ IsFiniteSet(S) /\ S \in SUBSET T
  BY FS_Subset
<1>2. (\A rec \in T : g[rec] \in Nat) /\ (\A rec \in S : f[rec] = g[rec])
  BY DEF TypeOK
<1>3. \A rec \in recovery' : rec.dispute = d => rec \in T /\ g[rec] = rec.cents
  OBVIOUS
<1>4. Receivable(d) = SumOver(f, S) /\ Receivable(d)' = SumOver(g, T)
  BY DEF Receivable, SumOver
<1> HIDE DEF f, g, S, T
<1>5. SumOver(f, S) = SumOver(g, S)
  BY <1>1, <1>2, SumCongruent
<1>6. /\ SumOver(g, T) \in Nat /\ SumOver(g, S) \in Nat /\ SumOver(g, S) <= SumOver(g, T)
      /\ \A rec \in T : g[rec] <= SumOver(g, T)
  BY <1>1, <1>2, SumOfAmounts
<1>7. QED
  BY <1>3, <1>4, <1>5, <1>6

\* The clawback legs give back what the allocation takes from the two accounts.
LEMMA ClawbackLegsGive ==
    ASSUME NEW d \in DisputeIds, NEW a \in Allocations
    PROVE  LET legs == clawbackLegs(d, a)
           IN  balanceOver(legs, "CASH", PostingsOf(legs, "dispute", d))
                  = a.fromAvailable + a.fromReserve
<1> DEFINE leg(account, cents) ==
               IF cents > 0
               THEN <<posting(account, "CASH", cents, "CHARGEBACK", "dispute", d, 0)>>
               ELSE << >>
           legs == clawbackLegs(d, a)
           one == leg("AVAILABLE", a.fromAvailable)
           two == leg("RESERVE", a.fromReserve)
<1>1. a.fromAvailable \in Nat /\ a.fromReserve \in Nat
  BY DEF Allocations
<1>2. ASSUME NEW account \in {"AVAILABLE", "RESERVE"}, NEW cents \in Nat
      PROVE  /\ IsSequence(leg(account, cents)) /\ IntegerCents(leg(account, cents))
             /\ balanceOf(leg(account, cents), "CASH") = cents
             /\ \A n \in DOMAIN leg(account, cents) :
                   /\ leg(account, cents)[n].sourceType = "dispute"
                   /\ leg(account, cents)[n].sourceId = d
  <2> DEFINE p == posting(account, "CASH", cents, "CHARGEBACK", "dispute", d, 0)
  <2>1. /\ p.cents = cents /\ delta(p, "CASH") = cents
        /\ p.sourceType = "dispute" /\ p.sourceId = d
    BY DEF posting, delta
  <2>2. leg(account, cents) = IF cents > 0 THEN <<p>> ELSE << >>
    OBVIOUS
  <2> HIDE DEF p, leg
  <2>3. CASE cents > 0
    <3>1. DOMAIN <<p>> = {1} /\ <<p>>[1] = p
      OBVIOUS
    <3>2. QED
      BY <2>1, <2>2, <2>3, <3>1, BalanceOfOne
  <2>4. CASE ~(cents > 0)
    <3>1. DOMAIN << >> = {} /\ cents = 0
      BY <2>4
    <3>2. QED
      BY <2>2, <2>4, <3>1, BalanceOfOne
  <2>5. QED
    BY <2>3, <2>4
<1>3. legs = one \o two
  BY DEF clawbackLegs
<1> HIDE DEF leg
<1>4. /\ IsSequence(one) /\ IntegerCents(one) /\ balanceOf(one, "CASH") = a.fromAvailable
      /\ IsSequence(two) /\ IntegerCents(two) /\ balanceOf(two, "CASH") = a.fromReserve
      /\ PostingsOf(one, "dispute", d) = DOMAIN one
      /\ PostingsOf(two, "dispute", d) = DOMAIN two
  BY <1>1, <1>2 DEF PostingsOf
<1> HIDE DEF one, two, legs
<1>5. PostingsOf(legs, "dispute", d) = DOMAIN one \cup {Len(one) + k : k \in DOMAIN two}
  BY <1>3, <1>4, PostingsAppend
<1>6. balanceOver(one \o two, "CASH", DOMAIN one \cup {Len(one) + k : k \in DOMAIN two})
         = balanceOver(one, "CASH", DOMAIN one) + balanceOver(two, "CASH", DOMAIN two)
  BY <1>4, BalanceAppends
<1>7. QED
  BY <1>3, <1>4, <1>5, <1>6 DEF balanceOf, legs

-----------------------------------------------------------------------------
\* Each step of resolveDispute keeps the allocations exact.
LEMMA StepAllocationsExact ==
    ASSUME TypeOK, AllocationsExact, [Next]_vars PROVE AllocationsExact'
<1>1. ASSUME NEW r \in Resolvers, resolver'[r] = resolver[r]
      PROVE  resolver'[r].step \in {"funded", "checked"} =>
                LET a == resolver'[r].allocation
                IN  a.fromAvailable + a.fromReserve + a.uncovered
                       = DisputedCents[resolver'[r].id]
  BY <1>1 DEF AllocationsExact
<1>2. CASE UNCHANGED resolver
  BY <1>1, <1>2 DEF AllocationsExact
<1>3. ASSUME NEW r \in Resolvers, NEW state, state.step \notin {"funded", "checked"},
             resolver' = [resolver EXCEPT ![r] = state]
      PROVE  AllocationsExact'
  BY <1>1, <1>3 DEF AllocationsExact, TypeOK
<1>4. ASSUME NEW r \in Resolvers, NEW d \in DisputeIds, ReadLost(r, d)
      PROVE  AllocationsExact'
  <2> DEFINE available == balanceOf(journal, "AVAILABLE")
             reserve   == balanceOf(journal, "RESERVE")
             a == fundReversal(Funding, DisputedCents[d], available, reserve)
  <2>1. DisputedCents[d] \in Nat /\ Fundable(available, reserve)
    BY <1>4, DisputesAssumption DEF ReadLost
  <2>2. resolver' = [resolver EXCEPT ![r] =
                        [step |-> "funded", id |-> d, allocation |-> a]]
    BY <1>4 DEF ReadLost
  <2> HIDE DEF available, reserve
  <2>3. a.fromAvailable + a.fromReserve + a.uncovered = DisputedCents[d]
    BY <2>1, FundReversalIsExact
  <2> HIDE DEF a
  <2>4. QED
    BY <1>1, <2>2, <2>3 DEF AllocationsExact, TypeOK
<1>5. ASSUME NEW r \in Resolvers, RecheckLost(r) PROVE AllocationsExact'
  <2>1. CASE canTransition(dispute[resolver[r].id], "LOST")
    <3>1. /\ resolver' = [resolver EXCEPT ![r] = [resolver[r] EXCEPT !.step = "checked"]]
          /\ resolver[r].step = "funded"
      BY <1>5, <2>1 DEF RecheckLost
    <3>2. resolver[r] \in [step : {"funded", "checked"}, id : DisputeIds,
                           allocation : Allocations]
      BY <3>1, ResolverShape
    <3>3. /\ resolver'[r].id = resolver[r].id
          /\ resolver'[r].allocation = resolver[r].allocation
          /\ \A q \in Resolvers \ {r} : resolver'[q] = resolver[q]
      BY <3>1, <3>2 DEF TypeOK
    <3>4. QED
      BY <1>1, <3>1, <3>3 DEF AllocationsExact
  <2>2. CASE ~canTransition(dispute[resolver[r].id], "LOST")
    BY <1>3, <1>5, <2>2 DEF RecheckLost, Idle
  <2>3. QED
    BY <2>1, <2>2
<1>6. ASSUME NEW r \in Resolvers, NEW d \in DisputeIds, ReadWon(r, d)
      PROVE  AllocationsExact'
  BY <1>3, <1>6 DEF ReadWon
<1>7. ASSUME NEW r \in Resolvers, CommitWon(r) \/ CommitLost(r) \/ AbortResolve(r)
      PROVE  AllocationsExact'
  BY <1>3, <1>7 DEF CommitWon, CommitLost, AbortResolve, Idle
<1>8. ASSUME \/ \E p \in Credits : Fund(p)
             \/ \E d \in DisputeIds : createDispute(d)
             \/ UNCHANGED vars
      PROVE  UNCHANGED resolver
  BY <1>8 DEF Fund, createDispute, vars
<1>9. QED
  BY <1>2, <1>4, <1>5, <1>6, <1>7, <1>8 DEF Next

\* A dispute that stays LOST stays covered: its postings and recoveries only grow.
LEMMA CoverSurvives ==
    ASSUME TypeOK, TypeOK', NEW legs \in Seq(Postings),
           journal' = postEntries(journal, legs),
           recovery \subseteq recovery', IsFiniteSet(recovery'), NEW d \in DisputeIds,
           Clawed(d) + Receivable(d) >= DisputedCents[d]
    PROVE  Clawed(d)' + Receivable(d)' >= DisputedCents[d]
<1> DEFINE more == balanceOver(legs, "CASH", PostingsOf(legs, "dispute", d))
<1>1. Clawed(d) \in Nat /\ more \in Nat /\ Clawed(d)' = Clawed(d) + more
  BY ClawedGrows
<1>2. Receivable(d) \in Nat /\ Receivable(d)' \in Nat /\ Receivable(d) <= Receivable(d)'
  BY ReceivableGrows
<1>3. DisputedCents[d] \in Nat
  BY DisputesAssumption
<1> HIDE DEF more
<1>4. QED
  BY <1>1, <1>2, <1>3

LEMMA StepCoverInv == TypeOK /\ CoverInv /\ [Next]_vars => CoverInv'
<1> SUFFICES ASSUME TypeOK, CoverInv, [Next]_vars PROVE CoverInv'
  OBVIOUS
<1>0. AllocationsExact' /\ TypeOK'
  BY StepAllocationsExact, StepTypeOK DEF CoverInv
<1>1. ASSUME NEW legs \in Seq(Postings), journal' = postEntries(journal, legs),
             UNCHANGED <<dispute, recovery>>
      PROVE  CoverInv'
  BY <1>0, <1>1, CoverSurvives DEF CoverInv, LostIsCovered
<1>2. ASSUME UNCHANGED <<journal, recovery>>,
             \A d \in DisputeIds : dispute'[d] = "LOST" => dispute[d] = "LOST"
      PROVE  CoverInv'
  BY <1>0, <1>2 DEF CoverInv, LostIsCovered, Clawed, Receivable
<1>3. ASSUME NEW p \in Credits, Fund(p) PROVE CoverInv'
  <2>1. <<p>> \in Seq(Postings)
    BY DEF Postings
  <2>2. QED
    BY <1>1, <1>3, <2>1 DEF Fund
<1>4. ASSUME NEW d \in DisputeIds, createDispute(d) PROVE CoverInv'
  BY <1>2, <1>4 DEF createDispute, TypeOK
<1>5. ASSUME NEW r \in Resolvers, CommitWon(r) PROVE CoverInv'
  BY <1>2, <1>5, ResolverShape DEF CommitWon, TypeOK
<1>6. ASSUME NEW r \in Resolvers,
             \/ \E d \in DisputeIds : ReadWon(r, d) \/ ReadLost(r, d)
             \/ RecheckLost(r) \/ AbortResolve(r)
      PROVE  CoverInv'
  BY <1>2, <1>6 DEF ReadWon, ReadLost, RecheckLost, AbortResolve
<1>7. ASSUME NEW r \in Resolvers, CommitLost(r) PROVE CoverInv'
  <2>1. PICK e \in DisputeIds, a \in Allocations :
           e = resolver[r].id /\ a = resolver[r].allocation
    BY <1>7, ResolverShape DEF CommitLost
  <2> DEFINE legs == clawbackLegs(e, a)
  <2>2. legs \in Seq(Postings)
    BY <2>1, ClawbackLegsType DEF Postings
  <2>3. /\ journal' = postEntries(journal, legs)
        /\ recovery' = recovery \cup
              (IF a.uncovered > 0
               THEN {[dispute |-> e, cents |-> a.uncovered]} ELSE {})
        /\ dispute' = [dispute EXCEPT ![e] = "LOST"]
        /\ resolver[r].step = "checked"
    BY <1>7, <2>1 DEF CommitLost
  <2>4. a.fromAvailable + a.fromReserve + a.uncovered = DisputedCents[e]
    BY <2>1, <2>3 DEF CoverInv, AllocationsExact
  <2>5. balanceOver(legs, "CASH", PostingsOf(legs, "dispute", e))
           = a.fromAvailable + a.fromReserve
    BY <2>1, ClawbackLegsGive
  <2> HIDE DEF legs
  <2>6. IsFiniteSet(recovery') /\ recovery \subseteq recovery'
    BY <2>3, FS_AddElement DEF CoverInv
  <2>7. Clawed(e) \in Nat /\ Clawed(e)' = Clawed(e) + (a.fromAvailable + a.fromReserve)
    BY <2>2, <2>3, <2>5, ClawedGrows
  <2>8. Receivable(e)' \in Nat /\ Receivable(e)' >= a.uncovered
    <3>1. /\ Receivable(e)' \in Nat
          /\ \A rec \in recovery' : rec.dispute = e => rec.cents <= Receivable(e)'
      BY <1>0, <2>6, ReceivableGrows
    <3>2. CASE a.uncovered > 0
      <4>1. [dispute |-> e, cents |-> a.uncovered] \in recovery'
        BY <2>3, <3>2
      <4>2. a.uncovered <= Receivable(e)'
        BY <3>1, <4>1
      <4>3. QED
        BY <2>1, <3>1, <4>2 DEF Allocations
    <3>3. CASE ~(a.uncovered > 0)
      BY <2>1, <3>1, <3>3 DEF Allocations
    <3>4. QED
      BY <3>2, <3>3
  <2>9. Clawed(e)' + Receivable(e)' >= DisputedCents[e]
    <3>1. a.fromAvailable \in Nat /\ a.fromReserve \in Nat /\ a.uncovered \in Nat
      BY <2>1 DEF Allocations
    <3>2. QED
      BY <2>4, <2>7, <2>8, <3>1
  <2>10. ASSUME NEW d \in DisputeIds, d # e, dispute'[d] = "LOST"
         PROVE  Clawed(d)' + Receivable(d)' >= DisputedCents[d]
    <3>1. dispute[d] = "LOST"
      BY <2>1, <2>3, <2>10 DEF TypeOK
    <3>2. Clawed(d) + Receivable(d) >= DisputedCents[d]
      BY <3>1 DEF CoverInv, LostIsCovered
    <3>3. QED
      BY <1>0, <2>2, <2>3, <2>6, <3>2, CoverSurvives
  <2>11. LostIsCovered'
    BY <2>9, <2>10 DEF LostIsCovered
  <2>12. QED
    BY <1>0, <2>6, <2>11 DEF CoverInv
<1>8. CASE UNCHANGED vars
  BY <1>2, <1>8 DEF vars
<1>9. QED
  BY <1>3, <1>4, <1>5, <1>6, <1>7, <1>8 DEF Next

(***************************************************************************)
(* resolveDispute settles a lost dispute in full, whatever the balances    *)
(* did between its read and its commit and however many calls raced: what  *)
(* was clawed back and what is left as a Recovery cover the gross.         *)
(***************************************************************************)
THEOREM LostDisputeIsCovered == Spec => []LostIsCovered
<1>1. Init => CoverInv
  BY FS_EmptySet DEF Init, CoverInv, AllocationsExact, LostIsCovered, Idle
<1>2. CoverInv => LostIsCovered
  BY DEF CoverInv
<1>3. QED
  BY <1>1, <1>2, DisputesTypeCorrect, StepCoverInv, PTL DEF Spec

-----------------------------------------------------------------------------
\* Postings and recoveries of other disputes take nothing more for this one.
LEMMA TakenUntouched ==
    ASSUME TypeOK, IsFiniteSet(recovery), NEW d,
           NEW legs \in Seq(Postings), journal' = postEntries(journal, legs),
           \A n \in DOMAIN legs :
              ~(legs[n].sourceType = "dispute" /\ legs[n].sourceId = d),
           recovery \subseteq recovery',
           \A rec \in recovery' : rec.dispute = d => rec \in recovery
    PROVE  Taken(d)' = Taken(d)
<1> DEFINE f == [rec \in recovery |-> rec.cents]
           g == [rec \in recovery' |-> rec.cents]
           S == {rec \in recovery : rec.dispute = d}
<1>1. Clawed(d)' = Clawed(d)
  <2> DEFINE K == PostingsOf(legs, "dispute", d)
             h == [n \in DOMAIN legs |-> delta(legs[n], "CASH")]
  <2>1. K = {}
    BY DEF PostingsOf
  <2>2. balanceOver(legs, "CASH", K) = SumOver(h, K)
    BY DEF balanceOver, SumOver
  <2>3. /\ Clawed(d) \in Nat
        /\ Clawed(d)' = Clawed(d) + balanceOver(legs, "CASH", K)
    BY ClawedGrows
  <2> HIDE DEF K, h
  <2>4. QED
    BY <2>1, <2>2, <2>3, SumEmpty
<1>2. IsFiniteSet(S) /\ \A rec \in S : g[rec] = f[rec]
  BY FS_Subset
<1>3. {rec \in recovery' : rec.dispute = d} = S
  OBVIOUS
<1>4. Receivable(d) = SumOver(f, S) /\ Receivable(d)' = SumOver(g, S)
  BY <1>3 DEF Receivable, SumOver
<1> HIDE DEF f, g, S
<1>5. QED
  BY <1>1, <1>2, <1>4, SumCongruent DEF Taken

\* The commit that loses an open dispute takes its gross.
LEMMA FirstLossIsExact ==
    ASSUME TypeOK, CoverInv, OpenMovesNoMoney, NEW r \in Resolvers, CommitLost(r),
           NEW d \in DisputeIds, d = resolver[r].id, dispute[d] = "OPEN"
    PROVE  Taken(d)' = DisputedCents[d]
<1>1. PICK a \in Allocations : a = resolver[r].allocation
  BY ResolverShape DEF CommitLost
<1> DEFINE legs == clawbackLegs(d, a)
           N == PostingsOf(journal, "dispute", d)
           f == [n \in DOMAIN journal |-> delta(journal[n], "CASH")]
           g == [rec \in recovery' |-> rec.cents]
           T == {rec \in recovery' : rec.dispute = d}
           owed == [dispute |-> d, cents |-> a.uncovered]
<1>2. /\ journal' = postEntries(journal, legs)
      /\ recovery' = recovery \cup (IF a.uncovered > 0 THEN {owed} ELSE {})
      /\ a.fromAvailable + a.fromReserve + a.uncovered = DisputedCents[d]
  BY <1>1 DEF CommitLost, CoverInv, AllocationsExact
<1>3. N = {} /\ \A rec \in recovery : rec.dispute # d
  BY <1>1 DEF OpenMovesNoMoney, HasRecovery
<1>4. a.fromAvailable \in Nat /\ a.fromReserve \in Nat /\ a.uncovered \in Nat
  BY <1>1 DEF Allocations
<1>5. legs \in Seq(Postings)
  BY <1>1, ClawbackLegsType DEF Postings
<1>6. Clawed(d) = SumOver(f, N)
  BY DEF Clawed, balanceOver, SumOver
<1>7. Receivable(d)' = SumOver(g, T)
  BY DEF Receivable, SumOver
<1>8. Receivable(d)' = a.uncovered
  <2>1. CASE a.uncovered > 0
    <3>1. T = {owed} /\ owed \in recovery'
      BY <1>2, <1>3, <2>1
    <3>2. g[owed] = a.uncovered
      BY <3>1
    <3> HIDE DEF g, T, owed
    <3>3. g[owed] \in Int
      BY <1>4, <3>2
    <3>4. SumOver(g, {owed}) = a.uncovered
      BY <3>2, <3>3, SumSingleton
    <3>5. QED
      BY <1>7, <3>1, <3>4
  <2>2. CASE ~(a.uncovered > 0)
    <3>1. T = {} /\ a.uncovered = 0
      BY <1>2, <1>3, <1>4, <2>2
    <3> HIDE DEF g, T
    <3>2. QED
      BY <1>7, <3>1, SumEmpty
  <2>3. QED
    BY <2>1, <2>2
<1> HIDE DEF legs, N, f, g, T, owed
<1>9. Clawed(d) = 0
  BY <1>3, <1>6, SumEmpty
<1>10. balanceOver(legs, "CASH", PostingsOf(legs, "dispute", d))
          = a.fromAvailable + a.fromReserve
  BY <1>1, ClawbackLegsGive DEF legs
<1>11. Clawed(d)' = a.fromAvailable + a.fromReserve
  BY <1>2, <1>4, <1>5, <1>9, <1>10, ClawedGrows
<1>12. QED
  BY <1>2, <1>4, <1>8, <1>11 DEF Taken

\* A dispute at rest when neither its row, its money nor a call past the re-check changes.
LEMMA RestsUntouched ==
    ASSUME NEW d \in DisputeIds, AtRest(d), dispute'[d] = dispute[d], Taken(d)' = Taken(d),
           \A r \in Resolvers : /\ resolver'[r].step \in {"won", "checked"}
                                /\ resolver'[r].id = d
                               => resolver'[r] = resolver[r]
    PROVE  AtRest(d)' /\ dispute'[d] = dispute[d] /\ Taken(d)' = Taken(d)
BY DEF AtRest

LEMMA StepResolutionIsFinal ==
    ASSUME TypeOK, CoverInv, OpenMovesNoMoney, [Next]_vars, NEW d \in DisputeIds
    PROVE  /\ dispute[d] = "OPEN" /\ dispute'[d] = "LOST" => Taken(d)' = DisputedCents[d]
           /\ AtRest(d) =>
                 AtRest(d)' /\ dispute'[d] = dispute[d] /\ Taken(d)' = Taken(d)
<1> DEFINE Exact == dispute[d] = "OPEN" /\ dispute'[d] = "LOST" => Taken(d)' = DisputedCents[d]
           Final == AtRest(d) =>
                       AtRest(d)' /\ dispute'[d] = dispute[d] /\ Taken(d)' = Taken(d)
<1>0. /\ IsFiniteSet(recovery)
      /\ AtRest(d) => /\ dispute[d] \in {"WON", "LOST"}
                      /\ \A r \in Resolvers : resolver[r].step \in {"won", "checked"}
                                               => resolver[r].id # d
  BY DEF CoverInv, AtRest
<1>1. ASSUME UNCHANGED <<journal, recovery>> PROVE Taken(d)' = Taken(d)
  BY <1>1 DEF Taken, Clawed, Receivable
<1>2. ASSUME NEW p \in Credits, Fund(p) PROVE Exact /\ Final
  <2>1. <<p>> \in Seq(Postings) /\ DOMAIN <<p>> = {1} /\ <<p>>[1] = p
    BY DEF Postings
  <2>2. p.sourceType # "dispute"
    BY DisputesAssumption
  <2>3. journal' = postEntries(journal, <<p>>) /\ UNCHANGED <<dispute, recovery, resolver>>
    BY <1>2 DEF Fund
  <2>4. Taken(d)' = Taken(d)
    BY <1>0, <2>1, <2>2, <2>3, TakenUntouched
  <2>5. QED
    BY <2>3, <2>4, RestsUntouched
<1>3. ASSUME NEW e \in DisputeIds, createDispute(e) PROVE Exact /\ Final
  <2>1. UNCHANGED <<journal, recovery, resolver>> /\ dispute[e] = "NONE"
        /\ dispute' = [dispute EXCEPT ![e] = "OPEN"]
    BY <1>3 DEF createDispute
  <2>2. dispute[d] \in {"WON", "LOST", "OPEN"} => dispute'[d] = dispute[d]
    BY <2>1 DEF TypeOK
  <2>3. QED
    BY <1>0, <1>1, <2>1, <2>2, RestsUntouched
<1>4. ASSUME UNCHANGED <<journal, dispute, recovery>>, NEW r \in Resolvers, NEW new,
             resolver' = [resolver EXCEPT ![r] = new],
             new.step \in {"won", "checked"} => dispute[new.id] = "OPEN"
      PROVE  Exact /\ Final
  <2>1. \A q \in Resolvers : resolver'[q] = IF q = r THEN new ELSE resolver[q]
    BY <1>4 DEF TypeOK
  <2>2. AtRest(d) => (new.step \in {"won", "checked"} => new.id # d)
    BY <1>0, <1>4
  <2>3. QED
    BY <1>1, <1>4, <2>1, <2>2, RestsUntouched
<1>5. ASSUME NEW r \in Resolvers, NEW e \in DisputeIds, ReadWon(r, e) PROVE Exact /\ Final
  <2> DEFINE new == [step |-> "won", id |-> e]
  <2>1. new.id = e
    OBVIOUS
  <2>2. resolver' = [resolver EXCEPT ![r] = new] /\ dispute[e] = "OPEN"
        /\ UNCHANGED <<journal, dispute, recovery>>
    BY <1>5 DEF ReadWon, canTransition
  <2> HIDE DEF new, Exact, Final
  <2>3. QED
    BY <1>4, <2>1, <2>2
<1>6. ASSUME NEW r \in Resolvers, NEW e \in DisputeIds, ReadLost(r, e) PROVE Exact /\ Final
  <2>1. PICK new : /\ resolver' = [resolver EXCEPT ![r] = new] /\ new.step = "funded"
                   /\ UNCHANGED <<journal, dispute, recovery>>
    BY <1>6 DEF ReadLost
  <2> HIDE DEF Exact, Final
  <2>2. QED
    BY <1>4, <2>1
<1>7. ASSUME NEW r \in Resolvers, RecheckLost(r) PROVE Exact /\ Final
  <2>1. resolver[r] \in [step : {"funded", "checked"}, id : DisputeIds,
                         allocation : Allocations]
    BY <1>7, ResolverShape DEF RecheckLost
  <2>2. UNCHANGED <<journal, dispute, recovery>>
    BY <1>7 DEF RecheckLost
  <2>3. CASE dispute[resolver[r].id] = "OPEN"
    <3> DEFINE new == [resolver[r] EXCEPT !.step = "checked"]
    <3>1. new.id = resolver[r].id
      BY <2>1
    <3>2. resolver' = [resolver EXCEPT ![r] = new]
      BY <1>7, <2>3 DEF RecheckLost, canTransition
    <3> HIDE DEF new, Exact, Final
    <3>3. QED
      BY <1>4, <2>2, <2>3, <3>1, <3>2
  <2>4. CASE dispute[resolver[r].id] # "OPEN"
    <3>1. resolver' = [resolver EXCEPT ![r] = Idle] /\ Idle.step = "idle"
      BY <1>7, <2>4 DEF RecheckLost, canTransition, Idle
    <3> HIDE DEF Exact, Final
    <3>2. QED
      BY <1>4, <2>2, <3>1
  <2>5. QED
    BY <2>3, <2>4
<1>8. ASSUME NEW r \in Resolvers, AbortResolve(r) PROVE Exact /\ Final
  <2>1. resolver' = [resolver EXCEPT ![r] = Idle] /\ Idle.step = "idle"
        /\ UNCHANGED <<journal, dispute, recovery>>
    BY <1>8 DEF AbortResolve, Idle
  <2> HIDE DEF Exact, Final
  <2>2. QED
    BY <1>4, <2>1
<1>9. ASSUME NEW r \in Resolvers, resolver[r].step \in {"won", "checked"},
             resolver[r].id \in DisputeIds, NEW final,
             dispute' = [dispute EXCEPT ![resolver[r].id] = final],
             resolver' = [resolver EXCEPT ![r] = Idle],
             d # resolver[r].id => Taken(d)' = Taken(d)
      PROVE  (d # resolver[r].id => Exact) /\ Final
  <2>1. d # resolver[r].id => dispute'[d] = dispute[d]
    BY <1>9 DEF TypeOK
  <2>2. AtRest(d) => d # resolver[r].id
    BY <1>0, <1>9
  <2>3. Idle.step = "idle" /\ \A q \in Resolvers : q # r => resolver'[q] = resolver[q]
    BY <1>9 DEF TypeOK, Idle
  <2>4. resolver'[r] = Idle
    BY <1>9 DEF TypeOK
  <2>5. QED
    BY <1>9, <2>1, <2>2, <2>3, <2>4, RestsUntouched
<1>10. ASSUME NEW r \in Resolvers, CommitWon(r) PROVE Exact /\ Final
  <2>1. resolver[r].id \in DisputeIds /\ resolver[r].step = "won"
    BY <1>10, ResolverShape DEF CommitWon
  <2>2. /\ dispute' = [dispute EXCEPT ![resolver[r].id] = "WON"]
        /\ resolver' = [resolver EXCEPT ![r] = Idle]
        /\ Taken(d)' = Taken(d)
    BY <1>1, <1>10 DEF CommitWon
  <2>3. d = resolver[r].id => dispute'[d] = "WON"
    BY <2>1, <2>2 DEF TypeOK
  <2>4. (d # resolver[r].id => Exact) /\ Final
    BY <1>9, <2>1, <2>2
  <2>5. QED
    BY <2>3, <2>4
<1>11. ASSUME NEW r \in Resolvers, CommitLost(r) PROVE Exact /\ Final
  <2>1. PICK e \in DisputeIds, a \in Allocations :
           e = resolver[r].id /\ a = resolver[r].allocation
    BY <1>11, ResolverShape DEF CommitLost
  <2> DEFINE legs == clawbackLegs(e, a)
  <2>2. legs \in Seq(ClawbackPostings) /\ legs \in Seq(Postings)
    BY <2>1, ClawbackLegsType DEF Postings
  <2>3. \A n \in DOMAIN legs : legs[n].sourceId = e
    <3>1. \A account, cents :
             posting(account, "CASH", cents, "CHARGEBACK", "dispute", e, 0).sourceId = e
      BY DEF posting
    <3>2. QED
      BY <2>1, <3>1 DEF clawbackLegs
  <2>4. /\ journal' = postEntries(journal, legs)
        /\ recovery' = recovery \cup
              (IF a.uncovered > 0
               THEN {[dispute |-> e, cents |-> a.uncovered]} ELSE {})
        /\ dispute' = [dispute EXCEPT ![e] = "LOST"]
        /\ resolver' = [resolver EXCEPT ![r] = Idle]
        /\ resolver[r].step = "checked"
    BY <1>11, <2>1 DEF CommitLost
  <2> HIDE DEF legs
  <2>5. d # e => Taken(d)' = Taken(d)
    <3> SUFFICES ASSUME d # e PROVE Taken(d)' = Taken(d)
      OBVIOUS
    <3>1. recovery \subseteq recovery' /\ \A rec \in recovery' : rec.dispute = d => rec \in recovery
      BY <2>4
    <3>2. QED
      BY <1>0, <2>2, <2>3, <2>4, <3>1, TakenUntouched
  <2>6. d = e => Exact
    BY <1>11, <2>1, FirstLossIsExact
  <2>7. (d # resolver[r].id => Exact) /\ Final
    BY <1>9, <2>1, <2>4, <2>5
  <2>8. QED
    BY <2>1, <2>6, <2>7
<1>12. CASE UNCHANGED vars
  <2>1. UNCHANGED <<journal, dispute, recovery, resolver>>
    BY <1>12 DEF vars
  <2>2. QED
    BY <1>1, <2>1, RestsUntouched
<1>13. QED
  BY <1>2, <1>3, <1>5, <1>6, <1>7, <1>8, <1>10, <1>11, <1>12 DEF Next

(***************************************************************************)
(* resolveDispute cannot double-claw unless calls overlap between their    *)
(* re-check and their commit: the first loss takes exactly the gross, for  *)
(* every funding rule and balance, and a resolved dispute that no call is  *)
(* past the re-check of keeps its outcome and what was taken for good.     *)
(***************************************************************************)
THEOREM ResolvedOnce == Spec => ResolutionIsFinal
<1>1. Init => CoverInv /\ OpenMovesNoMoney
  BY FS_EmptySet DEF Init, CoverInv, AllocationsExact, LostIsCovered, Idle,
     OpenMovesNoMoney, PostingsOf, HasRecovery
<1>2. Spec => [](CoverInv /\ OpenMovesNoMoney)
  BY <1>1, DisputesTypeCorrect, StepCoverInv, StepOpenMovesNoMoney, PTL DEF Spec
<1>3. TypeOK /\ CoverInv /\ OpenMovesNoMoney /\ [Next]_vars =>
        [\A d \in DisputeIds :
            /\ dispute[d] = "OPEN" /\ dispute'[d] = "LOST" => Taken(d)' = DisputedCents[d]
            /\ AtRest(d) =>
                  AtRest(d)' /\ dispute'[d] = dispute[d] /\ Taken(d)' = Taken(d)]_vars
  BY StepResolutionIsFinal
<1>4. QED
  BY <1>2, <1>3, DisputesTypeCorrect, PTL DEF Spec, ResolutionIsFinal
=============================================================================
