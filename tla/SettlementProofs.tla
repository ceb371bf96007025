-------------------------- MODULE SettlementProofs --------------------------
(***************************************************************************)
(* Proofs about captures and refunds, for any number of intents, of        *)
(* concurrent settleCapture invocations and of tenant configurations.  The *)
(* first part is about who may book a capture twice; the second follows    *)
(* the money: a capture clears COLLECTED leg by leg (lib/settlement-db.ts) *)
(* and a refund gives back what the captures before it credited            *)
(* (lib/refund-db.ts).                                                     *)
(***************************************************************************)
EXTENDS Settlement, MoneyProofs

\* No posting up to a position of the journal is the capture of an intent.
NotCapturedBy(i, position) ==
    \A n \in DOMAIN journal : n <= position => ~IsCaptureOf(journal[n], i)

(***************************************************************************)
(* What makes DuplicateOnlyFromOverlap inductive: the alreadySettled read  *)
(* of an invocation stays true of the prefix it saw (the journal only      *)
(* grows), and the first posting of a plan is the capture row that later   *)
(* reads look for, at the position the invocation booked.                  *)
(***************************************************************************)
PlanStartsWithCapture(c) ==
    /\ caller[c].intent \in Intents
    /\ caller[c].seen \in 0..Len(journal)
    /\ NotCapturedBy(caller[c].intent, caller[c].seen)
    /\ IsSequence(caller[c].legs)
    /\ Len(caller[c].legs) > 0
    /\ IsCaptureOf(caller[c].legs[1], caller[c].intent)

BookedAtCapture(c) ==
    /\ caller[c].intent \in Intents
    /\ caller[c].seen \in 0..Len(journal)
    /\ NotCapturedBy(caller[c].intent, caller[c].seen)
    /\ caller[c].at \in DOMAIN journal
    /\ IsCaptureOf(journal[caller[c].at], caller[c].intent)

SettleInv ==
    /\ IsSequence(journal)
    /\ DOMAIN caller = Callers
    /\ \A c \in Callers :
          /\ caller[c].phase = "planned" => PlanStartsWithCapture(c)
          /\ caller[c].phase = "booked" => BookedAtCapture(c)

-----------------------------------------------------------------------------
\* Concatenation keeps the first sequence as a prefix.
LEMMA Concatenation ==
    ASSUME NEW s, NEW t, IsSequence(s), IsSequence(t)
    PROVE  /\ IsSequence(s \o t)
           /\ Len(s \o t) = Len(s) + Len(t)
           /\ \A n \in 1..Len(s) : (s \o t)[n] = s[n]
           /\ Len(t) > 0 => (s \o t)[Len(s) + 1] = t[1]
<1> DEFINE S == Range(s) \cup Range(t)
<1>1. s \in Seq(S) /\ t \in Seq(S)
  BY DEF IsSequence
<1> HIDE DEF S
<1>2. s \o t \in Seq(S)
  BY <1>1
<1>3. IsSequence(s \o t)
  BY <1>2, SequenceShape
<1>4. QED
  BY <1>1, <1>3

\* A posting, made always or only when it moves money, is a sequence of one.
LEMMA OptionalIsSequence ==
    ASSUME NEW p PROVE IsSequence(Optional(p)) /\ IsSequence(<<p>>) /\ <<p>>[1] = p
<1>1. Optional(p) \in Seq({p}) /\ <<p>> \in Seq({p})
  BY DEF Optional
<1>2. QED
  BY <1>1, SequenceShape

-----------------------------------------------------------------------------
\* executeSplitInTx posts a sequence of legs.
LEMMA SplitLegsIsSequence ==
    ASSUME NEW i \in Intents, NEW cfg \in TenantConfigs
    PROVE  IsSequence(SplitLegs(i, cfg.shares))
<1> DEFINE parts == split(Gross[i], cfg.shares)
           share(n) == posting("COLLECTED", "AVAILABLE", parts.shares[n], "SPLIT",
                               "payment_intent", i, cfg.shares[n].party)
           rest == posting("COLLECTED", "AVAILABLE", parts.platform, "SPLIT",
                           "payment_intent", i, NoParty)
           legs == [n \in DOMAIN cfg.shares |-> share(n)]
<1>1. SplitLegs(i, cfg.shares) = legs \o Optional(rest)
  BY DEF SplitLegs
<1>2. PICK N \in Nat : DOMAIN cfg.shares = 1..N
  BY SettlementAssumption
<1> HIDE DEF share, rest, parts
<1>3. legs \in Seq({share(n) : n \in 1..N})
  BY <1>2
<1>4. IsSequence(legs)
  BY <1>3, SequenceShape
<1> HIDE DEF legs
<1>5. QED
  BY <1>1, <1>4, OptionalIsSequence, Concatenation

\* settleCapture carves fee, tax and reserve as a sequence of legs.
LEMMA CarvedLegsIsSequence ==
    ASSUME NEW i, NEW plan, NEW account
    PROVE  IsSequence(CarvedLegs(i, plan, account))
<1> DEFINE leg(credit, cents, category) ==
              posting(account, credit, cents, category, "payment_intent", i, NoParty)
           fee == Optional(leg("FEES", plan.fee, "FEE"))
           tax == Optional(leg("TAX_PAYABLE", plan.tax, "TAX"))
           reserve == Optional(leg("RESERVE", plan.reserve, "CAPTURE"))
<1>1. CarvedLegs(i, plan, account) = fee \o tax \o reserve
  BY DEF CarvedLegs
<1>2. IsSequence(fee) /\ IsSequence(tax) /\ IsSequence(reserve)
  BY OptionalIsSequence
<1> HIDE DEF fee, tax, reserve
<1>3. IsSequence(fee \o tax)
  BY <1>2, Concatenation
<1>4. QED
  BY <1>1, <1>2, <1>3, Concatenation

\* Whatever the configuration, a capture starts with the row that marks it.
LEMMA CaptureLegsStartWithCapture ==
    ASSUME NEW i \in Intents, NEW cfg \in TenantConfigs
    PROVE  /\ IsSequence(captureLegs(i, cfg))
           /\ Len(captureLegs(i, cfg)) > 0
           /\ IsCaptureOf(captureLegs(i, cfg)[1], i)
<1> DEFINE plan  == PlanFor(i, cfg)
           gross == posting("CASH", "COLLECTED", Gross[i], "CAPTURE",
                            "payment_intent", i, NoParty)
           net   == posting("COLLECTED", "AVAILABLE", plan.net, "CAPTURE",
                            "payment_intent", i, NoParty)
           plain == CarvedLegs(i, plan, "COLLECTED") \o Optional(net)
           parts == SplitLegs(i, cfg.shares) \o CarvedLegs(i, plan, "AVAILABLE")
           rest  == IF cfg.shares = << >> THEN plain ELSE parts
<1>1. captureLegs(i, cfg) = <<gross>> \o rest
  BY DEF captureLegs
<1>2. IsCaptureOf(gross, i)
  BY DEF posting, IsCaptureOf
<1> HIDE DEF plan, gross, net
<1>3. IsSequence(plain)
  BY CarvedLegsIsSequence, OptionalIsSequence, Concatenation
<1>4. IsSequence(parts)
  BY CarvedLegsIsSequence, SplitLegsIsSequence, Concatenation
<1>5. IsSequence(rest)
  BY <1>3, <1>4
<1> HIDE DEF plain, parts, rest
<1>6. IsSequence(<<gross>>) /\ <<gross>>[1] = gross /\ Len(<<gross>>) = 1
  BY OptionalIsSequence
<1>7. Len(rest) \in Nat
  BY <1>5 DEF IsSequence
<1>8. /\ IsSequence(<<gross>> \o rest)
      /\ Len(<<gross>> \o rest) = 1 + Len(rest)
      /\ (<<gross>> \o rest)[1] = gross
  BY <1>5, <1>6, Concatenation
<1>9. QED
  BY <1>1, <1>2, <1>7, <1>8

\* settleRefund posts a sequence of legs.
LEMMA RefundLegsIsSequence ==
    ASSUME IsSequence(journal), NEW i PROVE IsSequence(refundLegs(i))
<1> DEFINE rows == InOrder(RefundedCredits(i))
           N == Cardinality(RefundedCredits(i))
           leg(k) == posting(journal[rows[k]].credit, "CASH",
                             journal[rows[k]].cents, "REFUND", "refund", i, NoParty)
<1>1. IsFiniteSet(DOMAIN journal)
  BY FS_Interval DEF IsSequence
<1>2. N \in Nat
  BY <1>1, FS_Subset, FS_CardinalityType DEF RefundedCredits
<1>3. DOMAIN rows = 1..N
  BY DEF InOrder
<1>4. refundLegs(i) = [k \in 1..N |-> leg(k)]
  BY <1>3 DEF refundLegs
<1> HIDE DEF rows, N, leg
<1>5. [k \in 1..N |-> leg(k)] \in Seq({leg(k) : k \in 1..N})
  BY <1>2
<1>6. QED
  BY <1>4, <1>5, SequenceShape

-----------------------------------------------------------------------------
(***************************************************************************)
(* Postings never rewrite history: what an invocation read of a prefix,    *)
(* and where it booked, survive every later transaction.                   *)
(***************************************************************************)
LEMMA JournalGrows ==
    ASSUME IsSequence(journal), NEW legs, IsSequence(legs),
           journal' = postEntries(journal, legs)
    PROVE  /\ IsSequence(journal')
           /\ Len(journal) \in Nat /\ Len(legs) \in Nat
           /\ Len(journal') = Len(journal) + Len(legs)
           /\ DOMAIN journal = 1..Len(journal)
           /\ DOMAIN journal' = 1..Len(journal')
           /\ \A n \in DOMAIN journal : journal'[n] = journal[n]
           /\ Len(legs) > 0 => journal'[Len(journal) + 1] = legs[1]
<1>1. journal' = journal \o legs
  BY DEF postEntries
<1>2. /\ Len(journal) \in Nat /\ DOMAIN journal = 1..Len(journal)
      /\ Len(legs) \in Nat
  BY DEF IsSequence
<1>3. /\ IsSequence(journal \o legs)
      /\ Len(journal \o legs) = Len(journal) + Len(legs)
      /\ \A n \in 1..Len(journal) : (journal \o legs)[n] = journal[n]
      /\ Len(legs) > 0 => (journal \o legs)[Len(journal) + 1] = legs[1]
  BY Concatenation
<1>4. DOMAIN journal' = 1..Len(journal')
  BY <1>1, <1>3 DEF IsSequence
<1>5. QED
  BY <1>1, <1>2, <1>3, <1>4

LEMMA CallersSurvive ==
    ASSUME SettleInv, NEW legs, IsSequence(legs),
           journal' = postEntries(journal, legs),
           NEW c \in Callers, caller'[c] = caller[c]
    PROVE  /\ caller'[c].phase = "planned" => PlanStartsWithCapture(c)'
           /\ caller'[c].phase = "booked" => BookedAtCapture(c)'
<1>1. /\ Len(journal) \in Nat /\ Len(legs) \in Nat
      /\ Len(journal') = Len(journal) + Len(legs)
      /\ DOMAIN journal = 1..Len(journal)
      /\ DOMAIN journal' = 1..Len(journal')
      /\ \A n \in DOMAIN journal : journal'[n] = journal[n]
  BY JournalGrows DEF SettleInv
<1>2. ASSUME NEW i, NEW seen \in 0..Len(journal), NotCapturedBy(i, seen)
      PROVE  NotCapturedBy(i, seen)'
  <2> SUFFICES ASSUME NEW n \in DOMAIN journal', n <= seen
               PROVE  ~IsCaptureOf(journal'[n], i)
    BY DEF NotCapturedBy
  <2>1. n \in DOMAIN journal /\ journal'[n] = journal[n]
    BY <1>1
  <2>2. QED
    BY <1>2, <2>1 DEF NotCapturedBy
<1>3. 0..Len(journal) \subseteq 0..Len(journal')
  BY <1>1
<1>4. CASE caller[c].phase = "planned"
  <2>1. PlanStartsWithCapture(c)
    BY <1>4 DEF SettleInv
  <2>2. PlanStartsWithCapture(c)'
    BY <1>2, <1>3, <2>1 DEF PlanStartsWithCapture
  <2>3. QED
    BY <1>4, <2>2
<1>5. CASE caller[c].phase = "booked"
  <2>1. BookedAtCapture(c)
    BY <1>5 DEF SettleInv
  <2>2. caller[c].at \in DOMAIN journal' /\ journal'[caller[c].at] = journal[caller[c].at]
    BY <1>1, <2>1 DEF BookedAtCapture
  <2>3. BookedAtCapture(c)'
    BY <1>2, <1>3, <2>1, <2>2 DEF BookedAtCapture
  <2>4. QED
    BY <1>5, <2>3
<1>6. QED
  BY <1>4, <1>5

-----------------------------------------------------------------------------
LEMMA InitSettleInv == Init => SettleInv
<1> SUFFICES ASSUME Init PROVE SettleInv
  OBVIOUS
<1>1. IsSequence(journal)
  BY DEF Init, IsSequence
<1>2. QED
  BY <1>1 DEF Init, SettleInv

\* Each step of settleCapture and settleRefund keeps the invariant.
LEMMA StepSettleInv == SettleInv /\ [Next]_vars => SettleInv'
<1> SUFFICES ASSUME SettleInv, [Next]_vars PROVE SettleInv'
  OBVIOUS
<1>1. ASSUME NEW c \in Callers, NEW i \in Intents, BeginSettle(c, i)
      PROVE  SettleInv'
  <2>1. /\ journal' = journal /\ DOMAIN caller' = Callers
        /\ \A d \in Callers \ {c} : caller'[d] = caller[d]
    BY <1>1 DEF BeginSettle, SettleInv
  <2>2. CASE caller'[c] = [phase |-> "skipped"]
    BY <2>1, <2>2 DEF SettleInv, PlanStartsWithCapture, BookedAtCapture, NotCapturedBy
  <2>3. ASSUME NEW cfg \in TenantConfigs, ~alreadySettled(i),
               caller'[c] = [phase |-> "planned", intent |-> i,
                             seen |-> Len(journal), cfg |-> cfg,
                             legs |-> captureLegs(i, cfg)]
        PROVE  SettleInv'
    <3>1. NotCapturedBy(i, Len(journal))'
      BY <2>1, <2>3 DEF NotCapturedBy, alreadySettled
    <3>2. Len(journal) \in 0..Len(journal)
      BY DEF SettleInv, IsSequence
    <3>3. PlanStartsWithCapture(c)'
      BY <2>1, <2>3, <3>1, <3>2, CaptureLegsStartWithCapture
         DEF PlanStartsWithCapture, NotCapturedBy
    <3>4. QED
      BY <2>1, <2>3, <3>3 DEF SettleInv, PlanStartsWithCapture, BookedAtCapture,
         NotCapturedBy
  <2>4. QED
    BY <1>1, <2>2, <2>3 DEF BeginSettle, SettleInv
<1>2. ASSUME NEW c \in Callers, CommitSettle(c) PROVE SettleInv'
  <2>1. PlanStartsWithCapture(c)
    BY <1>2 DEF CommitSettle, SettleInv
  <2>2. /\ journal' = postEntries(journal, caller[c].legs)
        /\ DOMAIN caller' = Callers
        /\ \A d \in Callers \ {c} : caller'[d] = caller[d]
        /\ caller'[c] = [phase |-> "booked", intent |-> caller[c].intent,
                         seen |-> caller[c].seen, cfg |-> caller[c].cfg,
                         at |-> Len(journal) + 1]
    BY <1>2 DEF CommitSettle, SettleInv
  <2>3. /\ IsSequence(journal')
        /\ Len(journal) \in Nat /\ Len(caller[c].legs) \in Nat
        /\ Len(journal') = Len(journal) + Len(caller[c].legs)
        /\ DOMAIN journal = 1..Len(journal)
        /\ DOMAIN journal' = 1..Len(journal')
        /\ \A n \in DOMAIN journal : journal'[n] = journal[n]
        /\ journal'[Len(journal) + 1] = caller[c].legs[1]
    BY <2>1, <2>2, JournalGrows DEF SettleInv, PlanStartsWithCapture
  <2>4. Len(journal) + 1 \in DOMAIN journal'
    BY <2>1, <2>3 DEF PlanStartsWithCapture
  <2>5. NotCapturedBy(caller[c].intent, caller[c].seen)'
    <3> DEFINE i == caller[c].intent
               seen == caller[c].seen
    <3>1. seen \in 0..Len(journal) /\ NotCapturedBy(i, seen)
      BY <2>1 DEF PlanStartsWithCapture
    <3>2. \A n \in DOMAIN journal' : n <= seen => ~IsCaptureOf(journal'[n], i)
      BY <2>3, <3>1 DEF NotCapturedBy
    <3>3. QED
      BY <2>2, <3>2 DEF NotCapturedBy
  <2>6. BookedAtCapture(c)'
    BY <2>1, <2>2, <2>3, <2>4, <2>5 DEF BookedAtCapture, PlanStartsWithCapture
  <2>7. \A d \in Callers \ {c} :
           /\ caller'[d].phase = "planned" => PlanStartsWithCapture(d)'
           /\ caller'[d].phase = "booked" => BookedAtCapture(d)'
    BY <2>1, <2>2, CallersSurvive DEF PlanStartsWithCapture
  <2>8. caller'[c].phase = "booked"
    BY <2>2
  <2>9. QED
    BY <2>2, <2>3, <2>6, <2>7, <2>8 DEF SettleInv
<1>3. ASSUME NEW c \in Callers, AbortSettle(c) PROVE SettleInv'
  <2>1. /\ journal' = journal /\ DOMAIN caller' = Callers
        /\ \A d \in Callers \ {c} : caller'[d] = caller[d]
        /\ caller'[c] = [phase |-> "aborted"]
    BY <1>3 DEF AbortSettle, SettleInv
  <2>2. QED
    BY <2>1 DEF SettleInv, PlanStartsWithCapture, BookedAtCapture, NotCapturedBy
<1>4. ASSUME NEW i \in Intents, SettleRefund(i) PROVE SettleInv'
  <2>1. IsSequence(refundLegs(i))
    BY RefundLegsIsSequence DEF SettleInv
  <2>2. journal' = postEntries(journal, refundLegs(i)) /\ caller' = caller
    BY <1>4 DEF SettleRefund
  <2>3. IsSequence(journal')
    BY <2>1, <2>2, JournalGrows DEF SettleInv
  <2>4. \A c \in Callers :
           /\ caller'[c].phase = "planned" => PlanStartsWithCapture(c)'
           /\ caller'[c].phase = "booked" => BookedAtCapture(c)'
    BY <2>1, <2>2, CallersSurvive
  <2>5. QED
    BY <2>2, <2>3, <2>4 DEF SettleInv
<1>5. CASE UNCHANGED vars
  BY <1>5 DEF vars, SettleInv, PlanStartsWithCapture, BookedAtCapture, NotCapturedBy
<1>6. QED
  BY <1>1, <1>2, <1>3, <1>4, <1>5 DEF Next

(***************************************************************************)
(* A capture is booked twice only by two settleCapture invocations that    *)
(* overlap: the later one ran its alreadySettled read before the earlier   *)
(* one committed.  Sequential replays of a webhook never book twice.       *)
(***************************************************************************)
THEOREM ReplayNeverDoubleBooks == Spec => []DuplicateOnlyFromOverlap
<1>1. SettleInv => DuplicateOnlyFromOverlap
  <2> SUFFICES ASSUME SettleInv, NEW c \in Callers, NEW d \in Callers,
                      caller[c].phase = "booked", caller[d].phase = "booked",
                      caller[c].intent = caller[d].intent
               PROVE  caller[d].seen < caller[c].at
    BY DEF DuplicateOnlyFromOverlap
  <2>1. BookedAtCapture(c) /\ BookedAtCapture(d)
    BY DEF SettleInv
  <2>2. Len(journal) \in Nat /\ DOMAIN journal = 1..Len(journal)
    BY DEF SettleInv, IsSequence
  <2>3. ~(caller[c].at <= caller[d].seen)
    BY <2>1 DEF BookedAtCapture, NotCapturedBy
  <2>4. caller[c].at \in Int /\ caller[d].seen \in Int
    BY <2>1, <2>2 DEF BookedAtCapture
  <2>5. QED
    BY <2>3, <2>4
<1>2. QED
  BY <1>1, InitSettleInv, StepSettleInv, PTL DEF Spec

-----------------------------------------------------------------------------
(***************************************************************************)
(* The money of a capture and of its refund.                               *)
(***************************************************************************)

\* fees.ts, tax.ts, settlement-policy.ts: the parts of a plan are amounts.
LEMMA RateOfAmount ==
    ASSUME NEW a \in Nat, NEW bps \in Nat
    PROVE  applyBps(a, bps) \in Nat
BY RoundedRatioBounds, BpsUnitAssumption DEF applyBps

\* The smallest of a finite set of numbers.
LEMMA SmallestExists ==
    ASSUME NEW S, IsFiniteSet(S), S \subseteq Int, S # {}
    PROVE  \E x \in S : \A y \in S : x <= y
<1> DEFINE b == [x \in S |-> 0 - x]
           T == {b[x] : x \in S}
<1>1. \A x \in S : b[x] = 0 - x /\ b[x] \in Int /\ x \in Int
  OBVIOUS
<1> HIDE DEF b
<1>2. IsFiniteSet(T)
  BY ImageIsFinite
<1>3. T \subseteq Int /\ T # {}
  BY <1>1
<1>4. PICK z \in T : \A y \in T : y <= z
  BY <1>2, <1>3, LargestExists
<1>5. PICK x \in S : z = b[x]
  OBVIOUS
<1>6. \A y \in S : x <= y
  <2> SUFFICES ASSUME NEW y \in S PROVE x <= y
    OBVIOUS
  <2>1. b[y] \in T
    OBVIOUS
  <2>2. b[y] <= b[x]
    BY <1>4, <1>5, <2>1
  <2>3. QED
    BY <1>1, <2>2
<1>7. QED
  BY <1>6

LEMMA ElementOfSequence ==
    ASSUME NEW S, NEW s \in Seq(S), NEW n \in DOMAIN s
    PROVE  s[n] \in S
OBVIOUS

LEMMA FeeIsAmount ==
    ASSUME NEW a \in Nat,
           NEW schedule \in [feeType : {"FLAT", "PER_METHOD", "PERCENTAGE", "TIERED"},
                             flat : Nat, bps : Nat, tiers : Seq([upTo : Nat, bps : Nat])]
    PROVE  computeFee(schedule, a) \in Nat
<1>1. CASE schedule.feeType \in {"FLAT", "PER_METHOD"}
  BY <1>1 DEF computeFee
<1>2. CASE schedule.feeType = "PERCENTAGE"
  BY <1>2, RateOfAmount DEF computeFee
<1>3. CASE schedule.feeType = "TIERED" /\ schedule.tiers = << >>
  BY <1>3 DEF computeFee
<1>4. CASE schedule.feeType = "TIERED" /\ schedule.tiers # << >>
  <2> DEFINE tiers == schedule.tiers
             t == TierFor(tiers, a)
             reached == {n \in DOMAIN tiers : a <= tiers[n].upTo}
  <2>1. tiers \in Seq([upTo : Nat, bps : Nat]) /\ Len(tiers) \in Nat
        /\ DOMAIN tiers = 1..Len(tiers) /\ tiers # << >>
    BY <1>4
  <2>2. Len(tiers) \in DOMAIN tiers
    BY <2>1
  <2>3. ASSUME reached # {} PROVE t \in reached
    <3>1. IsFiniteSet(DOMAIN tiers)
      BY <2>1, FS_Interval
    <3>2. reached \subseteq Int /\ IsFiniteSet(reached)
      BY <2>1, <3>1, FS_Subset
    <3>3. \E n \in reached : \A m \in reached : n <= m
      <4> HIDE DEF reached
      <4> QED
        BY <2>3, <3>2, SmallestExists
    <3>4. t = CHOOSE n \in reached : \A m \in reached : n <= m
      BY <2>3 DEF TierFor
    <3>5. QED
      BY <3>3, <3>4
  <2>4. t \in DOMAIN tiers
    BY <2>2, <2>3 DEF TierFor
  <2>5. tiers[t].bps \in Nat
    <3> HIDE DEF t, tiers
    <3>1. tiers[t] \in [upTo : Nat, bps : Nat]
      BY <2>1, <2>4, ElementOfSequence
    <3>2. QED
      BY <3>1
  <2>6. computeFee(schedule, a) = applyBps(a, tiers[t].bps)
    BY <1>4 DEF computeFee
  <2>7. QED
    BY <2>5, <2>6, RateOfAmount
<1>5. QED
  BY <1>1, <1>2, <1>3, <1>4

LEMMA PlanOfAmounts ==
    ASSUME NEW a \in Nat, NEW cfg \in TenantConfigs
    PROVE  LET plan == planCaptureSettlement(a, cfg.schedule, cfg.policy, cfg.tax)
           IN  /\ plan.fee \in Nat /\ plan.tax \in Nat /\ plan.reserve \in Nat
               /\ plan.net = a - plan.fee - plan.tax - plan.reserve
<1> DEFINE fee == computeFee(cfg.schedule, a)
           taxed == computeTax(fee, cfg.tax)
           reserve == computeReserve(cfg.policy, a)
<1>1. fee \in Nat
  BY FeeIsAmount, SettlementAssumption
<1> HIDE DEF fee
<1>2. taxed \in Nat
  BY <1>1, RateOfAmount, SettlementAssumption DEF computeTax
<1>3. reserve \in Nat
  <2>1. cfg.policy \in [reserveType : {"NONE", "FIXED", "ROLLING"}, reserve : Nat]
    BY SettlementAssumption
  <2>2. QED
    BY <2>1, RateOfAmount DEF computeReserve, Smaller
<1>4. planCaptureSettlement(a, cfg.schedule, cfg.policy, cfg.tax)
         = [fee |-> fee, tax |-> taxed, reserve |-> reserve,
            net |-> a - fee - taxed - reserve]
  BY DEF planCaptureSettlement, fee
<1> HIDE DEF taxed, reserve
<1>5. QED
  BY <1>1, <1>2, <1>3, <1>4

\* The legs of a capture, and of a refund.
CapturePosting(p) ==
    /\ p.debit \in {"CASH", "COLLECTED", "AVAILABLE"}
    /\ p.credit \in {"COLLECTED", "AVAILABLE", "FEES", "RESERVE", "TAX_PAYABLE"}
    /\ p.cents \in Nat
    /\ p.credit = "TAX_PAYABLE" => p.category = "TAX"

RefundPosting(p) ==
    /\ p.credit = "CASH"
    /\ p.debit \in REFUNDED_ACCOUNTS
    /\ p.cents \in Nat

\* Whatever is carved out of AVAILABLE follows the legs of a split.
SplitMarked(s) ==
    \A n \in DOMAIN s :
        s[n].sourceType = "payment_intent" /\ s[n].debit = "AVAILABLE" =>
            \E m \in DOMAIN s : /\ s[m].sourceType = "payment_intent"
                                /\ s[m].sourceId = s[n].sourceId
                                /\ s[m].category = "SPLIT"

\* The legs t of a capture of i that falls short of its fee, tax and reserve.
CaptureOf(t, i, short) ==
    /\ IsSequence(t)
    /\ \A k \in DOMAIN t : /\ t[k].sourceType = "payment_intent" /\ t[k].sourceId = i
                           /\ CapturePosting(t[k])
    /\ SplitMarked(t)
    /\ short \in Nat
    /\ balanceOf(t, "COLLECTED") = -short

\* Some of the legs of a capture of i, in a row.
PartOf(t, i) ==
    /\ IsSequence(t)
    /\ \A k \in DOMAIN t : /\ t[k].sourceType = "payment_intent" /\ t[k].sourceId = i
                           /\ CapturePosting(t[k])

LEMMA PartsAppend ==
    ASSUME NEW i, NEW s, NEW t, PartOf(s, i), PartOf(t, i)
    PROVE  /\ PartOf(s \o t, i)
           /\ balanceOf(s \o t, "COLLECTED")
                 = balanceOf(s, "COLLECTED") + balanceOf(t, "COLLECTED")
           /\ balanceOf(s, "COLLECTED") \in Int /\ balanceOf(t, "COLLECTED") \in Int
<1>1. /\ IsSequence(s) /\ IsSequence(t) /\ IntegerCents(s) /\ IntegerCents(t)
  BY DEF PartOf, CapturePosting, IntegerCents
<1>2. /\ IsSequence(s \o t)
      /\ Len(s) \in Nat /\ Len(t) \in Nat
      /\ DOMAIN s = 1..Len(s) /\ DOMAIN t = 1..Len(t)
      /\ DOMAIN (s \o t) = 1..(Len(s) + Len(t))
      /\ \A n \in 1..Len(s) : (s \o t)[n] = s[n]
      /\ \A k \in 1..Len(t) : (s \o t)[Len(s) + k] = t[k]
  BY <1>1, AppendShape
<1>3. ASSUME NEW n \in DOMAIN (s \o t)
      PROVE  \/ \E k \in DOMAIN s : (s \o t)[n] = s[k]
             \/ \E k \in DOMAIN t : (s \o t)[n] = t[k]
  <2>1. CASE n \in 1..Len(s)
    BY <1>2, <2>1
  <2>2. CASE n \notin 1..Len(s)
    <3>1. n - Len(s) \in 1..Len(t) /\ Len(s) + (n - Len(s)) = n
      BY <1>2, <2>2
    <3>2. (s \o t)[n] = t[n - Len(s)]
      BY <1>2, <3>1
    <3>3. QED
      BY <1>2, <3>1, <3>2
  <2>3. QED
    BY <2>1, <2>2
<1>4. PartOf(s \o t, i)
  BY <1>2, <1>3 DEF PartOf
<1>5. balanceOf(s \o t, "COLLECTED") = balanceOf(s, "COLLECTED") + balanceOf(t, "COLLECTED")
  BY <1>1, BalanceOfAppended
<1>6. balanceOf(s, "COLLECTED") \in Int /\ balanceOf(t, "COLLECTED") \in Int
  BY <1>1, BalanceIsInteger DEF balanceOf
<1>7. QED
  BY <1>4, <1>5, <1>6

\* A leg that is posted when it moves money.
LEMMA OptionalPart ==
    ASSUME NEW i, NEW p, CapturePosting(p), p.sourceType = "payment_intent", p.sourceId = i
    PROVE  /\ PartOf(Optional(p), i) /\ PartOf(<<p>>, i)
           /\ balanceOf(Optional(p), "COLLECTED") = delta(p, "COLLECTED")
           /\ balanceOf(<<p>>, "COLLECTED") = delta(p, "COLLECTED")
           /\ delta(p, "COLLECTED") \in Int
<1>1. p.cents \in Nat
  BY DEF CapturePosting
<1>2. /\ IsSequence(<<p>>) /\ IsSequence(<< >>)
      /\ balanceOf(<< >>, "COLLECTED") = 0
      /\ balanceOf(<<p>>, "COLLECTED") = delta(p, "COLLECTED")
  BY <1>1, BalanceOfOne
<1>3. DOMAIN <<p>> = {1} /\ <<p>>[1] = p /\ DOMAIN << >> = {}
  OBVIOUS
<1>4. PartOf(<<p>>, i) /\ PartOf(<< >>, i)
  BY <1>2, <1>3 DEF PartOf
<1>5. delta(p, "COLLECTED") \in Int /\ (p.cents = 0 => delta(p, "COLLECTED") = 0)
  BY <1>1 DEF delta
<1>6. CASE p.cents > 0
  <2>1. Optional(p) = <<p>>
    BY <1>6 DEF Optional
  <2>2. QED
    BY <1>2, <1>4, <1>5, <2>1
<1>7. CASE ~ (p.cents > 0)
  <2>1. Optional(p) = << >> /\ p.cents = 0
    BY <1>1, <1>7 DEF Optional
  <2>2. QED
    BY <1>2, <1>4, <1>5, <2>1
<1>8. QED
  BY <1>6, <1>7

\* The legs of two lists, and the first of them.
LEMMA FirstOfBoth ==
    ASSUME NEW s, NEW t, IsSequence(s), IsSequence(t), 1 \in DOMAIN s
    PROVE  1 \in DOMAIN (s \o t) /\ (s \o t)[1] = s[1]
<1>1. /\ Len(s) \in Nat /\ Len(t) \in Nat
      /\ DOMAIN s = 1..Len(s)
      /\ DOMAIN (s \o t) = 1..(Len(s) + Len(t))
      /\ \A n \in 1..Len(s) : (s \o t)[n] = s[n]
  BY AppendShape
<1>2. QED
  BY <1>1

LEMMA DebitsOfBoth ==
    ASSUME NEW s, NEW t, IsSequence(s), IsSequence(t), NEW a, NEW b,
           \A k \in DOMAIN s : s[k].debit = a,
           \A k \in DOMAIN t : t[k].debit = b
    PROVE  \A k \in DOMAIN (s \o t) : (s \o t)[k].debit \in {a, b}
<1>1. /\ Len(s) \in Nat /\ Len(t) \in Nat
      /\ DOMAIN s = 1..Len(s) /\ DOMAIN t = 1..Len(t)
      /\ DOMAIN (s \o t) = 1..(Len(s) + Len(t))
      /\ \A n \in 1..Len(s) : (s \o t)[n] = s[n]
      /\ \A k \in 1..Len(t) : (s \o t)[Len(s) + k] = t[k]
  BY AppendShape
<1> SUFFICES ASSUME NEW n \in DOMAIN (s \o t) PROVE (s \o t)[n].debit \in {a, b}
  OBVIOUS
<1>2. CASE n \in 1..Len(s)
  BY <1>1, <1>2
<1>3. CASE n \notin 1..Len(s)
  <2>1. n - Len(s) \in 1..Len(t) /\ Len(s) + (n - Len(s)) = n
    BY <1>1, <1>3
  <2>2. (s \o t)[n] = t[n - Len(s)]
    BY <1>1, <2>1
  <2>3. QED
    BY <1>1, <2>1, <2>2
<1>4. QED
  BY <1>2, <1>3

LEMMA DebitOfBoth ==
    ASSUME NEW s, NEW t, IsSequence(s), IsSequence(t), NEW a,
           \A k \in DOMAIN s : s[k].debit = a,
           \A k \in DOMAIN t : t[k].debit = a
    PROVE  \A k \in DOMAIN (s \o t) : (s \o t)[k].debit = a
<1>1. \A k \in DOMAIN (s \o t) : (s \o t)[k].debit \in {a, a}
  BY DebitsOfBoth
<1>2. QED
  BY <1>1

\* settlement-db.ts, steps 3 to 5: fee, tax and reserve.
LEMMA CarvedPart ==
    ASSUME NEW i, NEW plan, plan.fee \in Nat, plan.tax \in Nat, plan.reserve \in Nat,
           NEW from \in {"COLLECTED", "AVAILABLE"}
    PROVE  /\ PartOf(CarvedLegs(i, plan, from), i)
           /\ balanceOf(CarvedLegs(i, plan, from), "COLLECTED")
                 = IF from = "COLLECTED" THEN -(plan.fee + plan.tax + plan.reserve) ELSE 0
           /\ \A k \in DOMAIN CarvedLegs(i, plan, from) :
                 CarvedLegs(i, plan, from)[k].debit = from
<1> DEFINE leg(credit, cents, category) ==
              posting(from, credit, cents, category, "payment_intent", i, NoParty)
           p == leg("FEES", plan.fee, "FEE")
           q == leg("TAX_PAYABLE", plan.tax, "TAX")
           r == leg("RESERVE", plan.reserve, "CAPTURE")
           fee == Optional(p)
           tax == Optional(q)
           reserve == Optional(r)
<1>1. CarvedLegs(i, plan, from) = fee \o tax \o reserve
  BY DEF CarvedLegs
<1>2. /\ CapturePosting(p) /\ p.sourceType = "payment_intent" /\ p.sourceId = i
      /\ CapturePosting(q) /\ q.sourceType = "payment_intent" /\ q.sourceId = i
      /\ CapturePosting(r) /\ r.sourceType = "payment_intent" /\ r.sourceId = i
      /\ p.debit = from /\ q.debit = from /\ r.debit = from
  BY DEF posting, CapturePosting
<1>3. /\ delta(p, "COLLECTED") = IF from = "COLLECTED" THEN -plan.fee ELSE 0
      /\ delta(q, "COLLECTED") = IF from = "COLLECTED" THEN -plan.tax ELSE 0
      /\ delta(r, "COLLECTED") = IF from = "COLLECTED" THEN -plan.reserve ELSE 0
  BY DEF posting, delta
<1>4. ASSUME NEW t \in {p, q, r}, NEW k \in DOMAIN Optional(t)
      PROVE  Optional(t)[k].debit = from
  BY <1>2 DEF Optional
<1> HIDE DEF p, q, r
<1>5. /\ PartOf(fee, i) /\ PartOf(tax, i) /\ PartOf(reserve, i)
      /\ balanceOf(fee, "COLLECTED") = delta(p, "COLLECTED")
      /\ balanceOf(tax, "COLLECTED") = delta(q, "COLLECTED")
      /\ balanceOf(reserve, "COLLECTED") = delta(r, "COLLECTED")
  BY <1>2, OptionalPart
<1>6. /\ \A k \in DOMAIN fee : fee[k].debit = from
      /\ \A k \in DOMAIN tax : tax[k].debit = from
      /\ \A k \in DOMAIN reserve : reserve[k].debit = from
  BY <1>4
<1> HIDE DEF fee, tax, reserve
<1>7. /\ PartOf(fee \o tax, i)
      /\ balanceOf(fee \o tax, "COLLECTED")
            = balanceOf(fee, "COLLECTED") + balanceOf(tax, "COLLECTED")
  BY <1>5, PartsAppend
<1>8. /\ PartOf(fee \o tax \o reserve, i)
      /\ balanceOf(fee \o tax \o reserve, "COLLECTED")
            = balanceOf(fee \o tax, "COLLECTED") + balanceOf(reserve, "COLLECTED")
  BY <1>5, <1>7, PartsAppend
<1>9. \A k \in DOMAIN (fee \o tax) : (fee \o tax)[k].debit = from
  BY <1>5, <1>6, DebitOfBoth DEF PartOf
<1>10. \A k \in DOMAIN (fee \o tax \o reserve) : (fee \o tax \o reserve)[k].debit = from
  BY <1>5, <1>6, <1>7, <1>9, DebitOfBoth DEF PartOf
<1>11. balanceOf(CarvedLegs(i, plan, from), "COLLECTED")
          = delta(p, "COLLECTED") + delta(q, "COLLECTED") + delta(r, "COLLECTED")
  BY <1>1, <1>5, <1>7, <1>8
<1>12. CASE from = "COLLECTED"
  BY <1>1, <1>3, <1>8, <1>10, <1>11, <1>12, SMTT(30)
<1>13. CASE from = "AVAILABLE"
  BY <1>1, <1>3, <1>8, <1>10, <1>11, <1>13
<1>14. QED
  BY <1>12, <1>13

\* splits-db.ts: one leg per share, and the rest for the platform.
LEMMA SplitPart ==
    ASSUME NEW i \in Intents, Gross[i] > 0, NEW cfg \in TenantConfigs, cfg.shares # << >>
    PROVE  /\ PartOf(SplitLegs(i, cfg.shares), i)
           /\ balanceOf(SplitLegs(i, cfg.shares), "COLLECTED") = -Gross[i]
           /\ \A k \in DOMAIN SplitLegs(i, cfg.shares) :
                 SplitLegs(i, cfg.shares)[k].debit = "COLLECTED"
           /\ 1 \in DOMAIN SplitLegs(i, cfg.shares)
           /\ SplitLegs(i, cfg.shares)[1].category = "SPLIT"
           /\ split(Gross[i], cfg.shares).platform \in Nat
<1> DEFINE shares == cfg.shares
           g == Gross[i]
           parts == split(g, shares)
           share(n) == posting("COLLECTED", "AVAILABLE", parts.shares[n], "SPLIT",
                               "payment_intent", i, shares[n].party)
           rest == posting("COLLECTED", "AVAILABLE", parts.platform, "SPLIT",
                           "payment_intent", i, NoParty)
           legs == [n \in DOMAIN shares |-> share(n)]
           D == DOMAIN shares
           cs == parts.shares
           f == [n \in DOMAIN legs |-> delta(legs[n], "COLLECTED")]
<1>1. SplitLegs(i, shares) = legs \o Optional(rest)
  BY DEF SplitLegs
<1>2. g \in Nat
  BY SettlementAssumption
<1>3. ShareRows(shares)
  <2>1. shares \in Seq([party : Nat, bps : Nat]) /\ ValidShares(shares)
    BY SettlementAssumption
  <2>2. IsSequence(shares)
    BY <2>1, SequenceShape
  <2>3. \A n \in DOMAIN shares : shares[n] \in [party : Nat, bps : Nat]
    <3> HIDE DEF shares
    <3>1. QED
      BY <2>1, ElementOfSequence
  <2>4. \A n \in DOMAIN shares : shares[n].bps \in Nat /\ shares[n].party \in Int
    BY <2>3
  <2>5. QED
    BY <2>1, <2>2, <2>4 DEF ShareRows
<1> HIDE DEF g, shares
<1>4. /\ DOMAIN shares = 1..Len(shares) /\ Len(shares) \in Nat \ {0} /\ IsFiniteSet(D)
  BY <1>2, <1>3, PartsOfShares
<1>5. /\ \A n \in DOMAIN shares : cs[n] \in Nat
      /\ parts.platform \in Nat
      /\ DOMAIN cs = D
      /\ SumFunction(cs) + parts.platform = g
  <2> DEFINE pool == RoundedRatio(g, TotalBps(shares), BpsUnit)
  <2>1. /\ pool \in Nat /\ cs = computeShares(pool, shares) /\ SumFunction(cs) = pool
        /\ parts.platform = g - pool /\ parts.platform \in Nat
        /\ \A n \in DOMAIN shares : cs[n] \in Nat
    BY <1>2, <1>3, SplitOfCharge
  <2>2. DOMAIN cs = D
    BY <2>1, ComputeSharesUnfolds
  <2> HIDE DEF pool, parts
  <2>3. QED
    BY <1>2, <2>1, <2>2
<1>6. SumFunction(cs) = SumOver(cs, D)
  BY <1>5 DEF SumFunction, SumOver
<1> HIDE DEF parts
<1>7. \A n \in D : /\ legs[n].sourceType = "payment_intent" /\ legs[n].sourceId = i
                   /\ CapturePosting(legs[n]) /\ legs[n].debit = "COLLECTED"
                   /\ legs[n].category = "SPLIT"
                   /\ delta(legs[n], "COLLECTED") = -cs[n]
  BY <1>5 DEF posting, CapturePosting, delta
<1>8. IsSequence(legs) /\ DOMAIN legs = D
  <2> HIDE DEF share
  <2>1. legs \in Seq({share(n) : n \in D})
    BY <1>4
  <2>2. QED
    BY <2>1, SequenceShape
<1>9. PartOf(legs, i)
  BY <1>7, <1>8 DEF PartOf
<1>10. balanceOf(legs, "COLLECTED") = -SumOver(cs, D)
  <2>1. \A n \in D : f[n] = -cs[n]
    BY <1>7, <1>8
  <2>2. IntegerOn(cs, D)
    BY <1>5 DEF IntegerOn
  <2>3. balanceOf(legs, "COLLECTED") = SumOver(f, D)
    BY <1>8 DEF balanceOf, balanceOver, SumOver
  <2> HIDE DEF f, cs, D, legs
  <2>4. SumOver(f, D) = -SumOver(cs, D)
    BY <1>4, <2>1, <2>2, SumNegated
  <2>5. QED
    BY <2>3, <2>4
<1>11. /\ CapturePosting(rest) /\ rest.sourceType = "payment_intent" /\ rest.sourceId = i
       /\ rest.debit = "COLLECTED" /\ delta(rest, "COLLECTED") = -parts.platform
  BY <1>5 DEF posting, CapturePosting, delta
<1> HIDE DEF rest, legs
<1>12. /\ PartOf(Optional(rest), i)
       /\ balanceOf(Optional(rest), "COLLECTED") = delta(rest, "COLLECTED")
       /\ \A k \in DOMAIN Optional(rest) : Optional(rest)[k].debit = "COLLECTED"
  BY <1>11, OptionalPart DEF Optional
<1> DEFINE opt == Optional(rest)
<1> HIDE DEF opt
<1>13. PartOf(opt, i) /\ balanceOf(opt, "COLLECTED") = -parts.platform
  BY <1>11, <1>12 DEF opt
<1>14. /\ PartOf(legs \o opt, i)
       /\ balanceOf(legs \o opt, "COLLECTED")
             = balanceOf(legs, "COLLECTED") + balanceOf(opt, "COLLECTED")
  BY <1>9, <1>13, PartsAppend
<1>15. \A k \in DOMAIN (legs \o opt) : (legs \o opt)[k].debit = "COLLECTED"
  <2>1. \A k \in DOMAIN opt : opt[k].debit = "COLLECTED"
    BY <1>12 DEF opt
  <2>2. \A k \in DOMAIN legs : legs[k].debit = "COLLECTED"
    BY <1>7, <1>8
  <2>3. IsSequence(legs) /\ IsSequence(opt)
    BY <1>9, <1>13 DEF PartOf
  <2>4. QED
    BY <2>1, <2>2, <2>3, DebitOfBoth
<1>16. 1 \in DOMAIN (legs \o opt) /\ (legs \o opt)[1] = legs[1] /\ 1 \in D
  <2>1. /\ Len(legs) \in Nat /\ Len(opt) \in Nat /\ DOMAIN legs = 1..Len(legs)
        /\ DOMAIN (legs \o opt) = 1..(Len(legs) + Len(opt))
        /\ \A n \in 1..Len(legs) : (legs \o opt)[n] = legs[n]
    BY <1>8, <1>13, AppendShape DEF PartOf
  <2>2. 1 \in 1..Len(shares) /\ 1 \in D /\ 1 \in 1..Len(legs)
    BY <1>4, <1>8, <2>1
  <2>3. QED
    BY <2>1, <2>2
<1>17. SumOver(cs, D) \in Int
  BY <1>4, <1>5, SumOfAmounts
<1>18. balanceOf(legs \o opt, "COLLECTED") = -g
  <2> HIDE DEF D, cs
  <2>1. QED
    BY <1>2, <1>5, <1>6, <1>10, <1>13, <1>14, <1>17
<1>19. SplitLegs(i, shares) = legs \o opt
  BY <1>1 DEF opt
<1>20. QED
  BY <1>5, <1>7, <1>14, <1>15, <1>16, <1>18, <1>19 DEF g, shares, parts

(***************************************************************************)
(* settleCapture: whatever the configuration, the legs of a capture take   *)
(* out of COLLECTED what the first of them put in and what it was short of.*)
(***************************************************************************)
LEMMA CaptureLegsClear ==
    ASSUME NEW i \in Intents, Gross[i] > 0, NEW cfg \in TenantConfigs
    PROVE  CaptureOf(captureLegs(i, cfg), i, Shortfall(i, cfg))
<1> DEFINE plan  == PlanFor(i, cfg)
           g     == Gross[i]
           gross == posting("CASH", "COLLECTED", g, "CAPTURE", "payment_intent", i, NoParty)
           net   == posting("COLLECTED", "AVAILABLE", plan.net, "CAPTURE",
                            "payment_intent", i, NoParty)
           head  == <<gross>>
           short == Shortfall(i, cfg)
<1>1. g \in Nat
  BY SettlementAssumption
<1>2. /\ CapturePosting(gross) /\ gross.sourceType = "payment_intent"
      /\ gross.sourceId = i /\ delta(gross, "COLLECTED") = g
      /\ gross.debit = "CASH"
  BY <1>1 DEF posting, CapturePosting, delta
<1>3. PartOf(head, i) /\ balanceOf(head, "COLLECTED") = g
  <2> HIDE DEF gross
  <2>1. QED
    BY <1>2, OptionalPart
<1>4. \A k \in DOMAIN head : head[k].debit = "CASH"
  BY <1>2
<1>5. CASE cfg.shares = << >>
  <2> DEFINE carved == CarvedLegs(i, plan, "COLLECTED")
             last == Optional(net)
             tail == carved \o last
  <2>1. /\ plan.fee \in Nat /\ plan.tax \in Nat /\ plan.reserve \in Nat
        /\ plan.net = g - plan.fee - plan.tax - plan.reserve
        /\ plan.net \in Int
    <3>1. plan = planCaptureSettlement(g, cfg.schedule, cfg.policy, cfg.tax)
      BY <1>5 DEF PlanFor
    <3> HIDE DEF plan, g
    <3>2. /\ plan.fee \in Nat /\ plan.tax \in Nat /\ plan.reserve \in Nat
          /\ plan.net = g - plan.fee - plan.tax - plan.reserve
      BY <1>1, <3>1, PlanOfAmounts
    <3>3. QED
      BY <1>1, <3>2
  <2>2. /\ short = IF plan.net < 0 THEN -plan.net ELSE 0
        /\ short \in Nat
    <3>1. short = IF plan.net < 0 THEN -plan.net ELSE 0
      BY <1>5 DEF Shortfall
    <3> HIDE DEF short, plan
    <3>2. QED
      BY <2>1, <3>1
  <2>3. captureLegs(i, cfg) = head \o tail
    BY <1>5 DEF captureLegs
  <2>0. /\ PartOf(last, i)
        /\ balanceOf(last, "COLLECTED") = IF plan.net < 0 THEN 0 ELSE -plan.net
        /\ \A k \in DOMAIN last : last[k].debit = "COLLECTED"
    <3>1. CASE plan.net < 0
      <4>1. last = << >>
        BY <2>1, <3>1 DEF Optional, posting
      <4>2. IsSequence(<<0>>) /\ IsSequence(<< >>) /\ balanceOf(<< >>, "COLLECTED") = 0
        BY BalanceOfOne
      <4>3. DOMAIN << >> = {}
        OBVIOUS
      <4> HIDE DEF last, plan
      <4>4. QED
        BY <3>1, <4>1, <4>2, <4>3 DEF PartOf
    <3>2. CASE ~ (plan.net < 0)
      <4>1. plan.net \in Nat
        BY <2>1, <3>2
      <4>2. /\ CapturePosting(net) /\ net.sourceType = "payment_intent"
            /\ net.sourceId = i /\ delta(net, "COLLECTED") = -plan.net
            /\ net.debit = "COLLECTED"
        BY <4>1 DEF posting, CapturePosting, delta
      <4> HIDE DEF plan, net
      <4>3. QED
        BY <3>2, <4>2, OptionalPart DEF Optional
    <3>3. QED
      BY <3>1, <3>2
  <2> HIDE DEF plan, g, head, net, short
  <2>4. /\ PartOf(carved, i)
        /\ balanceOf(carved, "COLLECTED") = -(plan.fee + plan.tax + plan.reserve)
        /\ \A k \in DOMAIN carved : carved[k].debit = "COLLECTED"
    BY <2>1, CarvedPart
  <2> HIDE DEF carved, last
  <2>6. /\ PartOf(tail, i)
        /\ balanceOf(tail, "COLLECTED")
              = balanceOf(carved, "COLLECTED") + balanceOf(last, "COLLECTED")
    BY <2>0, <2>4, PartsAppend
  <2>7. \A k \in DOMAIN tail : tail[k].debit = "COLLECTED"
    BY <2>0, <2>4, DebitOfBoth DEF PartOf
  <2> HIDE DEF tail
  <2>8. /\ PartOf(head \o tail, i)
        /\ balanceOf(head \o tail, "COLLECTED")
              = balanceOf(head, "COLLECTED") + balanceOf(tail, "COLLECTED")
    BY <1>3, <2>6, PartsAppend
  <2>9. \A k \in DOMAIN (head \o tail) : (head \o tail)[k].debit \in {"CASH", "COLLECTED"}
    BY <1>3, <1>4, <2>6, <2>7, DebitsOfBoth DEF PartOf
  <2>10. balanceOf(head \o tail, "COLLECTED") = -short
    BY <1>1, <1>3, <2>0, <2>1, <2>2, <2>4, <2>6, <2>8
  <2>11. CaptureOf(captureLegs(i, cfg), i, short)
    BY <2>2, <2>3, <2>8, <2>9, <2>10 DEF CaptureOf, PartOf, SplitMarked
  <2>12. QED
    BY <2>11 DEF short
<1>6. CASE cfg.shares # << >>
  <2> DEFINE parts == SplitLegs(i, cfg.shares)
             carved == CarvedLegs(i, plan, "AVAILABLE")
             tail == parts \o carved
  <2>1. /\ PartOf(parts, i) /\ balanceOf(parts, "COLLECTED") = -g
        /\ 1 \in DOMAIN parts /\ parts[1].category = "SPLIT"
        /\ split(g, cfg.shares).platform \in Nat
    BY <1>6, SplitPart
  <2>2. plan.fee \in Nat /\ plan.tax \in Nat /\ plan.reserve \in Nat
    <3>1. plan = planCaptureSettlement(split(g, cfg.shares).platform,
                                       cfg.schedule, cfg.policy, cfg.tax)
      BY <1>6 DEF PlanFor
    <3> HIDE DEF plan, g
    <3>2. QED
      BY <2>1, <3>1, PlanOfAmounts
  <2>3. captureLegs(i, cfg) = head \o tail /\ short = 0
    BY <1>6 DEF captureLegs, Shortfall
  <2> HIDE DEF plan, g, head, parts, short
  <2>4. PartOf(carved, i) /\ balanceOf(carved, "COLLECTED") = 0
    BY <2>2, CarvedPart
  <2> HIDE DEF carved
  <2>5. /\ PartOf(tail, i)
        /\ balanceOf(tail, "COLLECTED")
              = balanceOf(parts, "COLLECTED") + balanceOf(carved, "COLLECTED")
    BY <2>1, <2>4, PartsAppend
  <2>6. 1 \in DOMAIN tail /\ tail[1] = parts[1]
    BY <2>1, <2>4, FirstOfBoth DEF PartOf
  <2> HIDE DEF tail
  <2>7. /\ PartOf(head \o tail, i)
        /\ balanceOf(head \o tail, "COLLECTED")
              = balanceOf(head, "COLLECTED") + balanceOf(tail, "COLLECTED")
    BY <1>3, <2>5, PartsAppend
  <2>8. \E m \in DOMAIN (head \o tail) : (head \o tail)[m] = tail[1]
    <3>1. /\ Len(head) \in Nat /\ Len(tail) \in Nat /\ DOMAIN tail = 1..Len(tail)
          /\ DOMAIN (head \o tail) = 1..(Len(head) + Len(tail))
          /\ \A k \in 1..Len(tail) : (head \o tail)[Len(head) + k] = tail[k]
      BY <1>3, <2>5, AppendShape DEF PartOf
    <3>2. Len(head) + 1 \in DOMAIN (head \o tail) /\ (head \o tail)[Len(head) + 1] = tail[1]
      BY <2>6, <3>1
    <3>3. QED
      BY <3>2
  <2>9. SplitMarked(head \o tail)
    BY <2>1, <2>6, <2>7, <2>8 DEF SplitMarked, PartOf
  <2>10. balanceOf(head \o tail, "COLLECTED") = 0
    BY <1>1, <1>3, <2>1, <2>4, <2>5, <2>7
  <2>11. CaptureOf(captureLegs(i, cfg), i, short)
    BY <2>3, <2>7, <2>9, <2>10 DEF CaptureOf, PartOf
  <2>12. QED
    BY <2>11 DEF short
<1>7. QED
  BY <1>5, <1>6

-----------------------------------------------------------------------------
(***************************************************************************)
(* What every committed journal satisfies, of a journal s and an intent i; *)
(* clean are the intents whose captures were paid from their gross.        *)
(***************************************************************************)
Books(s) ==
    /\ IsSequence(s)
    /\ \A n \in DOMAIN s :
          \/ s[n].sourceType = "payment_intent" /\ CapturePosting(s[n])
          \/ s[n].sourceType = "refund" /\ RefundPosting(s[n])

\* The captures of an intent took out of COLLECTED what they put in.
Cleared(s, i) == balanceOver(s, "COLLECTED", PostingsOf(s, "payment_intent", i)) = 0

\* RefundUnwindsCapture, of any journal.
UnwoundIn(s, i) ==
    {n \in PostingsOf(s, "payment_intent", i) :
        \A r \in PostingsOf(s, "refund", i) : n < r} \cup PostingsOf(s, "refund", i)

ZeroOn(s, accounts, i) ==
    \A account \in accounts : balanceOver(s, account, UnwoundIn(s, i)) = 0

Unwinds(s, i, clean) ==
    PostingsOf(s, "refund", i) # {} =>
        /\ ZeroOn(s, {"FEES", "RESERVE"}, i)
        /\ (\A n \in UnwoundIn(s, i) : s[n].category \notin {"TAX", "SPLIT"}) =>
              /\ ZeroOn(s, LedgerAccounts \ {"CASH", "COLLECTED"}, i)
              /\ i \in clean => ZeroOn(s, {"CASH", "COLLECTED"}, i)

\* The legs t that settleRefund posts for i when it reads s.
CreditsToRefund(s, i) ==
    {n \in PostingsOf(s, "payment_intent", i) : s[n].credit \in REFUNDED_ACCOUNTS /\ s[n].cents > 0}

RefundOf(s, t, i) ==
    /\ IsSequence(t)
    /\ DOMAIN t = 1..Cardinality(CreditsToRefund(s, i))
    /\ \A k \in DOMAIN t :
          t[k] = posting(s[InOrder(CreditsToRefund(s, i))[k]].credit, "CASH",
                         s[InOrder(CreditsToRefund(s, i))[k]].cents,
                         "REFUND", "refund", i, NoParty)

LEMMA BooksAreInteger ==
    ASSUME NEW s, Books(s) PROVE IsSequence(s) /\ IntegerCents(s)
BY DEF Books, CapturePosting, RefundPosting, IntegerCents

\* Every row of a longer journal is a row of one of its two parts.
RowsAreOf(j, s, t) ==
    /\ \A n \in DOMAIN j : \/ \E k \in DOMAIN s : j[n] = s[k]
                           \/ \E k \in DOMAIN t : j[n] = t[k]
    /\ \A k \in DOMAIN s : k \in DOMAIN j /\ j[k] = s[k]
    /\ \A k \in DOMAIN t : \E n \in DOMAIN j : j[n] = t[k]

LEMMA RowsOfBoth ==
    ASSUME NEW s, NEW t, IsSequence(s), IsSequence(t)
    PROVE  RowsAreOf(s \o t, s, t)
<1>1. /\ Len(s) \in Nat /\ Len(t) \in Nat
      /\ DOMAIN s = 1..Len(s) /\ DOMAIN t = 1..Len(t)
      /\ DOMAIN (s \o t) = 1..(Len(s) + Len(t))
      /\ \A n \in 1..Len(s) : (s \o t)[n] = s[n]
      /\ \A k \in 1..Len(t) : (s \o t)[Len(s) + k] = t[k]
  BY AppendShape
<1>2. ASSUME NEW n \in DOMAIN (s \o t)
      PROVE  \/ \E k \in DOMAIN s : (s \o t)[n] = s[k]
             \/ \E k \in DOMAIN t : (s \o t)[n] = t[k]
  <2>1. CASE n \in 1..Len(s)
    BY <1>1, <2>1
  <2>2. CASE n \notin 1..Len(s)
    <3>1. n - Len(s) \in 1..Len(t) /\ Len(s) + (n - Len(s)) = n
      BY <1>1, <2>2
    <3>2. (s \o t)[n] = t[n - Len(s)]
      BY <1>1, <3>1
    <3>3. QED
      BY <1>1, <3>1, <3>2
  <2>3. QED
    BY <2>1, <2>2
<1>3. ASSUME NEW k \in DOMAIN s PROVE k \in DOMAIN (s \o t) /\ (s \o t)[k] = s[k]
  BY <1>1
<1>4. ASSUME NEW k \in DOMAIN t PROVE \E n \in DOMAIN (s \o t) : (s \o t)[n] = t[k]
  <2>1. Len(s) + k \in DOMAIN (s \o t) /\ (s \o t)[Len(s) + k] = t[k]
    BY <1>1
  <2>2. QED
    BY <2>1
<1>5. QED
  BY <1>2, <1>3, <1>4 DEF RowsAreOf

LEMMA SplitMarkedAppends ==
    ASSUME NEW s, NEW t, IsSequence(s), IsSequence(t), SplitMarked(s), SplitMarked(t)
    PROVE  SplitMarked(s \o t)
<1> DEFINE j == s \o t
           marked(p) == \E m \in DOMAIN j : /\ j[m].sourceType = "payment_intent"
                                            /\ j[m].sourceId = p.sourceId
                                            /\ j[m].category = "SPLIT"
<1>1. RowsAreOf(j, s, t)
  BY RowsOfBoth
<1> HIDE DEF j
<1>2. ASSUME NEW k \in DOMAIN s, s[k].sourceType = "payment_intent", s[k].debit = "AVAILABLE"
      PROVE  marked(s[k])
  BY <1>1, <1>2 DEF SplitMarked, RowsAreOf
<1>3. ASSUME NEW k \in DOMAIN t, t[k].sourceType = "payment_intent", t[k].debit = "AVAILABLE"
      PROVE  marked(t[k])
  BY <1>1, <1>3 DEF SplitMarked, RowsAreOf
<1>4. ASSUME NEW n \in DOMAIN j, j[n].sourceType = "payment_intent", j[n].debit = "AVAILABLE"
      PROVE  marked(j[n])
  BY <1>1, <1>2, <1>3, <1>4 DEF RowsAreOf
<1>5. SplitMarked(j)
  BY <1>4 DEF SplitMarked
<1>6. QED
  BY <1>5 DEF j

-----------------------------------------------------------------------------
\* Legs of other sources leave the captures of an intent as they were.
LEMMA ClearedKept ==
    ASSUME NEW s, NEW t, Books(s), Books(t), NEW i, Cleared(s, i),
           \/ PostingsOf(t, "payment_intent", i) = {}
           \/ PostingsOf(t, "payment_intent", i) = DOMAIN t /\ balanceOf(t, "COLLECTED") = 0
    PROVE  Cleared(s \o t, i)
<1> DEFINE P == PostingsOf(s, "payment_intent", i)
           Q == PostingsOf(t, "payment_intent", i)
<1>1. /\ IsSequence(s) /\ IntegerCents(s) /\ IsSequence(t) /\ IntegerCents(t)
  BY BooksAreInteger
<1>2. /\ PostingsOf(s \o t, "payment_intent", i) = P \cup {Len(s) + k : k \in Q}
      /\ P \in SUBSET DOMAIN s /\ Q \in SUBSET DOMAIN t
  BY <1>1, PostingsAppend
<1>3. balanceOver(s \o t, "COLLECTED", P \cup {Len(s) + k : k \in Q})
         = balanceOver(s, "COLLECTED", P) + balanceOver(t, "COLLECTED", Q)
  BY <1>1, <1>2, BalanceAppends
<1>4. balanceOver(t, "COLLECTED", Q) = 0
  <2>1. balanceOver(t, "COLLECTED", {}) = 0
    BY SumEmpty DEF balanceOver, SumOver
  <2>2. QED
    BY <2>1 DEF balanceOf
<1>5. balanceOver(s, "COLLECTED", P) = 0
  BY DEF Cleared
<1>6. balanceOver(s \o t, "COLLECTED", P \cup {Len(s) + k : k \in Q}) = 0
  BY <1>3, <1>4, <1>5
<1>7. QED
  BY <1>2, <1>6 DEF Cleared

\* Once its refund is booked, later postings do not change what was unwound.
LEMMA UnwindsKept ==
    ASSUME NEW s, NEW t, Books(s), Books(t), NEW i, NEW old, NEW new \in SUBSET old,
           Unwinds(s, i, old), PostingsOf(t, "refund", i) = {}
    PROVE  Unwinds(s \o t, i, new)
<1> DEFINE j == s \o t
           R == PostingsOf(s, "refund", i)
           P == PostingsOf(s, "payment_intent", i)
           Q == PostingsOf(t, "payment_intent", i)
<1>1. /\ IsSequence(s) /\ IntegerCents(s) /\ IsSequence(t) /\ IntegerCents(t)
  BY BooksAreInteger
<1>2. /\ Len(s) \in Nat /\ DOMAIN s = 1..Len(s) /\ DOMAIN t = 1..Len(t) /\ Len(t) \in Nat
      /\ \A n \in DOMAIN s : j[n] = s[n]
  BY <1>1, AppendShape
<1>3. /\ PostingsOf(j, "payment_intent", i) = P \cup {Len(s) + k : k \in Q}
      /\ P \in SUBSET DOMAIN s /\ Q \in SUBSET DOMAIN t
      /\ PostingsOf(j, "refund", i) = R \cup {Len(s) + k : k \in PostingsOf(t, "refund", i)}
      /\ R \in SUBSET DOMAIN s
  BY <1>1, PostingsAppend
<1>4. PostingsOf(j, "refund", i) = R
  BY <1>3
<1>5. CASE R = {}
  BY <1>4, <1>5 DEF Unwinds
<1>6. CASE R # {}
  <2>0. PICK r \in R : TRUE
    BY <1>6
  <2>1. \A k \in Q : ~ (Len(s) + k < r)
    BY <1>2, <1>3, <2>0
  <2>2. UnwoundIn(j, i) = UnwoundIn(s, i)
    <3> HIDE DEF j, R, P, Q
    <3>1. {n \in P \cup {Len(s) + k : k \in Q} : \A x \in R : n < x} = {n \in P : \A x \in R : n < x}
      BY <2>0, <2>1
    <3>2. QED
      BY <1>3, <1>4, <3>1 DEF UnwoundIn, P, R
  <2>3. UnwoundIn(s, i) \in SUBSET DOMAIN s
    BY DEF UnwoundIn, PostingsOf
  <2>4. \A account : balanceOver(j, account, UnwoundIn(s, i))
                        = balanceOver(s, account, UnwoundIn(s, i))
    BY <1>1, <2>3, BalanceOfAppended
  <2>5. \A n \in UnwoundIn(s, i) : j[n] = s[n]
    BY <1>2, <2>3
  <2> HIDE DEF j
  <2>6. Unwinds(j, i, new)
    BY <1>4, <1>6, <2>2, <2>4, <2>5 DEF Unwinds, ZeroOn
  <2>7. QED
    BY <2>6 DEF j
<1>7. QED
  BY <1>5, <1>6

-----------------------------------------------------------------------------
(***************************************************************************)
(* A refund takes out of an account exactly what the captures credited to  *)
(* it: one leg per credit row, each for the amount of that row.            *)
(***************************************************************************)
LEMMA RefundTakesCredits ==
    ASSUME NEW s, NEW t, NEW i, Books(s), RefundOf(s, t, i),
           NEW account \in REFUNDED_ACCOUNTS,
           \A n \in PostingsOf(s, "payment_intent", i) : s[n].debit # account
    PROVE  balanceOver(s, account, PostingsOf(s, "payment_intent", i))
              + balanceOf(t, account) = 0
<1> DEFINE A == PostingsOf(s, "payment_intent", i)
           C == CreditsToRefund(s, i)
           rows == InOrder(C)
           credit == [n \in A |-> IF s[n].credit = account THEN s[n].cents ELSE 0]
           taken == [n \in A |-> -credit[n]]
           f == [n \in DOMAIN s |-> delta(s[n], account)]
           g == [k \in DOMAIN t |-> delta(t[k], account)]
<1>1. IsSequence(s) /\ IntegerCents(s) /\ A \in SUBSET DOMAIN s /\ C \in SUBSET A
  BY BooksAreInteger DEF PostingsOf, CreditsToRefund
<1>2. IsFiniteSet(A) /\ IsFiniteSet(C) /\ C \subseteq Int
  <2>1. IsFiniteSet(A)
    BY <1>1, BalanceIsInteger
  <2>2. IsFiniteSet(C)
    BY <1>1, <2>1, FS_Subset
  <2>3. DOMAIN s \subseteq Int
    <3>1. Len(s) \in Nat /\ DOMAIN s = 1..Len(s)
      BY <1>1 DEF IsSequence
    <3>2. QED
      BY <3>1
  <2>4. QED
    BY <1>1, <2>1, <2>2, <2>3
<1>3. \A n \in A : s[n].cents \in Nat
  BY <1>1 DEF Books, CapturePosting, RefundPosting
<1>4. \A n \in A : /\ credit[n] \in Nat /\ taken[n] = -credit[n]
                   /\ f[n] = credit[n]
  BY <1>1, <1>3 DEF delta
<1>5. \A n \in A \ C : taken[n] = 0
  <2> SUFFICES ASSUME NEW n \in A, n \notin C PROVE taken[n] = 0
    OBVIOUS
  <2>1. s[n].credit \notin REFUNDED_ACCOUNTS \/ ~ (s[n].cents > 0)
    BY DEF CreditsToRefund
  <2>2. s[n].credit # account \/ s[n].cents = 0
    BY <1>3, <2>1
  <2>3. credit[n] = 0
    BY <2>2
  <2> HIDE DEF taken, credit, A, C
  <2>4. taken[n] = -credit[n] /\ credit[n] \in Nat
    BY <1>4
  <2>5. \A x \in Nat : -x = 0 - x
    OBVIOUS
  <2>6. taken[n] = 0 - credit[n]
    BY <2>4, <2>5
  <2>7. QED
    BY <2>3, <2>6
<1>6. /\ Cardinality(C) \in Nat
      /\ \A k \in 1..Cardinality(C) : rows[k] \in C
      /\ \A k, l \in 1..Cardinality(C) : rows[k] = rows[l] => k = l
      /\ \A n \in C : \E k \in 1..Cardinality(C) : rows[k] = n
  BY <1>2, InOrderListsAll
<1>7. /\ DOMAIN t = 1..Cardinality(C)
      /\ \A k \in DOMAIN t : t[k] = posting(s[rows[k]].credit, "CASH", s[rows[k]].cents,
                                            "REFUND", "refund", i, NoParty)
  BY DEF RefundOf
<1>8. ASSUME NEW k \in DOMAIN t
      PROVE  rows[k] \in C /\ g[k] = taken[rows[k]] /\ g[k] \in Int
  <2>1. rows[k] \in C /\ rows[k] \in A
    BY <1>1, <1>6, <1>7
  <2> DEFINE n == rows[k]
  <2> HIDE DEF rows, C, A, n
  <2>2. /\ t[k].credit = "CASH" /\ t[k].debit = s[n].credit /\ t[k].cents = s[n].cents
    BY <1>7 DEF posting, n
  <2>3. account # "CASH"
    BY DEF REFUNDED_ACCOUNTS
  <2>4. g[k] = delta(t[k], account)
    OBVIOUS
  <2>5. delta(t[k], account) = -(IF s[n].credit = account THEN s[n].cents ELSE 0)
    BY <1>3, <2>1, <2>2, <2>3 DEF delta, n
  <2>6. taken[n] = -(IF s[n].credit = account THEN s[n].cents ELSE 0)
    BY <2>1 DEF n
  <2>7. n \in A
    BY <2>1 DEF n
  <2> HIDE DEF taken, credit, g, f
  <2>8. g[k] = taken[n] /\ taken[n] \in Int
    <3>1. g[k] = taken[n]
      BY <2>4, <2>5, <2>6
    <3>2. taken[n] \in Int
      BY <1>4, <2>7
    <3>3. QED
      BY <3>1, <3>2
  <2>9. QED
    BY <2>1, <2>8 DEF n
<1> HIDE DEF A, C, rows, credit, taken, f, g
<1>9. SumOver(g, DOMAIN t) = SumOver(taken, C)
  <2>1. IsFiniteSet(DOMAIN t)
    BY <1>6, <1>7, FS_Interval
  <2>2. IntegerOn(g, DOMAIN t)
    BY <1>8 DEF IntegerOn
  <2>3. /\ \A k \in DOMAIN t : rows[k] \in C /\ g[k] = taken[rows[k]]
        /\ \A k, l \in DOMAIN t : rows[k] = rows[l] => k = l
        /\ \A n \in C : \E k \in DOMAIN t : rows[k] = n
    BY <1>6, <1>7, <1>8
  <2>4. QED
    BY <2>1, <2>2, <2>3, SumRenamed
<1>10. SumOver(taken, A) = SumOver(taken, C)
  <2>1. IntegerOn(taken, C)
    BY <1>1, <1>4 DEF IntegerOn
  <2>2. QED
    BY <1>1, <1>2, <1>5, <2>1, SumSupport
<1>11. SumOver(taken, A) = -SumOver(credit, A) /\ SumOver(credit, A) \in Int
  <2>1. IntegerOn(credit, A) /\ \A n \in A : taken[n] = -credit[n]
    BY <1>4 DEF IntegerOn
  <2>2. QED
    BY <1>2, <2>1, SumNegated, SumIsInteger
<1>12. SumOver(f, A) = SumOver(credit, A)
  BY <1>2, <1>4, SumCongruent
<1>13. balanceOver(s, account, A) = SumOver(f, A) /\ balanceOf(t, account) = SumOver(g, DOMAIN t)
  BY DEF balanceOver, balanceOf, SumOver, f, g
<1>14. balanceOver(s, account, A) + balanceOf(t, account) = 0
  BY <1>9, <1>10, <1>11, <1>12, <1>13
<1>15. QED
  BY <1>14 DEF A

\* What no posting of a set touches has a balance of zero over it.
LEMMA UntouchedBalance ==
    ASSUME NEW s, Books(s), NEW account, NEW N \in SUBSET DOMAIN s,
           \A n \in N : s[n].debit # account /\ s[n].credit # account
    PROVE  balanceOver(s, account, N) = 0
<1> DEFINE f == [n \in DOMAIN s |-> delta(s[n], account)]
<1>1. \A n \in N : f[n] = 0
  BY DEF delta
<1>2. IsFiniteSet(N)
  BY BooksAreInteger, BalanceIsInteger
<1>3. balanceOver(s, account, N) = SumOver(f, N)
  BY DEF balanceOver, SumOver
<1> HIDE DEF f
<1>4. QED
  BY <1>1, <1>2, <1>3, SumZero

LEMMA SumsVanish ==
    ASSUME NEW f, NEW g, NEW h, NEW S, IsFiniteSet(S), IntegerOn(f, S), IntegerOn(g, S),
           SumOver(f, S) = 0, SumOver(g, S) = 0, \A x \in S : h[x] = f[x] + g[x]
    PROVE  IntegerOn(h, S) /\ SumOver(h, S) = 0
<1>1. SumOver(h, S) = SumOver(f, S) + SumOver(g, S)
  BY SumPlus
<1>2. QED
  BY <1>1 DEF IntegerOn

(***************************************************************************)
(* Double entry: what a set of postings leaves at zero on every other      *)
(* account that captures and refunds use, it leaves at zero on CASH.       *)
(***************************************************************************)
LEMMA CashBalances ==
    ASSUME NEW s, Books(s), NEW N \in SUBSET DOMAIN s,
           \A account \in {"COLLECTED", "AVAILABLE", "FEES", "RESERVE", "TAX_PAYABLE"} :
              balanceOver(s, account, N) = 0
    PROVE  balanceOver(s, "CASH", N) = 0
<1> DEFINE of(account) == [n \in DOMAIN s |-> delta(s[n], account)]
           a == of("COLLECTED")
           b == of("AVAILABLE")
           c == of("FEES")
           d == of("RESERVE")
           e == of("TAX_PAYABLE")
           ab == [n \in N |-> a[n] + b[n]]
           abc == [n \in N |-> ab[n] + c[n]]
           abcd == [n \in N |-> abc[n] + d[n]]
           abcde == [n \in N |-> abcd[n] + e[n]]
           cash == of("CASH")
<1>1. IsSequence(s) /\ IntegerCents(s)
  BY BooksAreInteger
<1>2. IsFiniteSet(N)
  BY <1>1, BalanceIsInteger
<1>3. ASSUME NEW account PROVE IntegerOn(of(account), N)
  BY <1>1, DeltaIsInteger DEF IntegerOn, IntegerCents
<1>4. ASSUME NEW account PROVE balanceOver(s, account, N) = SumOver(of(account), N)
  BY DEF balanceOver, SumOver
<1>5. /\ SumOver(a, N) = 0 /\ SumOver(b, N) = 0 /\ SumOver(c, N) = 0
      /\ SumOver(d, N) = 0 /\ SumOver(e, N) = 0
  BY <1>4
<1>6. /\ IntegerOn(a, N) /\ IntegerOn(b, N) /\ IntegerOn(c, N)
      /\ IntegerOn(d, N) /\ IntegerOn(e, N)
  BY <1>3
<1>7. \A n \in N : cash[n] = -(a[n] + b[n] + c[n] + d[n] + e[n])
  <2> SUFFICES ASSUME NEW n \in N PROVE cash[n] = -(a[n] + b[n] + c[n] + d[n] + e[n])
    OBVIOUS
  <2>1. n \in DOMAIN s /\ s[n].cents \in Nat
    BY DEF Books, CapturePosting, RefundPosting
  <2>2. \/ /\ s[n].debit \in {"CASH", "COLLECTED", "AVAILABLE"}
           /\ s[n].credit \in {"COLLECTED", "AVAILABLE", "FEES", "RESERVE", "TAX_PAYABLE"}
        \/ /\ s[n].debit \in {"AVAILABLE", "FEES", "RESERVE"} /\ s[n].credit = "CASH"
    BY <2>1 DEF Books, CapturePosting, RefundPosting, REFUNDED_ACCOUNTS
  <2>3. /\ cash[n] = delta(s[n], "CASH") /\ a[n] = delta(s[n], "COLLECTED")
        /\ b[n] = delta(s[n], "AVAILABLE") /\ c[n] = delta(s[n], "FEES")
        /\ d[n] = delta(s[n], "RESERVE") /\ e[n] = delta(s[n], "TAX_PAYABLE")
    BY <2>1
  <2> HIDE DEF cash, a, b, c, d, e
  <2> DEFINE x == s[n].debit
             y == s[n].credit
             m == s[n].cents
  <2>4. \A account : delta(s[n], account) = (IF y = account THEN m ELSE 0)
                                               - (IF x = account THEN m ELSE 0)
    BY DEF delta
  <2> HIDE DEF x, y, m
  <2>5. QED
    BY <2>1, <2>2, <2>3, <2>4 DEF x, y, m
<1>8. /\ \A n \in N : ab[n] = a[n] + b[n]
      /\ \A n \in N : abc[n] = ab[n] + c[n]
      /\ \A n \in N : abcd[n] = abc[n] + d[n]
      /\ \A n \in N : abcde[n] = abcd[n] + e[n]
  OBVIOUS
<1>9. balanceOver(s, "CASH", N) = SumOver(cash, N)
  BY <1>4
<1> HIDE DEF a, b, c, d, e, ab, abc, abcd, abcde, cash
<1>10. IntegerOn(ab, N) /\ SumOver(ab, N) = 0
  BY <1>2, <1>5, <1>6, <1>8, SumsVanish
<1>11. IntegerOn(abc, N) /\ SumOver(abc, N) = 0
  BY <1>2, <1>5, <1>6, <1>8, <1>10, SumsVanish
<1>12. IntegerOn(abcd, N) /\ SumOver(abcd, N) = 0
  BY <1>2, <1>5, <1>6, <1>8, <1>11, SumsVanish
<1>13. IntegerOn(abcde, N) /\ SumOver(abcde, N) = 0
  BY <1>2, <1>5, <1>6, <1>8, <1>12, SumsVanish
<1>14. \A n \in N : cash[n] = -abcde[n]
  BY <1>7, <1>8
<1>15. SumOver(cash, N) = -SumOver(abcde, N)
  BY <1>2, <1>13, <1>14, SumNegated
<1>16. QED
  BY <1>9, <1>13, <1>15

-----------------------------------------------------------------------------
LEMMA BooksAppend ==
    ASSUME NEW s, NEW t, Books(s), Books(t) PROVE Books(s \o t)
<1> DEFINE j == s \o t
           good(p) == \/ p.sourceType = "payment_intent" /\ CapturePosting(p)
                      \/ p.sourceType = "refund" /\ RefundPosting(p)
<1>1. IsSequence(s) /\ IsSequence(t)
  BY DEF Books
<1>2. IsSequence(j) /\ RowsAreOf(j, s, t)
  BY <1>1, AppendShape, RowsOfBoth
<1>3. (\A k \in DOMAIN s : good(s[k])) /\ (\A k \in DOMAIN t : good(t[k]))
  BY DEF Books
<1> HIDE DEF j, good
<1>4. \A n \in DOMAIN j : good(j[n])
  BY <1>2, <1>3 DEF RowsAreOf
<1>5. QED
  BY <1>2, <1>4 DEF Books, good, j

\* The rows of a capture of i, and whose they are.
LEMMA RowsOfCapture ==
    ASSUME NEW t, NEW i, NEW short, CaptureOf(t, i, short)
    PROVE  /\ Books(t)
           /\ PostingsOf(t, "payment_intent", i) = DOMAIN t
           /\ \A j : j # i => PostingsOf(t, "payment_intent", j) = {}
           /\ \A j : PostingsOf(t, "refund", j) = {}
<1>1. /\ IsSequence(t)
      /\ \A k \in DOMAIN t : /\ t[k].sourceType = "payment_intent" /\ t[k].sourceId = i
                             /\ CapturePosting(t[k])
  BY DEF CaptureOf
<1>2. QED
  BY <1>1 DEF Books, PostingsOf

\* The rows of a refund of i.
LEMMA RowsOfRefund ==
    ASSUME NEW s, NEW t, NEW i, Books(s), RefundOf(s, t, i)
    PROVE  /\ Books(t) /\ SplitMarked(t)
           /\ \A account \in LedgerAccounts \ (REFUNDED_ACCOUNTS \cup {"CASH"}) :
                 balanceOf(t, account) = 0
           /\ PostingsOf(t, "refund", i) = DOMAIN t
           /\ \A j : j # i => PostingsOf(t, "refund", j) = {}
           /\ \A j : PostingsOf(t, "payment_intent", j) = {}
<1> DEFINE C == CreditsToRefund(s, i)
           rows == InOrder(C)
<1>1. IsSequence(s) /\ IntegerCents(s) /\ C \in SUBSET DOMAIN s
  BY BooksAreInteger DEF PostingsOf, CreditsToRefund
<1>2. IsFiniteSet(C) /\ C \subseteq Int
  <2>1. IsFiniteSet(C)
    BY <1>1, BalanceIsInteger
  <2>2. Len(s) \in Nat /\ DOMAIN s = 1..Len(s)
    BY <1>1 DEF IsSequence
  <2>3. DOMAIN s \subseteq Int
    BY <2>2
  <2>4. QED
    BY <1>1, <2>1, <2>3
<1>3. \A k \in 1..Cardinality(C) : rows[k] \in C
  BY <1>2, InOrderListsAll
<1>4. /\ DOMAIN t = 1..Cardinality(C) /\ IsSequence(t)
      /\ \A k \in DOMAIN t : t[k] = posting(s[rows[k]].credit, "CASH", s[rows[k]].cents,
                                            "REFUND", "refund", i, NoParty)
  BY DEF RefundOf
<1>5. \A n \in C : s[n].credit \in REFUNDED_ACCOUNTS /\ s[n].cents \in Nat
  BY <1>1 DEF CreditsToRefund, Books, CapturePosting, RefundPosting
<1> HIDE DEF C, rows
<1>6. \A k \in DOMAIN t : /\ t[k].sourceType = "refund" /\ t[k].sourceId = i
                          /\ RefundPosting(t[k])
  BY <1>3, <1>4, <1>5 DEF posting, RefundPosting
<1>7. Books(t)
  BY <1>4, <1>6 DEF Books
<1>8. SplitMarked(t)
  BY <1>6 DEF SplitMarked
<1>9. ASSUME NEW account \in LedgerAccounts \ (REFUNDED_ACCOUNTS \cup {"CASH"})
      PROVE  balanceOf(t, account) = 0
  <2>1. \A k \in DOMAIN t : t[k].debit # account /\ t[k].credit # account
    BY <1>6 DEF RefundPosting
  <2>2. DOMAIN t \in SUBSET DOMAIN t
    OBVIOUS
  <2>3. QED
    BY <1>7, <2>1, <2>2, UntouchedBalance DEF balanceOf
<1>10. /\ PostingsOf(t, "refund", i) = DOMAIN t
       /\ \A j : j # i => PostingsOf(t, "refund", j) = {}
       /\ \A j : PostingsOf(t, "payment_intent", j) = {}
  BY <1>6 DEF PostingsOf
<1>11. QED
  BY <1>7, <1>8, <1>9, <1>10

(***************************************************************************)
(* settleRefund: over the captures of i and its refund, fee and reserve    *)
(* are zero; without tax or split legs, so is every account but CASH and   *)
(* COLLECTED, and these too when no capture exceeded its gross.            *)
(***************************************************************************)
LEMMA RefundBooksUnwind ==
    ASSUME NEW s, NEW t, NEW i, NEW clean, Books(s), SplitMarked(s),
           i \in clean => Cleared(s, i), RefundOf(s, t, i),
           PostingsOf(s, "refund", i) = {}
    PROVE  Unwinds(s \o t, i, clean)
<1> DEFINE j == s \o t
           A == PostingsOf(s, "payment_intent", i)
           T == {Len(s) + k : k \in DOMAIN t}
           U == A \cup T
<1>1. /\ Books(t) /\ IsSequence(s) /\ IsSequence(t) /\ IntegerCents(s) /\ IntegerCents(t)
      /\ PostingsOf(t, "refund", i) = DOMAIN t
      /\ PostingsOf(t, "payment_intent", i) = {}
  BY BooksAreInteger, RowsOfRefund
<1>2. Books(j)
  BY <1>1, BooksAppend
<1>3. /\ Len(s) \in Nat /\ Len(t) \in Nat /\ DOMAIN s = 1..Len(s) /\ DOMAIN t = 1..Len(t)
      /\ DOMAIN j = 1..(Len(s) + Len(t))
      /\ \A n \in DOMAIN s : j[n] = s[n]
  BY <1>1, AppendShape
<1>4. A \in SUBSET DOMAIN s
  BY DEF PostingsOf
<1>5. PostingsOf(j, "payment_intent", i) = A /\ PostingsOf(j, "refund", i) = T
  <2>1. /\ PostingsOf(j, "payment_intent", i)
              = A \cup {Len(s) + k : k \in PostingsOf(t, "payment_intent", i)}
        /\ PostingsOf(j, "refund", i)
              = PostingsOf(s, "refund", i) \cup {Len(s) + k : k \in PostingsOf(t, "refund", i)}
    BY <1>1, PostingsAppend
  <2>2. QED
    BY <1>1, <2>1
<1>6. \A n \in A : \A r \in T : n < r
  BY <1>3, <1>4
<1>7. UnwoundIn(j, i) = U
  <2> HIDE DEF j, A, T
  <2>1. {n \in A : \A r \in T : n < r} = A
    BY <1>6
  <2>2. QED
    BY <1>5, <2>1 DEF UnwoundIn
<1>8. \A account : balanceOver(j, account, U) = balanceOver(s, account, A) + balanceOf(t, account)
  BY <1>1, <1>4, BalanceAppends DEF balanceOf
<1>9. U \in SUBSET DOMAIN j
  BY <1>7 DEF UnwoundIn, PostingsOf
<1>10. \A n \in A : CapturePosting(s[n])
  BY <1>4 DEF Books, PostingsOf
<1>11. ASSUME NEW account \in REFUNDED_ACCOUNTS, \A n \in A : s[n].debit # account
       PROVE  balanceOver(j, account, U) = 0
  <2>1. balanceOver(s, account, A) + balanceOf(t, account) = 0
    BY <1>11, RefundTakesCredits
  <2>2. QED
    BY <1>8, <2>1
<1>12. \A account \in {"FEES", "RESERVE"} : balanceOver(j, account, U) = 0
  <2>1. \A n \in A : s[n].debit # "FEES" /\ s[n].debit # "RESERVE"
    BY <1>10 DEF CapturePosting
  <2>2. "FEES" \in REFUNDED_ACCOUNTS /\ "RESERVE" \in REFUNDED_ACCOUNTS
    BY DEF REFUNDED_ACCOUNTS
  <2>3. QED
    BY <1>11, <2>1, <2>2
<1>13. ASSUME \A n \in U : j[n].category \notin {"TAX", "SPLIT"}
       PROVE  /\ \A a \in LedgerAccounts \ {"CASH", "COLLECTED"} : balanceOver(j, a, U) = 0
              /\ i \in clean =>
                    \A a \in {"CASH", "COLLECTED"} : balanceOver(j, a, U) = 0
  <2>1. \A n \in A : s[n].category \notin {"TAX", "SPLIT"}
    BY <1>3, <1>4, <1>13
  <2>2. balanceOver(j, "AVAILABLE", U) = 0
    <3>1. \A n \in A : s[n].debit # "AVAILABLE"
      <4> SUFFICES ASSUME NEW n \in A, s[n].debit = "AVAILABLE" PROVE FALSE
        OBVIOUS
      <4>1. n \in DOMAIN s /\ s[n].sourceType = "payment_intent" /\ s[n].sourceId = i
        BY DEF PostingsOf
      <4>2. PICK m \in DOMAIN s : /\ s[m].sourceType = "payment_intent"
                                  /\ s[m].sourceId = i /\ s[m].category = "SPLIT"
        BY <4>1 DEF SplitMarked
      <4>3. m \in A
        BY <4>2 DEF PostingsOf
      <4>4. QED
        BY <2>1, <4>2, <4>3
    <3>2. "AVAILABLE" \in REFUNDED_ACCOUNTS
      BY DEF REFUNDED_ACCOUNTS
    <3>3. QED
      BY <1>11, <3>1, <3>2
  <2>3. \A a \in {"PENDING", "PAID_OUT", "WALLET", "TAX_PAYABLE", "COLLECTED"} :
           balanceOf(t, a) = 0
    <3>1. {"PENDING", "PAID_OUT", "WALLET", "TAX_PAYABLE", "COLLECTED"}
             \subseteq LedgerAccounts \ (REFUNDED_ACCOUNTS \cup {"CASH"})
      BY DEF LedgerAccounts, REFUNDED_ACCOUNTS
    <3>2. QED
      BY <3>1, RowsOfRefund
  <2>4. i \in clean => balanceOver(j, "COLLECTED", U) = 0
    BY <1>8, <2>3 DEF Cleared
  <2>5. ASSUME NEW a \in {"PENDING", "PAID_OUT", "WALLET", "TAX_PAYABLE"}
        PROVE  balanceOver(j, a, U) = 0
    <3>1. \A n \in A : s[n].debit # a /\ s[n].credit # a
      BY <1>10, <2>1 DEF CapturePosting
    <3>2. balanceOver(s, a, A) = 0
      BY <1>4, <3>1, UntouchedBalance
    <3>3. QED
      BY <1>8, <2>3, <3>2
  <2>6. ASSUME i \in clean PROVE balanceOver(j, "CASH", U) = 0
    <3>1. \A a \in {"COLLECTED", "AVAILABLE", "FEES", "RESERVE", "TAX_PAYABLE"} :
             balanceOver(j, a, U) = 0
      BY <1>12, <2>2, <2>4, <2>5, <2>6
    <3> HIDE DEF j, U
    <3>2. QED
      BY <1>2, <1>9, <3>1, CashBalances
  <2> HIDE DEF j, U
  <2>7. \A a \in LedgerAccounts \ {"CASH", "COLLECTED"} : balanceOver(j, a, U) = 0
    BY <1>12, <2>2, <2>5 DEF LedgerAccounts
  <2>8. QED
    BY <2>4, <2>6, <2>7
<1> HIDE DEF j, U
<1>14. Unwinds(j, i, clean)
  BY <1>7, <1>12, <1>13 DEF Unwinds, ZeroOn
<1>15. QED
  BY <1>14 DEF j

-----------------------------------------------------------------------------
(***************************************************************************)
(* The inductive invariant of both ledger properties.  CollectedClears and *)
(* RefundUnwindsCapture say nothing of the plans that are still to be      *)
(* committed, nor of how captures clear one intent at a time: both are     *)
(* needed, and so are the forms of the rows.                               *)
(***************************************************************************)
JournalIsSound(s, clean, short) ==
    /\ Books(s)
    /\ SplitMarked(s)
    /\ balanceOf(s, "COLLECTED") = -short
    /\ \A i \in Intents : i \in clean => Cleared(s, i)
    /\ \A i \in Intents : Unwinds(s, i, clean)

BooksInv ==
    /\ JournalIsSound(journal, PaidFromGross, SumFunction(Shortfalls))
    /\ DOMAIN caller = Callers
    /\ IsFiniteSet(Booked)
    /\ \A c \in Booked : Shortfalls[c] \in Nat
    /\ \A c \in Callers : caller[c].phase = "planned" =>
          /\ caller[c].intent \in Intents
          /\ CaptureOf(caller[c].legs, caller[c].intent,
                       Shortfall(caller[c].intent, caller[c].cfg))

\* The commit of settleCapture: a capture that is short leaves its intent unclean.
LEMMA CaptureKeepsJournal ==
    ASSUME NEW s, NEW old, NEW before \in Int, JournalIsSound(s, old, before),
           NEW i \in Intents, NEW t, NEW short, CaptureOf(t, i, short),
           NEW clean \in SUBSET old, i \in clean => short = 0
    PROVE  JournalIsSound(s \o t, clean, before + short)
<1>1. /\ Books(s) /\ SplitMarked(s) /\ balanceOf(s, "COLLECTED") = -before
      /\ \A j \in Intents : (j \in old => Cleared(s, j)) /\ Unwinds(s, j, old)
  BY DEF JournalIsSound
<1>2. /\ Books(t)
      /\ PostingsOf(t, "payment_intent", i) = DOMAIN t
      /\ \A j : j # i => PostingsOf(t, "payment_intent", j) = {}
      /\ \A j : PostingsOf(t, "refund", j) = {}
  BY RowsOfCapture
<1>3. SplitMarked(t) /\ balanceOf(t, "COLLECTED") = -short /\ short \in Nat
  BY DEF CaptureOf
<1>4. /\ IsSequence(s) /\ IntegerCents(s) /\ IsSequence(t) /\ IntegerCents(t)
  BY <1>1, <1>2, BooksAreInteger
<1>5. Books(s \o t) /\ SplitMarked(s \o t)
  BY <1>1, <1>2, <1>3, <1>4, BooksAppend, SplitMarkedAppends
<1>6. balanceOf(s \o t, "COLLECTED") = -(before + short)
  <2>1. balanceOf(s \o t, "COLLECTED") = balanceOf(s, "COLLECTED") + balanceOf(t, "COLLECTED")
    BY <1>4, BalanceOfAppended
  <2>2. QED
    BY <1>1, <1>3, <2>1
<1>7. ASSUME NEW j \in Intents, j \in clean PROVE Cleared(s \o t, j)
  <2>1. Cleared(s, j)
    BY <1>1, <1>7
  <2>2. CASE j = i
    <3>1. balanceOf(t, "COLLECTED") = 0
      BY <1>3, <1>7, <2>2
    <3>2. QED
      BY <1>1, <1>2, <2>1, <2>2, <3>1, ClearedKept
  <2>3. CASE j # i
    BY <1>1, <1>2, <2>1, <2>3, ClearedKept
  <2>4. QED
    BY <2>2, <2>3
<1>8. ASSUME NEW j \in Intents PROVE Unwinds(s \o t, j, clean)
  BY <1>1, <1>2, UnwindsKept
<1>9. QED
  BY <1>5, <1>6, <1>7, <1>8 DEF JournalIsSound

\* settleRefund.
LEMMA RefundKeepsJournal ==
    ASSUME NEW s, NEW clean, NEW short \in Int, JournalIsSound(s, clean, short),
           NEW i \in Intents, NEW t, RefundOf(s, t, i), PostingsOf(s, "refund", i) = {}
    PROVE  JournalIsSound(s \o t, clean, short)
<1>1. /\ Books(s) /\ SplitMarked(s) /\ balanceOf(s, "COLLECTED") = -short
      /\ \A j \in Intents : (j \in clean => Cleared(s, j)) /\ Unwinds(s, j, clean)
  BY DEF JournalIsSound
<1>2. /\ Books(t) /\ SplitMarked(t)
      /\ \A j : j # i => PostingsOf(t, "refund", j) = {}
      /\ \A j : PostingsOf(t, "payment_intent", j) = {}
  BY <1>1, RowsOfRefund
<1>3. balanceOf(t, "COLLECTED") = 0
  <2>1. "COLLECTED" \in LedgerAccounts \ (REFUNDED_ACCOUNTS \cup {"CASH"})
    BY DEF LedgerAccounts, REFUNDED_ACCOUNTS
  <2>2. QED
    BY <1>1, <2>1, RowsOfRefund
<1>4. /\ IsSequence(s) /\ IntegerCents(s) /\ IsSequence(t) /\ IntegerCents(t)
  BY <1>1, <1>2, BooksAreInteger
<1>5. Books(s \o t) /\ SplitMarked(s \o t)
  BY <1>1, <1>2, <1>4, BooksAppend, SplitMarkedAppends
<1>6. balanceOf(s \o t, "COLLECTED") = -short
  <2>1. balanceOf(s \o t, "COLLECTED") = balanceOf(s, "COLLECTED") + balanceOf(t, "COLLECTED")
    BY <1>4, BalanceOfAppended
  <2>2. QED
    BY <1>1, <1>3, <2>1
<1>7. ASSUME NEW j \in Intents, j \in clean PROVE Cleared(s \o t, j)
  BY <1>1, <1>2, <1>7, ClearedKept
<1>8. ASSUME NEW j \in Intents PROVE Unwinds(s \o t, j, clean)
  <2>1. CASE j = i
    BY <1>1, <2>1, RefundBooksUnwind
  <2>2. CASE j # i
    <3>1. clean \in SUBSET clean
      OBVIOUS
    <3>2. QED
      BY <1>1, <1>2, <2>2, <3>1, UnwindsKept
  <2>3. QED
    BY <2>1, <2>2
<1>9. QED
  BY <1>5, <1>6, <1>7, <1>8 DEF JournalIsSound

\* What settleRefund posts is the refund of what it reads.
LEMMA RefundLegsAreRefund ==
    ASSUME IsSequence(journal), NEW i PROVE RefundOf(journal, refundLegs(i), i)
<1>1. RefundedCredits(i) = CreditsToRefund(journal, i)
  BY DEF RefundedCredits, CreditsToRefund, PostingsOf, IsSettledCredit
<1>2. IsSequence(refundLegs(i))
  BY RefundLegsIsSequence
<1>3. DOMAIN InOrder(RefundedCredits(i)) = 1..Cardinality(RefundedCredits(i))
  BY DEF InOrder
<1>4. QED
  BY <1>1, <1>2, <1>3 DEF RefundOf, refundLegs

-----------------------------------------------------------------------------
\* The total of the shortfalls is a sum over the booked captures.
LEMMA TotalShortfall ==
    ASSUME IsFiniteSet(Booked), \A c \in Booked : Shortfalls[c] \in Nat
    PROVE  /\ SumFunction(Shortfalls) = SumOver(Shortfalls, Booked)
           /\ SumFunction(Shortfalls) \in Int
<1>1. DOMAIN Shortfalls = Booked
  BY DEF Shortfalls
<1>2. SumFunction(Shortfalls) = SumOver(Shortfalls, Booked)
  BY <1>1 DEF SumFunction, SumOver
<1>3. IntegerOn(Shortfalls, Booked)
  BY DEF IntegerOn
<1>4. QED
  BY <1>2, <1>3, SumIsInteger

\* A step that books no capture changes neither the shortfalls nor whose they are.
LEMMA NothingBooked ==
    ASSUME NEW c, DOMAIN caller = Callers, DOMAIN caller' = Callers,
           \A d \in Callers \ {c} : caller'[d] = caller[d],
           caller[c].phase # "booked", caller'[c].phase # "booked"
    PROVE  Booked' = Booked /\ Shortfalls' = Shortfalls /\ PaidFromGross' = PaidFromGross
<1>1. Booked' = Booked
  BY DEF Booked
<1>2. \A d \in Booked : caller'[d] = caller[d]
  BY DEF Booked
<1>3. Shortfalls' = Shortfalls
  BY <1>1, <1>2 DEF Shortfalls
<1>4. PaidFromGross' = PaidFromGross
  BY <1>1, <1>2, <1>3 DEF PaidFromGross
<1>5. QED
  BY <1>1, <1>3, <1>4

\* A commit adds the shortfall of its capture, and blames its intent if there is one.
LEMMA OneBooked ==
    ASSUME NEW c \in Callers, DOMAIN caller = Callers, DOMAIN caller' = Callers,
           \A d \in Callers \ {c} : caller'[d] = caller[d],
           caller[c].phase # "booked", caller'[c].phase = "booked",
           caller'[c].intent = caller[c].intent, caller'[c].cfg = caller[c].cfg,
           IsFiniteSet(Booked), \A d \in Booked : Shortfalls[d] \in Nat,
           NEW short \in Nat, short = Shortfall(caller[c].intent, caller[c].cfg)
    PROVE  /\ IsFiniteSet(Booked') /\ \A d \in Booked' : Shortfalls'[d] \in Nat
           /\ SumFunction(Shortfalls)' = SumFunction(Shortfalls) + short
           /\ PaidFromGross' \in SUBSET PaidFromGross
           /\ caller[c].intent \in PaidFromGross' => short = 0
<1>1. Booked' = Booked \cup {c} /\ c \notin Booked
  BY DEF Booked
<1>2. IsFiniteSet(Booked')
  BY <1>1, FS_AddElement
<1>3. \A d \in Booked : caller'[d] = caller[d]
  BY DEF Booked
<1>4. \A d \in Booked : Shortfalls'[d] = Shortfalls[d]
  BY <1>1, <1>3 DEF Shortfalls
<1>5. Shortfalls'[c] = short
  BY <1>1 DEF Shortfalls
<1>6. \A d \in Booked' : Shortfalls'[d] \in Nat
  BY <1>1, <1>4, <1>5
<1>7. SumFunction(Shortfalls)' = SumFunction(Shortfalls) + short
  <2>1. DOMAIN Shortfalls' = Booked'
    BY DEF Shortfalls
  <2>2. SumFunction(Shortfalls)' = SumOver(Shortfalls', Booked')
    BY <2>1 DEF SumFunction, SumOver
  <2>3. IntegerOn(Shortfalls', Booked \cup {c})
    BY <1>1, <1>6 DEF IntegerOn
  <2> DEFINE f == Shortfalls'
             g == Shortfalls
             B == Booked
  <2>4. SumOver(f, B \cup {c}) = SumOver(f, B) + f[c]
    <3>1. IsFiniteSet(B) /\ c \notin B /\ IntegerOn(f, B \cup {c})
      BY <1>1, <2>3
    <3> HIDE DEF f, B
    <3>2. QED
      BY <3>1, SumAdd
  <2>5. SumOver(f, B) = SumOver(g, B)
    <3>1. IsFiniteSet(B) /\ \A d \in B : f[d] = g[d]
      BY <1>4
    <3> HIDE DEF f, g, B
    <3>2. QED
      BY <3>1, SumCongruent
  <2>6. SumFunction(Shortfalls) = SumOver(g, B)
    BY TotalShortfall
  <2>7. SumFunction(Shortfalls)' = SumOver(f, B \cup {c})
    BY <1>1, <2>2
  <2>8. f[c] = short
    BY <1>5
  <2> HIDE DEF f, g, B
  <2>9. QED
    BY <2>4, <2>5, <2>6, <2>7, <2>8
<1>8. PaidFromGross' \in SUBSET PaidFromGross
  BY <1>1, <1>3, <1>4 DEF PaidFromGross
<1>9. caller[c].intent \in PaidFromGross' => short = 0
  BY <1>1, <1>5 DEF PaidFromGross
<1>10. QED
  BY <1>2, <1>6, <1>7, <1>8, <1>9

LEMMA InitBooksInv == Init => BooksInv
<1> SUFFICES ASSUME Init PROVE BooksInv
  OBVIOUS
<1>1. IsSequence(<< >>) /\ balanceOf(<< >>, "COLLECTED") = 0 /\ DOMAIN << >> = {}
  <2>1. IsSequence(<<0>>) /\ IsSequence(<< >>) /\ balanceOf(<< >>, "COLLECTED") = 0
    BY BalanceOfOne
  <2>2. DOMAIN << >> = {}
    OBVIOUS
  <2>3. QED
    BY <2>1, <2>2
<1>2. Books(<< >>) /\ SplitMarked(<< >>)
  BY <1>1 DEF Books, SplitMarked
<1>3. \A i, type : PostingsOf(<< >>, type, i) = {}
  BY <1>1 DEF PostingsOf
<1>4. \A i : Cleared(<< >>, i)
  BY <1>1, <1>3 DEF Cleared, balanceOf
<1>5. \A i, clean : Unwinds(<< >>, i, clean)
  BY <1>3 DEF Unwinds
<1>6. Booked = {} /\ IsFiniteSet(Booked)
  <2>1. Booked = {}
    BY DEF Init, Booked
  <2>2. QED
    BY <2>1, FS_EmptySet
<1>7. SumFunction(Shortfalls) = 0
  <2>1. SumFunction(Shortfalls) = SumOver(Shortfalls, Booked)
    BY <1>6, TotalShortfall
  <2>2. QED
    BY <1>6, <2>1, SumEmpty
<1>8. JournalIsSound(<< >>, PaidFromGross, SumFunction(Shortfalls))
  BY <1>1, <1>2, <1>4, <1>5, <1>7 DEF JournalIsSound
<1>9. QED
  BY <1>6, <1>8 DEF Init, BooksInv

LEMMA StepBooksInv == BooksInv /\ [Next]_vars => BooksInv'
<1> SUFFICES ASSUME BooksInv, [Next]_vars PROVE BooksInv'
  OBVIOUS
<1>0. /\ JournalIsSound(journal, PaidFromGross, SumFunction(Shortfalls))
      /\ DOMAIN caller = Callers /\ IsFiniteSet(Booked)
      /\ \A c \in Booked : Shortfalls[c] \in Nat
      /\ SumFunction(Shortfalls) \in Int
  BY TotalShortfall DEF BooksInv
<1>1. ASSUME NEW c \in Callers, NEW i \in Intents, BeginSettle(c, i) PROVE BooksInv'
  <2>1. /\ journal' = journal /\ DOMAIN caller' = Callers
        /\ \A d \in Callers \ {c} : caller'[d] = caller[d]
        /\ caller[c].phase # "booked"
    BY <1>0, <1>1 DEF BeginSettle
  <2>2. ASSUME caller'[c].phase # "booked"
        PROVE  /\ Booked' = Booked /\ Shortfalls' = Shortfalls
               /\ PaidFromGross' = PaidFromGross
    BY <1>0, <2>1, <2>2, NothingBooked
  <2>3. CASE caller'[c] = [phase |-> "skipped"]
    BY <2>1, <2>2, <2>3 DEF BooksInv
  <2>4. ASSUME NEW cfg \in TenantConfigs, Gross[i] > 0,
               caller'[c] = [phase |-> "planned", intent |-> i,
                             seen |-> Len(journal), cfg |-> cfg,
                             legs |-> captureLegs(i, cfg)]
        PROVE  BooksInv'
    <3>1. CaptureOf(captureLegs(i, cfg), i, Shortfall(i, cfg))
      BY <2>4, CaptureLegsClear
    <3>2. /\ caller'[c].intent = i /\ caller'[c].cfg = cfg
          /\ caller'[c].legs = captureLegs(i, cfg) /\ caller'[c].phase # "booked"
      BY <2>4
    <3>3. QED
      BY <2>1, <2>2, <3>1, <3>2 DEF BooksInv
  <2>5. QED
    BY <1>0, <1>1, <2>3, <2>4 DEF BeginSettle
<1>2. ASSUME NEW c \in Callers, CommitSettle(c) PROVE BooksInv'
  <2> DEFINE i == caller[c].intent
             short == Shortfall(i, caller[c].cfg)
  <2>1. /\ journal' = journal \o caller[c].legs
        /\ DOMAIN caller' = Callers
        /\ \A d \in Callers \ {c} : caller'[d] = caller[d]
        /\ caller[c].phase = "planned" /\ caller'[c].phase = "booked"
        /\ caller'[c].intent = i /\ caller'[c].cfg = caller[c].cfg
    BY <1>0, <1>2 DEF CommitSettle, postEntries
  <2>2. i \in Intents /\ CaptureOf(caller[c].legs, i, short)
    BY <2>1 DEF BooksInv
  <2>3. short \in Nat
    BY <2>2 DEF CaptureOf
  <2>4. /\ IsFiniteSet(Booked') /\ \A d \in Booked' : Shortfalls'[d] \in Nat
        /\ SumFunction(Shortfalls)' = SumFunction(Shortfalls) + short
        /\ PaidFromGross' \in SUBSET PaidFromGross
        /\ i \in PaidFromGross' => short = 0
    <3>1. caller[c].phase # "booked"
      BY <2>1
    <3> HIDE DEF short
    <3>2. short = Shortfall(caller[c].intent, caller[c].cfg)
      BY DEF short
    <3>3. QED
      BY <1>0, <2>1, <2>3, <3>1, <3>2, OneBooked
  <2>5. JournalIsSound(journal \o caller[c].legs, PaidFromGross',
                       SumFunction(Shortfalls) + short)
    <3> HIDE DEF short, i
    <3>1. QED
      BY <1>0, <2>2, <2>4, CaptureKeepsJournal
  <2>6. JournalIsSound(journal', PaidFromGross', SumFunction(Shortfalls'))
    BY <2>1, <2>4, <2>5
  <2>7. QED
    BY <2>1, <2>4, <2>6 DEF BooksInv
<1>3. ASSUME NEW c \in Callers, AbortSettle(c) PROVE BooksInv'
  <2>1. /\ journal' = journal /\ DOMAIN caller' = Callers
        /\ \A d \in Callers \ {c} : caller'[d] = caller[d]
        /\ caller[c].phase # "booked" /\ caller'[c].phase = "aborted"
    BY <1>0, <1>3 DEF AbortSettle
  <2>2. Booked' = Booked /\ Shortfalls' = Shortfalls /\ PaidFromGross' = PaidFromGross
    BY <1>0, <2>1, NothingBooked
  <2>3. QED
    BY <2>1, <2>2 DEF BooksInv
<1>4. ASSUME NEW i \in Intents, SettleRefund(i) PROVE BooksInv'
  <2>1. IsSequence(journal)
    BY <1>0 DEF JournalIsSound, Books
  <2>2. RefundOf(journal, refundLegs(i), i)
    BY <2>1, RefundLegsAreRefund
  <2>3. /\ journal' = journal \o refundLegs(i) /\ caller' = caller
        /\ PostingsOf(journal, "refund", i) = {}
    BY <1>4 DEF SettleRefund, postEntries
  <2>4. JournalIsSound(journal \o refundLegs(i), PaidFromGross, SumFunction(Shortfalls))
    BY <1>0, <2>2, <2>3, RefundKeepsJournal
  <2>5. Booked' = Booked /\ Shortfalls' = Shortfalls /\ PaidFromGross' = PaidFromGross
    BY <2>3 DEF Booked, Shortfalls, PaidFromGross
  <2>6. QED
    BY <2>3, <2>4, <2>5 DEF BooksInv
<1>5. CASE UNCHANGED vars
  BY <1>5 DEF vars, BooksInv, Booked, Shortfalls, PaidFromGross
<1>6. QED
  BY <1>1, <1>2, <1>3, <1>4, <1>5 DEF Next

(***************************************************************************)
(* COLLECTED is a clearing account: for every configuration, split, replay *)
(* and interleaving of invocations its balance is what the booked captures *)
(* were short of for fee, tax and reserve, and nothing else.               *)
(***************************************************************************)
THEOREM CollectedIsCleared == Spec => []CollectedClears
<1>1. BooksInv => CollectedClears
  BY DEF BooksInv, JournalIsSound, CollectedClears
<1>2. QED
  BY <1>1, InitBooksInv, StepBooksInv, PTL DEF Spec

(***************************************************************************)
(* settleRefund returns fee and reserve of every refunded capture, however *)
(* often it was booked; without tax or split legs it returns every account *)
(* of the tenant to zero, and CASH too unless a fee exceeded the gross.    *)
(***************************************************************************)
THEOREM RefundReturnsEverything == Spec => []RefundUnwindsCapture
<1>1. BooksInv => RefundUnwindsCapture
  <2>1. \A i : UnwoundPostings(i) = UnwoundIn(journal, i)
    BY DEF UnwoundPostings, UnwoundIn
  <2>2. QED
    BY <2>1 DEF BooksInv, JournalIsSound, Unwinds, ZeroOn, RefundUnwindsCapture
<1>2. QED
  BY <1>1, InitBooksInv, StepBooksInv, PTL DEF Spec
=============================================================================
