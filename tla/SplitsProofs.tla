---------------------------- MODULE SplitsProofs ----------------------------
(***************************************************************************)
(* The wallets next to the splits of one tenant: the cached balances are   *)
(* the derived ones, and the WALLET postings implement the abstract        *)
(* purses, for every number of owners, fee schedule and share list; and    *)
(* RESERVE is what the pending shares of the splits add up to.             *)
(***************************************************************************)
EXTENDS Splits, MoneyProofs

(***************************************************************************)
(* recordMovement and the postings of one operation (lib/wallet-db.ts):    *)
(* when they move the wallet by the same amount, and not below zero, the   *)
(* invariant is kept and one purse has changed.                            *)
(***************************************************************************)
LEMMA MovementKeeps ==
    ASSUME WalletInvariant, NEW w \in WalletIds, NEW accounts, NEW signed \in Int,
           DOMAIN accounts = LedgerAccounts,
           accounts["WALLET"] = account["WALLET"] + signed,
           held[w] + signed >= 0, wallet[w].status = "ACTIVE",
           Posts(w, accounts), recordMovement(w, signed)
    PROVE  WalletInvariant' /\ P!Move(w)
<1>1. held' = [held EXCEPT ![w] = @ + signed]
    <2>1. held[w] + accounts["WALLET"] - account["WALLET"] = held[w] + signed
        BY DEF WalletInvariant
    <2> QED
        BY <2>1 DEF Posts
<1>2. held' \in [WalletIds -> Nat] /\ P!Move(w)
    BY <1>1 DEF WalletInvariant, P!Move
<1>3. account'["WALLET"] \in Int /\ DOMAIN account' = LedgerAccounts
    BY DEF Posts, WalletInvariant
<1>4. held[w] = wallet[w].balance
    BY DEF WalletInvariant, SnapshotIsDerived
<1>5. wallet' \in [WalletIds -> [status : {"NONE", "ACTIVE"}, balance : Nat]]
    <2>1. wallet[w].balance + signed \in Nat
        BY <1>4 DEF WalletInvariant
    <2> QED
        BY <2>1 DEF recordMovement, WalletInvariant
<1>6. movements' \in [WalletIds -> [rows : Nat, cents : Int]]
    <2>1. movements[w].rows + 1 \in Nat /\ movements[w].cents + signed \in Int
        BY DEF WalletInvariant
    <2> QED
        BY <2>1 DEF recordMovement, WalletInvariant
<1>7. SnapshotIsDerived'
    <2> SUFFICES ASSUME NEW v \in WalletIds
                 PROVE  /\ wallet'[v].balance = movements'[v].cents
                        /\ wallet'[v].balance = held'[v]
        BY DEF SnapshotIsDerived
    <2>1. wallet[v].balance = movements[v].cents /\ wallet[v].balance = held[v]
        BY DEF WalletInvariant, SnapshotIsDerived
    <2> QED
        BY <1>1, <2>1 DEF recordMovement, WalletInvariant
<1>8. \A v \in WalletIds : wallet'[v].status = "NONE" => wallet'[v].balance = 0
    BY DEF recordMovement, WalletInvariant
<1> QED
    BY <1>2, <1>3, <1>5, <1>6, <1>7, <1>8 DEF WalletInvariant

\* createWallet starts from nothing.
LEMMA WalletStart == Init => WalletInvariant /\ P!Init
BY DEF Init, WalletInit, WalletInvariant, SnapshotIsDerived, P!Init, LedgerAccounts

(***************************************************************************)
(* The operations of lib/wallet-db.ts: each keeps the invariant and is a   *)
(* move of one purse, or none.                                             *)
(***************************************************************************)
LEMMA WalletStep ==
    ASSUME WalletInvariant, WalletNext
    PROVE  WalletInvariant' /\ [P!Next]_held
<1> USE WalletsAssumption
<1>1. ASSUME NEW w \in WalletIds, createWallet(w)
      PROVE  WalletInvariant' /\ [P!Next]_held
    <2>1. held' = held /\ account' = account /\ movements' = movements
        BY <1>1 DEF createWallet
    <2>2. wallet' \in [WalletIds -> [status : {"NONE", "ACTIVE"}, balance : Nat]]
        BY <1>1 DEF createWallet, WalletInvariant
    <2>3. \A v \in WalletIds : wallet'[v].balance = wallet[v].balance
        BY <1>1 DEF createWallet, WalletInvariant
    <2>4. \A v \in WalletIds : wallet'[v].status = "NONE" => wallet'[v].balance = 0
        BY <1>1 DEF createWallet, WalletInvariant
    <2> QED
        BY <2>1, <2>2, <2>3, <2>4 DEF WalletInvariant, SnapshotIsDerived
<1>2. ASSUME NEW new \in Configs, upsertFinanceConfig(new)
      PROVE  WalletInvariant' /\ [P!Next]_held
    BY <1>2 DEF upsertFinanceConfig, WalletInvariant, SnapshotIsDerived
<1>3. ASSUME NEW w \in WalletIds, NEW cents \in Amounts, NEW schedule \in Schedules,
             topUpWallet(w, cents, schedule)
      PROVE  WalletInvariant' /\ [P!Next]_held
    <2> DEFINE fee    == IF config.basis = "load" THEN computeFee(schedule, cents) ELSE 0
               loaded == moved(account, "CASH", "WALLET", cents)
               after  == moved(loaded, "WALLET", "FEES", fee)
    <2>1. /\ fee \in Nat /\ cents \in Nat /\ cents - fee > 0
          /\ wallet[w].status = "ACTIVE"
        BY <1>3 DEF topUpWallet, AcceptsTopUp, Active
    <2>2. DOMAIN loaded = LedgerAccounts /\ loaded["WALLET"] = account["WALLET"] + cents
        BY <2>1 DEF moved, WalletInvariant, LedgerAccounts
    <2>3. loaded["WALLET"] \in Int
        BY <2>1, <2>2 DEF WalletInvariant
    <2> HIDE DEF fee, loaded
    <2>4. DOMAIN after = LedgerAccounts /\ after["WALLET"] = loaded["WALLET"] - fee
        BY <2>1, <2>2, <2>3 DEF moved, LedgerAccounts
    <2>5. Posts(w, after) /\ recordMovement(w, cents - fee)
        BY <1>3 DEF topUpWallet, fee, loaded
    <2> HIDE DEF after
    <2>6. after["WALLET"] = account["WALLET"] + (cents - fee) /\ held[w] + (cents - fee) >= 0
        BY <2>1, <2>2, <2>4 DEF WalletInvariant
    <2> QED
        BY <2>1, <2>4, <2>5, <2>6, MovementKeeps DEF P!Next
<1>4. ASSUME NEW w \in WalletIds, NEW cents \in Amounts, NEW schedule \in Schedules,
             debitWallet(w, cents, schedule)
      PROVE  WalletInvariant' /\ [P!Next]_held
    <2> DEFINE fee    == IF config.basis = "load" THEN 0 ELSE computeFee(schedule, cents)
               earned == moved(account, "WALLET", "AVAILABLE", cents)
               after  == moved(earned, "AVAILABLE", "FEES", fee)
    <2>1. /\ cents \in Nat /\ cents <= wallet[w].balance
          /\ wallet[w].status = "ACTIVE"
        BY <1>4 DEF debitWallet, AcceptsDebit, Active
    <2>2. DOMAIN earned = LedgerAccounts /\ earned["WALLET"] = account["WALLET"] - cents
        BY <2>1 DEF moved, WalletInvariant, LedgerAccounts
    <2>3. earned["WALLET"] \in Int
        BY <2>1, <2>2 DEF WalletInvariant
    <2> HIDE DEF fee, earned
    <2>4. DOMAIN after = LedgerAccounts /\ after["WALLET"] = earned["WALLET"]
        BY <2>2, <2>3 DEF moved, LedgerAccounts
    <2>5. Posts(w, after) /\ recordMovement(w, 0 - cents)
        BY <1>4 DEF debitWallet, fee, earned
    <2> HIDE DEF after
    <2>6. after["WALLET"] = account["WALLET"] + (0 - cents) /\ held[w] + (0 - cents) >= 0
        <3>1. held[w] = wallet[w].balance /\ held[w] \in Nat
            BY DEF WalletInvariant, SnapshotIsDerived
        <3>2. held[w] + (0 - cents) >= 0
            BY <2>1, <3>1
        <3>3. account["WALLET"] \in Int
            BY DEF WalletInvariant
        <3> QED
            BY <2>1, <2>2, <2>4, <3>2, <3>3
    <2>7. 0 - cents \in Int
        BY <2>1
    <2> QED
        BY <2>1, <2>4, <2>5, <2>6, <2>7, MovementKeeps DEF P!Next
<1>5. ASSUME NEW w \in WalletIds, NEW signed \in Int, held[w] + signed >= 0,
             wallet[w].status = "ACTIVE",
             Posts(w, moved(account, "AVAILABLE", "WALLET", signed)),
             recordMovement(w, signed)
      PROVE  WalletInvariant' /\ [P!Next]_held
    <2> DEFINE after == moved(account, "AVAILABLE", "WALLET", signed)
    <2>1. DOMAIN after = LedgerAccounts /\ after["WALLET"] = account["WALLET"] + signed
        BY DEF moved, WalletInvariant, LedgerAccounts
    <2>2. Posts(w, after)
        BY <1>5
    <2> HIDE DEF after
    <2> QED
        BY <1>5, <2>1, <2>2, MovementKeeps DEF P!Next
<1>6. ASSUME NEW w \in WalletIds, NEW cents \in Amounts, refundWallet(w, cents)
      PROVE  WalletInvariant' /\ [P!Next]_held
    <2>1. cents \in Int /\ held[w] + cents >= 0
        BY DEF WalletInvariant
    <2> QED
        BY <1>5, <1>6, <2>1 DEF refundWallet, Active
<1>7. ASSUME NEW w \in WalletIds, NEW signed \in Int, adjustWallet(w, signed)
      PROVE  WalletInvariant' /\ [P!Next]_held
    <2>1. held[w] + signed >= 0
        BY <1>7 DEF adjustWallet, AcceptsAdjustment, WalletInvariant, SnapshotIsDerived
    <2> QED
        BY <1>5, <1>7, <2>1 DEF adjustWallet, Active
<1>8. \A cents \in Amounts : cents \in Int /\ 0 - cents \in Int
    OBVIOUS
<1> QED
    BY <1>1, <1>2, <1>3, <1>4, <1>6, <1>7, <1>8 DEF WalletNext

(***************************************************************************)
(* lib/splits-db.ts: an execution or a release moves other accounts and    *)
(* leaves the wallets and the WALLET account alone.                        *)
(***************************************************************************)
LEMMA SplitStep ==
    ASSUME WalletInvariant,
           UNCHANGED <<held, wallet, movements>>,
           DOMAIN account' = LedgerAccounts, account'["WALLET"] = account["WALLET"]
    PROVE  WalletInvariant' /\ [P!Next]_held
BY DEF WalletInvariant, SnapshotIsDerived

\* executeSplitInTx: from COLLECTED or AVAILABLE to RESERVE or AVAILABLE.
LEMMA SplitLeavesWallet ==
    ASSUME WalletInvariant, NEW cents, NEW list, NEW trigger, NEW hold
    PROVE  LET after == SplitPosted(account, cents, list, trigger, hold)
           IN  DOMAIN after = LedgerAccounts /\ after["WALLET"] = account["WALLET"]
<1> DEFINE source == sourceAccountFor(trigger)
           target == IF hold THEN "RESERVE" ELSE "AVAILABLE"
           total  == ShareTotal(cents, list)
           shared == moved(account, source, target, total)
<1>1. source \in {"COLLECTED", "AVAILABLE"} /\ target \in {"RESERVE", "AVAILABLE"}
    BY DEF sourceAccountFor
<1>2. "WALLET" \in LedgerAccounts /\ DOMAIN account = LedgerAccounts
    BY DEF LedgerAccounts, WalletInvariant
<1> HIDE DEF source, target, total
<1>3. DOMAIN shared = LedgerAccounts /\ shared["WALLET"] = account["WALLET"]
    BY <1>1, <1>2 DEF moved
<1> HIDE DEF shared
<1> DEFINE rest == split(cents, list).platform
<1> HIDE DEF rest
<1>4. LET after == moved(shared, source, "AVAILABLE", rest)
      IN  DOMAIN after = LedgerAccounts /\ after["WALLET"] = account["WALLET"]
    BY <1>1, <1>2, <1>3 DEF moved
<1>5. SplitPosted(account, cents, list, trigger, hold)
          = IF trigger = "AT_CAPTURE" THEN moved(shared, source, "AVAILABLE", rest) ELSE shared
    BY DEF SplitPosted, source, target, total, shared, rest
<1> QED
    BY <1>3, <1>4, <1>5

\* Every step of the tenant's marketplace.
LEMMA MarketplaceStep ==
    ASSUME WalletInvariant, [Next]_vars
    PROVE  WalletInvariant' /\ [P!Next]_held
<1>1. CASE WalletNext
    BY <1>1, WalletStep
<1>2. ASSUME NEW list \in Rules, NEW trigger \in TRIGGERS, NEW cents \in Amounts,
             NEW hold \in BOOLEAN, executeSplit(cents, list, trigger, hold)
      PROVE  WalletInvariant' /\ [P!Next]_held
    BY <1>2, SplitLeavesWallet, SplitStep DEF executeSplit
<1>3. ASSUME NEW r \in Releasers, CommitRelease(r)
      PROVE  WalletInvariant' /\ [P!Next]_held
    <2> DEFINE cents == splits[releaser[r].row].cents
    <2>1. account' = moved(account, "RESERVE", "AVAILABLE", cents)
        BY <1>3 DEF CommitRelease
    <2> HIDE DEF cents
    <2>2. DOMAIN account' = LedgerAccounts /\ account'["WALLET"] = account["WALLET"]
        BY <2>1 DEF moved, WalletInvariant, LedgerAccounts
    <2> QED
        BY <1>3, <2>2, SplitStep DEF CommitRelease
<1>4. CASE UNCHANGED walletVars
    BY <1>4, SplitStep DEF walletVars, WalletInvariant
<1> QED
    BY <1>1, <1>2, <1>3, <1>4
    DEF Next, ReadRelease, AbortRelease, vars, splitVars

(***************************************************************************)
(* lib/wallet.ts: the snapshot on the wallet, its audit rows and its share *)
(* of the WALLET account always agree.                                     *)
(***************************************************************************)
THEOREM SnapshotIsAuthoritative == Spec => []SnapshotIsDerived
<1>1. WalletInvariant => SnapshotIsDerived
    BY DEF WalletInvariant
<1> QED
    BY WalletStart, MarketplaceStep, <1>1, PTL DEF Spec

(***************************************************************************)
(* lib/wallet-db.ts implements the abstract purses: every operation fills  *)
(* or spends the stored value of one owner and overdraws none.             *)
(***************************************************************************)
THEOREM WalletsImplementPurse == Spec => PurseSpec
<1> QED
    BY WalletStart, MarketplaceStep, PTL DEF Spec, PurseSpec, P!Spec

-----------------------------------------------------------------------------
(***************************************************************************)
(* The escrow of held shares.  Amounts of a list s of Split rows, those    *)
(* that are still PENDING, and their sum.                                  *)
(***************************************************************************)
CentsOf(s) == [n \in DOMAIN s |-> s[n].cents]

PendingOf(s) == {n \in DOMAIN s : s[n].status = "PENDING"}

EscrowOf(s) == SumOver(CentsOf(s), PendingOf(s))

(***************************************************************************)
(* A row holds money while it is PENDING and has not been released: these  *)
(* are the same rows until one is released twice.  A release under way has *)
(* read a row that was held, whatever became of it since.                  *)
(***************************************************************************)
RowOk(row) ==
    /\ row.cents \in Nat
    /\ row.released \in Nat
    /\ row.status = "PENDING" => row.held /\ row.released = 0
    /\ row.held /\ row.released = 0 => row.status = "PENDING"

ReleasedOnce(s) == \A n \in DOMAIN s : s[n].released <= 1

EscrowInvariant ==
    /\ DOMAIN account = LedgerAccounts /\ account["RESERVE"] \in Int
    /\ IsSequence(splits)
    /\ \A n \in DOMAIN splits : RowOk(splits[n])
    /\ DOMAIN releaser = Releasers
    /\ \A r \in Releasers : releaser[r].pc = "read" =>
          releaser[r].row \in DOMAIN splits /\ splits[releaser[r].row].held
    /\ ReleasedOnce(splits) => account["RESERVE"] = EscrowOf(splits)

\* A posting between two accounts changes no other one.
LEMMA MovedElsewhere ==
    ASSUME NEW a, DOMAIN a = LedgerAccounts, NEW debit, NEW credit, NEW cents,
           debit # "RESERVE", credit # "RESERVE"
    PROVE  /\ DOMAIN moved(a, debit, credit, cents) = LedgerAccounts
           /\ moved(a, debit, credit, cents)["RESERVE"] = a["RESERVE"]
BY DEF moved, LedgerAccounts

\* The operations of lib/wallet-db.ts never touch RESERVE.
LEMMA WalletLeavesReserve ==
    ASSUME WalletNext, DOMAIN account = LedgerAccounts
    PROVE  DOMAIN account' = LedgerAccounts /\ account'["RESERVE"] = account["RESERVE"]
<1> DEFINE same(a) == DOMAIN a = LedgerAccounts /\ a["RESERVE"] = account["RESERVE"]
<1>1. ASSUME NEW a, same(a), NEW debit \in {"CASH", "WALLET", "AVAILABLE"},
             NEW credit \in {"WALLET", "FEES", "AVAILABLE"}, NEW cents
      PROVE  same(moved(a, debit, credit, cents))
    BY <1>1, MovedElsewhere
<1>2. same(account)
    OBVIOUS
<1> HIDE DEF same
<1>3. ASSUME NEW w, createWallet(w) PROVE same(account')
    BY <1>2, <1>3 DEF createWallet
<1>4. ASSUME NEW w, NEW cents, NEW schedule, topUpWallet(w, cents, schedule)
      PROVE  same(account')
    BY <1>1, <1>2, <1>4 DEF topUpWallet, Posts
<1>5. ASSUME NEW w, NEW cents, NEW schedule, debitWallet(w, cents, schedule)
      PROVE  same(account')
    BY <1>1, <1>2, <1>5 DEF debitWallet, Posts
<1>6. ASSUME NEW w, NEW cents, refundWallet(w, cents) PROVE same(account')
    BY <1>1, <1>2, <1>6 DEF refundWallet, Posts
<1>7. ASSUME NEW w, NEW cents, adjustWallet(w, cents) PROVE same(account')
    BY <1>1, <1>2, <1>7 DEF adjustWallet, Posts
<1>8. ASSUME NEW new, upsertFinanceConfig(new) PROVE same(account')
    BY <1>2, <1>8 DEF upsertFinanceConfig
<1>9. same(account')
    BY <1>3, <1>4, <1>5, <1>6, <1>7, <1>8 DEF WalletNext
<1> QED
    BY <1>9 DEF same

\* executeSplitInTx: a held execution puts the total of its shares in RESERVE.
LEMMA SplitReserves ==
    ASSUME DOMAIN account = LedgerAccounts, account["RESERVE"] \in Int,
           NEW cents, NEW list, NEW trigger, NEW hold \in BOOLEAN,
           ShareTotal(cents, list) \in Int
    PROVE  LET after == SplitPosted(account, cents, list, trigger, hold)
           IN  /\ DOMAIN after = LedgerAccounts
               /\ after["RESERVE"] = account["RESERVE"]
                                        + IF hold THEN ShareTotal(cents, list) ELSE 0
<1> DEFINE source == sourceAccountFor(trigger)
           target == IF hold THEN "RESERVE" ELSE "AVAILABLE"
           total  == ShareTotal(cents, list)
           shared == moved(account, source, target, total)
           rest == split(cents, list).platform
           good(a) == /\ DOMAIN a = LedgerAccounts
                      /\ a["RESERVE"] = account["RESERVE"] + IF hold THEN total ELSE 0
<1>1. source \in {"COLLECTED", "AVAILABLE"}
    BY DEF sourceAccountFor
<1>2. SplitPosted(account, cents, list, trigger, hold)
          = IF trigger = "AT_CAPTURE" THEN moved(shared, source, "AVAILABLE", rest) ELSE shared
    BY DEF SplitPosted
<1> HIDE DEF source, total, rest
<1>3. good(shared)
    <2>1. CASE hold
        BY <1>1, <2>1 DEF moved, LedgerAccounts, total
    <2>2. CASE ~hold
        <3>1. shared["RESERVE"] = account["RESERVE"] /\ DOMAIN shared = LedgerAccounts
            BY <1>1, <2>2, MovedElsewhere
        <3> QED
            BY <2>2, <3>1
    <2> QED
        BY <2>1, <2>2
<1> HIDE DEF shared
<1>4. good(moved(shared, source, "AVAILABLE", rest))
    BY <1>1, <1>3, MovedElsewhere
<1> QED
    BY <1>2, <1>3, <1>4 DEF total

\* Rows that are added add what they hold.
LEMMA EscrowAppends ==
    ASSUME NEW s, NEW t, IsSequence(s), IsSequence(t),
           \A n \in DOMAIN s : s[n].cents \in Nat, \A n \in DOMAIN t : t[n].cents \in Nat
    PROVE  /\ EscrowOf(s \o t) = EscrowOf(s) + EscrowOf(t)
           /\ EscrowOf(s) \in Int /\ EscrowOf(t) \in Int
<1> DEFINE j == s \o t
           L == Len(s)
           N == PendingOf(s)
           K == PendingOf(t)
           M == {L + k : k \in K}
           b == [k \in K |-> L + k]
           f == CentsOf(s)
           g == CentsOf(t)
           h == CentsOf(j)
<1>1. /\ L \in Nat /\ Len(t) \in Nat /\ DOMAIN s = 1..L /\ DOMAIN t = 1..Len(t)
      /\ DOMAIN j = 1..(L + Len(t))
      /\ \A n \in 1..L : j[n] = s[n]
      /\ \A k \in 1..Len(t) : j[L + k] = t[k]
    BY AppendShape
<1> HIDE DEF j, L
<1>2. N \in SUBSET (1..L) /\ K \in SUBSET (1..Len(t))
    BY <1>1 DEF PendingOf
<1>3. IsFiniteSet(N) /\ IsFiniteSet(K)
    <2>1. IsFiniteSet(1..L) /\ IsFiniteSet(1..Len(t))
        BY <1>1, FS_Interval
    <2> QED
        BY <1>2, <2>1, FS_Subset
<1>4. PendingOf(j) = N \cup M
    <2>1. ASSUME NEW n \in PendingOf(j) PROVE n \in N \cup M
        <3>1. n \in 1..(L + Len(t)) /\ j[n].status = "PENDING"
            BY <1>1 DEF PendingOf
        <3>2. CASE n \in 1..L
            BY <1>1, <3>1, <3>2 DEF PendingOf
        <3>3. CASE n \notin 1..L
            <4>1. n - L \in 1..Len(t) /\ L + (n - L) = n
                BY <1>1, <3>1, <3>3
            <4>2. n - L \in K
                BY <1>1, <3>1, <4>1 DEF PendingOf
            <4> QED
                BY <4>1, <4>2
        <3> QED
            BY <3>2, <3>3
    <2>2. ASSUME NEW n \in N PROVE n \in PendingOf(j)
        BY <1>1 DEF PendingOf
    <2>3. ASSUME NEW k \in K PROVE L + k \in PendingOf(j)
        BY <1>1 DEF PendingOf
    <2> QED
        BY <2>1, <2>2, <2>3
<1>5. /\ \A n \in N : f[n] \in Int /\ h[n] = f[n]
      /\ \A k \in K : g[k] \in Int /\ h[L + k] = g[k]
    BY <1>1, <1>2 DEF CentsOf
<1>6. N \cap M = {}
    BY <1>1, <1>2
<1>7. /\ \A k \in K : b[k] \in M /\ g[k] = h[b[k]]
      /\ \A k, l \in K : b[k] = b[l] => k = l
      /\ \A m \in M : \E k \in K : b[k] = m
    <2>1. \A k \in K : b[k] = L + k /\ k \in Int
        BY <1>2
    <2> QED
        BY <1>1, <1>5, <2>1
<1>8. IsFiniteSet(M)
    <2>1. {b[k] : k \in K} = M
        OBVIOUS
    <2>2. IsFiniteSet({b[k] : k \in K})
        BY <1>3, ImageIsFinite
    <2> QED
        BY <2>1, <2>2
<1>9. IntegerOn(h, N \cup M) /\ IntegerOn(f, N) /\ IntegerOn(g, K)
    BY <1>5 DEF IntegerOn
<1> HIDE DEF N, K, M, b, f, g, h
<1>10. SumOver(h, N \cup M) = SumOver(h, N) + SumOver(h, M)
    BY <1>3, <1>6, <1>8, <1>9, SumDisjointUnion
<1>11. SumOver(h, N) = SumOver(f, N)
    BY <1>3, <1>5, SumCongruent
<1>12. SumOver(g, K) = SumOver(h, M)
    BY <1>3, <1>7, <1>9, SumRenamed
<1>13. SumOver(f, N) \in Int /\ SumOver(g, K) \in Int
    BY <1>3, <1>9, SumIsInteger
<1> QED
    BY <1>4, <1>10, <1>11, <1>12, <1>13 DEF EscrowOf, N, K, f, g, h, j

\* The rows of an execution: all PENDING with the total of the shares, or none.
LEMMA RowsOfExecution ==
    ASSUME NEW list \in Rules, NEW cents \in Amounts, NEW hold \in BOOLEAN
    PROVE  LET t == SplitRows(cents, list, hold)
           IN  /\ IsSequence(t)
               /\ \A n \in DOMAIN t : RowOk(t[n]) /\ t[n].released = 0
               /\ EscrowOf(t) = IF hold THEN ShareTotal(cents, list) ELSE 0
               /\ ShareTotal(cents, list) \in Nat
<1> DEFINE t == SplitRows(cents, list, hold)
           cs == split(cents, list).shares
           row(n) == [party |-> list[n].party, cents |-> cs[n],
                      status |-> IF hold THEN "PENDING" ELSE "SETTLED", held |-> hold,
                      released |-> 0]
           D == DOMAIN list
<1>1. cents \in Nat
    BY WalletsAssumption
<1>2. ShareRows(list)
    <2>1. list \in Seq([party : Nat, bps : Nat]) /\ ValidShares(list)
        BY SplitsAssumption
    <2>2. IsSequence(list)
        BY <2>1, SequenceShape
    <2>3. \A n \in DOMAIN list : list[n] \in [party : Nat, bps : Nat]
        <3> DEFINE S == [party : Nat, bps : Nat]
        <3>1. list \in Seq(S)
            BY <2>1
        <3> HIDE DEF S
        <3>2. \A n \in DOMAIN list : list[n] \in S
            BY <3>1
        <3> QED
            BY <3>2 DEF S
    <2>4. \A n \in DOMAIN list : list[n].bps \in Nat /\ list[n].party \in Int
        BY <2>3
    <2> QED
        BY <2>1, <2>2, <2>4 DEF ShareRows
<1>3. /\ \A n \in D : cs[n] \in Nat
      /\ DOMAIN cs = D
      /\ SumFunction(cs) = ShareTotal(cents, list) /\ ShareTotal(cents, list) \in Nat
    <2> DEFINE pool == RoundedRatio(cents, TotalBps(list), BpsUnit)
    <2>1. /\ pool \in Nat /\ cs = computeShares(pool, list) /\ SumFunction(cs) = pool
          /\ \A n \in DOMAIN list : cs[n] \in Nat
        BY <1>1, <1>2, SplitOfCharge
    <2>2. DOMAIN cs = D
        BY <2>1, ComputeSharesUnfolds
    <2> QED
        BY <2>1, <2>2 DEF ShareTotal
<1>4. t = [n \in D |-> row(n)]
    BY DEF SplitRows
<1>5. D = 1..Len(list) /\ Len(list) \in Nat /\ IsFiniteSet(D)
    BY <1>1, <1>2, PartsOfShares
<1> HIDE DEF t, cs
<1>6. IsSequence(t) /\ DOMAIN t = D
    <2> HIDE DEF row
    <2>1. [n \in D |-> row(n)] \in Seq({row(n) : n \in D})
        BY <1>5
    <2> QED
        BY <1>4, <2>1, SequenceShape
<1>7. \A n \in D : /\ t[n].cents = cs[n] /\ t[n].released = 0 /\ t[n].held = hold
                   /\ t[n].status = IF hold THEN "PENDING" ELSE "SETTLED"
    BY <1>4
<1>8. \A n \in DOMAIN t : RowOk(t[n]) /\ t[n].released = 0
    BY <1>3, <1>6, <1>7 DEF RowOk
<1>9. EscrowOf(t) = IF hold THEN ShareTotal(cents, list) ELSE 0
    <2>1. CASE hold
        <3>1. PendingOf(t) = D
            BY <1>6, <1>7, <2>1 DEF PendingOf
        <3>2. \A n \in D : CentsOf(t)[n] = cs[n]
            BY <1>6, <1>7 DEF CentsOf
        <3>3. SumOver(CentsOf(t), D) = SumOver(cs, D)
            BY <1>5, <3>2, SumCongruent
        <3>4. SumFunction(cs) = SumOver(cs, D)
            BY <1>3 DEF SumFunction, SumOver
        <3> QED
            BY <1>3, <2>1, <3>1, <3>3, <3>4 DEF EscrowOf
    <2>2. CASE ~hold
        <3>1. PendingOf(t) = {}
            BY <1>6, <1>7, <2>2 DEF PendingOf
        <3> QED
            BY <2>2, <3>1, SumEmpty DEF EscrowOf
    <2> QED
        BY <2>1, <2>2
<1> QED
    BY <1>3, <1>6, <1>8, <1>9 DEF t

\* The rows t are s after the first release of row m.
ReleasesRow(s, t, m) ==
    /\ m \in DOMAIN s /\ s[m].status = "PENDING" /\ t[m].status = "SETTLED"
    /\ DOMAIN t = DOMAIN s
    /\ \A n \in DOMAIN s : t[n].cents = s[n].cents
    /\ \A n \in DOMAIN s \ {m} : t[n] = s[n]

\* It takes its row out of the pending ones, and nothing else.
LEMMA EscrowReleases ==
    ASSUME NEW s, IsSequence(s), \A n \in DOMAIN s : RowOk(s[n]),
           NEW m, NEW t, ReleasesRow(s, t, m)
    PROVE  EscrowOf(t) = EscrowOf(s) - s[m].cents
<1> USE DEF ReleasesRow
<1> DEFINE N == PendingOf(s)
           f == CentsOf(s)
           g == CentsOf(t)
<1>1. IsFiniteSet(DOMAIN s)
    BY FS_Interval, SequenceShape DEF IsSequence
<1>2. IsFiniteSet(N) /\ N \subseteq DOMAIN s /\ m \in N
    BY <1>1, FS_Subset DEF PendingOf
<1>3. PendingOf(t) = N \ {m}
    <2>1. \A n \in DOMAIN s \ {m} : t[n].status = s[n].status
        OBVIOUS
    <2>2. "SETTLED" # "PENDING"
        OBVIOUS
    <2> QED
        BY <2>1, <2>2 DEF PendingOf
<1>4. \A n \in N : f[n] \in Int /\ g[n] = f[n]
    BY <1>2 DEF CentsOf, RowOk
<1>5. f[m] = s[m].cents
    BY DEF CentsOf
<1> HIDE DEF N, f, g
<1>6. SumOver(f, N) = f[m] + SumOver(f, N \ {m})
    BY <1>2, <1>4, SumRemove DEF IntegerOn
<1>7. IsFiniteSet(N \ {m}) /\ SumOver(g, N \ {m}) = SumOver(f, N \ {m})
    <2>1. IsFiniteSet(N \ {m})
        BY <1>2, FS_Subset, N \ {m} \subseteq N
    <2>2. \A n \in N \ {m} : g[n] = f[n]
        BY <1>4
    <2> QED
        BY <2>1, <2>2, SumCongruent
<1>8. SumOver(f, N \ {m}) \in Int /\ f[m] \in Int
    <2>1. IntegerOn(f, N \ {m})
        BY <1>4 DEF IntegerOn
    <2> QED
        BY <1>2, <1>4, <1>7, <2>1, SumIsInteger
<1> QED
    BY <1>3, <1>5, <1>6, <1>7, <1>8 DEF EscrowOf, N, f, g

LEMMA InitEscrow == Init => EscrowInvariant
<1> SUFFICES ASSUME Init PROVE EscrowInvariant
    OBVIOUS
<1>1. /\ DOMAIN account = LedgerAccounts /\ account["RESERVE"] = 0
      /\ splits = << >> /\ DOMAIN releaser = Releasers
      /\ \A r \in Releasers : releaser[r].pc = "idle"
    BY DEF Init, WalletInit, LedgerAccounts, Idle
<1>2. IsSequence(<< >>) /\ DOMAIN << >> = {}
    <2>1. << >> \in Seq({}) /\ DOMAIN << >> = {}
        OBVIOUS
    <2>2. IsSequence(<< >>)
        BY <2>1, SequenceShape
    <2> QED
        BY <2>1, <2>2
<1>3. EscrowOf(<< >>) = 0
    <2>1. PendingOf(<< >>) = {}
        BY <1>2 DEF PendingOf
    <2> QED
        BY <2>1, SumEmpty DEF EscrowOf
<1> QED
    BY <1>1, <1>2, <1>3 DEF EscrowInvariant

\* A step that leaves the rows and RESERVE alone.
LEMMA EscrowKept ==
    ASSUME EscrowInvariant, splits' = splits, DOMAIN account' = LedgerAccounts,
           account'["RESERVE"] = account["RESERVE"], DOMAIN releaser' = Releasers,
           \A r \in Releasers : releaser'[r].pc = "read" =>
              releaser'[r].row \in DOMAIN splits /\ splits[releaser'[r].row].held
    PROVE  EscrowInvariant'
BY DEF EscrowInvariant

LEMMA ExecutionKeepsEscrow ==
    ASSUME EscrowInvariant, NEW list \in Rules, NEW trigger \in TRIGGERS,
           NEW cents \in Amounts, NEW hold \in BOOLEAN,
           executeSplit(cents, list, trigger, hold)
    PROVE  EscrowInvariant'
<1> DEFINE t == SplitRows(cents, list, hold)
           total == ShareTotal(cents, list)
           added == IF hold THEN total ELSE 0
<1>1. /\ IsSequence(t)
      /\ \A n \in DOMAIN t : RowOk(t[n]) /\ t[n].released = 0
      /\ EscrowOf(t) = added /\ total \in Nat
    BY RowsOfExecution
<1>2. /\ splits' = splits \o t /\ releaser' = releaser
      /\ account' = SplitPosted(account, cents, list, trigger, hold)
    BY DEF executeSplit
<1>3. /\ DOMAIN account = LedgerAccounts /\ account["RESERVE"] \in Int
      /\ IsSequence(splits) /\ \A n \in DOMAIN splits : RowOk(splits[n])
    BY DEF EscrowInvariant
<1>4. DOMAIN account' = LedgerAccounts /\ account'["RESERVE"] = account["RESERVE"] + added
    BY <1>1, <1>2, <1>3, SplitReserves
<1> HIDE DEF t, total
<1>5. /\ EscrowOf(splits \o t) = EscrowOf(splits) + EscrowOf(t)
      /\ EscrowOf(splits) \in Int
    BY <1>1, <1>3, EscrowAppends DEF RowOk
<1>6. /\ IsSequence(splits \o t) /\ Len(splits) \in Nat /\ Len(t) \in Nat
      /\ DOMAIN splits = 1..Len(splits) /\ DOMAIN t = 1..Len(t)
      /\ DOMAIN (splits \o t) = 1..(Len(splits) + Len(t))
      /\ \A n \in 1..Len(splits) : (splits \o t)[n] = splits[n]
      /\ \A k \in 1..Len(t) : (splits \o t)[Len(splits) + k] = t[k]
    BY <1>1, <1>3, AppendShape
<1>7. ASSUME NEW n \in DOMAIN splits' PROVE RowOk(splits'[n])
    <2>1. CASE n \in 1..Len(splits)
        BY <1>2, <1>3, <1>6, <2>1
    <2>2. CASE n \notin 1..Len(splits)
        <3>1. n - Len(splits) \in 1..Len(t) /\ Len(splits) + (n - Len(splits)) = n
            BY <1>2, <1>6, <2>2
        <3>2. splits'[n] = t[n - Len(splits)]
            BY <1>2, <1>6, <3>1
        <3> QED
            BY <1>1, <1>6, <3>1, <3>2
    <2> QED
        BY <2>1, <2>2
<1>8. \A n \in DOMAIN splits : n \in DOMAIN splits' /\ splits'[n] = splits[n]
    BY <1>2, <1>6
<1>9. ReleasedOnce(splits') => ReleasedOnce(splits)
    BY <1>8 DEF ReleasedOnce
<1>10. ReleasedOnce(splits') => account'["RESERVE"] = EscrowOf(splits')
    <2> SUFFICES ASSUME ReleasedOnce(splits') PROVE account'["RESERVE"] = EscrowOf(splits')
        OBVIOUS
    <2>1. account["RESERVE"] = EscrowOf(splits)
        BY <1>9 DEF EscrowInvariant
    <2> QED
        BY <1>1, <1>2, <1>4, <1>5, <2>1
<1>11. \A r \in Releasers : releaser'[r].pc = "read" =>
          releaser'[r].row \in DOMAIN splits' /\ splits'[releaser'[r].row].held
    BY <1>2, <1>8 DEF EscrowInvariant
<1>12. IsSequence(splits') /\ account'["RESERVE"] \in Int
    BY <1>1, <1>2, <1>3, <1>4, <1>6
<1> QED
    BY <1>2, <1>4, <1>7, <1>10, <1>11, <1>12 DEF EscrowInvariant

LEMMA ReleaseKeepsEscrow ==
    ASSUME EscrowInvariant, NEW r \in Releasers, CommitRelease(r)
    PROVE  EscrowInvariant'
<1>1. PICK m : m = releaser[r].row
    OBVIOUS
<1>2. /\ m \in DOMAIN splits /\ splits[m].held
    BY <1>1 DEF EscrowInvariant, CommitRelease
<1>3. /\ DOMAIN account = LedgerAccounts /\ account["RESERVE"] \in Int
      /\ IsSequence(splits) /\ \A n \in DOMAIN splits : RowOk(splits[n])
      /\ DOMAIN releaser = Releasers
    BY DEF EscrowInvariant
<1>4. /\ account' = moved(account, "RESERVE", "AVAILABLE", splits[m].cents)
      /\ splits' = [splits EXCEPT ![m].released = @ + 1, ![m].status = "SETTLED"]
      /\ releaser' = [releaser EXCEPT ![r] = Idle]
    BY <1>1 DEF CommitRelease
<1>5. splits[m].cents \in Nat /\ splits[m].released \in Nat
    BY <1>2, <1>3 DEF RowOk
<1>6. /\ DOMAIN account' = LedgerAccounts
      /\ account'["RESERVE"] = account["RESERVE"] - splits[m].cents
    BY <1>3, <1>4, <1>5 DEF moved, LedgerAccounts
<1>7. /\ DOMAIN splits' = DOMAIN splits
      /\ \A n \in DOMAIN splits \ {m} : splits'[n] = splits[n]
      /\ splits'[m] = [[splits[m] EXCEPT !.released = splits[m].released + 1]
                          EXCEPT !.status = "SETTLED"]
    BY <1>2, <1>4
<1>8. /\ splits'[m].cents = splits[m].cents /\ splits'[m].held = splits[m].held
      /\ splits'[m].status = "SETTLED" /\ splits'[m].released = splits[m].released + 1
    BY <1>7
<1>9. \A n \in DOMAIN splits' : RowOk(splits'[n])
    <2>1. RowOk(splits'[m])
        BY <1>5, <1>8 DEF RowOk
    <2> QED
        BY <1>3, <1>7, <2>1
<1>10. IsSequence(splits')
    <2>1. Len(splits) \in Nat /\ DOMAIN splits = 1..Len(splits)
        BY <1>3 DEF IsSequence
    <2>2. splits' = [n \in 1..Len(splits) |-> splits'[n]]
        BY <1>4, <1>7, <2>1
    <2>3. [n \in 1..Len(splits) |-> splits'[n]] \in Seq({splits'[n] : n \in 1..Len(splits)})
        BY <2>1
    <2> QED
        BY <2>2, <2>3, SequenceShape
<1>11. ReleasedOnce(splits') => account'["RESERVE"] = EscrowOf(splits')
    <2> SUFFICES ASSUME ReleasedOnce(splits') PROVE account'["RESERVE"] = EscrowOf(splits')
        OBVIOUS
    <2>1. splits[m].released = 0
        <3>1. splits'[m].released <= 1
            BY <1>2, <1>7 DEF ReleasedOnce
        <3> QED
            BY <1>5, <1>8, <3>1
    <2>2. splits[m].status = "PENDING"
        BY <1>2, <1>3, <2>1 DEF RowOk
    <2>3. ReleasedOnce(splits)
        BY <1>7, <2>1 DEF ReleasedOnce
    <2>4. account["RESERVE"] = EscrowOf(splits)
        BY <2>3 DEF EscrowInvariant
    <2>5. \A n \in DOMAIN splits : splits'[n].cents = splits[n].cents
        BY <1>7, <1>8
    <2>6. EscrowOf(splits') = EscrowOf(splits) - splits[m].cents
        <3>1. ReleasesRow(splits, splits', m)
            BY <1>2, <1>7, <1>8, <2>2, <2>5 DEF ReleasesRow
        <3> QED
            BY <1>3, <3>1, EscrowReleases
    <2> QED
        BY <1>6, <2>4, <2>6
<1>12. \A q \in Releasers : releaser'[q].pc = "read" =>
          releaser'[q].row \in DOMAIN splits' /\ splits'[releaser'[q].row].held
    <2>1. \A n \in DOMAIN splits : splits'[n].held = splits[n].held
        BY <1>7, <1>8
    <2>2. releaser'[r].pc = "idle" /\ \A q \in Releasers \ {r} : releaser'[q] = releaser[q]
        BY <1>3, <1>4 DEF Idle
    <2> QED
        BY <1>7, <2>1, <2>2 DEF EscrowInvariant
<1>13. account'["RESERVE"] \in Int /\ DOMAIN releaser' = Releasers
    BY <1>3, <1>4, <1>5, <1>6
<1> QED
    BY <1>6, <1>9, <1>10, <1>11, <1>12, <1>13 DEF EscrowInvariant

LEMMA StepEscrow == EscrowInvariant /\ [Next]_vars => EscrowInvariant'
<1> SUFFICES ASSUME EscrowInvariant, [Next]_vars PROVE EscrowInvariant'
    OBVIOUS
<1>1. CASE WalletNext /\ UNCHANGED splitVars
    <2>1. DOMAIN account' = LedgerAccounts /\ account'["RESERVE"] = account["RESERVE"]
        BY <1>1, WalletLeavesReserve DEF EscrowInvariant
    <2>2. splits' = splits /\ releaser' = releaser
        BY <1>1 DEF splitVars
    <2> QED
        BY <2>1, <2>2, EscrowKept DEF EscrowInvariant
<1>2. ASSUME NEW list \in Rules, NEW trigger \in TRIGGERS, NEW cents \in Amounts,
             NEW hold \in BOOLEAN, executeSplit(cents, list, trigger, hold)
      PROVE  EscrowInvariant'
    BY <1>2, ExecutionKeepsEscrow
<1>3. ASSUME NEW r \in Releasers, NEW n \in DOMAIN splits, ReadRelease(r, n)
      PROVE  EscrowInvariant'
    <2>1. /\ splits' = splits /\ account' = account
          /\ releaser' = [releaser EXCEPT ![r] = [pc |-> "read", row |-> n]]
          /\ splits[n].status = "PENDING"
        BY <1>3 DEF ReadRelease, walletVars, canTransition
    <2>2. splits[n].held
        BY <2>1 DEF EscrowInvariant, RowOk
    <2>3. /\ DOMAIN releaser' = Releasers
          /\ releaser'[r].row = n
          /\ \A q \in Releasers \ {r} : releaser'[q] = releaser[q]
        BY <2>1 DEF EscrowInvariant
    <2> QED
        BY <2>1, <2>2, <2>3, EscrowKept DEF EscrowInvariant
<1>4. ASSUME NEW r \in Releasers, CommitRelease(r) PROVE EscrowInvariant'
    BY <1>4, ReleaseKeepsEscrow
<1>5. ASSUME NEW r \in Releasers, AbortRelease(r) PROVE EscrowInvariant'
    <2>1. /\ splits' = splits /\ account' = account
          /\ releaser' = [releaser EXCEPT ![r] = Idle]
        BY <1>5 DEF AbortRelease, walletVars
    <2>2. /\ DOMAIN releaser' = Releasers /\ releaser'[r].pc = "idle"
          /\ \A q \in Releasers \ {r} : releaser'[q] = releaser[q]
        BY <2>1 DEF EscrowInvariant, Idle
    <2> QED
        BY <2>1, <2>2, EscrowKept DEF EscrowInvariant
<1>6. CASE UNCHANGED vars
    <2>1. splits' = splits /\ account' = account /\ releaser' = releaser
        BY <1>6 DEF vars, walletVars, splitVars
    <2> QED
        BY <2>1, EscrowKept DEF EscrowInvariant
<1> QED
    BY <1>1, <1>2, <1>3, <1>4, <1>5, <1>6 DEF Next

(***************************************************************************)
(* lib/splits-db.ts: as long as no share was released twice by overlapping *)
(* requests, RESERVE is what the PENDING shares add up to, for every rule, *)
(* trigger and number of executions and releases.                          *)
(***************************************************************************)
THEOREM EscrowIsCovered == Spec => []EscrowCoversPending
<1>1. EscrowInvariant => EscrowCoversPending
    BY DEF EscrowInvariant, EscrowCoversPending, Escrowed, EscrowOf, CentsOf, PendingOf,
           SumOver, ReleasedOnce
<1> QED
    BY <1>1, InitEscrow, StepEscrow, PTL DEF Spec
=============================================================================
