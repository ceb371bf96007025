----------------------------- MODULE MoneyProofs ----------------------------
(***************************************************************************)
(* Every balance of the ledger is a sum over a finite set of rows          *)
(* (getAccountBalance in lib/ledger-db.ts, the aggregates of               *)
(* lib/payout-db.ts and lib/statements.ts): SumFunctionOnSet of the        *)
(* community modules.  This module proves what the money theorems need of  *)
(* it.  SumFunctionOnSet(f, S) is the value at S of a function defined by  *)
(* recursion over the subsets of S; that such a function exists, and is    *)
(* the only one, is shown by taking a smallest subset that contradicts it. *)
(* On the sums rest the lemmas about a journal that grows, about credits   *)
(* taken first in first out (lib/payout.ts, lib/refund-db.ts) and about    *)
(* the shares of lib/splits.ts.                                            *)
(***************************************************************************)
EXTENDS Ledger, Pricing, FiniteSetTheorems, WellFoundedInduction, TLAPS

SumOver(f, S) == SumFunctionOnSet(f, S)

\* The element that the fold takes next.
Pick(s) == CHOOSE x \in s : TRUE

\* g adds up f over every subset of S.
Adds(f, S, g) ==
    g = [s \in SUBSET S |-> IF s = {} THEN 0 ELSE f[Pick(s)] + g[s \ {Pick(s)}]]

\* h is c times f on S, and f is at most g there.
Multiple(h, c, f, S) == \A x \in S : h[x] = c * f[x]

AtMost(f, g, S) == \A x \in S : f[x] <= g[x]

\* f has integer values on S.
IntegerOn(f, S) == \A x \in S : f[x] \in Int

-----------------------------------------------------------------------------
\* A non-empty family of subsets of a finite set has a minimal one.
LEMMA MinimalSubset ==
    ASSUME NEW S, IsFiniteSet(S), NEW F, F \subseteq SUBSET S, F # {}
    PROVE  \E t \in F : \A u \in SUBSET t : u # t => u \notin F
<1>1. IsWellFoundedOn(StrictSubsetOrdering(S), SUBSET S)
    BY FS_StrictSubsetOrderingWellFounded, FS_FiniteSubsetsOfFinite
<1>2. PICK t \in F : \A u \in F : ~ (<<u, t>> \in StrictSubsetOrdering(S))
    BY <1>1, WFMin
<1> QED
    BY <1>2 DEF StrictSubsetOrdering

(***************************************************************************)
(* Induction over the subsets of a finite set, of a family of subsets: it  *)
(* holds the empty set, and a set as soon as it holds what the set is      *)
(* without one of its elements.                                            *)
(***************************************************************************)
LEMMA SubsetInduction ==
    ASSUME NEW S, IsFiniteSet(S), NEW G,
           {} \in G,
           \A t \in SUBSET S : \A x \in t : t \ {x} \in G => t \in G
    PROVE  S \in G
<1> DEFINE F == (SUBSET S) \ G
<1> SUFFICES ASSUME F # {} PROVE FALSE
    BY S \in SUBSET S
<1>1. PICK t \in F : \A u \in SUBSET t : u # t => u \notin F
    <2>1. F \subseteq SUBSET S
        OBVIOUS
    <2> HIDE DEF F
    <2> QED
        BY <2>1, MinimalSubset
<1>2. t \in SUBSET S /\ t # {}
    OBVIOUS
<1>3. PICK x : x \in t
    BY <1>2
<1>4. t \ {x} \in SUBSET t /\ t \ {x} # t
    BY <1>3
<1>5. t \ {x} \in G
    BY <1>1, <1>2, <1>4
<1> QED
    BY <1>2, <1>3, <1>5

LEMMA PickIsMember == ASSUME NEW s, s # {} PROVE Pick(s) \in s
BY DEF Pick

\* What Adds says of one subset.
LEMMA AddsUnfolds ==
    ASSUME NEW f, NEW S, NEW g, Adds(f, S, g), NEW s \in SUBSET S
    PROVE  g[s] = IF s = {} THEN 0 ELSE f[Pick(s)] + g[s \ {Pick(s)}]
BY DEF Adds

LEMMA AddsIsUnique ==
    ASSUME NEW f, NEW S, IsFiniteSet(S), NEW g, NEW h, Adds(f, S, g), Adds(f, S, h)
    PROVE  \A s \in SUBSET S : g[s] = h[s]
<1> DEFINE F == {s \in SUBSET S : g[s] # h[s]}
<1> SUFFICES ASSUME F # {} PROVE FALSE
    OBVIOUS
<1>1. PICK t \in F : \A u \in SUBSET t : u # t => u \notin F
    <2>1. F \subseteq SUBSET S
        OBVIOUS
    <2> HIDE DEF F
    <2> QED
        BY <2>1, MinimalSubset
<1>2. t \in SUBSET S /\ g[t] # h[t]
    OBVIOUS
<1>3. t # {}
    BY <1>2, AddsUnfolds
<1>4. Pick(t) \in t
    BY <1>3, PickIsMember
<1>5. g[t \ {Pick(t)}] = h[t \ {Pick(t)}]
    BY <1>1, <1>2, <1>4
<1> QED
    BY <1>2, <1>3, <1>5, AddsUnfolds

LEMMA AddsRestricts ==
    ASSUME NEW f, NEW S, NEW g, Adds(f, S, g), NEW T \in SUBSET S
    PROVE  Adds(f, T, [s \in SUBSET T |-> g[s]])
<1> DEFINE h == [s \in SUBSET T |-> g[s]]
<1>1. ASSUME NEW s \in SUBSET T
      PROVE  h[s] = IF s = {} THEN 0 ELSE f[Pick(s)] + h[s \ {Pick(s)}]
    BY AddsUnfolds, s \ {Pick(s)} \in SUBSET T
<1> QED
    BY <1>1 DEF Adds

LEMMA AdderExists ==
    ASSUME NEW f, NEW S, IsFiniteSet(S)
    PROVE  \E g : Adds(f, S, g)
<1> DEFINE F == {s \in SUBSET S : ~ \E g : Adds(f, s, g)}
<1> SUFFICES ASSUME F # {} PROVE FALSE
    OBVIOUS
<1>1. PICK t \in F : \A u \in SUBSET t : u # t => u \notin F
    <2>1. F \subseteq SUBSET S
        OBVIOUS
    <2> HIDE DEF F
    <2> QED
        BY <2>1, MinimalSubset
<1>2. t \in SUBSET S /\ ~ \E g : Adds(f, t, g)
    OBVIOUS
<1>3. ASSUME NEW u \in SUBSET t, u # t PROVE \E g : Adds(f, u, g)
    BY <1>1, <1>2, <1>3
<1> HIDE DEF F
<1> DEFINE adder(u) == CHOOSE g : Adds(f, u, g)
           value(u) == adder(u)[u]
           whole    == [s \in SUBSET t |-> IF s = {} THEN 0
                                           ELSE f[Pick(s)] + value(s \ {Pick(s)})]
<1>4. ASSUME NEW u \in SUBSET t, u # t PROVE Adds(f, u, adder(u))
    BY <1>3, <1>4
<1>5. ASSUME NEW u \in SUBSET t, u # t, NEW v \in SUBSET u PROVE adder(u)[v] = value(v)
    <2>1. v \in SUBSET t /\ v # t
        BY <1>5
    <2>2. Adds(f, u, adder(u)) /\ Adds(f, v, adder(v))
        BY <1>4, <1>5, <2>1
    <2> DEFINE a == adder(u)
               b == adder(v)
    <2> HIDE DEF adder
    <2>3. Adds(f, v, [s \in SUBSET v |-> a[s]])
        BY <2>2, AddsRestricts
    <2>4. IsFiniteSet(v)
        BY <1>2, <2>1, FS_Subset
    <2>5. [s \in SUBSET v |-> a[s]][v] = b[v]
        BY <2>2, <2>3, <2>4, AddsIsUnique
    <2> QED
        BY <2>5
<1>6. ASSUME NEW u \in SUBSET t, u # t PROVE whole[u] = value(u)
    <2>1. value(u) = IF u = {} THEN 0 ELSE f[Pick(u)] + adder(u)[u \ {Pick(u)}]
        <3>1. Adds(f, u, adder(u)) /\ u \in SUBSET u
            BY <1>4, <1>6
        <3> HIDE DEF adder
        <3> QED
            BY <3>1, AddsUnfolds
    <2>2. adder(u)[u \ {Pick(u)}] = value(u \ {Pick(u)})
        BY <1>5, <1>6
    <2> HIDE DEF value, adder
    <2> QED
        BY <2>1, <2>2
<1>7. ASSUME NEW s \in SUBSET t, s # {}
      PROVE  whole[s \ {Pick(s)}] = value(s \ {Pick(s)})
    <2>1. Pick(s) \in s
        BY <1>7, PickIsMember
    <2> HIDE DEF value, whole
    <2> QED
        BY <1>6, <1>7, <2>1
<1>8. Adds(f, t, whole)
    <2> HIDE DEF value
    <2>1. whole = [s \in SUBSET t |-> IF s = {} THEN 0
                                      ELSE f[Pick(s)] + whole[s \ {Pick(s)}]]
        BY <1>7
    <2> QED
        BY <2>1 DEF Adds
<1> QED
    BY <1>2, <1>8

LEMMA SumIsAdder ==
    ASSUME NEW f, NEW S
    PROVE  SumOver(f, S) = (CHOOSE g : Adds(f, S, g))[S]
BY DEF SumOver, SumFunctionOnSet, FoldFunctionOnSet, MapThenFoldSet, Adds, Pick

\* The sum, by any function that adds up f.
LEMMA SumByAdder ==
    ASSUME NEW f, NEW S, IsFiniteSet(S), NEW g, Adds(f, S, g), NEW T \in SUBSET S
    PROVE  SumOver(f, T) = g[T]
<1>1. Adds(f, T, [s \in SUBSET T |-> g[s]])
    BY AddsRestricts
<1>2. Adds(f, T, CHOOSE h : Adds(f, T, h))
    BY <1>1
<1>3. IsFiniteSet(T)
    BY FS_Subset
<1> DEFINE h == CHOOSE h : Adds(f, T, h)
<1> HIDE DEF h
<1>4. h[T] = [s \in SUBSET T |-> g[s]][T]
    BY <1>1, <1>2, <1>3, AddsIsUnique DEF h
<1> QED
    BY <1>4, SumIsAdder DEF h

-----------------------------------------------------------------------------
LEMMA SumEmpty == ASSUME NEW f PROVE SumOver(f, {}) = 0
<1>1. PICK g : Adds(f, {}, g)
    BY AdderExists, FS_EmptySet
<1> QED
    BY <1>1, SumByAdder, AddsUnfolds, FS_EmptySet

LEMMA SumUnfolds ==
    ASSUME NEW f, NEW S, IsFiniteSet(S), S # {}
    PROVE  SumOver(f, S) = f[Pick(S)] + SumOver(f, S \ {Pick(S)})
<1>1. PICK g : Adds(f, S, g)
    BY AdderExists
<1>2. SumOver(f, S) = g[S] /\ SumOver(f, S \ {Pick(S)}) = g[S \ {Pick(S)}]
    BY <1>1, SumByAdder
<1> QED
    BY <1>1, <1>2, AddsUnfolds

LEMMA SumIsInteger ==
    ASSUME NEW f, NEW S, IsFiniteSet(S), IntegerOn(f, S)
    PROVE  SumOver(f, S) \in Int
<1> DEFINE F == {s \in SUBSET S : SumOver(f, s) \notin Int}
<1> SUFFICES ASSUME F # {} PROVE FALSE
    OBVIOUS
<1>1. PICK t \in F : \A u \in SUBSET t : u # t => u \notin F
    <2>1. F \subseteq SUBSET S
        OBVIOUS
    <2> HIDE DEF F
    <2> QED
        BY <2>1, MinimalSubset
<1>2. t \in SUBSET S /\ SumOver(f, t) \notin Int /\ IsFiniteSet(t)
    BY FS_Subset
<1>3. t # {}
    BY <1>2, SumEmpty
<1>4. Pick(t) \in t
    BY <1>3, PickIsMember
<1>5. SumOver(f, t \ {Pick(t)}) \in Int
    BY <1>1, <1>2, <1>4
<1>6. f[Pick(t)] \in Int
    BY <1>2, <1>4 DEF IntegerOn
<1> QED
    BY <1>2, <1>3, <1>5, <1>6, SumUnfolds

\* The order of the rows plays no part.
LEMMA SumRemove ==
    ASSUME NEW f, NEW S, IsFiniteSet(S), IntegerOn(f, S), NEW x \in S
    PROVE  SumOver(f, S) = f[x] + SumOver(f, S \ {x})
<1> DEFINE F == {s \in SUBSET S : \E y \in s : SumOver(f, s) # f[y] + SumOver(f, s \ {y})}
<1> SUFFICES ASSUME F # {} PROVE FALSE
    OBVIOUS
<1>1. PICK t \in F : \A u \in SUBSET t : u # t => u \notin F
    <2>1. F \subseteq SUBSET S
        OBVIOUS
    <2> HIDE DEF F
    <2> QED
        BY <2>1, MinimalSubset
<1>2. t \in SUBSET S /\ IsFiniteSet(t) /\ IntegerOn(f, t)
    BY FS_Subset DEF IntegerOn
<1>3. PICK y \in t : SumOver(f, t) # f[y] + SumOver(f, t \ {y})
    OBVIOUS
<1> DEFINE z == Pick(t)
<1>4. z \in t
    BY <1>3, PickIsMember
<1>5. SumOver(f, t) = f[z] + SumOver(f, t \ {z})
    BY <1>2, <1>3, SumUnfolds
<1> HIDE DEF z
<1>6. z # y
    BY <1>3, <1>5
<1>7. SumOver(f, t \ {z}) = f[y] + SumOver(f, (t \ {z}) \ {y})
    <2>1. t \ {z} \in SUBSET S /\ y \in t \ {z} /\ t \ {z} \notin F
        BY <1>1, <1>2, <1>3, <1>4, <1>6
    <2> QED
        BY <2>1
<1>8. SumOver(f, t \ {y}) = f[z] + SumOver(f, (t \ {y}) \ {z})
    <2>1. t \ {y} \in SUBSET S /\ z \in t \ {y} /\ t \ {y} \notin F
        BY <1>1, <1>2, <1>3, <1>4, <1>6
    <2> QED
        BY <2>1
<1>9. (t \ {z}) \ {y} = (t \ {y}) \ {z}
    OBVIOUS
<1> DEFINE rest == SumOver(f, (t \ {y}) \ {z})
<1>10. rest \in Int
    <2>1. IsFiniteSet((t \ {y}) \ {z}) /\ IntegerOn(f, (t \ {y}) \ {z})
        BY <1>2, FS_RemoveElement DEF IntegerOn
    <2> QED
        BY <2>1, SumIsInteger
<1>11. f[y] \in Int /\ f[z] \in Int
    BY <1>2, <1>4 DEF IntegerOn
<1>12. SumOver(f, t) = f[z] + (f[y] + rest) /\ SumOver(f, t \ {y}) = f[z] + rest
    BY <1>5, <1>7, <1>8, <1>9
<1> HIDE DEF rest
<1> QED
    BY <1>3, <1>10, <1>11, <1>12

LEMMA SumAdd ==
    ASSUME NEW f, NEW S, IsFiniteSet(S), NEW x, x \notin S, IntegerOn(f, S \cup {x})
    PROVE  SumOver(f, S \cup {x}) = SumOver(f, S) + f[x]
<1>1. IsFiniteSet(S \cup {x}) /\ (S \cup {x}) \ {x} = S
    BY FS_AddElement
<1>2. SumOver(f, S \cup {x}) = f[x] + SumOver(f, S)
    BY <1>1, SumRemove, x \in S \cup {x}
<1>3. SumOver(f, S) \in Int /\ f[x] \in Int
    BY SumIsInteger DEF IntegerOn
<1> QED
    BY <1>2, <1>3

\* Only the values on the set count.
LEMMA SumCongruent ==
    ASSUME NEW f, NEW g, NEW S, IsFiniteSet(S), \A x \in S : f[x] = g[x]
    PROVE  SumOver(f, S) = SumOver(g, S)
<1> DEFINE F == {s \in SUBSET S : SumOver(f, s) # SumOver(g, s)}
<1> SUFFICES ASSUME F # {} PROVE FALSE
    OBVIOUS
<1>1. PICK t \in F : \A u \in SUBSET t : u # t => u \notin F
    <2>1. F \subseteq SUBSET S
        OBVIOUS
    <2> HIDE DEF F
    <2> QED
        BY <2>1, MinimalSubset
<1>2. t \in SUBSET S /\ SumOver(f, t) # SumOver(g, t) /\ IsFiniteSet(t)
    BY FS_Subset
<1>3. t # {}
    BY <1>2, SumEmpty
<1>4. Pick(t) \in t
    BY <1>3, PickIsMember
<1>5. SumOver(f, t \ {Pick(t)}) = SumOver(g, t \ {Pick(t)})
    BY <1>1, <1>2, <1>4
<1>6. f[Pick(t)] = g[Pick(t)]
    BY <1>2, <1>4
<1> QED
    BY <1>2, <1>3, <1>5, <1>6, SumUnfolds

\* One step of the inductions below: the sum over a subset, by one of its elements.
StepsOf(f, S) ==
    \A t \in SUBSET S : \A x \in t :
        /\ SumOver(f, t) = f[x] + SumOver(f, t \ {x})
        /\ f[x] \in Int /\ SumOver(f, t) \in Int /\ SumOver(f, t \ {x}) \in Int

LEMMA SumStep ==
    ASSUME NEW f, NEW S, IsFiniteSet(S), IntegerOn(f, S)
    PROVE  StepsOf(f, S)
<1> SUFFICES ASSUME NEW t \in SUBSET S, NEW x \in t
             PROVE  /\ SumOver(f, t) = f[x] + SumOver(f, t \ {x})
                    /\ f[x] \in Int /\ SumOver(f, t) \in Int
                    /\ SumOver(f, t \ {x}) \in Int
    BY DEF StepsOf
<1>1. IsFiniteSet(t) /\ IntegerOn(f, t)
    BY FS_Subset DEF IntegerOn
<1>2. IsFiniteSet(t \ {x}) /\ IntegerOn(f, t \ {x})
    BY <1>1, FS_RemoveElement DEF IntegerOn
<1>3. f[x] \in Int
    BY <1>1 DEF IntegerOn
<1> QED
    BY <1>1, <1>2, <1>3, SumRemove, SumIsInteger

LEMMA SumDisjointUnion ==
    ASSUME NEW f, NEW S, NEW T, IsFiniteSet(S), IsFiniteSet(T), S \cap T = {},
           IntegerOn(f, S \cup T)
    PROVE  SumOver(f, S \cup T) = SumOver(f, S) + SumOver(f, T)
<1> DEFINE G == {s \in SUBSET T : SumOver(f, S \cup s) = SumOver(f, S) + SumOver(f, s)}
<1>0. /\ IntegerOn(f, S) /\ IntegerOn(f, T) /\ IsFiniteSet(S \cup T)
    BY FS_Union DEF IntegerOn
<1>4. SumOver(f, S) \in Int /\ StepsOf(f, T) /\ StepsOf(f, S \cup T)
    BY <1>0, SumIsInteger, SumStep
<1>1. {} \in G
    <2>1. S \cup {} = S /\ SumOver(f, {}) = 0
        BY SumEmpty
    <2>2. SumOver(f, S) = SumOver(f, S) + 0
        BY <1>4
    <2> QED
        BY <2>1, <2>2
<1>2. ASSUME NEW t \in SUBSET T, NEW x \in t, t \ {x} \in G PROVE t \in G
    <2>1. SumOver(f, S \cup (t \ {x})) = SumOver(f, S) + SumOver(f, t \ {x})
        BY <1>2
    <2>2. /\ SumOver(f, t) = f[x] + SumOver(f, t \ {x})
          /\ f[x] \in Int /\ SumOver(f, t \ {x}) \in Int
        BY <1>4 DEF StepsOf
    <2>3. /\ S \cup t \in SUBSET (S \cup T) /\ x \in S \cup t
          /\ (S \cup t) \ {x} = S \cup (t \ {x})
        OBVIOUS
    <2>4. SumOver(f, S \cup t) = f[x] + SumOver(f, (S \cup t) \ {x})
        BY <1>4, <2>3 DEF StepsOf
    <2>5. SumOver(f, S \cup t) = SumOver(f, S) + SumOver(f, t)
        <3> DEFINE a == SumOver(f, S)
                   b == SumOver(f, t \ {x})
                   c == f[x]
        <3>1. a \in Int /\ b \in Int /\ c \in Int
            BY <1>4, <2>2
        <3>2. SumOver(f, S \cup t) = c + (a + b) /\ SumOver(f, t) = c + b
            BY <2>1, <2>2, <2>3, <2>4
        <3> HIDE DEF a, b, c
        <3>3. c + (a + b) = a + (c + b)
            BY <3>1
        <3> QED
            BY <3>2, <3>3 DEF a
    <2> QED
        BY <2>5
<1>3. T \in G
    <2>1. \A t \in SUBSET T : \A x \in t : t \ {x} \in G => t \in G
        BY <1>2
    <2> HIDE DEF G
    <2> QED
        BY <1>1, <2>1, SubsetInduction
<1> QED
    BY <1>3

\* Sums add up, argument by argument.
LEMMA SumPlus ==
    ASSUME NEW f, NEW g, NEW h, NEW S, IsFiniteSet(S), IntegerOn(f, S), IntegerOn(g, S),
           \A x \in S : h[x] = f[x] + g[x]
    PROVE  SumOver(h, S) = SumOver(f, S) + SumOver(g, S)
<1> DEFINE G == {s \in SUBSET S : SumOver(h, s) = SumOver(f, s) + SumOver(g, s)}
<1>0. IntegerOn(h, S) /\ StepsOf(h, S) /\ StepsOf(f, S) /\ StepsOf(g, S)
    BY SumStep DEF IntegerOn
<1>1. {} \in G
    BY SumEmpty
<1>2. ASSUME NEW t \in SUBSET S, NEW x \in t, t \ {x} \in G PROVE t \in G
    <2>1. SumOver(h, t \ {x}) = SumOver(f, t \ {x}) + SumOver(g, t \ {x})
        BY <1>2
    <2>2. h[x] = f[x] + g[x]
        OBVIOUS
    <2>3. /\ SumOver(f, t) = f[x] + SumOver(f, t \ {x})
          /\ f[x] \in Int /\ SumOver(f, t \ {x}) \in Int
        BY <1>0 DEF StepsOf
    <2>4. /\ SumOver(g, t) = g[x] + SumOver(g, t \ {x})
          /\ g[x] \in Int /\ SumOver(g, t \ {x}) \in Int
        BY <1>0 DEF StepsOf
    <2>5. SumOver(h, t) = h[x] + SumOver(h, t \ {x})
        BY <1>0 DEF StepsOf
    <2>6. SumOver(h, t) = SumOver(f, t) + SumOver(g, t)
        BY <2>1, <2>2, <2>3, <2>4, <2>5
    <2> QED
        BY <2>6
<1>3. S \in G
    <2>1. \A t \in SUBSET S : \A x \in t : t \ {x} \in G => t \in G
        BY <1>2
    <2> HIDE DEF G
    <2> QED
        BY <1>1, <2>1, SubsetInduction
<1> QED
    BY <1>3

\* A common factor comes out of a sum.
LEMMA SumScale ==
    ASSUME NEW f, NEW h, NEW S, IsFiniteSet(S), IntegerOn(f, S), NEW c \in Int,
           Multiple(h, c, f, S)
    PROVE  SumOver(h, S) = c * SumOver(f, S)
<1> DEFINE G == {s \in SUBSET S : SumOver(h, s) = c * SumOver(f, s)}
<1>0. StepsOf(f, S) /\ StepsOf(h, S)
    <2>1. IntegerOn(h, S)
        BY DEF IntegerOn, Multiple
    <2> QED
        BY <2>1, SumStep
<1>1. {} \in G
    BY SumEmpty
<1>2. ASSUME NEW t \in SUBSET S, NEW x \in t, t \ {x} \in G PROVE t \in G
    <2>1. SumOver(h, t \ {x}) = c * SumOver(f, t \ {x})
        BY <1>2
    <2>2. h[x] = c * f[x]
        BY DEF Multiple
    <2>3. /\ SumOver(f, t) = f[x] + SumOver(f, t \ {x})
          /\ f[x] \in Int /\ SumOver(f, t \ {x}) \in Int
        BY <1>0 DEF StepsOf
    <2>4. SumOver(h, t) = h[x] + SumOver(h, t \ {x})
        BY <1>0 DEF StepsOf
    <2>5. \A a, b \in Int : c * (a + b) = c * a + c * b
        OBVIOUS
    <2>6. SumOver(h, t) = c * SumOver(f, t)
        BY <2>1, <2>2, <2>3, <2>4, <2>5
    <2> QED
        BY <2>6
<1>3. S \in G
    <2>1. \A t \in SUBSET S : \A x \in t : t \ {x} \in G => t \in G
        BY <1>2
    <2> HIDE DEF G
    <2> QED
        BY <1>1, <2>1, SubsetInduction
<1> QED
    BY <1>3

\* A sum of smaller values is smaller.
LEMMA SumMonotone ==
    ASSUME NEW f, NEW g, NEW S, IsFiniteSet(S), IntegerOn(f, S), IntegerOn(g, S),
           AtMost(f, g, S)
    PROVE  SumOver(f, S) <= SumOver(g, S)
<1> DEFINE G == {s \in SUBSET S : SumOver(f, s) <= SumOver(g, s)}
<1>0. StepsOf(f, S) /\ StepsOf(g, S)
    BY SumStep
<1>1. {} \in G
    BY SumEmpty
<1>2. ASSUME NEW t \in SUBSET S, NEW x \in t, t \ {x} \in G PROVE t \in G
    <2>1. SumOver(f, t \ {x}) <= SumOver(g, t \ {x})
        BY <1>2
    <2>2. f[x] <= g[x]
        BY DEF AtMost
    <2>3. /\ SumOver(f, t) = f[x] + SumOver(f, t \ {x})
          /\ f[x] \in Int /\ SumOver(f, t \ {x}) \in Int
        BY <1>0 DEF StepsOf
    <2>4. /\ SumOver(g, t) = g[x] + SumOver(g, t \ {x})
          /\ g[x] \in Int /\ SumOver(g, t \ {x}) \in Int
        BY <1>0 DEF StepsOf
    <2>5. SumOver(f, t) <= SumOver(g, t)
        BY <2>1, <2>2, <2>3, <2>4
    <2> QED
        BY <2>5
<1>3. S \in G
    <2>1. \A t \in SUBSET S : \A x \in t : t \ {x} \in G => t \in G
        BY <1>2
    <2> HIDE DEF G
    <2> QED
        BY <1>1, <2>1, SubsetInduction
<1> QED
    BY <1>3

\* A sum of one value, over and over.
LEMMA SumConstant ==
    ASSUME NEW f, NEW S, IsFiniteSet(S), NEW c \in Int, \A x \in S : f[x] = c
    PROVE  SumOver(f, S) = c * Cardinality(S)
<1> DEFINE G == {s \in SUBSET S : SumOver(f, s) = c * Cardinality(s)}
<1>0. StepsOf(f, S)
    BY SumStep DEF IntegerOn
<1>1. {} \in G
    BY SumEmpty, FS_EmptySet
<1>2. ASSUME NEW t \in SUBSET S, NEW x \in t, t \ {x} \in G PROVE t \in G
    <2>1. SumOver(f, t \ {x}) = c * Cardinality(t \ {x})
        BY <1>2
    <2>2. IsFiniteSet(t) /\ IsFiniteSet(t \ {x})
        BY FS_Subset
    <2>3. Cardinality(t) \in Nat /\ Cardinality(t \ {x}) = Cardinality(t) - 1
        BY <2>2, FS_RemoveElement, FS_CardinalityType
    <2>4. SumOver(f, t) = c + SumOver(f, t \ {x})
        BY <1>0 DEF StepsOf
    <2>5. \A a \in Int : c + c * (a - 1) = c * a
        OBVIOUS
    <2>6. SumOver(f, t) = c * Cardinality(t)
        BY <2>1, <2>3, <2>4, <2>5
    <2> QED
        BY <2>6
<1>3. S \in G
    <2>1. \A t \in SUBSET S : \A x \in t : t \ {x} \in G => t \in G
        BY <1>2
    <2> HIDE DEF G
    <2> QED
        BY <1>1, <2>1, SubsetInduction
<1> QED
    BY <1>3

LEMMA SumZero ==
    ASSUME NEW f, NEW S, IsFiniteSet(S), \A x \in S : f[x] = 0
    PROVE  SumOver(f, S) = 0
<1>1. SumOver(f, S) = 0 * Cardinality(S) /\ Cardinality(S) \in Nat
    BY SumConstant, FS_CardinalityType
<1> QED
    BY <1>1

\* What is taken out adds up to the amounts, negated.
LEMMA SumNegated ==
    ASSUME NEW f, NEW h, NEW S, IsFiniteSet(S), IntegerOn(f, S), \A x \in S : h[x] = -f[x]
    PROVE  SumOver(h, S) = -SumOver(f, S)
<1> DEFINE zero == [x \in S |-> 0]
<1>1. IntegerOn(h, S) /\ \A x \in S : zero[x] = f[x] + h[x]
    BY DEF IntegerOn
<1>2. \A x \in S : zero[x] = 0
    OBVIOUS
<1> HIDE DEF zero
<1>3. SumOver(zero, S) = SumOver(f, S) + SumOver(h, S) /\ SumOver(zero, S) = 0
    BY <1>1, <1>2, SumPlus, SumZero
<1>4. SumOver(f, S) \in Int /\ SumOver(h, S) \in Int
    BY <1>1, SumIsInteger
<1> QED
    BY <1>3, <1>4

\* Amounts add up to an amount, no smaller than any of them.
LEMMA SumOfAmounts ==
    ASSUME NEW f, NEW S, IsFiniteSet(S), \A x \in S : f[x] \in Nat
    PROVE  /\ SumOver(f, S) \in Nat
           /\ \A x \in S : f[x] <= SumOver(f, S)
           /\ \A t \in SUBSET S : SumOver(f, t) \in Nat /\ SumOver(f, t) <= SumOver(f, S)
<1> DEFINE zero == [x \in S |-> 0]
<1>1. ASSUME NEW t \in SUBSET S PROVE SumOver(f, t) \in Nat
    <2>1. IsFiniteSet(t) /\ IntegerOn(f, t) /\ IntegerOn(zero, t)
        BY FS_Subset DEF IntegerOn
    <2>2. SumOver(zero, t) <= SumOver(f, t) /\ SumOver(zero, t) = 0 /\ SumOver(f, t) \in Int
        <3>1. \A x \in t : zero[x] = 0 /\ zero[x] <= f[x]
            OBVIOUS
        <3> HIDE DEF zero
        <3> QED
            BY <2>1, <3>1, SumMonotone, SumZero, SumIsInteger DEF AtMost
    <2> QED
        BY <2>2
<1>2. ASSUME NEW t \in SUBSET S PROVE SumOver(f, t) <= SumOver(f, S)
    <2>1. IsFiniteSet(t) /\ IsFiniteSet(S \ t) /\ t \cup (S \ t) = S /\ t \cap (S \ t) = {}
        BY FS_Subset
    <2>2. IntegerOn(f, S)
        BY DEF IntegerOn
    <2>3. SumOver(f, S) = SumOver(f, t) + SumOver(f, S \ t)
        BY <2>1, <2>2, SumDisjointUnion
    <2>4. SumOver(f, t) \in Nat /\ SumOver(f, S \ t) \in Nat
        BY <1>1
    <2> QED
        BY <2>3, <2>4
<1>3. ASSUME NEW x \in S PROVE f[x] <= SumOver(f, S)
    <2>1. IntegerOn(f, S)
        BY DEF IntegerOn
    <2>2. SumOver(f, S) = f[x] + SumOver(f, S \ {x}) /\ f[x] \in Int
        BY <2>1, SumStep, S \in SUBSET S DEF StepsOf
    <2>3. SumOver(f, S \ {x}) \in Nat
        BY <1>1
    <2> QED
        BY <2>2, <2>3
<1> QED
    BY <1>1, <1>2, <1>3

\* Rows that do not count can be left out.
LEMMA SumSupport ==
    ASSUME NEW f, NEW S, IsFiniteSet(S), NEW T \in SUBSET S, IntegerOn(f, T),
           \A x \in S \ T : f[x] = 0
    PROVE  SumOver(f, S) = SumOver(f, T)
<1>1. IsFiniteSet(T) /\ IsFiniteSet(S \ T) /\ T \cup (S \ T) = S /\ T \cap (S \ T) = {}
    BY FS_Subset
<1>2. IntegerOn(f, S)
    BY DEF IntegerOn
<1>3. SumOver(f, S) = SumOver(f, T) + SumOver(f, S \ T)
    BY <1>1, <1>2, SumDisjointUnion
<1>4. SumOver(f, S \ T) = 0
    BY <1>1, SumZero
<1>5. SumOver(f, T) \in Int
    BY <1>1, SumIsInteger
<1> QED
    BY <1>3, <1>4, <1>5

LEMMA SumSingleton ==
    ASSUME NEW f, NEW x, f[x] \in Int
    PROVE  SumOver(f, {x}) = f[x]
<1>1. {} \cup {x} = {x} /\ x \notin {} /\ IsFiniteSet({})
    BY FS_EmptySet
<1>2. SumOver(f, {} \cup {x}) = SumOver(f, {}) + f[x]
    BY <1>1, SumAdd DEF IntegerOn
<1> QED
    BY <1>1, <1>2, SumEmpty

\* The image of a finite set.
LEMMA ImageIsFinite ==
    ASSUME NEW S, IsFiniteSet(S), NEW b
    PROVE  IsFiniteSet({b[x] : x \in S})
<1> DEFINE T == {b[x] : x \in S}
           c == [x \in S |-> b[x]]
<1>1. c \in Surjection(S, T)
    BY DEF Surjection
<1> HIDE DEF c, T
<1>2. IsFiniteSet(T)
    BY <1>1, FS_Surjection
<1> QED
    BY <1>2 DEF T

\* Renaming the rows one to one keeps the sum.
LEMMA SumRenamed ==
    ASSUME NEW f, NEW g, NEW S, NEW T, NEW b, IsFiniteSet(S), IntegerOn(f, S),
           \A x \in S : b[x] \in T /\ f[x] = g[b[x]],
           \A x, y \in S : b[x] = b[y] => x = y,
           \A y \in T : \E x \in S : b[x] = y
    PROVE  SumOver(f, S) = SumOver(g, T)
<1> DEFINE image(s) == {b[x] : x \in s}
           G == {s \in SUBSET S : SumOver(f, s) = SumOver(g, image(s))}
<1>0. StepsOf(f, S)
    BY SumStep
<1>1. {} \in G
    BY SumEmpty
<1>2. ASSUME NEW t \in SUBSET S, NEW x \in t, t \ {x} \in G PROVE t \in G
    <2>1. SumOver(f, t \ {x}) = SumOver(g, image(t \ {x}))
        BY <1>2
    <2>2. SumOver(f, t) = f[x] + SumOver(f, t \ {x})
        BY <1>0 DEF StepsOf
    <2>3. IsFiniteSet(image(t))
        <3>1. IsFiniteSet(t)
            BY FS_Subset
        <3> QED
            BY <3>1, ImageIsFinite
    <2>4. b[x] \in image(t) /\ image(t) \ {b[x]} = image(t \ {x}) /\ f[x] = g[b[x]]
        OBVIOUS
    <2>5. IntegerOn(g, image(t))
        <3> SUFFICES ASSUME NEW y \in t PROVE g[b[y]] \in Int
            BY DEF IntegerOn
        <3>1. f[y] \in Int /\ f[y] = g[b[y]]
            BY DEF IntegerOn
        <3> QED
            BY <3>1
    <2> HIDE DEF image
    <2>6. SumOver(g, image(t)) = g[b[x]] + SumOver(g, image(t) \ {b[x]})
        BY <2>3, <2>4, <2>5, SumRemove
    <2>7. SumOver(f, t) = SumOver(g, image(t))
        BY <2>1, <2>2, <2>4, <2>6
    <2> QED
        BY <2>7
<1>3. S \in G
    <2>1. \A t \in SUBSET S : \A x \in t : t \ {x} \in G => t \in G
        BY <1>2
    <2> HIDE DEF G
    <2> QED
        BY <1>1, <2>1, SubsetInduction
<1>4. image(S) = T
    OBVIOUS
<1> QED
    BY <1>3, <1>4

-----------------------------------------------------------------------------
(***************************************************************************)
(* Rows in an order.  The rank of a row is the number of rows before it.   *)
(***************************************************************************)
StrictOrder(R, S) ==
    /\ \A x \in S : <<x, x>> \notin R
    /\ \A x, y, z \in S : <<x, y>> \in R /\ <<y, z>> \in R => <<x, z>> \in R
    /\ \A x, y \in S : x # y => <<x, y>> \in R \/ <<y, x>> \in R

Before(R, S, x) == {y \in S : <<y, x>> \in R}

LEMMA RankGrows ==
    ASSUME NEW R, NEW S, IsFiniteSet(S), StrictOrder(R, S), NEW x \in S, NEW y \in S,
           <<x, y>> \in R
    PROVE  /\ Cardinality(Before(R, S, x)) \in Nat /\ Cardinality(Before(R, S, y)) \in Nat
           /\ Cardinality(Before(R, S, x)) < Cardinality(Before(R, S, y))
<1> DEFINE X == Before(R, S, x)
           Y == Before(R, S, y)
<1>1. X \in SUBSET Y /\ x \in Y /\ x \notin X /\ Y \in SUBSET S
    BY DEF Before, StrictOrder
<1> HIDE DEF X, Y
<1>2. IsFiniteSet(Y) /\ IsFiniteSet(X)
    BY <1>1, FS_Subset
<1>3. Cardinality(X) <= Cardinality(Y) /\ Cardinality(X) # Cardinality(Y)
    BY <1>1, <1>2, FS_Subset
<1>4. Cardinality(X) \in Nat /\ Cardinality(Y) \in Nat
    BY <1>2, FS_CardinalityType
<1> QED
    BY <1>3, <1>4 DEF X, Y

\* Ranks number the rows from 0, each number once.
LEMMA RanksAreNumbers ==
    ASSUME NEW R, NEW S, IsFiniteSet(S), StrictOrder(R, S)
    PROVE  /\ \A x \in S : Cardinality(Before(R, S, x)) \in 0..(Cardinality(S) - 1)
           /\ \A x, y \in S :
                 Cardinality(Before(R, S, x)) = Cardinality(Before(R, S, y)) => x = y
           /\ \A k \in 0..(Cardinality(S) - 1) :
                 \E x \in S : Cardinality(Before(R, S, x)) = k
<1> DEFINE rank == [x \in S |-> Cardinality(Before(R, S, x))]
           N == Cardinality(S)
<1>0. N \in Nat
    BY FS_CardinalityType
<1>1. ASSUME NEW x \in S PROVE rank[x] \in 0..(N - 1)
    <2> DEFINE X == Before(R, S, x)
    <2>1. X \in SUBSET S /\ x \notin X
        BY DEF Before, StrictOrder
    <2> HIDE DEF X
    <2>2. IsFiniteSet(X) /\ Cardinality(X) <= N /\ Cardinality(X) # N
        BY <2>1, FS_Subset
    <2>3. Cardinality(X) \in Nat
        BY <2>2, FS_CardinalityType
    <2>4. rank[x] = Cardinality(X)
        BY DEF X
    <2> HIDE DEF rank, N
    <2> QED
        BY <1>0, <2>2, <2>3, <2>4
<1>2. ASSUME NEW x \in S, NEW y \in S, rank[x] = rank[y] PROVE x = y
    <2>1. SUFFICES ASSUME x # y PROVE FALSE
        OBVIOUS
    <2>2. CASE <<x, y>> \in R
        BY <1>2, <2>2, RankGrows
    <2>3. CASE <<y, x>> \in R
        BY <1>2, <2>3, RankGrows
    <2> QED
        BY <2>1, <2>2, <2>3 DEF StrictOrder
<1> DEFINE T == 0..(N - 1)
<1>3. IsFiniteSet(T) /\ Cardinality(T) = N
    <2>1. 0 \in Int /\ N - 1 \in Int /\ (N - 1) - 0 + 1 = N
        BY <1>0
    <2>2. IsFiniteSet(T) /\ Cardinality(T) = IF 0 > N - 1 THEN 0 ELSE (N - 1) - 0 + 1
        <3> HIDE DEF N
        <3> QED
            BY <2>1, FS_Interval
    <2> HIDE DEF N, T
    <2> QED
        BY <1>0, <2>1, <2>2
<1>4. rank \in Injection(S, T)
    <2>1. rank \in [S -> T]
        <3>1. rank = [x \in S |-> rank[x]]
            OBVIOUS
        <3> HIDE DEF rank, T
        <3>2. \A x \in S : rank[x] \in T
            BY <1>1 DEF T
        <3> QED
            BY <3>1, <3>2
    <2> HIDE DEF rank, T
    <2> QED
        BY <1>2, <2>1 DEF Injection, IsInjective
<1>5. rank \in Surjection(S, T)
    <2> HIDE DEF rank, T
    <2> QED
        BY <1>3, <1>4, FS_Injection DEF N
<1>6. \A k \in T : \E x \in S : rank[x] = k
    <2> HIDE DEF rank, T
    <2> QED
        BY <1>5 DEF Surjection
<1> QED
    BY <1>1, <1>2, <1>6

(***************************************************************************)
(* InOrder, the ORDER BY of the ledger queries, lists the rows of a set,   *)
(* each of them once.                                                      *)
(***************************************************************************)
LEMMA InOrderListsAll ==
    ASSUME NEW S, IsFiniteSet(S), S \subseteq Int
    PROVE  /\ Cardinality(S) \in Nat
           /\ DOMAIN InOrder(S) = 1..Cardinality(S)
           /\ \A k \in 1..Cardinality(S) : InOrder(S)[k] \in S
           /\ \A k, l \in 1..Cardinality(S) : InOrder(S)[k] = InOrder(S)[l] => k = l
           /\ \A n \in S : \E k \in 1..Cardinality(S) : InOrder(S)[k] = n
<1> DEFINE R == {e \in S \X S : e[1] < e[2]}
           N == Cardinality(S)
           upTo(n) == {m \in S : m <= n}
<1>0. N \in Nat
    BY FS_CardinalityType
<1>1. StrictOrder(R, S)
    BY DEF StrictOrder
<1>2. ASSUME NEW n \in S
      PROVE  Cardinality(upTo(n)) = Cardinality(Before(R, S, n)) + 1
    <2>1. upTo(n) = Before(R, S, n) \cup {n} /\ n \notin Before(R, S, n)
        <3>1. Before(R, S, n) = {m \in S : m < n}
            BY DEF Before
        <3>2. \A m \in S : m <= n <=> m < n \/ m = n
            OBVIOUS
        <3>3. n \notin {m \in S : m < n}
            BY n \in Int
        <3>4. \A m : m \in upTo(n) <=> m \in {l \in S : l < n} \cup {n}
            BY <3>2
        <3>5. upTo(n) = {m \in S : m < n} \cup {n}
            BY <3>4
        <3> HIDE DEF R, upTo
        <3> QED
            BY <3>1, <3>3, <3>5
    <2>2. IsFiniteSet(Before(R, S, n))
        BY FS_Subset DEF Before
    <2> HIDE DEF upTo, R
    <2> QED
        BY <2>1, <2>2, FS_AddElement
<1> HIDE DEF R
<1>3. /\ \A n \in S : Cardinality(Before(R, S, n)) \in 0..(N - 1)
      /\ \A m, n \in S : Cardinality(Before(R, S, m)) = Cardinality(Before(R, S, n)) => m = n
      /\ \A k \in 0..(N - 1) : \E n \in S : Cardinality(Before(R, S, n)) = k
    BY <1>1, RanksAreNumbers
<1> HIDE DEF N, upTo
<1>4. ASSUME NEW n \in S PROVE Cardinality(upTo(n)) \in 1..N
    BY <1>0, <1>2, <1>3
<1>5. ASSUME NEW k \in 1..N PROVE \E n \in S : Cardinality(upTo(n)) = k
    <2>1. PICK n \in S : Cardinality(Before(R, S, n)) = k - 1
        <3>1. k - 1 \in 0..(N - 1)
            BY <1>0
        <3> QED
            BY <1>3, <3>1
    <2>2. Cardinality(upTo(n)) = k
        BY <1>2, <2>1
    <2> QED
        BY <2>2
<1>6. ASSUME NEW m \in S, NEW n \in S, Cardinality(upTo(m)) = Cardinality(upTo(n))
      PROVE  m = n
    BY <1>2, <1>3, <1>6
<1>7. InOrder(S) = [k \in 1..N |-> CHOOSE n \in S : Cardinality(upTo(n)) = k]
    BY DEF InOrder, N, upTo
<1>8. ASSUME NEW k \in 1..N
      PROVE  InOrder(S)[k] \in S /\ Cardinality(upTo(InOrder(S)[k])) = k
    BY <1>5, <1>7
<1>9. ASSUME NEW n \in S PROVE \E k \in 1..N : InOrder(S)[k] = n
    BY <1>4, <1>6, <1>8
<1> QED
    BY <1>0, <1>7, <1>8, <1>9 DEF N

-----------------------------------------------------------------------------
(***************************************************************************)
(* Sequences of postings, whatever their elements are.                     *)
(***************************************************************************)
IsSequence(s) == s \in Seq(Range(s))

\* The shape of a sequence.
LEMMA SequenceShape ==
    ASSUME NEW S, NEW s \in Seq(S)
    PROVE  /\ IsSequence(s)
           /\ Len(s) \in Nat
           /\ DOMAIN s = 1..Len(s)
<1>1. Len(s) \in Nat /\ DOMAIN s = 1..Len(s)
    OBVIOUS
<1>2. \A n \in 1..Len(s) : s[n] \in Range(s)
    BY <1>1 DEF Range
<1> QED
    BY <1>1, <1>2 DEF IsSequence

\* What postEntries makes of two sequences.
LEMMA AppendShape ==
    ASSUME NEW s, NEW t, IsSequence(s), IsSequence(t)
    PROVE  /\ IsSequence(s \o t)
           /\ Len(s) \in Nat /\ Len(t) \in Nat /\ Len(s \o t) = Len(s) + Len(t)
           /\ DOMAIN s = 1..Len(s) /\ DOMAIN t = 1..Len(t)
           /\ DOMAIN (s \o t) = 1..(Len(s) + Len(t))
           /\ \A n \in 1..Len(s) : (s \o t)[n] = s[n]
           /\ \A k \in 1..Len(t) : (s \o t)[Len(s) + k] = t[k]
<1> DEFINE S == Range(s) \cup Range(t)
<1>1. s \in Seq(S) /\ t \in Seq(S)
    BY DEF IsSequence
<1> HIDE DEF S
<1>2. s \o t \in Seq(S)
    BY <1>1
<1>3. IsSequence(s \o t)
    BY <1>2, SequenceShape
<1> QED
    BY <1>1, <1>2, <1>3

\* Every posting of a journal moves an integer number of centimes.
IntegerCents(s) == \A n \in DOMAIN s : s[n].cents \in Int

LEMMA DeltaIsInteger ==
    ASSUME NEW p, p.cents \in Int, NEW account
    PROVE  delta(p, account) \in Int
BY DEF delta

LEMMA BalanceIsInteger ==
    ASSUME NEW s, IsSequence(s), IntegerCents(s), NEW account, NEW N \in SUBSET DOMAIN s
    PROVE  balanceOver(s, account, N) \in Int /\ IsFiniteSet(N)
<1> DEFINE f == [n \in DOMAIN s |-> delta(s[n], account)]
<1>1. IsFiniteSet(DOMAIN s)
    BY FS_Interval, SequenceShape DEF IsSequence
<1>2. IsFiniteSet(N)
    BY <1>1, FS_Subset
<1>3. IntegerOn(f, N)
    BY DeltaIsInteger DEF IntegerOn, IntegerCents
<1>4. balanceOver(s, account, N) = SumOver(f, N)
    BY DEF balanceOver, SumOver
<1> HIDE DEF f
<1> QED
    BY <1>2, <1>3, <1>4, SumIsInteger

(***************************************************************************)
(* What a transaction posts adds to a balance and changes nothing of the   *)
(* postings before it: N are some postings of the journal, K some of the   *)
(* transaction.                                                            *)
(***************************************************************************)
LEMMA BalanceAppends ==
    ASSUME NEW s, NEW t, IsSequence(s), IsSequence(t), IntegerCents(s), IntegerCents(t),
           NEW account, NEW N \in SUBSET DOMAIN s, NEW K \in SUBSET DOMAIN t
    PROVE  balanceOver(s \o t, account, N \cup {Len(s) + k : k \in K})
              = balanceOver(s, account, N) + balanceOver(t, account, K)
<1> DEFINE j == s \o t
           f == [n \in DOMAIN s |-> delta(s[n], account)]
           g == [n \in DOMAIN t |-> delta(t[n], account)]
           h == [n \in DOMAIN j |-> delta(j[n], account)]
           M == {Len(s) + k : k \in K}
           b == [k \in K |-> Len(s) + k]
<1>1. /\ Len(s) \in Nat /\ Len(t) \in Nat
      /\ DOMAIN s = 1..Len(s) /\ DOMAIN t = 1..Len(t)
      /\ DOMAIN j = 1..(Len(s) + Len(t))
      /\ \A n \in 1..Len(s) : j[n] = s[n]
      /\ \A k \in 1..Len(t) : j[Len(s) + k] = t[k]
    BY AppendShape
<1> HIDE DEF j
<1>2. IsFiniteSet(N) /\ IsFiniteSet(K)
    BY BalanceIsInteger
<1>3. \A n \in N : h[n] = f[n]
    BY <1>1
<1>4. \A k \in K : b[k] \in M /\ g[k] = h[b[k]]
    <2> SUFFICES ASSUME NEW k \in K PROVE b[k] \in M /\ g[k] = h[b[k]]
        OBVIOUS
    <2>1. k \in 1..Len(t) /\ Len(s) + k \in DOMAIN j /\ j[Len(s) + k] = t[k]
        BY <1>1
    <2> QED
        BY <2>1
<1>5. \A k, l \in K : b[k] = b[l] => k = l
    BY <1>1
<1>6. \A m \in M : \E k \in K : b[k] = m
    OBVIOUS
<1>7. N \cap M = {}
    BY <1>1
<1>8. IntegerOn(f, N) /\ IntegerOn(g, K)
    BY DeltaIsInteger DEF IntegerOn, IntegerCents
<1>9. IsFiniteSet(M)
    <2>1. M = {b[k] : k \in K}
        OBVIOUS
    <2> HIDE DEF M, b
    <2> QED
        BY <1>2, <2>1, ImageIsFinite
<1>10. IntegerOn(h, N \cup M)
    <2> SUFFICES ASSUME NEW n \in N \cup M PROVE h[n] \in Int
        BY DEF IntegerOn
    <2>1. CASE n \in N
        BY <1>3, <1>8, <2>1 DEF IntegerOn
    <2>2. CASE n \in M
        <3>1. PICK k \in K : b[k] = n
            BY <1>6, <2>2
        <3> QED
            BY <1>4, <1>8, <3>1, ZenonT(60) DEF IntegerOn
    <2> QED
        BY <2>1, <2>2
<1>11. /\ balanceOver(j, account, N \cup M) = SumOver(h, N \cup M)
       /\ balanceOver(s, account, N) = SumOver(f, N)
       /\ balanceOver(t, account, K) = SumOver(g, K)
    BY DEF balanceOver, SumOver
<1> HIDE DEF f, g, h, M, b
<1>12. SumOver(h, N \cup M) = SumOver(h, N) + SumOver(h, M)
    BY <1>2, <1>7, <1>9, <1>10, SumDisjointUnion
<1>13. SumOver(h, N) = SumOver(f, N)
    BY <1>2, <1>3, SumCongruent
<1>14. SumOver(g, K) = SumOver(h, M)
    BY <1>2, <1>4, <1>5, <1>6, <1>8, SumRenamed
<1> QED
    BY <1>11, <1>12, <1>13, <1>14 DEF j, M

\* The same of all postings, and of a set of earlier ones.
LEMMA BalanceOfAppended ==
    ASSUME NEW s, NEW t, IsSequence(s), IsSequence(t), IntegerCents(s), IntegerCents(t),
           NEW account
    PROVE  /\ balanceOf(s \o t, account) = balanceOf(s, account) + balanceOf(t, account)
           /\ \A N \in SUBSET DOMAIN s :
                 balanceOver(s \o t, account, N) = balanceOver(s, account, N)
<1>1. /\ Len(s) \in Nat /\ Len(t) \in Nat
      /\ DOMAIN s = 1..Len(s) /\ DOMAIN t = 1..Len(t)
      /\ DOMAIN (s \o t) = 1..(Len(s) + Len(t))
    BY AppendShape
<1>2. DOMAIN (s \o t) = DOMAIN s \cup {Len(s) + k : k \in DOMAIN t}
    <2>1. ASSUME NEW n \in 1..(Len(s) + Len(t)), n \notin 1..Len(s)
          PROVE  \E k \in 1..Len(t) : n = Len(s) + k
        <3>1. n - Len(s) \in 1..Len(t) /\ n = Len(s) + (n - Len(s))
            BY <1>1, <2>1
        <3> QED
            BY <3>1
    <2>2. ASSUME NEW k \in 1..Len(t) PROVE Len(s) + k \in 1..(Len(s) + Len(t))
        BY <1>1
    <2>3. 1..Len(s) \subseteq 1..(Len(s) + Len(t))
        BY <1>1
    <2> QED
        BY <1>1, <2>1, <2>2, <2>3
<1>3. balanceOf(s \o t, account) = balanceOf(s, account) + balanceOf(t, account)
    <2>1. DOMAIN s \in SUBSET DOMAIN s /\ DOMAIN t \in SUBSET DOMAIN t
        OBVIOUS
    <2> QED
        BY <1>2, <2>1, BalanceAppends DEF balanceOf
<1>4. ASSUME NEW N \in SUBSET DOMAIN s
      PROVE  balanceOver(s \o t, account, N) = balanceOver(s, account, N)
    <2> DEFINE M == {Len(s) + k : k \in {}}
    <2>1. N \cup M = N /\ {} \in SUBSET DOMAIN t
        OBVIOUS
    <2>2. balanceOver(t, account, {}) = 0
        <3> DEFINE g == [n \in DOMAIN t |-> delta(t[n], account)]
        <3>1. balanceOver(t, account, {}) = SumOver(g, {})
            BY DEF balanceOver, SumOver
        <3> QED
            BY <3>1, SumEmpty
    <2>3. balanceOver(s, account, N) \in Int
        BY BalanceIsInteger
    <2>4. balanceOver(s \o t, account, N \cup M)
             = balanceOver(s, account, N) + balanceOver(t, account, {})
        BY <2>1, BalanceAppends
    <2> HIDE DEF M
    <2>5. balanceOver(s, account, N) + 0 = balanceOver(s, account, N)
        BY <2>3
    <2>6. balanceOver(s \o t, account, N \cup M) = balanceOver(s, account, N)
        BY <2>2, <2>4, <2>5
    <2> QED
        BY <2>1, <2>6
<1> QED
    BY <1>3, <1>4

\* A transaction of one posting, or of none.
LEMMA BalanceOfOne ==
    ASSUME NEW p, NEW account
    PROVE  /\ IsSequence(<<p>>) /\ IsSequence(<< >>) /\ IntegerCents(<< >>)
           /\ balanceOf(<< >>, account) = 0
           /\ p.cents \in Int => /\ IntegerCents(<<p>>)
                                 /\ balanceOf(<<p>>, account) = delta(p, account)
<1>1. IsSequence(<<p>>) /\ IsSequence(<< >>)
    <2>1. <<p>> \in Seq({p}) /\ << >> \in Seq({p})
        OBVIOUS
    <2> QED
        BY <2>1, SequenceShape
<1>2. IntegerCents(<< >>) /\ (p.cents \in Int => IntegerCents(<<p>>))
    BY DEF IntegerCents
<1>3. balanceOf(<< >>, account) = 0
    <2> DEFINE f == [n \in DOMAIN << >> |-> delta(<< >>[n], account)]
    <2>1. DOMAIN << >> = {}
        OBVIOUS
    <2>2. balanceOf(<< >>, account) = SumOver(f, DOMAIN << >>)
        BY DEF balanceOf, balanceOver, SumOver
    <2> HIDE DEF f
    <2> QED
        BY <2>1, <2>2, SumEmpty
<1>4. ASSUME p.cents \in Int PROVE balanceOf(<<p>>, account) = delta(p, account)
    <2> DEFINE f == [n \in DOMAIN <<p>> |-> delta(<<p>>[n], account)]
    <2>1. DOMAIN <<p>> = {1} /\ f[1] = delta(p, account)
        OBVIOUS
    <2>2. balanceOf(<<p>>, account) = SumOver(f, {1})
        BY <2>1 DEF balanceOf, balanceOver, SumOver
    <2>3. f[1] \in Int
        BY <1>4, <2>1, DeltaIsInteger
    <2> HIDE DEF f
    <2> QED
        BY <2>1, <2>2, <2>3, SumSingleton
<1> QED
    BY <1>1, <1>2, <1>3, <1>4

\* The postings of a source, of a journal that a transaction extends.
LEMMA PostingsAppend ==
    ASSUME NEW s, NEW t, IsSequence(s), IsSequence(t), NEW sourceType, NEW sourceId
    PROVE  /\ PostingsOf(s \o t, sourceType, sourceId)
                 = PostingsOf(s, sourceType, sourceId)
                     \cup {Len(s) + k : k \in PostingsOf(t, sourceType, sourceId)}
           /\ PostingsOf(s, sourceType, sourceId) \in SUBSET DOMAIN s
           /\ PostingsOf(t, sourceType, sourceId) \in SUBSET DOMAIN t
<1> DEFINE j == s \o t
           P == PostingsOf(s, sourceType, sourceId)
           Q == PostingsOf(t, sourceType, sourceId)
           J == PostingsOf(j, sourceType, sourceId)
<1>1. /\ Len(s) \in Nat /\ Len(t) \in Nat
      /\ DOMAIN s = 1..Len(s) /\ DOMAIN t = 1..Len(t)
      /\ DOMAIN j = 1..(Len(s) + Len(t))
      /\ \A n \in 1..Len(s) : j[n] = s[n]
      /\ \A k \in 1..Len(t) : j[Len(s) + k] = t[k]
    BY AppendShape
<1> HIDE DEF j
<1>2. P \in SUBSET DOMAIN s /\ Q \in SUBSET DOMAIN t
    BY DEF PostingsOf
<1>3. ASSUME NEW n \in J PROVE n \in P \cup {Len(s) + k : k \in Q}
    <2>1. CASE n \in 1..Len(s)
        BY <1>1, <1>3, <2>1 DEF PostingsOf
    <2>2. CASE n \notin 1..Len(s)
        <3>1. n \in 1..(Len(s) + Len(t))
            BY <1>1, <1>3 DEF PostingsOf
        <3>2. n - Len(s) \in 1..Len(t) /\ n = Len(s) + (n - Len(s))
            BY <1>1, <2>2, <3>1
        <3>3. j[n] = t[n - Len(s)]
            BY <1>1, <3>2
        <3>4. n - Len(s) \in Q
            BY <1>1, <1>3, <3>2, <3>3 DEF PostingsOf
        <3> QED
            BY <3>2, <3>4
    <2> QED
        BY <2>1, <2>2
<1>4. ASSUME NEW n \in P PROVE n \in J
    BY <1>1, <1>4 DEF PostingsOf
<1>5. ASSUME NEW k \in Q PROVE Len(s) + k \in J
    <2>1. k \in 1..Len(t) /\ Len(s) + k \in 1..(Len(s) + Len(t)) /\ j[Len(s) + k] = t[k]
        BY <1>1, <1>2
    <2> QED
        BY <1>1, <1>5, <2>1 DEF PostingsOf
<1>6. J = P \cup {Len(s) + k : k \in Q}
    <2> HIDE DEF J, P, Q
    <2> QED
        BY <1>3, <1>4, <1>5
<1> QED
    BY <1>2, <1>6 DEF j

-----------------------------------------------------------------------------
\* A finite set of numbers has a largest one.
LEMMA LargestExists ==
    ASSUME NEW S, IsFiniteSet(S), S \subseteq Int, S # {}
    PROVE  \E x \in S : \A y \in S : y <= x
<1> DEFINE G == {t \in SUBSET S : t = {} \/ \E x \in t : \A y \in t : y <= x}
<1>1. {} \in G
    OBVIOUS
<1>2. ASSUME NEW t \in SUBSET S, NEW x \in t, t \ {x} \in G PROVE t \in G
    <2>1. CASE t \ {x} = {}
        <3>1. \A y \in t : y <= x
            BY <2>1
        <3> QED
            BY <3>1
    <2>2. CASE \E z \in t \ {x} : \A y \in t \ {x} : y <= z
        <3>1. PICK z \in t \ {x} : \A y \in t \ {x} : y <= z
            BY <2>2
        <3>2. CASE x <= z
            <4>1. \A y \in t : y <= z
                BY <3>1, <3>2
            <4> QED
                BY <4>1
        <3>3. CASE z <= x
            <4>1. \A y \in t : y <= x
                BY <3>1, <3>3
            <4> QED
                BY <4>1
        <3>4. x <= z \/ z <= x
            OBVIOUS
        <3> QED
            BY <3>2, <3>3, <3>4
    <2> QED
        BY <1>2, <2>1, <2>2
<1>3. S \in G
    <2>1. \A t \in SUBSET S : \A x \in t : t \ {x} \in G => t \in G
        BY <1>2
    <2> HIDE DEF G
    <2> QED
        BY <1>1, <2>1, SubsetInduction
<1> QED
    BY <1>3

(***************************************************************************)
(* First in, first out: taking c centimes from the rows of U in order, all *)
(* of a row until the rest is smaller, takes c, and of no row more than it *)
(* holds.                                                                  *)
(***************************************************************************)
Earlier(U, n) == {m \in U : m < n}

FifoPart(f, U, c, n) ==
    LET b == SumOver(f, Earlier(U, n))
    IN  IF b < c THEN (IF b + f[n] <= c THEN f[n] ELSE c - b) ELSE 0

LEMMA FifoTakesAll ==
    ASSUME NEW U, IsFiniteSet(U), U \subseteq Int, NEW f, \A n \in U : f[n] \in Nat,
           NEW c \in Nat, c <= SumOver(f, U), NEW take,
           \A n \in U : take[n] = FifoPart(f, U, c, n)
    PROVE  SumOver(take, U) = c /\ \A n \in U : take[n] \in 0..f[n]
<1> DEFINE closed(t) == \A n \in t : Earlier(U, n) \subseteq t
           F == {t \in SUBSET U : closed(t) /\ SumOver(take, t) # Smaller(c, SumOver(f, t))}
<1>0. \A t \in SUBSET U : IsFiniteSet(t) /\ SumOver(f, t) \in Nat
    BY FS_Subset, SumOfAmounts
<1>1. ASSUME NEW n \in U
      PROVE  /\ take[n] \in 0..f[n]
             /\ LET b == SumOver(f, Earlier(U, n))
                IN  b \in Nat /\ take[n] + Smaller(c, b) = Smaller(c, f[n] + b)
    <2> DEFINE b == SumOver(f, Earlier(U, n))
    <2>1. b \in Nat
        BY <1>0 DEF Earlier
    <2>2. take[n] = IF b < c THEN (IF b + f[n] <= c THEN f[n] ELSE c - b) ELSE 0
        BY DEF FifoPart
    <2>3. f[n] \in Nat
        OBVIOUS
    <2> HIDE DEF b
    <2> QED
        BY <2>1, <2>2, <2>3 DEF Smaller, b
<1>2. StepsOf(take, U) /\ StepsOf(f, U)
    <2>1. IntegerOn(take, U) /\ IntegerOn(f, U)
        BY <1>1 DEF IntegerOn
    <2> QED
        BY <2>1, SumStep
<1>3. F = {}
    <2> SUFFICES ASSUME F # {} PROVE FALSE
        OBVIOUS
    <2>1. PICK t \in F : \A u \in SUBSET t : u # t => u \notin F
        <3>1. F \subseteq SUBSET U
            OBVIOUS
        <3> HIDE DEF F
        <3> QED
            BY <3>1, MinimalSubset
    <2>2. t \in SUBSET U /\ closed(t) /\ SumOver(take, t) # Smaller(c, SumOver(f, t))
        OBVIOUS
    <2>3. t # {}
        <3>1. SumOver(take, {}) = 0 /\ SumOver(f, {}) = 0 /\ Smaller(c, 0) = 0
            BY SumEmpty DEF Smaller
        <3> QED
            BY <2>2, <3>1
    <2>4. PICK x \in t : \A y \in t : y <= x
        BY <1>0, <2>2, <2>3, LargestExists
    <2> DEFINE u == t \ {x}
    <2>5. u = Earlier(U, x)
        <3>1. Earlier(U, x) \subseteq u
            BY <2>2 DEF Earlier
        <3>2. ASSUME NEW y \in u PROVE y \in Earlier(U, x)
            <4>1. y \in Int /\ x \in Int /\ y <= x /\ y # x /\ y \in U
                BY <2>2, <2>4
            <4> QED
                BY <4>1 DEF Earlier
        <3> QED
            BY <3>1, <3>2
    <2>6. closed(u)
        <3> SUFFICES ASSUME NEW n \in u, NEW m \in Earlier(U, n) PROVE m \in u
            OBVIOUS
        <3>1. n \in Earlier(U, x) /\ n \in Int /\ m \in Int /\ x \in Int /\ m < n /\ m \in U
            BY <2>2, <2>5 DEF Earlier
        <3>2. m < x
            BY <3>1 DEF Earlier
        <3> QED
            BY <2>5, <3>1, <3>2 DEF Earlier
    <2>7. SumOver(take, u) = Smaller(c, SumOver(f, u))
        <3>1. u \in SUBSET t /\ u # t /\ u \in SUBSET U
            BY <2>2
        <3> QED
            BY <2>1, <2>6, <3>1
    <2>8. /\ SumOver(take, t) = take[x] + SumOver(take, u)
          /\ SumOver(f, t) = f[x] + SumOver(f, u)
        BY <1>2, <2>2 DEF StepsOf
    <2>9. take[x] + Smaller(c, SumOver(f, u)) = Smaller(c, f[x] + SumOver(f, u))
        BY <1>1, <2>2, <2>5
    <2> HIDE DEF u, F
    <2> QED
        BY <2>2, <2>7, <2>8, <2>9
<1>4. SumOver(take, U) = Smaller(c, SumOver(f, U))
    <2>1. U \in SUBSET U /\ closed(U)
        BY DEF Earlier
    <2> QED
        BY <1>3, <2>1
<1>5. SumOver(f, U) \in Nat
    BY <1>0, U \in SUBSET U
<1>6. Smaller(c, SumOver(f, U)) = c
    BY <1>5 DEF Smaller
<1> QED
    BY <1>1, <1>4, <1>6

\* g[k] is the sum of f over the members of S whose key is k, and every key is in K.
Grouped(f, S, key, K, g) ==
    /\ \A k \in K : g[k] = SumOver(f, {x \in S : key[x] = k})
    /\ \A x \in S : key[x] \in K

\* Rows grouped by a key: the sum of the groups' sums.
LEMMA SumOfGroups ==
    ASSUME NEW f, NEW S, IsFiniteSet(S), IntegerOn(f, S), NEW key, NEW K, IsFiniteSet(K),
           NEW g, Grouped(f, S, key, K, g)
    PROVE  SumOver(f, S) = SumOver(g, K)
<1> USE DEF Grouped
<1> DEFINE of(T) == {x \in S : key[x] \in T}
           one(k) == {x \in S : key[x] = k}
           G == {T \in SUBSET K : SumOver(f, of(T)) = SumOver(g, T)}
<1>1. {} \in G
    <2>1. of({}) = {}
        OBVIOUS
    <2> QED
        BY <2>1, SumEmpty
<1>2. \A T : IsFiniteSet(of(T)) /\ IntegerOn(f, of(T))
    BY FS_Subset DEF IntegerOn
<1>3. \A k \in K : IsFiniteSet(one(k)) /\ IntegerOn(f, one(k)) /\ g[k] = SumOver(f, one(k))
    BY FS_Subset DEF IntegerOn
<1>4. IntegerOn(g, K)
    <2> SUFFICES ASSUME NEW k \in K PROVE g[k] \in Int
        BY DEF IntegerOn
    <2>1. IsFiniteSet(one(k)) /\ IntegerOn(f, one(k)) /\ g[k] = SumOver(f, one(k))
        BY <1>3
    <2> HIDE DEF one
    <2> QED
        BY <2>1, SumIsInteger
<1>5. ASSUME NEW T \in SUBSET K, NEW k \in T, T \ {k} \in G PROVE T \in G
    <2>1. SumOver(f, of(T \ {k})) = SumOver(g, T \ {k})
        BY <1>5
    <2>2. of(T) = one(k) \cup of(T \ {k}) /\ one(k) \cap of(T \ {k}) = {}
        OBVIOUS
    <2>3. IsFiniteSet(one(k)) /\ IsFiniteSet(of(T \ {k})) /\ IntegerOn(f, of(T))
        BY <1>2, <1>3
    <2>4. g[k] = SumOver(f, one(k))
        BY <1>3
    <2> HIDE DEF of, one
    <2> DEFINE A == one(k)
               B == of(T \ {k})
    <2>5. SumOver(f, of(T)) = SumOver(f, one(k)) + SumOver(f, of(T \ {k}))
        <3>1. /\ IsFiniteSet(A) /\ IsFiniteSet(B) /\ A \cap B = {}
              /\ IntegerOn(f, A \cup B) /\ of(T) = A \cup B
            BY <2>2, <2>3
        <3> HIDE DEF A, B
        <3>2. SumOver(f, A \cup B) = SumOver(f, A) + SumOver(f, B)
            BY <3>1, SumDisjointUnion
        <3> QED
            BY <3>1, <3>2 DEF A, B
    <2>6. SumOver(g, T) = g[k] + SumOver(g, T \ {k})
        BY <1>4, SumStep DEF StepsOf
    <2>7. SumOver(f, of(T)) = SumOver(g, T)
        BY <2>1, <2>4, <2>5, <2>6
    <2> QED
        BY <2>7
<1>6. K \in G
    <2>1. \A T \in SUBSET K : \A k \in T : T \ {k} \in G => T \in G
        BY <1>5
    <2> HIDE DEF G
    <2> QED
        BY <1>1, <2>1, SubsetInduction
<1>7. of(K) = S
    OBVIOUS
<1> QED
    BY <1>6, <1>7

-----------------------------------------------------------------------------
(***************************************************************************)
(* The split of a charge (lib/splits.ts).                                  *)
(***************************************************************************)

\* Math.floor and the remainder, of amounts.
LEMMA DivisionFacts ==
    ASSUME NEW a \in Nat, NEW d \in Nat \ {0}
    PROVE  /\ a \div d \in Nat /\ a % d \in 0..(d - 1)
           /\ a = (d * (a \div d)) + (a % d)
OBVIOUS

LEMMA DivisionBounds ==
    ASSUME NEW a \in Nat, NEW d \in Nat \ {0}, NEW q \in Int, d * q <= a, a < d * (q + 1)
    PROVE  a \div d = q
OBVIOUS

LEMMA ProductOfAmounts ==
    ASSUME NEW a \in Nat, NEW b \in Nat
    PROVE  a * b \in Nat
OBVIOUS

LEMMA ProductMonotone ==
    ASSUME NEW a \in Int, NEW b \in Int, NEW c \in Nat, a <= b
    PROVE  c * a <= c * b /\ c * a \in Int /\ c * b \in Int
OBVIOUS

\* Math.round of amounts is an amount, and of a part at most the whole.
LEMMA RoundedRatioBounds ==
    ASSUME NEW a \in Nat, NEW b \in Nat, NEW c \in Nat \ {0}
    PROVE  /\ RoundedRatio(a, b, c) \in Nat
           /\ b <= c => RoundedRatio(a, b, c) <= a
<1> DEFINE x == a * b
           y == a * c
           q == (2 * x + c) \div (2 * c)
<1>1. x \in Nat /\ y \in Nat /\ 2 * c \in Nat \ {0} /\ 2 * x + c \in Nat
    BY ProductOfAmounts
<1>2. 2 * a * b = 2 * x
    OBVIOUS
<1>3. RoundedRatio(a, b, c) = q
    BY <1>2 DEF RoundedRatio
<1>4. /\ q \in Nat /\ (2 * x + c) % (2 * c) \in 0..(2 * c - 1)
      /\ 2 * x + c = ((2 * c) * q) + ((2 * x + c) % (2 * c))
    BY <1>1, DivisionFacts
<1>5. ASSUME b <= c PROVE q <= a
    <2>1. x <= y
        BY <1>5, ProductMonotone
    <2>2. (2 * c) * q <= 2 * y + c
        <3> HIDE DEF x, y, q
        <3> QED
            BY <1>1, <1>4, <2>1
    <2> SUFFICES ASSUME q >= a + 1 PROVE FALSE
        BY <1>4
    <2>3. (2 * c) * (a + 1) <= (2 * c) * q
        <3> HIDE DEF q
        <3> QED
            BY <1>1, <1>4, ProductMonotone
    <2>4. (2 * c) * (a + 1) = 2 * y + 2 * c
        OBVIOUS
    <2>5. (2 * c) * q \in Int
        BY <1>1, <1>4
    <2> HIDE DEF x, y, q
    <2> QED
        BY <1>1, <2>2, <2>3, <2>4, <2>5
<1> QED
    BY <1>3, <1>4, <1>5

\* validateShares, and the parties in name order.
ShareRows(shares) ==
    /\ IsSequence(shares)
    /\ \A n \in DOMAIN shares : shares[n].bps \in Nat /\ shares[n].party \in Int
    /\ ValidShares(shares)

\* The names computeShares gives to its parts.
Weights(shares) == [n \in DOMAIN shares |-> shares[n].bps]

FloorOf(cents, shares) ==
    [n \in DOMAIN shares |-> (cents * shares[n].bps) \div TotalBps(shares)]

FracOf(cents, shares) ==
    [n \in DOMAIN shares |-> (cents * shares[n].bps) % TotalBps(shares)]

RowOrder(shares, frac) ==
    {p \in (DOMAIN shares) \X (DOMAIN shares) :
        \/ frac[p[1]] > frac[p[2]]
        \/ frac[p[1]] = frac[p[2]] /\ shares[p[1]].party < shares[p[2]].party
        \/ /\ frac[p[1]] = frac[p[2]] /\ p[1] < p[2]
           /\ shares[p[1]].party = shares[p[2]].party}

RankOf(cents, shares, n) ==
    Cardinality(Before(RowOrder(shares, FracOf(cents, shares)), DOMAIN shares, n))

LeftOver(cents, shares) == cents - SumOver(FloorOf(cents, shares), DOMAIN shares)

LEMMA ComputeSharesUnfolds ==
    ASSUME NEW cents, NEW shares
    PROVE  computeShares(cents, shares) =
              [n \in DOMAIN shares |->
                  FloorOf(cents, shares)[n]
                     + ((LeftOver(cents, shares) + Len(shares) - 1 - RankOf(cents, shares, n))
                           \div Len(shares))]
<1> DEFINE D == DOMAIN shares
           floor == FloorOf(cents, shares)
           frac == FracOf(cents, shares)
           before(m, n) == \/ frac[m] > frac[n]
                           \/ frac[m] = frac[n] /\ shares[m].party < shares[n].party
                           \/ /\ frac[m] = frac[n] /\ m < n
                              /\ shares[m].party = shares[n].party
<1>1. ASSUME NEW n \in D
      PROVE  {m \in D : before(m, n)} = Before(RowOrder(shares, frac), D, n)
    BY DEF Before, RowOrder
<1>2. SumFunction(floor) = SumOver(floor, D)
    BY DEF SumFunction, SumOver, FloorOf
<1> QED
    BY <1>1, <1>2 DEF computeShares, FloorOf, FracOf, LeftOver, RankOf

LEMMA RowsAreOrdered ==
    ASSUME NEW shares, ShareRows(shares), NEW frac, \A n \in DOMAIN shares : frac[n] \in Int
    PROVE  StrictOrder(RowOrder(shares, frac), DOMAIN shares)
<1>1. \A n \in DOMAIN shares : shares[n].party \in Int /\ frac[n] \in Int /\ n \in Int
    BY SequenceShape DEF ShareRows, IsSequence
<1> QED
    BY <1>1 DEF StrictOrder, RowOrder

\* Each part, in whole centimes and its fraction.
LEMMA PartsOfShares ==
    ASSUME NEW shares, ShareRows(shares), NEW cents \in Nat
    PROVE  /\ IsFiniteSet(DOMAIN shares) /\ Len(shares) \in Nat \ {0}
           /\ DOMAIN shares = 1..Len(shares) /\ Cardinality(DOMAIN shares) = Len(shares)
           /\ TotalBps(shares) = SumOver(Weights(shares), DOMAIN shares)
           /\ TotalBps(shares) \in Nat \ {0}
           /\ \A n \in DOMAIN shares :
                 /\ shares[n].bps \in Nat
                 /\ FloorOf(cents, shares)[n] \in Nat
                 /\ FracOf(cents, shares)[n] \in 0..(TotalBps(shares) - 1)
                 /\ cents * shares[n].bps
                      = (TotalBps(shares) * FloorOf(cents, shares)[n])
                           + FracOf(cents, shares)[n]
<1>1. Len(shares) \in Nat /\ DOMAIN shares = 1..Len(shares) /\ shares # << >>
    BY SequenceShape DEF ShareRows, IsSequence, ValidShares
<1>2. Len(shares) # 0
    BY <1>1 DEF ShareRows, IsSequence
<1>3. IsFiniteSet(DOMAIN shares) /\ Cardinality(DOMAIN shares) = Len(shares)
    BY <1>1, <1>2, FS_Interval
<1>4. TotalBps(shares) = SumOver(Weights(shares), DOMAIN shares)
    BY DEF TotalBps, SumFunction, SumOver, Weights
<1>5. \A n \in DOMAIN shares : Weights(shares)[n] \in Nat /\ shares[n].bps \in Nat
    BY DEF ShareRows, Weights
<1>6. TotalBps(shares) \in Nat \ {0}
    <2>1. 1 \in DOMAIN shares /\ Weights(shares)[1] >= 1
        BY <1>1, <1>2, BpsUnitAssumption DEF ShareRows, ValidShares, Weights
    <2>2. /\ SumOver(Weights(shares), DOMAIN shares) \in Nat
          /\ Weights(shares)[1] <= SumOver(Weights(shares), DOMAIN shares)
        BY <1>3, <1>5, <2>1, SumOfAmounts
    <2> QED
        BY <1>4, <1>5, <2>1, <2>2
<1>7. ASSUME NEW n \in DOMAIN shares
      PROVE  /\ FloorOf(cents, shares)[n] \in Nat
             /\ FracOf(cents, shares)[n] \in 0..(TotalBps(shares) - 1)
             /\ cents * shares[n].bps
                  = (TotalBps(shares) * FloorOf(cents, shares)[n])
                       + FracOf(cents, shares)[n]
    <2>1. cents * shares[n].bps \in Nat
        BY <1>5, ProductOfAmounts
    <2> QED
        BY <1>6, <2>1, DivisionFacts DEF FloorOf, FracOf
<1> QED
    BY <1>1, <1>2, <1>3, <1>4, <1>5, <1>6, <1>7

(***************************************************************************)
(* What the floors leave over: fewer centimes than there are shares with a *)
(* fraction, or none.                                                      *)
(***************************************************************************)
WithFraction(cents, shares) == {n \in DOMAIN shares : FracOf(cents, shares)[n] > 0}

LEMMA LeftOverBounds ==
    ASSUME NEW shares, ShareRows(shares), NEW cents \in Nat
    PROVE  /\ LeftOver(cents, shares) \in Nat
           /\ LeftOver(cents, shares) < Len(shares)
           /\ LeftOver(cents, shares) # 0
                 => LeftOver(cents, shares) < Cardinality(WithFraction(cents, shares))
<1> DEFINE D == DOMAIN shares
           t == TotalBps(shares)
           w == Weights(shares)
           fl == FloorOf(cents, shares)
           fr == FracOf(cents, shares)
           h == [n \in D |-> cents * w[n]]
           tf == [n \in D |-> t * fl[n]]
           P == WithFraction(cents, shares)
           L == LeftOver(cents, shares)
           A == SumOver(fl, D)
           B == SumOver(fr, D)
<1>1. /\ IsFiniteSet(D) /\ Cardinality(D) = Len(shares) /\ Len(shares) \in Nat \ {0}
      /\ t = SumOver(w, D) /\ t \in Nat \ {0}
      /\ \A n \in D : w[n] \in Nat /\ fl[n] \in Nat /\ fr[n] \in 0..(t - 1)
      /\ \A n \in D : h[n] = tf[n] + fr[n] /\ h[n] \in Nat /\ tf[n] \in Nat
    BY PartsOfShares, ProductOfAmounts DEF Weights
<1>2. IntegerOn(w, D) /\ IntegerOn(fl, D) /\ IntegerOn(fr, D) /\ IntegerOn(tf, D)
    <2>1. \A n \in D : w[n] \in Int /\ fl[n] \in Int /\ fr[n] \in Int /\ tf[n] \in Int
        <3> HIDE DEF w, fl, fr, tf, t
        <3> QED
            BY <1>1
    <2> QED
        BY <2>1 DEF IntegerOn
<1>3. Multiple(h, cents, w, D) /\ Multiple(tf, t, fl, D)
    BY DEF Multiple
<1>4. L = cents - A
    BY DEF LeftOver
<1> HIDE DEF D, t, w, fl, fr, h, tf, L, A, B
<1>5. SumOver(h, D) = cents * t
    BY <1>1, <1>2, <1>3, SumScale
<1>6. SumOver(tf, D) = t * A
    BY <1>1, <1>2, <1>3, SumScale DEF A
<1>7. SumOver(h, D) = SumOver(tf, D) + B
    BY <1>1, <1>2, SumPlus DEF B
<1>8. A \in Nat /\ B \in Nat
    BY <1>1, SumOfAmounts DEF A, B
<1>9. t * L = B /\ L \in Int
    <2>1. L \in Int
        BY <1>4, <1>8
    <2>2. t * L = t * cents - t * A
        BY <1>1, <1>4, <1>8
    <2>3. cents * t = t * cents /\ cents * t \in Int /\ t * A \in Int
        BY <1>1, <1>8
    <2> QED
        BY <1>5, <1>6, <1>7, <1>8, <2>1, <2>2, <2>3
<1>10. P \in SUBSET D /\ IsFiniteSet(P) /\ Cardinality(P) \in Nat
    BY <1>1, FS_Subset, FS_CardinalityType DEF WithFraction, D
<1>11. Cardinality(P) <= Len(shares)
    BY <1>1, <1>10, FS_Subset
<1>12. B <= (t - 1) * Cardinality(P)
    <2> DEFINE k == [n \in P |-> t - 1]
    <2>1. \A n \in D \ P : fr[n] = 0
        <3> SUFFICES ASSUME NEW n \in D \ P PROVE fr[n] = 0
            OBVIOUS
        <3>1. ~ (fr[n] > 0)
            BY DEF WithFraction, D, fr
        <3> QED
            BY <1>1, <3>1
    <2>2. IntegerOn(fr, P) /\ IntegerOn(k, P) /\ AtMost(fr, k, P)
        <3>1. \A n \in P : fr[n] \in Int /\ k[n] = t - 1 /\ k[n] \in Int /\ fr[n] <= k[n]
            BY <1>1, <1>10
        <3> QED
            BY <3>1 DEF IntegerOn, AtMost
    <2>3. B = SumOver(fr, P)
        BY <1>1, <1>10, <2>1, <2>2, SumSupport DEF B
    <2>4. SumOver(fr, P) <= SumOver(k, P)
        BY <1>10, <2>2, SumMonotone
    <2>5. SumOver(k, P) = (t - 1) * Cardinality(P)
        <3>1. t - 1 \in Int /\ \A n \in P : k[n] = t - 1
            BY <1>1
        <3> HIDE DEF k
        <3> QED
            BY <1>10, <3>1, SumConstant
    <2> QED
        BY <2>3, <2>4, <2>5
<1>13. L \in Nat
    <2> SUFFICES ASSUME L <= -1 PROVE FALSE
        BY <1>9
    <2>1. t * L <= t * (-1)
        BY <1>1, <1>9, ProductMonotone
    <2> QED
        BY <1>1, <1>8, <1>9, <2>1
<1>14. ASSUME L >= Cardinality(P) PROVE Cardinality(P) = 0 /\ L = 0
    <2> DEFINE c == Cardinality(P)
    <2> HIDE DEF P, c
    <2>0. c \in Nat /\ c = Cardinality(P)
        BY <1>10 DEF c
    <2>1. t * c <= t * L
        BY <1>1, <1>9, <1>14, <2>0, ProductMonotone
    <2>2. (t - 1) * c = t * c - c /\ t * c \in Int
        BY <1>1, <2>0
    <2>3. t * L <= t * c - c
        BY <1>9, <1>12, <2>0, <2>2
    <2>4. t * L \in Int
        BY <1>1, <1>9
    <2>5. c = 0
        BY <2>0, <2>1, <2>2, <2>3, <2>4
    <2>6. B = 0
        <3>1. t * c = 0
            BY <1>1, <2>5
        <3> QED
            BY <1>8, <1>9, <2>3, <2>4, <2>5, <3>1
    <2>7. L = 0
        BY <1>1, <1>9, <2>6
    <2> QED
        BY <2>0, <2>5, <2>7
<1> QED
    BY <1>1, <1>10, <1>11, <1>13, <1>14 DEF L

(***************************************************************************)
(* computeShares: each share gets the floor of its part, or one centime    *)
(* more: the first ones in the order of the rows, as many as centimes are  *)
(* left over.                                                              *)
(***************************************************************************)
LEMMA EachShare ==
    ASSUME NEW shares, ShareRows(shares), NEW cents \in Nat, NEW n \in DOMAIN shares
    PROVE  /\ RankOf(cents, shares, n) \in 0..(Len(shares) - 1)
           /\ computeShares(cents, shares)[n] = FloorOf(cents, shares)[n]
                 + IF RankOf(cents, shares, n) < LeftOver(cents, shares) THEN 1 ELSE 0
           /\ computeShares(cents, shares)[n] \in Nat
<1> DEFINE D == DOMAIN shares
           R == RowOrder(shares, FracOf(cents, shares))
           r == RankOf(cents, shares, n)
           L == LeftOver(cents, shares)
           N == Len(shares)
<1>1. /\ IsFiniteSet(D) /\ Cardinality(D) = N /\ N \in Nat \ {0}
      /\ FloorOf(cents, shares)[n] \in Nat
    BY PartsOfShares
<1>2. StrictOrder(R, D)
    <2>1. TotalBps(shares) \in Nat
        BY PartsOfShares
    <2>2. \A m \in D : FracOf(cents, shares)[m] \in Int
        BY <2>1, PartsOfShares
    <2> QED
        BY <2>2, RowsAreOrdered
<1>3. r \in 0..(N - 1)
    <2> HIDE DEF D, R
    <2>1. n \in D
        BY DEF D
    <2>2. Cardinality(Before(R, D, n)) \in 0..(Cardinality(D) - 1)
        BY <1>1, <1>2, <2>1, RanksAreNumbers
    <2> QED
        BY <1>1, <2>2 DEF RankOf, R, D
<1>4. L \in Nat /\ L < N
    BY LeftOverBounds
<1>5. computeShares(cents, shares)[n]
         = FloorOf(cents, shares)[n] + ((L + N - 1 - r) \div N)
    BY ComputeSharesUnfolds
<1> HIDE DEF D, R, r, L, N
<1>6. CASE r < L
    <2>1. (L + N - 1 - r) \in Nat /\ N * 1 <= L + N - 1 - r /\ L + N - 1 - r < N * (1 + 1)
        BY <1>1, <1>3, <1>4, <1>6
    <2>2. (L + N - 1 - r) \div N = 1
        BY <1>1, <2>1, DivisionBounds
    <2> QED
        BY <1>1, <1>3, <1>5, <1>6, <2>2 DEF r, L, N
<1>7. CASE ~ (r < L)
    <2>1. (L + N - 1 - r) \in Nat /\ N * 0 <= L + N - 1 - r /\ L + N - 1 - r < N * (0 + 1)
        BY <1>1, <1>3, <1>4, <1>7
    <2>2. (L + N - 1 - r) \div N = 0
        BY <1>1, <2>1, DivisionBounds
    <2> QED
        BY <1>1, <1>3, <1>5, <1>7, <2>2 DEF r, L, N
<1> QED
    BY <1>6, <1>7

\* computeShares: the shares add up to what is split.
LEMMA SharesAddUp ==
    ASSUME NEW shares, ShareRows(shares), NEW cents \in Nat
    PROVE  /\ SumFunction(computeShares(cents, shares)) = cents
           /\ SumOver(computeShares(cents, shares), DOMAIN shares) = cents
<1> DEFINE D == DOMAIN shares
           R == RowOrder(shares, FracOf(cents, shares))
           L == LeftOver(cents, shares)
           N == Len(shares)
           rank == [n \in D |-> RankOf(cents, shares, n)]
           fl == FloorOf(cents, shares)
           cs == computeShares(cents, shares)
           extra == [n \in D |-> IF rank[n] < L THEN 1 ELSE 0]
           T == {n \in D : rank[n] < L}
           K == 0..(L - 1)
           one == [k \in K |-> 1]
<1>1. /\ IsFiniteSet(D) /\ Cardinality(D) = N /\ N \in Nat \ {0}
      /\ \A n \in D : fl[n] \in Nat
    BY PartsOfShares
<1>2. L \in Nat /\ L < N
    BY LeftOverBounds
<1>3. \A n \in D : cs[n] = fl[n] + extra[n] /\ rank[n] \in 0..(N - 1)
    BY EachShare
<1>4. L = cents - SumOver(fl, D)
    BY DEF LeftOver
<1>5. /\ \A m, n \in D : rank[m] = rank[n] => m = n
      /\ \A k \in 0..(N - 1) : \E n \in D : rank[n] = k
    <2>1. StrictOrder(R, D)
        <3>1. TotalBps(shares) \in Nat
            BY PartsOfShares
        <3>2. \A m \in D : FracOf(cents, shares)[m] \in Int
            BY <3>1, PartsOfShares
        <3> QED
            BY <3>2, RowsAreOrdered
    <2>2. \A n \in D : rank[n] = Cardinality(Before(R, D, n))
        BY DEF RankOf
    <2> HIDE DEF D, R, rank, N
    <2>3. /\ \A x, y \in D :
                Cardinality(Before(R, D, x)) = Cardinality(Before(R, D, y)) => x = y
          /\ \A k \in 0..(Cardinality(D) - 1) :
                \E x \in D : Cardinality(Before(R, D, x)) = k
        BY <1>1, <2>1, RanksAreNumbers
    <2> QED
        BY <1>1, <2>2, <2>3
<1>6. SumFunction(cs) = SumOver(cs, D)
    <2>1. DOMAIN cs = D
        BY ComputeSharesUnfolds
    <2> QED
        BY <2>1 DEF SumFunction, SumOver
<1>7. \A n \in D : extra[n] = (IF rank[n] < L THEN 1 ELSE 0) /\ extra[n] \in Int
    OBVIOUS
<1>8. \A k \in K : one[k] = 1
    OBVIOUS
<1> HIDE DEF D, R, L, N, rank, fl, cs, extra, one
<1>9. IsFiniteSet(K) /\ Cardinality(K) = L
    BY <1>2, FS_Interval
<1>10. T \in SUBSET D /\ IsFiniteSet(T) /\ IntegerOn(extra, T) /\ \A n \in D \ T : extra[n] = 0
    BY <1>1, <1>7, FS_Subset DEF IntegerOn
<1>11. SumOver(extra, D) = SumOver(extra, T)
    BY <1>1, <1>10, SumSupport
<1>12. SumOver(extra, T) = SumOver(one, K)
    <2>1. \A n \in T : rank[n] \in K /\ extra[n] = one[rank[n]]
        BY <1>2, <1>3, <1>7, <1>8
    <2>2. \A m, n \in T : rank[m] = rank[n] => m = n
        BY <1>5
    <2>3. \A k \in K : \E n \in T : rank[n] = k
        BY <1>2, <1>1, <1>5
    <2> HIDE DEF T, K
    <2> QED
        BY <1>10, <2>1, <2>2, <2>3, SumRenamed
<1>13. SumOver(one, K) = L
    <2>1. SumOver(one, K) = 1 * Cardinality(K)
        <3> HIDE DEF K
        <3> QED
            BY <1>8, <1>9, SumConstant
    <2> QED
        BY <1>2, <1>9, <2>1
<1>14. SumOver(cs, D) = SumOver(fl, D) + SumOver(extra, D)
    <2>1. IntegerOn(fl, D) /\ IntegerOn(extra, D)
        BY <1>1, <1>7 DEF IntegerOn
    <2> QED
        BY <1>1, <1>3, <2>1, SumPlus
<1>15. SumOver(fl, D) \in Nat
    BY <1>1, SumOfAmounts
<1> QED
    BY <1>2, <1>4, <1>6, <1>11, <1>12, <1>13, <1>14, <1>15 DEF cs, D

\* computeShares: no share is a whole centime away from its exact part.
LEMMA SharesAreFair ==
    ASSUME NEW shares, ShareRows(shares), NEW cents \in Nat, NEW n \in DOMAIN shares
    PROVE  LET error == computeShares(cents, shares)[n] * TotalBps(shares)
                           - cents * shares[n].bps
           IN  -TotalBps(shares) < error /\ error < TotalBps(shares)
<1> DEFINE D == DOMAIN shares
           t == TotalBps(shares)
           fl == FloorOf(cents, shares)[n]
           fr == FracOf(cents, shares)[n]
           L == LeftOver(cents, shares)
           r == RankOf(cents, shares, n)
           P == WithFraction(cents, shares)
           B == Before(RowOrder(shares, FracOf(cents, shares)), D, n)
           cs == computeShares(cents, shares)[n]
           x == cents * shares[n].bps
<1>1. /\ t \in Nat \ {0} /\ fl \in Nat /\ fr \in 0..(t - 1)
      /\ x = (t * fl) + fr /\ IsFiniteSet(D)
    BY PartsOfShares
<1>2. /\ L \in Nat /\ (L # 0 => L < Cardinality(P))
      /\ r \in Nat /\ r = Cardinality(B)
      /\ cs = fl + (IF r < L THEN 1 ELSE 0)
    <2>1. Len(shares) \in Nat /\ r \in 0..(Len(shares) - 1)
        BY PartsOfShares, EachShare
    <2> QED
        BY <2>1, LeftOverBounds, EachShare DEF RankOf
<1>3. ASSUME fr = 0 PROVE ~ (r < L)
    <2>1. P \subseteq B
        <3> SUFFICES ASSUME NEW m \in P PROVE m \in B
            OBVIOUS
        <3>1. m \in D /\ FracOf(cents, shares)[m] > FracOf(cents, shares)[n]
            BY <1>3 DEF WithFraction
        <3> QED
            BY <3>1 DEF Before, RowOrder
    <2>2. IsFiniteSet(B) /\ B \subseteq D
        BY <1>1, FS_Subset DEF Before
    <2> HIDE DEF P, B, r, L
    <2>3. Cardinality(P) <= Cardinality(B) /\ Cardinality(P) \in Nat
        BY <2>1, <2>2, FS_Subset, FS_CardinalityType
    <2> QED
        BY <1>2, <2>3
<1> HIDE DEF D, t, fl, fr, L, r, P, B, cs, x
<1>4. CASE r < L
    <2>1. cs = fl + 1 /\ cs * t = (t * fl) + t
        BY <1>1, <1>2, <1>4
    <2>2. fr \in 1..(t - 1) /\ t * fl \in Int
        BY <1>1, <1>3, <1>4
    <2>3. cs * t - x = t - fr
        BY <1>1, <2>1, <2>2
    <2> QED
        BY <1>1, <2>2, <2>3 DEF cs, t, x
<1>5. CASE ~ (r < L)
    <2>1. cs = fl /\ cs * t = t * fl /\ t * fl \in Int
        BY <1>1, <1>2, <1>5
    <2>2. cs * t - x = -fr
        BY <1>1, <2>1
    <2> QED
        BY <1>1, <2>2 DEF cs, t, x
<1> QED
    BY <1>4, <1>5

\* The rows of a rule, read in another order: row n of one is row b[n] of the other.
Reordered(shares, other, b) ==
    /\ \A n \in DOMAIN shares : b[n] \in DOMAIN other /\ other[b[n]] = shares[n]
    /\ \A m, n \in DOMAIN shares : b[m] = b[n] => m = n
    /\ \A k \in DOMAIN other : \E n \in DOMAIN shares : b[n] = k

DistinctParties(shares) ==
    \A m, n \in DOMAIN shares : shares[m].party = shares[n].party => m = n

\* Sets of the same size, one by one.
LEMMA SameSize ==
    ASSUME NEW S, NEW T, NEW b, IsFiniteSet(S), \A x \in S : b[x] \in T,
           \A x, y \in S : b[x] = b[y] => x = y,
           \A y \in T : \E x \in S : b[x] = y
    PROVE  Cardinality(S) = Cardinality(T)
<1> DEFINE one == [x \in S |-> 1]
           also == [y \in T |-> 1]
<1>1. T = {b[x] : x \in S}
    OBVIOUS
<1>2. IsFiniteSet(T)
    BY <1>1, ImageIsFinite
<1>3. /\ \A x \in S : one[x] = 1 /\ one[x] = also[b[x]]
      /\ \A y \in T : also[y] = 1
    OBVIOUS
<1> HIDE DEF one, also
<1>4. SumOver(one, S) = SumOver(also, T)
    <2>1. IntegerOn(one, S)
        BY <1>3 DEF IntegerOn
    <2> QED
        BY <1>3, <2>1, SumRenamed
<1>5. SumOver(one, S) = 1 * Cardinality(S) /\ SumOver(also, T) = 1 * Cardinality(T)
    BY <1>2, <1>3, SumConstant
<1>6. Cardinality(S) \in Nat /\ Cardinality(T) \in Nat
    BY <1>2, FS_CardinalityType
<1>7. 1 * Cardinality(S) = Cardinality(S) /\ 1 * Cardinality(T) = Cardinality(T)
    BY <1>6
<1> QED
    BY <1>4, <1>5, <1>7

\* The rates of a rule add up to the same, in whatever order its rows are read.
LEMMA TotalIgnoresOrder ==
    ASSUME NEW shares, NEW other, ShareRows(shares), NEW b, Reordered(shares, other, b)
    PROVE  TotalBps(shares) = TotalBps(other)
<1> DEFINE D == DOMAIN shares
           E == DOMAIN other
           v == Weights(shares)
           w == Weights(other)
<1>1. /\ \A m \in D : b[m] \in E /\ other[b[m]] = shares[m]
      /\ \A m, k \in D : b[m] = b[k] => m = k
      /\ \A k \in E : \E m \in D : b[m] = k
    BY DEF Reordered
<1>2. IsFiniteSet(D)
    BY PartsOfShares, 0 \in Nat
<1>3. \A m \in D : b[m] \in E /\ v[m] = w[b[m]] /\ v[m] \in Int
    <2>1. \A m \in D : v[m] = shares[m].bps /\ v[m] \in Nat
        BY DEF Weights, ShareRows
    <2>2. \A m \in D : w[b[m]] = other[b[m]].bps
        BY <1>1 DEF Weights
    <2> QED
        BY <1>1, <2>1, <2>2
<1>4. IntegerOn(v, D)
    BY <1>3 DEF IntegerOn
<1>5. TotalBps(shares) = SumOver(v, D) /\ TotalBps(other) = SumOver(w, E)
    BY DEF TotalBps, SumFunction, SumOver, Weights
<1> HIDE DEF D, E, v, w
<1> QED
    BY <1>1, <1>2, <1>3, <1>4, <1>5, SumRenamed

\* computeShares: what a party gets does not depend on the order of the rows.
LEMMA SharesIgnoreOrder ==
    ASSUME NEW shares, NEW other, ShareRows(shares), ShareRows(other),
           DistinctParties(shares), NEW b, Reordered(shares, other, b), NEW cents \in Nat,
           NEW n \in DOMAIN shares
    PROVE  computeShares(cents, shares)[n] = computeShares(cents, other)[b[n]]
<1> DEFINE D == DOMAIN shares
           E == DOMAIN other
           fr == FracOf(cents, shares)
           gr == FracOf(cents, other)
           fl == FloorOf(cents, shares)
           gl == FloorOf(cents, other)
           S == Before(RowOrder(shares, fr), D, n)
           T == Before(RowOrder(other, gr), E, b[n])
<1>0. IsFiniteSet(D) /\ n \in D
    BY PartsOfShares
<1>1. /\ \A m \in D : b[m] \in E /\ other[b[m]] = shares[m]
      /\ \A m, k \in D : b[m] = b[k] => m = k
      /\ \A k \in E : \E m \in D : b[m] = k
    BY DEF Reordered
<1>2. TotalBps(shares) = TotalBps(other)
    BY TotalIgnoresOrder
<1>3. \A m \in D : fl[m] = gl[b[m]] /\ fr[m] = gr[b[m]] /\ fl[m] \in Int
    <2>1. \A m \in D : fl[m] \in Int
        BY PartsOfShares
    <2>2. \A m \in D : shares[m].bps = other[b[m]].bps /\ b[m] \in E
        BY <1>1
    <2> QED
        BY <1>2, <2>1, <2>2 DEF FloorOf, FracOf
<1>4. LeftOver(cents, shares) = LeftOver(cents, other)
    <2>1. IntegerOn(fl, D)
        BY <1>3 DEF IntegerOn
    <2>2. SumOver(fl, D) = SumOver(gl, E)
        <3> HIDE DEF D, E, fl, gl
        <3> QED
            BY <1>0, <1>1, <1>3, <2>1, SumRenamed
    <2> QED
        BY <2>2 DEF LeftOver
<1>5. \A m \in D : m \in S <=> b[m] \in T
    <2> SUFFICES ASSUME NEW m \in D PROVE m \in S <=> b[m] \in T
        OBVIOUS
    <2>1. CASE m = n
        <3>1. m \notin S
            <4>1. TotalBps(shares) \in Nat
                BY PartsOfShares
            <4>2. \A k \in D : fr[k] \in Int
                BY <4>1, PartsOfShares
            <4>3. StrictOrder(RowOrder(shares, fr), D)
                BY <4>2, RowsAreOrdered
            <4> QED
                BY <2>1, <4>3 DEF Before, StrictOrder
        <3>2. b[m] \notin T
            <4>1. TotalBps(other) \in Nat
                BY PartsOfShares
            <4>2. \A k \in E : gr[k] \in Int
                BY <4>1, PartsOfShares
            <4>3. StrictOrder(RowOrder(other, gr), E)
                BY <4>2, RowsAreOrdered
            <4> QED
                BY <1>1, <2>1, <4>3 DEF Before, StrictOrder
        <3> QED
            BY <3>1, <3>2
    <2>2. CASE m # n
        <3>1. shares[m].party # shares[n].party
            BY <2>2 DEF DistinctParties
        <3>2. /\ fr[m] = gr[b[m]] /\ fr[n] = gr[b[n]] /\ b[m] \in E /\ b[n] \in E
              /\ shares[m].party = other[b[m]].party /\ shares[n].party = other[b[n]].party
            BY <1>1, <1>3
        <3>3. m \in S <=> \/ fr[m] > fr[n]
                          \/ fr[m] = fr[n] /\ shares[m].party < shares[n].party
            <4> HIDE DEF fr
            <4> QED
                BY <3>1 DEF Before, RowOrder
        <3>4. b[m] \in T <=> \/ gr[b[m]] > gr[b[n]]
                             \/ gr[b[m]] = gr[b[n]] /\ other[b[m]].party < other[b[n]].party
            <4> HIDE DEF gr
            <4> QED
                BY <3>1, <3>2 DEF Before, RowOrder
        <3> QED
            BY <3>2, <3>3, <3>4
    <2> QED
        BY <2>1, <2>2
<1>6. S \subseteq D /\ T \subseteq E
    BY DEF Before
<1>7. Cardinality(S) = Cardinality(T)
    <2>1. IsFiniteSet(S)
        BY <1>0, <1>6, FS_Subset
    <2>2. /\ \A x \in S : b[x] \in T
          /\ \A x, y \in S : b[x] = b[y] => x = y
          /\ \A y \in T : \E x \in S : b[x] = y
        <3> HIDE DEF S, T, D, E
        <3> QED
            BY <1>1, <1>5, <1>6
    <2> HIDE DEF S, T
    <2> QED
        BY <2>1, <2>2, SameSize
<1>8. RankOf(cents, shares, n) = RankOf(cents, other, b[n])
    BY <1>7 DEF RankOf
<1>9. b[n] \in DOMAIN other
    BY <1>1
<1>10. computeShares(cents, shares)[n] = fl[n]
          + IF RankOf(cents, shares, n) < LeftOver(cents, shares) THEN 1 ELSE 0
    BY EachShare
<1>11. computeShares(cents, other)[b[n]] = gl[b[n]]
          + IF RankOf(cents, other, b[n]) < LeftOver(cents, other) THEN 1 ELSE 0
    BY <1>9, EachShare
<1> QED
    BY <1>0, <1>3, <1>4, <1>8, <1>10, <1>11

(***************************************************************************)
(* split: the beneficiaries share the rounded part of the charge, each     *)
(* gets an amount, and what is left to the platform is not negative.       *)
(***************************************************************************)
LEMMA SplitOfCharge ==
    ASSUME NEW shares, ShareRows(shares), NEW cents \in Nat
    PROVE  LET pool == RoundedRatio(cents, TotalBps(shares), BpsUnit)
           IN  /\ pool \in Nat
               /\ split(cents, shares).shares = computeShares(pool, shares)
               /\ SumFunction(split(cents, shares).shares) = pool
               /\ split(cents, shares).platform = cents - pool
               /\ split(cents, shares).platform \in Nat
               /\ \A n \in DOMAIN shares : split(cents, shares).shares[n] \in Nat
<1> DEFINE pool == RoundedRatio(cents, TotalBps(shares), BpsUnit)
<1>1. TotalBps(shares) \in Nat /\ TotalBps(shares) <= BpsUnit
    BY PartsOfShares DEF ShareRows, ValidShares
<1>2. pool \in Nat /\ pool <= cents
    BY <1>1, RoundedRatioBounds, BpsUnitAssumption
<1>3. /\ split(cents, shares).shares = computeShares(pool, shares)
      /\ split(cents, shares).platform = cents - SumFunction(computeShares(pool, shares))
    BY DEF split
<1> HIDE DEF pool
<1>4. SumFunction(computeShares(pool, shares)) = pool
    BY <1>2, SharesAddUp
<1>5. \A n \in DOMAIN shares : computeShares(pool, shares)[n] \in Nat
    BY <1>2, EachShare
<1> QED
    BY <1>2, <1>3, <1>4, <1>5 DEF pool
=============================================================================
