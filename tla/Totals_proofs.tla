---------------------------- MODULE Totals_proofs ----------------------------
(***************************************************************************)
(* Facts about sums and least and greatest elements that the proofs about  *)
(* the components rest on.                                                 *)
(***************************************************************************)
EXTENDS Totals, FiniteSetTheorems, WellFoundedInduction, TLAPS

\* A non-empty set of naturals has a least element.
LEMMA LeastNatural ==
  ASSUME NEW T, T \subseteq Nat, T # {}
  PROVE  \E x \in T : \A y \in T : x <= y
<1>1. PICK x \in T : \A y \in T : ~ (<<y, x>> \in OpToRel(<, Nat))
  BY NatLessThanWellFounded, WFMin
<1>2. ASSUME NEW y \in T
      PROVE  x <= y
  <2>1. ~ (y < x)
    <3>1. <<y, x>> \in Nat \X Nat
      OBVIOUS
    <3>2. <<y, x>> \notin {ss \in Nat \X Nat : ss[1] < ss[2]}
      BY <1>1 DEF OpToRel
    <3> QED
      BY <3>1, <3>2
  <2> QED
    BY <2>1
<1> QED
  BY <1>2

\* A non-empty set of naturals with a bound has a greatest element.
LEMMA GreatestNatural ==
  ASSUME NEW T, NEW n \in Nat, T \subseteq 0..n, T # {}
  PROVE  \E x \in T : \A y \in T : y <= x
<1> DEFINE D == {k \in Nat : \E t \in T : k + t = n}
<1>1. \A t \in T : n - t \in D
  OBVIOUS
<1>2. D \subseteq Nat /\ D # {}
  BY <1>1
<1>3. PICK d \in D : \A e \in D : d <= e
  <2> HIDE DEF D
  <2> QED
    BY <1>2, LeastNatural
<1>4. PICK x \in T : d + x = n
  OBVIOUS
<1>5. ASSUME NEW y \in T PROVE y <= x
  <2>1. d <= n - y
    BY <1>1, <1>3
  <2>2. d \in Int /\ x \in Int /\ y \in Int
    OBVIOUS
  <2> QED
    BY <2>1, <2>2, <1>4
<1> QED
  BY <1>5

\* A set of coins holds finitely many.
LEMMA CoinsFinite ==
  ASSUME NEW S, IsFiniteSet(S), NEW f, \A x \in S : f[x] \in Nat
  PROVE  IsFiniteSet(Coins(f, S))
<1> DEFINE Piles == {CoinsOf(f, x) : x \in S}
           pile == [x \in S |-> CoinsOf(f, x)]
<1>1. IsFiniteSet(Piles)
  <2>1. pile \in Surjection(S, Piles)
    BY DEF Surjection
  <2> QED
    BY <2>1, FS_Surjection
<1>2. \A P \in Piles : IsFiniteSet(P)
  <2>1. SUFFICES ASSUME NEW x \in S PROVE IsFiniteSet(CoinsOf(f, x))
    OBVIOUS
  <2>2. f[x] \in Nat
    OBVIOUS
  <2>3. IsFiniteSet({x}) /\ IsFiniteSet(1..f[x])
    <3>1. IsFiniteSet({x})
      BY FS_Singleton
    <3>2. IsFiniteSet(1..f[x])
      BY <2>2, FS_Interval
    <3> QED
      BY <3>1, <3>2
  <2> QED
    BY <2>3, FS_Product DEF CoinsOf
<1>3. IsFiniteSet(UNION Piles)
  BY <1>1, <1>2, FS_UNION
<1> QED
  BY <1>3 DEF Coins

\* A total of naturals is a natural.
LEMMA TotalNat ==
  ASSUME NEW S, IsFiniteSet(S), NEW f, \A x \in S : f[x] \in Nat
  PROVE  Total(f, S) \in Nat
BY CoinsFinite, FS_CardinalityType DEF Total

\* Totals over disjoint sets add up.
LEMMA TotalUnion ==
  ASSUME NEW S, NEW T, IsFiniteSet(S), IsFiniteSet(T), S \cap T = {},
         NEW f, \A x \in S \cup T : f[x] \in Nat
  PROVE  Total(f, S \cup T) = Total(f, S) + Total(f, T)
<1>1. Coins(f, S \cup T) = Coins(f, S) \cup Coins(f, T)
  BY DEF Coins
<1>2. Coins(f, S) \cap Coins(f, T) = {}
  BY DEF Coins, CoinsOf
<1>3. IsFiniteSet(Coins(f, S)) /\ IsFiniteSet(Coins(f, T))
  BY CoinsFinite
<1>4. Cardinality(Coins(f, S) \cup Coins(f, T))
        = Cardinality(Coins(f, S)) + Cardinality(Coins(f, T)) - Cardinality({})
  BY <1>2, <1>3, FS_Union
<1>6. Cardinality({}) = 0
  BY FS_EmptySet
<1>5. Cardinality(Coins(f, S)) \in Nat /\ Cardinality(Coins(f, T)) \in Nat
  BY <1>3, FS_CardinalityType
<1>7. Cardinality(Coins(f, S) \cup Coins(f, T))
        = Cardinality(Coins(f, S)) + Cardinality(Coins(f, T))
  BY <1>4, <1>5, <1>6
<1> QED
  BY <1>1, <1>7, Zenon DEF Total

\* The total over one element is its value.
LEMMA TotalSingleton ==
  ASSUME NEW x, NEW f, f[x] \in Nat
  PROVE  Total(f, {x}) = f[x]
<1>1. Coins(f, {x}) = {x} \X (1..f[x])
  BY DEF Coins, CoinsOf
<1>2. f[x] \in Nat
  OBVIOUS
<1>3. IsFiniteSet({x}) /\ Cardinality({x}) = 1
  BY FS_Singleton
<1>4. IsFiniteSet(1..f[x]) /\ Cardinality(1..f[x]) = f[x]
  BY <1>2, FS_Interval
<1>5. Cardinality({x} \X (1..f[x])) = Cardinality({x}) * Cardinality(1..f[x])
  BY <1>3, <1>4, FS_Product, Zenon
<1>6. Cardinality({x} \X (1..f[x])) = f[x]
  BY <1>2, <1>3, <1>4, <1>5
<1> QED
  BY <1>1, <1>6, Zenon DEF Total

\* A total depends on the values over its set only.
LEMMA TotalSame ==
  ASSUME NEW S, NEW f, NEW g, \A x \in S : f[x] = g[x]
  PROVE  Total(f, S) = Total(g, S)
<1>1. \A x \in S : CoinsOf(f, x) = CoinsOf(g, x)
  BY DEF CoinsOf
<1>2. Coins(f, S) = Coins(g, S)
  BY <1>1 DEF Coins
<1> QED
  BY <1>2 DEF Total

\* A total of zeros is zero.
LEMMA TotalZero ==
  ASSUME NEW S, NEW f, \A x \in S : f[x] = 0
  PROVE  Total(f, S) = 0
<1>1. \A x \in S : CoinsOf(f, x) = {}
  <2>1. 1..0 = {}
    OBVIOUS
  <2> QED
    BY <2>1 DEF CoinsOf
<1>2. Coins(f, S) = {}
  BY <1>1 DEF Coins
<1> QED
  BY <1>2, FS_EmptySet DEF Total

\* One element can be taken out of a total.
LEMMA TotalSplit ==
  ASSUME NEW S, IsFiniteSet(S), NEW x \in S, NEW f, \A y \in S : f[y] \in Nat
  PROVE  Total(f, S) = Total(f, S \ {x}) + f[x]
<1> DEFINE U == S \ {x}
           V == {x}
<1>1. IsFiniteSet(U)
  BY FS_RemoveElement
<1>2. IsFiniteSet(V)
  BY FS_Singleton
<1>3. S = U \cup V /\ U \cap V = {}
  OBVIOUS
<1>4. Total(f, V) = f[x]
  BY TotalSingleton
<1> HIDE DEF U, V
<1>5. Total(f, U \cup V) = Total(f, U) + Total(f, V)
  BY <1>1, <1>2, <1>3, TotalUnion
<1>6. Total(f, S) = Total(f, U) + f[x]
  BY <1>3, <1>4, <1>5
<1> QED
  BY <1>6 DEF U

\* Two totals that differ at one element only, in its value or its membership.
LEMMA TotalUpdate ==
  ASSUME NEW S, IsFiniteSet(S), NEW x \in S, NEW A \in SUBSET S, NEW B \in SUBSET S,
         NEW f, NEW g, \A y \in S : f[y] \in Nat /\ g[y] \in Nat,
         \A y \in S \ {x} : (y \in A <=> y \in B) /\ f[y] = g[y]
  PROVE  /\ Total(f, A) \in Nat /\ Total(g, B) \in Nat
         /\ Total(g, B) + (IF x \in A THEN f[x] ELSE 0)
              = Total(f, A) + (IF x \in B THEN g[x] ELSE 0)
<1> DEFINE U == A \ {x}
<1>1. U = B \ {x} /\ IsFiniteSet(A) /\ IsFiniteSet(B) /\ IsFiniteSet(U)
  <2>1. IsFiniteSet(A) /\ IsFiniteSet(B)
    BY FS_Subset
  <2>2. IsFiniteSet(U)
    BY <2>1, FS_Difference
  <2> QED
    BY <2>1, <2>2
<1>2. Total(f, U) = Total(g, U)
  BY TotalSame
<1>3. Total(f, U) \in Nat
  BY <1>1, TotalNat
<1>4. ASSUME NEW h, NEW C \in SUBSET S, IsFiniteSet(C), C \ {x} = U, \A y \in S : h[y] \in Nat
      PROVE  Total(h, C) = Total(h, U) + (IF x \in C THEN h[x] ELSE 0)
  <2>1. CASE x \in C
    <3>1. Total(h, C) = Total(h, C \ {x}) + h[x]
      BY <1>4, <2>1, TotalSplit
    <3> QED
      BY <1>4, <2>1, <3>1
  <2>2. CASE x \notin C
    <3>1. C = U
      BY <1>4, <2>2
    <3>2. Total(h, U) \in Nat
      BY <1>1, <1>4, TotalNat
    <3> HIDE DEF U
    <3> QED
      BY <2>2, <3>1, <3>2
  <2> QED
    BY <2>1, <2>2
<1>5. Total(f, A) = Total(f, U) + (IF x \in A THEN f[x] ELSE 0)
  BY <1>1, <1>4
<1>6. Total(g, B) = Total(g, U) + (IF x \in B THEN g[x] ELSE 0)
  BY <1>1, <1>4
<1> HIDE DEF U
<1> QED
  BY <1>2, <1>3, <1>5, <1>6

\* A part of a total that drops to zero leaves the rest.
LEMMA TotalDrop ==
  ASSUME NEW S, IsFiniteSet(S), NEW P, NEW f, NEW g, \A y \in S : f[y] \in Nat,
         \A y \in S : g[y] = IF y \in P THEN 0 ELSE f[y]
  PROVE  /\ Total(g, S) \in Nat /\ Total(f, P \cap S) \in Nat /\ Total(f, S) \in Nat
         /\ Total(g, S) + Total(f, P \cap S) = Total(f, S)
<1> DEFINE U == P \cap S
           V == S \ P
<1>1. IsFiniteSet(U) /\ IsFiniteSet(V)
  BY FS_Subset
<1>2. S = U \cup V /\ U \cap V = {}
  OBVIOUS
<1>3. \A y \in U \cup V : f[y] \in Nat /\ g[y] \in Nat
  OBVIOUS
<1>4. Coins(g, U) = {}
  BY DEF Coins, CoinsOf
<1>5. Total(g, U) = 0
  BY <1>4, FS_EmptySet, Zenon DEF Total
<1>6. Total(g, V) = Total(f, V)
  BY TotalSame
<1> HIDE DEF U, V
<1>7. Total(f, S) = Total(f, U) + Total(f, V)
  BY <1>1, <1>2, <1>3, TotalUnion
<1>8. Total(g, S) = Total(g, U) + Total(g, V)
  BY <1>1, <1>2, <1>3, TotalUnion
<1>9. Total(f, U) \in Nat /\ Total(f, V) \in Nat
  BY <1>1, <1>3, TotalNat
<1>10. /\ Total(g, S) \in Nat /\ Total(f, U) \in Nat /\ Total(f, S) \in Nat
       /\ Total(g, S) + Total(f, U) = Total(f, S)
  BY <1>5, <1>6, <1>7, <1>8, <1>9
<1> QED
  BY <1>10 DEF U

\* Totals of a pointwise sum add up: the coins of h are those of f, and the
\* coins of g laid after them.
LEMMA TotalSum ==
  ASSUME NEW S, IsFiniteSet(S), NEW f, NEW g, NEW h,
         \A x \in S : f[x] \in Nat /\ g[x] \in Nat /\ h[x] = f[x] + g[x]
  PROVE  Total(h, S) = Total(f, S) + Total(g, S)
<1> DEFINE After == UNION {{x} \X ((f[x] + 1)..h[x]) : x \in S}
           lay == [c \in Coins(g, S) |-> <<c[1], f[c[1]] + c[2]>>]
<1>1. Coins(h, S) = Coins(f, S) \cup After
  <2>1. \A x \in S : 1..h[x] = (1..f[x]) \cup ((f[x] + 1)..h[x])
    OBVIOUS
  <2>2. \A x \in S : CoinsOf(h, x) = CoinsOf(f, x) \cup ({x} \X ((f[x] + 1)..h[x]))
    BY <2>1 DEF CoinsOf
  <2> QED
    BY <2>2 DEF Coins
<1>2. Coins(f, S) \cap After = {}
  <2>1. \A x \in S : (1..f[x]) \cap ((f[x] + 1)..h[x]) = {}
    OBVIOUS
  <2>2. \A x, y \in S : CoinsOf(f, x) \cap ({y} \X ((f[y] + 1)..h[y])) = {}
    BY <2>1 DEF CoinsOf
  <2> QED
    BY <2>2 DEF Coins
<1>3. lay \in Bijection(Coins(g, S), After)
  <2>1. \A c \in Coins(g, S) : /\ c[1] \in S /\ c[2] \in 1..g[c[1]]
                               /\ c = <<c[1], c[2]>>
    BY DEF Coins, CoinsOf
  <2>2. ASSUME NEW c \in Coins(g, S)
        PROVE  lay[c] \in After
    <3>1. c[1] \in S /\ f[c[1]] + c[2] \in (f[c[1]] + 1)..h[c[1]]
      BY <2>1
    <3>2. lay[c] \in {c[1]} \X ((f[c[1]] + 1)..h[c[1]])
      BY <3>1
    <3> QED
      BY <3>1, <3>2
  <2>3. ASSUME NEW a \in Coins(g, S), NEW b \in Coins(g, S), lay[a] = lay[b]
        PROVE  a = b
    <3>1. a[1] = b[1] /\ f[a[1]] + a[2] = f[b[1]] + b[2]
      BY <2>3
    <3>2. a[2] = b[2]
      BY <2>1, <3>1
    <3> QED
      BY <2>1, <3>1, <3>2
  <2>4. ASSUME NEW t \in After
        PROVE  \E c \in Coins(g, S) : lay[c] = t
    <3>1. PICK x \in S : t \in {x} \X ((f[x] + 1)..h[x])
      OBVIOUS
    <3>2. t = <<x, t[2]>> /\ t[2] \in (f[x] + 1)..h[x]
      BY <3>1
    <3>3. t[2] - f[x] \in 1..g[x] /\ f[x] + (t[2] - f[x]) = t[2]
      BY <3>2
    <3>4. <<x, t[2] - f[x]>> \in Coins(g, S)
      BY <3>3 DEF Coins, CoinsOf
    <3> QED
      BY <3>2, <3>3, <3>4
  <2>5. lay \in [Coins(g, S) -> After]
    <3> HIDE DEF After
    <3> QED
      BY <2>2
  <2> HIDE DEF lay, After
  <2>6. lay \in Injection(Coins(g, S), After)
    BY <2>3, <2>5 DEF Injection, IsInjective
  <2>7. lay \in Surjection(Coins(g, S), After)
    BY <2>4, <2>5 DEF Surjection
  <2> QED
    BY <2>6, <2>7 DEF Bijection
<1> HIDE DEF lay, After
<1>4. IsFiniteSet(Coins(f, S)) /\ IsFiniteSet(Coins(g, S))
  BY CoinsFinite
<1>5. IsFiniteSet(After) /\ Cardinality(After) = Cardinality(Coins(g, S))
  <2>1. ExistsBijection(Coins(g, S), After)
    BY <1>3 DEF ExistsBijection
  <2> QED
    BY <1>4, <2>1, FS_Bijection
<1>6. Cardinality(Coins(f, S) \cup After)
        = Cardinality(Coins(f, S)) + Cardinality(After) - Cardinality({})
  BY <1>2, <1>4, <1>5, FS_Union
<1>7. Cardinality({}) = 0 /\ Total(f, S) \in Nat /\ Total(g, S) \in Nat
  BY FS_EmptySet, TotalNat
<1> QED
  BY <1>1, <1>5, <1>6, <1>7 DEF Total

-------------------------------------------------------------------------------
(* Sums of integers *)

\* However the values are written as differences, the sum is the difference.
LEMMA SumOfDifferences ==
  ASSUME NEW S, IsFiniteSet(S), NEW f, NEW p, NEW n,
         \A x \in S : p[x] \in Nat /\ n[x] \in Nat /\ f[x] = p[x] - n[x]
  PROVE  /\ SumOver(f, S) = Total(p, S) - Total(n, S)
         /\ Total(p, S) \in Nat /\ Total(n, S) \in Nat /\ SumOver(f, S) \in Int
<1> DEFINE pos == [x \in S |-> IF f[x] > 0 THEN f[x] ELSE 0]
           neg == [x \in S |-> IF f[x] < 0 THEN -f[x] ELSE 0]
           minus == [x \in S |-> -f[x]]
           both == [x \in S |-> pos[x] + n[x]]
<1>1. \A x \in S : /\ f[x] \in Int /\ pos[x] \in Nat /\ neg[x] \in Nat
                   /\ both[x] = pos[x] + n[x] /\ both[x] = p[x] + neg[x]
  OBVIOUS
<1>2. Total(f, S) = Total(pos, S)
  <2>1. \A x \in S : 1..f[x] = 1..pos[x]
    BY <1>1
  <2>2. \A x \in S : CoinsOf(f, x) = CoinsOf(pos, x)
    BY <2>1 DEF CoinsOf
  <2> HIDE DEF pos
  <2>3. Coins(f, S) = Coins(pos, S)
    BY <2>2 DEF Coins
  <2> QED
    BY <2>3 DEF Total
<1>3. Total(minus, S) = Total(neg, S)
  <2>1. \A x \in S : 1..minus[x] = 1..neg[x]
    BY <1>1
  <2>2. \A x \in S : CoinsOf(minus, x) = CoinsOf(neg, x)
    BY <2>1 DEF CoinsOf
  <2> HIDE DEF neg, minus
  <2>3. Coins(minus, S) = Coins(neg, S)
    BY <2>2 DEF Coins
  <2> QED
    BY <2>3 DEF Total
<1>4. SumOver(f, S) = Total(f, S) - Total(minus, S)
  BY DEF SumOver
<1> HIDE DEF pos, neg, minus, both
<1>5. Total(both, S) = Total(pos, S) + Total(n, S)
  BY <1>1, TotalSum
<1>6. Total(both, S) = Total(p, S) + Total(neg, S)
  BY <1>1, TotalSum
<1>7. /\ Total(p, S) \in Nat /\ Total(n, S) \in Nat
      /\ Total(pos, S) \in Nat /\ Total(neg, S) \in Nat
  BY <1>1, TotalNat
<1> QED
  BY <1>2, <1>3, <1>4, <1>5, <1>6, <1>7

\* Every integer function is such a difference.
Pos(f, S) == [x \in S |-> IF f[x] > 0 THEN f[x] ELSE 0]
Neg(f, S) == [x \in S |-> IF f[x] < 0 THEN -f[x] ELSE 0]

\* Positive and negative parts make up the sum.
LEMMA SumParts ==
  ASSUME NEW S, IsFiniteSet(S), NEW f, \A x \in S : f[x] \in Int
  PROVE  /\ \A x \in S : /\ Pos(f, S)[x] \in Nat /\ Neg(f, S)[x] \in Nat
                         /\ f[x] = Pos(f, S)[x] - Neg(f, S)[x]
         /\ SumOver(f, S) = Total(Pos(f, S), S) - Total(Neg(f, S), S)
         /\ Total(Pos(f, S), S) \in Nat /\ Total(Neg(f, S), S) \in Nat
<1> DEFINE p == Pos(f, S)
           n == Neg(f, S)
<1>1. \A x \in S : p[x] \in Nat /\ n[x] \in Nat /\ f[x] = p[x] - n[x]
  BY DEF Pos, Neg
<1> HIDE DEF p, n
<1>2. SumOver(f, S) = Total(p, S) - Total(n, S) /\ Total(p, S) \in Nat /\ Total(n, S) \in Nat
  BY <1>1, SumOfDifferences
<1> QED
  BY <1>1, <1>2 DEF p, n

\* Sums of a pointwise sum add up.
LEMMA SumAdd ==
  ASSUME NEW S, IsFiniteSet(S), NEW f, NEW g, NEW h,
         \A x \in S : f[x] \in Int /\ g[x] \in Int /\ h[x] = f[x] + g[x]
  PROVE  /\ SumOver(f, S) \in Int /\ SumOver(g, S) \in Int
         /\ SumOver(h, S) = SumOver(f, S) + SumOver(g, S)
<1> DEFINE fp == Pos(f, S)
           fn == Neg(f, S)
           gp == Pos(g, S)
           gn == Neg(g, S)
           hp == [x \in S |-> fp[x] + gp[x]]
           hn == [x \in S |-> fn[x] + gn[x]]
<1>1. /\ \A x \in S : fp[x] \in Nat /\ fn[x] \in Nat /\ f[x] = fp[x] - fn[x]
      /\ SumOver(f, S) = Total(fp, S) - Total(fn, S)
      /\ Total(fp, S) \in Nat /\ Total(fn, S) \in Nat
  BY SumParts
<1>2. /\ \A x \in S : gp[x] \in Nat /\ gn[x] \in Nat /\ g[x] = gp[x] - gn[x]
      /\ SumOver(g, S) = Total(gp, S) - Total(gn, S)
      /\ Total(gp, S) \in Nat /\ Total(gn, S) \in Nat
  BY SumParts
<1> HIDE DEF fp, fn, gp, gn
<1>3. \A x \in S : /\ hp[x] = fp[x] + gp[x] /\ hn[x] = fn[x] + gn[x]
                   /\ hp[x] \in Nat /\ hn[x] \in Nat /\ h[x] = hp[x] - hn[x]
  BY <1>1, <1>2
<1> HIDE DEF hp, hn
<1>4. Total(hp, S) = Total(fp, S) + Total(gp, S)
  BY <1>1, <1>2, <1>3, TotalSum
<1>5. Total(hn, S) = Total(fn, S) + Total(gn, S)
  BY <1>1, <1>2, <1>3, TotalSum
<1>6. SumOver(h, S) = Total(hp, S) - Total(hn, S)
  BY <1>3, SumOfDifferences
<1> QED
  BY <1>1, <1>2, <1>4, <1>5, <1>6

\* The sum only depends on the values.
LEMMA SumSame ==
  ASSUME NEW S, NEW f, NEW g, \A x \in S : f[x] = g[x]
  PROVE  SumOver(f, S) = SumOver(g, S)
<1>1. Total(f, S) = Total(g, S)
  BY TotalSame
<1>2. [x \in S |-> -f[x]] = [x \in S |-> -g[x]]
  OBVIOUS
<1> QED
  BY <1>1, <1>2 DEF SumOver

\* A sum of zeros is zero.
LEMMA SumZero ==
  ASSUME NEW S, IsFiniteSet(S), NEW f, \A x \in S : f[x] = 0
  PROVE  SumOver(f, S) = 0
<1> DEFINE z == [x \in S |-> 0]
<1>1. \A x \in S : z[x] \in Nat /\ z[x] = 0 /\ f[x] = z[x] - z[x]
  OBVIOUS
<1> HIDE DEF z
<1>2. SumOver(f, S) = Total(z, S) - Total(z, S) /\ Total(z, S) \in Nat
  BY <1>1, SumOfDifferences
<1> QED
  BY <1>2

\* What is outside A contributes nothing when it is zero.
LEMMA SumWithin ==
  ASSUME NEW S, IsFiniteSet(S), NEW A \in SUBSET S, NEW f, NEW g,
         \A x \in A : g[x] \in Int /\ f[x] = g[x], \A x \in S \ A : f[x] = 0
  PROVE  SumOver(f, S) = SumOver(g, A) /\ SumOver(g, A) \in Int
<1> DEFINE p == Pos(g, A)
           n == Neg(g, A)
<1>0. IsFiniteSet(A) /\ \A x \in A : g[x] \in Int
  BY FS_Subset
<1>1. /\ \A x \in A : p[x] \in Nat /\ n[x] \in Nat /\ g[x] = p[x] - n[x]
      /\ SumOver(g, A) = Total(p, A) - Total(n, A)
      /\ Total(p, A) \in Nat /\ Total(n, A) \in Nat
  BY <1>0, SumParts
<1> HIDE DEF p, n
<1> DEFINE sp == [x \in S |-> IF x \in A THEN p[x] ELSE 0]
           sn == [x \in S |-> IF x \in A THEN n[x] ELSE 0]
           R == S \ A
<1>2. /\ \A x \in S : sp[x] \in Nat /\ sn[x] \in Nat /\ f[x] = sp[x] - sn[x]
      /\ \A x \in A : sp[x] = p[x] /\ sn[x] = n[x]
      /\ \A x \in R : sp[x] = 0 /\ sn[x] = 0
  BY <1>1
<1>3. IsFiniteSet(A) /\ IsFiniteSet(R) /\ S = A \cup R /\ A \cap R = {}
  BY FS_Subset
<1> HIDE DEF sp, sn, R
<1>4. Total(sp, S) = Total(sp, A) + Total(sp, R) /\ Total(sn, S) = Total(sn, A) + Total(sn, R)
  BY <1>2, <1>3, TotalUnion
<1>5. Total(sp, A) = Total(p, A) /\ Total(sn, A) = Total(n, A)
  BY <1>2, TotalSame
<1>6. Total(sp, R) = 0 /\ Total(sn, R) = 0
  BY <1>2, TotalZero
<1>7. SumOver(f, S) = Total(sp, S) - Total(sn, S)
  BY <1>2, SumOfDifferences
<1> QED
  BY <1>1, <1>4, <1>5, <1>6, <1>7

\* The sum over one point.
LEMMA SumOne ==
  ASSUME NEW x, NEW f, f[x] \in Int
  PROVE  SumOver(f, {x}) = f[x]
<1> DEFINE A == {x}
           p == Pos(f, A)
           n == Neg(f, A)
<1>1. IsFiniteSet(A) /\ \A y \in A : f[y] \in Int
  BY FS_Singleton
<1>2. /\ \A y \in A : p[y] \in Nat /\ n[y] \in Nat /\ f[y] = p[y] - n[y]
      /\ SumOver(f, A) = Total(p, A) - Total(n, A)
  <2> HIDE DEF A
  <2> QED
    BY <1>1, SumParts
<1>3. p[x] \in Nat /\ n[x] \in Nat /\ f[x] = p[x] - n[x]
  BY <1>2
<1> HIDE DEF p, n
<1>4. Total(p, {x}) = p[x] /\ Total(n, {x}) = n[x]
  BY <1>3, TotalSingleton
<1> QED
  BY <1>2, <1>3, <1>4

\* Changing one point changes the sum by as much.
LEMMA SumUpdate ==
  ASSUME NEW S, IsFiniteSet(S), NEW x \in S, NEW f, NEW g,
         \A y \in S : f[y] \in Int /\ g[y] \in Int, \A y \in S \ {x} : f[y] = g[y]
  PROVE  /\ SumOver(f, S) \in Int /\ SumOver(g, S) \in Int
         /\ SumOver(g, S) = SumOver(f, S) + (g[x] - f[x])
<1> DEFINE d == [y \in S |-> g[y] - f[y]]
           A == {x}
<1>1. \A y \in S : d[y] \in Int /\ g[y] = f[y] + d[y]
  OBVIOUS
<1>2. \A y \in S \ A : d[y] = 0
  OBVIOUS
<1>3. d[x] = g[x] - f[x] /\ d[x] \in Int
  OBVIOUS
<1> HIDE DEF d
<1>4. SumOver(d, A) = d[x]
  BY <1>3, SumOne
<1>5. SumOver(d, S) = SumOver(d, A)
  <2>1. \A y \in A : d[y] \in Int /\ d[y] = d[y]
    BY <1>1
  <2>2. A \in SUBSET S
    OBVIOUS
  <2> HIDE DEF A
  <2> QED
    BY <1>2, <2>1, <2>2, SumWithin
<1>6. /\ SumOver(f, S) \in Int /\ SumOver(d, S) \in Int
      /\ SumOver(g, S) = SumOver(f, S) + SumOver(d, S)
  BY <1>1, SumAdd
<1> QED
  BY <1>3, <1>4, <1>5, <1>6

\* A sum of equal values is a product.
LEMMA SumConstant ==
  ASSUME NEW S, IsFiniteSet(S), NEW c \in Nat, NEW f, \A x \in S : f[x] = c
  PROVE  SumOver(f, S) = c * Cardinality(S)
<1> DEFINE z == [x \in S |-> 0]
<1>1. \A x \in S : f[x] \in Nat /\ z[x] \in Nat /\ z[x] = 0 /\ f[x] = f[x] - z[x]
  OBVIOUS
<1> HIDE DEF z
<1>2. SumOver(f, S) = Total(f, S) - Total(z, S) /\ Total(f, S) \in Nat
  BY <1>1, SumOfDifferences
<1>3. Total(z, S) = 0
  BY <1>1, TotalZero
<1>4. Coins(f, S) = S \X (1..c)
  BY DEF Coins, CoinsOf
<1>5. IsFiniteSet(1..c) /\ Cardinality(1..c) = c
  BY FS_Interval
<1>6. Cardinality(S \X (1..c)) = Cardinality(S) * Cardinality(1..c)
  BY <1>5, FS_Product, Zenon
<1>7. Cardinality(S) \in Nat
  BY FS_CardinalityType
<1> QED
  BY <1>2, <1>3, <1>4, <1>5, <1>6, <1>7 DEF Total

\* The sum over two elements.
LEMMA SumTwo ==
  ASSUME NEW a, NEW b, a # b, NEW f, f[a] \in Int, f[b] \in Int
  PROVE  SumOver(f, {a, b}) = f[a] + f[b]
<1> DEFINE S == {a, b}
           B == {b}
           g == [x \in S |-> IF x = a THEN 0 ELSE f[b]]
<1>1. IsFiniteSet(S)
  <2>1. S = B \cup {a}
    OBVIOUS
  <2>2. IsFiniteSet(B)
    BY FS_Singleton
  <2> QED
    BY <2>1, <2>2, FS_AddElement
<1>2. /\ \A y \in S : f[y] \in Int /\ g[y] \in Int
      /\ \A y \in S \ {a} : g[y] = f[y]
      /\ g[a] = 0 /\ a \in S /\ B \in SUBSET S
      /\ \A y \in B : f[y] \in Int /\ g[y] = f[y]
      /\ \A y \in S \ B : g[y] = 0
  OBVIOUS
<1> HIDE DEF S, B, g
<1>3. SumOver(f, S) = SumOver(g, S) + (f[a] - g[a])
  BY <1>1, <1>2, SumUpdate
<1>4. SumOver(g, S) = SumOver(f, B)
  BY <1>1, <1>2, SumWithin
<1>5. SumOver(f, B) = f[b]
  BY SumOne DEF B
<1> QED
  BY <1>2, <1>3, <1>4, <1>5 DEF S

\* An element that joins adds its value.
LEMMA SumInsert ==
  ASSUME NEW S, IsFiniteSet(S), NEW x, x \notin S, NEW f, \A y \in S \cup {x} : f[y] \in Int
  PROVE  /\ SumOver(f, S) \in Int
         /\ SumOver(f, S \cup {x}) = SumOver(f, S) + f[x]
<1> DEFINE T == S \cup {x}
           g == [y \in T |-> IF y = x THEN 0 ELSE f[y]]
<1>1. IsFiniteSet(T)
  BY FS_AddElement
<1>2. /\ S \in SUBSET T /\ x \in T
      /\ \A y \in S : f[y] \in Int /\ g[y] = f[y]
      /\ \A y \in T \ S : g[y] = 0
      /\ \A y \in T : g[y] \in Int /\ f[y] \in Int
      /\ \A y \in T \ {x} : g[y] = f[y]
      /\ g[x] = 0
  OBVIOUS
<1> HIDE DEF T, g
<1>3. SumOver(g, T) = SumOver(f, S) /\ SumOver(f, S) \in Int
  BY <1>1, <1>2, SumWithin
<1>4. SumOver(f, T) = SumOver(g, T) + (f[x] - g[x])
  BY <1>1, <1>2, SumUpdate
<1> QED
  BY <1>2, <1>3, <1>4 DEF T
===============================================================================
