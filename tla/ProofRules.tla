------------------------------ MODULE ProofRules ------------------------------
(***************************************************************************)
(* Rules that the proofs of several modules use: induction over the        *)
(* natural numbers for a set of them, functions that are defined by        *)
(* recursion, sums over a finite set counted as tokens, the arithmetic of  *)
(* counters that wrap, and shortest ways (ShortestWays).                   *)
(***************************************************************************)
EXTENDS ShortestWays, FiniteSetTheorems, WellFoundedInduction, TLAPS

\* Every set of naturals that is not empty has a least element.
LEMMA LeastNatural ==
  \A T \in SUBSET Nat : T # {} => \E x \in T : \A y \in T : x <= y
<1> SUFFICES ASSUME NEW T \in SUBSET Nat, T # {} PROVE \E x \in T : \A y \in T : x <= y
  OBVIOUS
<1> DEFINE Less == {ss \in Nat \X Nat : ss[1] < ss[2]}
<1>1. IsWellFoundedOn(Less, Nat)
  BY NatLessThanWellFounded DEF OpToRel
<1>2. \A x, y \in Nat : y < x => <<y, x>> \in Less
  OBVIOUS
<1> HIDE DEF Less
<1>3. PICK x \in T : \A y \in T : <<y, x>> \notin Less
  BY <1>1, WFMin, Zenon
<1>4. ASSUME NEW y \in T PROVE ~(y < x)
  BY <1>2, <1>3, x \in Nat, y \in Nat, Zenon
<1>5. \A y \in T : x <= y
  BY <1>4, x \in Nat
<1> QED BY <1>5

\* Induction: a set of naturals that has 0, and the successor of each of its
\* elements, has them all.
LEMMA InductionOverNat ==
  \A T \in SUBSET Nat : 0 \in T /\ (\A n \in T : n + 1 \in T) => T = Nat
<1> SUFFICES ASSUME NEW T \in SUBSET Nat, 0 \in T, \A n \in T : n + 1 \in T, T # Nat
             PROVE  FALSE
  OBVIOUS
<1>1. PICK x \in Nat \ T : \A y \in Nat \ T : x <= y
  <2>1. Nat \ T \in SUBSET Nat /\ Nat \ T # {}
    OBVIOUS
  <2> QED BY <2>1, LeastNatural
<1>2. x # 0 /\ x - 1 \in Nat /\ x - 1 + 1 = x
  BY <1>1
<1>3. x - 1 \in T
  BY <1>1, <1>2
<1> QED BY <1>2, <1>3

-----------------------------------------------------------------------------
\* g lists the first n + 1 values that F makes of a.
Iterates(g, n, a, F) ==
  /\ DOMAIN g = 0..n
  /\ g[0] = a
  /\ \A i \in 0..(n - 1) : g[i + 1] = F[g[i]]

\* There is a function that starts with a and makes each value of the one before.
LEMMA RecursionOverNat ==
  ASSUME NEW V, NEW a \in V, NEW F \in [V -> V]
  PROVE  \E f \in [Nat -> V] : f[0] = a /\ \A k \in Nat : f[k + 1] = F[f[k]]
<1> DEFINE It(g, n) == Iterates(g, n, a, F)
           Made == {n \in Nat : \E g : It(g, n)}
<1>1. Made = Nat
  <2>1. 0 \in Made
    <3>1. It([i \in 0..0 |-> a], 0)
      BY DEF Iterates
    <3> QED BY <3>1
  <2>2. ASSUME NEW n \in Made PROVE n + 1 \in Made
    <3>1. n \in Nat
      OBVIOUS
    <3>2. PICK g : It(g, n)
      OBVIOUS
    <3>3. It([i \in 0..(n + 1) |-> IF i = n + 1 THEN F[g[n]] ELSE g[i]], n + 1)
      BY <3>1, <3>2 DEF Iterates
    <3> QED BY <3>1, <3>3
  <2> HIDE DEF Made
  <2> QED BY <2>1, <2>2, InductionOverNat, Made \in SUBSET Nat DEF Made
<1>2. ASSUME NEW n \in Nat, NEW m \in Nat, n <= m, NEW g, It(g, n), NEW h, It(h, m)
      PROVE  \A i \in 0..n : g[i] = h[i]
  <2> DEFINE Same == {i \in Nat : i <= n => g[i] = h[i]}
  <2>1. 0 \in Same
    BY <1>2 DEF Iterates
  <2>2. ASSUME NEW i \in Same PROVE i + 1 \in Same
    BY <1>2 DEF Iterates
  <2>3. Same = Nat
    <3> HIDE DEF Same
    <3> QED BY <2>1, <2>2, InductionOverNat, Same \in SUBSET Nat DEF Same
  <2> QED BY <2>3
<1> DEFINE nth(k) == CHOOSE g : It(g, k)
           f == [k \in Nat |-> nth(k)[k]]
<1>3. ASSUME NEW k \in Nat PROVE It(nth(k), k)
  <2>1. \E g : It(g, k)
    BY <1>1
  <2> HIDE DEF Iterates, It
  <2> QED BY <2>1
<1>4. f[0] = a
  BY <1>3 DEF Iterates
<1>5. ASSUME NEW k \in Nat PROVE f[k + 1] = F[f[k]]
  <2>1. It(nth(k), k) /\ It(nth(k + 1), k + 1)
    BY <1>3, k + 1 \in Nat
  <2> HIDE DEF nth
  <2>2. nth(k)[k] = nth(k + 1)[k]
    BY <1>2, <2>1, k + 1 \in Nat, k <= k + 1, k \in 0..k
  <2>3. nth(k + 1)[k + 1] = F[nth(k + 1)[k]]
    BY <2>1 DEF Iterates
  <2> QED BY <2>2, <2>3
<1>6. f \in [Nat -> V]
  <2> DEFINE InV == {k \in Nat : f[k] \in V}
  <2> HIDE DEF f
  <2>1. 0 \in InV
    BY <1>4
  <2>2. ASSUME NEW k \in InV PROVE k + 1 \in InV
    BY <1>5
  <2>3. InV = Nat
    <3> HIDE DEF InV
    <3> QED BY <2>1, <2>2, InductionOverNat, InV \in SUBSET Nat DEF InV
  <2> QED BY <2>3 DEF f
<1> HIDE DEF f
<1> QED BY <1>4, <1>5, <1>6

-----------------------------------------------------------------------------
\* A sum as a set: f[t] tokens for each t of S.
Tokens(f, S) == UNION {{t} \X (1..f[t]) : t \in S}

\* One element has as many tokens as f says.
LEMMA TokensOfOne ==
  ASSUME NEW x, NEW n \in Nat
  PROVE  /\ IsFiniteSet({x} \X (1..n))
         /\ Cardinality({x} \X (1..n)) = n
<1>1. IsFiniteSet(1..n) /\ Cardinality(1..n) = n
  BY FS_Interval
<1>2. IsFiniteSet({x}) /\ Cardinality({x}) = 1
  BY FS_Singleton
<1>3. /\ IsFiniteSet({x} \X (1..n))
      /\ Cardinality({x} \X (1..n)) = Cardinality({x}) * Cardinality(1..n)
  BY <1>1, <1>2, FS_Product
<1> QED BY <1>1, <1>2, <1>3

LEMMA TokensFinite ==
  ASSUME NEW S, IsFiniteSet(S), NEW f \in [S -> Nat]
  PROVE  IsFiniteSet(Tokens(f, S)) /\ Cardinality(Tokens(f, S)) \in Nat
<1> DEFINE part == [t \in S |-> {t} \X (1..f[t])]
           Parts == {{t} \X (1..f[t]) : t \in S}
<1>1. part \in Surjection(S, Parts)
  BY DEF Surjection
<1>2. IsFiniteSet(Parts)
  BY <1>1, FS_Surjection
<1>3. \A T \in Parts : IsFiniteSet(T)
  <2>1. ASSUME NEW t \in S PROVE IsFiniteSet({t} \X (1..f[t]))
    BY TokensOfOne
  <2> QED BY <2>1
<1>4. IsFiniteSet(Tokens(f, S))
  <2> HIDE DEF Parts
  <2>1. IsFiniteSet(UNION Parts)
    BY <1>2, <1>3, FS_UNION
  <2> QED BY <2>1 DEF Parts, Tokens
<1> QED BY <1>4, FS_CardinalityType

\* Where one value of f changes the total changes by as much.
LEMMA TokensChange ==
  ASSUME NEW S, IsFiniteSet(S), NEW x \in S
  PROVE  \A f, g \in [S -> Nat] :
           (\A y \in S \ {x} : g[y] = f[y]) =>
             Cardinality(Tokens(g, S)) = Cardinality(Tokens(f, S)) - f[x] + g[x]
<1> SUFFICES ASSUME NEW f \in [S -> Nat], NEW g \in [S -> Nat], \A y \in S \ {x} : g[y] = f[y]
             PROVE  Cardinality(Tokens(g, S)) = Cardinality(Tokens(f, S)) - f[x] + g[x]
  OBVIOUS
<1> DEFINE Rest == UNION {{t} \X (1..f[t]) : t \in S \ {x}}
<1>1. /\ Tokens(f, S) = Rest \cup ({x} \X (1..f[x]))
      /\ Tokens(g, S) = Rest \cup ({x} \X (1..g[x]))
  BY DEF Tokens
<1>2. IsFiniteSet(Rest)
  <2>1. Rest \subseteq Tokens(f, S)
    BY DEF Tokens
  <2> QED BY <2>1, TokensFinite, FS_Subset
<1>3. ASSUME NEW n \in Nat
      PROVE  Cardinality(Rest \cup ({x} \X (1..n))) = Cardinality(Rest) + n
  <2> DEFINE One == {x} \X (1..n)
  <2>1. Rest \cap One = {}
    OBVIOUS
  <2>2. IsFiniteSet(One) /\ Cardinality(One) = n
    BY TokensOfOne
  <2> HIDE DEF Rest, One
  <2>3. Cardinality(Rest \cap One) = 0
    BY <2>1, FS_EmptySet
  <2>4. Cardinality(Rest \cup One) = Cardinality(Rest) + Cardinality(One) - Cardinality(Rest \cap One)
    BY <1>2, <2>2, FS_Union
  <2>5. Cardinality(Rest) \in Nat
    BY <1>2, FS_CardinalityType
  <2>6. Cardinality(Rest \cup One) = Cardinality(Rest) + n
    BY <2>2, <2>3, <2>4, <2>5
  <2> QED BY <2>6 DEF One
<1>4. Cardinality(Rest) \in Nat /\ f[x] \in Nat /\ g[x] \in Nat
  BY <1>2, FS_CardinalityType
<1>5. /\ Cardinality(Tokens(f, S)) = Cardinality(Rest) + f[x]
      /\ Cardinality(Tokens(g, S)) = Cardinality(Rest) + g[x]
  <2> HIDE DEF Rest
  <2> QED BY <1>1, <1>3, <1>4
<1> QED BY <1>4, <1>5

-----------------------------------------------------------------------------
\* Arithmetic of a counter with N values.
LEMMA DivMod ==
  ASSUME NEW N \in Nat \ {0}, NEW a \in Int
  PROVE  /\ a % N \in 0..(N - 1)
         /\ a \div N \in Int
         /\ a = N * (a \div N) + (a % N)
<1>1. a % N \in 0..(N - 1)
  BY SMT
<1>2. a \div N \in Int
  BY SMT
<1>3. a = N * (a \div N) + (a % N)
  BY SMT
<1> QED BY <1>1, <1>2, <1>3

LEMMA SameResidue ==
  ASSUME NEW N \in Nat \ {0}, NEW k \in Int, NEW r \in 0..(N - 1), NEW s \in 0..(N - 1),
         r - s = N * k
  PROVE  r = s
<1>1. CASE k >= 1
  <2>1. N * k >= N
    BY <1>1, SMT
  <2> QED BY <2>1
<1>2. CASE k <= -1
  <2>1. N * k <= -N
    BY <1>2, SMT
  <2> QED BY <2>1
<1>3. CASE k = 0
  <2>1. N * k = 0
    BY <1>3, SMT
  <2> QED BY <2>1
<1> QED BY <1>1, <1>2, <1>3

LEMMA Congruent ==
  ASSUME NEW N \in Nat \ {0}, NEW a \in Int, NEW b \in Int
  PROVE  a % N = b % N <=> \E k \in Int : a - b = N * k
<1> DEFINE qa == a \div N
           qb == b \div N
           ra == a % N
           rb == b % N
<1>1. /\ ra \in 0..(N - 1) /\ qa \in Int /\ a = N * qa + ra
      /\ rb \in 0..(N - 1) /\ qb \in Int /\ b = N * qb + rb
  BY DivMod
<1> HIDE DEF qa, qb, ra, rb
<1>2. ASSUME ra = rb PROVE \E k \in Int : a - b = N * k
  <2>1. a - b = N * (qa - qb)
    BY <1>1, <1>2, SMT
  <2>2. qa - qb \in Int
    BY <1>1
  <2> QED BY <2>1, <2>2, Zenon
<1>3. ASSUME NEW k \in Int, a - b = N * k PROVE ra = rb
  <2>1. ra - rb = N * (k - qa + qb)
    BY <1>1, <1>3, SMT
  <2>2. k - qa + qb \in Int
    BY <1>1
  <2> QED BY <1>1, <2>1, <2>2, SameResidue
<1> QED BY <1>2, <1>3 DEF ra, rb

\* Adding or taking away the same on both sides.
LEMMA ModAdd ==
  ASSUME NEW N \in Nat \ {0}, NEW a \in Int, NEW b \in Int, NEW c \in Int, a % N = b % N
  PROVE  (a + c) % N = (b + c) % N
<1>1. PICK k \in Int : a - b = N * k
  BY Congruent
<1>2. (a + c) - (b + c) = N * k
  BY <1>1
<1>3. a + c \in Int /\ b + c \in Int
  OBVIOUS
<1> QED BY <1>2, <1>3, Congruent, ZenonT(60)

\* The counter may wrap at every step.
LEMMA ModWrap ==
  ASSUME NEW N \in Nat \ {0}, NEW a \in Int, NEW c \in Int
  PROVE  ((a % N) + c) % N = (a + c) % N
<1>1. a % N \in Int /\ a \div N \in Int /\ a = N * (a \div N) + (a % N)
  BY DivMod
<1> DEFINE r == a % N
           k == a \div N
<1>2. (a + c) - (r + c) = N * k
  BY <1>1
<1>3. a + c \in Int /\ r + c \in Int /\ k \in Int
  BY <1>1
<1> HIDE DEF r, k
<1>4. (a + c) % N = (r + c) % N
  BY <1>2, <1>3, Congruent
<1> QED BY <1>4 DEF r

LEMMA ModSmall ==
  ASSUME NEW N \in Nat \ {0}, NEW a \in 0..(N - 1)
  PROVE  a % N = a
BY SMT

\* A number that is too large by less than the divisor wraps around once.
LEMMA WrapsOnce ==
  ASSUME NEW c \in Nat \ {0}, NEW x \in 0..(2 * c - 1)
  PROVE  x % c = IF x < c THEN x ELSE x - c
<1>1. CASE x < c
  BY <1>1, ModSmall
<1>2. CASE x >= c
  <2>1. x - c \in 0..(c - 1)
    BY <1>2
  <2> DEFINE y == x - c
  <2>2. y \in Int /\ x \in Int /\ 1 \in Int /\ x - y = c * 1
    OBVIOUS
  <2>3. x % c = y % c
    <3> HIDE DEF y
    <3>1. \E k \in Int : x - y = c * k
      BY <2>2
    <3> QED
      BY <2>2, <3>1, Congruent
  <2> QED
    BY <1>2, <2>1, <2>3, ModSmall
<1> QED
  BY <1>1, <1>2

-----------------------------------------------------------------------------
(***************************************************************************)
(* Facts about ways: what their recursive definition says, and that a way  *)
(* with a circle can be shortened.                                         *)
(***************************************************************************)
Network(links, nodes, routers) ==
  /\ IsFiniteSet(nodes)
  /\ routers \subseteq nodes
  /\ links \in [nodes -> [nodes -> SUBSET Nat]]

LEMMA WaysDef ==
  ASSUME NEW nodes, NEW routers, NEW links, Network(links, nodes, routers)
  PROVE  /\ WaysOver(links, nodes, routers) \in [Nat -> [nodes -> [nodes -> SUBSET Nat]]]
         /\ WaysOver(links, nodes, routers)[0] = links
         /\ \A k \in Nat : WaysOver(links, nodes, routers)[k + 1]
                             = Longer(WaysOver(links, nodes, routers)[k], links, nodes, routers)
<1> DEFINE V == [nodes -> [nodes -> SUBSET Nat]]
           W == WaysOver(links, nodes, routers)
           More(w) == Longer(w, links, nodes, routers)
           F == [w \in V |-> More(w)]
           Body(g) == [k \in Nat |-> IF k = 0 THEN links ELSE More(g[k - 1])]
<1>1. links \in V
  BY DEF Network
<1>2. ASSUME NEW w \in V PROVE More(w) \in V
  <2>1. ASSUME NEW n \in nodes, NEW d \in nodes
        PROVE  More(w)[n][d] \in SUBSET Nat
    BY DEF Longer, Network
  <2> QED BY <2>1 DEF Longer
<1>3. F \in [V -> V]
  BY <1>2
<1>4. PICK f \in [Nat -> V] : f[0] = links /\ \A k \in Nat : f[k + 1] = F[f[k]]
  <2> HIDE DEF V, F
  <2> QED BY <1>1, <1>3, RecursionOverNat
<1>5. f = Body(f)
  <2>1. ASSUME NEW k \in Nat PROVE f[k] = Body(f)[k]
    <3>1. CASE k = 0
      BY <1>4, <3>1
    <3>2. CASE k # 0
      <4>1. k - 1 \in Nat /\ k - 1 + 1 = k
        BY <3>2
      <4>2. f[k] = F[f[k - 1]] /\ f[k - 1] \in V
        BY <1>4, <4>1
      <4> QED BY <3>2, <4>2
    <3> QED BY <3>1, <3>2
  <2> HIDE DEF V, F, More
  <2> QED BY <2>1
<1>6. W = CHOOSE g : g = Body(g)
  BY DEF WaysOver
<1>7. W = Body(W)
  <2> HIDE DEF Body, W
  <2> QED BY <1>5, <1>6
<1> HIDE DEF W
<1>8. W[0] = links
  BY <1>7
<1>9. ASSUME NEW k \in Nat PROVE W[k + 1] = More(W[k])
  <2>1. k + 1 \in Nat /\ k + 1 # 0 /\ k + 1 - 1 = k
    OBVIOUS
  <2> HIDE DEF More
  <2> QED BY <1>7, <2>1
<1>10. W \in [Nat -> V]
  <2> DEFINE InV == {k \in Nat : W[k] \in V}
  <2>1. 0 \in InV
    BY <1>1, <1>8
  <2> HIDE DEF V, More
  <2>2. ASSUME NEW k \in InV PROVE k + 1 \in InV
    BY <1>2, <1>9
  <2>3. InV = Nat
    <3> HIDE DEF InV
    <3> QED BY <2>1, <2>2, InductionOverNat, InV \in SUBSET Nat DEF InV
  <2>4. W = [k \in Nat |-> W[k]]
    BY <1>7
  <2> QED BY <2>3, <2>4
<1> QED BY <1>8, <1>9, <1>10 DEF W

\* A way with at most k + 1 links is one with at most k + m + 1.
LEMMA WaysGrow ==
  ASSUME NEW nodes, NEW routers, NEW links, Network(links, nodes, routers),
         NEW k \in Nat, NEW n \in nodes, NEW d \in nodes
  PROVE  \A m \in Nat : k <= m => WaysOver(links, nodes, routers)[k][n][d]
                                    \subseteq WaysOver(links, nodes, routers)[m][n][d]
<1> DEFINE W == WaysOver(links, nodes, routers)
           T == {m \in Nat : k <= m => W[k][n][d] \subseteq W[m][n][d]}
<1>1. 0 \in T
  OBVIOUS
<1>2. ASSUME NEW m \in T PROVE m + 1 \in T
  <2>1. W[m + 1] = Longer(W[m], links, nodes, routers)
    BY WaysDef
  <2>2. W[m][n][d] \subseteq Longer(W[m], links, nodes, routers)[n][d]
    BY DEF Longer
  <2>3. CASE k <= m
    BY <2>1, <2>2, <2>3
  <2>4. CASE ~(k <= m)
    <3>1. k <= m + 1 => k = m + 1
      BY <2>4
    <3> QED BY <3>1
  <2> QED BY <2>3, <2>4
<1>3. T = Nat
  <2> HIDE DEF T
  <2> QED BY <1>1, <1>2, InductionOverNat, T \in SUBSET Nat DEF T
<1> QED BY <1>3

\* A way with one link more, and where the last but one way ends.
LEMMA WaysStep ==
  ASSUME NEW nodes, NEW routers, NEW links, Network(links, nodes, routers),
         NEW k \in Nat, NEW n \in nodes, NEW d \in nodes, NEW x
  PROVE  x \in WaysOver(links, nodes, routers)[k + 1][n][d] <=>
           \/ x \in WaysOver(links, nodes, routers)[k][n][d]
           \/ \E j \in routers : \E l \in links[n][j] :
                \E c \in WaysOver(links, nodes, routers)[k][j][d] : x = l + c
<1> DEFINE W == WaysOver(links, nodes, routers)
<1>1. W[k + 1][n][d] = W[k][n][d] \cup
        UNION {{l + c : l \in links[n][j], c \in W[k][j][d]} : j \in routers}
  <2>1. W[k + 1] = Longer(W[k], links, nodes, routers)
    BY WaysDef
  <2> HIDE DEF W
  <2> QED BY <2>1 DEF Longer
<1> HIDE DEF W
<1>2. x \in W[k + 1][n][d] <=>
        \/ x \in W[k][n][d]
        \/ \E j \in routers : \E l \in links[n][j] : \E c \in W[k][j][d] : x = l + c
  BY <1>1
<1> QED BY <1>2 DEF W

\* Where links get cheaper, and new ones are added, ways get cheaper.
LEMMA WaysCheaper ==
  ASSUME NEW nodes, NEW routers, NEW links, Network(links, nodes, routers),
         NEW cheaper, Network(cheaper, nodes, routers),
         \A n, m \in nodes : \A c \in links[n][m] : \E b \in cheaper[n][m] : b <= c
  PROVE  \A k \in Nat, n, d \in nodes : \A c \in WaysOver(links, nodes, routers)[k][n][d] :
           \E b \in WaysOver(cheaper, nodes, routers)[k][n][d] : b <= c
<1> DEFINE W == WaysOver(links, nodes, routers)
           X == WaysOver(cheaper, nodes, routers)
           Good(k) == \A n, d \in nodes : \A c \in W[k][n][d] : \E b \in X[k][n][d] : b <= c
           T == {k \in Nat : Good(k)}
<1>1. 0 \in T
  BY WaysDef
<1>2. ASSUME NEW k \in T PROVE k + 1 \in T
  <2> SUFFICES ASSUME NEW n \in nodes, NEW d \in nodes, NEW c \in W[k + 1][n][d]
               PROVE  \E b \in X[k + 1][n][d] : b <= c
    OBVIOUS
  <2>1. CASE c \in W[k][n][d]
    <3>1. PICK b \in X[k][n][d] : b <= c
      BY <2>1
    <3>2. b \in X[k + 1][n][d]
      BY WaysStep
    <3> QED BY <3>1, <3>2
  <2>2. ASSUME NEW j \in routers, NEW l \in links[n][j], NEW e \in W[k][j][d], c = l + e
        PROVE  \E b \in X[k + 1][n][d] : b <= c
    <3>1. j \in nodes
      BY DEF Network
    <3>2. PICK l2 \in cheaper[n][j] : l2 <= l
      BY <3>1
    <3>3. PICK e2 \in X[k][j][d] : e2 <= e
      BY <3>1
    <3>4. l \in Nat /\ l2 \in Nat
      BY <3>1 DEF Network
    <3>5. e \in Nat /\ e2 \in Nat
      BY <3>1, WaysDef
    <3>6. l2 + e2 \in X[k + 1][n][d]
      BY <3>2, <3>3, WaysStep
    <3>7. l2 + e2 <= c
      BY <2>2, <3>2, <3>3, <3>4, <3>5
    <3> QED BY <3>6, <3>7
  <2>3. \/ c \in W[k][n][d]
        \/ \E j \in routers : \E l \in links[n][j] : \E e \in W[k][j][d] : c = l + e
    BY WaysStep
  <2> QED BY <2>1, <2>2, <2>3
<1>3. T = Nat
  <2> HIDE DEF T
  <2> QED BY <1>1, <1>2, InductionOverNat, T \in SUBSET Nat DEF T
<1> QED BY <1>3

\* A way of any length is no cheaper than some way without a circle.
LEMMA NoCircleNeeded ==
  ASSUME NEW nodes, NEW routers, NEW links, Network(links, nodes, routers),
         NEW d \in nodes
  PROVE  \A k \in Nat, n \in nodes : \A c \in WaysOver(links, nodes, routers)[k][n][d] :
           \E b \in AllWays(links, nodes, routers)[n][d] : b <= c
<1> DEFINE W == WaysOver(links, nodes, routers)
           Costs(n) == {c \in Nat : \E k \in Nat : c \in W[k][n][d]}
           Reach == {n \in nodes : Costs(n) # {}}
\* The cost of a shortest way from each node, of whatever length.
<1>1. PICK D \in [Reach -> Nat] :
        \A n \in Reach : D[n] \in Costs(n) /\ \A c \in Costs(n) : D[n] <= c
  <2>1. \A n \in Reach : \E x \in Costs(n) : \A c \in Costs(n) : x <= c
    BY LeastNatural
  <2> DEFINE E == [n \in Reach |-> CHOOSE x \in Costs(n) : \A c \in Costs(n) : x <= c]
  <2>2. \A n \in Reach : E[n] \in Costs(n) /\ \A c \in Costs(n) : E[n] <= c
    <3> HIDE DEF Reach, Costs
    <3> QED BY <2>1
  <2>3. E \in [Reach -> Nat]
    BY <2>2
  <2> HIDE DEF E
  <2> QED BY <2>2, <2>3
\* The least number of links, less one, with which it can be had.
<1>2. PICK H \in [Reach -> Nat] :
        \A n \in Reach : /\ D[n] \in W[H[n]][n][d]
                         /\ \A k \in Nat : D[n] \in W[k][n][d] => H[n] <= k
  <2> DEFINE Lengths(n) == {k \in Nat : D[n] \in W[k][n][d]}
  <2>1. \A n \in Reach : \E x \in Lengths(n) : \A k \in Lengths(n) : x <= k
    <3> SUFFICES ASSUME NEW n \in Reach
                 PROVE  \E x \in Lengths(n) : \A k \in Lengths(n) : x <= k
      OBVIOUS
    <3>1. Lengths(n) \in SUBSET Nat /\ Lengths(n) # {}
      BY <1>1
    <3> HIDE DEF Lengths
    <3> QED BY <3>1, LeastNatural
  <2> DEFINE E == [n \in Reach |-> CHOOSE x \in Lengths(n) : \A k \in Lengths(n) : x <= k]
  <2>2. \A n \in Reach : E[n] \in Lengths(n) /\ \A k \in Lengths(n) : E[n] <= k
    <3> HIDE DEF Reach, Lengths
    <3> QED BY <2>1
  <2>3. E \in [Reach -> Nat]
    BY <2>2
  <2> HIDE DEF E
  <2> QED BY <2>2, <2>3
\* Such a way leads to a node from where one link less is needed.
<1>3. ASSUME NEW n \in Reach, H[n] # 0
      PROVE  \E j \in Reach : H[j] < H[n] /\ H[n] <= H[j] + 1
  <2> DEFINE k == H[n] - 1
  <2>1. k \in Nat /\ k + 1 = H[n]
    BY <1>3
  <2>2. D[n] \in W[k + 1][n][d] /\ D[n] \notin W[k][n][d]
    BY <1>2, <2>1
  <2> HIDE DEF k
  <2>3. PICK j \in routers : \E l \in links[n][j] : \E c \in W[k][j][d] : D[n] = l + c
    BY <2>1, <2>2, WaysStep
  <2>4. PICK l \in links[n][j], c \in W[k][j][d] : D[n] = l + c
    BY <2>3
  <2>5. j \in nodes /\ l \in Nat /\ c \in Nat
    <3>1. j \in nodes /\ l \in Nat
      BY DEF Network
    <3> QED BY <2>1, <3>1, WaysDef
  <2>6. j \in Reach /\ D[j] <= c
    BY <1>1, <2>1, <2>5
  <2>7. l + D[j] \in W[H[j] + 1][n][d]
    BY <1>2, <2>6, WaysStep
  <2>8. D[n] <= l + D[j]
    BY <1>1, <2>5, <2>6, <2>7
  <2>9. D[n] = l + D[j] /\ D[j] = c
    <3>1. D[n] \in Nat /\ D[j] \in Nat
      BY <2>6
    <3> HIDE DEF Reach
    <3> QED BY <2>4, <2>5, <2>6, <2>8, <3>1
  <2>10. H[j] <= k
    BY <1>2, <2>1, <2>6, <2>9
  <2>11. H[n] <= H[j] + 1
    <3>1. H[j] + 1 \in Nat
      BY <2>6
    <3> QED BY <1>2, <2>7, <2>9, <3>1
  <2> QED BY <2>1, <2>6, <2>10, <2>11
<1> DEFINE Nearer(n) == {m \in Reach : H[m] < H[n]}
           rank(n) == Cardinality(Nearer(n))
<1>4. ASSUME NEW n \in Reach
      PROVE  /\ IsFiniteSet(Nearer(n)) /\ rank(n) \in Nat
             /\ Cardinality(nodes) \in Nat /\ rank(n) <= Cardinality(nodes) - 1
  <2>1. Nearer(n) \subseteq nodes \ {n} /\ n \in nodes
    OBVIOUS
  <2>2. /\ IsFiniteSet(nodes) /\ IsFiniteSet(nodes \ {n})
        /\ Cardinality(nodes \ {n}) = Cardinality(nodes) - 1
    BY <2>1, FS_RemoveElement DEF Network
  <2> HIDE DEF Nearer
  <2> QED BY <2>1, <2>2, FS_Subset, FS_CardinalityType
\* So no shortest way needs more links than there are nodes nearer, and one.
<1>5. \A n \in Reach : H[n] <= rank(n)
  <2> DEFINE Bad == {n \in Reach : ~(H[n] <= rank(n))}
             Hops == {H[n] : n \in Bad}
  <2>1. ASSUME Bad # {} PROVE FALSE
    <3>1. \A n \in Bad : H[n] \in Nat
      OBVIOUS
    <3>2. PICK n \in Bad : \A m \in Bad : H[n] <= H[m]
      <4> HIDE DEF Bad
      <4>1. Hops \in SUBSET Nat /\ Hops # {}
        BY <2>1, <3>1
      <4>2. PICK x \in Hops : \A y \in Hops : x <= y
        <5> HIDE DEF Hops
        <5> QED BY <4>1, LeastNatural
      <4> QED BY <4>2
    <3>3. n \in Reach /\ H[n] \in Nat /\ rank(n) \in Nat /\ ~(H[n] <= rank(n))
      BY <1>4
    <3>4. H[n] # 0
      <4> HIDE DEF rank, Reach
      <4> QED BY <3>3
    <3>5. PICK j \in Reach : H[j] < H[n] /\ H[n] <= H[j] + 1
      BY <1>3, <3>3, <3>4
    <3>6. H[j] \in Nat /\ rank(j) \in Nat
      BY <1>4
    <3>7. H[j] <= rank(j)
      <4>1. j \notin Bad
        BY <3>2, <3>3, <3>5, <3>6, SMTT(30)
      <4> QED BY <4>1
    <3>8. rank(j) + 1 <= rank(n)
      <4>1. j \in Nearer(n) /\ Nearer(j) \subseteq Nearer(n) \ {j}
        BY <3>3, <3>5, <3>6
      <4>2. IsFiniteSet(Nearer(n)) /\ IsFiniteSet(Nearer(n) \ {j})
              /\ Cardinality(Nearer(n) \ {j}) = rank(n) - 1
        <5>1. IsFiniteSet(Nearer(n))
          BY <1>4, <3>3
        <5> HIDE DEF Nearer
        <5> QED BY <4>1, <5>1, FS_RemoveElement
      <4>3. rank(j) <= Cardinality(Nearer(n) \ {j})
        <5> HIDE DEF Nearer
        <5> QED BY <4>1, <4>2, FS_Subset
      <4> HIDE DEF rank, Nearer
      <4> QED BY <3>3, <3>6, <4>2, <4>3
    <3> HIDE DEF rank, Nearer, Reach, Bad
    <3> QED BY <3>3, <3>5, <3>6, <3>7, <3>8
  <2> QED BY <2>1
<1> SUFFICES ASSUME NEW k \in Nat, NEW n \in nodes, NEW c \in W[k][n][d]
             PROVE  \E b \in AllWays(links, nodes, routers)[n][d] : b <= c
  OBVIOUS
<1>6. c \in Costs(n) /\ n \in Reach
  BY WaysDef
<1>7. D[n] <= c /\ D[n] \in W[H[n]][n][d]
  BY <1>1, <1>2, <1>6
<1>8. H[n] \in Nat /\ Cardinality(nodes) - 1 \in Nat /\ H[n] <= Cardinality(nodes) - 1
  <2>1. H[n] \in Nat /\ rank(n) \in Nat /\ H[n] <= rank(n)
          /\ Cardinality(nodes) \in Nat /\ rank(n) <= Cardinality(nodes) - 1
    BY <1>4, <1>5, <1>6
  <2> HIDE DEF rank
  <2> QED BY <2>1
<1>9. W[H[n]][n][d] \subseteq W[Cardinality(nodes) - 1][n][d]
  <2> HIDE DEF Reach
  <2> QED BY <1>8, WaysGrow
<1> QED BY <1>7, <1>9 DEF AllWays
=============================================================================
