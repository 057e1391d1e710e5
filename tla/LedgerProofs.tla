---------------------------- MODULE LedgerProofs ----------------------------
(***************************************************************************)
(* Facts about the money rules for every value of the constants: sums stay *)
(* natural and add up, applying transactions keeps a ledger a ledger, a    *)
(* valid block never issues more than the cap leaves, and what it does to  *)
(* the unspent outputs balances with what it issues and burns.             *)
(*                                                                         *)
(* Before them, what the proofs about all recursive functions rest on:     *)
(* induction over the naturals stated for sets, and what it gives for      *)
(* functions defined by recursion on 0..n or along the parent links of an  *)
(* acyclic set: they exist and stay in the set their step keeps.           *)
(***************************************************************************)
EXTENDS Ledger, WellFoundedInduction, FiniteSetTheorems, TLAPS

-----------------------------------------------------------------------------
(* Recursion *)

\* A set of naturals that is not empty has a least element.
LEMMA LeastNatural ==
  ASSUME NEW T \in SUBSET Nat, T # {}
  PROVE  \E m \in T : \A k \in T : m =< k
PROOF
  <1> DEFINE R == OpToRel(<, Nat)
  <1>1. IsWellFoundedOn(R, Nat)
    BY NatLessThanWellFounded
  <1>2. PICK m \in T : \A k \in T : ~ (<<k, m>> \in R)
    BY <1>1, WFMin
  <1>3. \A k \in T : ~ (k < m)
    BY <1>2 DEF OpToRel
  <1> QED
    BY <1>3

\* A set that holds 0 and the successor of each natural it holds holds all.
LEMMA SetInduction ==
  ASSUME NEW S, 0 \in S, \A n \in Nat : n \in S => n + 1 \in S
  PROVE  \A n \in Nat : n \in S
PROOF
  <1> DEFINE T == {n \in Nat : n \notin S}
  <1> SUFFICES ASSUME T # {} PROVE FALSE
    OBVIOUS
  <1>1. T \in SUBSET Nat
    OBVIOUS
  <1> HIDE DEF T
  <1>2. PICK m \in T : \A k \in T : m =< k
    BY <1>1, LeastNatural
  <1>3. m \in Nat /\ m \notin S
    BY DEF T
  <1>4. \A k \in Nat : k < m => k \in S
    BY <1>2, <1>3 DEF T
  <1>5. m # 0 /\ m - 1 \in Nat /\ m - 1 < m /\ (m - 1) + 1 = m
    BY <1>3
  <1>6. (m - 1) + 1 \in S
    BY <1>4, <1>5
  <1> QED
    BY <1>3, <1>5, <1>6

\* A recursion on 0..n: from a, the step G, applied to the place and the value
\* before it, leads from T[i - 1] to T[i], all parts of U.
IsRecursion(n, U, T, a, G) ==
  /\ n \in Nat
  /\ T \in [0..n -> SUBSET U]
  /\ a \in T[0]
  /\ \A i \in 1..n : \A x \in T[i - 1] : G[<<i, x>>] \in T[i]

\* What the recursion defines, with the value at i in T[i].
Solves(f, n, U, T, a, G) ==
  /\ f \in [0..n -> U]
  /\ f[0] = a
  /\ \A i \in 1..n : f[i] = G[<<i, f[i - 1]>>]
  /\ \A i \in 0..n : f[i] \in T[i]

\* Every recursion on 0..n defines a function.
LEMMA RecursionExists ==
  ASSUME NEW n, NEW U, NEW T, NEW a, NEW G, IsRecursion(n, U, T, a, G)
  PROVE  \E f : Solves(f, n, U, T, a, G)
PROOF
  <1> USE DEF IsRecursion
  <1> DEFINE Fits(f, k) ==
               /\ f \in [0..k -> U]
               /\ f[0] = a
               /\ \A i \in 1..k : f[i] = G[<<i, f[i - 1]>>]
               /\ \A i \in 0..k : f[i] \in T[i]
             S == {k \in Nat : k =< n => \E f : Fits(f, k)}
  <1>1. 0 \in S
    <2> DEFINE f == [i \in 0..0 |-> a]
    <2>1. a \in U
      OBVIOUS
    <2>2. Fits(f, 0)
      BY <2>1
    <2> QED
      BY <2>2
  <1>2. ASSUME NEW k \in Nat, k \in S PROVE k + 1 \in S
    <2> SUFFICES ASSUME k + 1 =< n PROVE \E h : Fits(h, k + 1)
      OBVIOUS
    <2>1. PICK f : Fits(f, k)
      BY <1>2
    <2> DEFINE h == [i \in 0..k + 1 |-> IF i = k + 1 THEN G[<<i, f[k]>>]
                                                     ELSE f[i]]
    <2>2. G[<<k + 1, f[k]>>] \in T[k + 1]
      <3>1. f[k] \in T[k]
        BY <2>1
      <3>2. k + 1 \in 1..n /\ (k + 1) - 1 = k
        OBVIOUS
      <3> QED
        BY <3>1, <3>2
    <2>3. /\ \A i \in 0..k : h[i] = f[i]
          /\ h[k + 1] = G[<<k + 1, f[k]>>]
      OBVIOUS
    <2>4. \A i \in 0..k + 1 : i = k + 1 \/ i \in 0..k
      OBVIOUS
    <2>5. h \in [0..k + 1 -> U]
      BY <2>1, <2>2
    <2> HIDE DEF h
    <2>6. \A i \in 0..k + 1 : h[i] \in T[i]
      BY <2>1, <2>2, <2>3, <2>4
    <2>7. \A i \in 1..k + 1 : h[i] = G[<<i, h[i - 1]>>]
      <3> TAKE i \in 1..k + 1
      <3>1. i - 1 \in 0..k
        OBVIOUS
      <3>2. CASE i = k + 1
        BY <2>3, <3>1, <3>2
      <3>3. CASE i \in 1..k
        BY <2>1, <2>3, <3>1, <3>3
      <3> QED
        BY <3>2, <3>3
    <2>8. h[0] = a
      BY <2>1, <2>3
    <2> QED
      BY <2>5, <2>6, <2>7, <2>8
  <1> HIDE DEF S
  <1>3. n \in S
    BY <1>1, <1>2, SetInduction
  <1> QED
    BY <1>3 DEF S, Solves

-----------------------------------------------------------------------------
(* Recursion along parent links *)

\* No element of B descends from itself by the links P.
IsAcyclic(B, P) == \A S \in SUBSET B : S # {} => \E b \in S : P[b] \notin S

\* f gives each element of C the value that G makes of it and of its parent's
\* value, and of a where the parent is not in B; C holds all its ancestors in B.
FollowsLinks(f, C, B, P, U, a, G) ==
  /\ C \in SUBSET B
  /\ \A b \in C : P[b] \in B => P[b] \in C
  /\ f \in [C -> U]
  /\ \A b \in C : f[b] = G[<<b, IF P[b] \in B THEN f[P[b]] ELSE a>>]

LEMMA LinkRecursionAgrees ==
  ASSUME NEW B, NEW P, NEW U, NEW a, NEW G, IsAcyclic(B, P),
         NEW C, NEW f, FollowsLinks(f, C, B, P, U, a, G),
         NEW D, NEW g, FollowsLinks(g, D, B, P, U, a, G)
  PROVE  \A b \in C \cap D : f[b] = g[b]
PROOF
  <1> DEFINE S == {b \in C \cap D : f[b] # g[b]}
  <1> SUFFICES ASSUME S # {} PROVE FALSE
    OBVIOUS
  <1>1. S \in SUBSET B
    BY DEF FollowsLinks
  <1>2. PICK b \in S : P[b] \notin S
    BY <1>1 DEF IsAcyclic
  <1>3. b \in C /\ b \in D /\ f[b] # g[b]
    BY <1>2
  <1>4. P[b] \in B => f[P[b]] = g[P[b]]
    <2> SUFFICES ASSUME P[b] \in B PROVE f[P[b]] = g[P[b]]
      OBVIOUS
    <2>1. P[b] \in C \cap D
      BY <1>3 DEF FollowsLinks
    <2> QED
      BY <1>2, <2>1
  <1>5. f[b] = G[<<b, IF P[b] \in B THEN f[P[b]] ELSE a>>]
    BY <1>3 DEF FollowsLinks
  <1>6. g[b] = G[<<b, IF P[b] \in B THEN g[P[b]] ELSE a>>]
    BY <1>3 DEF FollowsLinks
  <1> QED
    BY <1>3, <1>4, <1>5, <1>6

\* Every recursion along the links of an acyclic set defines a function.
LEMMA LinkRecursionExists ==
  ASSUME NEW B, NEW P, NEW U, NEW a \in U, NEW G, IsAcyclic(B, P),
         \A b \in B : \A x \in U : G[<<b, x>>] \in U
  PROVE  \E f : FollowsLinks(f, B, B, P, U, a, G)
PROOF
  <1> DEFINE Part(C, f) == FollowsLinks(f, C, B, P, U, a, G)
             D == {b \in B : \E C \in SUBSET B : b \in C /\ \E f : Part(C, f)}
             Value(b, y) == \E C \in SUBSET B : \E f : /\ Part(C, f)
                                                       /\ b \in C
                                                       /\ y = f[b]
             F == [b \in D |-> CHOOSE y : Value(b, y)]
  <1>1. ASSUME NEW C, NEW f, Part(C, f), NEW b \in C
        PROVE  b \in D /\ F[b] = f[b]
    <2>1. C \in SUBSET B /\ b \in B
      BY <1>1 DEF FollowsLinks
    <2>2. b \in D
      BY <1>1, <2>1
    <2>3. Value(b, f[b])
      BY <1>1, <2>1
    <2>4. Value(b, CHOOSE y : Value(b, y))
      BY <2>3
    <2>5. \A y : Value(b, y) => y = f[b]
      <3> SUFFICES ASSUME NEW y, Value(b, y) PROVE y = f[b]
        OBVIOUS
      <3>1. PICK E \in SUBSET B : \E g : Part(E, g) /\ b \in E /\ y = g[b]
        OBVIOUS
      <3>2. PICK g : Part(E, g) /\ b \in E /\ y = g[b]
        BY <3>1
      <3>3. \A x \in E \cap C : g[x] = f[x]
        BY <1>1, <3>2, LinkRecursionAgrees
      <3> QED
        BY <1>1, <3>2, <3>3
    <2> QED
      BY <2>2, <2>4, <2>5
  <1>2. ASSUME NEW b \in D
        PROVE  \E C \in SUBSET B : \E f : Part(C, f) /\ b \in C
    BY <1>2
  <1>3. D \subseteq B
    OBVIOUS
  <1>4. DOMAIN F = D /\ F = [b \in D |-> F[b]]
    OBVIOUS
  <1> HIDE DEF F, D
  <1>5. Part(D, F)
    <2>1. ASSUME NEW b \in D
          PROVE  /\ F[b] \in U
                 /\ P[b] \in B => P[b] \in D
                 /\ F[b] = G[<<b, IF P[b] \in B THEN F[P[b]] ELSE a>>]
      <3>1. PICK C \in SUBSET B : \E f : Part(C, f) /\ b \in C
        BY <1>2, <2>1
      <3>2. PICK f : Part(C, f) /\ b \in C
        BY <3>1
      <3>3. /\ f[b] \in U
            /\ P[b] \in B => P[b] \in C
            /\ f[b] = G[<<b, IF P[b] \in B THEN f[P[b]] ELSE a>>]
        BY <3>2 DEF FollowsLinks
      <3>4. F[b] = f[b]
        BY <1>1, <3>2
      <3>5. P[b] \in B => P[b] \in D /\ F[P[b]] = f[P[b]]
        BY <1>1, <3>2, <3>3
      <3> QED
        BY <3>3, <3>4, <3>5
    <2>2. F \in [D -> U]
      BY <1>4, <2>1
    <2> QED
      BY <1>3, <2>1, <2>2 DEF FollowsLinks
  <1>6. ASSUME B \ D # {} PROVE FALSE
    <2>1. PICK b \in B \ D : P[b] \notin B \ D
      BY <1>6 DEF IsAcyclic
    <2> DEFINE y == G[<<b, IF P[b] \in B THEN F[P[b]] ELSE a>>]
               C == D \cup {b}
               f == [x \in C |-> IF x = b THEN y ELSE F[x]]
    <2>2. F \in [D -> U]
          /\ \A x \in D : /\ P[x] \in B => P[x] \in D
                          /\ F[x] = G[<<x, IF P[x] \in B THEN F[P[x]] ELSE a>>]
      BY <1>5 DEF FollowsLinks
    <2>3. y \in U
      <3>1. P[b] \in B => F[P[b]] \in U
        BY <2>1, <2>2
      <3> QED
        BY <2>1, <3>1
    <2> HIDE DEF y
    <2>4. f \in [C -> U] /\ f[b] = y /\ \A x \in D : f[x] = F[x]
      BY <2>1, <2>2, <2>3
    <2> HIDE DEF f
    <2>5. ASSUME NEW x \in C
          PROVE  /\ P[x] \in B => P[x] \in C
                 /\ f[x] = G[<<x, IF P[x] \in B THEN f[P[x]] ELSE a>>]
      <3>1. CASE x = b
        <4>1. P[b] \in B => P[b] \in D /\ f[P[b]] = F[P[b]]
          BY <2>1, <2>4
        <4> QED
          BY <2>4, <3>1, <4>1 DEF y
      <3>2. CASE x \in D
        <4>1. P[x] \in B => P[x] \in D /\ f[P[x]] = F[P[x]]
          BY <2>2, <2>4, <3>2
        <4> QED
          BY <2>2, <2>4, <3>2, <4>1
      <3> QED
        BY <3>1, <3>2
    <2>6. Part(C, f)
      BY <1>3, <2>1, <2>4, <2>5 DEF FollowsLinks
    <2>7. b \in D
      BY <1>1, <2>6
    <2> QED
      BY <2>1, <2>7
  <1>7. D = B
    BY <1>3, <1>6
  <1> QED
    BY <1>5, <1>7

-----------------------------------------------------------------------------
(* Maps *)

Maps(S, T) == UNION {[K -> T] : K \in SUBSET S}

LEMMA MapSet ==
  ASSUME NEW S, NEW T, NEW f
  PROVE  IsMap(f, S, T) <=> f \in Maps(S, T)
PROOF
  <1>1. ASSUME IsMap(f, S, T) PROVE f \in [DOMAIN f -> T]
    BY <1>1 DEF IsMap
  <1>2. ASSUME IsMap(f, S, T) PROVE f \in Maps(S, T)
    BY <1>1, <1>2 DEF IsMap, Maps
  <1>3. ASSUME f \in Maps(S, T) PROVE IsMap(f, S, T)
    <2>1. PICK K \in SUBSET S : f \in [K -> T]
      BY <1>3 DEF Maps
    <2> QED
      BY <2>1 DEF IsMap
  <1> QED
    BY <1>2, <1>3

\* Inserting pairs of the right types keeps a map a map.
LEMMA MapInsertAll ==
  ASSUME NEW S, NEW T, NEW f, NEW g, IsMap(f, S, T), IsMap(g, S, T)
  PROVE  IsMap(InsertAll(f, g), S, T)
PROOF
  BY DEF IsMap, InsertAll

\* A map restricted to some of its keys is a map.
LEMMA MapRestrict ==
  ASSUME NEW S, NEW T, NEW f, IsMap(f, S, T), NEW K, K \subseteq DOMAIN f
  PROVE  IsMap(Restrict(f, K), S, T)
PROOF
  BY DEF IsMap, Restrict

-----------------------------------------------------------------------------
(* Sums *)

\* Induction on finite sets: what a subset of D has as soon as every set one
\* element smaller has it, all subsets have.
LEMMA SubsetInduction ==
  ASSUME NEW D, IsFiniteSet(D), NEW T,
         \A S \in SUBSET D : (\A x \in S : S \ {x} \in T) => S \in T
  PROVE  \A S \in SUBSET D : S \in T
PROOF
  <1> DEFINE Bad == {S \in SUBSET D : S \notin T}
             Sizes == {Cardinality(S) : S \in Bad}
  <1> SUFFICES ASSUME Bad # {} PROVE FALSE
    OBVIOUS
  <1>1. \A S \in SUBSET D : IsFiniteSet(S) /\ Cardinality(S) \in Nat
    BY FS_Subset, FS_CardinalityType
  <1>2. Sizes \in SUBSET Nat /\ Sizes # {}
    BY <1>1
  <1>3. PICK n \in Sizes : \A k \in Sizes : n =< k
    BY <1>2, LeastNatural
  <1>4. PICK S \in Bad : n = Cardinality(S)
    BY <1>3
  <1>5. PICK x \in S : S \ {x} \notin T
    BY <1>4
  <1>6. S \ {x} \in Bad
    BY <1>4, <1>5
  <1>7. Cardinality(S \ {x}) = Cardinality(S) - 1
    BY <1>1, <1>4, <1>5, FS_RemoveElement
  <1>8. Cardinality(S \ {x}) \in Sizes /\ Cardinality(S) \in Nat
    BY <1>1, <1>4, <1>6
  <1> HIDE DEF Sizes
  <1> QED
    BY <1>3, <1>4, <1>7, <1>8

\* h[S] is the sum of f over S, for the subsets S of D.
IsSum(h, f, D) ==
  /\ DOMAIN h = SUBSET D
  /\ h[{}] = 0
  /\ \A S \in SUBSET D : /\ h[S] \in Nat
                         /\ \A x \in S : h[S] = f[x] + h[S \ {x}]

LEMMA SumUnique ==
  ASSUME NEW D, NEW E, NEW f, NEW g, NEW h, NEW k,
         IsSum(h, f, D), IsSum(k, g, E),
         NEW C, IsFiniteSet(C), C \subseteq D, C \subseteq E,
         \A x \in C : f[x] = g[x]
  PROVE  h[C] = k[C]
PROOF
  <1> DEFINE T == {S \in SUBSET C : h[S] = k[S]}
  <1>1. ASSUME NEW S \in SUBSET C, \A x \in S : S \ {x} \in T
        PROVE  S \in T
    <2>1. CASE S = {}
      BY <2>1 DEF IsSum
    <2>2. CASE S # {}
      <3>1. PICK x \in S : TRUE
        BY <2>2
      <3>2. S \in SUBSET D /\ S \in SUBSET E
        OBVIOUS
      <3>3. h[S] = f[x] + h[S \ {x}] /\ k[S] = g[x] + k[S \ {x}]
        BY <3>1, <3>2 DEF IsSum
      <3>4. h[S \ {x}] = k[S \ {x}] /\ f[x] = g[x]
        BY <1>1, <3>1
      <3> QED
        BY <3>3, <3>4
    <2> QED
      BY <2>1, <2>2
  <1> HIDE DEF T
  <1>2. \A S \in SUBSET C : S \in T
    BY <1>1, SubsetInduction
  <1>3. C \in T
    BY <1>2
  <1> QED
    BY <1>3 DEF T

SumOver(f, S) == SumFunctionOnSet(f, S)

\* The fold of the community modules, which takes the elements of a finite set
\* in an order of its own, is the sum.
LEMMA SumExists ==
  ASSUME NEW D, IsFiniteSet(D), NEW f, \A x \in D : f[x] \in Nat
  PROVE  \E h : IsSum(h, f, D) /\ SumOver(f, D) = h[D]
PROOF
  <1> DEFINE B == {s \in SUBSET D : s # {}}
             c == [s \in B |-> CHOOSE x \in s : TRUE]
             P == [s \in B |-> s \ {c[s]}]
             G == [p \in B \X Nat |-> f[c[p[1]]] + p[2]]
             iter == CHOOSE g :
               g = [s \in SUBSET D |->
                      IF s = {} THEN 0
                      ELSE f[CHOOSE x \in s : TRUE]
                             + g[s \ {CHOOSE x \in s : TRUE}]]
  <1>1. \A S \in SUBSET D : IsFiniteSet(S) /\ Cardinality(S) \in Nat
    BY FS_Subset, FS_CardinalityType
  <1>2. \A s \in B : /\ s \in SUBSET D /\ s # {}
                     /\ c[s] \in s /\ c[s] = CHOOSE x \in s : TRUE
    <2> TAKE s \in B
    <2>1. s \in SUBSET D /\ s # {}
      OBVIOUS
    <2>2. \E x \in s : TRUE
      BY <2>1
    <2> QED
      BY <2>1, <2>2
  <1>3. \A s \in B : f[c[s]] \in Nat
    BY <1>2
  <1>4. \A s \in SUBSET D : s = {} \/ s \in B
    OBVIOUS
  <1> HIDE DEF c
  <1>5. \A s \in B : P[s] = s \ {c[s]} /\ P[s] \in SUBSET D
    BY <1>2
  <1>7. {} \notin B
    OBVIOUS
  <1>8. B \in SUBSET (SUBSET D)
    OBVIOUS
  <1> HIDE DEF B, P
  <1>6. \A b \in B : \A x \in Nat : G[<<b, x>>] = f[c[b]] + x
                                    /\ G[<<b, x>>] \in Nat
    BY <1>3
  <1> HIDE DEF G
  <1>9. IsAcyclic(B, P)
    <2> SUFFICES ASSUME NEW S \in SUBSET B, S # {}
                 PROVE  \E b \in S : P[b] \notin S
      BY DEF IsAcyclic
    <2> DEFINE Sizes == {Cardinality(b) : b \in S}
    <2>1. Sizes \in SUBSET Nat /\ Sizes # {}
      BY <1>1, <1>8
    <2>2. PICK n \in Sizes : \A k \in Sizes : n =< k
      BY <2>1, LeastNatural
    <2>3. PICK b \in S : n = Cardinality(b)
      BY <2>2
    <2>4. b \in B /\ IsFiniteSet(b) /\ c[b] \in b /\ Cardinality(b) \in Nat
      BY <1>1, <1>2
    <2>5. Cardinality(P[b]) = Cardinality(b) - 1
      BY <1>5, <2>4, FS_RemoveElement
    <2>6. ASSUME P[b] \in S PROVE FALSE
      <3>1. Cardinality(P[b]) \in Sizes
        BY <2>6
      <3> HIDE DEF Sizes
      <3> QED
        BY <2>2, <2>3, <2>4, <2>5, <3>1
    <2> QED
      BY <2>6
  <1>10. PICK h : FollowsLinks(h, B, B, P, Nat, 0, G)
    BY <1>6, <1>9, LinkRecursionExists
  <1> DEFINE g == [s \in SUBSET D |-> IF s = {} THEN 0 ELSE h[s]]
  <1>11. \A s \in B : g[s] = f[c[s]] + g[s \ {c[s]}]
    <2> SUFFICES ASSUME NEW s \in B
                 PROVE  g[s] = f[c[s]] + g[s \ {c[s]}]
      OBVIOUS
    <2>1. P[s] = s \ {c[s]} /\ P[s] \in SUBSET D /\ g[s] = h[s]
      BY <1>2, <1>5
    <2>2. h[s] = G[<<s, IF P[s] \in B THEN h[P[s]] ELSE 0>>]
      BY <1>10 DEF FollowsLinks
    <2>3. (IF P[s] \in B THEN h[P[s]] ELSE 0) = g[P[s]]
      BY <1>2, <1>4, <2>1
    <2>4. g[P[s]] \in Nat
      BY <1>10, <2>3 DEF FollowsLinks
    <2> HIDE DEF g
    <2> QED
      BY <1>6, <2>1, <2>2, <2>3, <2>4
  <1>12. g = [s \in SUBSET D |->
                IF s = {} THEN 0
                ELSE f[CHOOSE x \in s : TRUE]
                       + g[s \ {CHOOSE x \in s : TRUE}]]
    <2> DEFINE r == [s \in SUBSET D |->
                       IF s = {} THEN 0
                       ELSE f[CHOOSE x \in s : TRUE]
                              + g[s \ {CHOOSE x \in s : TRUE}]]
    <2>1. \A s \in SUBSET D : g[s] = r[s]
      <3> TAKE s \in SUBSET D
      <3>1. CASE s = {}
        BY <3>1
      <3>2. CASE s # {}
        <4>1. s \in B /\ c[s] = CHOOSE x \in s : TRUE
          BY <1>2, <1>4, <3>2
        <4>2. g[s] = f[c[s]] + g[s \ {c[s]}]
          BY <1>11, <4>1
        <4> HIDE DEF g
        <4> QED
          BY <3>2, <4>1, <4>2
      <3> QED
        BY <3>1, <3>2
    <2>2. g = [s \in SUBSET D |-> g[s]] /\ r = [s \in SUBSET D |-> r[s]]
      OBVIOUS
    <2> HIDE DEF g, r
    <2>3. g = r
      BY <2>1, <2>2
    <2> QED
      BY <2>3 DEF r
  <1> HIDE DEF g
  <1>13. iter = [s \in SUBSET D |->
                   IF s = {} THEN 0
                   ELSE f[CHOOSE x \in s : TRUE]
                          + iter[s \ {CHOOSE x \in s : TRUE}]]
    BY <1>12
  <1>14. SumOver(f, D) = iter[D]
    BY DEF SumOver, SumFunctionOnSet, FoldFunctionOnSet, MapThenFoldSet
  <1> HIDE DEF iter
  <1>15. DOMAIN iter = SUBSET D /\ iter[{}] = 0
    BY <1>13
  <1>16. \A s \in B : iter[s] = f[c[s]] + iter[s \ {c[s]}]
    <2> TAKE s \in B
    <2>1. iter[s] = f[CHOOSE x \in s : TRUE]
                      + iter[s \ {CHOOSE x \in s : TRUE}]
      BY <1>2, <1>13
    <2> QED
      BY <1>2, <2>1
  <1>17. \A S \in SUBSET D : iter[S] \in Nat
    <2> DEFINE T == {S \in SUBSET D : iter[S] \in Nat}
    <2>1. ASSUME NEW S \in SUBSET D, \A x \in S : S \ {x} \in T
          PROVE  S \in T
      <3>1. CASE S = {}
        BY <1>15, <3>1
      <3>2. CASE S \in B
        <4>1. c[S] \in S /\ f[c[S]] \in Nat
          BY <1>2, <1>3, <3>2
        <4>2. iter[S \ {c[S]}] \in Nat
          BY <2>1, <4>1
        <4>3. \A m, n \in Nat : m + n \in Nat
          OBVIOUS
        <4>4. iter[S] = f[c[S]] + iter[S \ {c[S]}]
          BY <1>16, <3>2
        <4>5. f[c[S]] + iter[S \ {c[S]}] \in Nat
          BY <4>1, <4>2, <4>3
        <4> QED
          BY <4>4, <4>5
      <3> QED
        BY <1>4, <3>1, <3>2
    <2> HIDE DEF T
    <2>2. \A S \in SUBSET D : S \in T
      BY <2>1, SubsetInduction
    <2> QED
      BY <2>2 DEF T
  <1>18. \A S \in SUBSET D : \A x \in S : iter[S] = f[x] + iter[S \ {x}]
    <2> DEFINE T == {S \in SUBSET D : \A x \in S :
                                        iter[S] = f[x] + iter[S \ {x}]}
    <2>1. ASSUME NEW S \in SUBSET D, \A x \in S : S \ {x} \in T
          PROVE  S \in T
      <3> SUFFICES ASSUME NEW x \in S
                   PROVE  iter[S] = f[x] + iter[S \ {x}]
        OBVIOUS
      <3>1. S \in B
        BY <1>4
      <3> DEFINE y == c[S]
      <3>2. y \in S /\ iter[S] = f[y] + iter[S \ {y}]
        BY <1>2, <1>16, <3>1
      <3> HIDE DEF y
      <3>3. CASE x = y
        BY <3>2, <3>3
      <3>4. CASE x # y
        <4>1. S \ {y} \in T /\ S \ {x} \in T /\ x \in S \ {y} /\ y \in S \ {x}
          BY <2>1, <3>2, <3>4
        <4>2. /\ iter[S \ {y}] = f[x] + iter[(S \ {y}) \ {x}]
              /\ iter[S \ {x}] = f[y] + iter[(S \ {x}) \ {y}]
          BY <4>1
        <4>3. (S \ {y}) \ {x} = (S \ {x}) \ {y}
          OBVIOUS
        <4>4. (S \ {x}) \ {y} \in SUBSET D /\ x \in D /\ y \in D
          BY <3>2
        <4>5. f[x] \in Nat /\ f[y] \in Nat /\ iter[(S \ {x}) \ {y}] \in Nat
          BY <1>17, <4>4
        <4>6. \A k, m, n \in Nat : m + (k + n) = k + (m + n)
          OBVIOUS
        <4>7. f[y] + (f[x] + iter[(S \ {x}) \ {y}])
                = f[x] + (f[y] + iter[(S \ {x}) \ {y}])
          BY <4>5, <4>6
        <4>8. iter[S] = f[y] + (f[x] + iter[(S \ {x}) \ {y}])
          BY <3>2, <4>2, <4>3
        <4>9. iter[S \ {x}] = f[y] + iter[(S \ {x}) \ {y}]
          BY <4>2
        <4> QED
          BY <4>7, <4>8, <4>9
      <3> QED
        BY <3>3, <3>4
    <2> HIDE DEF T
    <2>2. \A S \in SUBSET D : S \in T
      BY <2>1, SubsetInduction
    <2> QED
      BY <2>2 DEF T
  <1>19. IsSum(iter, f, D)
    BY <1>15, <1>17, <1>18 DEF IsSum
  <1> QED
    BY <1>14, <1>19

\* f is a natural number on the finite set S.
Summable(f, S) == IsFiniteSet(S) /\ \A x \in S : f[x] \in Nat

LEMMA SumAgrees ==
  ASSUME NEW f, NEW g, NEW S, Summable(f, S), \A x \in S : f[x] = g[x]
  PROVE  SumOver(f, S) = SumOver(g, S)
PROOF
  <1>1. PICK h : IsSum(h, f, S) /\ SumOver(f, S) = h[S]
    BY SumExists DEF Summable
  <1>2. PICK k : IsSum(k, g, S) /\ SumOver(g, S) = k[S]
    <2>1. \A x \in S : g[x] \in Nat
      BY DEF Summable
    <2> QED
      BY <2>1, SumExists DEF Summable
  <1>3. h[S] = k[S]
    BY <1>1, <1>2, SumUnique DEF Summable
  <1> QED
    BY <1>1, <1>2, <1>3

\* The sum of a part is what the sum over the whole has for it.
LEMMA SumOfPart ==
  ASSUME NEW f, NEW D, Summable(f, D), NEW h, IsSum(h, f, D),
         NEW S \in SUBSET D
  PROVE  SumOver(f, S) = h[S]
PROOF
  <1>1. IsFiniteSet(S)
    BY FS_Subset DEF Summable
  <1>2. PICK k : IsSum(k, f, S) /\ SumOver(f, S) = k[S]
    BY <1>1, SumExists DEF Summable
  <1>3. h[S] = k[S]
    BY <1>1, <1>2, SumUnique
  <1> QED
    BY <1>2, <1>3

LEMMA SumStep ==
  ASSUME NEW f, NEW S, Summable(f, S)
  PROVE  /\ SumOver(f, S) \in Nat
         /\ S = {} => SumOver(f, S) = 0
         /\ \A x \in S : SumOver(f, S) = f[x] + SumOver(f, S \ {x})
PROOF
  <1>1. PICK h : IsSum(h, f, S) /\ SumOver(f, S) = h[S]
    BY SumExists DEF Summable
  <1>2. SumOver(f, S) \in Nat /\ (S = {} => SumOver(f, S) = 0)
    BY <1>1 DEF IsSum
  <1>3. ASSUME NEW x \in S
        PROVE  SumOver(f, S) = f[x] + SumOver(f, S \ {x})
    <2>1. SumOver(f, S \ {x}) = h[S \ {x}]
      <3>1. S \ {x} \in SUBSET S
        OBVIOUS
      <3> QED
        BY <1>1, <3>1, SumOfPart
    <2>2. h[S] = f[x] + h[S \ {x}]
      BY <1>1, <1>3 DEF IsSum
    <2> QED
      BY <1>1, <2>1, <2>2
  <1> QED
    BY <1>2, <1>3

\* A set that holds one element more sums to as much more.
LEMMA SumAdd ==
  ASSUME NEW f, NEW S, NEW x, x \notin S, Summable(f, S), f[x] \in Nat
  PROVE  /\ Summable(f, S \cup {x})
         /\ SumOver(f, S \cup {x}) = SumOver(f, S) + f[x]
PROOF
  <1>1. Summable(f, S \cup {x})
    BY FS_AddElement DEF Summable
  <1>2. SumOver(f, S \cup {x}) = f[x] + SumOver(f, (S \cup {x}) \ {x})
    <2>1. x \in S \cup {x}
      OBVIOUS
    <2> QED
      BY <1>1, <2>1, SumStep
  <1>3. (S \cup {x}) \ {x} = S
    OBVIOUS
  <1>4. SumOver(f, S) \in Nat
    BY SumStep
  <1>5. \A m, n \in Nat : m + n = n + m
    OBVIOUS
  <1> QED
    BY <1>1, <1>2, <1>3, <1>4, <1>5

LEMMA SumUnion ==
  ASSUME NEW f, NEW S, NEW U, Summable(f, S), Summable(f, U), S \cap U = {}
  PROVE  /\ Summable(f, S \cup U)
         /\ SumOver(f, S \cup U) = SumOver(f, S) + SumOver(f, U)
PROOF
  <1>1. Summable(f, S \cup U)
    BY FS_Union DEF Summable
  <1> DEFINE T == {V \in SUBSET U :
                     SumOver(f, S \cup V) = SumOver(f, S) + SumOver(f, V)}
  <1>2. \A V \in SUBSET U : Summable(f, V) /\ Summable(f, S \cup V)
    BY FS_Subset, FS_Union DEF Summable
  <1>3. SumOver(f, S) \in Nat
    BY SumStep
  <1>4. ASSUME NEW V \in SUBSET U, \A x \in V : V \ {x} \in T
        PROVE  V \in T
    <2>1. CASE V = {}
      <3>1. S \cup V = S /\ SumOver(f, V) = 0
        BY <1>2, <2>1, SumStep
      <3>2. \A n \in Nat : n = n + 0
        OBVIOUS
      <3>3. SumOver(f, S) = SumOver(f, S) + 0
        BY <1>3, <3>2
      <3> QED
        BY <3>1, <3>3
    <2>2. CASE V # {}
      <3>1. PICK x \in V : TRUE
        BY <2>2
      <3> DEFINE W == V \ {x}
      <3>2. W \in SUBSET U /\ x \notin W /\ x \notin S \cup W /\ V = W \cup {x}
            /\ S \cup V = (S \cup W) \cup {x} /\ x \in U /\ W \in T
        BY <1>4, <3>1
      <3>3. f[x] \in Nat
        BY <3>2 DEF Summable
      <3> HIDE DEF W
      <3>4. SumOver(f, V) = SumOver(f, W) + f[x]
        BY <1>2, <3>2, <3>3, SumAdd
      <3>5. SumOver(f, S \cup V) = SumOver(f, S \cup W) + f[x]
        BY <1>2, <3>2, <3>3, SumAdd
      <3>6. SumOver(f, S \cup W) = SumOver(f, S) + SumOver(f, W)
        BY <3>2
      <3>7. SumOver(f, W) \in Nat
        BY <1>2, <3>2, SumStep
      <3>8. \A k, m, n \in Nat : (k + m) + n = k + (m + n)
        OBVIOUS
      <3>9. (SumOver(f, S) + SumOver(f, W)) + f[x]
              = SumOver(f, S) + (SumOver(f, W) + f[x])
        BY <1>3, <3>3, <3>7, <3>8
      <3> QED
        BY <3>4, <3>5, <3>6, <3>9
    <2> QED
      BY <2>1, <2>2
  <1> HIDE DEF T
  <1>5. \A V \in SUBSET U : V \in T
    BY <1>4, SubsetInduction DEF Summable
  <1> QED
    BY <1>1, <1>5 DEF T

LEMMA SumSplit ==
  ASSUME NEW f, NEW S, Summable(f, S), NEW U \in SUBSET S
  PROVE  /\ Summable(f, U) /\ Summable(f, S \ U)
         /\ SumOver(f, S) = SumOver(f, S \ U) + SumOver(f, U)
PROOF
  <1>1. Summable(f, U) /\ Summable(f, S \ U)
    BY FS_Subset DEF Summable
  <1>2. (S \ U) \cap U = {} /\ (S \ U) \cup U = S
    OBVIOUS
  <1> QED
    BY <1>1, <1>2, SumUnion

\* u[i] is the sum of the first i terms of s.
PartialSums(u, s) ==
  /\ u \in [0..Len(s) -> Int]
  /\ u[0] = 0
  /\ \A i \in 1..Len(s) : u[i] = u[i - 1] + s[i]

LEMMA TotalDef ==
  ASSUME NEW s \in Seq(Int)
  PROVE  \E u : PartialSums(u, s) /\ Total(s) = u[Len(s)]
PROOF
  <1> DEFINE n == Len(s)
             G == [p \in (1..n) \X Int |-> p[2] + s[p[1]]]
             T == [i \in 0..n |-> Int]
             upTo == CHOOSE f : f = [i \in 0..n |-> IF i = 0 THEN 0
                                                   ELSE f[i - 1] + s[i]]
  <1>1. n \in Nat /\ \A i \in 1..n : s[i] \in Int
    OBVIOUS
  <1>2. \A i \in 1..n : \A x \in T[i - 1] : G[<<i, x>>] = x + s[i]
                                            /\ G[<<i, x>>] \in T[i]
    <2> TAKE i \in 1..n
    <2>1. i - 1 \in 0..n /\ i \in 0..n /\ s[i] \in Int
      BY <1>1
    <2> QED
      BY <2>1
  <1>3. 0 \in T[0]
    BY <1>1
  <1>4. T \in [0..n -> SUBSET Int]
    OBVIOUS
  <1> HIDE DEF G, T
  <1>5. PICK g : Solves(g, n, Int, T, 0, G)
    <2>1. IsRecursion(n, Int, T, 0, G)
      BY <1>1, <1>2, <1>3, <1>4 DEF IsRecursion
    <2> QED
      BY <2>1, RecursionExists
  <1>6. g = [i \in 0..n |-> IF i = 0 THEN 0 ELSE g[i - 1] + s[i]]
    <2>1. \A i \in 1..n : g[i] = g[i - 1] + s[i]
      <3> TAKE i \in 1..n
      <3>1. i - 1 \in 0..n
        BY <1>1
      <3> QED
        BY <1>2, <1>5, <3>1 DEF Solves
    <2>2. \A i \in 0..n : i = 0 \/ i \in 1..n
      BY <1>1
    <2> QED
      BY <1>5, <2>1, <2>2 DEF Solves
  <1>7. upTo = [i \in 0..n |-> IF i = 0 THEN 0 ELSE upTo[i - 1] + s[i]]
    BY <1>6
  <1>8. Total(s) = upTo[n]
    BY DEF Total
  <1> HIDE DEF upTo
  <1>9. /\ DOMAIN upTo = 0..n /\ upTo[0] = 0
        /\ \A i \in 1..n : upTo[i] = upTo[i - 1] + s[i]
    BY <1>1, <1>7
  <1> DEFINE I == {k \in Nat : k =< n => upTo[k] \in Int}
  <1>10. 0 \in I
    BY <1>9
  <1>11. ASSUME NEW k \in Nat, k \in I PROVE k + 1 \in I
    <2> SUFFICES ASSUME k + 1 =< n PROVE upTo[k + 1] \in Int
      OBVIOUS
    <2>1. (k + 1) - 1 = k /\ k + 1 \in 1..n
      BY <1>1
    <2>2. upTo[k + 1] = upTo[k] + s[k + 1]
      BY <1>9, <2>1
    <2>3. upTo[k] \in Int /\ s[k + 1] \in Int
      BY <1>1, <1>11, <2>1
    <2> QED
      BY <2>2, <2>3
  <1> HIDE DEF I
  <1>12. \A k \in Nat : k \in I
    BY <1>10, <1>11, SetInduction
  <1>13. \A k \in 0..n : upTo[k] \in Int
    BY <1>1, <1>12 DEF I
  <1>14. upTo \in [0..n -> Int]
    BY <1>7, <1>13
  <1> QED
    BY <1>8, <1>9, <1>14 DEF PartialSums

\* Partial sums of sequences that begin alike.
LEMMA PartialSumsAgree ==
  ASSUME NEW s \in Seq(Int), NEW t \in Seq(Int), NEW u, NEW v,
         PartialSums(u, s), PartialSums(v, t),
         NEW n \in Nat, n =< Len(s), n =< Len(t),
         \A i \in 1..n : s[i] = t[i]
  PROVE  u[n] = v[n]
PROOF
  <1> DEFINE I == {k \in Nat : k =< n => u[k] = v[k]}
  <1>1. 0 \in I
    BY DEF PartialSums
  <1>2. ASSUME NEW k \in Nat, k \in I PROVE k + 1 \in I
    <2> SUFFICES ASSUME k + 1 =< n PROVE u[k + 1] = v[k + 1]
      OBVIOUS
    <2>1. (k + 1) - 1 = k /\ k + 1 \in 1..Len(s) /\ k + 1 \in 1..Len(t)
          /\ k + 1 \in 1..n /\ k =< n
      OBVIOUS
    <2>2. u[k + 1] = u[k] + s[k + 1] /\ v[k + 1] = v[k] + t[k + 1]
      BY <2>1 DEF PartialSums
    <2>3. u[k] = v[k] /\ s[k + 1] = t[k + 1]
      BY <1>2, <2>1
    <2> QED
      BY <2>2, <2>3
  <1> HIDE DEF I
  <1>3. \A k \in Nat : k \in I
    BY <1>1, <1>2, SetInduction
  <1> QED
    BY <1>3 DEF I

LEMMA TotalLonger ==
  ASSUME NEW s \in Seq(Int), NEW t \in Seq(Int), Len(t) = Len(s) + 1,
         \A i \in 1..Len(s) : s[i] = t[i]
  PROVE  Total(t) = Total(s) + t[Len(t)]
PROOF
  <1> DEFINE n == Len(s)
  <1>1. Len(t) = n + 1 /\ n \in Nat /\ \A i \in 1..n : s[i] = t[i]
    OBVIOUS
  <1> HIDE DEF n
  <1>2. PICK u : PartialSums(u, s) /\ Total(s) = u[n]
    BY TotalDef DEF n
  <1>3. PICK v : PartialSums(v, t) /\ Total(t) = v[n + 1]
    BY <1>1, TotalDef
  <1>4. u[n] = v[n]
    BY <1>1, <1>2, <1>3, PartialSumsAgree DEF n
  <1>5. n + 1 \in 1..Len(t) /\ (n + 1) - 1 = n
    BY <1>1
  <1>6. v[n + 1] = v[n] + t[n + 1]
    BY <1>1, <1>3, <1>5 DEF PartialSums
  <1> QED
    BY <1>1, <1>2, <1>3, <1>4, <1>6

LEMMA TotalEmpty ==
  Total(<< >>) = 0
PROOF
  <1>1. << >> \in Seq(Int) /\ Len(<< >>) = 0
    OBVIOUS
  <1> QED
    BY <1>1, TotalDef DEF PartialSums

\* Sums are added term by term.
LEMMA TotalPlus ==
  ASSUME NEW r \in Seq(Int), NEW s \in Seq(Int), NEW t \in Seq(Int),
         Len(s) = Len(r), Len(t) = Len(r),
         \A i \in 1..Len(r) : r[i] = s[i] + t[i]
  PROVE  Total(r) = Total(s) + Total(t)
PROOF
  <1> DEFINE n == Len(r)
  <1>1. n \in Nat /\ \A i \in 1..n : s[i] \in Int /\ t[i] \in Int
    OBVIOUS
  <1>2. PICK u : PartialSums(u, r) /\ Total(r) = u[n]
    BY TotalDef
  <1>3. PICK v : PartialSums(v, s) /\ Total(s) = v[n]
    BY TotalDef
  <1>4. PICK w : PartialSums(w, t) /\ Total(t) = w[n]
    BY TotalDef
  <1> DEFINE I == {k \in Nat : k =< n => u[k] = v[k] + w[k]}
  <1>5. 0 \in I
    BY <1>2, <1>3, <1>4 DEF PartialSums
  <1>6. ASSUME NEW k \in Nat, k \in I PROVE k + 1 \in I
    <2> SUFFICES ASSUME k + 1 =< n PROVE u[k + 1] = v[k + 1] + w[k + 1]
      OBVIOUS
    <2>1. (k + 1) - 1 = k /\ k + 1 \in 1..n /\ k \in 0..n
      BY <1>1
    <2>2. /\ u[k + 1] = u[k] + r[k + 1] /\ v[k + 1] = v[k] + s[k + 1]
          /\ w[k + 1] = w[k] + t[k + 1]
      BY <1>2, <1>3, <1>4, <2>1 DEF PartialSums
    <2>3. u[k] = v[k] + w[k] /\ r[k + 1] = s[k + 1] + t[k + 1]
      BY <1>6, <2>1
    <2>4. v[k] \in Int /\ w[k] \in Int /\ s[k + 1] \in Int /\ t[k + 1] \in Int
      BY <1>1, <1>3, <1>4, <2>1 DEF PartialSums
    <2>5. \A a, b, c, d \in Int : (a + b) + (c + d) = (a + c) + (b + d)
      OBVIOUS
    <2>6. (v[k] + w[k]) + (s[k + 1] + t[k + 1])
            = (v[k] + s[k + 1]) + (w[k] + t[k + 1])
      BY <2>4, <2>5
    <2> QED
      BY <2>2, <2>3, <2>6
  <1> HIDE DEF I
  <1>7. \A k \in Nat : k \in I
    BY <1>5, <1>6, SetInduction
  <1> QED
    BY <1>1, <1>2, <1>3, <1>4, <1>7 DEF I

\* The sequence s gives f at a different place of P for each index in K, and 0
\* elsewhere.
SpreadOver(s, K, f, q, P) ==
  /\ s \in Seq(Int) /\ K \subseteq 1..Len(s)
  /\ \A i \in 1..Len(s) : s[i] = IF i \in K THEN f[q[i]] ELSE 0
  /\ \A i \in K : f[q[i]] \in Nat
  /\ \A i, j \in K : q[i] = q[j] => i = j
  /\ \A x : x \in P <=> \E i \in K : x = q[i]

\* It sums to what f sums to over those places.
LEMMA TotalIsSum ==
  ASSUME NEW s, NEW K, NEW f, NEW q, NEW P, SpreadOver(s, K, f, q, P)
  PROVE  Summable(f, P) /\ Total(s) = SumOver(f, P)
PROOF
  <1> DEFINE n == Len(s)
  <1>1. /\ s \in Seq(Int) /\ n \in Nat /\ K \subseteq 1..n
        /\ \A i \in 1..n : s[i] = IF i \in K THEN f[q[i]] ELSE 0
    BY DEF SpreadOver
  <1>a. /\ \A i \in K : f[q[i]] \in Nat
        /\ \A i, j \in K : q[i] = q[j] => i = j
    BY DEF SpreadOver
  <1>b. \A x : x \in P <=> \E i \in K : x = q[i]
    BY DEF SpreadOver
  <1>2. PICK u : PartialSums(u, s) /\ Total(s) = u[n]
    BY <1>1, TotalDef
  <1> DEFINE At == [k \in Nat |-> {q[i] : i \in {j \in K : j =< k}}]
             I == {k \in Nat : k =< n => /\ Summable(f, At[k])
                                         /\ u[k] = SumOver(f, At[k])}
  <1>3. 0 \in I
    <2>1. At[0] = {}
      <3>1. K \subseteq Nat \ {0}
        BY <1>1
      <3>2. \A j \in K : ~ (j =< 0)
        BY <3>1
      <3>3. At[0] = {q[i] : i \in {j \in K : j =< 0}}
        OBVIOUS
      <3> HIDE DEF At
      <3> QED
        BY <3>2, <3>3
    <2>2. Summable(f, {})
      BY FS_EmptySet DEF Summable
    <2>3. SumOver(f, {}) = 0
      BY <2>2, SumStep
    <2> QED
      BY <1>2, <2>1, <2>2, <2>3 DEF PartialSums
  <1>4. ASSUME NEW k \in Nat, k \in I PROVE k + 1 \in I
    <2> SUFFICES ASSUME k + 1 =< n
                 PROVE  /\ Summable(f, At[k + 1])
                        /\ u[k + 1] = SumOver(f, At[k + 1])
      OBVIOUS
    <2>1. (k + 1) - 1 = k /\ k + 1 \in 1..n /\ k =< n
      BY <1>1
    <2>2. u[k + 1] = u[k] + s[k + 1]
      BY <1>2, <2>1 DEF PartialSums
    <2>3. Summable(f, At[k]) /\ u[k] = SumOver(f, At[k])
      BY <1>4, <2>1
    <2>4. \A j \in K : j =< k + 1 <=> j =< k \/ j = k + 1
      BY <1>1
    <2>5. CASE k + 1 \in K
      <3>1. s[k + 1] = f[q[k + 1]] /\ f[q[k + 1]] \in Nat
        BY <1>1, <1>a, <2>1, <2>5
      <3>2. q[k + 1] \notin At[k]
        <4> SUFFICES ASSUME NEW j \in K, j =< k, q[j] = q[k + 1] PROVE FALSE
          OBVIOUS
        <4>1. j = k + 1
          BY <1>a, <2>5
        <4> QED
          BY <1>1, <4>1
      <3>3. At[k + 1] = At[k] \cup {q[k + 1]}
        BY <2>4, <2>5
      <3> HIDE DEF At
      <3>4. /\ Summable(f, At[k] \cup {q[k + 1]})
            /\ SumOver(f, At[k] \cup {q[k + 1]})
                 = SumOver(f, At[k]) + f[q[k + 1]]
        <4>1. PICK x : x = q[k + 1]
          OBVIOUS
        <4>2. PICK A : A = At[k]
          OBVIOUS
        <4>3. Summable(f, A) /\ x \notin A /\ f[x] \in Nat
          BY <2>3, <3>1, <3>2, <4>1, <4>2
        <4>4. /\ Summable(f, A \cup {x})
              /\ SumOver(f, A \cup {x}) = SumOver(f, A) + f[x]
          BY <4>3, SumAdd
        <4> QED
          BY <4>1, <4>2, <4>4
      <3> QED
        BY <2>2, <2>3, <3>1, <3>3, <3>4
    <2>6. CASE k + 1 \notin K
      <3>1. s[k + 1] = 0
        BY <1>1, <2>1, <2>6
      <3>2. At[k + 1] = At[k]
        BY <2>4, <2>6
      <3> HIDE DEF At
      <3>3. SumOver(f, At[k]) \in Nat
        BY <2>3, SumStep
      <3>4. \A m \in Nat : m + 0 = m
        OBVIOUS
      <3> QED
        BY <2>2, <2>3, <3>1, <3>2, <3>3, <3>4
    <2> QED
      BY <2>5, <2>6
  <1>5. At[n] = P
    <2>1. \A j \in K : j =< n
      BY <1>1
    <2>2. {j \in K : j =< n} = K
      BY <2>1
    <2>3. At[n] = {q[i] : i \in K}
      BY <1>1, <2>2
    <2> QED
      BY <1>b, <2>3
  <1> HIDE DEF I, At
  <1>6. \A k \in Nat : k \in I
    BY <1>3, <1>4, SetInduction
  <1>7. n \in I /\ n =< n
    BY <1>1, <1>6
  <1>8. Summable(f, At[n]) /\ u[n] = SumOver(f, At[n])
    BY <1>7 DEF I
  <1> QED
    BY <1>2, <1>5, <1>8

LEMMA SeqWiden ==
  ASSUME NEW S, NEW T, S \subseteq T, NEW s \in Seq(S)
  PROVE  s \in Seq(T)
  OBVIOUS

\* A set of numbers closed under addition that holds the terms holds their sum.
LEMMA TotalClosed ==
  ASSUME NEW S \in SUBSET Int, 0 \in S, \A x, y \in S : x + y \in S,
         NEW s \in Seq(S)
  PROVE  Total(s) \in S
PROOF
  <1> DEFINE n == Len(s)
  <1>1. n \in Nat /\ \A i \in 1..n : s[i] \in S
    OBVIOUS
  <1>2. PICK u : PartialSums(u, s) /\ Total(s) = u[n]
    BY SeqWiden, TotalDef
  <1> DEFINE I == {k \in Nat : k =< n => u[k] \in S}
  <1>3. 0 \in I
    BY <1>2 DEF PartialSums
  <1>4. ASSUME NEW k \in Nat, k \in I PROVE k + 1 \in I
    <2> SUFFICES ASSUME k + 1 =< n PROVE u[k + 1] \in S
      OBVIOUS
    <2>1. (k + 1) - 1 = k /\ k + 1 \in 1..n
      BY <1>1
    <2>2. u[k + 1] = u[k] + s[k + 1]
      BY <1>2, <2>1 DEF PartialSums
    <2>3. u[k] \in S /\ s[k + 1] \in S
      BY <1>1, <1>4, <2>1
    <2> QED
      BY <2>2, <2>3
  <1> HIDE DEF I
  <1>5. \A k \in Nat : k \in I
    BY <1>3, <1>4, SetInduction
  <1> QED
    BY <1>1, <1>2, <1>5 DEF I

LEMMA TotalNat ==
  ASSUME NEW s \in Seq(Nat)
  PROVE  Total(s) \in Nat
PROOF
  BY TotalClosed

\* Each shift of the subsidy the code allows is a natural number.
LEMMA SubsidyNat ==
  \A n \in 0..63 : Subsidy[n] \in Nat
PROOF
  <1> DEFINE G == [p \in (1..63) \X Nat |-> p[2] \div 2]
             T == [i \in 0..63 |-> Nat]
             halved == CHOOSE f : f = [n \in 0..63 |->
                                         IF n = 0 THEN INITIAL_REWARD
                                         ELSE f[n - 1] \div 2]
  <1>1. \A x \in Nat : x \div 2 \in Nat
    OBVIOUS
  <1>2. \A i \in 1..63 : \A x \in T[i - 1] : /\ G[<<i, x>>] = x \div 2
                                             /\ G[<<i, x>>] \in T[i]
    <2> TAKE i \in 1..63
    <2>1. i - 1 \in 0..63 /\ i \in 0..63
      OBVIOUS
    <2> QED
      BY <1>1, <2>1
  <1>3. IsRecursion(63, Nat, T, INITIAL_REWARD, G)
    <2>1. T \in [0..63 -> SUBSET Nat] /\ INITIAL_REWARD \in T[0]
      BY LedgerAssumption
    <2> HIDE DEF G, T
    <2> QED
      BY <1>2, <2>1 DEF IsRecursion
  <1>4. PICK g : Solves(g, 63, Nat, T, INITIAL_REWARD, G)
    BY <1>3, RecursionExists
  <1>5. g = [n \in 0..63 |-> IF n = 0 THEN INITIAL_REWARD ELSE g[n - 1] \div 2]
    <2>1. \A n \in 1..63 : g[n] = g[n - 1] \div 2
      <3> TAKE n \in 1..63
      <3>1. n - 1 \in 0..63
        OBVIOUS
      <3> QED
        BY <1>2, <1>4, <3>1 DEF Solves
    <2>2. \A n \in 0..63 : n = 0 \/ n \in 1..63
      OBVIOUS
    <2> QED
      BY <1>4, <2>1, <2>2 DEF Solves
  <1>6. halved = [n \in 0..63 |-> IF n = 0 THEN INITIAL_REWARD
                                  ELSE halved[n - 1] \div 2]
    BY <1>5
  <1> HIDE DEF halved
  <1> DEFINE I == {k \in Nat : k =< 63 => halved[k] \in Nat}
  <1>7. 0 \in I
    BY <1>6, LedgerAssumption
  <1>8. ASSUME NEW k \in Nat, k \in I PROVE k + 1 \in I
    <2> SUFFICES ASSUME k + 1 =< 63 PROVE halved[k + 1] \in Nat
      OBVIOUS
    <2>1. k + 1 \in 0..63 /\ k + 1 # 0 /\ (k + 1) - 1 = k
      OBVIOUS
    <2>2. halved[k + 1] = halved[k] \div 2
      BY <1>6, <2>1
    <2> QED
      BY <1>1, <1>8, <2>2
  <1> HIDE DEF I
  <1>9. \A k \in Nat : k \in I
    BY <1>7, <1>8, SetInduction
  <1>10. \A n \in 0..63 : halved[n] \in Nat
    BY <1>9 DEF I
  <1> QED
    BY <1>10 DEF Subsidy, halved

\* The reward is a natural number and never more than what is left to issue.
LEMMA RewardBound ==
  ASSUME NEW h \in Nat, NEW s \in Nat
  PROVE  /\ block_reward(h, s) \in Nat
         /\ s =< MAX_SUPPLY => s + block_reward(h, s) =< MAX_SUPPLY
PROOF
  <1> DEFINE n == h \div HALVING_INTERVAL
  <1>1. n \in Nat
    BY LedgerAssumption
  <1>2. CASE s >= MAX_SUPPLY \/ n >= 64
    BY <1>2, LedgerAssumption DEF block_reward
  <1>3. CASE ~ (s >= MAX_SUPPLY \/ n >= 64)
    <2>1. Subsidy[n] \in Nat
      BY <1>1, <1>3, SubsidyNat
    <2> QED
      BY <1>3, <2>1, LedgerAssumption DEF block_reward
  <1> QED
    BY <1>2, <1>3

-----------------------------------------------------------------------------
(* Ledgers *)

LedgerSet == [utxo : Maps(OutPoint, TxOut), cb : Maps(OutPoint, Nat),
              supply : Nat]

\* The totals of one transaction, and of the fees of a valid block, are natural.
LEMMA OutputTotalNat ==
  ASSUME NEW tx \in Transaction
  PROVE  OutputTotal(tx) \in Nat
PROOF
  <1> DEFINE values == [i \in DOMAIN tx.outputs |-> tx.outputs[i].value]
  <1>1. tx.outputs \in Seq(TxOut)
    BY DEF Transaction
  <1>2. \A i \in DOMAIN tx.outputs : tx.outputs[i].value \in Nat
    <2>1. \A i \in DOMAIN tx.outputs : tx.outputs[i] \in TxOut
      BY <1>1
    <2>2. \A o \in TxOut : o.value \in Nat
      BY DEF TxOut
    <2> QED
      BY <2>1, <2>2
  <1>3. values \in Seq(Nat)
    BY <1>1, <1>2
  <1> QED
    BY <1>3, TotalClosed DEF OutputTotal

LEMMA InputTotalNat ==
  ASSUME NEW utxo, IsMap(utxo, OutPoint, TxOut), NEW tx \in Transaction,
         \A i \in DOMAIN tx.inputs : tx.inputs[i] \in DOMAIN utxo
  PROVE  InputTotal(utxo, tx) \in Nat
PROOF
  <1> DEFINE values == [i \in DOMAIN tx.inputs |-> utxo[tx.inputs[i]].value]
  <1>1. tx.inputs \in Seq(OutPoint)
    BY DEF Transaction
  <1>2. \A i \in DOMAIN tx.inputs : utxo[tx.inputs[i]].value \in Nat
    BY DEF IsMap, TxOut
  <1>3. values \in Seq(Nat)
    BY <1>1, <1>2
  <1> QED
    BY <1>3, TotalClosed DEF InputTotal

LEMMA FeesNat ==
  ASSUME NEW l \in LedgerSet, NEW txs \in Seq(Transaction), NEW h \in Nat,
         NEW sigs \in BOOLEAN, validate_txs(l, txs, h, sigs)
  PROVE  Fees(l.utxo, txs) \in Nat
PROOF
  <1> DEFINE fee == [i \in DOMAIN txs |->
                       IF txs[i].coinbase THEN 0
                       ELSE InputTotal(l.utxo, txs[i]) - OutputTotal(txs[i])]
  <1>1. IsMap(l.utxo, OutPoint, TxOut)
    BY MapSet DEF LedgerSet
  <1>2. ASSUME NEW i \in DOMAIN txs, ~ txs[i].coinbase
        PROVE  InputTotal(l.utxo, txs[i]) - OutputTotal(txs[i]) \in Nat
    <2>1. txs[i] \in Transaction
      OBVIOUS
    <2>2. tx_valid(l, txs[i], h, sigs)
      BY <1>2 DEF validate_txs
    <2>3. /\ \A j \in DOMAIN txs[i].inputs : txs[i].inputs[j] \in DOMAIN l.utxo
          /\ OutputTotal(txs[i]) =< InputTotal(l.utxo, txs[i])
      BY <2>2 DEF tx_valid
    <2>4. InputTotal(l.utxo, txs[i]) \in Nat
      BY <1>1, <2>1, <2>3, InputTotalNat
    <2>5. OutputTotal(txs[i]) \in Nat
      BY <2>1, OutputTotalNat
    <2> QED
      BY <2>3, <2>4, <2>5
  <1>3. fee \in Seq(Nat)
    BY <1>2
  <1> QED
    BY <1>3, TotalClosed DEF Fees

\* Applying one transaction, or all those of a block, keeps a ledger a ledger.
LEMMA ApplyTxLedger ==
  ASSUME NEW l \in LedgerSet, NEW tx \in Transaction, NEW h \in Nat
  PROVE  apply_tx(l, tx, h) \in LedgerSet
PROOF
  <1> DEFINE created == Created(tx)
             outs    == [o \in created |-> tx.outputs[o[2]]]
             heights == [o \in created |-> h]
             kept(m) == Restrict(m, DOMAIN m \ Range(tx.inputs))
  <1>1. IsMap(l.utxo, OutPoint, TxOut) /\ IsMap(l.cb, OutPoint, Nat)
    BY MapSet DEF LedgerSet
  <1>2. tx.outputs \in Seq(TxOut) /\ tx.txid \in TxIds
    BY DEF Transaction
  <1>3. \A o \in created : o \in OutPoint /\ o[2] \in DOMAIN tx.outputs
    <2> SUFFICES ASSUME NEW v \in DOMAIN tx.outputs
                 PROVE  <<tx.txid, v>> \in OutPoint
      BY DEF Created
    <2>1. v \in Nat \ {0}
      BY <1>2
    <2> QED
      BY <1>2, <2>1 DEF OutPoint
  <1>4. IsMap(outs, OutPoint, TxOut)
    <2>1. \A o \in created : tx.outputs[o[2]] \in TxOut
      BY <1>2, <1>3
    <2> HIDE DEF created
    <2> QED
      BY <1>3, <2>1 DEF IsMap
  <1>5. IsMap(heights, OutPoint, Nat)
    BY <1>3 DEF IsMap
  <1>6. IsMap(kept(l.utxo), OutPoint, TxOut) /\ IsMap(kept(l.cb), OutPoint, Nat)
    BY <1>1, MapRestrict
  <1> HIDE DEF outs, heights, kept
  <1>7. /\ IsMap(InsertAll(kept(l.utxo), outs), OutPoint, TxOut)
        /\ IsMap(InsertAll(kept(l.cb), heights), OutPoint, Nat)
    BY <1>4, <1>5, <1>6, MapInsertAll
  <1>8. /\ InsertAll(kept(l.utxo), outs) \in Maps(OutPoint, TxOut)
        /\ InsertAll(kept(l.cb), heights) \in Maps(OutPoint, Nat)
        /\ kept(l.cb) \in Maps(OutPoint, Nat)
    BY <1>6, <1>7, MapSet
  <1>9. apply_tx(l, tx, h) =
          [l EXCEPT !.utxo = InsertAll(kept(l.utxo), outs),
                    !.cb   = IF tx.coinbase
                             THEN InsertAll(kept(l.cb), heights)
                             ELSE kept(l.cb)]
    BY DEF apply_tx, outs, heights, kept, LedgerSet
  <1> QED
    BY <1>8, <1>9 DEF LedgerSet

\* What a transaction does to the two maps, outpoint by outpoint.
LEMMA ApplyTxMaps ==
  ASSUME NEW l \in LedgerSet, NEW tx \in Transaction, NEW h \in Nat
  PROVE  LET r     == apply_tx(l, tx, h)
             spent == Range(tx.inputs)
             fresh == IF tx.coinbase THEN Created(tx) ELSE {}
         IN  /\ DOMAIN r.utxo = (DOMAIN l.utxo \ spent) \cup Created(tx)
             /\ \A o \in DOMAIN r.utxo :
                   r.utxo[o] = IF o \in Created(tx) THEN tx.outputs[o[2]]
                                                    ELSE l.utxo[o]
             /\ DOMAIN r.cb = (DOMAIN l.cb \ spent) \cup fresh
             /\ \A o \in DOMAIN r.cb :
                   r.cb[o] = IF o \in fresh THEN h ELSE l.cb[o]
             /\ r.supply = l.supply
PROOF
  <1> DEFINE spent == Range(tx.inputs)
             outs  == [o \in Created(tx) |-> tx.outputs[o[2]]]
             hs    == [o \in Created(tx) |-> h]
             kept(m) == Restrict(m, DOMAIN m \ spent)
             r     == apply_tx(l, tx, h)
  <1>1. /\ r.utxo = InsertAll(kept(l.utxo), outs)
        /\ r.cb = IF tx.coinbase THEN InsertAll(kept(l.cb), hs) ELSE kept(l.cb)
        /\ r.supply = l.supply
    BY DEF apply_tx, LedgerSet
  <1> HIDE DEF r, spent
  <1>2. /\ DOMAIN kept(l.utxo) = DOMAIN l.utxo \ spent
        /\ \A o \in DOMAIN l.utxo \ spent : kept(l.utxo)[o] = l.utxo[o]
        /\ DOMAIN kept(l.cb) = DOMAIN l.cb \ spent
        /\ \A o \in DOMAIN l.cb \ spent : kept(l.cb)[o] = l.cb[o]
    BY DEF Restrict
  <1>3. /\ DOMAIN outs = Created(tx) /\ DOMAIN hs = Created(tx)
        /\ \A o \in Created(tx) : outs[o] = tx.outputs[o[2]] /\ hs[o] = h
    OBVIOUS
  <1> HIDE DEF outs, hs, kept
  <1>4. /\ DOMAIN r.utxo = (DOMAIN l.utxo \ spent) \cup Created(tx)
        /\ \A o \in DOMAIN r.utxo :
              r.utxo[o] = IF o \in Created(tx) THEN tx.outputs[o[2]]
                                               ELSE l.utxo[o]
    BY <1>1, <1>2, <1>3 DEF InsertAll
  <1>5. CASE tx.coinbase
    BY <1>1, <1>2, <1>3, <1>4, <1>5 DEF InsertAll, r, spent
  <1>6. CASE ~ tx.coinbase
    BY <1>1, <1>2, <1>4, <1>6 DEF r, spent
  <1> QED
    BY <1>5, <1>6 DEF Transaction

\* The ledgers between the transactions of a block.
AppliedOneByOne(f, l, txs, h) ==
  /\ f \in [0..Len(txs) -> LedgerSet]
  /\ f[0] = l
  /\ \A i \in 1..Len(txs) : f[i] = apply_tx(f[i - 1], txs[i], h)

LEMMA ApplyEachDef ==
  ASSUME NEW l \in LedgerSet, NEW txs \in Seq(Transaction), NEW h \in Nat
  PROVE  \E f : /\ AppliedOneByOne(f, l, txs, h)
                /\ apply_each(l, txs, h) = f[Len(txs)]
PROOF
  <1> DEFINE n == Len(txs)
             G == [p \in (1..n) \X LedgerSet |-> apply_tx(p[2], txs[p[1]], h)]
             T == [i \in 0..n |-> LedgerSet]
             after == CHOOSE f : f = [i \in 0..n |->
                                        IF i = 0 THEN l
                                        ELSE apply_tx(f[i - 1], txs[i], h)]
  <1>1. n \in Nat /\ \A i \in 1..n : txs[i] \in Transaction
    OBVIOUS
  <1>2. \A i \in 1..n : \A x \in T[i - 1] :
           G[<<i, x>>] = apply_tx(x, txs[i], h) /\ G[<<i, x>>] \in T[i]
    <2> TAKE i \in 1..n
    <2>1. i - 1 \in 0..n /\ i \in 0..n /\ txs[i] \in Transaction
      BY <1>1
    <2>2. \A x \in LedgerSet : apply_tx(x, txs[i], h) \in LedgerSet
      BY <2>1, ApplyTxLedger
    <2> QED
      BY <2>1, <2>2
  <1>3. IsRecursion(n, LedgerSet, T, l, G)
    <2>1. T \in [0..n -> SUBSET LedgerSet] /\ l \in T[0]
      BY <1>1
    <2> HIDE DEF G, T
    <2> QED
      BY <1>1, <1>2, <2>1 DEF IsRecursion
  <1>4. PICK g : Solves(g, n, LedgerSet, T, l, G)
    BY <1>3, RecursionExists
  <1>5. \A i \in 1..n : g[i] = apply_tx(g[i - 1], txs[i], h)
    <2> TAKE i \in 1..n
    <2>1. i - 1 \in 0..n
      BY <1>1
    <2> HIDE DEF G, T
    <2> QED
      BY <1>2, <1>4, <2>1 DEF Solves
  <1>6. g = [i \in 0..n |-> IF i = 0 THEN l ELSE apply_tx(g[i - 1], txs[i], h)]
    <2>1. \A i \in 0..n : i = 0 \/ i \in 1..n
      BY <1>1
    <2> HIDE DEF n, G, T
    <2> QED
      BY <1>4, <1>5, <2>1 DEF Solves
  <1>7. after = [i \in 0..n |-> IF i = 0 THEN l
                                ELSE apply_tx(after[i - 1], txs[i], h)]
    BY <1>6
  <1>8. apply_each(l, txs, h) = after[n]
    BY DEF apply_each
  <1> HIDE DEF after
  <1> DEFINE I == {k \in Nat : k =< n => after[k] \in LedgerSet}
  <1>9. after[0] = l /\ \A i \in 1..n : after[i] = apply_tx(after[i - 1], txs[i], h)
    BY <1>1, <1>7
  <1>10. 0 \in I
    BY <1>9
  <1>11. ASSUME NEW k \in Nat, k \in I PROVE k + 1 \in I
    <2> SUFFICES ASSUME k + 1 =< n PROVE after[k + 1] \in LedgerSet
      OBVIOUS
    <2>1. (k + 1) - 1 = k /\ k + 1 \in 1..n
      BY <1>1
    <2>2. after[k + 1] = apply_tx(after[k], txs[k + 1], h)
      BY <1>9, <2>1
    <2>3. after[k] \in LedgerSet
      BY <1>1, <1>11
    <2> QED
      BY <1>1, <2>1, <2>2, <2>3, ApplyTxLedger
  <1> HIDE DEF I
  <1>12. \A k \in Nat : k \in I
    BY <1>10, <1>11, SetInduction
  <1>13. \A k \in 0..n : after[k] \in LedgerSet
    BY <1>1, <1>12 DEF I
  <1>14. after \in [0..n -> LedgerSet]
    BY <1>7, <1>13
  <1> QED
    BY <1>8, <1>9, <1>14 DEF AppliedOneByOne

\* Induction on the transactions of a block: what each step carries from one set
\* of ledgers to the next holds at the end.
LEMMA ApplyEachKeeps ==
  ASSUME NEW l \in LedgerSet, NEW txs \in Seq(Transaction), NEW h \in Nat,
         NEW T, l \in T[0],
         \A i \in 1..Len(txs) : \A x \in LedgerSet :
            x \in T[i - 1] => apply_tx(x, txs[i], h) \in T[i]
  PROVE  apply_each(l, txs, h) \in T[Len(txs)]
PROOF
  <1> DEFINE n == Len(txs)
  <1>1. PICK f : /\ AppliedOneByOne(f, l, txs, h)
                 /\ apply_each(l, txs, h) = f[n]
    BY ApplyEachDef
  <1> DEFINE I == {k \in Nat : k =< n => f[k] \in T[k]}
  <1>2. n \in Nat
    OBVIOUS
  <1>3. 0 \in I
    BY <1>1 DEF AppliedOneByOne
  <1>4. ASSUME NEW k \in Nat, k \in I PROVE k + 1 \in I
    <2> SUFFICES ASSUME k + 1 =< n PROVE f[k + 1] \in T[k + 1]
      OBVIOUS
    <2>1. (k + 1) - 1 = k /\ k + 1 \in 1..n /\ k \in 0..n
      BY <1>2
    <2>2. f[k + 1] = apply_tx(f[k], txs[k + 1], h) /\ f[k] \in LedgerSet
      BY <1>1, <2>1 DEF AppliedOneByOne
    <2>3. f[k] \in T[k]
      BY <1>2, <1>4
    <2> QED
      BY <2>1, <2>2, <2>3
  <1> HIDE DEF I
  <1>5. \A k \in Nat : k \in I
    BY <1>3, <1>4, SetInduction
  <1> QED
    BY <1>1, <1>2, <1>5 DEF I

LEMMA ApplyEachLedger ==
  ASSUME NEW l \in LedgerSet, NEW txs \in Seq(Transaction), NEW h \in Nat
  PROVE  apply_each(l, txs, h) \in LedgerSet
PROOF
  <1>1. Len(txs) \in 0..Len(txs)
    OBVIOUS
  <1> QED
    BY <1>1, ApplyEachDef DEF AppliedOneByOne

\* Neither the coinbase map nor the height has a say in what becomes of the
\* unspent outputs.
LEMMA ApplyEachUtxo ==
  ASSUME NEW l \in LedgerSet, NEW m \in LedgerSet, l.utxo = m.utxo,
         NEW txs \in Seq(Transaction), NEW h \in Nat, NEW g \in Nat
  PROVE  apply_each(l, txs, g).utxo = apply_each(m, txs, h).utxo
PROOF
  <1> DEFINE n == Len(txs)
  <1>1. PICK f : /\ AppliedOneByOne(f, m, txs, h)
                 /\ apply_each(m, txs, h) = f[n]
    BY ApplyEachDef
  <1> DEFINE T == [i \in 0..n |-> {x \in LedgerSet : x.utxo = f[i].utxo}]
  <1>2. l \in T[0]
    BY <1>1 DEF AppliedOneByOne
  <1>3. ASSUME NEW i \in 1..n, NEW x \in LedgerSet, x \in T[i - 1]
        PROVE  apply_tx(x, txs[i], g) \in T[i]
    <2>1. i - 1 \in 0..n /\ i \in 0..n /\ txs[i] \in Transaction
      OBVIOUS
    <2>2. f[i - 1] \in LedgerSet /\ f[i] = apply_tx(f[i - 1], txs[i], h)
      BY <1>1, <2>1 DEF AppliedOneByOne
    <2>3. x.utxo = f[i - 1].utxo
      BY <1>3, <2>1
    <2>4. apply_tx(x, txs[i], g).utxo = apply_tx(f[i - 1], txs[i], h).utxo
      BY <2>2, <2>3 DEF apply_tx, LedgerSet
    <2>5. apply_tx(x, txs[i], g) \in LedgerSet
      BY <2>1, ApplyTxLedger
    <2> QED
      BY <2>1, <2>2, <2>4, <2>5
  <1> HIDE DEF T
  <1>4. apply_each(l, txs, g) \in T[n]
    BY <1>2, <1>3, ApplyEachKeeps
  <1> QED
    BY <1>1, <1>4 DEF T

\* A valid block issues a natural number of coins, and never past the cap.
LEMMA IssueBound ==
  ASSUME NEW l \in LedgerSet, NEW txs \in Seq(Transaction), NEW h \in Nat,
         NEW sigs \in BOOLEAN, validate_txs(l, txs, h, sigs)
  PROVE  LET s == issue(l.supply, OutputTotal(txs[1]), Fees(l.utxo, txs))
         IN  s \in Nat /\ (l.supply =< MAX_SUPPLY => s =< MAX_SUPPLY)
PROOF
  <1>1. Fees(l.utxo, txs) \in Nat
    BY FeesNat
  <1>2. txs[1] \in Transaction
    BY DEF validate_txs
  <1>3. OutputTotal(txs[1]) \in Nat
    BY <1>2, OutputTotalNat
  <1>4. l.supply \in Nat
    BY DEF LedgerSet
  <1>5. OutputTotal(txs[1]) =< block_reward(h, l.supply) + Fees(l.utxo, txs)
    BY DEF validate_txs
  <1>6. /\ block_reward(h, l.supply) \in Nat
        /\ l.supply =< MAX_SUPPLY
             => l.supply + block_reward(h, l.supply) =< MAX_SUPPLY
    BY <1>4, RewardBound
  <1>7. \A s, out, fees, r \in Nat :
           out =< r + fees
             => /\ issue(s, out, fees) \in Nat
                /\ s =< MAX_SUPPLY /\ s + r =< MAX_SUPPLY
                     => issue(s, out, fees) =< MAX_SUPPLY
    BY LedgerAssumption DEF issue
  <1> QED
    BY <1>1, <1>3, <1>4, <1>5, <1>6, <1>7

LEMMA ApplyTxsLedger ==
  ASSUME NEW l \in LedgerSet, NEW txs \in Seq(Transaction), NEW h \in Nat,
         NEW sigs \in BOOLEAN, validate_txs(l, txs, h, sigs)
  PROVE  /\ apply_txs(l, txs, h) \in LedgerSet
         /\ l.supply =< MAX_SUPPLY => apply_txs(l, txs, h).supply =< MAX_SUPPLY
PROOF
  BY ApplyEachLedger, IssueBound DEF apply_txs, LedgerSet

\* A block that validates with its signatures checked validates without.
LEMMA ValidateSigs ==
  ASSUME NEW l, NEW txs, NEW h, validate_txs(l, txs, h, TRUE)
  PROVE  validate_txs(l, txs, h, FALSE)
PROOF
  BY DEF validate_txs, tx_valid

-----------------------------------------------------------------------------
(* Coins *)

\* coin gives an outpoint its value: every unspent output of l, and every output
\* that tx adds, has the value of its outpoint.
Priced(coin, u) ==
  Summable(coin, DOMAIN u) /\ \A o \in DOMAIN u : u[o].value = coin[o]

PricedTx(coin, tx) ==
  \A o \in Created(tx) : tx.outputs[o[2]].value = coin[o]

\* What a transaction sends to OP_RETURN outputs.
Burnt(tx) ==
  Total([v \in DOMAIN tx.outputs |->
           IF tx.outputs[v].spendable THEN 0 ELSE tx.outputs[v].value])

\* The outputs of a transaction enter the unspent ones or are burnt.
LEMMA OutputsAreCoins ==
  ASSUME NEW tx \in Transaction, NEW coin, PricedTx(coin, tx)
  PROVE  /\ Summable(coin, Created(tx))
         /\ Burnt(tx) \in Nat
         /\ OutputTotal(tx) = SumOver(coin, Created(tx)) + Burnt(tx)
PROOF
  <1> DEFINE outs == tx.outputs
             n == Len(outs)
             all  == [v \in DOMAIN outs |-> outs[v].value]
             held == [v \in DOMAIN outs |-> IF outs[v].spendable
                                            THEN outs[v].value ELSE 0]
             lost == [v \in DOMAIN outs |-> IF outs[v].spendable
                                            THEN 0 ELSE outs[v].value]
             K == {w \in DOMAIN outs : outs[w].spendable}
             q == [v \in K |-> <<tx.txid, v>>]
  <1>1. /\ outs \in Seq(TxOut) /\ n \in Nat /\ DOMAIN outs = 1..n
        /\ \A v \in 1..n : outs[v].value \in Nat
    <2>1. outs \in Seq(TxOut)
      BY DEF Transaction
    <2>2. \A o \in TxOut : o.value \in Nat
      BY DEF TxOut
    <2>3. \A v \in 1..n : outs[v] \in TxOut
      BY <2>1
    <2> QED
      BY <2>1, <2>2, <2>3
  <1>2. all \in Seq(Nat) /\ held \in Seq(Nat) /\ lost \in Seq(Nat)
    BY <1>1
  <1>3. Len(all) = n /\ Len(held) = n /\ Len(lost) = n
    BY <1>1
  <1>4. \A v \in 1..n : all[v] = held[v] + lost[v]
    BY <1>1
  <1>5. \A v \in 1..n : held[v] = IF v \in K THEN coin[q[v]] ELSE 0
    <2>1. \A v \in K : outs[v].value = coin[<<tx.txid, v>>]
      BY DEF PricedTx, Created
    <2> QED
      BY <1>1, <2>1
  <1>6. \A v \in K : coin[q[v]] \in Nat
    BY <1>1 DEF PricedTx, Created
  <1>7. \A v, w \in K : q[v] = q[w] => v = w
    OBVIOUS
  <1>8. K \subseteq 1..n /\ \A o : o \in Created(tx) <=> \E v \in K : o = q[v]
    BY <1>1 DEF Created
  <1>9. Total(all) = OutputTotal(tx) /\ Total(lost) = Burnt(tx)
    BY DEF OutputTotal, Burnt
  <1>10. Total(lost) \in Nat
    BY <1>2, TotalClosed
  <1> HIDE DEF all, held, lost, K, q, n, outs
  <1>11. all \in Seq(Int) /\ held \in Seq(Int) /\ lost \in Seq(Int)
    BY <1>2, SeqWiden
  <1>12. Total(all) = Total(held) + Total(lost)
    BY <1>3, <1>4, <1>11, TotalPlus
  <1>13. Summable(coin, Created(tx)) /\ Total(held) = SumOver(coin, Created(tx))
    <2>1. SpreadOver(held, K, coin, q, Created(tx))
      BY <1>3, <1>5, <1>6, <1>7, <1>8, <1>11 DEF SpreadOver
    <2> QED
      BY <2>1, TotalIsSum
  <1> QED
    BY <1>9, <1>10, <1>12, <1>13

\* The inputs of a transaction take what their outpoints are worth.
LEMMA InputsAreCoins ==
  ASSUME NEW u, NEW tx \in Transaction, NEW coin, Priced(coin, u),
         \A i, j \in DOMAIN tx.inputs : tx.inputs[i] = tx.inputs[j] => i = j,
         \A i \in DOMAIN tx.inputs : tx.inputs[i] \in DOMAIN u
  PROVE  /\ Summable(coin, Range(tx.inputs))
         /\ InputTotal(u, tx) = SumOver(coin, Range(tx.inputs))
PROOF
  <1> DEFINE ins == tx.inputs
             n == Len(ins)
             s == [i \in DOMAIN ins |-> u[ins[i]].value]
  <1>1. ins \in Seq(OutPoint) /\ n \in Nat /\ DOMAIN ins = 1..n
    BY DEF Transaction
  <1>2. \A i \in 1..n : u[ins[i]].value = coin[ins[i]] /\ coin[ins[i]] \in Nat
    BY <1>1 DEF Priced, Summable
  <1>3. s \in Seq(Int) /\ Len(s) = n
    BY <1>1, <1>2
  <1>4. \A i \in 1..n : s[i] = IF i \in 1..n THEN coin[ins[i]] ELSE 0
    BY <1>1, <1>2
  <1>5. \A o : o \in Range(ins) <=> \E i \in 1..n : o = ins[i]
    BY <1>1 DEF Range
  <1>6. InputTotal(u, tx) = Total(s)
    BY DEF InputTotal
  <1>7. \A i, j \in 1..n : ins[i] = ins[j] => i = j
    BY <1>1
  <1> HIDE DEF s, n, ins
  <1>8. Summable(coin, Range(ins)) /\ Total(s) = SumOver(coin, Range(ins))
    <2>1. SpreadOver(s, 1..n, coin, ins, Range(ins))
      BY <1>2, <1>3, <1>4, <1>5, <1>7 DEF SpreadOver
    <2> QED
      BY <2>1, TotalIsSum
  <1> QED
    BY <1>6, <1>8 DEF ins

\* Coins In leave the set S and coins C enter it.
Moves(coin, S, In, C, R) ==
  /\ Summable(coin, S) /\ Summable(coin, C)
  /\ In \subseteq S
  /\ R = (S \ In) \cup C

\* One that enters and is there already is replaced, and counts once.
LEMMA CoinsMove ==
  ASSUME NEW coin, NEW S, NEW In, NEW C, NEW R, Moves(coin, S, In, C, R)
  PROVE  /\ Summable(coin, R)
         /\ SumOver(coin, S) \in Nat /\ SumOver(coin, In) \in Nat
         /\ SumOver(coin, C) \in Nat /\ SumOver(coin, R) \in Nat
         /\ SumOver(coin, R) + SumOver(coin, In)
              =< SumOver(coin, S) + SumOver(coin, C)
         /\ (S \ In) \cap C = {}
              => SumOver(coin, R) + SumOver(coin, In)
                   = SumOver(coin, S) + SumOver(coin, C)
PROOF
  <1> DEFINE K == S \ In
             D == K \cap C
  <1>a. /\ Summable(coin, S) /\ Summable(coin, C) /\ In \in SUBSET S
        /\ R = K \cup C
    BY DEF Moves
  <1>1. /\ Summable(coin, In) /\ Summable(coin, K)
        /\ SumOver(coin, S) = SumOver(coin, K) + SumOver(coin, In)
    BY <1>a, SumSplit
  <1>2. /\ Summable(coin, D) /\ Summable(coin, K \ D)
        /\ SumOver(coin, K) = SumOver(coin, K \ D) + SumOver(coin, D)
    <2>1. D \in SUBSET K
      OBVIOUS
    <2> HIDE DEF D, K
    <2> QED
      BY <1>1, <2>1, SumSplit
  <1>3. /\ Summable(coin, (K \ D) \cup C)
        /\ SumOver(coin, (K \ D) \cup C) = SumOver(coin, K \ D) + SumOver(coin, C)
    <2>1. (K \ D) \cap C = {}
      OBVIOUS
    <2> QED
      BY <1>2, <1>a, <2>1, SumUnion
  <1>4. R = (K \ D) \cup C
    BY <1>a
  <1>5. K \cap C = {} => SumOver(coin, D) = 0
    BY <1>2, SumStep
  <1>6. /\ SumOver(coin, S) \in Nat /\ SumOver(coin, In) \in Nat
        /\ SumOver(coin, C) \in Nat /\ SumOver(coin, R) \in Nat
        /\ SumOver(coin, D) \in Nat /\ SumOver(coin, K \ D) \in Nat
    BY <1>1, <1>2, <1>3, <1>4, <1>a, SumStep
  <1> DEFINE s == SumOver(coin, S)
             in == SumOver(coin, In)
             c == SumOver(coin, C)
             r == SumOver(coin, R)
             d == SumOver(coin, D)
             k == SumOver(coin, K \ D)
  <1>7. s = (k + d) + in /\ r = k + c
    BY <1>1, <1>2, <1>3, <1>4
  <1>8. s \in Nat /\ in \in Nat /\ c \in Nat /\ r \in Nat /\ d \in Nat /\ k \in Nat
    BY <1>6
  <1> HIDE DEF s, in, c, r, d, k
  <1>9. r + in =< s + c /\ (d = 0 => r + in = s + c)
    BY <1>7, <1>8
  <1> QED
    BY <1>3, <1>4, <1>5, <1>6, <1>9 DEF s, in, c, r, d

\* What the transactions of a block make, take and burn.
MadeBy(txs)  == UNION {Created(txs[i]) : i \in DOMAIN txs}
TakenBy(txs) == UNION {Range(txs[i].inputs) : i \in DOMAIN txs}

BurntBy(txs) == Total([i \in DOMAIN txs |-> Burnt(txs[i])])

\* No output of the block is there before it is made.
Fresh(u, txs) ==
  /\ \A i \in DOMAIN txs : Created(txs[i]) \cap DOMAIN u = {}
  /\ \A i, j \in DOMAIN txs : i # j => Created(txs[i]) \cap Created(txs[j]) = {}

\* w is what the first i transactions of a block leave of the unspent outputs u:
\* the inputs of the later ones are still there.
Underway(coin, u, txs, i, w) ==
  /\ Priced(coin, w)
  /\ \A j \in i + 1..Len(txs) : Range(txs[j].inputs) \subseteq DOMAIN w
  /\ DOMAIN w \subseteq DOMAIN u \cup UNION {Created(txs[j]) : j \in 1..i}
  /\ Fresh(u, txs) => \A j \in 1..i : Range(txs[j].inputs) \cap DOMAIN w = {}

\* No two transactions take the same output, and all take outputs of u.
Separate(u, txs) ==
  /\ \A i \in DOMAIN txs : Range(txs[i].inputs) \subseteq DOMAIN u
  /\ \A i, j \in DOMAIN txs :
        i # j => Range(txs[i].inputs) \cap Range(txs[j].inputs) = {}

LEMMA TxMoves ==
  ASSUME NEW coin, NEW u, NEW txs \in Seq(Transaction), Separate(u, txs),
         NEW i \in 1..Len(txs), PricedTx(coin, txs[i]), NEW h \in Nat,
         NEW x \in LedgerSet, Underway(coin, u, txs, i - 1, x.utxo)
  PROVE  LET w == apply_tx(x, txs[i], h).utxo
             was == SumOver(coin, DOMAIN x.utxo)
             in == SumOver(coin, Range(txs[i].inputs))
             out == SumOver(coin, Created(txs[i]))
             is == SumOver(coin, DOMAIN w)
         IN  /\ Underway(coin, u, txs, i, w)
             /\ was \in Nat /\ in \in Nat /\ out \in Nat /\ is \in Nat
             /\ is + in =< was + out
             /\ Fresh(u, txs) => was + out =< is + in
PROOF
  <1> DEFINE n == Len(txs)
             w == apply_tx(x, txs[i], h).utxo
             S == DOMAIN x.utxo
             In == Range(txs[i].inputs)
             C == Created(txs[i])
             Before == UNION {Created(txs[j]) : j \in 1..i - 1}
  <1>1. n \in Nat /\ DOMAIN txs = 1..n /\ txs[i] \in Transaction
    OBVIOUS
  <1>2. /\ Priced(coin, x.utxo)
        /\ \A j \in (i - 1) + 1..n : Range(txs[j].inputs) \subseteq S
        /\ S \subseteq DOMAIN u \cup Before
        /\ Fresh(u, txs) => \A j \in 1..i - 1 : Range(txs[j].inputs) \cap S = {}
    BY DEF Underway
  <1>3. /\ DOMAIN w = (S \ In) \cup C
        /\ \A o \in DOMAIN w : w[o] = IF o \in C THEN txs[i].outputs[o[2]]
                                                 ELSE x.utxo[o]
    BY <1>1, ApplyTxMaps
  <1>4. i \in (i - 1) + 1..n /\ \A j \in i + 1..n : j \in (i - 1) + 1..n /\ j # i
    BY <1>1
  <1>5. Summable(coin, C)
    BY <1>1, OutputsAreCoins
  <1>6. In \in SUBSET S
    BY <1>2, <1>4
  <1>7. Summable(coin, S) /\ \A o \in S : x.utxo[o].value = coin[o]
    BY <1>2 DEF Priced
  <1>8. \A o \in C : txs[i].outputs[o[2]].value = coin[o]
    BY DEF PricedTx
  <1>9. \A j \in DOMAIN txs : j # i => Range(txs[j].inputs) \cap In = {}
    BY <1>1 DEF Separate
  <1>10. Fresh(u, txs) => /\ C \cap DOMAIN u = {}
                          /\ \A j \in DOMAIN txs : j # i => C \cap Created(txs[j]) = {}
    BY <1>1 DEF Fresh
  <1>11. In \subseteq DOMAIN u /\ \A j \in DOMAIN txs : Range(txs[j].inputs) \subseteq DOMAIN u
    BY <1>1 DEF Separate
  <1>12. Fresh(u, txs) => S \cap C = {}
    <2> SUFFICES ASSUME Fresh(u, txs), NEW o \in S, o \in C PROVE FALSE
      OBVIOUS
    <2>1. o \in Before
      BY <1>2, <1>10
    <2>2. PICK j \in 1..i - 1 : o \in Created(txs[j])
      BY <2>1
    <2>3. j \in DOMAIN txs /\ j # i
      BY <1>1
    <2> QED
      BY <1>10, <2>2, <2>3
  <1> HIDE DEF w, S, In, C
  <1>13. /\ Summable(coin, DOMAIN w)
         /\ SumOver(coin, S) \in Nat /\ SumOver(coin, In) \in Nat
         /\ SumOver(coin, C) \in Nat /\ SumOver(coin, DOMAIN w) \in Nat
         /\ SumOver(coin, DOMAIN w) + SumOver(coin, In)
              =< SumOver(coin, S) + SumOver(coin, C)
         /\ (S \ In) \cap C = {}
              => SumOver(coin, DOMAIN w) + SumOver(coin, In)
                   = SumOver(coin, S) + SumOver(coin, C)
    <2>1. Moves(coin, S, In, C, DOMAIN w)
      BY <1>3, <1>5, <1>6, <1>7 DEF Moves
    <2> QED
      BY <2>1, CoinsMove
  <1>14. Priced(coin, w)
    BY <1>3, <1>7, <1>8, <1>13 DEF Priced
  <1>15. \A j \in i + 1..n : Range(txs[j].inputs) \subseteq DOMAIN w
    <2> TAKE j \in i + 1..n
    <2>1. j \in DOMAIN txs /\ j # i
      BY <1>1
    <2>2. Range(txs[j].inputs) \subseteq S
      BY <1>2, <1>4
    <2> QED
      BY <1>3, <1>9, <2>1, <2>2
  <1>16. DOMAIN w \subseteq DOMAIN u \cup UNION {Created(txs[j]) : j \in 1..i}
    <2>1. \A j \in 1..i - 1 : j \in 1..i
      BY <1>1
    <2>2. Before \subseteq UNION {Created(txs[j]) : j \in 1..i}
      BY <2>1
    <2>3. C \subseteq UNION {Created(txs[j]) : j \in 1..i}
      BY <1>1 DEF C
    <2> QED
      BY <1>2, <1>3, <2>2, <2>3
  <1>17. Fresh(u, txs) => \A j \in 1..i : Range(txs[j].inputs) \cap DOMAIN w = {}
    <2> SUFFICES ASSUME Fresh(u, txs), NEW j \in 1..i
                 PROVE  Range(txs[j].inputs) \cap DOMAIN w = {}
      OBVIOUS
    <2>1. j = i \/ j \in 1..i - 1
      BY <1>1
    <2>2. j \in DOMAIN txs
      BY <1>1
    <2>3. Range(txs[j].inputs) \cap C = {}
      BY <1>10, <1>11, <2>2
    <2>4. CASE j = i
      BY <1>3, <2>3, <2>4 DEF In
    <2>5. CASE j \in 1..i - 1
      BY <1>2, <1>3, <2>3, <2>5
    <2> QED
      BY <2>1, <2>4, <2>5
  <1>18. Underway(coin, u, txs, i, w)
    BY <1>14, <1>15, <1>16, <1>17 DEF Underway, n
  <1>19. Fresh(u, txs)
           => SumOver(coin, S) + SumOver(coin, C)
                =< SumOver(coin, DOMAIN w) + SumOver(coin, In)
    <2>1. Fresh(u, txs) => (S \ In) \cap C = {}
      BY <1>12
    <2> QED
      BY <1>13, <2>1
  <1> QED
    BY <1>3, <1>13, <1>18, <1>19 DEF w, S, In, C

\* The transactions of a valid block take different outputs, all there before.
LEMMA ValidIsSeparate ==
  ASSUME NEW l, NEW txs \in Seq(Transaction), NEW h, NEW sigs,
         validate_txs(l, txs, h, sigs),
         \A i \in DOMAIN txs : txs[i].coinbase => txs[i].inputs = << >>
  PROVE  Separate(l.utxo, txs)
PROOF
  <1>1. /\ 1 \in DOMAIN txs /\ txs[1].coinbase
        /\ \A i \in DOMAIN txs \ {1} : tx_valid(l, txs[i], h, sigs)
        /\ \A i, j \in DOMAIN txs \ {1} :
              i # j => Range(txs[i].inputs) \cap Range(txs[j].inputs) = {}
    <2>1. /\ txs # << >>
          /\ \A i \in DOMAIN txs : txs[i].coinbase <=> i = 1
          /\ \A i \in DOMAIN txs \ {1} : tx_valid(l, txs[i], h, sigs)
          /\ \A i, j \in DOMAIN txs \ {1} :
                i # j => Range(txs[i].inputs) \cap Range(txs[j].inputs) = {}
      BY DEF validate_txs
    <2>2. 1 \in DOMAIN txs
      BY <2>1
    <2> QED
      BY <2>1, <2>2, Zenon
  <1>2. Range(txs[1].inputs) = {}
    <2>1. txs[1].inputs = << >>
      BY <1>1
    <2>2. DOMAIN << >> = {}
      OBVIOUS
    <2> QED
      BY <2>1, <2>2 DEF Range
  <1>3. \A i \in DOMAIN txs \ {1} : Range(txs[i].inputs) \subseteq DOMAIN l.utxo
    BY <1>1 DEF tx_valid, Range
  <1> QED
    BY <1>1, <1>2, <1>3 DEF Separate

\* A valid block: the coins it leaves, with those it burns and the fees, are those
\* it found and those its coinbase claims, unless it makes an output again.
LEMMA BlockMoves ==
  ASSUME NEW coin, NEW l \in LedgerSet, Priced(coin, l.utxo),
         NEW txs \in Seq(Transaction), NEW h \in Nat, NEW sigs \in BOOLEAN,
         validate_txs(l, txs, h, sigs),
         \A i \in DOMAIN txs : /\ PricedTx(coin, txs[i])
                               /\ txs[i].coinbase => txs[i].inputs = << >>
  PROVE  LET w    == apply_each(l, txs, h).utxo
             was  == SumOver(coin, DOMAIN l.utxo)
             is   == SumOver(coin, DOMAIN w)
             fees == Fees(l.utxo, txs)
             cb   == OutputTotal(txs[1])
         IN  /\ Priced(coin, w)
             /\ was \in Nat /\ is \in Nat /\ fees \in Nat /\ cb \in Nat
             /\ BurntBy(txs) \in Nat
             /\ is + BurntBy(txs) + fees =< was + cb
             /\ DOMAIN w \subseteq DOMAIN l.utxo \cup MadeBy(txs)
             /\ TakenBy(txs) \subseteq DOMAIN l.utxo
             /\ Fresh(l.utxo, txs)
                  => /\ was + cb =< is + BurntBy(txs) + fees
                     /\ TakenBy(txs) \cap DOMAIN w = {}
PROOF
  <1> DEFINE n == Len(txs)
             u == l.utxo
             cb == OutputTotal(txs[1])
             fee == [i \in DOMAIN txs |->
                       IF txs[i].coinbase THEN 0
                       ELSE InputTotal(u, txs[i]) - OutputTotal(txs[i])]
             burnt == [i \in DOMAIN txs |-> Burnt(txs[i])]
             in == [i \in 1..n |-> SumOver(coin, Range(txs[i].inputs))]
             out == [i \in 1..n |-> SumOver(coin, Created(txs[i]))]
             claim == [i \in 0..n |-> IF i = 0 THEN 0 ELSE cb]
  <1>1. /\ n \in Nat /\ DOMAIN txs = 1..n /\ \A i \in 1..n : txs[i] \in Transaction
        /\ 1 \in 1..n
    BY DEF validate_txs
  <1>2. \A i \in 1..n : PricedTx(coin, txs[i])
    BY <1>1
  <1>3. Separate(u, txs)
    BY ValidIsSeparate
  <1>4. \A i \in 1..n : /\ burnt[i] \in Nat /\ out[i] \in Nat
                        /\ OutputTotal(txs[i]) = out[i] + burnt[i]
                        /\ OutputTotal(txs[i]) \in Nat
    <2> TAKE i \in 1..n
    <2>1. /\ Summable(coin, Created(txs[i])) /\ Burnt(txs[i]) \in Nat
          /\ OutputTotal(txs[i]) = SumOver(coin, Created(txs[i])) + Burnt(txs[i])
      BY <1>1, <1>2, OutputsAreCoins
    <2>2. SumOver(coin, Created(txs[i])) \in Nat
      BY <2>1, SumStep
    <2> QED
      BY <1>1, <2>1, <2>2
  <1>5. /\ fee[1] = 0 /\ in[1] = 0
        /\ \A i \in 2..n : /\ in[i] \in Nat
                           /\ fee[i] = in[i] - OutputTotal(txs[i])
    <2>1. txs[1].coinbase /\ txs[1].inputs = << >>
      BY <1>1 DEF validate_txs
    <2>2. SumOver(coin, {}) = 0
      BY SumStep, FS_EmptySet DEF Summable
    <2>3. Range(txs[1].inputs) = {}
      <3>1. DOMAIN << >> = {}
        OBVIOUS
      <3> QED
        BY <2>1, <3>1 DEF Range
    <2>4. ASSUME NEW i \in 2..n
          PROVE  in[i] \in Nat /\ fee[i] = in[i] - OutputTotal(txs[i])
      <3>1. i \in 1..n /\ i # 1
        BY <1>1
      <3>2. tx_valid(l, txs[i], h, sigs) /\ ~ txs[i].coinbase
        BY <1>1, <3>1 DEF validate_txs
      <3>3. /\ Summable(coin, Range(txs[i].inputs))
            /\ InputTotal(u, txs[i]) = SumOver(coin, Range(txs[i].inputs))
        <4>1. /\ \A j, k \in DOMAIN txs[i].inputs :
                    txs[i].inputs[j] = txs[i].inputs[k] => j = k
              /\ \A j \in DOMAIN txs[i].inputs : txs[i].inputs[j] \in DOMAIN u
          BY <3>2 DEF tx_valid
        <4> QED
          BY <1>1, <3>1, <4>1, InputsAreCoins
      <3>4. SumOver(coin, Range(txs[i].inputs)) \in Nat
        BY <3>3, SumStep
      <3> QED
        BY <1>1, <3>1, <3>2, <3>3, <3>4
    <2> QED
      BY <1>1, <2>1, <2>2, <2>3, <2>4
  <1>6. Fees(u, txs) = Total(fee) /\ BurntBy(txs) = Total(burnt)
    BY DEF Fees, BurntBy
  <1>7. /\ fee \in Seq(Int) /\ Len(fee) = n /\ burnt \in Seq(Int) /\ Len(burnt) = n
        /\ burnt \in Seq(Nat)
    <2>1. \A i \in 1..n : fee[i] \in Int
      <3> TAKE i \in 1..n
      <3>1. i = 1 \/ i \in 2..n
        BY <1>1
      <3>2. CASE i = 1
        BY <1>5, <3>2
      <3>3. CASE i \in 2..n
        <4>1. OutputTotal(txs[i]) \in Nat
          BY <1>4
        <4>2. in[i] \in Nat /\ fee[i] = in[i] - OutputTotal(txs[i])
          BY <1>5, <3>3
        <4> HIDE DEF in, fee
        <4> QED
          BY <4>1, <4>2
      <3> QED
        BY <3>1, <3>2, <3>3
    <2> QED
      BY <1>1, <1>4, <2>1
  <1>8. claim[0] = 0 /\ \A i \in 1..n : claim[i] = cb
    BY <1>1
  <1>9. cb = OutputTotal(txs[1]) /\ cb \in Nat
    BY <1>1, <1>4
  <1> HIDE DEF n, fee, burnt, in, out, claim, cb
  <1>10. PICK F : PartialSums(F, fee) /\ Total(fee) = F[n]
    BY <1>7, TotalDef
  <1>11. PICK B : PartialSums(B, burnt) /\ Total(burnt) = B[n]
    BY <1>7, TotalDef
  <1>12. F[n] \in Int /\ B[n] \in Nat
    <2>1. Total(burnt) \in Nat
      BY <1>7, TotalNat
    <2> QED
      BY <1>1, <1>7, <1>10, <1>11, <2>1 DEF PartialSums
  <1> DEFINE was == SumOver(coin, DOMAIN u)
             T == [i \in 0..n |->
                     {x \in LedgerSet :
                        LET is == SumOver(coin, DOMAIN x.utxo)
                        IN  /\ Underway(coin, u, txs, i, x.utxo)
                            /\ is \in Nat
                            /\ is + B[i] + F[i] =< was + claim[i]
                            /\ Fresh(u, txs) => is + B[i] + F[i] = was + claim[i]}]
  <1>13. was \in Nat
    BY SumStep DEF Priced, u
  <1>14. l \in T[0]
    <2>1. \A j \in 1..n : Range(txs[j].inputs) \subseteq DOMAIN u
      BY <1>1, <1>3 DEF Separate
    <2>2. 0 + 1 = 1 /\ 0 \in 0..n /\ 1..0 = {}
      BY <1>1
    <2>3. Underway(coin, u, txs, 0, u)
      BY <2>1, <2>2 DEF Underway, u, n
    <2>4. B[0] = 0 /\ F[0] = 0
      BY <1>10, <1>11 DEF PartialSums
    <2>5. was + B[0] + F[0] = was + claim[0] /\ was + B[0] + F[0] =< was + claim[0]
      BY <1>8, <1>13, <2>4
    <2> QED
      BY <1>13, <2>2, <2>3, <2>5 DEF u
  <1>15. ASSUME NEW i \in 1..n, NEW x \in LedgerSet, x \in T[i - 1]
         PROVE  apply_tx(x, txs[i], h) \in T[i]
    <2> DEFINE r == apply_tx(x, txs[i], h)
               is == SumOver(coin, DOMAIN x.utxo)
               will == SumOver(coin, DOMAIN r.utxo)
    <2>1. i - 1 \in 0..n /\ i \in 0..n /\ txs[i] \in Transaction /\ i \in 1..Len(txs)
      BY <1>1 DEF n
    <2>2. /\ Underway(coin, u, txs, i - 1, x.utxo)
          /\ is \in Nat
          /\ is + B[i - 1] + F[i - 1] =< was + claim[i - 1]
          /\ Fresh(u, txs) => is + B[i - 1] + F[i - 1] = was + claim[i - 1]
      BY <1>15, <2>1
    <2>3. r \in LedgerSet
      BY <2>1, ApplyTxLedger
    <2>4. /\ Underway(coin, u, txs, i, r.utxo)
          /\ in[i] \in Nat /\ out[i] \in Nat /\ will \in Nat
          /\ will + in[i] =< is + out[i]
          /\ Fresh(u, txs) => will + in[i] = is + out[i]
      <3>1. PricedTx(coin, txs[i])
        BY <1>2
      <3>2. /\ Underway(coin, u, txs, i, r.utxo)
            /\ is \in Nat /\ will \in Nat
            /\ SumOver(coin, Range(txs[i].inputs)) \in Nat
            /\ SumOver(coin, Created(txs[i])) \in Nat
            /\ will + SumOver(coin, Range(txs[i].inputs))
                 =< is + SumOver(coin, Created(txs[i]))
            /\ Fresh(u, txs) => will + SumOver(coin, Range(txs[i].inputs))
                                  = is + SumOver(coin, Created(txs[i]))
        <4>1. Underway(coin, u, txs, i - 1, x.utxo)
          BY <2>2
        <4>2. i \in 1..Len(txs)
          BY <2>1
        <4> HIDE DEF u
        <4>3. /\ Underway(coin, u, txs, i, r.utxo)
              /\ is \in Nat /\ will \in Nat
              /\ SumOver(coin, Range(txs[i].inputs)) \in Nat
              /\ SumOver(coin, Created(txs[i])) \in Nat
          BY <1>3, <4>1, <4>2, <3>1, TxMoves
        <4>4. will + SumOver(coin, Range(txs[i].inputs))
                =< is + SumOver(coin, Created(txs[i]))
          BY <1>3, <4>1, <4>2, <3>1, TxMoves, Zenon
        <4>5. Fresh(u, txs) => is + SumOver(coin, Created(txs[i]))
                                 =< will + SumOver(coin, Range(txs[i].inputs))
          BY <1>3, <4>1, <4>2, <3>1, TxMoves, Zenon
        <4> QED
          BY <4>3, <4>4, <4>5
      <3>3. /\ in[i] = SumOver(coin, Range(txs[i].inputs))
            /\ out[i] = SumOver(coin, Created(txs[i]))
        BY DEF in, out
      <3> QED
        BY <3>2, <3>3
    <2>5. /\ B[i] = B[i - 1] + burnt[i] /\ F[i] = F[i - 1] + fee[i]
          /\ B[i - 1] \in Int /\ F[i - 1] \in Int
      BY <1>7, <1>10, <1>11, <2>1 DEF PartialSums
    <2>6. /\ B[i] \in Int /\ F[i] \in Int /\ claim[i] \in Int /\ claim[i - 1] \in Int
          /\ claim[i - 1] + out[i] + burnt[i] + fee[i] = claim[i] + in[i]
      <3>1. /\ burnt[i] \in Nat /\ out[i] \in Nat /\ OutputTotal(txs[i]) \in Nat
            /\ OutputTotal(txs[i]) = out[i] + burnt[i]
        BY <1>4
      <3>2. CASE i = 1
        <4>1. claim[i - 1] = 0 /\ claim[i] = OutputTotal(txs[i])
          BY <1>8, <1>9, <3>2
        <4>2. fee[i] = 0 /\ in[i] = 0
          BY <1>5, <3>2
        <4> QED
          BY <2>5, <3>1, <4>1, <4>2
      <3>3. CASE i \in 2..n
        <4>1. claim[i - 1] = cb /\ claim[i] = cb
          <5>1. i \in 1..n /\ i - 1 \in 1..n
            BY <1>1, <3>3
          <5> QED
            BY <1>8, <5>1
        <4>2. fee[i] = in[i] - OutputTotal(txs[i]) /\ in[i] \in Nat
          BY <1>5, <3>3
        <4> DEFINE q == fee[i]  e == in[i]  p == burnt[i]  o == out[i]
                   t == OutputTotal(txs[i])  c0 == claim[i - 1]  c1 == claim[i]
        <4>3. /\ q = e - t /\ t = o + p /\ c0 = cb /\ c1 = cb
              /\ e \in Nat /\ o \in Nat /\ p \in Nat /\ cb \in Nat
          BY <1>9, <3>1, <4>1, <4>2
        <4>4. B[i] \in Int /\ F[i] \in Int
          BY <2>1, <1>7, <1>10, <1>11 DEF PartialSums
        <4> HIDE DEF q, e, p, o, t, c0, c1
        <4>5. c1 \in Int /\ c0 \in Int /\ c0 + o + p + q = c1 + e
          BY <4>3
        <4> QED
          BY <4>4, <4>5 DEF q, e, p, o, t, c0, c1
      <3> QED
        BY <1>1, <3>2, <3>3
    <2> HIDE DEF r, is, will
    <2>7. /\ will + B[i] + F[i] =< was + claim[i]
          /\ Fresh(u, txs) => will + B[i] + F[i] = was + claim[i]
      <3> DEFINE q == fee[i]  e == in[i]  p == burnt[i]  o == out[i]
                 b0 == B[i - 1]  f0 == F[i - 1]  c0 == claim[i - 1]
                 b1 == B[i]  f1 == F[i]  c1 == claim[i]
      <3>1. p \in Int /\ q \in Int
        BY <1>7
      <3>2. /\ e \in Int /\ o \in Int /\ b0 \in Int /\ f0 \in Int
            /\ c0 \in Int /\ c1 \in Int /\ was \in Int /\ is \in Int /\ will \in Int
        BY <1>13, <2>2, <2>4, <2>5, <2>6
      <3>3. b1 = b0 + p /\ f1 = f0 + q /\ c0 + o + p + q = c1 + e
        BY <2>5, <2>6
      <3>4. will + e =< is + o /\ is + b0 + f0 =< was + c0
        BY <2>2, <2>4
      <3>5. Fresh(u, txs) => will + e = is + o /\ is + b0 + f0 = was + c0
        BY <2>2, <2>4
      <3> HIDE DEF q, e, p, o, b0, f0, c0, b1, f1, c1, was
      <3>6. will + b1 + f1 =< was + c1
        <4> b1 \in Int /\ f1 \in Int
          BY <3>1, <3>2, <3>3
        <4>1. will + b1 + f1 + e =< is + o + b1 + f1
          BY <3>1, <3>2, <3>3, <3>4
        <4>2. is + o + b1 + f1 =< was + c0 + o + p + q
          BY <3>1, <3>2, <3>3, <3>4
        <4>3. was + c0 + o + p + q = was + c1 + e
          BY <3>1, <3>2, <3>3
        <4> DEFINE x1 == will + b1 + f1
                   y1 == is + o + b1 + f1
                   z1 == was + c1
        <4>4. /\ x1 \in Int /\ y1 \in Int /\ z1 \in Int /\ e \in Int
              /\ x1 + e =< y1 /\ y1 =< z1 + e
          BY <3>1, <3>2, <4>1, <4>2, <4>3
        <4> HIDE DEF x1, y1, z1
        <4>5. x1 =< z1
          BY <4>4
        <4> QED
          BY <4>5 DEF x1, z1
      <3>7. will + e = is + o /\ is + b0 + f0 = was + c0 => will + b1 + f1 = was + c1
        BY <3>1, <3>2, <3>3
      <3> QED
        BY <3>5, <3>6, <3>7 DEF b1, f1, c1
    <2> QED
      BY <2>1, <2>3, <2>4, <2>7 DEF r, will
  <1> HIDE DEF T
  <1>16. apply_each(l, txs, h) \in T[n]
    BY <1>14, <1>15, ApplyEachKeeps DEF n
  <1> DEFINE w == apply_each(l, txs, h).utxo
             is == SumOver(coin, DOMAIN w)
  <1>17. /\ Underway(coin, u, txs, n, w)
         /\ is \in Nat
         /\ is + B[n] + F[n] =< was + claim[n]
         /\ Fresh(u, txs) => is + B[n] + F[n] = was + claim[n]
    <2>1. n \in 0..n
      BY <1>1
    <2> QED
      BY <1>16, <2>1 DEF T
  <1>18. B[n] = BurntBy(txs) /\ F[n] = Fees(u, txs) /\ claim[n] = cb
    <2>1. n \in 1..n
      BY <1>1
    <2> QED
      BY <1>6, <1>8, <1>10, <1>11, <2>1
  <1>19. Fees(u, txs) \in Nat /\ BurntBy(txs) \in Nat
    BY <1>12, <1>18, FeesNat DEF u
  <1>20. /\ Priced(coin, w)
         /\ DOMAIN w \subseteq DOMAIN u \cup MadeBy(txs)
         /\ TakenBy(txs) \subseteq DOMAIN u
         /\ Fresh(u, txs) => TakenBy(txs) \cap DOMAIN w = {}
    BY <1>1, <1>3, <1>17 DEF Underway, Separate, MadeBy, TakenBy
  <1> DEFINE f == Fees(u, txs)  b == BurntBy(txs)
  <1>21. /\ is + b + f =< was + cb
         /\ Fresh(u, txs) => was + cb =< is + b + f
    <2>1. /\ is + b + f =< was + cb
          /\ Fresh(u, txs) => is + b + f = was + cb
      BY <1>17, <1>18
    <2>2. is \in Nat /\ b \in Nat /\ f \in Nat /\ was \in Nat /\ cb \in Nat
      BY <1>9, <1>13, <1>17, <1>19
    <2> HIDE DEF is, b, f, was
    <2> QED
      BY <2>1, <2>2
  <1> QED
    BY <1>9, <1>13, <1>17, <1>19, <1>20, <1>21, Zenon DEF u, cb
=============================================================================
