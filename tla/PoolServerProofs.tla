--------------------------- MODULE PoolServerProofs ---------------------------
(***************************************************************************)
(* The pool server, for any window, any connections and any number of      *)
(* tips: the counts are those of the window, a coinbase pays exactly what  *)
(* it has to, and a share of the present tip is refused only after the     *)
(* threads of its connection crossed or a win of it was refused.           *)
(***************************************************************************)
EXTENDS PoolServer, LedgerProofs

-----------------------------------------------------------------------------
(* The window of shares and its counts *)

Addresses == Conn \cup Others

\* Where a share of a stands in the window w.
PlacesOf(a, w) == {i \in DOMAIN w : w[i] = a}

Recorded == IF recording = "nobody" THEN 0 ELSE 1

WindowInv ==
  /\ shares \in Seq(Addresses)
  /\ share_count \in [Addresses -> Nat]
  /\ recording \in Addresses \cup {"nobody"}
  /\ Len(shares) =< PPLNS_WINDOW
  /\ \A a \in Addresses :
        share_count[a] + (IF recording = a THEN 1 ELSE 0)
          = Cardinality(PlacesOf(a, shares))
  /\ SumOver(share_count, Addresses) + Recorded = Len(shares)

LEMMA PlacesFinite ==
  ASSUME NEW w \in Seq(Addresses), NEW a
  PROVE  /\ IsFiniteSet(PlacesOf(a, w))
         /\ Cardinality(PlacesOf(a, w)) \in Nat
PROOF
  <1>1. Len(w) \in Nat /\ DOMAIN w = 1..Len(w)
    OBVIOUS
  <1>2. IsFiniteSet(1..Len(w))
    BY <1>1, FS_Interval
  <1>3. PlacesOf(a, w) \subseteq 1..Len(w)
    BY <1>1 DEF PlacesOf
  <1> QED
    BY <1>2, <1>3, FS_Subset, FS_CardinalityType

LEMMA PlacesAppend ==
  ASSUME NEW w \in Seq(Addresses), NEW b \in Addresses, NEW a \in Addresses
  PROVE  Cardinality(PlacesOf(a, Append(w, b)))
           = Cardinality(PlacesOf(a, w)) + (IF a = b THEN 1 ELSE 0)
PROOF
  <1> DEFINE v == Append(w, b)
             n == Len(w)
  <1>1. /\ n \in Nat /\ DOMAIN w = 1..n /\ DOMAIN v = 1..n + 1
        /\ \A i \in 1..n : v[i] = w[i]
        /\ v[n + 1] = b
    OBVIOUS
  <1> HIDE DEF v, n
  <1>2. \A i : i \in 1..n + 1 <=> i \in 1..n \/ i = n + 1
    BY <1>1
  <1>3. n + 1 \notin 1..n
    BY <1>1
  <1>4. PlacesOf(a, v) = IF a = b THEN PlacesOf(a, w) \cup {n + 1}
                                  ELSE PlacesOf(a, w)
    BY <1>1, <1>2 DEF PlacesOf
  <1>5. n + 1 \notin PlacesOf(a, w)
    BY <1>1, <1>3 DEF PlacesOf
  <1>6. IsFiniteSet(PlacesOf(a, w)) /\ Cardinality(PlacesOf(a, w)) \in Nat
    BY PlacesFinite
  <1>7. CASE a = b
    BY <1>4, <1>5, <1>6, <1>7, FS_AddElement DEF v
  <1>8. CASE a # b
    BY <1>4, <1>6, <1>8 DEF v
  <1> QED
    BY <1>7, <1>8

LEMMA PlacesTail ==
  ASSUME NEW w \in Seq(Addresses), w # << >>, NEW a \in Addresses
  PROVE  Cardinality(PlacesOf(a, w))
           = Cardinality(PlacesOf(a, Tail(w))) + (IF a = Head(w) THEN 1 ELSE 0)
PROOF
  <1> DEFINE v == Tail(w)
             n == Len(w)
             f == [i \in PlacesOf(a, v) |-> i + 1]
             S == PlacesOf(a, w) \ {1}
  <1>1. /\ n \in Nat \ {0} /\ DOMAIN w = 1..n /\ DOMAIN v = 1..n - 1
        /\ \A i \in 1..n - 1 : v[i] = w[i + 1]
        /\ Head(w) = w[1]
    OBVIOUS
  <1> HIDE DEF v, n
  <1>2. \A i \in 1..n - 1 : i \in Nat /\ i + 1 \in 1..n /\ i + 1 # 1
    BY <1>1
  <1>3. f \in Bijection(PlacesOf(a, v), S)
    <2>1. ASSUME NEW i \in PlacesOf(a, v) PROVE f[i] \in S
      BY <1>1, <1>2 DEF PlacesOf
    <2>2. ASSUME NEW i \in PlacesOf(a, v), NEW j \in PlacesOf(a, v),
                 f[i] = f[j]
          PROVE  i = j
      <3>1. i \in Nat /\ j \in Nat /\ i + 1 = j + 1
        BY <1>1, <1>2, <2>2 DEF PlacesOf
      <3> QED
        BY <3>1
    <2>3. ASSUME NEW k \in S PROVE \E i \in PlacesOf(a, v) : f[i] = k
      <3>1. k \in 1..n /\ k # 1 /\ w[k] = a
        BY <1>1 DEF PlacesOf
      <3>2. k - 1 \in 1..n - 1 /\ (k - 1) + 1 = k
        BY <1>1, <3>1
      <3>3. k - 1 \in PlacesOf(a, v)
        BY <1>1, <3>1, <3>2 DEF PlacesOf
      <3> QED
        BY <3>2, <3>3
    <2>4. f \in [PlacesOf(a, v) -> S]
      BY <2>1
    <2> HIDE DEF f, S
    <2>5. \A i, j \in PlacesOf(a, v) : f[i] = f[j] => i = j
      BY <2>2
    <2> QED
      BY <2>3, <2>4, <2>5 DEF Bijection, Injection, Surjection, IsInjective
  <1>4. IsFiniteSet(PlacesOf(a, w)) /\ Cardinality(PlacesOf(a, w)) \in Nat
    BY PlacesFinite
  <1>5. v \in Seq(Addresses)
    BY DEF v
  <1>6. IsFiniteSet(PlacesOf(a, v)) /\ Cardinality(PlacesOf(a, v)) \in Nat
    BY <1>5, PlacesFinite
  <1>7. Cardinality(S) = Cardinality(PlacesOf(a, v))
    BY <1>3, <1>6, FS_Bijection DEF ExistsBijection
  <1>8. 1 \in PlacesOf(a, w) <=> a = Head(w)
    BY <1>1 DEF PlacesOf
  <1>9. Cardinality(S) = IF a = Head(w) THEN Cardinality(PlacesOf(a, w)) - 1
                                        ELSE Cardinality(PlacesOf(a, w))
    BY <1>4, <1>8, FS_RemoveElement
  <1> QED
    BY <1>4, <1>6, <1>7, <1>9 DEF v

\* A count that changes by k changes the sum by k.
LEMMA CountsStep ==
  ASSUME NEW c \in [Addresses -> Nat], NEW d \in [Addresses -> Nat],
         NEW a \in Addresses, NEW k \in Int, d[a] = c[a] + k,
         \A b \in Addresses \ {a} : d[b] = c[b]
  PROVE  /\ SumOver(c, Addresses) \in Nat
         /\ SumOver(d, Addresses) = SumOver(c, Addresses) + k
PROOF
  <1> DEFINE R == Addresses \ {a}
  <1>1. IsFiniteSet(Addresses) /\ IsFiniteSet(R)
    BY PoolAssumption, FS_RemoveElement DEF Addresses
  <1>2. Summable(c, Addresses) /\ Summable(d, Addresses) /\ Summable(c, R)
    BY <1>1 DEF Summable
  <1>3. /\ SumOver(c, Addresses) \in Nat
        /\ SumOver(c, Addresses) = c[a] + SumOver(c, R)
    BY <1>2, SumStep
  <1>4. SumOver(d, Addresses) = d[a] + SumOver(d, R)
    BY <1>2, SumStep
  <1>5. SumOver(c, R) = SumOver(d, R)
    <2> HIDE DEF R
    <2>1. \A b \in R : c[b] = d[b]
      BY DEF R
    <2> QED
      BY <1>2, <2>1, SumAgrees
  <1>6. SumOver(c, R) \in Nat /\ c[a] \in Nat
    BY <1>2, SumStep
  <1> HIDE DEF R
  <1> QED
    BY <1>3, <1>4, <1>5, <1>6

LEMMA BeginKeeps ==
  ASSUME WindowInv, NEW a \in Addresses, Begin(a)
  PROVE  WindowInv'
PROOF
  <1>1. /\ shares \in Seq(Addresses) /\ share_count \in [Addresses -> Nat]
        /\ Len(shares) =< PPLNS_WINDOW /\ Len(shares) \in Nat
        /\ SumOver(share_count, Addresses) + Recorded = Len(shares)
    BY DEF WindowInv
  <1>2. recording = "nobody" /\ recording' = a /\ a # "nobody"
    BY PoolAssumption DEF Begin, Addresses
  <1>3. \A b \in Addresses : share_count[b] = Cardinality(PlacesOf(b, shares))
    <2>1. \A b \in Addresses : recording # b /\ share_count[b] \in Nat
      BY <1>1, <1>2, PoolAssumption DEF Addresses
    <2> QED
      BY <2>1 DEF WindowInv
  <1>4. CASE Len(shares) >= PPLNS_WINDOW
    <2> DEFINE h == Head(shares)
               rest == Tail(shares)
    <2>1. shares' = Append(rest, a)
          /\ share_count' = [share_count EXCEPT ![h] = share_count[h] - 1]
      BY <1>4 DEF Begin
    <2>2. shares # << >> /\ PPLNS_WINDOW \in Nat \ {0}
      BY <1>1, <1>4, PoolAssumption
    <2>3. h \in Addresses /\ rest \in Seq(Addresses)
          /\ Len(rest) = Len(shares) - 1
      BY <1>1, <2>2
    <2>4. shares' \in Seq(Addresses) /\ Len(shares') = Len(shares)
      BY <1>1, <2>1, <2>3
    <2>5. \A b \in Addresses :
             /\ Cardinality(PlacesOf(b, rest)) \in Nat
             /\ Cardinality(PlacesOf(b, shares))
                  = Cardinality(PlacesOf(b, rest)) + (IF b = h THEN 1 ELSE 0)
             /\ Cardinality(PlacesOf(b, shares'))
                  = Cardinality(PlacesOf(b, rest)) + (IF b = a THEN 1 ELSE 0)
      BY <1>1, <2>1, <2>2, <2>3, PlacesFinite, PlacesTail, PlacesAppend
    <2> HIDE DEF h, rest
    <2>6. \A b \in Addresses :
             share_count'[b] = Cardinality(PlacesOf(b, rest))
      <3> TAKE b \in Addresses
      <3>1. share_count[b] = Cardinality(PlacesOf(b, rest))
                               + (IF b = h THEN 1 ELSE 0)
            /\ Cardinality(PlacesOf(b, rest)) \in Nat
        BY <1>3, <2>5
      <3>2. share_count'[b] = IF b = h THEN share_count[b] - 1
                                       ELSE share_count[b]
        BY <1>1, <2>1
      <3> QED
        BY <3>1, <3>2
    <2>7. share_count' \in [Addresses -> Nat]
      <3>1. share_count' = [b \in Addresses |-> share_count'[b]]
        BY <1>1, <2>1
      <3> QED
        BY <2>5, <2>6, <3>1
    <2>8. \A b \in Addresses :
             share_count'[b] + (IF recording' = b THEN 1 ELSE 0)
               = Cardinality(PlacesOf(b, shares'))
      BY <1>2, <2>5, <2>6
    <2>9. SumOver(share_count', Addresses) = SumOver(share_count, Addresses) - 1
      <3>1. share_count'[h] = share_count[h] + (-1) /\ share_count[h] \in Nat
        BY <1>1, <2>1, <2>3
      <3>2. \A b \in Addresses \ {h} : share_count'[b] = share_count[b]
        BY <1>1, <2>1
      <3>3. /\ SumOver(share_count, Addresses) \in Nat
            /\ SumOver(share_count', Addresses)
                 = SumOver(share_count, Addresses) + (-1)
        <4>1. -1 \in Int
          OBVIOUS
        <4> QED
          BY <1>1, <2>3, <2>7, <3>1, <3>2, <4>1, CountsStep
      <3> QED
        BY <3>3
    <2>10. SumOver(share_count, Addresses) = Len(shares)
           /\ Len(shares) \in Nat
      <3>1. SumOver(share_count, Addresses) \in Nat
        <4>1. IsFiniteSet(Addresses)
          BY PoolAssumption DEF Addresses
        <4> QED
          BY <1>1, <4>1, SumStep DEF Summable
      <3> QED
        BY <1>1, <1>2, <3>1 DEF Recorded
    <2>11. Recorded' = 1
      BY <1>2 DEF Recorded
    <2> QED
      BY <1>1, <1>2, <2>4, <2>7, <2>8, <2>9, <2>10, <2>11 DEF WindowInv
  <1>5. CASE ~ (Len(shares) >= PPLNS_WINDOW)
    <2>1. shares' = Append(shares, a) /\ share_count' = share_count
      BY <1>5 DEF Begin
    <2>2. shares' \in Seq(Addresses) /\ Len(shares') = Len(shares) + 1
      BY <1>1, <2>1
    <2>3. PPLNS_WINDOW \in Nat
      BY PoolAssumption
    <2>4. Len(shares') =< PPLNS_WINDOW
      BY <1>1, <1>5, <2>2, <2>3
    <2>5. \A b \in Addresses :
             Cardinality(PlacesOf(b, shares'))
               = Cardinality(PlacesOf(b, shares)) + (IF b = a THEN 1 ELSE 0)
      BY <1>1, <2>1, PlacesAppend
    <2>6. \A b \in Addresses :
             share_count'[b] + (IF recording' = b THEN 1 ELSE 0)
               = Cardinality(PlacesOf(b, shares'))
      BY <1>2, <1>3, <2>1, <2>5
    <2>7. SumOver(share_count', Addresses) + Recorded' = Len(shares')
      <3>1. SumOver(share_count, Addresses) \in Nat
        <4>1. IsFiniteSet(Addresses)
          BY PoolAssumption DEF Addresses
        <4> QED
          BY <1>1, <4>1, SumStep DEF Summable
      <3> QED
        BY <1>1, <1>2, <2>1, <2>2, <3>1 DEF Recorded
    <2> QED
      BY <1>1, <1>2, <2>1, <2>2, <2>4, <2>6, <2>7 DEF WindowInv
  <1> QED
    BY <1>4, <1>5

LEMMA CreditKeeps ==
  ASSUME WindowInv, NEW a \in Addresses, Credit(a)
  PROVE  WindowInv'
PROOF
  <1>1. /\ shares \in Seq(Addresses) /\ share_count \in [Addresses -> Nat]
        /\ Len(shares) =< PPLNS_WINDOW /\ Len(shares) \in Nat
        /\ SumOver(share_count, Addresses) + Recorded = Len(shares)
    BY DEF WindowInv
  <1>2. /\ recording = a /\ recording' = "nobody" /\ shares' = shares
        /\ share_count' = [share_count EXCEPT ![a] = share_count[a] + 1]
        /\ \A b \in Addresses : b # "nobody"
    BY PoolAssumption DEF Credit, Addresses
  <1>3. share_count' \in [Addresses -> Nat]
    BY <1>1, <1>2
  <1>4. \A b \in Addresses :
           share_count'[b] + (IF recording' = b THEN 1 ELSE 0)
             = Cardinality(PlacesOf(b, shares'))
    <2> TAKE b \in Addresses
    <2>1. share_count'[b] = IF b = a THEN share_count[b] + 1 ELSE share_count[b]
      BY <1>1, <1>2
    <2>2. share_count[b] + (IF a = b THEN 1 ELSE 0)
            = Cardinality(PlacesOf(b, shares))
      BY <1>2 DEF WindowInv
    <2>3. share_count[b] \in Nat /\ recording' # b
      BY <1>1, <1>2
    <2> QED
      BY <1>2, <2>1, <2>2, <2>3
  <1>5. SumOver(share_count', Addresses) + Recorded' = Len(shares')
    <2>1. share_count'[a] = share_count[a] + 1
          /\ \A b \in Addresses \ {a} : share_count'[b] = share_count[b]
      BY <1>1, <1>2
    <2>2. /\ SumOver(share_count, Addresses) \in Nat
          /\ SumOver(share_count', Addresses)
               = SumOver(share_count, Addresses) + 1
      <3>1. 1 \in Int
        OBVIOUS
      <3> QED
        BY <1>1, <1>3, <2>1, <3>1, CountsStep
    <2>3. Recorded = 1 /\ Recorded' = 0
      BY <1>2 DEF Recorded
    <2> QED
      BY <1>1, <1>2, <2>2, <2>3
  <1> QED
    BY <1>1, <1>2, <1>3, <1>4, <1>5 DEF WindowInv

-----------------------------------------------------------------------------
(* Payouts *)

\* What holds of each term up to a factor holds of the sums.
LEMMA SumsCompare ==
  ASSUME NEW S, NEW f, NEW g, Summable(f, S), Summable(g, S),
         NEW k \in Nat, NEW t \in Nat, \A x \in S : k * f[x] =< t * g[x]
  PROVE  k * SumOver(f, S) =< t * SumOver(g, S)
PROOF
  <1> DEFINE T == {U \in SUBSET S : k * SumOver(f, U) =< t * SumOver(g, U)}
  <1>1. ASSUME NEW U \in SUBSET S, \A x \in U : U \ {x} \in T
        PROVE  U \in T
    <2>1. Summable(f, U) /\ Summable(g, U)
      BY FS_Subset DEF Summable
    <2>2. CASE U = {}
      <3>1. SumOver(f, U) = 0 /\ SumOver(g, U) = 0
        BY <2>1, <2>2, SumStep
      <3> QED
        BY <3>1
    <2>3. CASE U # {}
      <3>1. PICK x \in U : TRUE
        BY <2>3
      <3> DEFINE R == U \ {x}
      <3>2. Summable(f, R) /\ Summable(g, R)
        BY <2>1, FS_Subset DEF Summable
      <3>3. /\ SumOver(f, U) = f[x] + SumOver(f, R)
            /\ SumOver(g, U) = g[x] + SumOver(g, R)
        BY <2>1, SumStep
      <3>4. SumOver(f, R) \in Nat /\ SumOver(g, R) \in Nat
        BY <3>2, SumStep
      <3>5. k * SumOver(f, R) =< t * SumOver(g, R)
        BY <1>1
      <3>6. x \in S /\ f[x] \in Nat /\ g[x] \in Nat /\ k * f[x] =< t * g[x]
        BY DEF Summable
      <3> DEFINE a == f[x]
                 b == g[x]
                 c == SumOver(f, R)
                 d == SumOver(g, R)
      <3>7. a \in Nat /\ b \in Nat /\ c \in Nat /\ d \in Nat
            /\ k * a =< t * b /\ k * c =< t * d
        BY <3>4, <3>5, <3>6
      <3>8. SumOver(f, U) = a + c /\ SumOver(g, U) = b + d
        BY <3>3
      <3> HIDE DEF a, b, c, d
      <3>9. k * (a + c) = k * a + k * c /\ t * (b + d) = t * b + t * d
        BY <3>7
      <3>10. k * a \in Nat /\ k * c \in Nat /\ t * b \in Nat /\ t * d \in Nat
        BY <3>7
      <3>11. k * (a + c) =< t * (b + d)
        BY <3>7, <3>9, <3>10
      <3> QED
        BY <3>8, <3>11
    <2> QED
      BY <2>2, <2>3
  <1>2. IsFiniteSet(S)
    BY DEF Summable
  <1> HIDE DEF T
  <1>3. \A U \in SUBSET S : (\A x \in U : U \ {x} \in T) => U \in T
    BY <1>1
  <1>4. \A U \in SUBSET S : U \in T
    BY <1>2, <1>3, SubsetInduction
  <1>5. S \in T
    BY <1>4
  <1> QED
    BY <1>5 DEF T

LEMMA DivisionBounds ==
  ASSUME NEW t \in Nat, NEW c \in Nat, NEW n \in Nat \ {0}
  PROVE  LET d == (t * c) \div n
         IN  /\ d \in Nat
             /\ n * d =< t * c /\ d * n =< t * c
             /\ t * c < (d + 1) * n
             /\ c = 0 => d = 0
PROOF
  <1> DEFINE x == t * c
  <1>1. x \in Nat
    OBVIOUS
  <1>2. c = 0 => x = 0
    OBVIOUS
  <1> HIDE DEF x
  <1>3. x \div n \in Nat
    BY <1>1
  <1>4. n * (x \div n) =< x
    BY <1>1
  <1>5. x < (x \div n + 1) * n
    BY <1>1
  <1>6. c = 0 => x \div n = 0
    BY <1>2
  <1>7. (x \div n) * n = n * (x \div n)
    BY <1>3
  <1> QED
    BY <1>3, <1>4, <1>5, <1>6, <1>7 DEF x

\* A coinbase pays the total, and no address more than its shares are worth.
LEMMA PayoutsExact ==
  ASSUME WindowInv, NEW total \in Nat, NEW D \in SUBSET Addresses
  PROVE  LET out == payout_outputs(total, D)
             n   == SumOver(share_count, Addresses)
         IN  /\ SumFunction(out) = total
             /\ \A a \in D :
                   /\ share_count[a] = 0 => out[a] = 0
                   /\ out[a] * n =< total * share_count[a]
                   /\ n > 0 => total * share_count[a] < (out[a] + 1) * n
PROOF
  <1> DEFINE c == share_count
             n == SumOver(c, Addresses)
             amount == [a \in D |-> IF n = 0 THEN 0 ELSE (total * c[a]) \div n]
             sum == SumOver(amount, D)
             out == [a \in D \cup {"pool"} |->
                       IF a = "pool" THEN Saturating(total, sum) ELSE amount[a]]
  <1>1. c \in [Addresses -> Nat]
    BY DEF WindowInv
  <1>2. IsFiniteSet(Addresses) /\ IsFiniteSet(D) /\ "pool" \notin D
    BY PoolAssumption, FS_Subset DEF Addresses
  <1>3. Summable(c, Addresses) /\ Summable(c, D)
    BY <1>1, <1>2 DEF Summable
  <1>4. n \in Nat /\ SumOver(c, D) \in Nat /\ SumOver(c, D) =< n
    <2>1. n \in Nat /\ SumOver(c, D) \in Nat
      BY <1>3, SumStep
    <2>2. /\ Summable(c, Addresses \ D)
          /\ SumOver(c, Addresses) = SumOver(c, Addresses \ D) + SumOver(c, D)
      BY <1>3, SumSplit
    <2>3. SumOver(c, Addresses \ D) \in Nat
      BY <2>2, SumStep
    <2> QED
      BY <2>1, <2>2, <2>3
  <1>5. payout_outputs(total, D) = out
    <2>1. SumFunction(c) = n
      BY <1>1 DEF SumFunction, SumOver
    <2>2. SumFunction(amount) = sum
      BY DEF SumFunction, SumOver
    <2> HIDE DEF n, sum
    <2> QED
      BY <2>1, <2>2 DEF payout_outputs
  <1> HIDE DEF n, c
  <1>6. \A a \in D : /\ amount[a] \in Nat
                     /\ c[a] = 0 => amount[a] = 0
                     /\ amount[a] * n =< total * c[a]
                     /\ n * amount[a] =< total * c[a]
                     /\ n > 0 => total * c[a] < (amount[a] + 1) * n
    <2> TAKE a \in D
    <2>1. c[a] \in Nat
      BY <1>1
    <2>2. CASE n = 0
      <3>1. amount[a] = 0 /\ total * c[a] \in Nat
        BY <2>1, <2>2
      <3> QED
        BY <2>2, <3>1
    <2>3. CASE n # 0
      <3>1. n \in Nat \ {0}
        BY <1>4, <2>3
      <3>2. amount[a] = (total * c[a]) \div n
        BY <2>3
      <3> HIDE DEF amount
      <3> QED
        BY <2>1, <3>1, <3>2, DivisionBounds
    <2> QED
      BY <2>2, <2>3
  <1>7. Summable(amount, D)
    BY <1>2, <1>6 DEF Summable
  <1>8. sum \in Nat
    BY <1>7, SumStep
  <1>9. sum =< total
    <2>1. CASE n = 0
      <3>1. \A a \in D : 1 * amount[a] =< 0 * c[a]
        BY <1>1, <2>1
      <3>2. 1 * sum =< 0 * SumOver(c, D)
        <4> HIDE DEF amount
        <4> QED
          BY <1>3, <1>7, <3>1, SumsCompare
      <3> HIDE DEF sum
      <3>3. sum =< 0
        BY <1>4, <1>8, <3>2
      <3> QED
        BY <1>8, <3>3
    <2>2. CASE n # 0
      <3>1. n * sum =< total * SumOver(c, D)
        <4> HIDE DEF amount
        <4> QED
          BY <1>3, <1>4, <1>6, <1>7, SumsCompare
      <3> DEFINE s == SumOver(c, D)
      <3>2. s \in Nat /\ s =< n /\ n * sum =< total * s
        BY <1>4, <3>1
      <3> HIDE DEF s, sum
      <3>3. total * s =< total * n
        BY <1>4, <3>2
      <3>4. total * n = n * total /\ n * sum \in Nat /\ total * s \in Nat
            /\ n * total \in Nat
        BY <1>4, <1>8, <3>2
      <3>5. n * sum =< n * total
        BY <3>2, <3>3, <3>4
      <3>6. n \in Nat \ {0}
        BY <1>4, <2>2
      <3> QED
        BY <1>8, <3>5, <3>6
    <2> QED
      BY <2>1, <2>2
  <1>10. SumFunction(out) = total
    <2>1. out["pool"] = total - sum
      <3> HIDE DEF sum
      <3> QED
        BY <1>8, <1>9 DEF Saturating
    <2>2. \A a \in D : out[a] = amount[a]
      BY <1>2
    <2>3. DOMAIN out = D \cup {"pool"}
      OBVIOUS
    <2> HIDE DEF amount, out
    <2>4. Summable(out, D) /\ SumOver(amount, D) = SumOver(out, D)
      <3>1. \A a \in D : amount[a] = out[a]
        BY <2>2
      <3>2. SumOver(amount, D) = SumOver(out, D)
        BY <1>7, <3>1, SumAgrees
      <3> QED
        BY <1>7, <2>2, <3>2 DEF Summable
    <2>5. out["pool"] \in Nat
      BY <1>8, <1>9, <2>1
    <2>6. SumOver(out, D \cup {"pool"}) = SumOver(out, D) + out["pool"]
      BY <1>2, <2>4, <2>5, SumAdd
    <2>7. SumFunction(out) = SumOver(out, D \cup {"pool"})
      BY <2>3 DEF SumFunction, SumOver
    <2> QED
      BY <1>8, <2>1, <2>4, <2>6, <2>7
  <1>11. \A a \in D : out[a] = amount[a]
    BY <1>2
  <1> HIDE DEF out, amount
  <1> QED
    BY <1>5, <1>6, <1>10, <1>11 DEF n, c

LEMMA WindowPays ==
  ASSUME WindowInv
  PROVE  PayoutsFollowWindow
PROOF
  <1> DEFINE n == SumOver(share_count, Addresses)
             size == Len(shares) - (IF recording = "nobody" THEN 0 ELSE 1)
  <1>1. /\ Len(shares) =< PPLNS_WINDOW /\ Len(shares) \in Nat
        /\ share_count \in [Addresses -> Nat]
        /\ n + Recorded = Len(shares)
    BY DEF WindowInv
  <1>2. n \in Nat
    <2>1. IsFiniteSet(Addresses)
      BY PoolAssumption DEF Addresses
    <2> QED
      BY <1>1, <2>1, SumStep DEF Summable
  <1>3. size = n
    BY <1>1, <1>2 DEF Recorded
  <1>4. \A a \in Addresses :
           share_count[a] + (IF recording = a THEN 1 ELSE 0) = occurrences(a)
    BY DEF WindowInv, occurrences, PlacesOf
  <1>5. \A a \in Addresses : occurrences(a) = 0 => share_count[a] = 0
    BY <1>1, <1>4
  <1>6. ASSUME NEW total \in Totals, NEW D \in SUBSET Addresses
        PROVE  /\ SumFunction(payout_outputs(total, D)) = total
               /\ \A a \in D :
                     LET out == payout_outputs(total, D)
                         due == total * share_count[a] IN
                       /\ occurrences(a) = 0 => out[a] = 0
                       /\ out[a] * size =< due
                       /\ size > 0 => due < (out[a] + 1) * size
    <2>1. total \in Nat
      BY PoolAssumption
    <2> HIDE DEF n, size
    <2>2. /\ SumFunction(payout_outputs(total, D)) = total
          /\ \A a \in D :
                LET out == payout_outputs(total, D) IN
                  /\ share_count[a] = 0 => out[a] = 0
                  /\ out[a] * n =< total * share_count[a]
                  /\ n > 0 => total * share_count[a] < (out[a] + 1) * n
      BY <2>1, PayoutsExact DEF n
    <2> QED
      BY <1>3, <1>5, <2>2
  <1> QED
    BY <1>1, <1>4, <1>6 DEF PayoutsFollowWindow, Addresses

\* What a step does to the window, if anything, is to record a share.
LEMMA WindowStep ==
  ASSUME WindowInv, [PoolNext]_pool_vars
  PROVE  WindowInv'
PROOF
  <1>1. CASE UNCHANGED share_vars
    BY <1>1 DEF WindowInv, share_vars, Recorded, PlacesOf
  <1>2. CASE \E a \in Addresses : Begin(a) \/ Credit(a)
    BY <1>2, BeginKeeps, CreditKeeps
  <1>3. \/ UNCHANGED share_vars
        \/ \E a \in Addresses : Begin(a) \/ Credit(a)
    <2>1. ASSUME NEW c \in Conn,
                 \/ Connect(c) \/ TakeJob(c) \/ Lose(c)
                 \/ \E block \in BOOLEAN : FindShare(c, block)
          PROVE  UNCHANGED share_vars
      BY <2>1 DEF Connect, TakeJob, Lose, FindShare
    <2>2. ASSUME NEW c \in Conn, Record(c)
          PROVE  Begin(c) \/ Credit(c)
      BY <2>2 DEF Record
    <2>3. ASSUME NEW c \in Conn, ReaderStep(c), ~ Record(c)
          PROVE  UNCHANGED share_vars
      BY <2>3
         DEF ReaderStep, EndReader, Subscribes, TakeShare, Write, Send, Check, 
                  Win, Renew
    <2>4. ASSUME NEW c \in Conn, TickerStep(c)
          PROVE  UNCHANGED share_vars
      BY <2>4 DEF TickerStep, EndTicker, Wake, Rebuild, SendJob
    <2>5. ASSUME NEW o \in Others, OtherShare(o)
          PROVE  Begin(o) \/ Credit(o)
      BY <2>5 DEF OtherShare
    <2>6. CASE PeerBlock \/ Publish \/ StopServer
      BY <2>6 DEF PeerBlock, Publish, StopServer
    <2>7. CASE UNCHANGED pool_vars
      BY <2>7 DEF pool_vars
    <2> QED
      BY <2>1, <2>2, <2>3, <2>4, <2>5, <2>6, <2>7 DEF PoolNext, Addresses
  <1> QED
    BY <1>1, <1>2, <1>3

LEMMA WindowInit ==
  PoolInit => WindowInv
PROOF
  <1> SUFFICES ASSUME PoolInit PROVE WindowInv
    OBVIOUS
  <1>1. /\ shares = << >> /\ recording = "nobody"
        /\ share_count = [a \in Addresses |-> 0]
    BY DEF PoolInit, Addresses
  <1>2. Len(shares) = 0 /\ shares \in Seq(Addresses) /\ PPLNS_WINDOW \in Nat
    BY <1>1, PoolAssumption
  <1>3. \A a \in Addresses : recording # a
    BY <1>1, PoolAssumption DEF Addresses
  <1>4. \A a \in Addresses : Cardinality(PlacesOf(a, shares)) = 0
    <2>1. \A a : PlacesOf(a, shares) = {}
      BY <1>1 DEF PlacesOf
    <2> QED
      BY <2>1, FS_EmptySet
  <1>5. SumOver(share_count, Addresses) = 0
    <2>1. IsFiniteSet(Addresses)
      BY PoolAssumption DEF Addresses
    <2>2. Summable(share_count, Addresses)
      BY <1>1, <2>1 DEF Summable
    <2> DEFINE zero == [a \in Addresses |-> 0]
    <2>3. SumOver(share_count, Addresses) \in Nat
      BY <2>2, SumStep
    <2>4. \A a \in Addresses : 1 * share_count[a] =< 0 * share_count[a]
      BY <1>1
    <2>5. 1 * SumOver(share_count, Addresses)
            =< 0 * SumOver(share_count, Addresses)
      BY <2>2, <2>4, SumsCompare
    <2> QED
      BY <2>3, <2>5
  <1>6. share_count \in [Addresses -> Nat] /\ Recorded = 0
    BY <1>1 DEF Recorded
  <1> QED
    BY <1>1, <1>2, <1>3, <1>4, <1>5, <1>6 DEF WindowInv

LEMMA WindowInvariance ==
  PoolSpec => []WindowInv
PROOF
  <1>1. PoolInit => WindowInv
    BY WindowInit
  <1>2. WindowInv /\ [PoolNext]_pool_vars => WindowInv'
    BY WindowStep
  <1> QED
    BY <1>1, <1>2, PTL DEF PoolSpec

\* record_share, by whichever threads and in whatever order, keeps the counts
\* those of the window, so that payout_outputs pays the whole total, each address
\* by its shares to the last unit.
THEOREM PayoutsStayFair ==
  PoolSpec => []PayoutsFollowWindow
PROOF
  <1>1. WindowInv => PayoutsFollowWindow
    BY WindowPays
  <1> QED
    BY <1>1, WindowInvariance, PTL

-----------------------------------------------------------------------------
(* What is on a connection *)

Shares  == [type : {"share"}, of : Template, block : BOOLEAN]
Inboxes == {<< >>, <<Subscribe>>} \cup {<<m>> : m \in Shares}
Slots   == {<< >>} \cup {<<t>> : t \in Template}

LEMMA InboxFacts ==
  \A s \in Inboxes :
     /\ s \in Seq(Message)
     /\ s # << >> => /\ Tail(s) = << >> /\ s = <<Head(s)>>
                     /\ Head(s) = Subscribe \/ Head(s) \in Shares
                     /\ Head(s).type = "subscribe" <=> Head(s) = Subscribe
                     /\ Head(s).type = "share" <=> Head(s) \in Shares
PROOF
  <1>1. Subscribe.type = "subscribe" /\ \A m \in Shares : m.type = "share"
    BY DEF Subscribe, Shares
  <1>2. Subscribe \in Message /\ Shares \subseteq Message
    BY DEF Message, Shares
  <1>3. \A m \in Message : /\ <<m>> \in Seq(Message)
                           /\ Tail(<<m>>) = << >> /\ Head(<<m>>) = m
    OBVIOUS
  <1>4. << >> \in Seq(Message)
    OBVIOUS
  <1> HIDE DEF Subscribe, Shares, Message
  <1> SUFFICES ASSUME NEW m \in Message, m = Subscribe \/ m \in Shares
               PROVE  /\ m.type = "subscribe" <=> m = Subscribe
                      /\ m.type = "share" <=> m \in Shares
    BY <1>2, <1>3, <1>4 DEF Inboxes
  <1>5. "subscribe" # "share"
    OBVIOUS
  <1> QED
    BY <1>1, <1>5

LEMMA SlotFacts ==
  \A s \in Slots :
     /\ s \in Seq(Template)
     /\ s # << >> => s[1] \in Template /\ s = <<s[1]>>
PROOF
  <1>1. \A t \in Template : <<t>> \in Seq(Template) /\ <<t>>[1] = t
    OBVIOUS
  <1>2. << >> \in Seq(Template)
    OBVIOUS
  <1> HIDE DEF Template
  <1> QED
    BY <1>1, <1>2 DEF Slots

Readers == {"off", "idle", "greet", "fresh", "tell", "check", "record",
            "credit", "win", "won", "renew", "offer"}
Tickers == {"off", "sleep", "built", "send"}

ChainOK ==
  /\ tip \in 0..MAX_TIPS /\ height \in 0..tip
  /\ writer \in Conn \cup {"free", "peer"}
  /\ writer = "free" => height = tip

LinkTypes ==
  /\ serving \in BOOLEAN
  /\ connects \in 0..MAX_CONNECTS
  /\ subscribed \subseteq Conn
  /\ crossed \subseteq Conn
  /\ link \in [Conn -> {"up", "cut"}]
  /\ inbox \in [Conn -> Inboxes]
  /\ outbox \in [Conn -> Slots]
  /\ work \in [Conn -> Slots]
  /\ template \in [Conn -> Template]
  /\ tmpl \in [Conn -> Template]
  /\ next_job \in [Conn -> Template]
  /\ reader \in [Conn -> Readers]
  /\ ticker \in [Conn -> Tickers]

\* A subscription comes first, and until it is handled there is no job; any other
\* message is a share, checked where the place of the reader says so, and a win is
\* within the bound of the model.
ReaderOK(c) ==
  /\ inbox[c] = <<Subscribe>> =>
        /\ reader[c] \in {"idle", "greet", "renew", "offer"}
        /\ reader[c] = "idle" =>
              /\ ticker[c] \in {"off", "sleep"}
              /\ outbox[c] = << >> /\ work[c] = << >>
              /\ c \notin subscribed
  /\ reader[c] = "off" => c \notin subscribed
  /\ reader[c] \notin {"off", "idle"} => inbox[c] # << >>
  /\ reader[c] = "greet" => inbox[c] = <<Subscribe>>
  /\ reader[c] \in {"record", "credit", "win"} => check_share(c)
  /\ reader[c] = "win" => share(c).block
  /\ inbox[c] # << >> /\ share(c) \in Shares =>
        (share(c).block => share(c).of.prev < MAX_TIPS \/ torn(share(c).of))

\* The jobs a miner has, has mined on, or is about to get.
HasJob(c, j) ==
  \/ outbox[c] = <<j>> \/ work[c] = <<j>>
  \/ inbox[c] # << >> /\ share(c) \in Shares /\ share(c).of = j
  \/ ticker[c] = "send" /\ next_job[c] = j

\* A job on the present tip.
Live(j) == j.prev = tip

\* No template is ahead of the chain.
NotAhead(c) ==
  /\ \A j \in Template : HasJob(c, j) => j.prev =< tip
  /\ template[c].prev =< tip /\ tmpl[c].prev =< tip /\ next_job[c].prev =< tip

\* The reader has yet to replace the first template of a miner that subscribes.
Greeting(c) == reader[c] \in {"greet", "renew"} /\ inbox[c] = <<Subscribe>>

\* As long as the threads did not cross and no win was refused: a job on the tip
\* is the template; a thread about to replace the template knows the tip has left
\* it, or that no job of it went out; and the template the reader goes by, once it
\* is written, is the one in place.
InStep(c) ==
  /\ \A j \in Template : HasJob(c, j) /\ Live(j) => j = template[c]
  /\ (\/ reader[c] \in {"fresh", "won"} \/ ticker[c] = "built"
      \/ reader[c] = "renew" /\ ~ Greeting(c))
       => ~ Live(template[c])
  /\ Greeting(c) => outbox[c] = << >> /\ work[c] = << >> /\ ticker[c] # "send"
  /\ reader[c] \in {"tell", "check", "record", "credit", "win", "offer"}
       => tmpl[c] = template[c]

ConnOK(c) == ReaderOK(c) /\ NotAhead(c) /\ (c \notin crossed => InStep(c))

PoolInv == ChainOK /\ LinkTypes /\ \A c \in Conn : ConnOK(c)

LEMMA PoolInvRefusals ==
  ASSUME PoolInv
  PROVE  RefusalsAreCrossings
PROOF
  <1> SUFFICES ASSUME NEW c \in Conn, reader[c] = "check", ~ check_share(c),
                      share(c).of.prev = tip, c \notin crossed
               PROVE  FALSE
    BY DEF RefusalsAreCrossings
  <1>1. ReaderOK(c) /\ InStep(c) /\ inbox[c] \in Inboxes
    BY DEF PoolInv, ConnOK, LinkTypes
  <1>2. inbox[c] # << >> /\ share(c) \in Shares
    BY <1>1, InboxFacts DEF ReaderOK, share
  <1>3. share(c).of \in Template
    BY <1>2 DEF Shares
  <1>4. HasJob(c, share(c).of) /\ Live(share(c).of)
    BY <1>2 DEF HasJob, Live
  <1>5. share(c).of = template[c] /\ tmpl[c] = template[c]
    BY <1>1, <1>3, <1>4 DEF InStep
  <1> QED
    BY <1>5 DEF check_share

LEMMA PoolInvTypes ==
  ASSUME PoolInv, WindowInv
  PROVE  PoolTypeOK
PROOF
  <1>1. \A c \in Conn : /\ inbox[c] \in Seq(Message)
                        /\ outbox[c] \in Seq(Template)
                        /\ work[c] \in Seq(Template)
    BY InboxFacts, SlotFacts DEF PoolInv, LinkTypes
  <1> QED
    BY <1>1 DEF PoolInv, ChainOK, LinkTypes, WindowInv, Addresses, Readers,
                Tickers, PoolTypeOK

\* Nothing on connection d changes.
Same(d) ==
  /\ inbox'[d] = inbox[d] /\ outbox'[d] = outbox[d] /\ work'[d] = work[d]
  /\ template'[d] = template[d] /\ tmpl'[d] = tmpl[d]
  /\ next_job'[d] = next_job[d]
  /\ reader'[d] = reader[d] /\ ticker'[d] = ticker[d]
  /\ d \in subscribed' <=> d \in subscribed
  /\ d \in crossed' <=> d \in crossed

\* A later tip makes no job worth mining on.
LEMMA SameKeeps ==
  ASSUME ChainOK, ChainOK', NEW d \in Conn, ConnOK(d), Same(d), tip =< tip',
         LinkTypes
  PROVE  ConnOK(d)'
PROOF
  <1>1. tip \in Nat /\ tip' \in Nat
    BY PoolAssumption DEF ChainOK
  <1>2. share(d)' = share(d)
    BY DEF Same, share
  <1>3. ReaderOK(d)'
    BY <1>2 DEF ConnOK, ReaderOK, Same, check_share, torn
  <1>4. \A j : HasJob(d, j)' <=> HasJob(d, j)
    BY <1>2 DEF HasJob, Same
  <1>5. \A j \in Template : j.prev \in Nat
    BY DEF Template
  <1>6. template[d] \in Template /\ tmpl[d] \in Template /\ next_job[d] \in Template
    BY DEF LinkTypes
  <1>7. NotAhead(d)'
    BY <1>1, <1>4, <1>5, <1>6 DEF ConnOK, NotAhead, Same
  <1>8. \A j \in Template : j.prev =< tip /\ Live(j)' => Live(j)
    BY <1>1, <1>5 DEF Live
  <1>9. d \notin crossed' => InStep(d)'
    <2> SUFFICES ASSUME d \notin crossed' PROVE InStep(d)'
      OBVIOUS
    <2>1. InStep(d) /\ NotAhead(d)
      BY DEF ConnOK, Same
    <2>2. \A j \in Template : (HasJob(d, j) /\ Live(j))' => j = template'[d]
      BY <1>4, <1>8, <2>1 DEF InStep, NotAhead, Same
    <2>3. Live(template[d])' => Live(template[d])
      <3>1. template'[d] = template[d]
        BY DEF Same
      <3>2. template'[d].prev = tip' => Live(template[d])
        BY <1>1, <1>5, <1>6, <2>1, <3>1 DEF Live, NotAhead
      <3> QED
        BY <3>2 DEF Live
    <2> QED
      BY <2>1, <2>2, <2>3 DEF InStep, Greeting, Same
  <1> QED
    BY <1>3, <1>7, <1>9 DEF ConnOK

-----------------------------------------------------------------------------
(* The steps of a connection *)

\* A step of connection c that keeps it in order and leaves the others alone.
Kept(c) ==
  /\ ChainOK' /\ LinkTypes' /\ tip =< tip'
  /\ \A d \in Conn \ {c} : Same(d)
  /\ ConnOK(c)'

LEMMA ChainStays ==
  ASSUME ChainOK, UNCHANGED chain_vars
  PROVE  ChainOK' /\ tip' = tip /\ tip =< tip' /\ tip \in Nat
PROOF
  BY PoolAssumption DEF ChainOK, chain_vars

LEMMA TakeJobKeeps ==
  ASSUME PoolInv, NEW c \in Conn, TakeJob(c)
  PROVE  Kept(c)
PROOF
  <1>1. ChainOK /\ LinkTypes /\ ConnOK(c)
    BY DEF PoolInv
  <1>2. ChainOK' /\ tip' = tip /\ tip =< tip' /\ tip \in Nat
    BY <1>1, ChainStays DEF TakeJob
  <1>3. /\ inbox'[c] = inbox[c] /\ outbox'[c] = << >> /\ work'[c] = outbox[c]
        /\ template'[c] = template[c] /\ tmpl'[c] = tmpl[c]
        /\ next_job'[c] = next_job[c]
        /\ reader'[c] = reader[c] /\ ticker'[c] = ticker[c]
        /\ subscribed' = subscribed /\ crossed' = crossed
        /\ outbox[c] # << >> /\ outbox[c] \in Slots
    BY <1>1 DEF TakeJob, LinkTypes, reader_vars, ticker_vars
  <1>4. LinkTypes'
    BY <1>1, <1>3 DEF TakeJob, LinkTypes, reader_vars, ticker_vars, Slots
  <1>5. \A d \in Conn \ {c} : Same(d)
    BY <1>1 DEF TakeJob, LinkTypes, Same, reader_vars, ticker_vars
  <1>6. ReaderOK(c)'
    BY <1>1, <1>3 DEF ConnOK, ReaderOK, share, check_share, torn
  <1>7. \A j \in Template : HasJob(c, j)' => HasJob(c, j)
    BY <1>3 DEF HasJob, share
  <1>8. NotAhead(c)'
    BY <1>1, <1>2, <1>3, <1>7 DEF ConnOK, NotAhead
  <1>9. c \notin crossed' => InStep(c)'
    BY <1>1, <1>2, <1>3, <1>7 DEF ConnOK, InStep, Greeting, Live
  <1> QED
    BY <1>2, <1>4, <1>5, <1>6, <1>8, <1>9 DEF Kept, ConnOK

LEMMA NoTemplateOK == NoTemplate \in Template /\ NoTemplate.prev = 0
PROOF
  BY PoolAssumption DEF NoTemplate, Template

LEMMA SubscribeFacts ==
  /\ <<Subscribe>> \in Inboxes /\ << >> \in Inboxes /\ << >> \in Slots
  /\ <<Subscribe>> # << >> /\ Head(<<Subscribe>>) = Subscribe
  /\ Subscribe \notin Shares
PROOF
  BY DEF Inboxes, Slots, Subscribe, Shares

LEMMA BuiltFacts ==
  ASSUME ChainOK
  PROVE  \A t \in Built : t \in Template /\ t.prev = tip
PROOF
  BY PoolAssumption DEF ChainOK, Built, Template

LEMMA ConnectKeeps ==
  ASSUME PoolInv, NEW c \in Conn, Connect(c)
  PROVE  Kept(c)
PROOF
  <1>1. ChainOK /\ LinkTypes /\ ConnOK(c)
    BY DEF PoolInv
  <1>2. ChainOK' /\ tip' = tip /\ tip =< tip' /\ tip \in Nat
    BY <1>1, ChainStays DEF Connect
  <1>a. PICK t \in Built : template' = [template EXCEPT ![c] = t]
    BY DEF Connect
  <1>b. t \in Template /\ t.prev = tip
    BY <1>1, BuiltFacts
  <1>3. /\ inbox'[c] = <<Subscribe>> /\ outbox'[c] = << >> /\ work'[c] = << >>
        /\ template'[c] = t /\ tmpl'[c] = tmpl[c]
        /\ next_job'[c] = next_job[c]
        /\ reader'[c] = "idle" /\ ticker'[c] = "sleep"
        /\ subscribed' = subscribed /\ c \notin subscribed
    BY <1>1, <1>a DEF Connect, LinkTypes, ConnOK, ReaderOK, alive
  <1>4. LinkTypes'
    <2>1. template' \in [Conn -> Template]
      BY <1>1, <1>a, <1>b DEF LinkTypes
    <2>2. reader' \in [Conn -> Readers] /\ ticker' \in [Conn -> Tickers]
      BY <1>1 DEF Connect, LinkTypes, Readers, Tickers
    <2>3. connects' \in 0..MAX_CONNECTS
      BY <1>1, PoolAssumption DEF Connect, LinkTypes
    <2> QED
      BY <1>1, <2>1, <2>2, <2>3, SubscribeFacts DEF Connect, LinkTypes
  <1>5. \A d \in Conn \ {c} : Same(d)
    BY <1>1, <1>a DEF Connect, LinkTypes, Same
  <1>6. ReaderOK(c)'
    BY <1>3, SubscribeFacts DEF ReaderOK, share
  <1>7. \A j : ~ HasJob(c, j)'
    BY <1>3, SubscribeFacts DEF HasJob, share
  <1>8. NotAhead(c)'
    BY <1>1, <1>2, <1>3, <1>7, <1>b DEF ConnOK, NotAhead
  <1>9. InStep(c)'
    BY <1>3, <1>7 DEF InStep, Greeting
  <1> QED
    BY <1>2, <1>4, <1>5, <1>6, <1>8, <1>9 DEF Kept, ConnOK

LEMMA LoseKeeps ==
  ASSUME PoolInv, NEW c \in Conn, Lose(c)
  PROVE  Kept(c)
PROOF
  <1>1. ChainOK /\ LinkTypes /\ ConnOK(c)
    BY DEF PoolInv
  <1>2. ChainOK' /\ tip' = tip /\ tip =< tip' /\ tip \in Nat
    BY <1>1, ChainStays DEF Lose
  <1>3. /\ inbox'[c] = inbox[c] /\ outbox'[c] = << >> /\ work'[c] = << >>
        /\ template'[c] = template[c] /\ tmpl'[c] = tmpl[c]
        /\ next_job'[c] = next_job[c]
        /\ reader'[c] = reader[c] /\ ticker'[c] = ticker[c]
        /\ subscribed' = subscribed /\ crossed' = crossed
    BY <1>1 DEF Lose, LinkTypes, reader_vars, ticker_vars
  <1>4. LinkTypes'
    BY <1>1, SubscribeFacts DEF Lose, LinkTypes, reader_vars, ticker_vars
  <1>5. \A d \in Conn \ {c} : Same(d)
    BY <1>1 DEF Lose, LinkTypes, Same, reader_vars, ticker_vars
  <1>6. ReaderOK(c)'
    BY <1>1, <1>3 DEF ConnOK, ReaderOK, share, check_share, torn
  <1>7. \A j \in Template : HasJob(c, j)' => HasJob(c, j)
    BY <1>3 DEF HasJob, share
  <1>8. NotAhead(c)'
    BY <1>1, <1>2, <1>3, <1>7 DEF ConnOK, NotAhead
  <1>9. c \notin crossed' => InStep(c)'
    BY <1>1, <1>2, <1>3, <1>7 DEF ConnOK, InStep, Greeting, Live
  <1> QED
    BY <1>2, <1>4, <1>5, <1>6, <1>8, <1>9 DEF Kept, ConnOK

LEMMA FindShareKeeps ==
  ASSUME PoolInv, NEW c \in Conn, NEW block \in BOOLEAN, FindShare(c, block)
  PROVE  Kept(c)
PROOF
  <1> DEFINE m == [type |-> "share", of |-> work[c][1], block |-> block]
  <1>1. ChainOK /\ LinkTypes /\ ConnOK(c)
    BY DEF PoolInv
  <1>2. ChainOK' /\ tip' = tip /\ tip =< tip' /\ tip \in Nat
    BY <1>1, ChainStays DEF FindShare
  <1>a. work[c] \in Slots /\ work[c] # << >>
    BY <1>1 DEF FindShare, LinkTypes
  <1>b. work[c][1] \in Template /\ work[c] = <<work[c][1]>>
    BY <1>a, SlotFacts
  <1>c. m \in Shares /\ m.of = work[c][1] /\ m.block = block
    BY <1>b DEF Shares
  <1>d. /\ Head(<<m>>) = m /\ <<m>> # << >> /\ <<m>> \in Inboxes
        /\ <<m>> # <<Subscribe>>
    BY <1>c, SubscribeFacts DEF Inboxes
  <1>e. block => m.of.prev < MAX_TIPS \/ torn(m.of)
    BY <1>c DEF FindShare
  <1>f. inbox' = [inbox EXCEPT ![c] = <<m>>]
    BY DEF FindShare
  <1> HIDE DEF m
  <1>3. /\ inbox'[c] = <<m>> /\ outbox'[c] = outbox[c] /\ work'[c] = work[c]
        /\ template'[c] = template[c] /\ tmpl'[c] = tmpl[c]
        /\ next_job'[c] = next_job[c]
        /\ reader'[c] = reader[c] /\ ticker'[c] = ticker[c]
        /\ subscribed' = subscribed /\ crossed' = crossed
        /\ inbox[c] = << >> /\ share(c)' = m
    BY <1>1, <1>d, <1>f
       DEF FindShare, LinkTypes, reader_vars, ticker_vars, share
  <1>4. LinkTypes'
    BY <1>1, <1>d, <1>f DEF FindShare, LinkTypes, reader_vars, ticker_vars
  <1>5. \A d \in Conn \ {c} : Same(d)
    BY <1>1, <1>f DEF FindShare, LinkTypes, Same, reader_vars, ticker_vars
  <1>6. ReaderOK(c)'
    BY <1>1, <1>3, <1>c, <1>d, <1>e DEF ConnOK, ReaderOK, check_share, torn
  <1>7. \A j \in Template : HasJob(c, j)' => HasJob(c, j)
    BY <1>3, <1>b, <1>c DEF HasJob
  <1>8. NotAhead(c)'
    BY <1>1, <1>2, <1>3, <1>7 DEF ConnOK, NotAhead
  <1>9. c \notin crossed' => InStep(c)'
    BY <1>1, <1>2, <1>3, <1>7, <1>d
       DEF ConnOK, ReaderOK, InStep, Greeting, Live
  <1> QED
    BY <1>2, <1>4, <1>5, <1>6, <1>8, <1>9 DEF Kept, ConnOK

LEMMA EndReaderKeeps ==
  ASSUME PoolInv, NEW c \in Conn, EndReader(c)
  PROVE  Kept(c)
PROOF
  <1>1. ChainOK /\ LinkTypes /\ ConnOK(c)
    BY DEF PoolInv
  <1>2. ChainOK' /\ tip' = tip /\ tip =< tip' /\ tip \in Nat
    BY <1>1, ChainStays DEF EndReader
  <1>3. /\ inbox'[c] = << >> /\ outbox'[c] = outbox[c] /\ work'[c] = work[c]
        /\ template'[c] = template[c] /\ tmpl'[c] = NoTemplate
        /\ next_job'[c] = next_job[c]
        /\ reader'[c] = "off" /\ ticker'[c] = ticker[c]
        /\ subscribed' = subscribed \ {c} /\ crossed' = crossed
    BY <1>1 DEF EndReader, LinkTypes, ticker_vars, goto, drop
  <1>a. /\ link' \in [Conn -> {"up", "cut"}] /\ inbox' \in [Conn -> Inboxes]
        /\ tmpl' \in [Conn -> Template] /\ reader' \in [Conn -> Readers]
    <2>1. link' \in [Conn -> {"up", "cut"}]
      BY <1>1 DEF EndReader, LinkTypes
    <2>2. inbox' \in [Conn -> Inboxes]
      BY <1>1, SubscribeFacts DEF EndReader, LinkTypes
    <2>3. tmpl' \in [Conn -> Template]
      BY <1>1, NoTemplateOK DEF EndReader, LinkTypes, drop
    <2>4. reader' \in [Conn -> Readers]
      BY <1>1 DEF EndReader, LinkTypes, goto, Readers
    <2> QED
      BY <2>1, <2>2, <2>3, <2>4
  <1>4. LinkTypes'
    BY <1>1, <1>a DEF EndReader, LinkTypes, ticker_vars
  <1>5. \A d \in Conn \ {c} : Same(d)
    BY <1>1 DEF EndReader, LinkTypes, Same, ticker_vars, goto, drop
  <1>6. ReaderOK(c)'
    BY <1>3, SubscribeFacts DEF ReaderOK
  <1>7. \A j \in Template : HasJob(c, j)' => HasJob(c, j)
    BY <1>3 DEF HasJob
  <1>8. NotAhead(c)'
    BY <1>1, <1>2, <1>3, <1>7, NoTemplateOK DEF ConnOK, NotAhead
  <1>9. c \notin crossed' => InStep(c)'
    BY <1>1, <1>2, <1>3, <1>7 DEF ConnOK, InStep, Greeting, Live
  <1> QED
    BY <1>2, <1>4, <1>5, <1>6, <1>8, <1>9 DEF Kept, ConnOK

LEMMA SubscribesKeeps ==
  ASSUME PoolInv, NEW c \in Conn, Subscribes(c)
  PROVE  Kept(c)
PROOF
  <1>1. ChainOK /\ LinkTypes /\ ConnOK(c)
    BY DEF PoolInv
  <1>2. ChainOK' /\ tip' = tip /\ tip =< tip' /\ tip \in Nat
    BY <1>1, ChainStays DEF Subscribes
  <1>a. inbox[c] = <<Subscribe>>
    <2>1. inbox[c] \in Inboxes /\ inbox[c] # << >>
      BY <1>1 DEF Subscribes, LinkTypes
    <2> QED
      BY <2>1, InboxFacts DEF Subscribes, share
  <1>b. ticker[c] \in {"off", "sleep"} /\ outbox[c] = << >> /\ work[c] = << >>
    BY <1>1, <1>a DEF Subscribes, ConnOK, ReaderOK
  <1>3. /\ inbox'[c] = inbox[c] /\ outbox'[c] = outbox[c] /\ work'[c] = work[c]
        /\ template'[c] = template[c] /\ tmpl'[c] = tmpl[c]
        /\ next_job'[c] = next_job[c]
        /\ reader'[c] = "greet" /\ ticker'[c] = ticker[c]
        /\ crossed' = crossed
    BY <1>1 DEF Subscribes, LinkTypes, ticker_vars, link_vars, goto
  <1>4. LinkTypes'
    <2>1. reader' \in [Conn -> Readers]
      BY <1>1 DEF Subscribes, LinkTypes, goto, Readers
    <2> QED
      BY <1>1, <2>1 DEF Subscribes, LinkTypes, ticker_vars, link_vars
  <1>5. \A d \in Conn \ {c} : Same(d)
    BY <1>1 DEF Subscribes, LinkTypes, Same, ticker_vars, link_vars, goto
  <1>6. ReaderOK(c)'
    BY <1>3, <1>a, SubscribeFacts DEF ReaderOK, share
  <1>7. \A j \in Template : ~ HasJob(c, j)'
    <2>1. \A j : <<j>> # << >>
      OBVIOUS
    <2> QED
      BY <1>3, <1>a, <1>b, <2>1, SubscribeFacts DEF HasJob, share
  <1>8. NotAhead(c)'
    BY <1>1, <1>2, <1>3, <1>7 DEF ConnOK, NotAhead
  <1>9. InStep(c)'
    BY <1>3, <1>7, <1>b DEF InStep
  <1> QED
    BY <1>2, <1>4, <1>5, <1>6, <1>8, <1>9 DEF Kept, ConnOK

LEMMA TakeShareKeeps ==
  ASSUME PoolInv, NEW c \in Conn, TakeShare(c)
  PROVE  Kept(c)
PROOF
  <1>1. ChainOK /\ LinkTypes /\ ConnOK(c)
    BY DEF PoolInv
  <1>2. ChainOK' /\ tip' = tip /\ tip =< tip' /\ tip \in Nat
    BY <1>1, ChainStays DEF TakeShare
  <1>a. /\ tmpl' \in [Conn -> Template] /\ tmpl'[c].prev =< tip'
        /\ \A d \in Conn \ {c} : tmpl'[d] = tmpl[d]
        /\ \/ reader'[c] = "check" /\ tmpl'[c] = template[c]
           \/ reader'[c] = "fresh" /\ template[c].prev # tip
        /\ reader' = [reader EXCEPT ![c] = reader'[c]]
    <2>1. CASE /\ template[c].prev = tip
               /\ tmpl' = [tmpl EXCEPT ![c] = template[c]]
               /\ goto(c, "check")
      BY <1>1, <1>2, <2>1 DEF LinkTypes, goto
    <2>2. CASE /\ template[c].prev # tip
               /\ \E t \in Built : tmpl' = [tmpl EXCEPT ![c] = t]
               /\ goto(c, "fresh")
      BY <1>1, <1>2, <2>2, BuiltFacts DEF LinkTypes, goto
    <2> QED
      BY <2>1, <2>2 DEF TakeShare
  <1>3. /\ inbox'[c] = inbox[c] /\ outbox'[c] = outbox[c]
        /\ work'[c] = work[c]
        /\ template'[c] = template[c]
        /\ next_job'[c] = next_job[c] /\ ticker'[c] = ticker[c]
        /\ subscribed' = subscribed /\ crossed' = crossed
        /\ reader[c] = "idle"
        /\ inbox[c] # << >> /\ share(c).type = "share"
    BY DEF TakeShare, ticker_vars, link_vars
  <1>4. LinkTypes'
    <2>1. reader' \in [Conn -> Readers]
      BY <1>1, <1>a DEF LinkTypes, Readers
    <2> QED
      BY <1>1, <1>a, <2>1 DEF TakeShare, LinkTypes, ticker_vars, link_vars
  <1>5. \A d \in Conn \ {c} : Same(d)
    BY <1>1, <1>a DEF TakeShare, LinkTypes, Same, ticker_vars, link_vars
  <1>b. inbox[c] # <<Subscribe>> /\ share(c) \in Shares
    <2>1. inbox[c] \in Inboxes
      BY <1>1 DEF LinkTypes
    <2> QED
      BY <1>3, <2>1, InboxFacts, SubscribeFacts DEF share
  <1>6. ReaderOK(c)'
    BY <1>1, <1>3, <1>a, <1>b DEF ConnOK, ReaderOK, share, torn
  <1>7. \A j \in Template : HasJob(c, j)' => HasJob(c, j)
    BY <1>3 DEF HasJob, share
  <1>8. NotAhead(c)'
    BY <1>1, <1>2, <1>3, <1>7, <1>a DEF ConnOK, NotAhead
  <1>9. c \notin crossed' => InStep(c)'
    BY <1>1, <1>2, <1>3, <1>7, <1>a DEF ConnOK, InStep, Greeting, Live
  <1> QED
    BY <1>2, <1>4, <1>5, <1>6, <1>8, <1>9 DEF Kept, ConnOK

LEMMA CheckKeeps ==
  ASSUME PoolInv, NEW c \in Conn, Check(c)
  PROVE  Kept(c)
PROOF
  <1>1. ChainOK /\ LinkTypes /\ ConnOK(c)
    BY DEF PoolInv
  <1>2. ChainOK' /\ tip' = tip /\ tip =< tip' /\ tip \in Nat
    BY <1>1, ChainStays DEF Check
  <1>3. /\ outbox'[c] = outbox[c] /\ work'[c] = work[c]
        /\ template'[c] = template[c]
        /\ next_job'[c] = next_job[c] /\ ticker'[c] = ticker[c]
        /\ subscribed' = subscribed /\ crossed' = crossed
        /\ reader[c] = "check"
    BY DEF Check, ticker_vars
  <1>a. inbox[c] # << >> /\ share(c) \in Shares /\ inbox[c] # <<Subscribe>>
        /\ Tail(inbox[c]) = << >>
    <2>1. inbox[c] \in Inboxes /\ inbox[c] # << >> /\ inbox[c] # <<Subscribe>>
      BY <1>1, <1>3 DEF LinkTypes, ConnOK, ReaderOK
    <2> QED
      BY <2>1, InboxFacts, SubscribeFacts DEF share
  <1>b. \/ /\ check_share(c) /\ inbox' = inbox /\ tmpl' = tmpl
           /\ reader' = [reader EXCEPT ![c] = "record"]
        \/ /\ inbox' = [inbox EXCEPT ![c] = << >>]
           /\ tmpl' = [tmpl EXCEPT ![c] = NoTemplate]
           /\ reader' = [reader EXCEPT ![c] = "idle"]
    BY <1>a DEF Check, done, goto, drop
  <1>4. LinkTypes'
    <2>1. reader' \in [Conn -> Readers]
      BY <1>1, <1>b DEF LinkTypes, Readers
    <2>2. inbox' \in [Conn -> Inboxes] /\ tmpl' \in [Conn -> Template]
      BY <1>1, <1>b, SubscribeFacts, NoTemplateOK DEF LinkTypes
    <2> QED
      BY <1>1, <2>1, <2>2 DEF Check, LinkTypes, ticker_vars
  <1>5. \A d \in Conn \ {c} : Same(d)
    BY <1>1, <1>b DEF Check, LinkTypes, Same, ticker_vars
  <1>c. \/ /\ check_share(c) /\ inbox'[c] = inbox[c] /\ tmpl'[c] = tmpl[c]
           /\ reader'[c] = "record"
        \/ /\ inbox'[c] = << >> /\ tmpl'[c] = NoTemplate
           /\ reader'[c] = "idle"
    BY <1>1, <1>b DEF LinkTypes
  <1>6. ReaderOK(c)'
    BY <1>1, <1>3, <1>a, <1>c, SubscribeFacts
       DEF ConnOK, ReaderOK, share, check_share, torn
  <1>7. \A j \in Template : HasJob(c, j)' => HasJob(c, j)
    BY <1>3, <1>c DEF HasJob, share
  <1>8. NotAhead(c)'
    BY <1>1, <1>2, <1>3, <1>7, <1>c, NoTemplateOK DEF ConnOK, NotAhead
  <1>9. c \notin crossed' => InStep(c)'
    BY <1>1, <1>2, <1>3, <1>7, <1>c DEF ConnOK, InStep, Greeting, Live
  <1> QED
    BY <1>2, <1>4, <1>5, <1>6, <1>8, <1>9 DEF Kept, ConnOK

LEMMA RecordKeeps ==
  ASSUME PoolInv, NEW c \in Conn, Record(c)
  PROVE  Kept(c)
PROOF
  <1>1. ChainOK /\ LinkTypes /\ ConnOK(c)
    BY DEF PoolInv
  <1>2. ChainOK' /\ tip' = tip /\ tip =< tip' /\ tip \in Nat
    BY <1>1, ChainStays DEF Record
  <1>3. /\ outbox'[c] = outbox[c] /\ work'[c] = work[c]
        /\ template'[c] = template[c]
        /\ next_job'[c] = next_job[c] /\ ticker'[c] = ticker[c]
        /\ subscribed' = subscribed /\ crossed' = crossed
        /\ reader[c] \in {"record", "credit"}
    BY DEF Record, ticker_vars
  <1>a. inbox[c] # << >> /\ share(c) \in Shares /\ inbox[c] # <<Subscribe>>
        /\ Tail(inbox[c]) = << >>
    <2>1. inbox[c] \in Inboxes /\ inbox[c] # << >> /\ inbox[c] # <<Subscribe>>
      BY <1>1, <1>3 DEF LinkTypes, ConnOK, ReaderOK
    <2> QED
      BY <2>1, InboxFacts, SubscribeFacts DEF share
  <1>b. \/ /\ inbox' = inbox /\ tmpl' = tmpl
           /\ \/ reader' = [reader EXCEPT ![c] = "credit"]
              \/ reader' = [reader EXCEPT ![c] = "win"] /\ share(c).block
        \/ /\ inbox' = [inbox EXCEPT ![c] = << >>]
           /\ tmpl' = [tmpl EXCEPT ![c] = NoTemplate]
           /\ reader' = [reader EXCEPT ![c] = "idle"]
    BY <1>a DEF Record, done, goto, drop
  <1>4. LinkTypes'
    <2>1. reader' \in [Conn -> Readers]
      BY <1>1, <1>b DEF LinkTypes, Readers
    <2>2. inbox' \in [Conn -> Inboxes] /\ tmpl' \in [Conn -> Template]
      BY <1>1, <1>b, SubscribeFacts, NoTemplateOK DEF LinkTypes
    <2> QED
      BY <1>1, <2>1, <2>2 DEF Record, LinkTypes, ticker_vars
  <1>5. \A d \in Conn \ {c} : Same(d)
    BY <1>1, <1>b DEF Record, LinkTypes, Same, ticker_vars
  <1>c. \/ /\ inbox'[c] = inbox[c] /\ tmpl'[c] = tmpl[c]
           /\ \/ reader'[c] = "credit"
              \/ reader'[c] = "win" /\ share(c).block
        \/ /\ inbox'[c] = << >> /\ tmpl'[c] = NoTemplate
           /\ reader'[c] = "idle"
    BY <1>1, <1>b DEF LinkTypes
  <1>6. ReaderOK(c)'
    BY <1>1, <1>3, <1>a, <1>c, SubscribeFacts
       DEF ConnOK, ReaderOK, share, check_share, torn
  <1>7. \A j \in Template : HasJob(c, j)' => HasJob(c, j)
    BY <1>3, <1>c DEF HasJob, share
  <1>8. NotAhead(c)'
    BY <1>1, <1>2, <1>3, <1>7, <1>c, NoTemplateOK DEF ConnOK, NotAhead
  <1>9. c \notin crossed' => InStep(c)'
    BY <1>1, <1>2, <1>3, <1>7, <1>c DEF ConnOK, InStep, Greeting, Live
  <1> QED
    BY <1>2, <1>4, <1>5, <1>6, <1>8, <1>9 DEF Kept, ConnOK

LEMMA WriteKeeps ==
  ASSUME PoolInv, NEW c \in Conn, Write(c)
  PROVE  Kept(c)
PROOF
  <1>1. ChainOK /\ LinkTypes /\ ConnOK(c)
    BY DEF PoolInv
  <1>2. ChainOK' /\ tip' = tip /\ tip =< tip' /\ tip \in Nat
    BY <1>1, ChainStays DEF Write
  <1>3. /\ inbox'[c] = inbox[c] /\ outbox'[c] = outbox[c]
        /\ work'[c] = work[c] /\ tmpl'[c] = tmpl[c]
        /\ template' = [template EXCEPT ![c] = tmpl[c]]
        /\ template'[c] = tmpl[c]
        /\ next_job'[c] = next_job[c] /\ ticker'[c] = ticker[c]
        /\ subscribed' = subscribed
        /\ crossed' = IF ticker[c] = "built" THEN crossed \cup {c} ELSE crossed
        /\ reader[c] \in {"fresh", "renew"}
        /\ reader'[c] = IF reader[c] = "fresh" THEN "tell" ELSE "offer"
    BY <1>1
       DEF Write, LinkTypes, ticker_vars, link_vars, replace, meets, goto
  <1>4. LinkTypes'
    <2>1. reader' \in [Conn -> Readers]
      BY <1>1 DEF Write, LinkTypes, goto, Readers
    <2>2. template' \in [Conn -> Template]
      BY <1>1, <1>3 DEF LinkTypes
    <2>3. crossed' \subseteq Conn
      BY <1>1, <1>3 DEF LinkTypes
    <2> QED
      BY <1>1, <2>1, <2>2, <2>3 DEF Write, LinkTypes, ticker_vars, link_vars
  <1>5. \A d \in Conn \ {c} : Same(d)
    BY <1>1, <1>3 DEF Write, LinkTypes, Same, ticker_vars, link_vars, goto
  <1>6. ReaderOK(c)'
    BY <1>1, <1>3 DEF ConnOK, ReaderOK, share, torn
  <1>7. \A j \in Template : HasJob(c, j)' => HasJob(c, j)
    BY <1>3 DEF HasJob, share
  <1>8. NotAhead(c)'
    BY <1>1, <1>2, <1>3, <1>7 DEF ConnOK, NotAhead
  <1>9. c \notin crossed' => InStep(c)'
    <2> SUFFICES ASSUME c \notin crossed' PROVE InStep(c)'
      OBVIOUS
    <2>1. InStep(c) /\ ReaderOK(c) /\ ticker[c] # "built"
      BY <1>1, <1>3 DEF ConnOK
    <2>2. \A j \in Template : HasJob(c, j) => ~ Live(j)
      <3>1. CASE Greeting(c)
        <4>1. \A j : <<j>> # << >>
          OBVIOUS
        <4> QED
          BY <2>1, <3>1, <4>1, SubscribeFacts
             DEF InStep, Greeting, HasJob, share
      <3>2. CASE ~ Greeting(c)
        BY <1>3, <2>1, <3>2 DEF InStep
      <3> QED
        BY <3>1, <3>2
    <2>3. \A j : Live(j)' => Live(j)
      BY <1>2 DEF Live
    <2>4. \A j \in Template : ~ (HasJob(c, j)' /\ Live(j)')
      BY <1>7, <2>2, <2>3
    <2> QED
      BY <1>3, <2>1, <2>4 DEF InStep, Greeting
  <1> QED
    BY <1>2, <1>4, <1>5, <1>6, <1>8, <1>9 DEF Kept, ConnOK

LEMMA SendKeeps ==
  ASSUME PoolInv, NEW c \in Conn, Send(c)
  PROVE  Kept(c)
PROOF
  <1>1. ChainOK /\ LinkTypes /\ ConnOK(c)
    BY DEF PoolInv
  <1>2. ChainOK' /\ tip' = tip /\ tip =< tip' /\ tip \in Nat
    BY <1>1, ChainStays DEF Send
  <1>3. /\ outbox' = [outbox EXCEPT ![c] = <<tmpl[c]>>]
        /\ work'[c] = work[c]
        /\ template'[c] = template[c]
        /\ next_job'[c] = next_job[c] /\ ticker'[c] = ticker[c]
        /\ subscribed' = subscribed /\ crossed' = crossed
        /\ reader[c] \in {"tell", "offer"}
    BY DEF Send, ticker_vars, sent
  <1>a. inbox[c] \in Inboxes /\ inbox[c] # << >> /\ Tail(inbox[c]) = << >>
    <2>1. inbox[c] \in Inboxes /\ inbox[c] # << >>
      BY <1>1, <1>3 DEF LinkTypes, ConnOK, ReaderOK
    <2> QED
      BY <2>1, InboxFacts
  <1>b. \/ /\ reader[c] = "tell" /\ inbox' = inbox /\ tmpl' = tmpl
           /\ reader' = [reader EXCEPT ![c] = "check"]
        \/ /\ inbox' = [inbox EXCEPT ![c] = << >>]
           /\ tmpl' = [tmpl EXCEPT ![c] = NoTemplate]
           /\ reader' = [reader EXCEPT ![c] = "idle"]
    BY <1>a DEF Send, done, goto, drop
  <1>d. tmpl[c] \in Template /\ <<tmpl[c]>> \in Slots
    BY <1>1 DEF LinkTypes, Slots
  <1>4. LinkTypes'
    <2>1. reader' \in [Conn -> Readers]
      BY <1>1, <1>b DEF LinkTypes, Readers
    <2>2. inbox' \in [Conn -> Inboxes] /\ tmpl' \in [Conn -> Template]
      BY <1>1, <1>b, SubscribeFacts, NoTemplateOK DEF LinkTypes
    <2>3. outbox' \in [Conn -> Slots]
      BY <1>1, <1>3, <1>d DEF LinkTypes
    <2> QED
      BY <1>1, <2>1, <2>2, <2>3 DEF Send, LinkTypes, ticker_vars
  <1>5. \A d \in Conn \ {c} : Same(d)
    BY <1>1, <1>b, <1>3 DEF Send, LinkTypes, Same, ticker_vars
  <1>c. /\ outbox'[c] = <<tmpl[c]>>
        /\ \/ /\ inbox'[c] = inbox[c] /\ tmpl'[c] = tmpl[c]
              /\ reader[c] = "tell" /\ reader'[c] = "check"
           \/ /\ inbox'[c] = << >> /\ tmpl'[c] = NoTemplate
              /\ reader'[c] = "idle"
    BY <1>1, <1>b, <1>3 DEF LinkTypes
  <1>6. ReaderOK(c)'
    BY <1>1, <1>3, <1>c, SubscribeFacts
       DEF ConnOK, ReaderOK, share, torn
  <1>7. \A j \in Template : HasJob(c, j)' => HasJob(c, j) \/ j = tmpl[c]
    <2>1. \A j : <<j>> = <<tmpl[c]>> => j = tmpl[c]
      OBVIOUS
    <2> QED
      BY <1>3, <1>c, <2>1 DEF HasJob, share
  <1>8. NotAhead(c)'
    BY <1>1, <1>2, <1>3, <1>7, <1>c, NoTemplateOK DEF ConnOK, NotAhead
  <1>9. c \notin crossed' => InStep(c)'
    BY <1>1, <1>2, <1>3, <1>7, <1>c DEF ConnOK, InStep, Greeting, Live
  <1> QED
    BY <1>2, <1>4, <1>5, <1>6, <1>8, <1>9 DEF Kept, ConnOK

LEMMA RenewKeeps ==
  ASSUME PoolInv, NEW c \in Conn, Renew(c)
  PROVE  Kept(c)
PROOF
  <1>1. ChainOK /\ LinkTypes /\ ConnOK(c)
    BY DEF PoolInv
  <1>2. ChainOK' /\ tip' = tip /\ tip =< tip' /\ tip \in Nat
    BY <1>1, ChainStays DEF Renew
  <1>a. /\ tmpl' \in [Conn -> Template] /\ tmpl'[c].prev =< tip'
        /\ \A d \in Conn \ {c} : tmpl'[d] = tmpl[d]
        /\ reader'[c] = "renew" /\ reader[c] \in {"greet", "won"}
        /\ reader' = [reader EXCEPT ![c] = "renew"]
    BY <1>1, <1>2, BuiltFacts DEF Renew, LinkTypes, goto
  <1>3. /\ inbox'[c] = inbox[c] /\ outbox'[c] = outbox[c]
        /\ work'[c] = work[c]
        /\ template'[c] = template[c]
        /\ next_job'[c] = next_job[c] /\ ticker'[c] = ticker[c]
        /\ subscribed' = subscribed /\ crossed' = crossed
    BY DEF Renew, ticker_vars, link_vars
  <1>4. LinkTypes'
    <2>1. reader' \in [Conn -> Readers]
      BY <1>1, <1>a DEF LinkTypes, Readers
    <2> QED
      BY <1>1, <1>a, <2>1 DEF Renew, LinkTypes, ticker_vars, link_vars
  <1>5. \A d \in Conn \ {c} : Same(d)
    BY <1>1, <1>a DEF Renew, LinkTypes, Same, ticker_vars, link_vars
  <1>6. ReaderOK(c)'
    BY <1>1, <1>3, <1>a DEF ConnOK, ReaderOK, share, torn
  <1>7. \A j \in Template : HasJob(c, j)' => HasJob(c, j)
    BY <1>3 DEF HasJob, share
  <1>8. NotAhead(c)'
    BY <1>1, <1>2, <1>3, <1>7, <1>a DEF ConnOK, NotAhead
  <1>9. c \notin crossed' => InStep(c)'
    BY <1>1, <1>2, <1>3, <1>7, <1>a
       DEF ConnOK, ReaderOK, InStep, Greeting, Live
  <1> QED
    BY <1>2, <1>4, <1>5, <1>6, <1>8, <1>9 DEF Kept, ConnOK

LEMMA WinKeeps ==
  ASSUME PoolInv, NEW c \in Conn, Win(c)
  PROVE  Kept(c)
PROOF
  <1>1. ChainOK /\ LinkTypes /\ ConnOK(c)
    BY DEF PoolInv
  <1>3. /\ inbox'[c] = inbox[c] /\ outbox'[c] = outbox[c]
        /\ work'[c] = work[c] /\ tmpl'[c] = tmpl[c]
        /\ template'[c] = template[c]
        /\ next_job'[c] = next_job[c] /\ ticker'[c] = ticker[c]
        /\ subscribed' = subscribed /\ crossed' \in {crossed, crossed \cup {c}}
        /\ reader[c] = "win" /\ reader'[c] = "won"
    BY <1>1 DEF Win, ticker_vars, link_vars, goto, LinkTypes
  <1>4. LinkTypes'
    <2>1. reader' \in [Conn -> Readers]
      BY <1>1 DEF Win, goto, LinkTypes, Readers
    <2>2. crossed' \subseteq Conn
      BY <1>1, <1>3 DEF LinkTypes
    <2> QED
      BY <1>1, <2>1, <2>2 DEF Win, LinkTypes, ticker_vars, link_vars
  <1>5. \A d \in Conn \ {c} : Same(d)
    BY <1>1, <1>3 DEF Win, LinkTypes, Same, ticker_vars, link_vars, goto
  <1>t. tip \in Nat /\ height \in Nat /\ height =< tip /\ tip =< MAX_TIPS
        /\ MAX_TIPS \in Nat
    BY <1>1, PoolAssumption DEF ChainOK
  <1>j. \A j \in Template : j.prev \in Nat /\ j.height \in Nat
    BY DEF Template
  <1>k. tmpl[c] \in Template /\ template[c] \in Template
    BY <1>1 DEF LinkTypes
  <1>a. tmpl[c].prev < MAX_TIPS \/ torn(tmpl[c])
    <2>1. inbox[c] \in Inboxes /\ inbox[c] # << >> /\ inbox[c] # <<Subscribe>>
      BY <1>1, <1>3 DEF LinkTypes, ConnOK, ReaderOK
    <2>2. share(c) \in Shares
      BY <2>1, InboxFacts DEF share
    <2> QED
      BY <1>1, <1>3, <2>1, <2>2 DEF ConnOK, ReaderOK, check_share
  <1>w. \/ /\ tip' = tip + 1 /\ writer' = c /\ tip < MAX_TIPS
           /\ writer = "free"
        \/ /\ tip' = tip /\ writer' = writer
           /\ c \in crossed' \/ tmpl[c].prev # tip
    BY <1>1, <1>t, <1>j, <1>k, <1>a DEF Win, ChainOK, torn
  <1>2. ChainOK' /\ tip =< tip' /\ tip' \in Nat
    <2>1. height' = height /\ c # "free"
      BY PoolAssumption DEF Win
    <2> QED
      BY <1>1, <1>t, <1>w, <2>1 DEF ChainOK
  <1>6. ReaderOK(c)'
    BY <1>1, <1>3 DEF ConnOK, ReaderOK, share, torn
  <1>7. \A j \in Template : HasJob(c, j)' => HasJob(c, j)
    BY <1>3 DEF HasJob, share
  <1>n. next_job[c] \in Template
    BY <1>1 DEF LinkTypes
  <1>8. NotAhead(c)'
    BY <1>1, <1>2, <1>3, <1>7, <1>t, <1>j, <1>k, <1>n DEF ConnOK, NotAhead
  <1>9. c \notin crossed' => InStep(c)'
    <2> SUFFICES ASSUME c \notin crossed' PROVE InStep(c)'
      OBVIOUS
    <2>1. InStep(c) /\ NotAhead(c) /\ tmpl[c] = template[c]
      BY <1>1, <1>3 DEF ConnOK, InStep
    <2>2. \A j \in Template : j.prev =< tip /\ Live(j)' => Live(j)
      BY <1>t, <1>w, <1>j DEF Live
    <2>3. \A j \in Template : HasJob(c, j)' /\ Live(j)' => j = template'[c]
      BY <1>7, <1>3, <2>1, <2>2 DEF InStep, NotAhead
    <2>4. template[c].prev # tip'
      BY <1>t, <1>w, <1>j, <1>k, <2>1 DEF NotAhead
    <2>5. ~ Live(template[c])'
      BY <1>3, <2>4 DEF Live
    <2> QED
      BY <1>3, <2>3, <2>5 DEF InStep, Greeting
  <1> QED
    BY <1>2, <1>4, <1>5, <1>6, <1>8, <1>9 DEF Kept, ConnOK

LEMMA EndTickerKeeps ==
  ASSUME PoolInv, NEW c \in Conn, EndTicker(c)
  PROVE  Kept(c)
PROOF
  <1>1. ChainOK /\ LinkTypes /\ ConnOK(c)
    BY DEF PoolInv
  <1>2. ChainOK' /\ tip' = tip /\ tip =< tip' /\ tip \in Nat
    BY <1>1, ChainStays DEF EndTicker
  <1>3. /\ inbox'[c] = inbox[c] /\ outbox'[c] = outbox[c]
        /\ work'[c] = work[c] /\ tmpl'[c] = tmpl[c]
        /\ template'[c] = template[c]
        /\ next_job'[c] = NoTemplate /\ ticker'[c] = "off"
        /\ subscribed' = subscribed /\ crossed' = crossed
        /\ reader'[c] = reader[c]
    BY <1>1 DEF EndTicker, reader_vars, after, LinkTypes
  <1>4. LinkTypes'
    <2>1. link' \in [Conn -> {"up", "cut"}]
      BY <1>1 DEF EndTicker, LinkTypes
    <2>2. ticker' \in [Conn -> Tickers]
      BY <1>1 DEF EndTicker, LinkTypes, after, Tickers
    <2>3. next_job' \in [Conn -> Template]
      BY <1>1, NoTemplateOK DEF EndTicker, LinkTypes
    <2> QED
      BY <1>1, <2>1, <2>2, <2>3 DEF EndTicker, LinkTypes, reader_vars
  <1>5. \A d \in Conn \ {c} : Same(d)
    BY <1>1 DEF EndTicker, LinkTypes, Same, reader_vars, after
  <1>6. ReaderOK(c)'
    BY <1>1, <1>3 DEF ConnOK, ReaderOK, share, check_share, torn
  <1>7. \A j \in Template : HasJob(c, j)' => HasJob(c, j)
    BY <1>3 DEF HasJob, share
  <1>8. NotAhead(c)'
    BY <1>1, <1>2, <1>3, <1>7, NoTemplateOK DEF ConnOK, NotAhead
  <1>9. c \notin crossed' => InStep(c)'
    BY <1>1, <1>2, <1>3, <1>7 DEF ConnOK, InStep, Greeting, Live
  <1> QED
    BY <1>2, <1>4, <1>5, <1>6, <1>8, <1>9 DEF Kept, ConnOK

LEMMA WakeKeeps ==
  ASSUME PoolInv, NEW c \in Conn, Wake(c)
  PROVE  Kept(c)
PROOF
  <1>1. ChainOK /\ LinkTypes /\ ConnOK(c)
    BY DEF PoolInv
  <1>2. ChainOK' /\ tip' = tip /\ tip =< tip' /\ tip \in Nat
    BY <1>1, ChainStays DEF Wake
  <1>a. /\ next_job' \in [Conn -> Template] /\ next_job'[c].prev =< tip'
        /\ \A d \in Conn \ {c} : next_job'[d] = next_job[d]
        /\ \/ ticker'[c] = "send" /\ next_job'[c] = template[c]
           \/ ticker'[c] = "built" /\ template[c].prev # tip
        /\ ticker' = [ticker EXCEPT ![c] = ticker'[c]]
    <2>1. CASE /\ template[c].prev = tip
               /\ next_job' = [next_job EXCEPT ![c] = template[c]]
               /\ after(c, "send")
      BY <1>1, <1>2, <2>1 DEF LinkTypes, after
    <2>2. CASE /\ template[c].prev # tip
               /\ \E t \in Built : next_job' = [next_job EXCEPT ![c] = t]
               /\ after(c, "built")
      BY <1>1, <1>2, <2>2, BuiltFacts DEF LinkTypes, after
    <2> QED
      BY <2>1, <2>2 DEF Wake
  <1>3. /\ inbox'[c] = inbox[c] /\ outbox'[c] = outbox[c]
        /\ work'[c] = work[c] /\ tmpl'[c] = tmpl[c]
        /\ template'[c] = template[c]
        /\ subscribed' = subscribed /\ crossed' \in {crossed, crossed \cup {c}}
        /\ reader'[c] = reader[c]
        /\ ticker[c] = "sleep" /\ c \in subscribed
    BY DEF Wake, reader_vars, link_vars, meets
  <1>b. ticker'[c] = "send" /\ c \notin crossed'
          => reader[c] \notin {"greet", "renew"}
    BY <1>1, <1>a DEF Wake, after, meets, LinkTypes
  <1>4. LinkTypes'
    <2>1. ticker' \in [Conn -> Tickers]
      BY <1>1, <1>a DEF LinkTypes, Tickers
    <2>2. crossed' \subseteq Conn
      BY <1>1, <1>3 DEF LinkTypes
    <2> QED
      BY <1>1, <1>a, <2>1, <2>2 DEF Wake, LinkTypes, reader_vars, link_vars
  <1>5. \A d \in Conn \ {c} : Same(d)
    BY <1>1, <1>3, <1>a DEF Wake, LinkTypes, Same, reader_vars, link_vars
  <1>6. ReaderOK(c)'
    BY <1>1, <1>3, <1>a DEF ConnOK, ReaderOK, share, check_share, torn
  <1>7. \A j \in Template : HasJob(c, j)' => HasJob(c, j) \/ j = template[c]
    BY <1>3, <1>a DEF HasJob, share
  <1>8. NotAhead(c)'
    BY <1>1, <1>2, <1>3, <1>7, <1>a DEF ConnOK, NotAhead
  <1>9. c \notin crossed' => InStep(c)'
    BY <1>1, <1>2, <1>3, <1>7, <1>a, <1>b
       DEF ConnOK, InStep, Greeting, Live
  <1> QED
    BY <1>2, <1>4, <1>5, <1>6, <1>8, <1>9 DEF Kept, ConnOK

LEMMA RebuildKeeps ==
  ASSUME PoolInv, NEW c \in Conn, Rebuild(c)
  PROVE  Kept(c)
PROOF
  <1>1. ChainOK /\ LinkTypes /\ ConnOK(c)
    BY DEF PoolInv
  <1>2. ChainOK' /\ tip' = tip /\ tip =< tip' /\ tip \in Nat
    BY <1>1, ChainStays DEF Rebuild
  <1>3. /\ inbox'[c] = inbox[c] /\ outbox'[c] = outbox[c]
        /\ work'[c] = work[c] /\ tmpl'[c] = tmpl[c]
        /\ template'[c] = next_job[c] /\ next_job'[c] = next_job[c]
        /\ subscribed' = subscribed
        /\ crossed' = IF reader[c] # "idle" THEN crossed \cup {c} ELSE crossed
        /\ reader'[c] = reader[c]
        /\ ticker[c] = "built" /\ ticker'[c] = "send"
    BY <1>1 DEF Rebuild, reader_vars, link_vars, replace, meets, after,
       LinkTypes
  <1>4. LinkTypes'
    <2>1. ticker' \in [Conn -> Tickers]
      BY <1>1 DEF Rebuild, after, LinkTypes, Tickers
    <2>2. template' \in [Conn -> Template]
      BY <1>1 DEF Rebuild, replace, LinkTypes
    <2>3. crossed' \subseteq Conn
      BY <1>1, <1>3 DEF LinkTypes
    <2> QED
      BY <1>1, <2>1, <2>2, <2>3 DEF Rebuild, LinkTypes, reader_vars, link_vars
  <1>5. \A d \in Conn \ {c} : Same(d)
    BY <1>1, <1>3
       DEF Rebuild, LinkTypes, Same, reader_vars, link_vars, replace, after
  <1>6. ReaderOK(c)'
    BY <1>1, <1>3 DEF ConnOK, ReaderOK, share, check_share, torn
  <1>7. \A j \in Template : HasJob(c, j)' => HasJob(c, j) \/ j = next_job[c]
    BY <1>3 DEF HasJob, share
  <1>8. NotAhead(c)'
    BY <1>1, <1>2, <1>3, <1>7 DEF ConnOK, NotAhead
  <1>9. c \notin crossed' => InStep(c)'
    <2> SUFFICES ASSUME c \notin crossed' PROVE InStep(c)'
      OBVIOUS
    <2>1. InStep(c) /\ reader[c] = "idle" /\ ~ Live(template[c])
      BY <1>1, <1>3 DEF ConnOK, InStep
    <2>2. \A j : Live(j)' => Live(j)
      BY <1>2 DEF Live
    <2>3. \A j \in Template : HasJob(c, j)' /\ Live(j)' => j = template'[c]
      BY <1>7, <1>3, <2>1, <2>2 DEF InStep
    <2> QED
      BY <1>3, <2>1, <2>3 DEF InStep, Greeting
  <1> QED
    BY <1>2, <1>4, <1>5, <1>6, <1>8, <1>9 DEF Kept, ConnOK

LEMMA SendJobKeeps ==
  ASSUME PoolInv, NEW c \in Conn, SendJob(c)
  PROVE  Kept(c)
PROOF
  <1>1. ChainOK /\ LinkTypes /\ ConnOK(c)
    BY DEF PoolInv
  <1>2. ChainOK' /\ tip' = tip /\ tip =< tip' /\ tip \in Nat
    BY <1>1, ChainStays DEF SendJob
  <1>3. /\ inbox'[c] = inbox[c] /\ outbox'[c] = <<next_job[c]>>
        /\ work'[c] = work[c] /\ tmpl'[c] = tmpl[c]
        /\ template'[c] = template[c] /\ next_job'[c] = NoTemplate
        /\ subscribed' = subscribed /\ crossed' = crossed
        /\ reader'[c] = reader[c]
        /\ ticker[c] = "send" /\ ticker'[c] = "sleep"
    BY <1>1 DEF SendJob, reader_vars, sent, after, LinkTypes
  <1>d. <<next_job[c]>> \in Slots
    BY <1>1 DEF LinkTypes, Slots
  <1>4. LinkTypes'
    <2>1. ticker' \in [Conn -> Tickers]
      BY <1>1 DEF SendJob, after, LinkTypes, Tickers
    <2>2. outbox' \in [Conn -> Slots]
      BY <1>1, <1>d DEF SendJob, sent, LinkTypes
    <2>3. next_job' \in [Conn -> Template]
      BY <1>1, NoTemplateOK DEF SendJob, LinkTypes
    <2> QED
      BY <1>1, <2>1, <2>2, <2>3 DEF SendJob, LinkTypes, reader_vars
  <1>5. \A d \in Conn \ {c} : Same(d)
    BY <1>1 DEF SendJob, LinkTypes, Same, reader_vars, sent, after
  <1>6. ReaderOK(c)'
    BY <1>1, <1>3 DEF ConnOK, ReaderOK, share, check_share, torn
  <1>7. \A j \in Template : HasJob(c, j)' => HasJob(c, j)
    <2>1. \A j : <<j>> = <<next_job[c]>> => j = next_job[c]
      OBVIOUS
    <2> QED
      BY <1>3, <2>1 DEF HasJob, share
  <1>8. NotAhead(c)'
    BY <1>1, <1>2, <1>3, <1>7, NoTemplateOK DEF ConnOK, NotAhead
  <1>9. c \notin crossed' => InStep(c)'
    BY <1>1, <1>2, <1>3, <1>7 DEF ConnOK, InStep, Greeting, Live
  <1> QED
    BY <1>2, <1>4, <1>5, <1>6, <1>8, <1>9 DEF Kept, ConnOK

-----------------------------------------------------------------------------
(* The steps together *)

LEMMA PoolInvInit ==
  ASSUME PoolInit
  PROVE  PoolInv
PROOF
  <1>1. ChainOK
    BY PoolAssumption DEF PoolInit, ChainOK
  <1>2. LinkTypes
    BY PoolAssumption, NoTemplateOK, SubscribeFacts
       DEF PoolInit, LinkTypes, Readers, Tickers
  <1> SUFFICES ASSUME NEW c \in Conn PROVE ConnOK(c)
    BY <1>1, <1>2 DEF PoolInv
  <1>3. /\ inbox[c] = << >> /\ outbox[c] = << >> /\ work[c] = << >>
        /\ template[c] = NoTemplate /\ tmpl[c] = NoTemplate
        /\ next_job[c] = NoTemplate /\ reader[c] = "off" /\ ticker[c] = "off"
        /\ tip = 0 /\ subscribed = {}
    BY DEF PoolInit
  <1>4. \A j : ~ HasJob(c, j)
    BY <1>3 DEF HasJob
  <1>5. ReaderOK(c)
    BY <1>3, SubscribeFacts DEF ReaderOK
  <1>6. NotAhead(c)
    BY <1>3, <1>4, NoTemplateOK DEF NotAhead
  <1>7. InStep(c)
    BY <1>3, <1>4 DEF InStep, Greeting
  <1> QED
    BY <1>5, <1>6, <1>7 DEF ConnOK

\* What the chain, the user and the other connections do.
LEMMA ElsewhereKeeps ==
  ASSUME PoolInv,
         \/ PeerBlock \/ Publish \/ StopServer \/ UNCHANGED pool_vars
         \/ \E o \in Others : OtherShare(o)
  PROVE  PoolInv'
PROOF
  <1>1. ChainOK /\ LinkTypes
    BY DEF PoolInv
  <1>2. /\ UNCHANGED <<link_vars, subscribed, template, reader_vars,
                       ticker_vars, work, crossed>>
        /\ serving' \in BOOLEAN
    BY <1>1
       DEF PeerBlock, Publish, StopServer, OtherShare, pool_vars, LinkTypes
  <1>3. \A c \in Conn : Same(c)
    BY <1>2 DEF link_vars, reader_vars, ticker_vars, Same
  <1>4. LinkTypes'
    BY <1>1, <1>2 DEF link_vars, reader_vars, ticker_vars, LinkTypes
  <1>5. ChainOK' /\ tip =< tip'
    <2>1. CASE PeerBlock
      BY <1>1, <2>1, PoolAssumption DEF PeerBlock, ChainOK
    <2>2. CASE Publish
      BY <1>1, <2>2, PoolAssumption DEF Publish, ChainOK
    <2>3. CASE UNCHANGED chain_vars
      BY <1>1, <2>3, ChainStays
    <2> QED
      BY <2>1, <2>2, <2>3 DEF StopServer, OtherShare, pool_vars
  <1> QED
    BY <1>1, <1>3, <1>4, <1>5, SameKeeps DEF PoolInv

LEMMA PoolInvStep ==
  ASSUME PoolInv, [PoolNext]_pool_vars
  PROVE  PoolInv'
PROOF
  <1>1. ASSUME NEW c \in Conn, Kept(c)
        PROVE  PoolInv'
    <2>1. \A d \in Conn \ {c} : ConnOK(d)'
      BY <1>1, SameKeeps DEF Kept, PoolInv
    <2> QED
      BY <1>1, <2>1 DEF Kept, PoolInv
  <1>2. ASSUME NEW c \in Conn, ReaderStep(c)
        PROVE  Kept(c)
    BY <1>2, EndReaderKeeps, SubscribesKeeps, TakeShareKeeps, WriteKeeps,
       SendKeeps, CheckKeeps, RecordKeeps, WinKeeps, RenewKeeps DEF ReaderStep
  <1>3. ASSUME NEW c \in Conn, TickerStep(c)
        PROVE  Kept(c)
    BY <1>3, EndTickerKeeps, WakeKeeps, RebuildKeeps, SendJobKeeps
       DEF TickerStep
  <1>4. ASSUME NEW c \in Conn,
               \/ Connect(c) \/ TakeJob(c) \/ Lose(c)
               \/ \E block \in BOOLEAN : FindShare(c, block)
        PROVE  Kept(c)
    BY <1>4, ConnectKeeps, TakeJobKeeps, LoseKeeps, FindShareKeeps
  <1>5. CASE \/ PeerBlock \/ Publish \/ StopServer \/ UNCHANGED pool_vars
             \/ \E o \in Others : OtherShare(o)
    BY <1>5, ElsewhereKeeps
  <1> QED
    BY <1>1, <1>2, <1>3, <1>4, <1>5 DEF PoolNext

LEMMA PoolInvariance == PoolSpec => []PoolInv
PROOF
  <1>1. PoolInit => PoolInv
    BY PoolInvInit
  <1>2. PoolInv /\ [PoolNext]_pool_vars => PoolInv'
    BY PoolInvStep
  <1> QED
    BY <1>1, <1>2, PTL DEF PoolSpec

\* The variables of the pool hold what their comments say, whatever the
\* number of connections and however often the tip moves.
THEOREM PoolTypeCorrect == PoolSpec => []PoolTypeOK
PROOF
  <1>1. PoolInv /\ WindowInv => PoolTypeOK
    BY PoolInvTypes
  <1> QED
    BY <1>1, PoolInvariance, WindowInvariance, PTL

\* A share mined on the present tip is refused only on a connection whose two
\* threads crossed, or that had a win refused on the tip it was made for.
THEOREM RefusalsStayCrossings == PoolSpec => []RefusalsAreCrossings
PROOF
  <1>1. PoolInv => RefusalsAreCrossings
    BY PoolInvRefusals
  <1> QED
    BY <1>1, PoolInvariance, PTL
=============================================================================
