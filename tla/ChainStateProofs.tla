-------------------------- MODULE ChainStateProofs --------------------------
(***************************************************************************)
(* What holds of ChainState for every block tree, every order of arrival,  *)
(* every ledger and every value of the consensus constants.  First type    *)
(* correctness, the shape of the index, the supply cap, and that the tip   *)
(* moves only to more work.  Then that the node follows the heaviest valid *)
(* branch of what it stores: its ledger is the one a replay of the active  *)
(* chain gives, its marks are on valid blocks only, no valid stored block  *)
(* is heavier than its tip, ChainState implements HeaviestChain, and the   *)
(* supply is what is unspent and what is burnt.                            *)
(***************************************************************************)
EXTENDS ChainForkChoice, LedgerProofs

IndexMap(idx) == IsMap(idx, Blocks, Idx)

-----------------------------------------------------------------------------
(* Branches of a tree *)

\* Induction on a tree: what holds of the genesis block, and of a block as soon as
\* it holds of its parent, holds of all.
LEMMA TreeInduction ==
  ASSUME NEW idx, IndexMap(idx), IsTree(idx), NEW S, Genesis \in S,
         \A t \in DOMAIN idx \ {Genesis} : idx[t].prev \in S => t \in S
  PROVE  DOMAIN idx \subseteq S
PROOF
  <1> DEFINE I == {h \in Nat : \A t \in DOMAIN idx : idx[t].height = h => t \in S}
  <1>1. \A t \in DOMAIN idx :
           /\ idx[t].height \in Nat
           /\ t # Genesis => /\ idx[t].prev \in DOMAIN idx
                             /\ idx[t].height = idx[idx[t].prev].height + 1
    BY DEF IndexMap, IsMap, Idx, IsTree
  <1>2. 0 \in I
    <2> SUFFICES ASSUME NEW t \in DOMAIN idx, idx[t].height = 0 PROVE t \in S
      OBVIOUS
    <2>1. ASSUME t # Genesis PROVE FALSE
      <3>1. idx[t].prev \in DOMAIN idx /\ idx[t].height = idx[idx[t].prev].height + 1
        BY <1>1, <2>1
      <3>2. idx[idx[t].prev].height \in Nat
        BY <1>1, <3>1
      <3> QED
        BY <3>1, <3>2
    <2> QED
      BY <2>1
  <1>3. ASSUME NEW h \in Nat, h \in I PROVE h + 1 \in I
    <2> SUFFICES ASSUME NEW t \in DOMAIN idx, idx[t].height = h + 1,
                        t # Genesis
                 PROVE  t \in S
      OBVIOUS
    <2>1. idx[t].prev \in DOMAIN idx /\ idx[t].height = idx[idx[t].prev].height + 1
      BY <1>1
    <2>2. idx[idx[t].prev].height = h
      BY <1>1, <2>1
    <2>3. idx[t].prev \in S
      BY <1>3, <2>1, <2>2
    <2> QED
      BY <2>3
  <1> HIDE DEF I
  <1>4. \A h \in Nat : h \in I
    BY <1>2, <1>3, SetInduction
  <1> QED
    BY <1>1, <1>4 DEF I

\* The recursion that walk stands for has a solution in a tree: each block of the
\* walk is the parent of the one before it.
LEMMA WalkDef ==
  ASSUME NEW idx, IndexMap(idx), IsTree(idx), NEW from \in DOMAIN idx
  PROVE  walk(idx, from) = [n \in 0..idx[from].height |->
                              IF n = 0 THEN from
                              ELSE idx[walk(idx, from)[n - 1]].prev]
PROOF
  <1> DEFINE h == idx[from].height
             D == DOMAIN idx
             G == [p \in (1..h) \X D |-> idx[p[2]].prev]
             T == [i \in 0..h |-> {b \in D : idx[b].height = h - i}]
             back == CHOOSE f : f = [n \in 0..h |-> IF n = 0 THEN from
                                                   ELSE idx[f[n - 1]].prev]
  <1>1. h \in Nat /\ \A b \in D : idx[b].height \in Nat
    BY DEF IndexMap, IsMap, Idx
  <1>2. ASSUME NEW b \in D, idx[b].height # 0
        PROVE  idx[b].prev \in D /\ idx[idx[b].prev].height = idx[b].height - 1
    BY <1>1, <1>2 DEF IsTree
  <1>3. \A i \in 1..h : \A x \in T[i - 1] :
           G[<<i, x>>] = idx[x].prev /\ G[<<i, x>>] \in T[i]
    <2> SUFFICES ASSUME NEW i \in 1..h, NEW x \in T[i - 1]
                 PROVE  G[<<i, x>>] = idx[x].prev /\ G[<<i, x>>] \in T[i]
      OBVIOUS
    <2>1. i - 1 \in 0..h /\ i \in 0..h
      BY <1>1
    <2>2. x \in D /\ idx[x].height = h - (i - 1)
      BY <2>1
    <2>3. idx[x].prev \in D /\ idx[idx[x].prev].height = h - i
      BY <1>1, <1>2, <2>2
    <2> QED
      BY <2>1, <2>2, <2>3
  <1>4. IsRecursion(h, D, T, from, G)
    <2>1. T \in [0..h -> SUBSET D]
      OBVIOUS
    <2>2. from \in T[0]
      BY <1>1
    <2> HIDE DEF G, T, h
    <2> QED
      BY <1>1, <1>3, <2>1, <2>2 DEF IsRecursion
  <1>5. PICK g : Solves(g, h, D, T, from, G)
    BY <1>4, RecursionExists
  <1>6. g = [n \in 0..h |-> IF n = 0 THEN from ELSE idx[g[n - 1]].prev]
    <2>1. \A n \in 1..h : g[n] = idx[g[n - 1]].prev
      <3> TAKE n \in 1..h
      <3>1. n - 1 \in 0..h
        BY <1>1
      <3> HIDE DEF G, T
      <3> QED
        BY <1>3, <1>5, <3>1 DEF Solves
    <2>2. \A n \in 0..h : n = 0 \/ n \in 1..h
      BY <1>1
    <2> HIDE DEF G, T, h
    <2> QED
      BY <1>5, <2>1, <2>2 DEF Solves
  <1>7. back = [n \in 0..h |-> IF n = 0 THEN from ELSE idx[back[n - 1]].prev]
    BY <1>6
  <1>8. walk(idx, from) = back
    BY DEF walk
  <1> HIDE DEF back
  <1> QED
    BY <1>7, <1>8

\* The block n below from is stored, n lower than from.
LEMMA WalkType ==
  ASSUME NEW idx, IndexMap(idx), IsTree(idx), NEW from \in DOMAIN idx
  PROVE  \A n \in 0..idx[from].height :
            /\ walk(idx, from)[n] \in DOMAIN idx
            /\ idx[walk(idx, from)[n]].height = idx[from].height - n
PROOF
  <1> DEFINE h == idx[from].height
             D == DOMAIN idx
             back == walk(idx, from)
             I == {k \in Nat : k =< h => /\ back[k] \in D
                                         /\ idx[back[k]].height = h - k}
  <1>1. h \in Nat /\ \A b \in D : idx[b].height \in Nat
    BY DEF IndexMap, IsMap, Idx
  <1>2. ASSUME NEW b \in D, idx[b].height # 0
        PROVE  idx[b].prev \in D /\ idx[idx[b].prev].height = idx[b].height - 1
    BY <1>1, <1>2 DEF IsTree
  <1>3. back = [n \in 0..h |-> IF n = 0 THEN from ELSE idx[back[n - 1]].prev]
    BY WalkDef
  <1> HIDE DEF back
  <1>4. 0 \in I
    BY <1>1, <1>3
  <1>5. ASSUME NEW k \in Nat, k \in I PROVE k + 1 \in I
    <2> SUFFICES ASSUME k + 1 =< h
                 PROVE  back[k + 1] \in D /\ idx[back[k + 1]].height = h - (k + 1)
      OBVIOUS
    <2>1. k + 1 \in 0..h /\ k + 1 # 0 /\ (k + 1) - 1 = k
      BY <1>1
    <2>2. back[k + 1] = idx[back[k]].prev
      BY <1>3, <2>1
    <2>3. back[k] \in D /\ idx[back[k]].height = h - k
      BY <1>1, <1>5
    <2> QED
      BY <1>1, <1>2, <2>2, <2>3
  <1> HIDE DEF I
  <1>6. \A k \in Nat : k \in I
    BY <1>4, <1>5, SetInduction
  <1>7. \A k \in 0..h : back[k] \in D /\ idx[back[k]].height = h - k
    BY <1>6 DEF I
  <1> QED
    BY <1>7 DEF back

LEMMA WalkNext ==
  ASSUME NEW idx, IndexMap(idx), IsTree(idx), NEW from \in DOMAIN idx
  PROVE  /\ walk(idx, from)[0] = from
         /\ \A n \in Nat : n < idx[from].height
              => walk(idx, from)[n + 1] = idx[walk(idx, from)[n]].prev
PROOF
  <1> DEFINE h == idx[from].height
             w == walk(idx, from)
  <1>1. h \in Nat
    BY DEF IndexMap, IsMap, Idx
  <1>2. w = [n \in 0..h |-> IF n = 0 THEN from ELSE idx[w[n - 1]].prev]
    BY WalkDef
  <1> HIDE DEF w, h
  <1>3. \A n \in 0..h : w[n] = IF n = 0 THEN from ELSE idx[w[n - 1]].prev
    BY <1>2
  <1>4. ASSUME NEW n \in Nat, n < h PROVE w[n + 1] = idx[w[n]].prev
    <2> DEFINE m == n + 1
    <2>1. m \in 0..h /\ m # 0 /\ m - 1 = n
      BY <1>1, <1>4
    <2> HIDE DEF m
    <2>2. w[m] = idx[w[n]].prev
      BY <1>3, <2>1
    <2> QED
      BY <2>2 DEF m
  <1> QED
    BY <1>1, <1>3, <1>4 DEF w, h

\* What lies n + 1 below a block lies n below its parent.
LEMMA WalkDown ==
  ASSUME NEW idx, IndexMap(idx), IsTree(idx),
         NEW t \in DOMAIN idx, t # Genesis
  PROVE  /\ idx[t].prev \in DOMAIN idx
         /\ idx[t].height = idx[idx[t].prev].height + 1
         /\ \A n \in 0..idx[idx[t].prev].height :
               walk(idx, t)[n + 1] = walk(idx, idx[t].prev)[n]
PROOF
  <1> DEFINE p  == idx[t].prev
             up == walk(idx, t)
             wp == walk(idx, p)
             h  == idx[p].height
             I  == {n \in Nat : n =< h => up[n + 1] = wp[n]}
  <1>1. p \in DOMAIN idx /\ idx[t].height = h + 1 /\ h \in Nat
    BY DEF IsTree, IndexMap, IsMap, Idx
  <1>2. /\ up[0] = t
        /\ \A n \in Nat : n < h + 1 => up[n + 1] = idx[up[n]].prev
    BY <1>1, WalkNext
  <1>3. /\ wp[0] = p
        /\ \A n \in Nat : n < h => wp[n + 1] = idx[wp[n]].prev
    BY <1>1, WalkNext
  <1> HIDE DEF up, wp, h
  <1>4. 0 \in I
    <2>1. up[0 + 1] = idx[up[0]].prev
      BY <1>1, <1>2
    <2> QED
      BY <1>2, <1>3, <2>1
  <1>5. ASSUME NEW n \in Nat, n \in I PROVE n + 1 \in I
    <2> SUFFICES ASSUME n + 1 =< h PROVE up[(n + 1) + 1] = wp[n + 1]
      OBVIOUS
    <2>1. up[(n + 1) + 1] = idx[up[n + 1]].prev
      <3>1. n + 1 \in Nat /\ n + 1 < h + 1
        BY <1>1
      <3> QED
        BY <1>2, <3>1
    <2>2. wp[n + 1] = idx[wp[n]].prev
      BY <1>1, <1>3
    <2>3. up[n + 1] = wp[n]
      BY <1>1, <1>5
    <2> QED
      BY <2>1, <2>2, <2>3
  <1> HIDE DEF I
  <1>6. \A n \in Nat : n \in I
    BY <1>4, <1>5, SetInduction
  <1>7. \A n \in 0..h : up[n + 1] = wp[n]
    BY <1>1, <1>6 DEF I
  <1> QED
    BY <1>1, <1>7 DEF up, wp, h

\* The branch to a block is a sequence of stored blocks, the i-th at height i - 1.
LEMMA PathType ==
  ASSUME NEW idx, IndexMap(idx), IsTree(idx), NEW t \in DOMAIN idx
  PROVE  /\ path_from_genesis(idx, t) \in [1..idx[t].height + 1 -> DOMAIN idx]
         /\ Len(path_from_genesis(idx, t)) = idx[t].height + 1
         /\ \A i \in 1..idx[t].height + 1 :
               idx[path_from_genesis(idx, t)[i]].height = i - 1
PROOF
  <1> DEFINE h == idx[t].height
  <1>1. h \in Nat
    BY DEF IndexMap, IsMap, Idx
  <1>2. \A i \in 1..h + 1 : /\ walk(idx, t)[h + 1 - i] \in DOMAIN idx
                            /\ idx[walk(idx, t)[h + 1 - i]].height = i - 1
    <2> TAKE i \in 1..h + 1
    <2>1. h + 1 - i \in 0..h /\ h - (h + 1 - i) = i - 1
      BY <1>1
    <2> QED
      BY <2>1, WalkType
  <1> QED
    BY <1>1, <1>2 DEF path_from_genesis

\* The branch to a block is the branch to its parent and the block itself.
LEMMA PathStep ==
  ASSUME NEW idx, IndexMap(idx), IsTree(idx), NEW t \in DOMAIN idx
  PROVE  /\ path_from_genesis(idx, t)[idx[t].height + 1] = t
         /\ t # Genesis
              => \A i \in 1..idx[t].height :
                    path_from_genesis(idx, t)[i]
                      = path_from_genesis(idx, idx[t].prev)[i]
PROOF
  <1> DEFINE h == idx[t].height
  <1>1. h \in Nat
    BY DEF IndexMap, IsMap, Idx
  <1>2. path_from_genesis(idx, t)[h + 1] = t
    <2>1. walk(idx, t)[0] = t
      BY <1>1, WalkDef
    <2>2. h + 1 \in 1..h + 1 /\ h + 1 - (h + 1) = 0
      BY <1>1
    <2> QED
      BY <2>1, <2>2 DEF path_from_genesis
  <1>3. ASSUME t # Genesis, NEW i \in 1..h
        PROVE  path_from_genesis(idx, t)[i]
                 = path_from_genesis(idx, idx[t].prev)[i]
    <2> DEFINE p == idx[t].prev
               q == idx[p].height
    <2>1. /\ p \in DOMAIN idx /\ h = q + 1
          /\ \A n \in 0..q : walk(idx, t)[n + 1] = walk(idx, p)[n]
      BY <1>3, WalkDown
    <2>2. q \in Nat
      BY <2>1 DEF IndexMap, IsMap, Idx
    <2>3. /\ i \in 1..h + 1 /\ i \in 1..q + 1
          /\ h + 1 - i = (q + 1 - i) + 1 /\ q + 1 - i \in 0..q
      BY <1>1, <2>1, <2>2
    <2>4. path_from_genesis(idx, t)[i] = walk(idx, t)[h + 1 - i]
      BY <2>3 DEF path_from_genesis
    <2>5. path_from_genesis(idx, p)[i] = walk(idx, p)[q + 1 - i]
      BY <2>3 DEF path_from_genesis
    <2> QED
      BY <2>1, <2>3, <2>4, <2>5
  <1> QED
    BY <1>2, <1>3

\* The blocks of the branch to a block: itself, and those of the branch to its
\* parent.
LEMMA ActiveStep ==
  ASSUME NEW idx, IndexMap(idx), IsTree(idx), NEW t \in DOMAIN idx
  PROVE  active(idx, t) = IF t = Genesis THEN {t}
                          ELSE active(idx, idx[t].prev) \cup {t}
PROOF
  <1> DEFINE h == idx[t].height
             path == path_from_genesis(idx, t)
  <1>1. h \in Nat /\ DOMAIN path = 1..h + 1 /\ path[h + 1] = t
    BY PathType, PathStep DEF IndexMap, IsMap, Idx
  <1>2. CASE t = Genesis
    <2>1. h = 0
      BY <1>2 DEF IsTree
    <2>2. \A i \in 1..h + 1 : i = h + 1
      BY <2>1
    <2> HIDE DEF path
    <2>3. Range(path) = {t}
      BY <1>1, <2>1, <2>2 DEF Range
    <2> QED
      BY <1>2, <2>3 DEF active, path
  <1>3. CASE t # Genesis
    <2> DEFINE p  == idx[t].prev
               pp == path_from_genesis(idx, p)
    <2>1. p \in DOMAIN idx /\ h = idx[p].height + 1
      BY <1>3, WalkDown
    <2>2. DOMAIN pp = 1..h
      BY <2>1, PathType
    <2>3. \A i \in 1..h : path[i] = pp[i]
      BY <1>3, PathStep
    <2>4. \A i \in 1..h + 1 : i = h + 1 \/ i \in 1..h
      BY <1>1
    <2>5. 1..h \subseteq 1..h + 1 /\ h + 1 \in 1..h + 1
      BY <1>1
    <2> HIDE DEF path, pp, h
    <2>6. Range(path) = Range(pp) \cup {t}
      BY <1>1, <2>2, <2>3, <2>4, <2>5 DEF Range
    <2> QED
      BY <1>3, <2>6 DEF active, path, pp
  <1> QED
    BY <1>2, <1>3

\* The i-th block of a branch ends a branch that is its beginning.
LEMMA PathPrefix ==
  ASSUME NEW idx, IndexMap(idx), IsTree(idx)
  PROVE  \A t \in DOMAIN idx : \A i \in 1..idx[t].height + 1 :
            LET b == path_from_genesis(idx, t)[i]
            IN  \A j \in 1..i : path_from_genesis(idx, t)[j]
                                  = path_from_genesis(idx, b)[j]
PROOF
  <1> DEFINE path(t) == path_from_genesis(idx, t)
             Fits(t) == \A i \in 1..idx[t].height + 1 :
                           \A j \in 1..i : path(t)[j] = path(path(t)[i])[j]
             S == {t \in DOMAIN idx : Fits(t)}
  <1>1. \A t \in DOMAIN idx : idx[t].height \in Nat
                              /\ path(t)[idx[t].height + 1] = t
    BY PathStep DEF IndexMap, IsMap, Idx
  <1>2. \A t \in DOMAIN idx \ {Genesis} :
           /\ idx[t].prev \in DOMAIN idx
           /\ idx[t].height = idx[idx[t].prev].height + 1
           /\ \A i \in 1..idx[t].height : path(t)[i] = path(idx[t].prev)[i]
    BY PathStep, WalkDown
  <1> HIDE DEF path
  <1>3. Genesis \in S
    <2>1. Genesis \in DOMAIN idx /\ idx[Genesis].height = 0
      BY DEF IsTree
    <2>2. \A i \in 1..0 + 1 : i = 0 + 1
      OBVIOUS
    <2> QED
      BY <1>1, <2>1, <2>2
  <1>4. ASSUME NEW t \in DOMAIN idx \ {Genesis}, idx[t].prev \in S
        PROVE  t \in S
    <2> SUFFICES ASSUME NEW i \in 1..idx[t].height + 1, NEW j \in 1..i
                 PROVE  path(t)[j] = path(path(t)[i])[j]
      OBVIOUS
    <2>1. CASE i = idx[t].height + 1
      BY <1>1, <2>1
    <2>2. CASE i # idx[t].height + 1
      <3> DEFINE p == idx[t].prev
      <3>1. p \in DOMAIN idx /\ idx[t].height = idx[p].height + 1
            /\ idx[p].height \in Nat
        BY <1>1, <1>2
      <3>2. i \in 1..idx[t].height /\ j \in 1..idx[t].height
            /\ i \in 1..idx[p].height + 1
        BY <2>2, <3>1
      <3>3. path(t)[i] = path(p)[i] /\ path(t)[j] = path(p)[j]
        BY <1>2, <3>2
      <3>4. Fits(p)
        BY <1>4
      <3> QED
        BY <3>2, <3>3, <3>4
    <2> QED
      BY <2>1, <2>2
  <1> HIDE DEF S
  <1>5. DOMAIN idx \subseteq S
    BY <1>3, <1>4, TreeInduction
  <1> QED
    BY <1>5 DEF path, S

-----------------------------------------------------------------------------
(* Replaying a branch *)

CappedLedgers == {l \in LedgerSet : l.supply =< MAX_SUPPLY}

\* A block that validates turns a capped ledger into a capped one.
LEMMA ApplyCapped ==
  ASSUME NEW l \in CappedLedgers, NEW b \in Blocks, NEW h \in Nat,
         NEW sigs \in BOOLEAN, validate_txs(l, Txs[b], h, sigs)
  PROVE  apply_txs(l, Txs[b], h) \in CappedLedgers
PROOF
  <1>1. Txs[b] \in Seq(Transaction)
    BY ChainAssumption
  <1> QED
    BY <1>1, ApplyTxsLedger DEF CappedLedgers

LEMMA EmptyLedgerCapped ==
  EmptyLedger \in CappedLedgers
PROOF
  <1>1. IsMap(<< >>, OutPoint, TxOut) /\ IsMap(<< >>, OutPoint, Nat)
    BY DEF IsMap
  <1> QED
    BY <1>1, MapSet, LedgerAssumption DEF EmptyLedger, LedgerSet, CappedLedgers

\* What a replay makes of one more block.
Extend(l, b, h, sigs) ==
  IF l = Invalid THEN Invalid
  ELSE IF validate_txs(l, Txs[b], h, sigs) THEN apply_txs(l, Txs[b], h)
       ELSE Invalid

LEMMA ExtendType ==
  ASSUME NEW l \in CappedLedgers \cup {Invalid}, NEW b \in Blocks,
         NEW h \in Nat, NEW sigs \in BOOLEAN
  PROVE  Extend(l, b, h, sigs) \in CappedLedgers \cup {Invalid}
PROOF
  <1> SUFFICES ASSUME l # Invalid, validate_txs(l, Txs[b], h, sigs)
               PROVE  apply_txs(l, Txs[b], h) \in CappedLedgers
    BY DEF Extend
  <1>1. l \in CappedLedgers
    OBVIOUS
  <1> QED
    BY <1>1, ApplyCapped

\* A replay starts with no coins and takes the blocks of the branch one by one;
\* each ledger on the way is capped, or Invalid.
LEMMA ReplayDef ==
  ASSUME NEW idx, IndexMap(idx), IsTree(idx), NEW t \in DOMAIN idx, NEW skip
  PROVE  LET path == path_from_genesis(idx, t)
             n    == idx[t].height + 1
             l    == replay(idx, t, skip)
         IN  /\ l[0] = EmptyLedger
             /\ \A i \in 1..n : l[i] = Extend(l[i - 1], path[i], i - 1,
                                              path[i] \notin skip)
             /\ \A i \in 0..n : l[i] \in CappedLedgers \cup {Invalid}
PROOF
  <1> DEFINE path == path_from_genesis(idx, t)
             n == Len(path)
             Step(i, x) ==
               Extend(x, path[i], idx[path[i]].height, path[i] \notin skip)
             L == CappedLedgers \cup {Invalid}
             G == [p \in (1..n) \X L |-> Step(p[1], p[2])]
             T == [i \in 0..n |-> L]
             after == CHOOSE f : f = [i \in 0..n |->
                        IF i = 0 THEN EmptyLedger
                        ELSE IF f[i - 1] = Invalid THEN Invalid
                        ELSE IF validate_txs(f[i - 1], Txs[path[i]],
                                             idx[path[i]].height,
                                             path[i] \notin skip)
                             THEN apply_txs(f[i - 1], Txs[path[i]],
                                            idx[path[i]].height)
                             ELSE Invalid]
  <1>1. /\ n = idx[t].height + 1
        /\ n \in Nat
        /\ \A i \in 1..n : path[i] \in Blocks /\ idx[path[i]].height = i - 1
                                              /\ i - 1 \in Nat
    <2>1. idx[t].height \in Nat
      BY DEF IndexMap, IsMap, Idx
    <2>2. \A b \in DOMAIN idx : b \in Blocks
      BY DEF IndexMap, IsMap
    <2>3. n = idx[t].height + 1
      BY PathType
    <2>4. \A i \in 1..n : path[i] \in DOMAIN idx /\ idx[path[i]].height = i - 1
      BY <2>3, PathType
    <2> HIDE DEF path, n
    <2> QED
      BY <2>1, <2>2, <2>3, <2>4
  <1> HIDE DEF path, n
  <1>2. \A i \in 1..n : \A x \in L : Step(i, x) \in L
    <2> SUFFICES ASSUME NEW i \in 1..n, NEW x \in L
                 PROVE  Step(i, x) \in L
      OBVIOUS
    <2>1. path[i] \in Blocks /\ idx[path[i]].height \in Nat
      BY <1>1
    <2>2. (path[i] \notin skip) \in BOOLEAN
      OBVIOUS
    <2> QED
      BY <2>1, <2>2, ExtendType
  <1> HIDE DEF Step
  <1>3. \A i \in 1..n : \A x \in T[i - 1] :
           G[<<i, x>>] = Step(i, x) /\ G[<<i, x>>] \in T[i]
    <2> SUFFICES ASSUME NEW i \in 1..n, NEW x \in T[i - 1]
                 PROVE  G[<<i, x>>] = Step(i, x) /\ G[<<i, x>>] \in T[i]
      OBVIOUS
    <2>1. i - 1 \in 0..n /\ i \in 0..n
      BY <1>1
    <2> HIDE DEF L
    <2> QED
      BY <1>2, <2>1
  <1>4. IsRecursion(n, L, T, EmptyLedger, G)
    <2>1. T \in [0..n -> SUBSET L]
      OBVIOUS
    <2>2. EmptyLedger \in T[0]
      BY <1>1, EmptyLedgerCapped
    <2> HIDE DEF G, T, L
    <2> QED
      BY <1>1, <1>3, <2>1, <2>2 DEF IsRecursion
  <1>5. PICK g : Solves(g, n, L, T, EmptyLedger, G)
    BY <1>4, RecursionExists
  <1>6. g = [i \in 0..n |-> IF i = 0 THEN EmptyLedger ELSE Step(i, g[i - 1])]
    <2>1. \A i \in 1..n : g[i] = Step(i, g[i - 1])
      <3> TAKE i \in 1..n
      <3>1. i - 1 \in 0..n
        BY <1>1
      <3> HIDE DEF G, T, L
      <3> QED
        BY <1>3, <1>5, <3>1 DEF Solves
    <2>2. \A i \in 0..n : i = 0 \/ i \in 1..n
      BY <1>1
    <2> HIDE DEF G, T, L
    <2> QED
      BY <1>5, <2>1, <2>2 DEF Solves
  <1>7. after = [i \in 0..n |-> IF i = 0 THEN EmptyLedger
                                ELSE Step(i, after[i - 1])]
    <2> HIDE DEF G, T, L
    <2> QED
      BY <1>6 DEF Step, Extend
  <1> HIDE DEF after
  <1>8. after[0] = EmptyLedger
    BY <1>1, <1>7
  <1>9. \A i \in 1..n : after[i] = Step(i, after[i - 1])
    BY <1>1, <1>7
  <1> DEFINE I == {k \in Nat : k =< n => after[k] \in L}
  <1>10. 0 \in I
    BY <1>8, EmptyLedgerCapped
  <1>11. ASSUME NEW k \in Nat, k \in I PROVE k + 1 \in I
    <2> SUFFICES ASSUME k + 1 =< n PROVE after[k + 1] \in L
      OBVIOUS
    <2>1. (k + 1) - 1 = k /\ k + 1 \in 1..n
      BY <1>1
    <2>2. after[k + 1] = Step(k + 1, after[k])
      BY <1>9, <2>1
    <2>3. after[k] \in L
      BY <1>1, <1>11
    <2> HIDE DEF L
    <2> QED
      BY <1>2, <2>1, <2>2, <2>3
  <1> HIDE DEF I
  <1>12. \A k \in Nat : k \in I
    BY <1>10, <1>11, SetInduction
  <1>13. \A k \in 0..n : after[k] \in L
    BY <1>1, <1>12 DEF I
  <1>14. replay(idx, t, skip) = after
    BY DEF replay, after, n, path
  <1>15. \A i \in 1..n : after[i] = Extend(after[i - 1], path[i], i - 1,
                                           path[i] \notin skip)
    BY <1>1, <1>9 DEF Step
  <1> HIDE DEF L
  <1> QED
    BY <1>1, <1>8, <1>13, <1>14, <1>15 DEF path, L

LEMMA ReplayType ==
  ASSUME NEW idx, IndexMap(idx), IsTree(idx), NEW t \in DOMAIN idx, NEW skip
  PROVE  \A i \in 0..idx[t].height + 1 :
            replay(idx, t, skip)[i] \in CappedLedgers \cup {Invalid}
PROOF
  BY ReplayDef

\* What a branch comes to is a capped ledger, or Invalid.
LEMMA OutcomeType ==
  ASSUME NEW idx, IndexMap(idx), IsTree(idx), NEW t \in DOMAIN idx, NEW skip
  PROVE  outcome(idx, t, skip) \in CappedLedgers \cup {Invalid}
PROOF
  <1>1. idx[t].height + 1 \in 0..idx[t].height + 1
    BY DEF IndexMap, IsMap, Idx
  <1> QED
    BY <1>1, ReplayType DEF outcome

\* The replay of a branch goes through the outcomes of the branches it begins
\* with: replaying a block's branch is replaying its parent's and then the block.
LEMMA OutcomeStep ==
  ASSUME NEW idx, IndexMap(idx), IsTree(idx), NEW t \in DOMAIN idx, NEW skip
  PROVE  /\ outcome(idx, t, skip)
              = Extend(IF t = Genesis THEN EmptyLedger
                                      ELSE outcome(idx, idx[t].prev, skip),
                       t, idx[t].height, t \notin skip)
         /\ t # Genesis
              => \A i \in 0..idx[t].height :
                    replay(idx, t, skip)[i] = replay(idx, idx[t].prev, skip)[i]
PROOF
  <1> DEFINE h == idx[t].height
             p == idx[t].prev
             path(x) == path_from_genesis(idx, x)
             l(x) == replay(idx, x, skip)
             I == {i \in Nat : i =< h => l(t)[i] = l(p)[i]}
  <1>1. h \in Nat
    BY DEF IndexMap, IsMap, Idx
  <1>2. /\ l(t)[0] = EmptyLedger
        /\ \A i \in 1..h + 1 : l(t)[i] = Extend(l(t)[i - 1], path(t)[i], i - 1,
                                                path(t)[i] \notin skip)
    BY ReplayDef
  <1>3. path(t)[h + 1] = t
    BY PathStep
  <1>4. outcome(idx, t, skip) = l(t)[h + 1]
    BY DEF outcome
  <1>5. l(t)[h + 1] = Extend(l(t)[h], t, h, t \notin skip)
    <2>1. h + 1 \in 1..h + 1 /\ (h + 1) - 1 = h
      BY <1>1
    <2> HIDE DEF l, path, h
    <2> QED
      BY <1>2, <1>3, <2>1
  <1>6. ASSUME t # Genesis PROVE \A i \in 0..h : l(t)[i] = l(p)[i]
    <2>1. p \in DOMAIN idx /\ h = idx[p].height + 1
      BY <1>6, WalkDown
    <2>2. /\ l(p)[0] = EmptyLedger
          /\ \A i \in 1..h : l(p)[i] = Extend(l(p)[i - 1], path(p)[i], i - 1,
                                              path(p)[i] \notin skip)
      BY <2>1, ReplayDef
    <2>3. \A i \in 1..h : path(t)[i] = path(p)[i]
      BY <1>6, PathStep
    <2> HIDE DEF l, path, h, p
    <2>4. 0 \in I
      BY <1>2, <2>2
    <2>5. ASSUME NEW i \in Nat, i \in I PROVE i + 1 \in I
      <3> SUFFICES ASSUME i + 1 =< h PROVE l(t)[i + 1] = l(p)[i + 1]
        OBVIOUS
      <3>1. i + 1 \in 1..h /\ i + 1 \in 1..h + 1 /\ (i + 1) - 1 = i
        BY <1>1
      <3>2. l(t)[i] = l(p)[i]
        BY <1>1, <2>5
      <3>3. path(t)[i + 1] = path(p)[i + 1]
        BY <2>3, <3>1
      <3>4. l(t)[i + 1] = Extend(l(t)[i], path(t)[i + 1], i,
                                 path(t)[i + 1] \notin skip)
        BY <1>2, <3>1
      <3>5. l(p)[i + 1] = Extend(l(p)[i], path(p)[i + 1], i,
                                 path(p)[i + 1] \notin skip)
        BY <2>2, <3>1
      <3> QED
        BY <3>2, <3>3, <3>4, <3>5
    <2> HIDE DEF I
    <2>6. \A i \in Nat : i \in I
      BY <2>4, <2>5, SetInduction
    <2> QED
      BY <1>1, <2>6 DEF I
  <1>7. l(t)[h] = IF t = Genesis THEN EmptyLedger ELSE outcome(idx, p, skip)
    <2>1. CASE t = Genesis
      <3>1. h = 0
        BY <2>1 DEF IsTree
      <3> HIDE DEF l
      <3> QED
        BY <1>2, <2>1, <3>1
    <2>2. CASE t # Genesis
      <3>1. h = idx[p].height + 1
        BY <2>2, WalkDown
      <3>2. outcome(idx, p, skip) = l(p)[h]
        BY <3>1 DEF outcome
      <3>3. l(t)[h] = l(p)[h]
        BY <1>1, <1>6, <2>2
      <3> HIDE DEF l, h
      <3> QED
        BY <2>2, <3>2, <3>3
    <2> QED
      BY <2>1, <2>2
  <1> HIDE DEF l, h, p
  <1>8. outcome(idx, t, skip)
          = Extend(IF t = Genesis THEN EmptyLedger ELSE outcome(idx, p, skip),
                   t, h, t \notin skip)
    BY <1>4, <1>5, <1>7
  <1> QED
    BY <1>6, <1>8 DEF l, h, p

\* What is left after the i-th block of a branch is the outcome of that block.
LEMMA ReplayOutcome ==
  ASSUME NEW idx, IndexMap(idx), IsTree(idx), NEW skip
  PROVE  \A t \in DOMAIN idx : \A i \in 1..idx[t].height + 1 :
            replay(idx, t, skip)[i]
              = outcome(idx, path_from_genesis(idx, t)[i], skip)
PROOF
  <1> DEFINE path(t) == path_from_genesis(idx, t)
             l(t)    == replay(idx, t, skip)
             out(t)  == outcome(idx, t, skip)
             Fits(t) == \A i \in 1..idx[t].height + 1 : l(t)[i] = out(path(t)[i])
             S == {t \in DOMAIN idx : Fits(t)}
  <1>1. \A t \in DOMAIN idx : /\ idx[t].height \in Nat
                              /\ path(t)[idx[t].height + 1] = t
                              /\ l(t)[idx[t].height + 1] = out(t)
    BY PathStep DEF outcome, IndexMap, IsMap, Idx
  <1>2. \A t \in DOMAIN idx \ {Genesis} :
           /\ idx[t].prev \in DOMAIN idx
           /\ idx[t].height = idx[idx[t].prev].height + 1
           /\ \A i \in 1..idx[t].height : path(t)[i] = path(idx[t].prev)[i]
           /\ \A i \in 0..idx[t].height : l(t)[i] = l(idx[t].prev)[i]
    BY PathStep, WalkDown, OutcomeStep
  <1> HIDE DEF path, l, out
  <1>3. Genesis \in S
    <2>1. Genesis \in DOMAIN idx /\ idx[Genesis].height = 0
      BY DEF IsTree
    <2>2. \A i \in 1..0 + 1 : i = 0 + 1
      OBVIOUS
    <2> QED
      BY <1>1, <2>1, <2>2
  <1>4. ASSUME NEW t \in DOMAIN idx \ {Genesis}, idx[t].prev \in S
        PROVE  t \in S
    <2> SUFFICES ASSUME NEW i \in 1..idx[t].height + 1
                 PROVE  l(t)[i] = out(path(t)[i])
      OBVIOUS
    <2>1. CASE i = idx[t].height + 1
      BY <1>1, <2>1
    <2>2. CASE i # idx[t].height + 1
      <3> DEFINE p == idx[t].prev
      <3>1. p \in DOMAIN idx /\ idx[t].height = idx[p].height + 1
            /\ idx[p].height \in Nat
        BY <1>1, <1>2
      <3>2. i \in 1..idx[t].height /\ i \in 0..idx[t].height
            /\ i \in 1..idx[p].height + 1
        BY <2>2, <3>1
      <3>3. path(t)[i] = path(p)[i] /\ l(t)[i] = l(p)[i]
        BY <1>2, <3>2
      <3>4. Fits(p)
        BY <1>4
      <3> QED
        BY <3>2, <3>3, <3>4
    <2> QED
      BY <2>1, <2>2
  <1> HIDE DEF S
  <1>5. DOMAIN idx \subseteq S
    BY <1>3, <1>4, TreeInduction
  <1> QED
    BY <1>5 DEF path, l, out, S

\* A branch that replays is made of branches that replay.
LEMMA ActiveReplays ==
  ASSUME NEW idx, IndexMap(idx), IsTree(idx), NEW skip
  PROVE  \A t \in DOMAIN idx : outcome(idx, t, skip) # Invalid
           => \A b \in active(idx, t) : /\ b \in DOMAIN idx
                                        /\ outcome(idx, b, skip) # Invalid
PROOF
  <1> DEFINE out(t)  == outcome(idx, t, skip)
             act(t)  == active(idx, t)
             Fits(t) == out(t) # Invalid
                          => \A b \in act(t) : b \in DOMAIN idx /\ out(b) # Invalid
             S == {t \in DOMAIN idx : Fits(t)}
  <1>1. Genesis \in DOMAIN idx /\ act(Genesis) = {Genesis}
    BY ActiveStep DEF IsTree
  <1>2. \A t \in DOMAIN idx \ {Genesis} :
           /\ idx[t].prev \in DOMAIN idx
           /\ act(t) = act(idx[t].prev) \cup {t}
           /\ out(t) # Invalid => out(idx[t].prev) # Invalid
    BY ActiveStep, WalkDown, OutcomeStep DEF Extend
  <1> HIDE DEF out, act
  <1>3. Genesis \in S
    BY <1>1
  <1>4. ASSUME NEW t \in DOMAIN idx \ {Genesis}, idx[t].prev \in S
        PROVE  t \in S
    BY <1>2, <1>4
  <1> HIDE DEF S
  <1>5. DOMAIN idx \subseteq S
    BY <1>3, <1>4, TreeInduction
  <1> QED
    BY <1>5 DEF out, act, S

\* Leaving out signature checks that would pass changes no outcome.
LEMMA SkipSound ==
  ASSUME NEW idx, IndexMap(idx), IsTree(idx), NEW skip,
         \A b \in skip \cap DOMAIN idx : outcome(idx, b, {}) # Invalid
  PROVE  \A t \in DOMAIN idx : outcome(idx, t, skip) = outcome(idx, t, {})
PROOF
  <1> DEFINE before(t, s) == IF t = Genesis THEN EmptyLedger
                             ELSE outcome(idx, idx[t].prev, s)
             S == {t \in DOMAIN idx : outcome(idx, t, skip) = outcome(idx, t, {})}
  <1>1. \A t \in DOMAIN idx :
           /\ outcome(idx, t, skip)
                = Extend(before(t, skip), t, idx[t].height, t \notin skip)
           /\ outcome(idx, t, {})
                = Extend(before(t, {}), t, idx[t].height, t \notin {})
    BY OutcomeStep
  <1>2. ASSUME NEW t \in DOMAIN idx, before(t, skip) = before(t, {})
        PROVE  outcome(idx, t, skip) = outcome(idx, t, {})
    <2> HIDE DEF before
    <2>1. CASE t \notin skip
      BY <1>1, <1>2, <2>1
    <2>2. CASE t \in skip
      <3>1. outcome(idx, t, {}) # Invalid
        BY <2>2
      <3>2. Extend(before(t, {}), t, idx[t].height, TRUE) # Invalid
        BY <1>1, <3>1
      <3>3. Extend(before(t, {}), t, idx[t].height, FALSE)
              = Extend(before(t, {}), t, idx[t].height, TRUE)
        BY <3>2, ValidateSigs DEF Extend
      <3> QED
        BY <1>1, <1>2, <2>2, <3>3
    <2> QED
      BY <2>1, <2>2
  <1>3. Genesis \in S
    BY <1>2 DEF IsTree
  <1>4. ASSUME NEW t \in DOMAIN idx \ {Genesis}, idx[t].prev \in S
        PROVE  t \in S
    BY <1>2, <1>4
  <1> HIDE DEF S
  <1>5. DOMAIN idx \subseteq S
    BY <1>3, <1>4, TreeInduction
  <1> QED
    BY <1>5 DEF S

\* More blocks in the index change nothing about the branches of those it has.
LEMMA BranchesStay ==
  ASSUME NEW idx, IndexMap(idx), IsTree(idx),
         NEW idx2, IndexMap(idx2), IsTree(idx2),
         DOMAIN idx \subseteq DOMAIN idx2
  PROVE  \A t \in DOMAIN idx :
            /\ idx2[t].height = idx[t].height
            /\ idx2[t].work = idx[t].work
            /\ idx2[t].prev = idx[t].prev
            /\ path_from_genesis(idx2, t) = path_from_genesis(idx, t)
            /\ active(idx2, t) = active(idx, t)
            /\ \A skip : outcome(idx2, t, skip) = outcome(idx, t, skip)
PROOF
  <1> DEFINE Same(t) == /\ idx2[t].height = idx[t].height
                        /\ idx2[t].work = idx[t].work
                        /\ path_from_genesis(idx2, t) = path_from_genesis(idx, t)
                        /\ \A skip : outcome(idx2, t, skip)
                                       = outcome(idx, t, skip)
             S == {t \in DOMAIN idx : Same(t)}
  <1>1. \A t \in DOMAIN idx : idx2[t].prev = idx[t].prev
    BY DEF IsTree
  <1>2. Genesis \in DOMAIN idx /\ Genesis \in DOMAIN idx2
    BY DEF IsTree
  <1>3. ASSUME NEW t \in DOMAIN idx, idx2[t].height = idx[t].height,
               t # Genesis => Same(idx[t].prev)
        PROVE  /\ path_from_genesis(idx2, t) = path_from_genesis(idx, t)
               /\ \A skip : outcome(idx2, t, skip) = outcome(idx, t, skip)
    <2> DEFINE h == idx[t].height
               p == idx[t].prev
               path(x)  == path_from_genesis(idx, x)
               path2(x) == path_from_genesis(idx2, x)
    <2>1. t \in DOMAIN idx2
      OBVIOUS
    <2>2. /\ path(t) \in [1..h + 1 -> DOMAIN idx] /\ path(t)[h + 1] = t
          /\ t # Genesis => \A i \in 1..h : path(t)[i] = path(p)[i]
      BY PathType, PathStep
    <2>3. /\ path2(t) \in [1..h + 1 -> DOMAIN idx2] /\ path2(t)[h + 1] = t
          /\ t # Genesis => \A i \in 1..h : path2(t)[i] = path2(p)[i]
      BY <1>1, <1>3, <2>1, PathType, PathStep
    <2>4. h \in Nat
      BY DEF IndexMap, IsMap, Idx
    <2>5. t # Genesis => path2(p) = path(p)
      BY <1>3
    <2>6. t = Genesis => h = 0
      BY DEF IsTree
    <2>7. path2(t) = path(t)
      <3> HIDE DEF path, path2, h, p
      <3>1. ASSUME NEW i \in 1..h + 1 PROVE path2(t)[i] = path(t)[i]
        <4>1. i = h + 1 \/ (i \in 1..h /\ t # Genesis)
          BY <2>4, <2>6
        <4> QED
          BY <2>2, <2>3, <2>5, <4>1
      <3>2. /\ path(t) = [i \in 1..h + 1 |-> path(t)[i]]
            /\ path2(t) = [i \in 1..h + 1 |-> path2(t)[i]]
        BY <2>2, <2>3
      <3> QED
        BY <3>1, <3>2
    <2>8. ASSUME NEW skip PROVE outcome(idx2, t, skip) = outcome(idx, t, skip)
      <3>1. /\ outcome(idx, t, skip)
                 = Extend(IF t = Genesis THEN EmptyLedger
                          ELSE outcome(idx, p, skip), t, h, t \notin skip)
            /\ outcome(idx2, t, skip)
                 = Extend(IF t = Genesis THEN EmptyLedger
                          ELSE outcome(idx2, p, skip), t, h, t \notin skip)
        <4>1. /\ outcome(idx, t, skip)
                   = Extend(IF t = Genesis THEN EmptyLedger
                            ELSE outcome(idx, idx[t].prev, skip),
                            t, idx[t].height, t \notin skip)
              /\ outcome(idx2, t, skip)
                   = Extend(IF t = Genesis THEN EmptyLedger
                            ELSE outcome(idx2, idx2[t].prev, skip),
                            t, idx2[t].height, t \notin skip)
          BY <2>1, OutcomeStep
        <4> QED
          BY <1>1, <1>3, <4>1
      <3> QED
        BY <1>3, <3>1
    <2> QED
      BY <2>7, <2>8
  <1>4. Genesis \in S
    <2>1. /\ idx2[Genesis].height = idx[Genesis].height
          /\ idx2[Genesis].work = idx[Genesis].work
      BY <1>2 DEF IsTree
    <2> QED
      BY <1>2, <1>3, <2>1
  <1>5. ASSUME NEW t \in DOMAIN idx \ {Genesis}, idx[t].prev \in S
        PROVE  t \in S
    <2>1. Same(idx[t].prev)
      BY <1>5
    <2>2. /\ idx2[t].height = idx[t].height
          /\ idx2[t].work = idx[t].work
      BY <1>1, <2>1 DEF IsTree
    <2> HIDE DEF Same
    <2>3. /\ path_from_genesis(idx2, t) = path_from_genesis(idx, t)
          /\ \A skip : outcome(idx2, t, skip) = outcome(idx, t, skip)
      BY <1>3, <2>1, <2>2
    <2> QED
      BY <2>2, <2>3 DEF Same
  <1> HIDE DEF S
  <1>6. DOMAIN idx \subseteq S
    BY <1>4, <1>5, TreeInduction
  <1> QED
    BY <1>1, <1>6 DEF S, active

LEMMA PassedType ==
  ASSUME NEW idx, IndexMap(idx), IsTree(idx), NEW t \in DOMAIN idx, NEW skip
  PROVE  /\ passed(idx, t, skip) \subseteq DOMAIN idx
         /\ active(idx, t) \subseteq DOMAIN idx
PROOF
  <1>1. \A i \in 1..idx[t].height + 1 :
           path_from_genesis(idx, t)[i] \in DOMAIN idx
    BY PathType
  <1>2. DOMAIN path_from_genesis(idx, t) = 1..idx[t].height + 1
    BY PathType
  <1> QED
    BY <1>1, <1>2 DEF passed, active, Range

\* The coinbase map a rebuild makes is a map from outpoints to heights.
LEMMA RebuiltCbType ==
  ASSUME NEW idx, IndexMap(idx), IsTree(idx), NEW t \in DOMAIN idx
  PROVE  IsMap(rebuilt_cb(idx, t), OutPoint, Nat)
PROOF
  <1> DEFINE path == path_from_genesis(idx, t)
             at(i) == coinbase_outputs(path[i])
             first(o) == CHOOSE i \in DOMAIN path :
                           o \in at(i) /\ \A j \in DOMAIN path :
                                            o \in at(j) => i =< j
             D == UNION {at(i) : i \in DOMAIN path}
  <1>1. /\ DOMAIN path \subseteq Nat
        /\ \A i \in DOMAIN path : path[i] \in DOMAIN idx
    <2>1. idx[t].height \in Nat
      BY DEF IndexMap, IsMap, Idx
    <2>2. path \in [1..idx[t].height + 1 -> DOMAIN idx]
      BY PathType
    <2> HIDE DEF path
    <2>3. DOMAIN path = 1..idx[t].height + 1
      BY <2>2
    <2>4. 1..idx[t].height + 1 \subseteq Nat
      BY <2>1
    <2> QED
      BY <2>2, <2>3, <2>4
  <1>2. \A b \in Blocks : coinbase_outputs(b) \subseteq OutPoint
    <2> SUFFICES ASSUME NEW b \in Blocks, Txs[b] # << >>,
                        NEW v \in DOMAIN Txs[b][1].outputs
                 PROVE  <<Txs[b][1].txid, v>> \in OutPoint
      BY DEF coinbase_outputs
    <2>1. Txs[b] \in Seq(Transaction)
      BY ChainAssumption
    <2>2. Txs[b][1] \in Transaction
      BY <2>1
    <2>3. Txs[b][1].txid \in TxIds /\ Txs[b][1].outputs \in Seq(TxOut)
      BY <2>2 DEF Transaction
    <2>4. v \in Nat \ {0}
      BY <2>3
    <2> QED
      BY <2>3, <2>4 DEF OutPoint
  <1>3. \A i \in DOMAIN path : at(i) \subseteq OutPoint
    BY <1>1, <1>2 DEF IndexMap, IsMap
  <1> HIDE DEF path, at
  <1>4. D \subseteq OutPoint
    BY <1>3
  <1>5. ASSUME NEW o \in D PROVE first(o) \in DOMAIN path
    <2> DEFINE K == {i \in DOMAIN path : o \in at(i)}
    <2>1. K \in SUBSET Nat /\ K # {}
      BY <1>1
    <2>2. PICK m \in K : \A k \in K : m =< k
      BY <2>1, LeastNatural
    <2>3. m \in DOMAIN path /\ o \in at(m)
          /\ \A j \in DOMAIN path : o \in at(j) => m =< j
      BY <2>2
    <2> QED
      BY <2>3
  <1> HIDE DEF first
  <1>6. \A o \in D : idx[path[first(o)]].height \in Nat
    BY <1>1, <1>5 DEF IndexMap, IsMap, Idx
  <1> HIDE DEF D
  <1>7. IsMap([o \in D |-> idx[path[first(o)]].height], OutPoint, Nat)
    BY <1>4, <1>6 DEF IsMap
  <1> QED
    BY <1>7 DEF rebuilt_cb, path, at, first, D

-----------------------------------------------------------------------------
(* The invariant *)

IInv == TypeOK /\ IndexIsTree /\ SupplyWithinCap

\* Storing a block on a stored parent keeps the index a tree, and leaves every
\* stored block where it was, the block itself included if it is stored again.
LEMMA InsertTree ==
  ASSUME NEW idx, IndexMap(idx), IsTree(idx), NEW b \in Blocks, NEW e \in Idx,
         e.prev = Header[b].prev, e.prev \in DOMAIN idx,
         e.height = idx[e.prev].height + 1,
         e.work = idx[e.prev].work + work_from_bits(Header[b].bits)
  PROVE  LET idx2 == Insert(idx, b, e)
         IN  /\ IndexMap(idx2)
             /\ IsTree(idx2)
             /\ b \in DOMAIN idx2
             /\ idx2[b] = e
             /\ DOMAIN idx \subseteq DOMAIN idx2
             /\ \A x \in DOMAIN idx : /\ idx2[x].height = idx[x].height
                                      /\ idx2[x].work = idx[x].work
PROOF
  <1> DEFINE idx2 == Insert(idx, b, e)
  <1>1. /\ IsMap(idx2, Blocks, Idx)
        /\ DOMAIN idx2 = DOMAIN idx \cup {b}
        /\ idx2[b] = e
        /\ \A x \in DOMAIN idx : x # b => idx2[x] = idx[x]
    <2>1. IsMap(idx, Blocks, Idx)
      BY DEF IndexMap
    <2> QED
      BY <2>1 DEF IsMap, Insert
  <1>2. b # Genesis
    BY ChainAssumption DEF IndexMap, IsMap
  <1> HIDE DEF idx2
  <1>3. \A x \in DOMAIN idx : /\ idx2[x].prev = idx[x].prev
                              /\ idx2[x].height = idx[x].height
                              /\ idx2[x].work = idx[x].work
    <2>1. ASSUME b \in DOMAIN idx
          PROVE  /\ idx[b].prev = e.prev
                 /\ idx[b].height = e.height
                 /\ idx[b].work = e.work
      BY <1>2, <2>1 DEF IsTree
    <2> QED
      BY <1>1, <2>1
  <1>4. IsTree(idx2)
    <2>1. Genesis \in DOMAIN idx2
      BY <1>1 DEF IsTree
    <2>2. ASSUME NEW x \in DOMAIN idx
          PROVE  /\ idx2[x].prev = Header[x].prev
                 /\ IF x = Genesis
                    THEN /\ idx2[x].height = 0
                         /\ idx2[x].work = work_from_bits(Header[x].bits)
                    ELSE /\ idx2[x].prev \in DOMAIN idx2
                         /\ idx2[x].height = idx2[idx2[x].prev].height + 1
                         /\ idx2[x].work = idx2[idx2[x].prev].work
                                           + work_from_bits(Header[x].bits)
      BY <1>1, <1>3 DEF IsTree
    <2>3. /\ idx2[b].prev = Header[b].prev
          /\ idx2[b].prev \in DOMAIN idx2
          /\ idx2[b].height = idx2[idx2[b].prev].height + 1
          /\ idx2[b].work = idx2[idx2[b].prev].work
                            + work_from_bits(Header[b].bits)
      BY <1>1, <1>3
    <2> QED
      BY <1>1, <1>2, <2>1, <2>2, <2>3 DEF IsTree
  <1> QED
    BY <1>1, <1>3, <1>4 DEF idx2, IndexMap

\* What connect_tip and accept_block both do to the index.
LEMMA EntryType ==
  ASSUME IInv, NEW b \in Blocks, Header[b].prev \in DOMAIN index
  PROVE  /\ entry(b, Header[b].prev) \in Idx
         /\ work_from_bits(Header[b].bits) \in Nat \ {0}
PROOF
  <1> DEFINE prev == Header[b].prev
  <1>1. IsMap(index, Blocks, Idx)
    BY DEF IInv, TypeOK
  <1>2. index[prev] \in Idx /\ prev \in Blocks
    BY <1>1 DEF IsMap
  <1>3. index[prev].height \in Nat /\ index[prev].work \in Nat
    BY <1>2 DEF Idx
  <1>4. Header[b] \in [prev : Blocks \cup {NoHash}, bits : Bits,
                       ts : Nat, sound : BOOLEAN]
    BY ChainAssumption
  <1>5. Header[b].bits \in Bits /\ Header[b].ts \in Nat
    BY <1>4
  <1>6. work_from_bits(Header[b].bits) \in Nat \ {0}
    BY <1>5, ChainAssumption
  <1> QED
    BY <1>2, <1>3, <1>5, <1>6 DEF entry, Idx

\* The ledger the node holds is a capped one.
LEMMA LedgerCapped ==
  ASSUME IInv
  PROVE  ledger \in CappedLedgers
PROOF
  <1>1. utxo \in Maps(OutPoint, TxOut) /\ coinbase_at \in Maps(OutPoint, Nat)
    BY MapSet DEF IInv, TypeOK
  <1> QED
    BY <1>1 DEF IInv, TypeOK, SupplyWithinCap, ledger, LedgerSet, CappedLedgers

LEMMA InitInv ==
  Init => IInv
PROOF
  <1> SUFFICES ASSUME Init PROVE IInv
    OBVIOUS
  <1> DEFINE start == apply_txs(EmptyLedger, Txs[Genesis], 0)
             work  == work_from_bits(Header[Genesis].bits)
             root  == [prev |-> NoHash, height |-> 0, work |-> work,
                       ts |-> Header[Genesis].ts, bits |-> Header[Genesis].bits]
  <1>1. start \in CappedLedgers
    BY ChainAssumption, GenesisAssumption, EmptyLedgerCapped, ApplyCapped
  <1>2. /\ IsMap(start.utxo, OutPoint, TxOut)
        /\ IsMap(start.cb, OutPoint, Nat)
        /\ start.supply \in Nat /\ start.supply =< MAX_SUPPLY
    BY <1>1, MapSet DEF CappedLedgers, LedgerSet
  <1> HIDE DEF start
  <1>3. Genesis \in Blocks /\ Header[Genesis].bits \in Bits
        /\ Header[Genesis].ts \in Nat /\ Header[Genesis].prev = NoHash
    BY ChainAssumption
  <1>4. work \in Nat
    BY <1>3, ChainAssumption
  <1>5. root \in Idx
    BY <1>3, <1>4 DEF Idx
  <1>6. index = [b \in {Genesis} |-> root]
    BY DEF Init
  <1>7. IsMap(index, Blocks, Idx)
    BY <1>3, <1>5, <1>6 DEF IsMap
  <1>8. IsTree(index)
    BY <1>3, <1>6 DEF IsTree
  <1>9. tip = Genesis /\ height = 0 /\ tip_work = work /\ 0 \in 0..MAX_NOW
    BY ChainAssumption DEF Init
  <1>10. IndexIsTree
    BY <1>6, <1>8, <1>9 DEF IndexIsTree
  <1>11. /\ IsMap(headers, Blocks, Nat)
         /\ IsMap(height_index, Nat, Blocks)
         /\ validated \subseteq Blocks
         /\ now \in 0..MAX_NOW
    BY <1>3, <1>9 DEF Init, IsMap
  <1>12. utxo = start.utxo /\ coinbase_at = start.cb /\ supply = start.supply
    BY DEF Init, start
  <1>13. TypeOK
    BY <1>2, <1>3, <1>4, <1>7, <1>9, <1>11, <1>12 DEF TypeOK
  <1> QED
    BY <1>2, <1>10, <1>12, <1>13 DEF IInv, SupplyWithinCap

-----------------------------------------------------------------------------
(* Every operation preserves it *)

LEMMA ConnectTipInv ==
  ASSUME IInv, NEW b \in Blocks, connect_tip(b)
  PROVE  IInv' /\ tip_work' > tip_work
PROOF
  <1> DEFINE after == apply_each(ledger, Txs[b], height + 1)
             paid  == issue(supply, OutputTotal(Txs[b][1]), Fees(utxo, Txs[b]))
             e     == entry(b, Header[b].prev)
  <1>1. /\ IndexMap(index) /\ IsTree(index)
        /\ tip \in DOMAIN index /\ Header[b].prev = tip
        /\ height = index[tip].height /\ tip_work = index[tip].work
        /\ height \in Nat /\ tip_work \in Nat
    BY DEF IInv, TypeOK, IndexIsTree, IndexMap, connect_tip, connects
  <1>2. e \in Idx /\ work_from_bits(Header[b].bits) \in Nat \ {0}
    BY <1>1, EntryType
  <1>3. /\ e.prev = Header[b].prev
        /\ e.height = index[e.prev].height + 1
        /\ e.work = index[e.prev].work + work_from_bits(Header[b].bits)
    BY DEF entry
  <1>4. /\ index' = Insert(index, b, e)
        /\ height' = e.height /\ tip_work' = e.work
    BY <1>1 DEF connect_tip, entry
  <1> HIDE DEF e
  <1>5. /\ IndexMap(index') /\ IsTree(index') /\ b \in DOMAIN index'
        /\ index'[b] = e
    BY <1>1, <1>2, <1>3, <1>4, InsertTree
  <1>6. IndexIsTree'
    BY <1>4, <1>5 DEF IndexIsTree, connect_tip
  <1>7. validate_txs(ledger, Txs[b], height + 1, TRUE)
    BY DEF connect_tip, connects
  <1>8. ledger \in CappedLedgers /\ Txs[b] \in Seq(Transaction)
    BY LedgerCapped, ChainAssumption
  <1>9. after \in LedgerSet
    BY <1>1, <1>8, ApplyEachLedger DEF CappedLedgers
  <1>10. paid \in Nat /\ paid =< MAX_SUPPLY
    <2>1. ledger.supply = supply /\ ledger.utxo = utxo
      BY DEF ledger
    <2>2. ledger.supply =< MAX_SUPPLY /\ ledger \in LedgerSet
      BY <1>8 DEF CappedLedgers
    <2>3. height + 1 \in Nat
      BY <1>1
    <2> QED
      BY <1>7, <1>8, <2>1, <2>2, <2>3, IssueBound
  <1>11. /\ IsMap(utxo', OutPoint, TxOut)
         /\ IsMap(coinbase_at', OutPoint, Nat)
    <2>1. utxo' = after.utxo /\ coinbase_at' = after.cb
      BY DEF connect_tip
    <2>2. after.utxo \in Maps(OutPoint, TxOut)
          /\ after.cb \in Maps(OutPoint, Nat)
      BY <1>9 DEF LedgerSet
    <2> QED
      BY <2>1, <2>2, MapSet
  <1>12. supply' = paid
    BY DEF connect_tip
  <1>13. /\ IsMap(headers', Blocks, Nat)
         /\ IsMap(height_index', Nat, Blocks)
    <2>1. /\ IsMap(headers, Blocks, Nat)
          /\ IsMap(height_index, Nat, Blocks)
      BY DEF IInv, TypeOK
    <2>2. /\ headers' = Insert(headers, b, height + 1)
          /\ height_index' = Insert(height_index, height + 1, b)
      BY DEF connect_tip
    <2> QED
      BY <1>1, <2>1, <2>2 DEF IsMap, Insert
  <1>14. tip' \in Blocks /\ height' \in Nat /\ tip_work' \in Nat
    BY <1>2, <1>4 DEF connect_tip, Idx
  <1>15. validated' \subseteq Blocks /\ now' \in 0..MAX_NOW
    BY DEF IInv, TypeOK, connect_tip
  <1>16. TypeOK'
    BY <1>5, <1>10, <1>11, <1>12, <1>13, <1>14, <1>15 DEF TypeOK, IndexMap
  <1>17. SupplyWithinCap'
    BY <1>10, <1>12 DEF SupplyWithinCap
  <1>18. tip_work' > tip_work
    <2>1. tip_work' = tip_work + work_from_bits(Header[b].bits)
      BY DEF connect_tip
    <2> QED
      BY <1>1, <1>2, <2>1
  <1> QED
    BY <1>6, <1>16, <1>17, <1>18 DEF IInv

\* store_block_meta, whatever becomes of the tip.
LEMMA StoreTree ==
  ASSUME IInv, NEW b \in Blocks, storable(b), store_block_meta(b)
  PROVE  /\ IndexMap(index') /\ IsTree(index')
         /\ b \in DOMAIN index' /\ index'[b] = entry(b, Header[b].prev)
         /\ tip \in DOMAIN index'
         /\ index'[tip].height = height /\ index'[tip].work = tip_work
PROOF
  <1> DEFINE e == entry(b, Header[b].prev)
  <1>1. /\ IndexMap(index) /\ IsTree(index)
        /\ tip \in DOMAIN index /\ Header[b].prev \in DOMAIN index
        /\ height = index[tip].height /\ tip_work = index[tip].work
    BY DEF IInv, TypeOK, IndexIsTree, IndexMap, storable
  <1>2. e \in Idx
    BY <1>1, EntryType
  <1>3. /\ e.prev = Header[b].prev
        /\ e.height = index[e.prev].height + 1
        /\ e.work = index[e.prev].work + work_from_bits(Header[b].bits)
    BY DEF entry
  <1>4. index' = Insert(index, b, e)
    BY DEF store_block_meta
  <1> HIDE DEF e
  <1>5. /\ IndexMap(index') /\ IsTree(index')
        /\ b \in DOMAIN index' /\ index'[b] = e
        /\ DOMAIN index \subseteq DOMAIN index'
        /\ \A x \in DOMAIN index : /\ index'[x].height = index[x].height
                                   /\ index'[x].work = index[x].work
    BY <1>1, <1>2, <1>3, <1>4, InsertTree
  <1> QED
    BY <1>1, <1>5 DEF e

\* rebuild_active leaves maps of the right shape behind.
LEMMA RebuildType ==
  ASSUME IndexMap(index'), IsTree(index'), NEW t \in DOMAIN index',
         rebuild_active(t)
  PROVE  /\ IsMap(coinbase_at', OutPoint, Nat)
         /\ IsMap(headers', Blocks, Nat)
         /\ IsMap(height_index', Nat, Blocks)
PROOF
  <1>1. IsMap(coinbase_at', OutPoint, Nat)
    BY RebuiltCbType DEF rebuild_active
  <1>2. \A b \in DOMAIN index' : b \in Blocks /\ index'[b].height \in Nat
    BY DEF IndexMap, IsMap, Idx
  <1>3. active(index', t) \subseteq DOMAIN index'
    BY PassedType
  <1>4. headers' = [b \in active(index', t) |-> index'[b].height]
    BY DEF rebuild_active
  <1>5. IsMap(headers', Blocks, Nat)
    BY <1>2, <1>3, <1>4 DEF IsMap
  <1> DEFINE path == path_from_genesis(index', t)
             H == index'[t].height
  <1>6. \A n \in 0..H : path[n + 1] \in Blocks
    <2>1. path \in [1..H + 1 -> DOMAIN index'] /\ H \in Nat
      BY <1>2, PathType
    <2>2. \A n \in 0..H : n + 1 \in 1..H + 1
      BY <2>1
    <2> HIDE DEF path, H
    <2> QED
      BY <1>2, <2>1, <2>2
  <1>7. height_index' = [n \in 0..H |-> path[n + 1]]
    BY DEF rebuild_active
  <1>8. 0..H \subseteq Nat
    BY <1>2
  <1> HIDE DEF path, H
  <1>9. IsMap(height_index', Nat, Blocks)
    BY <1>6, <1>7, <1>8 DEF IsMap
  <1> QED
    BY <1>1, <1>5, <1>9

LEMMA SideInv ==
  ASSUME IInv, NEW b \in Blocks, storable(b), store_block_meta(b),
         UNCHANGED <<ledger_vars, tip_vars, now>>, validated' \subseteq Blocks
  PROVE  IInv'
PROOF
  <1>1. /\ UNCHANGED <<utxo, coinbase_at, supply, now>>
        /\ UNCHANGED <<tip, height, tip_work, headers, height_index>>
    BY DEF ledger_vars, tip_vars
  <1>2. IndexIsTree'
    BY <1>1, StoreTree DEF IndexIsTree
  <1>3. TypeOK'
    BY <1>1, StoreTree DEF IInv, TypeOK, IndexMap
  <1> QED
    BY <1>1, <1>2, <1>3 DEF IInv, SupplyWithinCap

LEMMA SwitchInv ==
  ASSUME IInv, NEW b \in Blocks, AcceptAndSwitch(b)
  PROVE  IInv' /\ tip_work' > tip_work
PROOF
  <1> DEFINE after == outcome(index', b, validated)
  <1>1. /\ storable(b) /\ heavier(b) /\ store_block_meta(b)
        /\ rebuild_active(b) /\ after # Invalid
        /\ utxo' = after.utxo /\ supply' = after.supply
        /\ tip' = b /\ height' = index'[b].height
        /\ tip_work' = index'[b].work
        /\ validated' = validated \cup passed(index', b, validated)
        /\ now' = now
    BY DEF AcceptAndSwitch
  <1>2. /\ IndexMap(index') /\ IsTree(index') /\ b \in DOMAIN index'
        /\ index'[b] = entry(b, Header[b].prev)
    BY <1>1, StoreTree
  <1>3. IndexIsTree'
    BY <1>1, <1>2 DEF IndexIsTree
  <1>4. after \in CappedLedgers
    BY <1>1, <1>2, OutcomeType
  <1>5. IsMap(utxo', OutPoint, TxOut) /\ supply' \in Nat /\ supply' =< MAX_SUPPLY
    BY <1>1, <1>4, MapSet DEF CappedLedgers, LedgerSet
  <1>6. /\ IsMap(coinbase_at', OutPoint, Nat)
        /\ IsMap(headers', Blocks, Nat)
        /\ IsMap(height_index', Nat, Blocks)
    BY <1>1, <1>2, RebuildType
  <1>7. tip' \in Blocks /\ height' \in Nat /\ tip_work' \in Nat
    <2>1. index'[b] \in Idx
      BY <1>2 DEF IndexMap, IsMap
    <2> QED
      BY <1>1, <2>1 DEF Idx
  <1>8. validated' \subseteq Blocks /\ now' \in 0..MAX_NOW
    BY <1>1, <1>2, PassedType DEF IInv, TypeOK, IndexMap, IsMap
  <1>9. TypeOK'
    BY <1>2, <1>5, <1>6, <1>7, <1>8 DEF TypeOK, IndexMap
  <1>10. tip_work' > tip_work
    BY <1>1, <1>2 DEF heavier
  <1> QED
    BY <1>3, <1>5, <1>9, <1>10 DEF IInv, SupplyWithinCap

LEMMA ReopenInv ==
  ASSUME IInv, Reopen
  PROVE  IInv'
PROOF
  <1>1. /\ UNCHANGED <<utxo, supply, tip, height, tip_work, index, now>>
        /\ rebuild_active(tip)
        /\ validated' = active(index, tip)
    BY DEF Reopen
  <1>2. IndexMap(index) /\ IsTree(index) /\ tip \in DOMAIN index
    BY DEF IInv, TypeOK, IndexIsTree, IndexMap
  <1>3. IndexMap(index') /\ IsTree(index') /\ tip \in DOMAIN index'
    BY <1>1, <1>2
  <1>4. /\ IsMap(coinbase_at', OutPoint, Nat)
        /\ IsMap(headers', Blocks, Nat)
        /\ IsMap(height_index', Nat, Blocks)
    BY <1>1, <1>3, RebuildType
  <1>5. validated' \subseteq Blocks
    BY <1>1, <1>2, PassedType DEF IndexMap, IsMap
  <1>6. TypeOK'
    BY <1>1, <1>4, <1>5 DEF IInv, TypeOK
  <1>7. IndexIsTree' /\ SupplyWithinCap'
    BY <1>1 DEF IInv, IndexIsTree, SupplyWithinCap
  <1> QED
    BY <1>6, <1>7 DEF IInv

\* Each step keeps the invariant, and moves the tip to strictly more work or not
\* at all.
LEMMA NextInv ==
  ASSUME IInv, [Next]_vars
  PROVE  IInv' /\ (tip' # tip => tip_work' > tip_work)
PROOF
  <1>1. CASE Tick
    <2>1. now' \in 0..MAX_NOW
      BY <1>1, ChainAssumption DEF Tick, IInv, TypeOK
    <2>2. /\ UNCHANGED <<utxo, coinbase_at, supply, index, validated>>
          /\ UNCHANGED <<tip, height, tip_work, headers, height_index>>
      BY <1>1 DEF Tick, ledger_vars, tip_vars
    <2> QED
      BY <2>1, <2>2 DEF IInv, TypeOK, IndexIsTree, SupplyWithinCap
  <1>2. CASE Reopen
    <2>1. tip' = tip
      BY <1>2 DEF Reopen
    <2> QED
      BY <1>2, <2>1, ReopenInv
  <1>3. ASSUME NEW b \in Blocks, NEW h \in 0..height + 1, ApplyBlock(b, h)
        PROVE  IInv' /\ tip_work' > tip_work
    BY <1>3, ConnectTipInv DEF ApplyBlock
  <1>4. ASSUME NEW b \in Blocks, AcceptOnTip(b)
        PROVE  IInv' /\ tip_work' > tip_work
    BY <1>4, ConnectTipInv DEF AcceptOnTip
  <1>5. ASSUME NEW b \in Blocks, AcceptSide(b)
        PROVE  IInv' /\ tip' = tip
    <2>1. /\ storable(b) /\ store_block_meta(b)
          /\ UNCHANGED <<ledger_vars, tip_vars, now>> /\ validated' = validated
          /\ validated \subseteq Blocks
      BY <1>5 DEF AcceptSide, IInv, TypeOK
    <2> QED
      BY <2>1, SideInv DEF tip_vars
  <1>6. ASSUME NEW b \in Blocks, AcceptAndSwitch(b)
        PROVE  IInv' /\ tip_work' > tip_work
    BY <1>6, SwitchInv
  <1>7. ASSUME NEW b \in Blocks, AcceptInvalidBranch(b)
        PROVE  IInv' /\ tip' = tip
    <2>1. /\ storable(b) /\ store_block_meta(b)
          /\ UNCHANGED <<ledger_vars, tip_vars, now>>
          /\ validated' = validated \cup passed(index', b, validated)
          /\ validated \subseteq Blocks
      BY <1>7 DEF AcceptInvalidBranch, IInv, TypeOK
    <2>2. IndexMap(index') /\ IsTree(index') /\ b \in DOMAIN index'
      BY <2>1, StoreTree
    <2>3. validated' \subseteq Blocks
      BY <2>1, <2>2, PassedType DEF IndexMap, IsMap
    <2> QED
      BY <2>1, <2>3, SideInv DEF tip_vars
  <1>8. CASE UNCHANGED vars
    BY <1>8 DEF vars, ledger_vars, tip_vars, IInv, TypeOK, IndexIsTree,
                SupplyWithinCap
  <1> QED
    BY <1>1, <1>2, <1>3, <1>4, <1>5, <1>6, <1>7, <1>8 DEF Next

-----------------------------------------------------------------------------
(* headers and height_index *)

\* What rebuild_active writes is exact.
LEMMA RebuildExact ==
  ASSUME rebuild_active(tip'), height' = index'[tip'].height
  PROVE  ActiveIndexExact'
PROOF
  BY DEF rebuild_active, ActiveIndexExact

LEMMA ConnectTipExact ==
  ASSUME IInv, ActiveIndexExact, NEW b \in Blocks, connect_tip(b)
  PROVE  ActiveIndexExact'
PROOF
  <1> DEFINE path  == path_from_genesis(index, tip)
             path2 == path_from_genesis(index', b)
  <1>1. IndexMap(index) /\ IsTree(index) /\ tip \in DOMAIN index
        /\ height = index[tip].height /\ height \in Nat
    BY DEF IInv, TypeOK, IndexIsTree, IndexMap
  <1>2. IndexMap(index') /\ IsTree(index') /\ b \in DOMAIN index'
        /\ tip' = b /\ height' = height + 1 /\ index'[b].height = height + 1
    BY ConnectTipInv DEF IInv, TypeOK, IndexIsTree, IndexMap, connect_tip
  <1>3. b # Genesis /\ index'[b].prev = tip
    BY <1>1, <1>2, ChainAssumption
       DEF connect_tip, connects, IsTree, IndexMap, IsMap
  <1>4. DOMAIN index \subseteq DOMAIN index'
    BY DEF connect_tip, Insert
  <1>5. /\ path_from_genesis(index', tip) = path
        /\ active(index', tip) = active(index, tip)
        /\ \A x \in DOMAIN index : index'[x].height = index[x].height
    BY <1>1, <1>2, <1>4, BranchesStay
  <1>6. active(index', b) = active(index, tip) \cup {b}
    BY <1>2, <1>3, <1>5, ActiveStep
  <1>7. active(index, tip) \subseteq DOMAIN index
    BY <1>1, PassedType
  <1>8. headers' = [x \in active(index', b) |-> index'[x].height]
    <2>1. headers' = Insert(headers, b, height + 1)
      BY DEF connect_tip
    <2>2. headers = [x \in active(index, tip) |-> index[x].height]
      BY DEF ActiveIndexExact
    <2> QED
      BY <1>2, <1>5, <1>6, <1>7, <2>1, <2>2 DEF Insert
  <1>9. /\ path2[height + 2] = b
        /\ \A i \in 1..height + 1 : path2[i] = path[i]
    <2>1. /\ path2[(height + 1) + 1] = b
          /\ \A i \in 1..height + 1 : path2[i] = path[i]
      BY <1>2, <1>3, <1>5, PathStep
    <2>2. (height + 1) + 1 = height + 2
      BY <1>1
    <2> HIDE DEF path, path2
    <2> QED
      BY <2>1, <2>2
  <1> HIDE DEF path, path2
  <1>10. height_index' = [n \in 0..height + 1 |-> path2[n + 1]]
    <2>1. height_index' = Insert(height_index, height + 1, b)
      BY DEF connect_tip
    <2>2. height_index = [n \in 0..height |-> path[n + 1]]
      BY DEF ActiveIndexExact, path
    <2>3. /\ (0..height) \cup {height + 1} = 0..height + 1
          /\ \A n \in 0..height : n # height + 1 /\ n + 1 \in 1..height + 1
          /\ (height + 1) + 1 = height + 2
      BY <1>1
    <2>4. DOMAIN height_index = 0..height
      BY <2>2
    <2>5. height_index' = [n \in 0..height + 1 |->
                             IF n = height + 1 THEN b ELSE height_index[n]]
      BY <2>1, <2>3, <2>4 DEF Insert
    <2>6. ASSUME NEW n \in 0..height + 1
          PROVE  (IF n = height + 1 THEN b ELSE height_index[n]) = path2[n + 1]
      <3>1. CASE n = height + 1
        BY <1>9, <2>3, <3>1
      <3>2. CASE n \in 0..height
        BY <1>9, <2>2, <2>3, <3>2
      <3> QED
        BY <2>3, <3>1, <3>2
    <2> QED
      BY <2>5, <2>6
  <1> QED
    BY <1>2, <1>8, <1>10 DEF ActiveIndexExact, path2

\* A block stored beside the active chain leaves its index exact.
LEMMA SideExact ==
  ASSUME IInv, IInv', ActiveIndexExact, DOMAIN index \subseteq DOMAIN index',
         UNCHANGED <<tip, height, headers, height_index>>
  PROVE  ActiveIndexExact'
PROOF
  <1>1. /\ IndexMap(index) /\ IsTree(index) /\ tip \in DOMAIN index
        /\ IndexMap(index') /\ IsTree(index')
    BY DEF IInv, TypeOK, IndexIsTree, IndexMap
  <1>2. /\ path_from_genesis(index', tip) = path_from_genesis(index, tip)
        /\ active(index', tip) = active(index, tip)
        /\ \A x \in DOMAIN index : index'[x].height = index[x].height
    BY <1>1, BranchesStay
  <1>3. active(index, tip) \subseteq DOMAIN index
    BY <1>1, PassedType
  <1>4. headers' = [x \in active(index', tip') |-> index'[x].height]
    BY <1>2, <1>3 DEF ActiveIndexExact
  <1>5. height_index' = [n \in 0..height' |->
                           path_from_genesis(index', tip')[n + 1]]
    BY <1>2 DEF ActiveIndexExact
  <1> QED
    BY <1>4, <1>5 DEF ActiveIndexExact

LEMMA InitExact ==
  Init => ActiveIndexExact
PROOF
  <1> SUFFICES ASSUME Init PROVE ActiveIndexExact
    OBVIOUS
  <1>1. IndexMap(index) /\ IsTree(index) /\ index[Genesis].height = 0
        /\ Genesis \in DOMAIN index
    BY InitInv DEF Init, IInv, TypeOK, IndexIsTree, IndexMap
  <1>2. /\ active(index, Genesis) = {Genesis}
        /\ path_from_genesis(index, Genesis)[0 + 1] = Genesis
    BY <1>1, ActiveStep, PathStep
  <1>3. \A n \in 0..0 : n = 0
    OBVIOUS
  <1>4. height_index = [n \in 0..0 |-> path_from_genesis(index, Genesis)[n + 1]]
    <2>1. height_index = [n \in {0} |-> Genesis]
      BY DEF Init
    <2>2. 0..0 = {0}
      OBVIOUS
    <2> QED
      BY <1>2, <2>1, <2>2
  <1> QED
    BY <1>1, <1>2, <1>4 DEF Init, ActiveIndexExact

LEMMA NextExact ==
  ASSUME IInv, ActiveIndexExact, [Next]_vars
  PROVE  ActiveIndexExact'
PROOF
  <1>1. IInv'
    BY NextInv
  <1>2. ASSUME UNCHANGED <<tip, height, headers, height_index, index>>
        PROVE  ActiveIndexExact'
    BY <1>2 DEF ActiveIndexExact
  <1>3. CASE Tick
    BY <1>2, <1>3 DEF Tick, tip_vars
  <1>4. CASE Reopen
    <2>1. rebuild_active(tip') /\ height' = index'[tip'].height
      BY <1>1, <1>4 DEF Reopen, IInv, IndexIsTree
    <2> QED
      BY <2>1, RebuildExact
  <1>5. ASSUME NEW b \in Blocks, NEW h \in 0..height + 1, ApplyBlock(b, h)
        PROVE  ActiveIndexExact'
    BY <1>5, ConnectTipExact DEF ApplyBlock
  <1>6. ASSUME NEW b \in Blocks, AcceptOnTip(b)
        PROVE  ActiveIndexExact'
    BY <1>6, ConnectTipExact DEF AcceptOnTip
  <1>7. ASSUME NEW b \in Blocks, AcceptSide(b) \/ AcceptInvalidBranch(b)
        PROVE  ActiveIndexExact'
    <2>1. /\ store_block_meta(b)
          /\ UNCHANGED <<tip, height, headers, height_index>>
      BY <1>7 DEF AcceptSide, AcceptInvalidBranch, tip_vars
    <2>2. DOMAIN index \subseteq DOMAIN index'
      BY <2>1 DEF store_block_meta, Insert
    <2> QED
      BY <1>1, <2>1, <2>2, SideExact
  <1>8. ASSUME NEW b \in Blocks, AcceptAndSwitch(b)
        PROVE  ActiveIndexExact'
    <2>1. rebuild_active(tip') /\ height' = index'[tip'].height
      BY <1>8 DEF AcceptAndSwitch
    <2> QED
      BY <2>1, RebuildExact
  <1>9. CASE UNCHANGED vars
    BY <1>2, <1>9 DEF vars, tip_vars
  <1> QED
    BY <1>3, <1>4, <1>5, <1>6, <1>7, <1>8, <1>9 DEF Next

-----------------------------------------------------------------------------
(* Theorems *)

LEMMA Invariance ==
  Spec => []IInv
PROOF
  <1>1. Init => IInv
    BY InitInv
  <1>2. IInv /\ [Next]_vars => IInv'
    BY NextInv
  <1> QED
    BY <1>1, <1>2, PTL DEF Spec

\* Every variable keeps the shape of its Rust type.
THEOREM TypeCorrect ==
  Spec => []TypeOK
PROOF
  <1>1. IInv => TypeOK
    BY DEF IInv
  <1> QED
    BY <1>1, Invariance, PTL

\* The block index is a tree rooted at genesis whose heights and works add up
\* along it, and tip, height and tip_work always describe one block of it,
\* whichever of the paths of apply_block and accept_block wrote them.
THEOREM IndexStaysTree ==
  Spec => []IndexIsTree
PROOF
  <1>1. IInv => IndexIsTree
    BY DEF IInv
  <1> QED
    BY <1>1, Invariance, PTL

\* No sequence of blocks, forks and reorgs issues more than MAX_SUPPLY.
THEOREM SupplyCapped ==
  Spec => []SupplyWithinCap
PROOF
  <1>1. IInv => SupplyWithinCap
    BY DEF IInv
  <1> QED
    BY <1>1, Invariance, PTL

\* headers and height_index, which connect_tip extends by one entry and switch_to
\* and load_or_init write anew, always hold the active chain and nothing else.
THEOREM ActiveIndexStaysExact ==
  Spec => []ActiveIndexExact
PROOF
  <1>1. Init => ActiveIndexExact
    BY InitExact
  <1>2. IInv /\ ActiveIndexExact /\ [Next]_vars => ActiveIndexExact'
    BY NextExact
  <1> QED
    BY <1>1, <1>2, Invariance, PTL DEF Spec

-----------------------------------------------------------------------------
(* Work, height and ledger of a branch *)

Parent == [b \in Blocks |-> Header[b].prev]

LEMMA ParentAcyclic ==
  IsAcyclic(Blocks, Parent)
PROOF
  BY AcyclicAssumption DEF IsAcyclic, Parent

LEMMA BranchWorkDef ==
  \A b \in Blocks :
     BranchWork[b] = work_from_bits(Header[b].bits)
                       + IF Header[b].prev \in Blocks
                         THEN BranchWork[Header[b].prev] ELSE 0
PROOF
  <1> DEFINE G == [p \in Blocks \X Nat |->
                     work_from_bits(Header[p[1]].bits) + p[2]]
  <1>1. \A b \in Blocks : work_from_bits(Header[b].bits) \in Nat
    BY ChainAssumption
  <1>2. \A b \in Blocks : \A x \in Nat :
           /\ G[<<b, x>>] = work_from_bits(Header[b].bits) + x
           /\ G[<<b, x>>] \in Nat
    BY <1>1
  <1> HIDE DEF G
  <1>3. PICK f : FollowsLinks(f, Blocks, Blocks, Parent, Nat, 0, G)
    BY <1>2, ParentAcyclic, LinkRecursionExists
  <1>4. f \in [Blocks -> Nat]
        /\ \A b \in Blocks :
              f[b] = G[<<b, IF Parent[b] \in Blocks THEN f[Parent[b]] ELSE 0>>]
    BY <1>3 DEF FollowsLinks
  <1>5. f = [b \in Blocks |-> work_from_bits(Header[b].bits)
                                + IF Header[b].prev \in Blocks
                                  THEN f[Header[b].prev] ELSE 0]
    <2>1. ASSUME NEW b \in Blocks
          PROVE  f[b] = work_from_bits(Header[b].bits)
                          + IF Header[b].prev \in Blocks
                            THEN f[Header[b].prev] ELSE 0
      <3>1. Parent[b] = Header[b].prev
        BY DEF Parent
      <3> DEFINE x == IF Header[b].prev \in Blocks THEN f[Header[b].prev] ELSE 0
      <3>2. x \in Nat
        BY <1>4
      <3>3. f[b] = G[<<b, x>>]
        BY <1>4, <3>1
      <3> HIDE DEF x
      <3>4. f[b] = work_from_bits(Header[b].bits) + x
        BY <1>2, <3>2, <3>3
      <3> QED
        BY <3>4 DEF x
    <2> QED
      BY <1>4, <2>1
  <1> DEFINE IsWork(g) == g = [b \in Blocks |->
                                 work_from_bits(Header[b].bits)
                                   + IF Header[b].prev \in Blocks
                                     THEN g[Header[b].prev] ELSE 0]
  <1>6. BranchWork = CHOOSE g : IsWork(g)
    BY DEF BranchWork
  <1>7. IsWork(BranchWork)
    BY <1>5, <1>6
  <1> QED
    BY <1>7

LEMMA BranchHeightDef ==
  \A b \in Blocks :
     BranchHeight[b] = IF Header[b].prev \in Blocks
                       THEN BranchHeight[Header[b].prev] + 1 ELSE 0
PROOF
  <1> DEFINE G == [p \in Blocks \X Int |-> p[2] + 1]
  <1>1. \A b \in Blocks : \A x \in Int : /\ G[<<b, x>>] = x + 1
                                         /\ G[<<b, x>>] \in Int
    OBVIOUS
  <1> HIDE DEF G
  <1>2. PICK f : FollowsLinks(f, Blocks, Blocks, Parent, Int, -1, G)
    BY <1>1, ParentAcyclic, LinkRecursionExists
  <1>3. f \in [Blocks -> Int]
        /\ \A b \in Blocks :
              f[b] = G[<<b, IF Parent[b] \in Blocks THEN f[Parent[b]] ELSE -1>>]
    BY <1>2 DEF FollowsLinks
  <1>4. ASSUME NEW b \in Blocks
        PROVE  f[b] = IF Header[b].prev \in Blocks THEN f[Header[b].prev] + 1
                                                   ELSE 0
    <2>1. Parent[b] = Header[b].prev
      BY DEF Parent
    <2>2. CASE Header[b].prev \in Blocks
      <3>1. f[Header[b].prev] \in Int /\ f[b] = G[<<b, f[Header[b].prev]>>]
        BY <1>3, <2>1, <2>2
      <3> QED
        BY <1>1, <2>2, <3>1
    <2>3. CASE Header[b].prev \notin Blocks
      <3>1. f[b] = G[<<b, -1>>]
        BY <1>3, <2>1, <2>3
      <3>2. G[<<b, -1>>] = -1 + 1
        BY <1>1
      <3> QED
        BY <2>3, <3>1, <3>2
    <2> QED
      BY <2>2, <2>3
  <1> DEFINE IsHeight(g) == g = [b \in Blocks |->
                                   IF Header[b].prev \in Blocks
                                   THEN g[Header[b].prev] + 1 ELSE 0]
  <1>5. IsHeight(f)
    BY <1>3, <1>4
  <1>6. BranchHeight = CHOOSE g : IsHeight(g)
    BY DEF BranchHeight
  <1>7. IsHeight(BranchHeight)
    BY <1>5, <1>6
  <1> QED
    BY <1>7

LEMMA BranchLedgerDef ==
  \A b \in Blocks :
     BranchLedger[b] = Extend(IF Header[b].prev \in Blocks
                              THEN BranchLedger[Header[b].prev]
                              ELSE EmptyLedger, b, BranchHeight[b], TRUE)
PROOF
  <1> DEFINE L == CappedLedgers \cup {Invalid}
             G == [p \in Blocks \X L |->
                     Extend(p[2], p[1], BranchHeight[p[1]], TRUE)]
  <1>1. \A b \in Blocks : BranchHeight[b] \in Nat
    <2> DEFINE S == {b \in Blocks : BranchHeight[b] \notin Nat}
    <2> SUFFICES ASSUME S # {} PROVE FALSE
      OBVIOUS
    <2>1. PICK b \in S : Header[b].prev \notin S
      BY AcyclicAssumption
    <2>2. Header[b].prev \in Blocks => BranchHeight[Header[b].prev] \in Nat
      BY <2>1
    <2>3. BranchHeight[b] \in Nat
      BY <2>1, <2>2, BranchHeightDef
    <2> QED
      BY <2>1, <2>3
  <1>2. \A b \in Blocks : \A x \in L :
           /\ G[<<b, x>>] = Extend(x, b, BranchHeight[b], TRUE)
           /\ G[<<b, x>>] \in L
    <2> TAKE b \in Blocks
    <2>1. BranchHeight[b] \in Nat
      BY <1>1
    <2>2. \A x \in L : Extend(x, b, BranchHeight[b], TRUE) \in L
      BY <2>1, ExtendType
    <2> HIDE DEF L
    <2> QED
      BY <2>2
  <1>3. EmptyLedger \in L
    BY EmptyLedgerCapped
  <1> HIDE DEF G, L
  <1>4. PICK f : FollowsLinks(f, Blocks, Blocks, Parent, L, EmptyLedger, G)
    BY <1>2, <1>3, ParentAcyclic, LinkRecursionExists
  <1>5. f \in [Blocks -> L]
        /\ \A b \in Blocks : f[b] = G[<<b, IF Parent[b] \in Blocks
                                           THEN f[Parent[b]] ELSE EmptyLedger>>]
    BY <1>4 DEF FollowsLinks
  <1> DEFINE Before(g, b) == IF Header[b].prev \in Blocks
                             THEN g[Header[b].prev] ELSE EmptyLedger
             Step(g, b) == IF Before(g, b) = Invalid THEN Invalid
                           ELSE IF validate_txs(Before(g, b), Txs[b],
                                                BranchHeight[b], TRUE)
                                THEN apply_txs(Before(g, b), Txs[b],
                                               BranchHeight[b])
                                ELSE Invalid
             IsLedger(g) == g = [b \in Blocks |-> Step(g, b)]
  <1>6. \A g : \A b \in Blocks :
           Step(g, b) = Extend(Before(g, b), b, BranchHeight[b], TRUE)
    BY DEF Extend
  <1>7. ASSUME NEW b \in Blocks PROVE f[b] = Step(f, b)
    <2>1. Parent[b] = Header[b].prev
      BY DEF Parent
    <2>2. Before(f, b) \in L /\ f[b] = G[<<b, Before(f, b)>>]
      BY <1>3, <1>5, <2>1
    <2>3. f[b] = Extend(Before(f, b), b, BranchHeight[b], TRUE)
      <3> HIDE DEF Before, Step
      <3> QED
        BY <1>2, <2>2
    <2> HIDE DEF Step
    <2> QED
      BY <1>6, <2>3
  <1>8. IsLedger(f)
    <2> HIDE DEF Step
    <2> QED
      BY <1>5, <1>7
  <1>9. BranchLedger = CHOOSE g : IsLedger(g)
    BY DEF BranchLedger
  <1>10. IsLedger(BranchLedger)
    <2> HIDE DEF IsLedger
    <2> QED
      BY <1>8, <1>9
  <1> QED
    <2> HIDE DEF Step
    <2>1. ASSUME NEW b \in Blocks PROVE BranchLedger[b] = Step(BranchLedger, b)
      BY <1>10
    <2> QED
      BY <1>6, <2>1

\* What the index says of a stored block, and what a replay of its branch comes
\* to, is what its branch says.
LEMMA StoredBranch ==
  ASSUME NEW idx, IndexMap(idx), IsTree(idx)
  PROVE  \A t \in DOMAIN idx :
            /\ t \in Blocks
            /\ idx[t].work = BranchWork[t]
            /\ idx[t].height = BranchHeight[t]
            /\ outcome(idx, t, {}) = BranchLedger[t]
PROOF
  <1> DEFINE Fits(t) == /\ idx[t].work = BranchWork[t]
                        /\ idx[t].height = BranchHeight[t]
                        /\ outcome(idx, t, {}) = BranchLedger[t]
             S == {t \in DOMAIN idx : Fits(t)}
  <1>1. \A t \in DOMAIN idx :
           /\ t \in Blocks /\ idx[t].work \in Nat /\ idx[t].height \in Nat
           /\ work_from_bits(Header[t].bits) \in Nat
    <2>1. \A t \in DOMAIN idx : t \in Blocks /\ idx[t] \in Idx
      BY DEF IndexMap, IsMap
    <2> QED
      BY <2>1, ChainAssumption DEF Idx
  <1>2. Genesis \in S
    <2>1. /\ Genesis \in DOMAIN idx /\ Header[Genesis].prev \notin Blocks
          /\ idx[Genesis].height = 0
          /\ idx[Genesis].work = work_from_bits(Header[Genesis].bits)
      BY ChainAssumption DEF IsTree
    <2>2. BranchHeight[Genesis] = 0
      BY <1>1, <2>1, BranchHeightDef
    <2>3. BranchWork[Genesis] = work_from_bits(Header[Genesis].bits)
      BY <1>1, <2>1, BranchWorkDef
    <2>4. BranchLedger[Genesis] = Extend(EmptyLedger, Genesis, 0, TRUE)
      BY <1>1, <2>1, <2>2, BranchLedgerDef
    <2>5. outcome(idx, Genesis, {}) = Extend(EmptyLedger, Genesis, 0, TRUE)
      <3>1. outcome(idx, Genesis, {})
              = Extend(EmptyLedger, Genesis, idx[Genesis].height,
                       Genesis \notin {})
        BY <2>1, OutcomeStep
      <3>2. (Genesis \notin {}) = TRUE
        OBVIOUS
      <3> QED
        BY <2>1, <3>1, <3>2
    <2> QED
      BY <2>1, <2>2, <2>3, <2>4, <2>5
  <1>3. ASSUME NEW t \in DOMAIN idx \ {Genesis}, idx[t].prev \in S
        PROVE  t \in S
    <2> DEFINE p == Header[t].prev
    <2>1. /\ p = idx[t].prev /\ p \in DOMAIN idx /\ p \in Blocks /\ Fits(p)
          /\ idx[t].height = idx[p].height + 1
          /\ idx[t].work = idx[p].work + work_from_bits(Header[t].bits)
      BY <1>1, <1>3 DEF IsTree
    <2>2. t \in Blocks
      BY <1>1
    <2>3. idx[t].height = BranchHeight[t]
      BY <2>1, <2>2, BranchHeightDef
    <2>4. idx[t].work = BranchWork[t]
      <3>1. BranchWork[t] = work_from_bits(Header[t].bits) + BranchWork[p]
        BY <2>1, <2>2, BranchWorkDef
      <3>2. BranchWork[p] = idx[p].work /\ idx[p].work \in Nat
        BY <1>1, <2>1
      <3> QED
        BY <1>1, <2>1, <3>1, <3>2
    <2>5. outcome(idx, t, {}) = BranchLedger[t]
      <3>1. outcome(idx, t, {})
              = Extend(outcome(idx, p, {}), t, idx[t].height, t \notin {})
        BY <2>1, OutcomeStep
      <3>2. BranchLedger[t] = Extend(BranchLedger[p], t, BranchHeight[t], TRUE)
        BY <2>1, <2>2, BranchLedgerDef
      <3>3. (t \notin {}) = TRUE
        OBVIOUS
      <3> QED
        BY <2>1, <2>3, <3>1, <3>2, <3>3
    <2> QED
      BY <2>3, <2>4, <2>5
  <1> HIDE DEF S
  <1>4. DOMAIN idx \subseteq S
    BY <1>2, <1>3, TreeInduction
  <1> QED
    BY <1>1, <1>4 DEF S

-----------------------------------------------------------------------------
(* The two maps of a ledger *)

\* The outpoints that some coinbase pays to.
Minted ==
  UNION {UNION {Created(Txs[b][i]) :
                  i \in {j \in DOMAIN Txs[b] : Txs[b][j].coinbase}} :
           b \in Blocks}

\* What u, the unspent outputs, and cb, the coinbase map, have to do with the
\* blocks A they come from: every output is of a transaction of A, of the first of
\* its block if that is a coinbase; cb holds it exactly if it is of a coinbase;
\* and cb gives each outpoint the height of a block of A that mints it.
MapsFit(u, cb, A) ==
  /\ \A o \in DOMAIN u : \E a \in A : \E i \in DOMAIN Txs[a] :
        /\ o \in Created(Txs[a][i])
        /\ Txs[a][i].coinbase => i = 1
  /\ \A o \in DOMAIN u : o \in DOMAIN cb <=> o \in Minted
  /\ \A o \in DOMAIN cb : \E a \in A : /\ o \in coinbase_outputs(a)
                                       /\ cb[o] = BranchHeight[a]

\* An outpoint names its transaction by the txid: transactions that share one
\* agree on what is a coinbase and on what is spendable.
LEMMA SameTxid ==
  ASSUME NEW o, NEW a \in Blocks, NEW i \in DOMAIN Txs[a], o \in Created(Txs[a][i])
  PROVE  /\ \A b \in Blocks : o \in coinbase_outputs(b)
               => /\ Txs[a][i].coinbase
                  /\ 1 \in DOMAIN Txs[b] /\ Txs[b][1].coinbase
                  /\ o \in Created(Txs[b][1])
         /\ o \in Minted => Txs[a][i].coinbase
         /\ Txs[a][i].coinbase /\ i = 1 => o \in coinbase_outputs(a)
PROOF
  <1>1. PICK v \in DOMAIN Txs[a][i].outputs :
           o = <<Txs[a][i].txid, v>> /\ Txs[a][i].outputs[v].spendable
    BY DEF Created
  <1>2. ASSUME NEW b \in Blocks, o \in coinbase_outputs(b)
        PROVE  /\ Txs[a][i].coinbase
               /\ 1 \in DOMAIN Txs[b] /\ Txs[b][1].coinbase
               /\ o \in Created(Txs[b][1])
    <2>1. Txs[b] # << >> /\ Txs[b][1].coinbase
      BY <1>2 DEF coinbase_outputs
    <2>2. PICK w \in DOMAIN Txs[b][1].outputs : o = <<Txs[b][1].txid, w>>
      BY <1>2, <2>1 DEF coinbase_outputs
    <2>3. Txs[b] \in Seq(Transaction)
      BY ChainAssumption
    <2>4. 1 \in DOMAIN Txs[b]
      BY <2>1, <2>3
    <2>5. Txs[a][i].txid = Txs[b][1].txid /\ w = v
      BY <1>1, <2>2
    <2>6. /\ Txs[a][i].coinbase = Txs[b][1].coinbase
          /\ Txs[a][i].outputs = Txs[b][1].outputs
      BY <2>4, <2>5, TxidAssumption
    <2> QED
      BY <1>1, <2>1, <2>2, <2>4, <2>5, <2>6 DEF Created
  <1>3. ASSUME o \in Minted PROVE Txs[a][i].coinbase
    <2>1. PICK b \in Blocks : \E j \in DOMAIN Txs[b] :
             Txs[b][j].coinbase /\ o \in Created(Txs[b][j])
      BY <1>3 DEF Minted
    <2>2. PICK j \in DOMAIN Txs[b] :
             Txs[b][j].coinbase /\ o \in Created(Txs[b][j])
      BY <2>1
    <2>3. Txs[a][i].txid = Txs[b][j].txid
      BY <1>1, <2>2 DEF Created
    <2> QED
      BY <2>2, <2>3, TxidAssumption
  <1>4. ASSUME Txs[a][i].coinbase, i = 1 PROVE o \in coinbase_outputs(a)
    <2>1. Txs[a] # << >>
      BY <1>4
    <2> QED
      BY <1>1, <1>4, <2>1 DEF coinbase_outputs
  <1> QED
    BY <1>2, <1>3, <1>4

LEMMA MapsFitMore ==
  ASSUME NEW u, NEW cb, NEW A, NEW B, A \subseteq B, MapsFit(u, cb, A)
  PROVE  MapsFit(u, cb, B)
PROOF
  BY DEF MapsFit

\* A transaction of a block at its height keeps the maps fitting.
LEMMA MapsFitTx ==
  ASSUME NEW A \in SUBSET Blocks, NEW b \in A, NEW i \in DOMAIN Txs[b],
         Txs[b][i].coinbase => i = 1, BranchHeight[b] \in Nat,
         NEW l \in LedgerSet, MapsFit(l.utxo, l.cb, A)
  PROVE  LET r == apply_tx(l, Txs[b][i], BranchHeight[b])
         IN  MapsFit(r.utxo, r.cb, A)
PROOF
  <1> DEFINE tx == Txs[b][i]
             spent == Range(tx.inputs)
             made  == Created(tx)
             fresh == IF tx.coinbase THEN made ELSE {}
             r     == apply_tx(l, tx, BranchHeight[b])
  <1>1. tx \in Transaction /\ b \in Blocks
    BY ChainAssumption
  <1>2. /\ DOMAIN r.utxo = (DOMAIN l.utxo \ spent) \cup made
        /\ DOMAIN r.cb = (DOMAIN l.cb \ spent) \cup fresh
        /\ \A o \in DOMAIN r.cb :
              r.cb[o] = IF o \in fresh THEN BranchHeight[b] ELSE l.cb[o]
    BY <1>1, ApplyTxMaps
  <1>3. tx.coinbase \in BOOLEAN
    BY <1>1 DEF Transaction
  <1>4. tx.coinbase => made \subseteq coinbase_outputs(b) \cap Minted
    <2> SUFFICES ASSUME tx.coinbase, NEW o \in made
                 PROVE  o \in coinbase_outputs(b) /\ o \in Minted
      OBVIOUS
    <2>1. o \in coinbase_outputs(b)
      BY <1>1, SameTxid
    <2>2. o \in Minted
      BY <1>1 DEF Minted
    <2> QED
      BY <2>1, <2>2
  <1>5. ~ tx.coinbase => \A o \in made : o \notin Minted /\ o \notin DOMAIN l.cb
    <2> SUFFICES ASSUME ~ tx.coinbase, NEW o \in made
                 PROVE  o \notin Minted /\ o \notin DOMAIN l.cb
      OBVIOUS
    <2>1. o \notin Minted
      BY <1>1, SameTxid
    <2>2. \A a \in Blocks : o \notin coinbase_outputs(a)
      BY <1>1, SameTxid
    <2> QED
      BY <2>1, <2>2 DEF MapsFit
  <1> HIDE DEF r, made, spent, fresh
  <1>6. ASSUME NEW o \in DOMAIN r.utxo
        PROVE  /\ \E a \in A : \E j \in DOMAIN Txs[a] :
                     /\ o \in Created(Txs[a][j])
                     /\ Txs[a][j].coinbase => j = 1
               /\ o \in DOMAIN r.cb <=> o \in Minted
    <2>1. CASE o \in made
      <3>1. o \in DOMAIN r.cb <=> o \in Minted
        BY <1>2, <1>3, <1>4, <1>5, <2>1 DEF fresh
      <3> QED
        BY <2>1, <3>1 DEF made
    <2>2. CASE o \notin made
      <3>1. o \in DOMAIN l.utxo /\ o \notin spent
        BY <1>2, <1>6, <2>2
      <3>2. o \in DOMAIN r.cb <=> o \in DOMAIN l.cb
        BY <1>2, <2>2, <3>1 DEF fresh
      <3> QED
        BY <3>1, <3>2 DEF MapsFit
    <2> QED
      BY <2>1, <2>2
  <1>7. ASSUME NEW o \in DOMAIN r.cb
        PROVE  \E a \in A : o \in coinbase_outputs(a) /\ r.cb[o] = BranchHeight[a]
    <2>1. CASE o \in fresh
      BY <1>2, <1>3, <1>4, <2>1 DEF fresh
    <2>2. CASE o \notin fresh
      <3>1. o \in DOMAIN l.cb /\ r.cb[o] = l.cb[o]
        BY <1>2, <1>7, <2>2
      <3> QED
        BY <3>1 DEF MapsFit
    <2> QED
      BY <2>1, <2>2
  <1> QED
    BY <1>6, <1>7 DEF MapsFit, r

\* A valid block of A keeps the maps fitting, whichever way it is applied.
LEMMA MapsFitBlock ==
  ASSUME NEW A \in SUBSET Blocks, NEW b \in A, BranchHeight[b] \in Nat,
         NEW l \in LedgerSet, MapsFit(l.utxo, l.cb, A), NEW sigs \in BOOLEAN,
         validate_txs(l, Txs[b], BranchHeight[b], sigs)
  PROVE  LET r == apply_each(l, Txs[b], BranchHeight[b])
         IN  MapsFit(r.utxo, r.cb, A)
PROOF
  <1> DEFINE n == Len(Txs[b])
             T == [i \in 0..n |-> {x \in LedgerSet : MapsFit(x.utxo, x.cb, A)}]
  <1>1. Txs[b] \in Seq(Transaction)
    BY ChainAssumption
  <1>2. n \in Nat /\ DOMAIN Txs[b] = 1..n
    BY <1>1
  <1>3. l \in T[0]
    BY <1>2
  <1>4. ASSUME NEW i \in 1..n, NEW x \in LedgerSet, x \in T[i - 1]
        PROVE  apply_tx(x, Txs[b][i], BranchHeight[b]) \in T[i]
    <2>1. i - 1 \in 0..n /\ i \in 0..n /\ i \in DOMAIN Txs[b]
      BY <1>2
    <2>2. Txs[b][i].coinbase => i = 1
      BY <2>1 DEF validate_txs
    <2>3. Txs[b][i] \in Transaction
      BY <1>1, <2>1
    <2>4. apply_tx(x, Txs[b][i], BranchHeight[b]) \in LedgerSet
      BY <2>3, ApplyTxLedger
    <2>5. MapsFit(x.utxo, x.cb, A)
      BY <1>4, <2>1
    <2> DEFINE r == apply_tx(x, Txs[b][i], BranchHeight[b])
    <2>6. MapsFit(r.utxo, r.cb, A)
      BY <2>1, <2>2, <2>5, MapsFitTx
    <2> QED
      BY <2>1, <2>4, <2>6
  <1> HIDE DEF T
  <1>5. apply_each(l, Txs[b], BranchHeight[b]) \in T[n]
    BY <1>1, <1>3, <1>4, ApplyEachKeeps
  <1> QED
    BY <1>2, <1>5 DEF T

\* apply_txs differs from apply_each in the supply only.
LEMMA ApplyTxsMaps ==
  ASSUME NEW l \in LedgerSet, NEW b \in Blocks, NEW h \in Nat
  PROVE  /\ apply_txs(l, Txs[b], h).utxo = apply_each(l, Txs[b], h).utxo
         /\ apply_txs(l, Txs[b], h).cb = apply_each(l, Txs[b], h).cb
         /\ apply_txs(l, Txs[b], h).supply
              = issue(l.supply, OutputTotal(Txs[b][1]), Fees(l.utxo, Txs[b]))
PROOF
  <1>1. apply_each(l, Txs[b], h) \in LedgerSet
    BY ChainAssumption, ApplyEachLedger
  <1> QED
    BY <1>1 DEF apply_txs, LedgerSet

LEMMA InvalidIsNoLedger ==
  Invalid \notin LedgerSet
PROOF
  <1>1. \A l \in LedgerSet : DOMAIN l = {"utxo", "cb", "supply"}
    BY DEF LedgerSet
  <1>2. DOMAIN Invalid = {"invalid"}
    BY DEF Invalid
  <1>3. "utxo" \notin {"invalid"}
    OBVIOUS
  <1> QED
    BY <1>1, <1>2, <1>3

\* A ledger a valid block is applied to, or the empty one, is a ledger, and a
\* branch that replays ends in a block that validates on its parent's ledger.
LEMMA OutcomeOfBlock ==
  ASSUME NEW idx, IndexMap(idx), IsTree(idx), NEW t \in DOMAIN idx,
         outcome(idx, t, {}) # Invalid
  PROVE  LET l == IF t = Genesis THEN EmptyLedger
                                 ELSE outcome(idx, idx[t].prev, {})
         IN  /\ l \in CappedLedgers
             /\ validate_txs(l, Txs[t], idx[t].height, TRUE)
             /\ outcome(idx, t, {}) = apply_txs(l, Txs[t], idx[t].height)
             /\ outcome(idx, t, {}) \in CappedLedgers
PROOF
  <1> DEFINE l == IF t = Genesis THEN EmptyLedger
                                 ELSE outcome(idx, idx[t].prev, {})
  <1>1. outcome(idx, t, {}) = Extend(l, t, idx[t].height, t \notin {})
    BY OutcomeStep
  <1>2. l \in CappedLedgers \cup {Invalid}
    BY EmptyLedgerCapped, OutcomeType, WalkDown
  <1> HIDE DEF l
  <1>3. /\ l # Invalid
        /\ validate_txs(l, Txs[t], idx[t].height, TRUE)
        /\ outcome(idx, t, {}) = apply_txs(l, Txs[t], idx[t].height)
    BY <1>1 DEF Extend
  <1>4. outcome(idx, t, {}) \in CappedLedgers
    BY OutcomeType
  <1> QED
    BY <1>2, <1>3, <1>4 DEF l

\* The ledger a replay leaves fits the blocks replayed.
LEMMA OutcomeFits ==
  ASSUME NEW idx, IndexMap(idx), IsTree(idx)
  PROVE  \A t \in DOMAIN idx : outcome(idx, t, {}) # Invalid
            => MapsFit(outcome(idx, t, {}).utxo, outcome(idx, t, {}).cb,
                       active(idx, t))
PROOF
  <1> DEFINE out(t) == outcome(idx, t, {})
             Fits(t) == out(t) # Invalid
                          => MapsFit(out(t).utxo, out(t).cb, active(idx, t))
             S == {t \in DOMAIN idx : Fits(t)}
  <1>1. ASSUME NEW t \in DOMAIN idx, out(t) # Invalid, NEW l \in CappedLedgers,
               validate_txs(l, Txs[t], idx[t].height, TRUE),
               out(t) = apply_txs(l, Txs[t], idx[t].height),
               NEW A \in SUBSET Blocks, MapsFit(l.utxo, l.cb, A), t \in A
        PROVE  MapsFit(out(t).utxo, out(t).cb, A)
    <2>1. t \in Blocks /\ idx[t].height = BranchHeight[t]
      BY StoredBranch
    <2>2. idx[t].height \in Nat /\ l \in LedgerSet
      BY DEF IndexMap, IsMap, Idx, CappedLedgers
    <2> HIDE DEF out
    <2> DEFINE r == apply_each(l, Txs[t], idx[t].height)
    <2>3. MapsFit(r.utxo, r.cb, A)
      BY <1>1, <2>1, <2>2, MapsFitBlock
    <2> HIDE DEF r
    <2>4. out(t).utxo = r.utxo /\ out(t).cb = r.cb
      BY <1>1, <2>1, <2>2, ApplyTxsMaps DEF r
    <2> QED
      BY <2>3, <2>4
  <1>2. \A t \in DOMAIN idx : active(idx, t) \subseteq Blocks
    BY PassedType DEF IndexMap, IsMap
  <1>3. Genesis \in S
    <2>1. Genesis \in DOMAIN idx /\ active(idx, Genesis) = {Genesis}
      BY ActiveStep DEF IsTree
    <2> SUFFICES ASSUME out(Genesis) # Invalid
                 PROVE  MapsFit(out(Genesis).utxo, out(Genesis).cb, {Genesis})
      BY <2>1
    <2>2. MapsFit(EmptyLedger.utxo, EmptyLedger.cb, {Genesis})
      BY DEF MapsFit, EmptyLedger
    <2>3. /\ EmptyLedger \in CappedLedgers
          /\ validate_txs(EmptyLedger, Txs[Genesis], idx[Genesis].height, TRUE)
          /\ out(Genesis) = apply_txs(EmptyLedger, Txs[Genesis],
                                      idx[Genesis].height)
      BY <2>1, OutcomeOfBlock
    <2> HIDE DEF out
    <2> QED
      BY <1>1, <1>2, <2>1, <2>2, <2>3
  <1>4. ASSUME NEW t \in DOMAIN idx \ {Genesis}, idx[t].prev \in S
        PROVE  t \in S
    <2> SUFFICES ASSUME out(t) # Invalid
                 PROVE  MapsFit(out(t).utxo, out(t).cb, active(idx, t))
      BY <1>4
    <2> DEFINE p == idx[t].prev
    <2>1. p \in DOMAIN idx /\ Fits(p)
      BY <1>4
    <2>2. active(idx, t) = active(idx, p) \cup {t}
      BY ActiveStep
    <2>3. /\ out(p) \in CappedLedgers
          /\ validate_txs(out(p), Txs[t], idx[t].height, TRUE)
          /\ out(t) = apply_txs(out(p), Txs[t], idx[t].height)
      BY OutcomeOfBlock
    <2>4. out(p) # Invalid
      BY <2>3, InvalidIsNoLedger DEF CappedLedgers
    <2> HIDE DEF out
    <2>5. MapsFit(out(p).utxo, out(p).cb, active(idx, t))
      BY <2>1, <2>2, <2>4, MapsFitMore
    <2> QED
      BY <1>1, <1>2, <1>4, <2>2, <2>3, <2>5
  <1> HIDE DEF S
  <1>5. DOMAIN idx \subseteq S
    BY <1>3, <1>4, TreeInduction
  <1> QED
    BY <1>5 DEF S, out

\* So does the coinbase map rebuild_active collects, although it holds spent
\* outputs and the lower height of two coinbases.
LEMMA RebuiltFits ==
  ASSUME NEW idx, IndexMap(idx), IsTree(idx), NEW t \in DOMAIN idx,
         NEW u, NEW cb, MapsFit(u, cb, active(idx, t))
  PROVE  MapsFit(u, rebuilt_cb(idx, t), active(idx, t))
PROOF
  <1> DEFINE path == path_from_genesis(idx, t)
             at(i) == coinbase_outputs(path[i])
             first(o) == CHOOSE i \in DOMAIN path :
                           o \in at(i) /\ \A j \in DOMAIN path :
                                            o \in at(j) => i =< j
             D == UNION {at(i) : i \in DOMAIN path}
             A == active(idx, t)
             new == rebuilt_cb(idx, t)
  <1>1. /\ DOMAIN path \in SUBSET Nat
        /\ \A i \in DOMAIN path : path[i] \in A
        /\ \A a \in A : \E i \in DOMAIN path : a = path[i]
    <2>1. DOMAIN path = 1..idx[t].height + 1
      BY PathType
    <2>2. 1..idx[t].height + 1 \subseteq Nat
      BY DEF IndexMap, IsMap, Idx
    <2> QED
      BY <2>1, <2>2 DEF active, Range
  <1>2. \A a \in A : a \in Blocks /\ idx[a].height = BranchHeight[a]
    BY PassedType, StoredBranch
  <1>3. new = [o \in D |-> idx[path[first(o)]].height]
    BY DEF rebuilt_cb
  <1> HIDE DEF path, A, new
  <1>4. ASSUME NEW o \in D PROVE first(o) \in DOMAIN path /\ o \in at(first(o))
    <2> DEFINE K == {i \in DOMAIN path : o \in at(i)}
    <2>1. K \in SUBSET Nat /\ K # {}
      BY <1>1
    <2>2. PICK m \in K : \A k \in K : m =< k
      BY <2>1, LeastNatural
    <2>3. m \in DOMAIN path /\ o \in at(m)
          /\ \A j \in DOMAIN path : o \in at(j) => m =< j
      BY <2>2
    <2> QED
      BY <2>3
  <1>5. ASSUME NEW o \in DOMAIN new
        PROVE  \E a \in A : o \in coinbase_outputs(a) /\ new[o] = BranchHeight[a]
    <2>1. o \in D /\ new[o] = idx[path[first(o)]].height
      BY <1>3
    <2> HIDE DEF D, first
    <2>2. path[first(o)] \in A /\ o \in coinbase_outputs(path[first(o)])
      BY <1>1, <1>4, <2>1
    <2> QED
      BY <1>2, <2>1, <2>2
  <1>6. D = UNION {coinbase_outputs(a) : a \in A}
    <2>1. \A o : o \in D => \E a \in A : o \in coinbase_outputs(a)
      BY <1>1
    <2>2. ASSUME NEW a \in A, NEW o \in coinbase_outputs(a) PROVE o \in D
      BY <1>1
    <2> HIDE DEF D
    <2> QED
      BY <2>1, <2>2
  <1> HIDE DEF D, first, at
  <1>7. DOMAIN new = D
    BY <1>3
  <1>8. ASSUME NEW o \in DOMAIN u
        PROVE  o \in DOMAIN new <=> o \in Minted
    <2>1. PICK a \in A : \E i \in DOMAIN Txs[a] :
             /\ o \in Created(Txs[a][i])
             /\ Txs[a][i].coinbase => i = 1
      BY DEF MapsFit, A
    <2>2. PICK i \in DOMAIN Txs[a] : /\ o \in Created(Txs[a][i])
                                     /\ Txs[a][i].coinbase => i = 1
      BY <2>1
    <2>3. a \in Blocks
      BY <1>2
    <2>4. ASSUME o \in DOMAIN new PROVE o \in Minted
      <3>1. PICK b \in A : o \in coinbase_outputs(b)
        BY <1>5, <2>4
      <3>2. b \in Blocks
        BY <1>2
      <3>3. 1 \in DOMAIN Txs[b] /\ Txs[b][1].coinbase /\ o \in Created(Txs[b][1])
        BY <2>2, <2>3, <3>1, <3>2, SameTxid
      <3> QED
        BY <3>2, <3>3 DEF Minted
    <2>5. ASSUME o \in Minted PROVE o \in DOMAIN new
      <3>1. Txs[a][i].coinbase
        BY <2>2, <2>3, <2>5, SameTxid
      <3>2. o \in coinbase_outputs(a)
        BY <2>2, <2>3, <3>1, SameTxid
      <3> QED
        BY <1>6, <1>7, <3>2
    <2> QED
      BY <2>4, <2>5
  <1> QED
    BY <1>5, <1>8 DEF MapsFit, A, new

\* Two coinbase maps that fit the same outputs and blocks hold the same unspent
\* outputs, give each the same height unless two blocks mint it, and agree on
\* which are mature above these blocks.
LEMMA FittingMapsAgree ==
  ASSUME NEW A \in SUBSET Blocks, \A a \in A : BranchHeight[a] \in Nat,
         NEW u, NEW cb, NEW cc, MapsFit(u, cb, A), MapsFit(u, cc, A),
         NEW o \in DOMAIN u
  PROVE  /\ o \in DOMAIN cb <=> o \in DOMAIN cc
         /\ o \in DOMAIN cb
              => \/ cb[o] = cc[o]
                 \/ \E a, b \in A : a # b /\ o \in coinbase_outputs(a)
                                                   \cap coinbase_outputs(b)
         /\ \A h \in Nat : (\A a \in A : BranchHeight[a] =< h)
              => (matured(cb, o, h) <=> matured(cc, o, h))
PROOF
  <1>1. o \in DOMAIN cb <=> o \in DOMAIN cc
    BY DEF MapsFit
  <1>2. CASE o \notin DOMAIN cb
    BY <1>1, <1>2 DEF matured
  <1>3. CASE o \in DOMAIN cb
    <2>1. PICK a \in A : o \in coinbase_outputs(a) /\ cb[o] = BranchHeight[a]
      BY <1>3 DEF MapsFit
    <2>2. PICK b \in A : o \in coinbase_outputs(b) /\ cc[o] = BranchHeight[b]
      BY <1>1, <1>3 DEF MapsFit
    <2>3. cb[o] = cc[o] \/ a # b
      BY <2>1, <2>2
    <2>4. ASSUME NEW h \in Nat, \A c \in A : BranchHeight[c] =< h
          PROVE  matured(cb, o, h) <=> matured(cc, o, h)
      <3>1. CASE COINBASE_MATURITY = 0
        BY <2>1, <2>2, <2>4, <3>1 DEF matured
      <3>2. CASE COINBASE_MATURITY # 0
        <4>1. BranchHeight[a] = BranchHeight[b]
          BY <2>1, <2>2, <3>2, MaturityAssumption
        <4> QED
          BY <1>1, <2>1, <2>2, <4>1 DEF matured
      <3> QED
        BY <3>1, <3>2
    <2> QED
      BY <1>1, <2>1, <2>2, <2>3, <2>4
  <1> QED
    BY <1>2, <1>3

\* Ledgers with the same outputs and supply take the same blocks and leave the
\* same outputs and supply, whichever fitting coinbase maps they hold.
LEMMA LedgersAgree ==
  ASSUME NEW l \in LedgerSet, NEW m \in LedgerSet,
         l.utxo = m.utxo, l.supply = m.supply,
         NEW A \in SUBSET Blocks, MapsFit(l.utxo, l.cb, A),
         MapsFit(m.utxo, m.cb, A), NEW h \in Nat,
         \A a \in A : BranchHeight[a] \in Nat /\ BranchHeight[a] =< h,
         NEW b \in Blocks, NEW sigs \in BOOLEAN
  PROVE  /\ validate_txs(l, Txs[b], h, sigs) <=> validate_txs(m, Txs[b], h, sigs)
         /\ apply_each(l, Txs[b], h).utxo = apply_txs(m, Txs[b], h).utxo
         /\ issue(l.supply, OutputTotal(Txs[b][1]), Fees(l.utxo, Txs[b]))
              = apply_txs(m, Txs[b], h).supply
PROOF
  <1>1. \A o \in DOMAIN l.utxo : matured(l.cb, o, h) <=> matured(m.cb, o, h)
    BY FittingMapsAgree
  <1>2. \A tx : tx_valid(l, tx, h, sigs) <=> tx_valid(m, tx, h, sigs)
    BY <1>1 DEF tx_valid
  <1>3. validate_txs(l, Txs[b], h, sigs) <=> validate_txs(m, Txs[b], h, sigs)
    BY <1>2 DEF validate_txs
  <1>4. Txs[b] \in Seq(Transaction)
    BY ChainAssumption
  <1> QED
    BY <1>3, <1>4, ApplyEachUtxo, ApplyTxsMaps

LEMMA ActiveHeights ==
  ASSUME NEW idx, IndexMap(idx), IsTree(idx), NEW t \in DOMAIN idx
  PROVE  /\ active(idx, t) \subseteq Blocks
         /\ active(idx, t) \subseteq DOMAIN idx
         /\ \A a \in active(idx, t) : /\ BranchHeight[a] \in Nat
                                      /\ BranchHeight[a] =< idx[t].height
PROOF
  <1> DEFINE path == path_from_genesis(idx, t)
             h == idx[t].height
  <1>1. /\ DOMAIN path = 1..h + 1
        /\ \A i \in 1..h + 1 : path[i] \in DOMAIN idx /\ idx[path[i]].height = i - 1
    BY PathType
  <1>2. h \in Nat
    BY DEF IndexMap, IsMap, Idx
  <1>3. \A a \in DOMAIN idx : a \in Blocks /\ idx[a].height = BranchHeight[a]
    BY StoredBranch
  <1>4. active(idx, t) = Range(path)
    BY DEF active
  <1> HIDE DEF path, h
  <1>5. ASSUME NEW a \in active(idx, t)
        PROVE  /\ a \in DOMAIN idx /\ a \in Blocks
               /\ BranchHeight[a] \in Nat /\ BranchHeight[a] =< h
    <2>1. PICK i \in 1..h + 1 : a = path[i]
      BY <1>1, <1>4 DEF Range
    <2>2. a \in DOMAIN idx /\ idx[a].height = i - 1
      BY <1>1, <2>1
    <2>3. BranchHeight[a] = i - 1
      BY <1>3, <2>2
    <2> QED
      BY <1>2, <1>3, <2>2, <2>3
  <1> QED
    BY <1>5 DEF h

-----------------------------------------------------------------------------
(* The invariant *)

\* The ledger is the outcome of the active chain, up to what the coinbase map
\* holds of spent outputs and of coinbases issued twice.
LedgerIsOutcome ==
  LET l == outcome(index, tip, {})
  IN  /\ l # Invalid
      /\ utxo = l.utxo
      /\ supply = l.supply
      /\ MapsFit(utxo, coinbase_at, active(index, tip))

\* The parts depend on each other: a block connects because the ledger is the
\* outcome of the active chain, a switch can be trusted because the marks are
\* sound, and a mark is sound because what connects or replays is valid.
ForkInv == IInv /\ LedgerIsOutcome /\ TipIsHeaviest /\ ValidatedIsSound

LEMMA ForkInvReplay ==
  ASSUME ForkInv
  PROVE  LedgerIsReplay
PROOF
  <1> DEFINE l == outcome(index, tip, {})
             A == active(index, tip)
  <1>1. IndexMap(index) /\ IsTree(index) /\ tip \in DOMAIN index
    BY DEF ForkInv, IInv, TypeOK, IndexIsTree, IndexMap
  <1>2. /\ l # Invalid /\ utxo = l.utxo /\ supply = l.supply
        /\ MapsFit(utxo, coinbase_at, A)
    BY DEF ForkInv, LedgerIsOutcome
  <1>3. MapsFit(utxo, l.cb, A)
    BY <1>1, <1>2, OutcomeFits
  <1>4. A \in SUBSET Blocks /\ \A a \in A : BranchHeight[a] \in Nat
    BY <1>1, ActiveHeights
  <1> HIDE DEF l, A
  <1>5. ASSUME NEW o \in DOMAIN utxo
        PROVE  /\ o \in DOMAIN coinbase_at <=> o \in DOMAIN l.cb
               /\ o \in DOMAIN coinbase_at
                    => \/ coinbase_at[o] = l.cb[o]
                       \/ \E a, b \in A : a # b /\ o \in coinbase_outputs(a)
                                                         \cap coinbase_outputs(b)
    <2>1. A \in SUBSET Blocks
      BY <1>4
    <2>2. \A a \in A : BranchHeight[a] \in Nat
      BY <1>4
    <2>3. MapsFit(utxo, coinbase_at, A) /\ MapsFit(utxo, l.cb, A)
      BY <1>2, <1>3
    <2> DEFINE lcb == l.cb
    <2> HIDE DEF lcb
    <2>4. MapsFit(utxo, lcb, A)
      BY <2>3 DEF lcb
    <2>5. /\ o \in DOMAIN coinbase_at <=> o \in DOMAIN lcb
          /\ o \in DOMAIN coinbase_at
               => \/ coinbase_at[o] = lcb[o]
                  \/ \E a, b \in A : a # b /\ o \in coinbase_outputs(a)
                                                    \cap coinbase_outputs(b)
      BY <2>1, <2>2, <2>3, <2>4, FittingMapsAgree
    <2> QED
      BY <2>5 DEF lcb
  <1> QED
    BY <1>2, <1>5 DEF LedgerIsReplay, reissued, l, A

\* A block the node can connect to its tip is valid on the replayed ledger, and
\* what connect_tip makes of its own ledger is what a replay makes of that one.
LEMMA ConnectsAsReplayed ==
  ASSUME ForkInv, NEW b \in Blocks
  PROVE  LET l == outcome(index, tip, {})
         IN  /\ l \in CappedLedgers
             /\ validate_txs(ledger, Txs[b], height + 1, TRUE)
                  <=> validate_txs(l, Txs[b], height + 1, TRUE)
             /\ apply_each(ledger, Txs[b], height + 1).utxo
                  = apply_txs(l, Txs[b], height + 1).utxo
             /\ issue(supply, OutputTotal(Txs[b][1]), Fees(utxo, Txs[b]))
                  = apply_txs(l, Txs[b], height + 1).supply
PROOF
  <1> DEFINE l == outcome(index, tip, {})
             A == active(index, tip)
             h == height + 1
  <1>1. /\ IndexMap(index) /\ IsTree(index) /\ tip \in DOMAIN index
        /\ height = index[tip].height /\ height \in Nat
    BY DEF ForkInv, IInv, TypeOK, IndexIsTree, IndexMap
  <1>2. /\ l # Invalid /\ utxo = l.utxo /\ supply = l.supply
        /\ MapsFit(utxo, coinbase_at, A)
    BY DEF ForkInv, LedgerIsOutcome
  <1>3. MapsFit(utxo, l.cb, A)
    BY <1>1, <1>2, OutcomeFits
  <1>4. A \in SUBSET Blocks /\ \A a \in A : BranchHeight[a] \in Nat
                                            /\ BranchHeight[a] =< h
    <2>1. \A a \in A : BranchHeight[a] \in Nat /\ BranchHeight[a] =< height
      BY <1>1, ActiveHeights
    <2>2. A \in SUBSET Blocks
      BY <1>1, ActiveHeights
    <2> HIDE DEF A
    <2> QED
      BY <1>1, <2>1, <2>2
  <1>5. l \in CappedLedgers /\ l \in LedgerSet
    BY <1>1, <1>2, OutcomeOfBlock DEF CappedLedgers
  <1>6. ledger \in LedgerSet
    BY LedgerCapped DEF ForkInv, CappedLedgers
  <1>7. ledger.utxo = utxo /\ ledger.cb = coinbase_at /\ ledger.supply = supply
    BY DEF ledger
  <1>8. h \in Nat
    BY <1>1
  <1> HIDE DEF l, A, h
  <1>9. /\ validate_txs(ledger, Txs[b], h, TRUE)
             <=> validate_txs(l, Txs[b], h, TRUE)
        /\ apply_each(ledger, Txs[b], h).utxo = apply_txs(l, Txs[b], h).utxo
        /\ issue(ledger.supply, OutputTotal(Txs[b][1]),
                 Fees(ledger.utxo, Txs[b]))
             = apply_txs(l, Txs[b], h).supply
    BY <1>2, <1>3, <1>4, <1>5, <1>6, <1>7, <1>8, LedgersAgree
  <1> QED
    BY <1>5, <1>7, <1>9 DEF l, h

\* connect_tip: the block is new, valid, and heavier than all valid ones.
LEMMA ConnectTipFork ==
  ASSUME ForkInv, NEW b \in Blocks, connect_tip(b)
  PROVE  ForkInv' /\ b \notin DOMAIN index /\ BranchLedger[b] # Invalid
PROOF
  <1> DEFINE l == outcome(index, tip, {})
             A == active(index, tip)
             h == height + 1
             r == apply_each(ledger, Txs[b], h)
  <1>1. /\ IndexMap(index) /\ IsTree(index) /\ tip \in DOMAIN index
        /\ height = index[tip].height /\ height \in Nat
        /\ tip_work = index[tip].work
    BY DEF ForkInv, IInv, TypeOK, IndexIsTree, IndexMap
  <1>2. IInv' /\ tip_work' > tip_work
    BY ConnectTipInv DEF ForkInv
  <1>3. /\ IndexMap(index') /\ IsTree(index') /\ b \in DOMAIN index'
        /\ tip' = b /\ height' = h /\ tip_work' = index'[b].work
        /\ index'[b].height = h
    BY <1>2 DEF IInv, TypeOK, IndexIsTree, IndexMap, connect_tip
  <1>4. b # Genesis /\ index'[b].prev = tip
    BY <1>1, <1>3, ChainAssumption
       DEF connect_tip, connects, IsTree, IndexMap, IsMap
  <1>5. DOMAIN index' = DOMAIN index \cup {b}
    BY DEF connect_tip, Insert
  <1>6. /\ active(index', tip) = A
        /\ outcome(index', tip, {}) = l
        /\ \A x \in DOMAIN index : /\ index'[x].work = index[x].work
                                   /\ outcome(index', x, {}) = outcome(index, x, {})
    BY <1>1, <1>3, <1>5, BranchesStay
  <1>7. validate_txs(ledger, Txs[b], h, TRUE)
    BY DEF connect_tip, connects
  <1>8. /\ l \in CappedLedgers
        /\ validate_txs(l, Txs[b], h, TRUE)
        /\ r.utxo = apply_txs(l, Txs[b], h).utxo
        /\ issue(supply, OutputTotal(Txs[b][1]), Fees(utxo, Txs[b]))
             = apply_txs(l, Txs[b], h).supply
    BY <1>7, ConnectsAsReplayed
  <1>9. h \in Nat
    BY <1>1
  <1>10. /\ outcome(index', b, {}) = apply_txs(l, Txs[b], h)
         /\ outcome(index', b, {}) # Invalid
    <2>1. outcome(index', b, {}) = Extend(l, b, h, b \notin {})
      BY <1>3, <1>4, <1>6, OutcomeStep
    <2>2. (b \notin {}) = TRUE
      OBVIOUS
    <2>3. l # Invalid
      BY <1>8, InvalidIsNoLedger DEF CappedLedgers
    <2> HIDE DEF l, h
    <2>4. outcome(index', b, {}) = apply_txs(l, Txs[b], h)
      BY <1>8, <2>1, <2>2, <2>3 DEF Extend
    <2>5. apply_txs(l, Txs[b], h) \in CappedLedgers
      BY <1>8, <1>9, ApplyCapped
    <2> QED
      BY <2>4, <2>5, InvalidIsNoLedger DEF CappedLedgers
  <1>11. /\ utxo' = r.utxo /\ coinbase_at' = r.cb
         /\ supply' = issue(supply, OutputTotal(Txs[b][1]), Fees(utxo, Txs[b]))
         /\ validated' = validated \cup {b}
    BY DEF connect_tip
  <1>12. MapsFit(utxo', coinbase_at', active(index', b))
    <2> DEFINE B == A \cup {b}
    <2>1. active(index', b) = B
      BY <1>3, <1>4, <1>6, ActiveStep
    <2>2. MapsFit(utxo, coinbase_at, A)
      BY DEF ForkInv, LedgerIsOutcome
    <2>3. ledger.utxo = utxo /\ ledger.cb = coinbase_at
      BY DEF ledger
    <2>4. ledger \in LedgerSet
      BY LedgerCapped DEF ForkInv, CappedLedgers
    <2>5. BranchHeight[b] = h
      BY <1>3, StoredBranch
    <2>6. A \subseteq Blocks
      BY <1>1, ActiveHeights
    <2> HIDE DEF A, h
    <2>7. MapsFit(ledger.utxo, ledger.cb, B) /\ B \in SUBSET Blocks /\ b \in B
      BY <2>2, <2>3, <2>6, MapsFitMore
    <2> HIDE DEF B, r
    <2>8. MapsFit(r.utxo, r.cb, B)
      BY <1>7, <1>9, <2>4, <2>5, <2>7, MapsFitBlock DEF r
    <2> QED
      BY <1>11, <2>1, <2>8
  <1> HIDE DEF r, h, l
  <1>13. LedgerIsOutcome'
    BY <1>3, <1>8, <1>10, <1>11, <1>12 DEF LedgerIsOutcome
  <1>14. TipIsHeaviest'
    <2> SUFFICES ASSUME NEW x \in DOMAIN index', outcome(index', x, {}) # Invalid
                 PROVE  index'[x].work =< tip_work'
      BY DEF TipIsHeaviest
    <2>1. tip_work \in Nat /\ tip_work' \in Nat
      BY <1>2 DEF ForkInv, IInv, TypeOK
    <2>2. CASE x = b
      BY <1>3, <2>1, <2>2
    <2>3. CASE x \in DOMAIN index
      <3>1. index'[x].work =< tip_work /\ index[x].work \in Nat
            /\ index'[x].work = index[x].work
        BY <1>1, <1>6, <2>3 DEF ForkInv, TipIsHeaviest, IndexMap, IsMap, Idx
      <3> QED
        BY <1>2, <2>1, <3>1
    <2> QED
      BY <1>5, <2>2, <2>3
  <1>15. ValidatedIsSound'
    BY <1>5, <1>6, <1>10, <1>11 DEF ForkInv, ValidatedIsSound
  <1>16. BranchLedger[b] # Invalid
    BY <1>3, <1>10, StoredBranch
  <1>17. ASSUME b \in DOMAIN index PROVE FALSE
    <2>1. outcome(index, b, {}) # Invalid /\ index[b].work = index'[b].work
      BY <1>6, <1>10, <1>17
    <2>2. index[b].work =< tip_work
      BY <1>17, <2>1 DEF ForkInv, TipIsHeaviest
    <2>3. tip_work \in Nat /\ tip_work' \in Nat
      BY <1>2 DEF ForkInv, IInv, TypeOK
    <2> QED
      BY <1>2, <1>3, <2>1, <2>2, <2>3
  <1> QED
    BY <1>2, <1>13, <1>14, <1>15, <1>16, <1>17 DEF ForkInv

\* Storing a block on a stored parent leaves every branch as it was.
LEMMA StoreFork ==
  ASSUME IInv, NEW b \in Blocks, storable(b), store_block_meta(b)
  PROVE  /\ IndexMap(index') /\ IsTree(index')
         /\ DOMAIN index' = DOMAIN index \cup {b} /\ b \notin DOMAIN index
         /\ Header[b].prev \in DOMAIN index
         /\ index'[b] = entry(b, Header[b].prev)
         /\ active(index', tip) = active(index, tip)
         /\ \A x \in DOMAIN index :
               /\ index'[x].work = index[x].work
               /\ outcome(index', x, {}) = outcome(index, x, {})
PROOF
  <1>1. IndexMap(index) /\ IsTree(index) /\ tip \in DOMAIN index
    BY DEF IInv, TypeOK, IndexIsTree, IndexMap
  <1>2. /\ IndexMap(index') /\ IsTree(index')
        /\ index'[b] = entry(b, Header[b].prev)
    BY StoreTree
  <1>3. DOMAIN index' = DOMAIN index \cup {b}
    BY DEF store_block_meta, Insert
  <1>4. b \notin DOMAIN index /\ Header[b].prev \in DOMAIN index
    BY DEF storable
  <1>5. /\ active(index', tip) = active(index, tip)
        /\ \A x \in DOMAIN index :
              /\ index'[x].work = index[x].work
              /\ outcome(index', x, {}) = outcome(index, x, {})
    BY <1>1, <1>2, <1>3, BranchesStay
  <1> QED
    BY <1>2, <1>3, <1>4, <1>5

\* As long as the marks are sound, replaying with them tells the truth, and what
\* passes is sound to mark.
LEMMA PassedSound ==
  ASSUME NEW idx, IndexMap(idx), IsTree(idx), NEW skip,
         \A x \in skip : x \in DOMAIN idx => outcome(idx, x, {}) # Invalid
  PROVE  \A t \in DOMAIN idx :
            /\ outcome(idx, t, skip) = outcome(idx, t, {})
            /\ \A x \in passed(idx, t, skip) : /\ x \in DOMAIN idx
                                               /\ outcome(idx, x, {}) # Invalid
PROOF
  <1>1. \A t \in DOMAIN idx : outcome(idx, t, skip) = outcome(idx, t, {})
    BY SkipSound
  <1>2. ASSUME NEW t \in DOMAIN idx, NEW x \in passed(idx, t, skip)
        PROVE  x \in DOMAIN idx /\ outcome(idx, x, {}) # Invalid
    <2>1. PICK i \in 1..idx[t].height + 1 :
             /\ x = path_from_genesis(idx, t)[i]
             /\ replay(idx, t, skip)[i] # Invalid
      BY DEF passed
    <2>2. x \in DOMAIN idx
      BY <2>1, PathType
    <2>3. outcome(idx, x, skip) # Invalid
      BY <2>1, ReplayOutcome
    <2> QED
      BY <1>1, <2>2, <2>3
  <1> QED
    BY <1>1, <1>2

\* accept_block of a block that does not move the tip: it is invalid or no
\* heavier than the tip.
LEMMA SideFork ==
  ASSUME ForkInv, NEW b \in Blocks, AcceptSide(b) \/ AcceptInvalidBranch(b)
  PROVE  /\ ForkInv' /\ b \notin DOMAIN index /\ Header[b].prev \in DOMAIN index
         /\ BranchLedger[b] # Invalid => BranchWork[b] =< tip_work
PROOF
  <1>1. IInv /\ storable(b) /\ store_block_meta(b)
    BY DEF ForkInv, AcceptSide, AcceptInvalidBranch
  <1>2. UNCHANGED <<utxo, coinbase_at, supply, tip, tip_work>>
    BY DEF AcceptSide, AcceptInvalidBranch, ledger_vars, tip_vars
  <1>3. /\ IndexMap(index') /\ IsTree(index')
        /\ DOMAIN index' = DOMAIN index \cup {b} /\ b \notin DOMAIN index
        /\ Header[b].prev \in DOMAIN index
        /\ index'[b] = entry(b, Header[b].prev)
        /\ active(index', tip) = active(index, tip)
        /\ \A x \in DOMAIN index :
              /\ index'[x].work = index[x].work
              /\ outcome(index', x, {}) = outcome(index, x, {})
    BY <1>1, StoreFork
  <1>4. tip \in DOMAIN index /\ tip_work \in Nat
    BY <1>1 DEF IInv, TypeOK, IndexIsTree
  <1>5. \A x \in validated : /\ x \in DOMAIN index'
                             /\ outcome(index', x, {}) # Invalid
    BY <1>3 DEF ForkInv, ValidatedIsSound
  <1>6. /\ outcome(index', b, validated) = outcome(index', b, {})
        /\ \A x \in passed(index', b, validated) :
              x \in DOMAIN index' /\ outcome(index', x, {}) # Invalid
    BY <1>3, <1>5, PassedSound
  <1>7. outcome(index', b, {}) = Invalid \/ index'[b].work =< tip_work
    <2>1. CASE AcceptSide(b)
      <3>1. ~ (entry(b, Header[b].prev).work > tip_work)
        BY <2>1 DEF AcceptSide, heavier
      <3>2. index'[b].work \in Nat
        BY <1>3 DEF IndexMap, IsMap, Idx
      <3> QED
        BY <1>3, <1>4, <3>1, <3>2
    <2>2. CASE AcceptInvalidBranch(b)
      BY <1>6, <2>2 DEF AcceptInvalidBranch
    <2> QED
      BY <2>1, <2>2
  <1>8. IInv'
    <2>1. UNCHANGED vars \/ [Next]_vars
      BY DEF Next
    <2> QED
      BY <1>1, <2>1, NextInv
  <1>9. LedgerIsOutcome'
    <2>1. outcome(index', tip, {}) = outcome(index, tip, {})
      BY <1>3, <1>4
    <2> QED
      BY <1>2, <1>3, <2>1 DEF ForkInv, LedgerIsOutcome
  <1>10. TipIsHeaviest'
    BY <1>2, <1>3, <1>7 DEF ForkInv, TipIsHeaviest
  <1>11. ValidatedIsSound'
    <2>1. validated' \subseteq validated \cup passed(index', b, validated)
      BY DEF AcceptSide, AcceptInvalidBranch
    <2> QED
      BY <1>5, <1>6, <2>1 DEF ValidatedIsSound
  <1>12. BranchLedger[b] # Invalid => BranchWork[b] =< tip_work
    BY <1>3, <1>7, StoredBranch
  <1> QED
    BY <1>3, <1>8, <1>9, <1>10, <1>11, <1>12 DEF ForkInv

\* The maps fit once rebuild_active has run over a branch that replays.
LEMMA RebuildFork ==
  ASSUME IndexMap(index'), IsTree(index'), NEW t \in DOMAIN index',
         rebuild_active(t), outcome(index', t, {}) # Invalid
  PROVE  MapsFit(outcome(index', t, {}).utxo, coinbase_at', active(index', t))
PROOF
  <1> DEFINE u == outcome(index', t, {}).utxo
             cb == outcome(index', t, {}).cb
             idx == index'
  <1>1. MapsFit(u, cb, active(idx, t))
    BY OutcomeFits
  <1>2. coinbase_at' = rebuilt_cb(idx, t)
    BY DEF rebuild_active
  <1> HIDE DEF u, cb
  <1> QED
    BY <1>1, <1>2, RebuiltFits DEF u

\* accept_block of a block that moves the tip: the branch is valid although the
\* marked blocks of it were not checked again, and heavier than all valid ones.
LEMMA SwitchFork ==
  ASSUME ForkInv, NEW b \in Blocks, AcceptAndSwitch(b)
  PROVE  /\ ForkInv' /\ b \notin DOMAIN index /\ Header[b].prev \in DOMAIN index
         /\ BranchLedger[b] # Invalid
PROOF
  <1>1. IInv /\ storable(b) /\ store_block_meta(b)
    BY DEF ForkInv, AcceptAndSwitch
  <1>2. /\ outcome(index', b, validated) # Invalid
        /\ utxo' = outcome(index', b, validated).utxo
        /\ supply' = outcome(index', b, validated).supply
        /\ tip' = b /\ tip_work' = index'[b].work
        /\ rebuild_active(b)
        /\ validated' = validated \cup passed(index', b, validated)
    BY DEF AcceptAndSwitch
  <1>3. /\ IndexMap(index') /\ IsTree(index')
        /\ DOMAIN index' = DOMAIN index \cup {b} /\ b \notin DOMAIN index
        /\ Header[b].prev \in DOMAIN index
        /\ \A x \in DOMAIN index :
              /\ index'[x].work = index[x].work
              /\ outcome(index', x, {}) = outcome(index, x, {})
    BY <1>1, StoreFork
  <1>4. IInv' /\ tip_work' > tip_work
    BY <1>1, SwitchInv
  <1>5. \A x \in validated : /\ x \in DOMAIN index'
                             /\ outcome(index', x, {}) # Invalid
    BY <1>3 DEF ForkInv, ValidatedIsSound
  <1>6. /\ outcome(index', b, validated) = outcome(index', b, {})
        /\ \A x \in passed(index', b, validated) :
              x \in DOMAIN index' /\ outcome(index', x, {}) # Invalid
    BY <1>3, <1>5, PassedSound
  <1>7. MapsFit(utxo', coinbase_at', active(index', b))
    BY <1>2, <1>3, <1>6, RebuildFork
  <1>8. LedgerIsOutcome'
    BY <1>2, <1>6, <1>7 DEF LedgerIsOutcome
  <1>9. TipIsHeaviest'
    <2> SUFFICES ASSUME NEW x \in DOMAIN index', outcome(index', x, {}) # Invalid
                 PROVE  index'[x].work =< tip_work'
      BY DEF TipIsHeaviest
    <2>1. tip_work \in Nat /\ tip_work' \in Nat
      BY <1>1, <1>4 DEF IInv, TypeOK
    <2>2. CASE x = b
      BY <1>2, <2>1, <2>2
    <2>3. CASE x \in DOMAIN index
      <3>1. index'[x].work =< tip_work /\ index'[x].work \in Nat
        BY <1>3, <2>3 DEF ForkInv, TipIsHeaviest, IndexMap, IsMap, Idx
      <3> QED
        BY <1>4, <2>1, <3>1
    <2> QED
      BY <1>3, <2>2, <2>3
  <1>10. ValidatedIsSound'
    BY <1>2, <1>5, <1>6 DEF ValidatedIsSound
  <1>11. BranchLedger[b] # Invalid
    BY <1>2, <1>3, <1>6, StoredBranch
  <1> QED
    BY <1>3, <1>4, <1>8, <1>9, <1>10, <1>11 DEF ForkInv

\* Reopening marks the active chain, all of which replays.
LEMMA ReopenFork ==
  ASSUME ForkInv, Reopen
  PROVE  ForkInv'
PROOF
  <1>1. IndexMap(index) /\ IsTree(index) /\ tip \in DOMAIN index
    BY DEF ForkInv, IInv, TypeOK, IndexIsTree, IndexMap
  <1>2. UNCHANGED <<utxo, supply, tip, tip_work, index>>
    BY DEF Reopen
  <1>3. IInv'
    BY ReopenInv DEF ForkInv
  <1>4. /\ outcome(index, tip, {}) # Invalid
        /\ utxo = outcome(index, tip, {}).utxo
        /\ supply = outcome(index, tip, {}).supply
    BY DEF ForkInv, LedgerIsOutcome
  <1>5. MapsFit(utxo', coinbase_at', active(index', tip))
    <2>1. rebuild_active(tip) /\ IndexMap(index') /\ IsTree(index')
          /\ tip \in DOMAIN index' /\ outcome(index', tip, {}) # Invalid
      BY <1>1, <1>2, <1>4 DEF Reopen
    <2>2. MapsFit(outcome(index', tip, {}).utxo, coinbase_at',
                  active(index', tip))
      BY <2>1, RebuildFork
    <2> QED
      BY <1>2, <1>4, <2>2
  <1>6. LedgerIsOutcome'
    BY <1>2, <1>4, <1>5 DEF LedgerIsOutcome
  <1>7. TipIsHeaviest'
    BY <1>2 DEF ForkInv, TipIsHeaviest
  <1>8. ValidatedIsSound'
    <2>1. validated' = active(index, tip)
      BY DEF Reopen
    <2>2. \A x \in active(index, tip) : /\ x \in DOMAIN index
                                        /\ outcome(index, x, {}) # Invalid
      BY <1>1, <1>4, ActiveReplays
    <2> QED
      BY <1>2, <2>1, <2>2 DEF ValidatedIsSound
  <1> QED
    BY <1>3, <1>6, <1>7, <1>8 DEF ForkInv

\* The genesis block passes its checks, and its outputs are the whole ledger.
LEMMA InitFork ==
  Init => ForkInv
PROOF
  <1> SUFFICES ASSUME Init PROVE ForkInv
    OBVIOUS
  <1> DEFINE start == apply_txs(EmptyLedger, Txs[Genesis], 0)
  <1>1. IInv
    BY InitInv
  <1>2. /\ utxo = start.utxo /\ coinbase_at = start.cb /\ supply = start.supply
        /\ tip = Genesis /\ DOMAIN index = {Genesis} /\ validated = {Genesis}
        /\ index[Genesis].work = tip_work
    BY DEF Init
  <1>3. IndexMap(index) /\ IsTree(index) /\ tip \in DOMAIN index
        /\ index[Genesis].height = 0 /\ tip_work \in Nat
    BY <1>1, <1>2 DEF IInv, TypeOK, IndexIsTree, IndexMap, IsTree
  <1> HIDE DEF start
  <1>4. outcome(index, Genesis, {}) = start /\ start # Invalid
    <2>1. outcome(index, Genesis, {})
            = Extend(EmptyLedger, Genesis, 0, Genesis \notin {})
      BY <1>2, <1>3, OutcomeStep
    <2>2. (Genesis \notin {}) = TRUE
      OBVIOUS
    <2>3. EmptyLedger \in CappedLedgers /\ Genesis \in Blocks
      BY EmptyLedgerCapped, ChainAssumption
    <2>4. EmptyLedger # Invalid
      BY <2>3, InvalidIsNoLedger DEF CappedLedgers
    <2>5. outcome(index, Genesis, {}) = start
      BY <2>1, <2>2, <2>4, GenesisAssumption DEF Extend, start
    <2>6. start \in CappedLedgers
      BY <2>3, GenesisAssumption, ApplyCapped DEF start
    <2> QED
      BY <2>5, <2>6, InvalidIsNoLedger DEF CappedLedgers
  <1>5. MapsFit(utxo, coinbase_at, active(index, Genesis))
    BY <1>2, <1>3, <1>4, OutcomeFits
  <1>6. LedgerIsOutcome
    BY <1>2, <1>4, <1>5 DEF LedgerIsOutcome
  <1>7. TipIsHeaviest
    BY <1>2, <1>3 DEF TipIsHeaviest
  <1>8. ValidatedIsSound
    BY <1>2, <1>4 DEF ValidatedIsSound
  <1> QED
    BY <1>1, <1>6, <1>7, <1>8 DEF ForkInv

\* Nothing moves in the index or the ledger.
LEMMA IdleFork ==
  ASSUME ForkInv, IInv', UNCHANGED <<ledger_vars, tip_vars, index, validated>>
  PROVE  ForkInv'
PROOF
  BY DEF ForkInv, LedgerIsOutcome, TipIsHeaviest, ValidatedIsSound,
         ledger_vars, tip_vars

LEMMA NextFork ==
  ASSUME ForkInv, [Next]_vars
  PROVE  ForkInv'
PROOF
  <1>1. IInv'
    BY NextInv DEF ForkInv
  <1>2. CASE UNCHANGED vars
    BY <1>1, <1>2, IdleFork DEF vars
  <1>3. CASE Tick
    BY <1>1, <1>3, IdleFork DEF Tick
  <1>4. CASE Reopen
    BY <1>4, ReopenFork
  <1>5. ASSUME NEW b \in Blocks, NEW h \in 0..height + 1, ApplyBlock(b, h)
        PROVE  ForkInv'
    BY <1>5, ConnectTipFork DEF ApplyBlock
  <1>6. ASSUME NEW b \in Blocks, AcceptOnTip(b)
        PROVE  ForkInv'
    BY <1>6, ConnectTipFork DEF AcceptOnTip
  <1>7. ASSUME NEW b \in Blocks, AcceptSide(b) \/ AcceptInvalidBranch(b)
        PROVE  ForkInv'
    BY <1>7, SideFork
  <1>8. ASSUME NEW b \in Blocks, AcceptAndSwitch(b)
        PROVE  ForkInv'
    BY <1>8, SwitchFork
  <1> QED
    BY <1>2, <1>3, <1>4, <1>5, <1>6, <1>7, <1>8 DEF Next

LEMMA ForkInvariance ==
  Spec => []ForkInv
PROOF
  <1>1. Init => ForkInv
    BY InitFork
  <1>2. ForkInv /\ [Next]_vars => ForkInv'
    BY NextFork
  <1> QED
    BY <1>1, <1>2, PTL DEF Spec

-----------------------------------------------------------------------------
(* What the node promises *)

\* The ledger that connect_tip keeps up block by block is, after any sequence of
\* blocks, switches and reopenings, the one a replay of the active chain with
\* every signature checked gives.
THEOREM LedgerStaysReplay ==
  Spec => []LedgerIsReplay
PROOF
  <1>1. ForkInv => LedgerIsReplay
    BY ForkInvReplay
  <1> QED
    BY <1>1, ForkInvariance, PTL

\* accept_block leaves no valid stored branch with more work than the tip,
\* whatever order the blocks come in.
THEOREM TipStaysHeaviest ==
  Spec => []TipIsHeaviest
PROOF
  <1>1. ForkInv => TipIsHeaviest
    BY DEF ForkInv
  <1> QED
    BY <1>1, ForkInvariance, PTL

\* connect_tip, switch_to and rebuild_active mark as validated only blocks whose
\* whole branch obeys the rules, signatures included.
THEOREM MarksStaySound ==
  Spec => []ValidatedIsSound
PROOF
  <1>1. ForkInv => ValidatedIsSound
    BY DEF ForkInv
  <1> QED
    BY <1>1, ForkInvariance, PTL

\* A block accept_block or apply_block takes is one the abstract node learns.
LEMMA LearnsBlock ==
  ASSUME ForkInv, [Next]_vars
  PROVE  [ForkChoice!Next]_<<DOMAIN index, tip>>
PROOF
  <1>1. /\ IndexMap(index) /\ IsTree(index) /\ tip \in DOMAIN index
        /\ tip_work = index[tip].work
    BY DEF ForkInv, IInv, TypeOK, IndexIsTree, IndexMap
  <1>2. BranchWork[tip] = tip_work /\ tip_work \in Nat
    BY <1>1, StoredBranch DEF ForkInv, IInv, TypeOK
  <1>3. ASSUME NEW b \in Blocks, connect_tip(b)
        PROVE  ForkChoice!Learn(b)
    <2>1. ForkInv' /\ b \notin DOMAIN index /\ BranchLedger[b] # Invalid
      BY <1>3, ConnectTipFork
    <2>2. tip' = b /\ Header[b].prev = tip
      BY <1>3 DEF connect_tip, connects
    <2>3. DOMAIN index' = DOMAIN index \cup {b}
      BY <1>3 DEF connect_tip, Insert
    <2>4. /\ IndexMap(index') /\ IsTree(index') /\ tip' \in DOMAIN index'
          /\ tip_work' = index'[tip'].work
      BY <2>1 DEF ForkInv, IInv, TypeOK, IndexIsTree, IndexMap
    <2>5. BranchWork[b] = tip_work'
      BY <2>2, <2>4, StoredBranch
    <2>6. tip_work' > tip_work
      BY <1>3, ConnectTipInv DEF ForkInv
    <2> QED
      BY <1>1, <1>2, <2>1, <2>2, <2>3, <2>5, <2>6 DEF ForkChoice!Learn
  <1>4. ASSUME NEW b \in Blocks, AcceptSide(b) \/ AcceptInvalidBranch(b)
        PROVE  ForkChoice!Learn(b)
    <2>1. /\ ForkInv' /\ b \notin DOMAIN index /\ Header[b].prev \in DOMAIN index
          /\ BranchLedger[b] # Invalid => BranchWork[b] =< tip_work
      BY <1>4, SideFork
    <2>2. tip' = tip /\ DOMAIN index' = DOMAIN index \cup {b}
      BY <1>4 DEF AcceptSide, AcceptInvalidBranch, tip_vars, store_block_meta,
                  Insert
    <2>3. BranchWork[b] \in Nat
      BY <2>1, <2>2, StoredBranch
         DEF ForkInv, IInv, TypeOK, IndexIsTree, IndexMap, IsMap, Idx
    <2> QED
      BY <1>2, <2>1, <2>2, <2>3 DEF ForkChoice!Learn
  <1>5. ASSUME NEW b \in Blocks, AcceptAndSwitch(b)
        PROVE  ForkChoice!Learn(b)
    <2>1. /\ ForkInv' /\ b \notin DOMAIN index /\ Header[b].prev \in DOMAIN index
          /\ BranchLedger[b] # Invalid
      BY <1>5, SwitchFork
    <2>2. tip' = b /\ DOMAIN index' = DOMAIN index \cup {b}
      BY <1>5 DEF AcceptAndSwitch, store_block_meta, Insert
    <2>3. /\ IndexMap(index') /\ IsTree(index') /\ tip' \in DOMAIN index'
          /\ tip_work' = index'[tip'].work
      BY <2>1 DEF ForkInv, IInv, TypeOK, IndexIsTree, IndexMap
    <2>4. BranchWork[b] = tip_work'
      BY <2>2, <2>3, StoredBranch
    <2>5. tip_work' > tip_work
      BY <1>5, SwitchInv DEF ForkInv
    <2> QED
      BY <1>2, <2>1, <2>2, <2>4, <2>5 DEF ForkChoice!Learn
  <1>6. CASE UNCHANGED vars
    BY <1>6 DEF vars, tip_vars
  <1>7. CASE Tick \/ Reopen
    BY <1>7 DEF Tick, Reopen, tip_vars
  <1>8. ASSUME NEW b \in Blocks, NEW h \in 0..height + 1, ApplyBlock(b, h)
        PROVE  ForkChoice!Next
    BY <1>3, <1>8 DEF ApplyBlock, ForkChoice!Next
  <1>9. ASSUME NEW b \in Blocks, AcceptOnTip(b)
        PROVE  ForkChoice!Next
    BY <1>3, <1>9 DEF AcceptOnTip, ForkChoice!Next
  <1>10. ASSUME NEW b \in Blocks,
                \/ AcceptSide(b) \/ AcceptAndSwitch(b) \/ AcceptInvalidBranch(b)
         PROVE  ForkChoice!Next
    BY <1>4, <1>5, <1>10 DEF ForkChoice!Next
  <1> QED
    BY <1>6, <1>7, <1>8, <1>9, <1>10 DEF Next

\* ChainState implements HeaviestChain: every step of the node learns one block
\* and follows it exactly when its branch is valid and has strictly more work, or
\* changes neither what is stored nor the tip.
THEOREM FollowsHeaviestChain ==
  Spec => ImplementsHeaviestChain
PROOF
  <1>1. Init => ForkChoice!Init
    BY DEF Init, ForkChoice!Init
  <1>2. ForkInv /\ [Next]_vars => [ForkChoice!Next]_<<DOMAIN index, tip>>
    BY LearnsBlock
  <1> QED
    BY <1>1, <1>2, ForkInvariance, PTL
       DEF Spec, ImplementsHeaviestChain, ForkChoice!Spec

-----------------------------------------------------------------------------
(* The account of the coins *)

MadeOn(A)  == UNION {MadeBy(Txs[a]) : a \in A}
TakenOn(A) == UNION {TakenBy(Txs[a]) : a \in A}

\* The value of an output, which all the transactions that share its txid agree on.
Worth ==
  [o \in MadeOn(Blocks) |->
     CHOOSE v \in Nat : \E a \in Blocks : \E i \in DOMAIN Txs[a] :
        o \in Created(Txs[a][i]) /\ v = Txs[a][i].outputs[o[2]].value]

\* No two blocks issue the same coinbase output.
Unique(A) ==
  \A a, b \in A : a # b => coinbase_outputs(a) \cap coinbase_outputs(b) = {}

\* What validate_txs asks of the shape of a block.
WellFormed(b) ==
  \A i \in DOMAIN Txs[b] : /\ Txs[b][i].coinbase <=> i = 1
                           /\ i # 1 => Txs[b][i].inputs # << >>

\* u are the unspent outputs the blocks A leave: what they took was made by them
\* and is gone.
Traced(A, u) ==
  /\ DOMAIN u \subseteq MadeOn(A)
  /\ TakenOn(A) \subseteq MadeOn(A)
  /\ TakenOn(A) \cap DOMAIN u = {}

LEMMA WorthOfOutput ==
  ASSUME NEW a \in Blocks, NEW i \in DOMAIN Txs[a]
  PROVE  PricedTx(Worth, Txs[a][i])
PROOF
  <1> SUFFICES ASSUME NEW o \in Created(Txs[a][i])
               PROVE  Txs[a][i].outputs[o[2]].value = Worth[o]
    BY DEF PricedTx
  <1> DEFINE is(v) == \E b \in Blocks : \E j \in DOMAIN Txs[b] :
                o \in Created(Txs[b][j]) /\ v = Txs[b][j].outputs[o[2]].value
             val == Txs[a][i].outputs[o[2]].value
  <1>1. PICK v \in DOMAIN Txs[a][i].outputs : o = <<Txs[a][i].txid, v>>
    BY DEF Created
  <1>2. val \in Nat
    <2>1. Txs[a][i] \in Transaction
      BY ChainAssumption
    <2>2. Txs[a][i].outputs \in Seq(TxOut)
      BY <2>1 DEF Transaction
    <2>3. Txs[a][i].outputs[v] \in TxOut
      BY <2>2
    <2> QED
      BY <1>1, <2>3 DEF TxOut
  <1>3. is(val)
    OBVIOUS
  <1>4. ASSUME NEW x, is(x) PROVE x = val
    <2>0. PICK b \in Blocks : \E j \in DOMAIN Txs[b] :
             o \in Created(Txs[b][j]) /\ x = Txs[b][j].outputs[o[2]].value
      BY <1>4
    <2>1. PICK j \in DOMAIN Txs[b] :
             o \in Created(Txs[b][j]) /\ x = Txs[b][j].outputs[o[2]].value
      BY <2>0
    <2>2. Txs[b][j].txid = Txs[a][i].txid
      BY <1>1, <2>1 DEF Created
    <2>3. Txs[b][j].outputs = Txs[a][i].outputs
      BY <2>2, TxidAssumption
    <2> QED
      BY <2>1, <2>3
  <1>5. o \in MadeOn(Blocks)
    BY DEF MadeOn, MadeBy
  <1>6. Worth[o] = CHOOSE x \in Nat : is(x)
    BY <1>5 DEF Worth
  <1> HIDE DEF is, val
  <1>7. (CHOOSE x \in Nat : is(x)) = val
    BY <1>2, <1>3, <1>4
  <1> QED
    BY <1>6, <1>7 DEF val

\* A valid block on top of blocks without a repeated coinbase makes new outputs:
\* a transaction with the txid of an earlier one would take the same inputs,
\* which are gone.
LEMMA NewIsFresh ==
  ASSUME NEW A \in SUBSET Blocks, NEW t \in Blocks \ A, Unique(A \cup {t}),
         NEW u, Traced(A, u), \A a \in A \cup {t} : WellFormed(a),
         Separate(u, Txs[t])
  PROVE  /\ Fresh(u, Txs[t])
         /\ MadeBy(Txs[t]) \cap MadeOn(A) = {}
PROOF
  <1>1. ASSUME NEW a \in A \cup {t}, NEW i \in DOMAIN Txs[t],
               NEW j \in DOMAIN Txs[a], NEW o,
               o \in Created(Txs[t][i]), o \in Created(Txs[a][j])
        PROVE  a = t /\ i = j
    <2>1. Txs[t][i].txid = Txs[a][j].txid
      BY <1>1 DEF Created
    <2>2. /\ Txs[t][i].coinbase = Txs[a][j].coinbase
          /\ Txs[t][i].inputs = Txs[a][j].inputs
      BY <2>1, TxidAssumption
    <2>3. CASE Txs[t][i].coinbase
      <3>1. i = 1 /\ j = 1
        BY <2>2, <2>3 DEF WellFormed
      <3>2. o \in coinbase_outputs(t)
        BY <1>1, <2>3, <3>1, SameTxid
      <3>3. o \in coinbase_outputs(a)
        BY <1>1, <2>2, <2>3, <3>1, SameTxid
      <3> QED
        BY <3>1, <3>2, <3>3 DEF Unique
    <2>4. CASE ~ Txs[t][i].coinbase
      <3>1. Txs[t][i].inputs # << >> /\ i # 1
        BY <2>4 DEF WellFormed
      <3>2. Txs[t] \in Seq(Transaction)
        BY ChainAssumption
      <3>3. Txs[t][i] \in Transaction
        BY <3>2
      <3>4. Txs[t][i].inputs \in Seq(OutPoint)
        BY <3>3 DEF Transaction
      <3>5. 1 \in DOMAIN Txs[t][i].inputs
        BY <3>1, <3>4
      <3> DEFINE x == Txs[t][i].inputs[1]
      <3>6. x \in Range(Txs[t][i].inputs) /\ x \in Range(Txs[a][j].inputs)
        BY <2>2, <3>5 DEF Range
      <3>7. x \in DOMAIN u
        BY <3>6 DEF Separate
      <3> HIDE DEF x
      <3>8. a \notin A
        <4>1. a \in A => x \in TakenOn(A)
          BY <3>6 DEF TakenOn, TakenBy
        <4> QED
          BY <3>7, <4>1 DEF Traced
      <3>9. a = t
        BY <3>8
      <3>10. i = j
        BY <3>6, <3>9 DEF Separate
      <3> QED
        BY <3>9, <3>10
    <2> QED
      BY <2>3, <2>4
  <1>2. MadeBy(Txs[t]) \cap MadeOn(A) = {}
    <2> SUFFICES ASSUME NEW o, o \in MadeBy(Txs[t]), o \in MadeOn(A)
                 PROVE  FALSE
      OBVIOUS
    <2>1. PICK i \in DOMAIN Txs[t] : o \in Created(Txs[t][i])
      BY DEF MadeBy
    <2>2. PICK a \in A : o \in MadeBy(Txs[a])
      BY DEF MadeOn
    <2>3. PICK j \in DOMAIN Txs[a] : o \in Created(Txs[a][j])
      BY <2>2 DEF MadeBy
    <2> QED
      BY <1>1, <2>1, <2>3
  <1>3. Fresh(u, Txs[t])
    <2>1. \A i \in DOMAIN Txs[t] : Created(Txs[t][i]) \subseteq MadeBy(Txs[t])
      BY DEF MadeBy
    <2>2. DOMAIN u \subseteq MadeOn(A)
      BY DEF Traced
    <2>3. \A i \in DOMAIN Txs[t] : Created(Txs[t][i]) \cap DOMAIN u = {}
      BY <1>2, <2>1, <2>2
    <2>4. ASSUME NEW i \in DOMAIN Txs[t], NEW j \in DOMAIN Txs[t], i # j
          PROVE  Created(Txs[t][i]) \cap Created(Txs[t][j]) = {}
      BY <1>1, <2>4
    <2> QED
      BY <2>3, <2>4 DEF Fresh
  <1> QED
    BY <1>2, <1>3

\* What a ledger has to do with the blocks A it comes from and with the coins
\* they burnt: the coins it holds and those burnt were all issued, and none is
\* missing unless a coinbase was issued twice.
Account(l, A, burnt) ==
  /\ Priced(Worth, l.utxo)
  /\ burnt \in Nat
  /\ \A a \in A : WellFormed(a)
  /\ SumOver(Worth, DOMAIN l.utxo) + burnt =< l.supply
  /\ Unique(A) => /\ l.supply =< SumOver(Worth, DOMAIN l.utxo) + burnt
                  /\ Traced(A, l.utxo)

LEMMA EmptyAccount ==
  Account(EmptyLedger, {}, 0)
PROOF
  <1>1. DOMAIN EmptyLedger.utxo = {} /\ EmptyLedger.supply = 0
    BY DEF EmptyLedger
  <1>2. Summable(Worth, {})
    BY FS_EmptySet DEF Summable
  <1>3. SumOver(Worth, {}) = 0
    BY <1>2, SumStep
  <1>4. MadeOn({}) = {} /\ TakenOn({}) = {}
    BY DEF MadeOn, TakenOn
  <1> QED
    BY <1>1, <1>2, <1>3, <1>4 DEF Account, Priced, Traced

\* A valid block that is not among them yet keeps the account.
LEMMA AccountStep ==
  ASSUME NEW A \in SUBSET Blocks, NEW t \in Blocks \ A, NEW l \in LedgerSet,
         NEW burnt, Account(l, A, burnt), NEW h \in Nat,
         validate_txs(l, Txs[t], h, TRUE)
  PROVE  /\ BurntBy(Txs[t]) \in Nat
         /\ Account(apply_txs(l, Txs[t], h), A \cup {t},
                    burnt + BurntBy(Txs[t]))
PROOF
  <1> DEFINE txs  == Txs[t]
             r    == apply_txs(l, txs, h)
             w    == apply_each(l, txs, h).utxo
             was  == SumOver(Worth, DOMAIN l.utxo)
             is   == SumOver(Worth, DOMAIN w)
             fees == Fees(l.utxo, txs)
             cb   == OutputTotal(txs[1])
             lost == BurntBy(txs)
  <1>1. txs \in Seq(Transaction)
    BY ChainAssumption
  <1>2. \A i \in DOMAIN txs : /\ PricedTx(Worth, txs[i])
                              /\ txs[i].coinbase => txs[i].inputs = << >>
    BY WorthOfOutput, CoinbaseAssumption
  <1>3. Priced(Worth, l.utxo)
    BY DEF Account
  <1>4. /\ Priced(Worth, w)
        /\ was \in Nat /\ is \in Nat /\ fees \in Nat /\ cb \in Nat
        /\ lost \in Nat
        /\ is + lost + fees =< was + cb
        /\ DOMAIN w \subseteq DOMAIN l.utxo \cup MadeBy(txs)
        /\ TakenBy(txs) \subseteq DOMAIN l.utxo
        /\ Fresh(l.utxo, txs) => /\ was + cb =< is + lost + fees
                                 /\ TakenBy(txs) \cap DOMAIN w = {}
    BY <1>1, <1>2, <1>3, BlockMoves
  <1>5. /\ r.utxo = w
        /\ r.supply = issue(l.supply, cb, fees)
    BY ApplyTxsMaps
  <1>6. \A a \in A \cup {t} : WellFormed(a)
    <2>1. WellFormed(t)
      BY DEF validate_txs, tx_valid, WellFormed
    <2> QED
      BY <2>1 DEF Account
  <1>7. Separate(l.utxo, txs)
    BY <1>1, <1>2, ValidIsSeparate
  <1>8. ASSUME Unique(A \cup {t})
        PROVE  /\ Traced(A, l.utxo) /\ l.supply =< was + burnt
               /\ Fresh(l.utxo, txs) /\ MadeBy(txs) \cap MadeOn(A) = {}
    <2>1. Unique(A)
      BY <1>8 DEF Unique
    <2>2. Traced(A, l.utxo) /\ l.supply =< was + burnt
      BY <2>1 DEF Account
    <2> QED
      BY <1>6, <1>7, <1>8, <2>2, NewIsFresh
  <1>9. ASSUME Unique(A \cup {t}) PROVE Traced(A \cup {t}, w)
    <2>1. /\ MadeOn(A \cup {t}) = MadeOn(A) \cup MadeBy(txs)
          /\ TakenOn(A \cup {t}) = TakenOn(A) \cup TakenBy(txs)
      BY DEF MadeOn, TakenOn
    <2> HIDE DEF w, txs
    <2> QED
      BY <1>4, <1>8, <1>9, <2>1 DEF Traced
  <1>10. l.supply \in Nat /\ burnt \in Nat /\ was + burnt =< l.supply
    BY DEF Account, LedgerSet
  <1> HIDE DEF w, r, was, is, fees, cb, lost, txs
  <1>11. l.supply + cb - fees >= is + (burnt + lost)
    BY <1>4, <1>10
  <1>12. r.supply = l.supply + cb - fees
    BY <1>4, <1>5, <1>10, <1>11 DEF issue
  <1>13. is + (burnt + lost) =< r.supply /\ burnt + lost \in Nat
    BY <1>4, <1>10, <1>11, <1>12
  <1>14. ASSUME Unique(A \cup {t}) PROVE r.supply =< is + (burnt + lost)
    <2>1. l.supply =< was + burnt /\ was + cb =< is + lost + fees
      BY <1>4, <1>8, <1>14
    <2> QED
      BY <1>4, <1>10, <1>12, <2>1
  <1>15. Account(r, A \cup {t}, burnt + lost)
    BY <1>4, <1>5, <1>6, <1>9, <1>13, <1>14 DEF Account, is
  <1> QED
    BY <1>4, <1>15 DEF r, lost, txs

LEMMA BurntByNat ==
  \A b \in Blocks : BurntBy(Txs[b]) \in Nat
PROOF
  <1> TAKE b \in Blocks
  <1>1. Txs[b] \in Seq(Transaction)
    BY ChainAssumption
  <1>2. ASSUME NEW i \in DOMAIN Txs[b] PROVE Burnt(Txs[b][i]) \in Nat
    <2>1. Txs[b][i] \in Transaction
      BY <1>1
    <2> QED
      BY <2>1, WorthOfOutput, OutputsAreCoins
  <1> DEFINE s == [i \in DOMAIN Txs[b] |-> Burnt(Txs[b][i])]
  <1>3. s \in Seq(Nat)
    <2>1. DOMAIN Txs[b] = 1..Len(Txs[b]) /\ Len(Txs[b]) \in Nat
      BY <1>1
    <2> QED
      BY <1>2, <2>1
  <1> HIDE DEF s
  <1>4. Total(s) \in Nat
    BY <1>3, TotalNat
  <1> QED
    BY <1>4 DEF BurntBy, s

\* What the blocks of a branch burn.
BurnedOn(idx, t) ==
  Total([i \in DOMAIN path_from_genesis(idx, t) |->
           BurntBy(Txs[path_from_genesis(idx, t)[i]])])

LEMMA BurnedStep ==
  ASSUME NEW idx, IndexMap(idx), IsTree(idx), NEW t \in DOMAIN idx
  PROVE  BurnedOn(idx, t) = (IF t = Genesis THEN 0
                                            ELSE BurnedOn(idx, idx[t].prev))
                              + BurntBy(Txs[t])
PROOF
  <1> DEFINE path(x) == path_from_genesis(idx, x)
             burnt(x) == [i \in DOMAIN path(x) |-> BurntBy(Txs[path(x)[i]])]
             n == idx[t].height
  <1>1. \A x \in DOMAIN idx : x \in Blocks /\ idx[x].height \in Nat
    BY DEF IndexMap, IsMap, Idx
  <1>2. \A x \in DOMAIN idx : /\ DOMAIN burnt(x) = 1..idx[x].height + 1
                              /\ \A i \in 1..idx[x].height + 1 :
                                    /\ path(x)[i] \in DOMAIN idx
                                    /\ burnt(x)[i] = BurntBy(Txs[path(x)[i]])
                                    /\ burnt(x)[i] \in Nat
    BY <1>1, PathType, BurntByNat
  <1>3. path(t)[n + 1] = t
    BY PathStep
  <1>4. \A x \in DOMAIN idx : /\ burnt(x) \in Seq(Int)
                              /\ Len(burnt(x)) = idx[x].height + 1
    <2> TAKE x \in DOMAIN idx
    <2> DEFINE m == idx[x].height + 1
    <2>0. m \in Nat
      BY <1>1
    <2> HIDE DEF burnt
    <2>1. DOMAIN burnt(x) = 1..m /\ \A i \in 1..m : burnt(x)[i] \in Nat
      BY <1>2
    <2>2. burnt(x) = [i \in 1..m |-> burnt(x)[i]]
      BY <2>1 DEF burnt
    <2> HIDE DEF m
    <2>3. burnt(x) \in Seq(Int) /\ Len(burnt(x)) = m
      BY <2>0, <2>1, <2>2
    <2> QED
      BY <2>3 DEF m
  <1>5. n \in Nat /\ t \in Blocks /\ burnt(t)[n + 1] = BurntBy(Txs[t])
    BY <1>1, <1>2, <1>3
  <1>6. CASE t = Genesis
    <2>1. n = 0
      BY <1>6 DEF IsTree
    <2> HIDE DEF burnt, n
    <2>2. Total(burnt(t)) = Total(<< >>) + BurntBy(Txs[t])
      <3>1. Len(burnt(t)) = n + 1 /\ burnt(t) \in Seq(Int)
        BY <1>4 DEF n
      <3>2. << >> \in Seq(Int) /\ Len(<< >>) = n /\ Len(burnt(t)) = Len(<< >>) + 1
        BY <2>1, <3>1
      <3>3. \A i \in 1..Len(<< >>) : << >>[i] = burnt(t)[i]
        BY <2>1, <3>2
      <3> QED
        BY <1>5, <3>1, <3>2, <3>3, TotalLonger
    <2> QED
      BY <1>6, <2>2, TotalEmpty DEF BurnedOn, burnt
  <1>7. CASE t # Genesis
    <2> DEFINE p == idx[t].prev
    <2>1. p \in DOMAIN idx /\ n = idx[p].height + 1
      BY <1>7 DEF IsTree
    <2>2. \A i \in 1..n : path(p)[i] = path(t)[i]
      BY <1>7, PathStep
    <2>3. \A i \in 1..n : i \in 1..n + 1 /\ i \in 1..idx[p].height + 1
      BY <1>5, <2>1
    <2> HIDE DEF burnt, path, n, p
    <2>4. \A i \in 1..n : /\ burnt(t)[i] = BurntBy(Txs[path(t)[i]])
                          /\ burnt(p)[i] = BurntBy(Txs[path(p)[i]])
      BY <1>2, <2>1, <2>3 DEF n
    <2>5. \A i \in 1..n : burnt(p)[i] = burnt(t)[i]
      BY <2>2, <2>4
    <2>6. /\ burnt(p) \in Seq(Int) /\ Len(burnt(p)) = n
          /\ burnt(t) \in Seq(Int) /\ Len(burnt(t)) = n + 1
      BY <1>4, <2>1 DEF n
    <2>7. Total(burnt(t)) = Total(burnt(p)) + BurntBy(Txs[t])
      BY <1>5, <2>5, <2>6, TotalLonger
    <2> QED
      BY <1>7, <2>7 DEF BurnedOn, burnt, path, p
  <1> QED
    BY <1>6, <1>7

LEMMA OutcomeAccount ==
  ASSUME NEW idx, IndexMap(idx), IsTree(idx)
  PROVE  \A t \in DOMAIN idx : outcome(idx, t, {}) # Invalid
            => Account(outcome(idx, t, {}), active(idx, t), BurnedOn(idx, t))
PROOF
  <1> DEFINE out(t) == outcome(idx, t, {})
             Fits(t) == out(t) # Invalid
                          => Account(out(t), active(idx, t), BurnedOn(idx, t))
             S == {t \in DOMAIN idx : Fits(t)}
  <1>1. ASSUME NEW t \in DOMAIN idx, NEW l \in CappedLedgers,
               validate_txs(l, Txs[t], idx[t].height, TRUE),
               out(t) = apply_txs(l, Txs[t], idx[t].height),
               NEW A \in SUBSET Blocks, t \notin A, NEW burnt,
               Account(l, A, burnt)
        PROVE  Account(out(t), A \cup {t}, burnt + BurntBy(Txs[t]))
    <2>1. t \in Blocks \ A /\ idx[t].height \in Nat /\ l \in LedgerSet
      BY <1>1 DEF IndexMap, IsMap, Idx, CappedLedgers
    <2> HIDE DEF out
    <2> QED
      BY <1>1, <2>1, AccountStep
  <1>2. Genesis \in S
    <2>1. Genesis \in DOMAIN idx /\ active(idx, Genesis) = {Genesis}
      BY ActiveStep DEF IsTree
    <2> SUFFICES ASSUME out(Genesis) # Invalid
                 PROVE  Account(out(Genesis), {Genesis}, BurnedOn(idx, Genesis))
      BY <2>1
    <2>2. /\ EmptyLedger \in CappedLedgers
          /\ validate_txs(EmptyLedger, Txs[Genesis], idx[Genesis].height, TRUE)
          /\ out(Genesis) = apply_txs(EmptyLedger, Txs[Genesis],
                                      idx[Genesis].height)
      BY <2>1, OutcomeOfBlock
    <2> HIDE DEF out
    <2>3. Account(out(Genesis), {} \cup {Genesis}, 0 + BurntBy(Txs[Genesis]))
      BY <1>1, <2>1, <2>2, EmptyAccount
    <2>4. BurnedOn(idx, Genesis) = 0 + BurntBy(Txs[Genesis])
      BY <2>1, BurnedStep
    <2>5. {} \cup {Genesis} = {Genesis}
      OBVIOUS
    <2> QED
      BY <2>3, <2>4, <2>5
  <1>3. ASSUME NEW t \in DOMAIN idx \ {Genesis}, idx[t].prev \in S
        PROVE  t \in S
    <2> SUFFICES ASSUME out(t) # Invalid
                 PROVE  Account(out(t), active(idx, t), BurnedOn(idx, t))
      BY <1>3
    <2> DEFINE p == idx[t].prev
    <2>1. p \in DOMAIN idx /\ Fits(p)
      BY <1>3
    <2>2. active(idx, t) = active(idx, p) \cup {t}
      BY ActiveStep
    <2>3. /\ out(p) \in CappedLedgers
          /\ validate_txs(out(p), Txs[t], idx[t].height, TRUE)
          /\ out(t) = apply_txs(out(p), Txs[t], idx[t].height)
      BY OutcomeOfBlock
    <2>4. out(p) # Invalid
      BY <2>3, InvalidIsNoLedger DEF CappedLedgers
    <2>5. active(idx, p) \in SUBSET Blocks /\ t \notin active(idx, p)
      <3>1. /\ active(idx, p) \subseteq Blocks
            /\ \A a \in active(idx, p) : BranchHeight[a] =< idx[p].height
        BY <2>1, ActiveHeights
      <3>2. BranchHeight[t] = idx[t].height /\ idx[t].height = idx[p].height + 1
            /\ idx[p].height \in Nat
        BY <2>1, StoredBranch DEF IsTree, IndexMap, IsMap, Idx
      <3> QED
        BY <3>1, <3>2
    <2>6. BurnedOn(idx, t) = BurnedOn(idx, p) + BurntBy(Txs[t])
      BY BurnedStep
    <2>7. Account(out(p), active(idx, p), BurnedOn(idx, p))
      BY <2>1, <2>4
    <2> HIDE DEF out, p
    <2>8. Account(out(t), active(idx, p) \cup {t},
                  BurnedOn(idx, p) + BurntBy(Txs[t]))
      BY <1>1, <2>3, <2>5, <2>7
    <2> QED
      BY <2>2, <2>6, <2>8
  <1> HIDE DEF S
  <1>4. DOMAIN idx \subseteq S
    BY <1>2, <1>3, TreeInduction
  <1> QED
    BY <1>4 DEF S, out

LEMMA ForkInvMoney ==
  ASSUME ForkInv
  PROVE  MoneyIsConserved
PROOF
  <1> DEFINE l == outcome(index, tip, {})
             A == active(index, tip)
             val == [o \in DOMAIN utxo |-> utxo[o].value]
             coins == SumOf(val) + Burned
             held == SumOver(Worth, DOMAIN utxo)
             burnt == BurnedOn(index, tip)
  <1>1. IndexMap(index) /\ IsTree(index) /\ tip \in DOMAIN index /\ supply \in Nat
    BY DEF ForkInv, IInv, TypeOK, IndexIsTree, IndexMap
  <1>2. l # Invalid /\ utxo = l.utxo /\ supply = l.supply
    BY DEF ForkInv, LedgerIsOutcome
  <1>3. Account(l, A, burnt)
    BY <1>1, <1>2, OutcomeAccount
  <1>4. Priced(Worth, utxo)
    BY <1>2, <1>3 DEF Account
  <1>5. held \in Nat
    BY <1>4, SumStep DEF Priced
  <1>6. SumOf(val) = held
    <2>1. DOMAIN val = DOMAIN utxo /\ \A o \in DOMAIN utxo : Worth[o] = val[o]
      BY <1>4 DEF Priced
    <2>2. Summable(Worth, DOMAIN utxo)
      BY <1>4 DEF Priced
    <2> HIDE DEF val
    <2>3. SumOver(Worth, DOMAIN utxo) = SumOver(val, DOMAIN utxo)
      BY <2>1, <2>2, SumAgrees
    <2>4. SumOf(val) = SumOver(val, DOMAIN val)
      BY DEF SumOf, FoldFunction, SumOver, SumFunctionOnSet
    <2> QED
      BY <2>1, <2>3, <2>4
  <1>7. Burned = burnt
    BY DEF Burned, BurnedOn, BurntBy, Burnt
  <1>8. burnt \in Nat /\ held + burnt =< supply
    BY <1>2, <1>3 DEF Account
  <1>9. Unique(A) => supply =< held + burnt
    BY <1>2, <1>3 DEF Account
  <1>10. ~ Unique(A)
           => \E b \in A : \E o \in coinbase_outputs(b) : reissued(o)
    BY DEF Unique, reissued
  <1>11. coins = held + burnt
    BY <1>6, <1>7
  <1> HIDE DEF coins, held, burnt, A
  <1>12. supply = coins \/ (supply > coins /\ ~ Unique(A))
    BY <1>1, <1>5, <1>8, <1>9, <1>11
  <1> QED
    BY <1>10, <1>12 DEF MoneyIsConserved, coins, A

\* Through any sequence of blocks, switches and reopenings the supply that
\* apply_txs counts is the value of the unspent outputs and of the burnt ones,
\* or more by what a repeated coinbase replaced.
THEOREM MoneyStaysConserved ==
  Spec => []MoneyIsConserved
PROOF
  <1>1. ForkInv => MoneyIsConserved
    BY ForkInvMoney
  <1> QED
    BY <1>1, ForkInvariance, PTL
=============================================================================
