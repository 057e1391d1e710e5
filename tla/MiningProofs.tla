---------------------------- MODULE MiningProofs ----------------------------
(***************************************************************************)
(* A nonce found on the present tip earns its block unless the block is    *)
(* torn, early, or its payments cannot be made: for any number of threads  *)
(* and blocks, any payments and any reward schedule.                       *)
(***************************************************************************)
EXTENDS Mining, LedgerProofs

Record == [prev : Nat, height : Nat, label : Nat, claim : Nat,
           txs : SUBSET Payments, by : Kinds \cup {"peer"}]

\* The blocks, and what the writer has published of them.
ChainOK ==
  /\ blocks \in Seq(Record)
  /\ \A i \in 1..Len(blocks) : blocks[i].prev \in 0..Len(blocks)
  /\ tip \in Nat /\ height \in Nat /\ supply \in Nat
  /\ writer = [next |-> writer.next, by |-> writer.by]
  /\ writer.next \in {"none", "tip", "height"}
  /\ IF writer.next = "tip" THEN tip < Len(blocks) ELSE tip = Len(blocks)

Cands == [prev : Nat, label : Nat, claim : Nat, txs : SUBSET Payments,
          early : BOOLEAN]

Places == {"off", "head", "rest", "seen", "search", "found", "submit", "stuck",
           "won"}

\* What the threads hold; no candidate is ahead of the tip.
ThreadsOK ==
  /\ pool \subseteq Payments
  /\ running \in [Kinds -> BOOLEAN]
  /\ at \in [Miners -> Places]
  /\ believed \in [Miners -> Nat]
  /\ cand \in [Miners -> Cands]
  /\ \A m \in Miners : cand[m].prev =< tip

Built(m) == at[m] \in Places \ {"off", "head", "rest"} /\ cand[m].prev = tip

\* A candidate on the tip, built after the tip was written: unless its height is
\* torn it was read when the height was the tip's, and is the one submitted
\* with; the supply is the one it was built with until the next block begins.
Told(m) ==
  Built(m) =>
    /\ ~ torn(m) => cand[m].label = height + 1
    /\ writer.next # "tip" =>
         cand[m].claim = block_reward(cand[m].label, supply)
    /\ at[m] = "submit" /\ ~ torn(m) => believed[m] = height + 1

MiningInv == ChainOK /\ ThreadsOK /\ \A m \in Miners : Told(m)

-----------------------------------------------------------------------------
(* The operators on the chain *)

\* The walk down from i that Branch(i) collects.
Walks(g, i) ==
  /\ g \in [0..MAX_BLOCKS -> 0..Len(blocks)] /\ g[0] = i
  /\ \A n \in 1..MAX_BLOCKS :
       g[n] = IF g[n - 1] = 0 THEN 0 ELSE blocks[g[n - 1]].prev
  /\ Branch(i) = {g[n] : n \in 0..MAX_BLOCKS} \ {0}

\* Such a walk meets only blocks.
LEMMA BranchWalk ==
  ChainOK => \A i \in 0..Len(blocks) : \E g : Walks(g, i)
<1> SUFFICES ASSUME ChainOK, NEW i \in 0..Len(blocks) PROVE \E g : Walks(g, i)
  OBVIOUS
<1> DEFINE L == Len(blocks)
           G == [p \in (1..MAX_BLOCKS) \X (0..L) |->
                   IF p[2] = 0 THEN 0 ELSE blocks[p[2]].prev]
           T == [n \in 0..MAX_BLOCKS |-> 0..L]
           below == CHOOSE f : f = [n \in 0..MAX_BLOCKS |->
                      IF n = 0 THEN i
                      ELSE IF f[n - 1] = 0 THEN 0 ELSE blocks[f[n - 1]].prev]
<1>1. MAX_BLOCKS \in Nat /\ L \in Nat
  BY MiningAssumption DEF MiningAssumption, ChainOK
<1>2. \A x \in 0..L : (IF x = 0 THEN 0 ELSE blocks[x].prev) \in 0..L
  BY <1>1 DEF ChainOK
<1>3. \A n \in 1..MAX_BLOCKS : \A x \in T[n - 1] :
        /\ G[<<n, x>>] = IF x = 0 THEN 0 ELSE blocks[x].prev
        /\ G[<<n, x>>] \in T[n]
  <2> TAKE n \in 1..MAX_BLOCKS
  <2>1. n - 1 \in 0..MAX_BLOCKS /\ n \in 0..MAX_BLOCKS
    BY <1>1
  <2>. QED  BY <1>1, <1>2, <2>1
<1>4. IsRecursion(MAX_BLOCKS, 0..L, T, i, G)
  <2>1. T \in [0..MAX_BLOCKS -> SUBSET (0..L)] /\ i \in T[0]
    BY <1>1
  <2> HIDE DEF G, T
  <2>. QED  BY <1>1, <1>3, <2>1 DEF IsRecursion
<1>5. PICK g : Solves(g, MAX_BLOCKS, 0..L, T, i, G)
  BY <1>4, RecursionExists
<1>6. g = [n \in 0..MAX_BLOCKS |->
             IF n = 0 THEN i
             ELSE IF g[n - 1] = 0 THEN 0 ELSE blocks[g[n - 1]].prev]
  <2>1. \A n \in 1..MAX_BLOCKS :
          g[n] = IF g[n - 1] = 0 THEN 0 ELSE blocks[g[n - 1]].prev
    <3> TAKE n \in 1..MAX_BLOCKS
    <3>1. n - 1 \in 0..MAX_BLOCKS
      BY <1>1
    <3>. QED  BY <1>3, <1>5, <3>1 DEF Solves
  <2>2. \A n \in 0..MAX_BLOCKS : n = 0 \/ n \in 1..MAX_BLOCKS
    BY <1>1
  <2>. QED  BY <1>5, <2>1, <2>2 DEF Solves
<1>7. below = [n \in 0..MAX_BLOCKS |->
                 IF n = 0 THEN i
                 ELSE IF below[n - 1] = 0 THEN 0 ELSE blocks[below[n - 1]].prev]
  BY <1>6
<1> HIDE DEF below
<1> DEFINE I == {k \in Nat : k =< MAX_BLOCKS => below[k] \in 0..L}
<1>8. 0 \in I
  BY <1>1, <1>7
<1>9. ASSUME NEW k \in Nat, k \in I PROVE k + 1 \in I
  <2> SUFFICES ASSUME k + 1 =< MAX_BLOCKS PROVE below[k + 1] \in 0..L
    OBVIOUS
  <2>1. k + 1 \in 0..MAX_BLOCKS /\ k + 1 # 0 /\ (k + 1) - 1 = k
    BY <1>1
  <2>2. below[k + 1] = IF below[k] = 0 THEN 0 ELSE blocks[below[k]].prev
    BY <1>7, <2>1
  <2>3. below[k] \in 0..L
    BY <1>1, <1>9
  <2>. QED  BY <1>2, <2>2, <2>3
<1> HIDE DEF I
<1>10. \A k \in Nat : k \in I
  BY <1>8, <1>9, SetInduction
<1>11. \A n \in 0..MAX_BLOCKS : below[n] \in 0..L
  BY <1>1, <1>10 DEF I
<1>12. Branch(i) = {below[n] : n \in 0..MAX_BLOCKS} \ {0}
  BY DEF Branch, below
<1>13. Walks(below, i)
  <2>1. below \in [0..MAX_BLOCKS -> 0..L]
    BY <1>7, <1>11
  <2>2. \A n \in 1..MAX_BLOCKS : n \in 0..MAX_BLOCKS /\ n # 0
    BY <1>1
  <2>. QED  BY <1>1, <1>7, <1>12, <2>1, <2>2 DEF Walks
<1>. QED  BY <1>13

\* The same of the blocks there will be.
LEMMA BranchWalkNext ==
  (ChainOK => \A i \in 0..Len(blocks) : \E g : Walks(g, i))'
BY BranchWalk, PTL

\* A branch is made of blocks.
LEMMA BranchInside ==
  ASSUME ChainOK, NEW i \in 0..Len(blocks)
  PROVE  Branch(i) \subseteq 1..Len(blocks)
<1>1. PICK g : Walks(g, i)
  BY BranchWalk
<1>2. Len(blocks) \in Nat /\ \A n \in 0..MAX_BLOCKS : g[n] \in 0..Len(blocks)
  BY <1>1 DEF Walks, ChainOK
<1>3. Branch(i) = {g[n] : n \in 0..MAX_BLOCKS} \ {0}
  BY <1>1 DEF Walks
<1>. QED  BY <1>2, <1>3

\* What a block is made of.
LEMMA BlockTyped ==
  ASSUME ChainOK
  PROVE  /\ Len(blocks) \in Nat
         /\ \A i \in 1..Len(blocks) :
              blocks[i].height \in Nat /\ blocks[i].claim \in Nat
<1>1. Len(blocks) \in Nat /\ \A i \in 1..Len(blocks) : blocks[i] \in Record
  BY DEF ChainOK
<1>2. \A r \in Record : r.height \in Nat /\ r.claim \in Nat
  BY DEF Record
<1>. QED  BY <1>1, <1>2

\* The sums whose last is what the branch of b has issued.
Sums(g, b) ==
  /\ g \in [0..Len(blocks) -> Nat] /\ g[0] = INITIAL_REWARD
  /\ \A n \in 1..Len(blocks) :
       g[n] = g[n - 1] + IF n \in Branch(b) THEN blocks[n].claim ELSE 0
  /\ Issued(b) = g[Len(blocks)]

\* They are natural numbers.
LEMMA IssuedSum ==
  ChainOK => \A b \in 0..Len(blocks) : \E g : Sums(g, b)
<1> SUFFICES ASSUME ChainOK, NEW b \in 0..Len(blocks) PROVE \E g : Sums(g, b)
  OBVIOUS
<1> DEFINE L == Len(blocks)
           add == [n \in 1..L |->
                     IF n \in Branch(b) THEN blocks[n].claim ELSE 0]
           G == [p \in (1..L) \X Nat |-> p[2] + add[p[1]]]
           T == [n \in 0..L |-> Nat]
           sum == CHOOSE f : f = [n \in 0..L |->
                    IF n = 0 THEN INITIAL_REWARD
                    ELSE f[n - 1]
                         + IF n \in Branch(b) THEN blocks[n].claim ELSE 0]
<1>1. L \in Nat /\ \A n \in 1..L : add[n] \in Nat
  BY BlockTyped
<1>2. \A n \in 1..L : \A x \in T[n - 1] :
        /\ G[<<n, x>>] = x + IF n \in Branch(b) THEN blocks[n].claim ELSE 0
        /\ G[<<n, x>>] \in T[n]
  <2> TAKE n \in 1..L
  <2>1. n - 1 \in 0..L /\ n \in 0..L
    BY <1>1
  <2>2. add[n] = IF n \in Branch(b) THEN blocks[n].claim ELSE 0
    OBVIOUS
  <2>3. add[n] \in Nat
    BY <1>1
  <2>4. \A x \in Nat : G[<<n, x>>] = x + add[n]
    OBVIOUS
  <2> HIDE DEF G, add
  <2>. QED  BY <2>1, <2>2, <2>3, <2>4
<1>3. IsRecursion(L, Nat, T, INITIAL_REWARD, G)
  <2>1. T \in [0..L -> SUBSET Nat] /\ INITIAL_REWARD \in T[0]
    BY <1>1, LedgerAssumption DEF LedgerAssumption
  <2> HIDE DEF G, T
  <2>. QED  BY <1>1, <1>2, <2>1 DEF IsRecursion
<1>4. PICK g : Solves(g, L, Nat, T, INITIAL_REWARD, G)
  BY <1>3, RecursionExists
<1>5. g = [n \in 0..L |->
             IF n = 0 THEN INITIAL_REWARD
             ELSE g[n - 1] + IF n \in Branch(b) THEN blocks[n].claim ELSE 0]
  <2>1. \A n \in 1..L :
          g[n] = g[n - 1] + IF n \in Branch(b) THEN blocks[n].claim ELSE 0
    <3> TAKE n \in 1..L
    <3>1. n - 1 \in 0..L
      BY <1>1
    <3> HIDE DEF G
    <3>. QED  BY <1>2, <1>4, <3>1 DEF Solves
  <2>2. \A n \in 0..L : n = 0 \/ n \in 1..L
    BY <1>1
  <2>. QED  BY <1>4, <2>1, <2>2 DEF Solves
<1>6. sum = [n \in 0..L |->
               IF n = 0 THEN INITIAL_REWARD
               ELSE sum[n - 1] + IF n \in Branch(b) THEN blocks[n].claim ELSE 0]
  BY <1>5
<1> HIDE DEF sum
<1> DEFINE I == {k \in Nat : k =< L => sum[k] \in Nat}
<1>7. 0 \in I
  BY <1>1, <1>6, LedgerAssumption DEF LedgerAssumption
<1>8. ASSUME NEW k \in Nat, k \in I PROVE k + 1 \in I
  <2> SUFFICES ASSUME k + 1 =< L PROVE sum[k + 1] \in Nat
    OBVIOUS
  <2>1. k + 1 \in 0..L /\ k + 1 # 0 /\ (k + 1) - 1 = k /\ k + 1 \in 1..L
    BY <1>1
  <2>2. sum[k + 1] = sum[k] + add[k + 1]
    BY <1>6, <2>1
  <2>3. sum[k] \in Nat
    BY <1>1, <1>8
  <2>4. add[k + 1] \in Nat
    BY <1>1, <2>1
  <2> HIDE DEF add
  <2>. QED  BY <2>2, <2>3, <2>4
<1> HIDE DEF I
<1>9. \A k \in Nat : k \in I
  BY <1>7, <1>8, SetInduction
<1>10. Issued(b) = sum[L]
  BY DEF Issued, sum
<1>11. sum \in [0..L -> Nat]
  <2>1. \A k \in 0..L : sum[k] \in Nat
    BY <1>1, <1>9 DEF I
  <2>. QED  BY <1>6, <2>1
<1>12. \A n \in 1..L :
         sum[n] = sum[n - 1] + IF n \in Branch(b) THEN blocks[n].claim ELSE 0
  <2>1. \A n \in 1..L : n \in 0..L /\ n # 0
    BY <1>1
  <2>. QED  BY <1>6, <2>1
<1>13. sum[0] = INITIAL_REWARD
  BY <1>1, <1>6
<1> HIDE DEF I
<1>. QED  BY <1>10, <1>11, <1>12, <1>13 DEF Sums

\* What a branch has issued is a natural number.
LEMMA IssuedNat ==
  ASSUME ChainOK, NEW b \in 0..Len(blocks)
  PROVE  Issued(b) \in Nat
<1>1. PICK g : Sums(g, b)
  BY IssuedSum
<1>2. Len(blocks) \in Nat
  BY BlockTyped
<1>. QED  BY <1>1, <1>2 DEF Sums

\* Heights are natural, and stay what they are when a block is added.
LEMMA HeightNat ==
  ASSUME ChainOK, NEW i \in 0..Len(blocks)
  PROVE  HeightOf(i) \in Nat
BY BlockTyped DEF HeightOf

\* The height of a block stays when another is appended.
LEMMA HeightKept ==
  ASSUME ChainOK, NEW b \in Record, blocks' = Append(blocks, b),
         NEW i \in 0..Len(blocks)
  PROVE  HeightOf(i)' = HeightOf(i)
BY DEF ChainOK, HeightOf

-----------------------------------------------------------------------------
(* The steps *)

\* A block that is begun leaves the tip where it is.
LEMMA BeginKeeps ==
  ASSUME ChainOK, lock_free, NEW b \in Record, b.prev \in 0..Len(blocks),
         NEW by, Begin(b, by)
  PROVE  /\ ChainOK' /\ writer'.next = "tip"
         /\ UNCHANGED <<tip, height>>
         /\ \A i \in 0..Len(blocks) : HeightOf(i)' = HeightOf(i)
<1>1. /\ blocks' = Append(blocks, b) /\ UNCHANGED <<tip, height>>
      /\ supply' = Issued(b.prev) + b.claim
      /\ writer' = [next |-> "tip", by |-> by]
  BY DEF Begin
<1>2. supply' \in Nat
  BY <1>1, IssuedNat DEF Record
<1>3. blocks' \in Seq(Record) /\ Len(blocks') = Len(blocks) + 1
  BY <1>1 DEF ChainOK
<1>4. \A i \in 1..Len(blocks') : blocks'[i].prev \in 0..Len(blocks')
  <2> TAKE i \in 1..Len(blocks')
  <2>1. CASE i \in 1..Len(blocks)
    BY <1>1, <1>3, <2>1 DEF ChainOK
  <2>2. CASE i = Len(blocks) + 1
    BY <1>1, <1>3, <2>2 DEF ChainOK
  <2>. QED  BY <1>3, <2>1, <2>2 DEF ChainOK
<1>5. ChainOK'
  BY <1>1, <1>2, <1>3, <1>4 DEF ChainOK, lock_free
<1>. QED  BY <1>1, <1>5, HeightKept

\* A block that is begun, by whomever: what the threads were told still holds
\* of those that stay where they are with what they have.
LEMMA TellAfterBegin ==
  ASSUME MiningInv, NEW b \in Record, lock_free, b.prev \in 0..Len(blocks),
         NEW by, Begin(b, by), NEW m \in Miners,
         UNCHANGED <<cand[m]>>,
         UNCHANGED <<at[m], believed[m]>> \/ (at'[m] = "won" /\ Built(m))
  PROVE  Told(m)'
<1>1. /\ ChainOK' /\ writer'.next = "tip" /\ UNCHANGED <<tip, height>>
      /\ \A i \in 0..Len(blocks) : HeightOf(i)' = HeightOf(i)
  BY BeginKeeps DEF MiningInv
<1>2. cand[m].prev \in 0..Len(blocks)
  <2>1. tip \in Nat /\ Len(blocks) \in Nat /\ tip =< Len(blocks)
    BY BlockTyped DEF MiningInv, ChainOK
  <2>2. cand[m].prev \in Nat /\ cand[m].prev =< tip
    BY DEF MiningInv, ThreadsOK, Cands
  <2>. QED  BY <2>1, <2>2
<1>3. torn(m)' <=> torn(m)
  BY <1>1, <1>2 DEF torn
<1>4. Told(m)
  BY DEF MiningInv
<1>. QED  BY <1>1, <1>3, <1>4 DEF Told, Built

\* A peer's block, on the tip or on a branch that leaves ours, is a block like any
\* other: only its prev and claim have to be shown typed.
LEMMA PeerBlockKeeps == ASSUME MiningInv, PeerBlock PROVE MiningInv'
<1>1. PICK p \in Branch(tip) \cup {0}, txs \in SUBSET Payments :
        Begin([prev |-> p, height |-> HeightOf(p) + 1,
               label |-> HeightOf(p) + 1,
               claim |-> block_reward(HeightOf(p) + 1, Issued(p)),
               txs |-> txs, by |-> "peer"], "peer")
  BY DEF PeerBlock
<1> DEFINE b == [prev |-> p, height |-> HeightOf(p) + 1,
                 label |-> HeightOf(p) + 1,
                 claim |-> block_reward(HeightOf(p) + 1, Issued(p)),
                 txs |-> txs, by |-> "peer"]
<1>2. lock_free /\ UNCHANGED <<pool, run_vars, miner_vars>>
  BY DEF PeerBlock
<1>3. p \in 0..Len(blocks) /\ p \in Nat
  <2>1. tip \in 0..Len(blocks) /\ Len(blocks) \in Nat
    BY <1>2, BlockTyped DEF MiningInv, ChainOK, lock_free
  <2>2. Branch(tip) \subseteq 1..Len(blocks)
    BY <2>1, BranchInside DEF MiningInv
  <2>. QED  BY <2>1, <2>2
<1>4. HeightOf(p) \in Nat /\ Issued(p) \in Nat
  BY <1>3, HeightNat, IssuedNat DEF MiningInv
<1>5. b \in Record /\ b.prev \in 0..Len(blocks)
  <2>1. HeightOf(p) + 1 \in Nat
    BY <1>4
  <2>2. block_reward(HeightOf(p) + 1, Issued(p)) \in Nat
    BY <1>4, <2>1, RewardBound
  <2>. QED  BY <1>3, <2>1, <2>2 DEF Record
<1>6. Begin(b, "peer")
  BY <1>1
<1> HIDE DEF b
<1>7. ChainOK' /\ UNCHANGED tip
  BY <1>2, <1>5, <1>6, BeginKeeps DEF MiningInv
<1>8. ThreadsOK'
  BY <1>2, <1>7 DEF MiningInv, ThreadsOK, run_vars, miner_vars
<1>9. ASSUME NEW m \in Miners PROVE Told(m)'
  <2>1. /\ UNCHANGED <<cand[m]>>
        /\ UNCHANGED <<at[m], believed[m]>> \/ (at'[m] = "won" /\ Built(m))
    BY <1>2 DEF miner_vars
  <2>. QED  BY <1>2, <1>5, <1>6, <2>1, TellAfterBegin
<1>. QED  BY <1>7, <1>8, <1>9 DEF MiningInv

\* The new tip makes every candidate stale; the new height is the one a candidate
\* that is not torn names already.
LEMMA PublishKeeps == ASSUME MiningInv, Publish PROVE MiningInv'
<1> USE DEF MiningInv
<1>1. /\ Len(blocks) \in Nat
      /\ UNCHANGED <<blocks, supply, pool, running, at, cand, believed>>
  BY BlockTyped DEF Publish, run_vars, miner_vars
<1>2. \A m \in Miners : cand[m].prev \in Nat /\ cand[m].prev =< tip
  BY DEF ThreadsOK, Cands
<1>3. CASE writer.next = "tip"
  <2>1. tip' = Len(blocks) /\ tip < Len(blocks) /\ height' = height
        /\ writer' = [writer EXCEPT !.next = "height"]
    BY <1>3 DEF Publish, ChainOK
  <2>2. ChainOK'
    BY <1>1, <1>3, <2>1 DEF ChainOK
  <2>3. ThreadsOK' /\ \A m \in Miners : cand'[m].prev # tip'
    BY <1>1, <1>2, <2>1 DEF ThreadsOK, ChainOK
  <2>. QED  BY <2>2, <2>3 DEF Told, Built
<1>4. CASE writer.next = "height"
  <2>1. tip' = tip /\ tip = Len(blocks) /\ height' = HeightOf(Len(blocks))
        /\ writer' = [next |-> "none", by |-> "nobody"]
    BY <1>4 DEF Publish, ChainOK
  <2>2. height' \in Nat
    BY <1>1, <2>1, HeightNat
  <2>3. ChainOK'
    BY <1>1, <1>4, <2>1, <2>2 DEF ChainOK
  <2>4. ThreadsOK'
    BY <1>1, <1>2, <2>1 DEF ThreadsOK
  <2>5. ASSUME NEW m \in Miners PROVE Told(m)'
    <3> SUFFICES ASSUME Built(m) PROVE Told(m)'
      BY <1>1, <2>1 DEF Told, Built
    <3>1. Told(m) /\ cand[m].prev = tip
      BY DEF Built
    <3>2. torn(m)' <=> torn(m)
      BY <1>1 DEF torn, HeightOf
    <3>3. ~ torn(m) => cand[m].label = height' + 1
      BY <2>1, <3>1 DEF torn
    <3>4. writer.next # "tip"
      BY <1>4
    <3>5. ~ torn(m) => height + 1 = height' + 1
      BY <3>1, <3>3 DEF Told
    <3>. QED  BY <1>1, <2>1, <3>1, <3>2, <3>3, <3>4, <3>5 DEF Told, Built
  <2>. QED  BY <2>3, <2>4, <2>5
<1>. QED  BY <1>3, <1>4 DEF Publish

\* A thread that takes a step of its own, and writes nothing of the chain.
LEMMA ThreadKeeps ==
  ASSUME MiningInv, UNCHANGED <<chain_vars, running>>, pool' \subseteq pool,
         NEW m \in Miners, NEW l \in Places, at' = [at EXCEPT ![m] = l],
         cand' \in [Miners -> Cands],
         believed' \in [Miners -> Nat],
         \A n \in Miners \ {m} : UNCHANGED <<cand[n], believed[n]>>,
         cand'[m].prev =< tip,
         Told(m)'
  PROVE  MiningInv'
<1> USE DEF MiningInv
<1>1. UNCHANGED <<blocks, tip, height, supply, writer>>
  BY DEF chain_vars
<1>2. ChainOK'
  BY <1>1 DEF ChainOK
<1>3. ThreadsOK'
  BY <1>1 DEF ThreadsOK
<1>4. ASSUME NEW n \in Miners \ {m} PROVE Told(n)'
  <2>1. at'[n] = at[n] /\ cand'[n] = cand[n] /\ believed'[n] = believed[n]
    BY DEF ThreadsOK
  <2>2. Told(n)
    OBVIOUS
  <2>. QED  BY <1>1, <2>1, <2>2 DEF Told, Built, torn, HeightOf
<1>. QED  BY <1>2, <1>3, <1>4

\* A thread without a candidate.
LEMMA EmptyHanded ==
  ASSUME MiningInv, UNCHANGED <<chain_vars, running>>, pool' \subseteq pool,
         NEW m \in Miners, NEW l \in {"head", "off"},
         goto(m, l), set(m, NoCandidate),
         believed' \in [Miners -> Nat],
         \A n \in Miners \ {m} : UNCHANGED <<believed[n]>>
  PROVE  MiningInv'
<1>1. NoCandidate \in Cands
  BY DEF NoCandidate, Cands
<1>2. at' = [at EXCEPT ![m] = l] /\ cand' = [cand EXCEPT ![m] = NoCandidate]
  BY DEF goto, set
<1>3. cand'[m] = NoCandidate /\ at'[m] = l /\ tip \in Nat
  BY <1>2 DEF MiningInv, ThreadsOK, ChainOK
<1>4. cand'[m].prev =< tip
  BY <1>3 DEF NoCandidate
<1>5. Told(m)'
  BY <1>3 DEF Told, Built
<1>6. /\ cand' \in [Miners -> Cands]
      /\ believed' \in [Miners -> Nat]
      /\ \A n \in Miners \ {m} : UNCHANGED <<cand[n], believed[n]>>
  BY <1>1, <1>2 DEF MiningInv, ThreadsOK
<1>. QED  BY <1>2, <1>4, <1>5, <1>6, ThreadKeeps DEF Places

\* New threads begin without a candidate.
LEMMA StartKeeps ==
  ASSUME MiningInv, StartCpu \/ StartGpu PROVE MiningInv'
<1> USE DEF MiningInv
<1>1. UNCHANGED <<blocks, tip, height, supply, writer, pool, cand, believed>>
  BY DEF StartCpu, StartGpu, chain_vars
<1>2. running' \in [Kinds -> BOOLEAN]
  BY DEF StartCpu, StartGpu, ThreadsOK
<1>3. /\ at' \in [Miners -> Places]
      /\ \A m \in Miners : at'[m] = at[m] \/ at'[m] = "head"
  <2>1. CASE StartCpu
    BY <2>1 DEF StartCpu, ThreadsOK, Places
  <2>2. CASE StartGpu
    BY <2>2 DEF StartGpu, goto, ThreadsOK, Places
  <2>. QED  BY <2>1, <2>2
<1>4. ChainOK'
  BY <1>1 DEF ChainOK
<1>5. ThreadsOK'
  BY <1>1, <1>2, <1>3 DEF ThreadsOK
<1>6. ASSUME NEW m \in Miners PROVE Told(m)'
  <2>1. Told(m) /\ (at'[m] = at[m] \/ at'[m] = "head")
    BY <1>3
  <2>. QED  BY <1>1, <2>1 DEF Told, Built, torn, HeightOf
<1>. QED  BY <1>4, <1>5, <1>6

\* Steps that only touch the pool, the flags, or nothing.
LEMMA OthersKeep ==
  ASSUME MiningInv,
         \/ \E tx \in Payments : Offer(tx)
         \/ \E k \in Kinds : Stop(k)
         \/ UNCHANGED mining_vars
  PROVE  MiningInv'
<1> USE DEF MiningInv
<1>1. UNCHANGED <<blocks, tip, height, supply, writer, at, cand, believed>>
  BY DEF Offer, Stop, mining_vars, chain_vars, miner_vars
<1>2. pool' \subseteq Payments /\ running' \in [Kinds -> BOOLEAN]
  BY DEF Offer, Stop, mining_vars, run_vars, ThreadsOK
<1>3. ChainOK' /\ ThreadsOK'
  BY <1>1, <1>2 DEF ChainOK, ThreadsOK
<1>4. \A m \in Miners : Told(m)'
  BY <1>1 DEF Told, Built, torn, HeightOf
<1>. QED  BY <1>3, <1>4

\* A candidate begun with the tip is not built yet.
LEMMA ReadTipKeeps ==
  ASSUME MiningInv, NEW m \in Miners, ReadTip(m) PROVE MiningInv'
<1>1. UNCHANGED <<chain_vars, pool, running, believed>>
  BY DEF ReadTip, run_vars
<1>2. CASE ~ running[kind(m)]
  BY <1>1, <1>2, EmptyHanded DEF ReadTip, MiningInv, ThreadsOK
<1>3. CASE running[kind(m)]
  <2> DEFINE c == [NoCandidate EXCEPT !.prev = tip]
  <2>1. at' = [at EXCEPT ![m] = "rest"] /\ cand' = [cand EXCEPT ![m] = c]
    BY <1>3 DEF ReadTip, goto, set
  <2>2. tip \in Nat
    BY DEF MiningInv, ChainOK
  <2>3. /\ c \in Cands
        /\ c.prev = tip
    BY <2>2 DEF NoCandidate, Cands
  <2> HIDE DEF c
  <2>4. /\ cand' \in [Miners -> Cands]
        /\ believed' \in [Miners -> Nat]
        /\ \A n \in Miners \ {m} : UNCHANGED <<cand[n], believed[n]>>
    BY <1>1, <2>1, <2>3 DEF MiningInv, ThreadsOK
  <2>5. cand'[m].prev =< tip /\ at'[m] = "rest"
    BY <2>1, <2>2, <2>3 DEF MiningInv, ThreadsOK
  <2>6. Told(m)'
    BY <2>5 DEF Told, Built
  <2>. QED  BY <1>1, <2>1, <2>4, <2>5, <2>6, ThreadKeeps DEF Places
<1>. QED  BY <1>2, <1>3

\* The supply a candidate is built with is the one read; its height too.
LEMMA ReadRestKeeps ==
  ASSUME MiningInv, NEW m \in Miners, ReadRest(m) PROVE MiningInv'
<1> DEFINE reward == block_reward(height + 1, supply)
<1>1. UNCHANGED <<chain_vars, pool, running, believed>>
  BY DEF ReadRest, run_vars
<1>2. CASE m \in Gpu /\ reward = 0
  BY <1>1, <1>2, EmptyHanded DEF ReadRest, MiningInv, ThreadsOK
<1>3. CASE ~ (m \in Gpu /\ reward = 0)
  <2> PICK early \in BOOLEAN :
             set(m, [cand[m] EXCEPT !.label = height + 1, !.claim = reward,
                                    !.txs = pool, !.early = early])
    BY <1>3 DEF ReadRest
  <2> DEFINE c == [cand[m] EXCEPT !.label = height + 1, !.claim = reward,
                                  !.txs = pool, !.early = early]
             l == IF m \in Gpu THEN "seen" ELSE "search"
  <2>1. at' = [at EXCEPT ![m] = l] /\ cand' = [cand EXCEPT ![m] = c]
    BY <1>3 DEF ReadRest, goto, set
  <2>2. height + 1 \in Nat /\ supply \in Nat
    BY DEF MiningInv, ChainOK
  <2>3. reward \in Nat
    BY <2>2, RewardBound
  <2> HIDE DEF reward
  <2>4. /\ c \in Cands
        /\ c.prev = cand[m].prev /\ c.label = height + 1 /\ c.claim = reward
        /\ c.prev =< tip
    BY <2>2, <2>3 DEF MiningInv, ThreadsOK, Cands
  <2> HIDE DEF c
  <2>5. /\ cand' \in [Miners -> Cands]
        /\ believed' \in [Miners -> Nat]
        /\ \A n \in Miners \ {m} : UNCHANGED <<cand[n], believed[n]>>
        /\ cand'[m] = c
    BY <1>1, <2>1, <2>4 DEF MiningInv, ThreadsOK
  <2>6. at'[m] # "submit" /\ l \in Places
    BY <2>1 DEF MiningInv, ThreadsOK, Places
  <2>7. Told(m)'
    <3>1. reward = block_reward(height + 1, supply)
      BY DEF reward
    <3>. QED  BY <1>1, <2>4, <2>5, <2>6, <3>1 DEF Told, chain_vars
  <2> HIDE DEF l
  <2>. QED  BY <1>1, <2>1, <2>4, <2>5, <2>6, <2>7, ThreadKeeps
<1>. QED  BY <1>2, <1>3

\* A thread goes on with the candidate it has, and not to submit it.
LEMMA GoesOn ==
  ASSUME MiningInv, UNCHANGED <<chain_vars, running, cand>>,
         pool' \subseteq pool,
         NEW m \in Miners, NEW l \in Places \ {"off", "head", "rest", "submit"},
         goto(m, l), at[m] \in Places \ {"off", "head", "rest"},
         believed' \in [Miners -> Nat],
         \A n \in Miners \ {m} : UNCHANGED <<believed[n]>>
  PROVE  MiningInv'
<1>1. at' = [at EXCEPT ![m] = l] /\ at'[m] = l
  BY DEF goto, MiningInv, ThreadsOK
<1>2. /\ cand' \in [Miners -> Cands]
      /\ \A n \in Miners \ {m} : UNCHANGED <<cand[n], believed[n]>>
      /\ cand'[m].prev =< tip
  BY DEF MiningInv, ThreadsOK
<1>3. Told(m)'
  <2>1. Told(m) /\ UNCHANGED <<blocks, tip, height, supply, writer, cand>>
    BY DEF MiningInv, chain_vars
  <2>. QED  BY <1>1, <2>1 DEF Told, Built, torn, HeightOf
<1>. QED  BY <1>1, <1>2, <1>3, ThreadKeeps

\* The GPU miner's second look at the tip leaves the candidate alone.
LEMMA ReadTipAtStartKeeps ==
  ASSUME MiningInv, NEW m \in Miners, ReadTipAtStart(m) PROVE MiningInv'
<1>1. /\ UNCHANGED <<chain_vars, running, cand>> /\ pool' \subseteq pool
      /\ goto(m, "search") /\ at[m] = "seen"
      /\ believed' = [believed EXCEPT ![m] = tip]
  BY DEF ReadTipAtStart, run_vars
<1>2. /\ believed' \in [Miners -> Nat]
      /\ \A n \in Miners \ {m} : UNCHANGED <<believed[n]>>
  BY <1>1 DEF MiningInv, ThreadsOK, ChainOK
<1>. QED  BY <1>1, <1>2, GoesOn DEF Places

\* A nonce changes nothing of the candidate.
LEMMA FindKeeps ==
  ASSUME MiningInv, NEW m \in Miners, Find(m) PROVE MiningInv'
<1>1. /\ UNCHANGED <<chain_vars, running, cand, believed>>
      /\ pool' \subseteq pool /\ goto(m, "found") /\ at[m] = "search"
  BY DEF Find, run_vars
<1>2. believed' \in [Miners -> Nat]
  BY <1>1 DEF MiningInv, ThreadsOK
<1>. QED  BY <1>1, <1>2, GoesOn DEF Places

\* The thread drops its candidate, or goes on with it as it is.
LEMMA LookKeeps ==
  ASSUME MiningInv, NEW m \in Miners, Look(m) PROVE MiningInv'
<1>1. /\ UNCHANGED <<chain_vars, running>> /\ pool' \subseteq pool
      /\ believed' = [believed EXCEPT ![m] = 0]
  BY DEF Look, run_vars
<1>2. /\ believed' \in [Miners -> Nat]
      /\ \A n \in Miners \ {m} : UNCHANGED <<believed[n]>>
  BY <1>1 DEF MiningInv, ThreadsOK
<1>3. \/ goto(m, "off") /\ set(m, NoCandidate)
      \/ goto(m, "head") /\ set(m, NoCandidate)
      \/ at[m] = "stuck" /\ goto(m, "found") /\ UNCHANGED cand
  BY DEF Look
<1>4. CASE \/ goto(m, "off") /\ set(m, NoCandidate)
           \/ goto(m, "head") /\ set(m, NoCandidate)
  BY <1>1, <1>2, <1>4, EmptyHanded
<1>5. CASE at[m] = "stuck" /\ goto(m, "found") /\ UNCHANGED cand
  BY <1>1, <1>2, <1>5, GoesOn DEF Places
<1>. QED  BY <1>3, <1>4, <1>5

\* The height is read a second time: unless torn it is still the candidate's.
LEMMA ReadSubmitHeightKeeps ==
  ASSUME MiningInv, NEW m \in Miners, ReadSubmitHeight(m) PROVE MiningInv'
<1>1. /\ UNCHANGED <<blocks, tip, height, supply, writer, cand, running>>
      /\ UNCHANGED chain_vars /\ pool' = pool /\ at[m] = "found"
      /\ at' = [at EXCEPT ![m] = "submit"]
      /\ believed' = [believed EXCEPT ![m] = height + 1]
  BY DEF ReadSubmitHeight, goto, chain_vars, run_vars
<1>2. /\ believed' \in [Miners -> Nat] /\ believed'[m] = height + 1
      /\ \A n \in Miners \ {m} : UNCHANGED <<cand[n], believed[n]>>
  BY <1>1 DEF MiningInv, ThreadsOK, ChainOK
<1>3. /\ cand' \in [Miners -> Cands]
      /\ cand'[m].prev =< tip
  BY <1>1 DEF MiningInv, ThreadsOK
<1>4. Told(m)'
  <2>1. Told(m)
    BY DEF MiningInv
  <2>2. Built(m)' => Built(m)
    BY <1>1 DEF Built, Places
  <2>. QED  BY <1>1, <1>2, <2>1, <2>2 DEF Told, torn, HeightOf
<1>. QED  BY <1>1, <1>2, <1>3, <1>4, ThreadKeeps DEF Places

\* The pool only loses payments.
LEMMA WonKeeps ==
  ASSUME MiningInv, NEW m \in Miners, Won(m) PROVE MiningInv'
<1>1. /\ UNCHANGED <<chain_vars, running, believed>> /\ pool' \subseteq pool
      /\ at[m] = "won"
  BY DEF Won, run_vars
<1>2. believed' \in [Miners -> Nat]
  BY <1>1 DEF MiningInv, ThreadsOK
<1>3. CASE m \in Gpu
  BY <1>1, <1>2, <1>3, EmptyHanded DEF Won
<1>4. CASE m \notin Gpu
  <2>1. goto(m, "stuck") /\ UNCHANGED cand
    BY <1>4 DEF Won
  <2>. QED  BY <1>1, <1>2, <2>1, GoesOn DEF Places
<1>. QED  BY <1>3, <1>4

\* A candidate that fits becomes a block on the tip; one that does not is kept by
\* the CPU miner and dropped by the GPU miner.
LEMMA SubmitKeeps ==
  ASSUME MiningInv, NEW m \in Miners, Submit(m) PROVE MiningInv'
<1>1. /\ UNCHANGED <<running>> /\ pool' \subseteq pool /\ lock_free
      /\ at[m] = "submit" /\ believed' = [believed EXCEPT ![m] = 0]
  BY DEF Submit, run_vars
<1>2. /\ believed' \in [Miners -> Nat]
      /\ \A n \in Miners \ {m} : UNCHANGED <<believed[n]>>
  BY <1>1 DEF MiningInv, ThreadsOK
<1>3. CASE fits(cand[m], believed[m])
  <2> DEFINE b == [prev |-> cand[m].prev, height |-> believed[m],
                   label |-> cand[m].label, claim |-> cand[m].claim,
                   txs |-> cand[m].txs, by |-> kind(m)]
  <2>1. Begin(b, m) /\ goto(m, "won") /\ UNCHANGED cand /\ pool' = pool
    BY <1>3 DEF Submit
  <2>2. cand[m].prev = tip /\ tip = Len(blocks) /\ Len(blocks) \in Nat
    BY <1>1, <1>3, BlockTyped DEF fits, MiningInv, ChainOK, lock_free
  <2>3. b \in Record /\ b.prev \in 0..Len(blocks)
    BY <2>2 DEF MiningInv, ThreadsOK, Cands, Record, Kinds, kind
  <2> HIDE DEF b
  <2>4. ChainOK' /\ UNCHANGED tip
    BY <1>1, <2>1, <2>3, BeginKeeps DEF MiningInv
  <2>5. at' = [at EXCEPT ![m] = "won"]
    BY <2>1 DEF goto
  <2>6. ThreadsOK'
    BY <1>1, <1>2, <2>1, <2>4, <2>5 DEF MiningInv, ThreadsOK, Places
  <2>7. ASSUME NEW n \in Miners PROVE Told(n)'
    <3>1. \/ UNCHANGED <<at[n], believed[n]>>
          \/ (at'[n] = "won" /\ Built(n))
      <4>1. CASE n = m
        BY <1>1, <2>2, <2>5, <4>1 DEF MiningInv, ThreadsOK, Built, Places
      <4>2. CASE n # m
        BY <1>2, <2>5, <4>2 DEF MiningInv, ThreadsOK
      <4>. QED  BY <4>1, <4>2
    <3>2. UNCHANGED <<cand[n]>>
      BY <2>1
    <3>. QED  BY <1>1, <2>1, <2>3, <3>1, <3>2, TellAfterBegin
  <2>. QED  BY <2>4, <2>6, <2>7 DEF MiningInv
<1>4. CASE ~ fits(cand[m], believed[m])
  <2>1. UNCHANGED chain_vars
    BY <1>4 DEF Submit
  <2>2. CASE m \in Gpu
    <3>1. goto(m, "head") /\ set(m, NoCandidate)
      BY <1>4, <2>2 DEF Submit
    <3>. QED  BY <1>1, <1>2, <2>1, <3>1, EmptyHanded
  <2>3. CASE m \notin Gpu
    <3>1. goto(m, "stuck") /\ UNCHANGED cand
      BY <1>4, <2>3 DEF Submit
    <3>. QED  BY <1>1, <1>2, <2>1, <3>1, GoesOn DEF Places
  <2>. QED  BY <2>2, <2>3
<1>. QED  BY <1>3, <1>4

-----------------------------------------------------------------------------
(* The theorem *)

\* No thread runs and there is no block.
LEMMA MiningInvInit == MiningInit => MiningInv
<1> SUFFICES ASSUME MiningInit PROVE MiningInv
  OBVIOUS
<1>1. ChainOK
  BY LedgerAssumption DEF LedgerAssumption, MiningInit, ChainOK
<1>2. ThreadsOK
  BY DEF MiningInit, ThreadsOK, Places, NoCandidate, Cands
<1>3. \A m \in Miners : Told(m)
  BY DEF MiningInit, Told, Built
<1>. QED  BY <1>1, <1>2, <1>3 DEF MiningInv

\* One case for each action.
LEMMA MiningInvStep == MiningInv /\ [MiningNext]_mining_vars => MiningInv'
<1> SUFFICES ASSUME MiningInv, [MiningNext]_mining_vars PROVE MiningInv'
  OBVIOUS
<1>1. CASE Publish
  BY <1>1, PublishKeeps
<1>2. CASE PeerBlock
  BY <1>2, PeerBlockKeeps
<1>3. CASE \/ \E tx \in Payments : Offer(tx)
           \/ \E k \in Kinds : Stop(k)
           \/ UNCHANGED mining_vars
  BY <1>3, OthersKeep
<1>4. CASE StartCpu \/ StartGpu
  BY <1>4, StartKeeps
<1>5. ASSUME NEW m \in Miners, Step(m) \/ Find(m) PROVE MiningInv'
  BY <1>5, ReadTipKeeps, ReadRestKeeps, ReadTipAtStartKeeps, LookKeeps,
     ReadSubmitHeightKeeps, SubmitKeeps, WonKeeps, FindKeeps DEF Step
<1>. QED  BY <1>1, <1>2, <1>3, <1>4, <1>5 DEF MiningNext

\* What a thread was told is what connect_tip will ask of its block.
LEMMA ToldIsEnough == MiningInv => WorkIsNotWasted
<1> SUFFICES ASSUME MiningInv, NEW m \in Miners, at[m] = "submit", lock_free,
                    cand[m].prev = tip, ~ torn(m), ~ spoiled(m), ~ cand[m].early
             PROVE  fits(cand[m], believed[m])
  BY DEF WorkIsNotWasted
<1>1. Told(m) /\ Built(m) /\ writer.next # "tip"
  BY DEF MiningInv, Built, Places, lock_free
<1>2. /\ cand[m].label = height + 1 /\ believed[m] = height + 1
      /\ cand[m].claim = block_reward(cand[m].label, supply)
  BY <1>1 DEF Told
<1>3. cand[m].claim \in Nat
  BY DEF MiningInv, ThreadsOK, Cands
<1>4. usable(cand[m].txs, tip)
  BY DEF spoiled
<1> DEFINE reward == block_reward(height + 1, supply)
<1>5. cand[m].claim = reward
  BY <1>2
<1> HIDE DEF reward
<1>6. cand[m].claim =< reward
  BY <1>3, <1>5
<1>. QED  BY <1>2, <1>4, <1>6 DEF fits, reward

\* A nonce found on the present tip earns its block (build_candidate, mine_loop
\* and the GPU miner against connect_tip and switch_to): however the reads of
\* any number of threads fall between the writes of tip, height and supply, the
\* height a thread submits with is the one its candidate names, and the reward
\* it claims the one the chain allows.  A refusal on the tip has one of the causes
\* WorkIsNotWasted names: a torn height, an early time, or payments that are
\* confirmed, contradicted or without their output.
THEOREM WorkStaysPaid == MiningSpec => []WorkIsNotWasted
<1>. QED
  BY MiningInvInit, MiningInvStep, ToldIsEnough, PTL DEF MiningSpec

-----------------------------------------------------------------------------
(* What is issued *)

\* A block lies above the one it is built on.
Upward ==
  /\ ChainOK /\ Len(blocks) =< MAX_BLOCKS
  /\ \A i \in 1..Len(blocks) : blocks[i].prev < i

\* A block is added on top of one there is.
Grown(b) ==
  /\ Len(blocks) < MAX_BLOCKS /\ b.prev \in 0..Len(blocks)
  /\ blocks' = Append(blocks, b)

\* What appending does to the list.
LEMMA GrownBlocks ==
  ASSUME Upward, ChainOK', NEW b, Grown(b)
  PROVE  /\ Len(blocks) \in Nat /\ MAX_BLOCKS \in Nat
         /\ Len(blocks') = Len(blocks) + 1 /\ Len(blocks) < MAX_BLOCKS
         /\ blocks'[Len(blocks) + 1] = b /\ b.prev \in 0..Len(blocks)
         /\ \A i \in 1..Len(blocks) : blocks'[i] = blocks[i]
         /\ \A i \in 1..Len(blocks) : blocks[i].prev \in 0..Len(blocks)
BY MiningAssumption DEF MiningAssumption, Upward, ChainOK, Grown

\* The branch of an older block is what it was.
LEMMA OldBranch ==
  ASSUME Upward, ChainOK', NEW b, Grown(b), NEW i \in 0..Len(blocks)
  PROVE  Branch(i)' = Branch(i)
<1>1. PICK g : Walks(g, i)
  BY BranchWalk DEF Upward
<1>3. /\ Len(blocks) \in Nat /\ Len(blocks') = Len(blocks) + 1
      /\ MAX_BLOCKS \in Nat
      /\ \A j \in 1..Len(blocks) : blocks'[j] = blocks[j]
      /\ \A j \in 1..Len(blocks) : blocks[j].prev \in 0..Len(blocks)
  BY GrownBlocks
<1>4. PICK h : Walks(h, i)'
  BY <1>3, BranchWalkNext
<1> DEFINE I == {n \in Nat : n =< MAX_BLOCKS => h[n] = g[n]}
<1>5. 0 \in I
  BY <1>1, <1>4 DEF Walks
<1>6. ASSUME NEW n \in Nat, n \in I PROVE n + 1 \in I
  <2> SUFFICES ASSUME n + 1 =< MAX_BLOCKS PROVE h[n + 1] = g[n + 1]
    OBVIOUS
  <2>1. h[n] = g[n] /\ n + 1 \in 1..MAX_BLOCKS /\ (n + 1) - 1 = n
        /\ n \in 0..MAX_BLOCKS
    BY <1>3, <1>6
  <2>2. g[n] \in 0..Len(blocks)
    BY <1>1, <2>1 DEF Walks
  <2>3. g[n + 1] = IF g[n] = 0 THEN 0 ELSE blocks[g[n]].prev
    BY <1>1, <2>1 DEF Walks
  <2>4. h[n + 1] = IF h[n] = 0 THEN 0 ELSE blocks'[h[n]].prev
    BY <1>4, <2>1 DEF Walks
  <2>. QED  BY <1>3, <2>1, <2>2, <2>3, <2>4
<1> HIDE DEF I
<1>7. \A n \in Nat : n \in I
  BY <1>5, <1>6, SetInduction
<1>8. \A n \in 0..MAX_BLOCKS : h[n] = g[n]
  BY <1>3, <1>7 DEF I
<1>9. Branch(i) = {g[n] : n \in 0..MAX_BLOCKS} \ {0}
  BY <1>1 DEF Walks
<1>10. Branch(i)' = {h[n] : n \in 0..MAX_BLOCKS} \ {0}
  BY <1>4 DEF Walks
<1>. QED  BY <1>8, <1>9, <1>10

\* The branch of the new block is the one it was built on, and itself: the walk of
\* MAX_BLOCKS steps has room for one more.
LEMMA NewBranch ==
  ASSUME Upward, ChainOK', NEW b, Grown(b), NEW top, top = Len(blocks) + 1
  PROVE  Branch(top)' = Branch(b.prev) \cup {top}
<1> DEFINE L == Len(blocks)
<1>1. PICK g : Walks(g, b.prev)
  BY BranchWalk DEF Upward, Grown
<1>3. /\ L \in Nat /\ Len(blocks') = L + 1 /\ MAX_BLOCKS \in Nat
      /\ L < MAX_BLOCKS /\ blocks'[L + 1] = b /\ b.prev \in 0..L
      /\ \A j \in 1..L : blocks'[j] = blocks[j]
      /\ \A j \in 1..L : blocks[j].prev \in 0..L
      /\ \A j \in 1..L : blocks[j].prev < j
  BY GrownBlocks DEF Upward
<1>4. PICK h : Walks(h, Len(blocks))'
  BY <1>3, BranchWalkNext
<1> DEFINE I == {n \in Nat : n + 1 =< MAX_BLOCKS =>
                   h[n + 1] = g[n] /\ (g[n] = 0 \/ g[n] =< L - n)}
<1>5. 0 \in I
  <2>1. h[0] = L + 1 /\ 1 \in 1..MAX_BLOCKS /\ 1 - 1 = 0
    BY <1>3, <1>4 DEF Walks
  <2>2. h[1] = b.prev
    <3>1. h[1] = IF h[1 - 1] = 0 THEN 0 ELSE blocks'[h[1 - 1]].prev
      BY <1>4, <2>1 DEF Walks
    <3>. QED  BY <1>3, <2>1, <3>1
  <2>. QED  BY <1>1, <1>3, <2>2 DEF Walks
<1>6. ASSUME NEW n \in Nat, n \in I PROVE n + 1 \in I
  <2> SUFFICES ASSUME (n + 1) + 1 =< MAX_BLOCKS
               PROVE  /\ h[(n + 1) + 1] = g[n + 1]
                      /\ g[n + 1] = 0 \/ g[n + 1] =< L - (n + 1)
    OBVIOUS
  <2>1. /\ h[n + 1] = g[n] /\ (g[n] = 0 \/ g[n] =< L - n)
        /\ n + 1 \in 1..MAX_BLOCKS /\ (n + 1) - 1 = n /\ n \in 0..MAX_BLOCKS
        /\ (n + 1) + 1 \in 1..MAX_BLOCKS /\ ((n + 1) + 1) - 1 = n + 1
    BY <1>3, <1>6
  <2>2. g[n] \in 0..L
    BY <1>1, <2>1 DEF Walks
  <2>3. g[n + 1] = IF g[n] = 0 THEN 0 ELSE blocks[g[n]].prev
    BY <1>1, <2>1 DEF Walks
  <2>4. h[(n + 1) + 1] = IF h[n + 1] = 0 THEN 0 ELSE blocks'[h[n + 1]].prev
    BY <1>4, <2>1 DEF Walks
  <2>. QED  BY <1>3, <2>1, <2>2, <2>3, <2>4
<1> HIDE DEF I
<1>7. \A n \in Nat : n \in I
  BY <1>5, <1>6, SetInduction
<1>8. \A n \in 0..MAX_BLOCKS - 1 : h[n + 1] = g[n]
  BY <1>3, <1>7 DEF I
<1>9. g[MAX_BLOCKS] = 0
  <2> DEFINE n == MAX_BLOCKS - 1
  <2>1. n \in Nat /\ n + 1 = MAX_BLOCKS /\ n >= L /\ n \in 0..MAX_BLOCKS
        /\ MAX_BLOCKS \in 1..MAX_BLOCKS
    BY <1>3
  <2>2. g[n] = 0 \/ g[n] =< L - n
    BY <1>7, <2>1 DEF I
  <2>3. g[n] \in 0..L
    BY <1>1, <2>1 DEF Walks
  <2>4. g[n] = 0
    BY <1>3, <2>1, <2>2, <2>3
  <2>. QED  BY <1>1, <2>1, <2>4 DEF Walks
<1>10. Branch(b.prev) = {g[n] : n \in 0..MAX_BLOCKS} \ {0}
  BY <1>1 DEF Walks
<1>11. Branch(Len(blocks))' = {h[n] : n \in 0..MAX_BLOCKS} \ {0}
  BY <1>4 DEF Walks
<1>12. h[0] = L + 1
  BY <1>3, <1>4 DEF Walks
<1>13. {h[n] : n \in 0..MAX_BLOCKS} = {L + 1} \cup {g[n] : n \in 0..MAX_BLOCKS - 1}
  <2>1. \A n \in 0..MAX_BLOCKS : n = 0 \/ (n - 1 \in 0..MAX_BLOCKS - 1 /\ (n - 1) + 1 = n)
    BY <1>3
  <2>2. \A n \in 0..MAX_BLOCKS - 1 : n + 1 \in 0..MAX_BLOCKS
    BY <1>3
  <2>3. 0 \in 0..MAX_BLOCKS
    BY <1>3
  <2>. QED  BY <1>8, <1>12, <2>1, <2>2, <2>3
<1>14. {g[n] : n \in 0..MAX_BLOCKS} = {0} \cup {g[n] : n \in 0..MAX_BLOCKS - 1}
  <2>1. \A n \in 0..MAX_BLOCKS : n = MAX_BLOCKS \/ n \in 0..MAX_BLOCKS - 1
    BY <1>3
  <2>2. \A n \in 0..MAX_BLOCKS - 1 : n \in 0..MAX_BLOCKS
    BY <1>3
  <2>3. MAX_BLOCKS \in 0..MAX_BLOCKS
    BY <1>3
  <2>. QED  BY <1>9, <2>1, <2>2, <2>3
<1>15. Branch(top)' = Branch(Len(blocks))'
  BY <1>3
<1> DEFINE G == {g[n] : n \in 0..MAX_BLOCKS - 1}
<1>16. Branch(Len(blocks))' = ({L + 1} \cup G) \ {0} /\ Branch(b.prev) = G \ {0}
  BY <1>10, <1>11, <1>13, <1>14
<1> HIDE DEF G
<1>. QED  BY <1>3, <1>15, <1>16

\* The sums of what branches have issued, of the blocks there will be.
LEMMA IssuedSumNext ==
  (ChainOK => \A b \in 0..Len(blocks) : \E g : Sums(g, b))'
BY IssuedSum, PTL

\* What a branch has issued stays, and the new block adds its claim.
LEMMA IssuedGrown ==
  ASSUME Upward, ChainOK', NEW b, Grown(b), b.claim \in Nat,
         NEW top, top = Len(blocks) + 1
  PROVE  /\ \A i \in 0..Len(blocks) : Issued(i)' = Issued(i)
         /\ Issued(top)' = Issued(b.prev) + b.claim
<1> DEFINE L == Len(blocks)
<1>1. /\ L \in Nat /\ Len(blocks') = L + 1
      /\ blocks'[L + 1] = b /\ b.prev \in 0..L
      /\ \A j \in 1..L : blocks'[j] = blocks[j]
  BY GrownBlocks
<1>2. ASSUME NEW i \in 0..L + 1, NEW p \in 0..L,
             \A n \in 1..L : n \in Branch(i)' <=> n \in Branch(p)
      PROVE  Issued(i)' =
               Issued(p) + IF L + 1 \in Branch(i)' THEN b.claim ELSE 0
  <2>1. PICK g : Sums(g, p)
    BY IssuedSum DEF Upward
  <2>2. PICK h : Sums(h, i)'
    BY <1>1, IssuedSumNext
  <2> DEFINE I == {n \in Nat : n =< L => h[n] = g[n]}
  <2>3. 0 \in I
    BY <2>1, <2>2 DEF Sums
  <2>4. ASSUME NEW n \in Nat, n \in I PROVE n + 1 \in I
    <3> SUFFICES ASSUME n + 1 =< L PROVE h[n + 1] = g[n + 1]
      OBVIOUS
    <3>1. h[n] = g[n] /\ n + 1 \in 1..L /\ (n + 1) - 1 = n
          /\ n + 1 \in 1..Len(blocks')
      BY <1>1, <2>4
    <3>2. h[n + 1] =
            h[n] + IF n + 1 \in Branch(i)' THEN blocks'[n + 1].claim ELSE 0
      BY <2>2, <3>1 DEF Sums
    <3>3. g[n + 1] = g[n] + IF n + 1 \in Branch(p) THEN blocks[n + 1].claim ELSE 0
      BY <2>1, <3>1 DEF Sums
    <3>. QED  BY <1>1, <1>2, <3>1, <3>2, <3>3
  <2> HIDE DEF I
  <2>9. \A n \in Nat : n \in I
    BY <2>3, <2>4, SetInduction
  <2>5. h[L] = g[L]
    BY <1>1, <2>9 DEF I
  <2>6. L + 1 \in 1..Len(blocks') /\ (L + 1) - 1 = L
    BY <1>1
  <2>7. h[L + 1] = h[L] + IF L + 1 \in Branch(i)' THEN blocks'[L + 1].claim ELSE 0
    BY <2>2, <2>6 DEF Sums
  <2>8. Issued(p) = g[L] /\ Issued(i)' = h[L + 1]
    BY <1>1, <2>1, <2>2 DEF Sums
  <2>. QED  BY <1>1, <2>5, <2>7, <2>8
<1>3. ASSUME NEW i \in 0..L PROVE Issued(i)' = Issued(i)
  <2>1. Branch(i)' = Branch(i)
    BY OldBranch
  <2>2. L + 1 \notin Branch(i)'
    BY <1>1, <2>1, BranchInside DEF Upward
  <2>3. Issued(i) \in Nat
    BY IssuedNat DEF Upward
  <2>4. i \in 0..L + 1
    BY <1>1
  <2>. QED  BY <1>2, <2>1, <2>2, <2>3, <2>4
<1>4. Issued(top)' = Issued(b.prev) + b.claim
  <2>1. Branch(top)' = Branch(b.prev) \cup {L + 1}
    BY NewBranch
  <2>2. top \in 0..L + 1
    BY <1>1
  <2>3. \A n \in 1..L : n \in Branch(top)' <=> n \in Branch(b.prev)
    BY <1>1, <2>1
  <2>. QED  BY <1>1, <1>2, <2>1, <2>2, <2>3
<1>. QED  BY <1>3, <1>4

-----------------------------------------------------------------------------
(* The bounds of the types *)

Capped ==
  /\ supply = Issued(Len(blocks))
  /\ \A i \in 0..Len(blocks) : Issued(i) =< MAX_SUPPLY

\* A thread with a nonce for the present tip, and nothing against its block, has
\* a place left for it; one whose block was taken has none for the tip it made.
Roomy ==
  \A m \in Miners :
    /\ at[m] \in {"found", "submit", "stuck"} /\ cand[m].prev = Len(blocks)
         /\ ~ spoiled(m) /\ ~ cand[m].early
         => Len(blocks) < MAX_BLOCKS
    /\ at[m] = "won" => cand[m].prev < Len(blocks)

Named == /\ starts \in 0..MAX_STARTS
         /\ writer.by \in Miners \cup {"peer", "nobody"}

BoundInv == Upward /\ Capped /\ Roomy /\ Named

\* A block that claims no more than the rules allow above its branch.
LEMMA BeginIsCapped ==
  ASSUME BoundInv, ChainOK', NEW b \in Record, NEW by, Begin(b, by), Grown(b),
         b.claim =< block_reward(b.height, Issued(b.prev))
  PROVE  Upward' /\ Capped' /\ Len(blocks') = Len(blocks) + 1
<1> DEFINE L == Len(blocks)
<1> PICK top : top = L + 1
  OBVIOUS
<1>1. /\ L \in Nat /\ Len(blocks') = L + 1 /\ L < MAX_BLOCKS
      /\ MAX_BLOCKS \in Nat /\ blocks'[L + 1] = b /\ b.prev \in 0..L
      /\ \A j \in 1..L : blocks'[j] = blocks[j]
  BY GrownBlocks DEF BoundInv
<1>2. b.claim \in Nat /\ b.height \in Nat
  BY DEF Record
<1>3. /\ \A i \in 0..L : Issued(i)' = Issued(i)
      /\ Issued(top)' = Issued(b.prev) + b.claim
  BY <1>2, IssuedGrown DEF BoundInv
<1>4. Issued(b.prev) \in Nat /\ Issued(b.prev) =< MAX_SUPPLY
  BY <1>1, IssuedNat DEF BoundInv, Upward, Capped
<1>5. Issued(b.prev) + b.claim =< MAX_SUPPLY
  <2> DEFINE r == block_reward(b.height, Issued(b.prev))
  <2>1. r \in Nat /\ Issued(b.prev) + r =< MAX_SUPPLY
    BY <1>2, <1>4, RewardBound
  <2>2. b.claim =< r
    OBVIOUS
  <2> HIDE DEF r
  <2>. QED  BY <1>2, <1>4, <2>1, <2>2, LedgerAssumption DEF LedgerAssumption
<1>6. supply' = Issued(Len(blocks))'
  <2>1. Issued(Len(blocks))' = Issued(top)'
    BY <1>1
  <2>. QED  BY <1>3, <2>1 DEF Begin
<1>7. \A i \in 0..Len(blocks') : Issued(i)' =< MAX_SUPPLY
  <2>1. \A i \in 0..Len(blocks') : i = top \/ i \in 0..L
    BY <1>1
  <2>. QED  BY <1>3, <1>5, <2>1 DEF BoundInv, Capped
<1>8. Upward'
  <2>1. \A i \in 1..L : blocks[i].prev < i
    BY DEF BoundInv, Upward
  <2>2. \A i \in 1..Len(blocks') : i = L + 1 \/ i \in 1..L
    BY <1>1
  <2>. QED  BY <1>1, <2>1, <2>2 DEF Upward
<1>. QED  BY <1>1, <1>6, <1>7, <1>8 DEF Capped

\* While no block is begun the chain's part of it stays.
LEMMA ChainBoundKept ==
  ASSUME BoundInv, ChainOK', UNCHANGED <<blocks, supply>>
  PROVE  Upward' /\ Capped'
<1>1. \A i : Issued(i)' = Issued(i)
  BY DEF Issued, Branch
<1>. QED  BY <1>1 DEF BoundInv, Upward, Capped

\* What is against the payments of a candidate does not change with it.
LEMMA SpoiledKept ==
  ASSUME UNCHANGED blocks, NEW m \in Miners, cand'[m] = cand[m]
  PROVE  spoiled(m)' <=> spoiled(m)
BY DEF spoiled, usable, Confirmed, Branch

\* A thread that takes a step of its own and writes nothing of the chain.
LEMMA ThreadBounds ==
  ASSUME MiningInv, MiningInv', BoundInv, UNCHANGED <<chain_vars, starts>>,
         NEW m \in Miners,
         \A n \in Miners \ {m} : UNCHANGED <<at[n], cand[n]>>,
         \/ at'[m] \notin {"found", "submit", "stuck", "won"}
         \/ /\ at'[m] # "won" /\ cand'[m] = cand[m]
            /\ \/ at[m] \in {"found", "submit", "stuck", "won"}
               \/ Len(blocks) < MAX_BLOCKS \/ spoiled(m) \/ cand[m].early
  PROVE  BoundInv'
<1>1. UNCHANGED <<blocks, supply, writer, starts>>
  BY DEF chain_vars
<1>2. Upward' /\ Capped'
  BY <1>1, ChainBoundKept DEF MiningInv
<1>3. Roomy'
  BY <1>1, SpoiledKept DEF BoundInv, Roomy
<1>4. Named'
  BY <1>1 DEF BoundInv, Named
<1>. QED  BY <1>2, <1>3, <1>4 DEF BoundInv

\* Room for a block means that the list is not full.
LEMMA RoomMeansRoom ==
  ASSUME MiningInv, room PROVE Len(blocks) < MAX_BLOCKS
<1> DEFINE S == {m \in Miners : /\ at[m] \in {"found", "submit", "stuck"}
                                /\ ~ spoiled(m) /\ ~ cand[m].early}
<1>1. IsFiniteSet(Miners)
  BY MiningAssumption, FS_Union DEF MiningAssumption, Miners
<1>2. Cardinality(S) \in Nat
  BY <1>1, FS_Subset, FS_CardinalityType
<1>3. Len(blocks) + Cardinality(S) < MAX_BLOCKS
  BY DEF room
<1>4. Len(blocks) \in Nat /\ MAX_BLOCKS \in Nat
  BY BlockTyped, MiningAssumption DEF MiningAssumption, MiningInv
<1> HIDE DEF S
<1>. QED  BY <1>2, <1>3, <1>4

\* Every block that begins has a place in the list, and claims what it may.
LEMMA BoundStep ==
  MiningInv /\ BoundInv /\ [MiningNext]_mining_vars => BoundInv'
<1> SUFFICES ASSUME MiningInv, BoundInv, [MiningNext]_mining_vars
             PROVE  BoundInv'
  OBVIOUS
<1>1. MiningInv'
  BY MiningInvStep
<1>2. /\ Len(blocks) \in Nat /\ tip \in Nat
      /\ \A m \in Miners : cand[m].prev \in Nat /\ cand[m].prev =< tip
      /\ tip =< Len(blocks)
  BY BlockTyped DEF MiningInv, ThreadsOK, Cands, ChainOK
<1>3. CASE Publish
  <2>1. UNCHANGED <<blocks, supply, at, cand, starts>>
    BY <1>3 DEF Publish, run_vars, miner_vars
  <2>2. writer'.by \in Miners \cup {"peer", "nobody"}
    BY <1>3 DEF Publish, BoundInv, Named, MiningInv, ChainOK
  <2>3. Upward' /\ Capped'
    BY <1>1, <2>1, ChainBoundKept DEF MiningInv
  <2>. QED  BY <2>1, <2>2, <2>3, SpoiledKept DEF BoundInv, Roomy, Named
<1>4. CASE PeerBlock
  <2>1. PICK p \in Branch(tip) \cup {0}, txs \in SUBSET Payments :
          Begin([prev |-> p, height |-> HeightOf(p) + 1,
                 label |-> HeightOf(p) + 1,
                 claim |-> block_reward(HeightOf(p) + 1, Issued(p)),
                 txs |-> txs, by |-> "peer"], "peer")
    BY <1>4 DEF PeerBlock
  <2> DEFINE b == [prev |-> p, height |-> HeightOf(p) + 1,
                   label |-> HeightOf(p) + 1,
                   claim |-> block_reward(HeightOf(p) + 1, Issued(p)),
                   txs |-> txs, by |-> "peer"]
  <2>2. lock_free /\ room /\ UNCHANGED <<starts, at, cand>>
    BY <1>4 DEF PeerBlock, run_vars, miner_vars
  <2>3. p \in 0..Len(blocks)
    <3>1. tip \in 0..Len(blocks)
      BY <1>2
    <3>2. Branch(tip) \subseteq 1..Len(blocks)
      BY <3>1, BranchInside DEF MiningInv
    <3>. QED  BY <1>2, <3>2
  <2>4. HeightOf(p) \in Nat /\ Issued(p) \in Nat
    BY <2>3, HeightNat, IssuedNat DEF MiningInv
  <2>5. b \in Record
    <3>1. HeightOf(p) + 1 \in Nat
      BY <2>4
    <3>2. block_reward(HeightOf(p) + 1, Issued(p)) \in Nat
      BY <2>4, <3>1, RewardBound
    <3>3. p \in Nat
      BY <1>2, <2>3
    <3>. QED  BY <3>1, <3>2, <3>3 DEF Record
  <2>6. b.claim =< block_reward(b.height, Issued(b.prev))
    <3>1. b.claim \in Nat /\ b.claim = block_reward(b.height, Issued(b.prev))
      BY <2>5 DEF Record
    <3> HIDE DEF b
    <3> DEFINE r == block_reward(b.height, Issued(b.prev))
    <3>2. b.claim \in Nat /\ b.claim = r
      BY <3>1
    <3> HIDE DEF r
    <3>3. b.claim =< r
      BY <3>2
    <3>. QED  BY <3>3 DEF r
  <2>7. Begin(b, "peer") /\ b.prev = p
    BY <2>1
  <2> HIDE DEF b
  <2>8. Grown(b)
    BY <2>2, <2>3, <2>7, RoomMeansRoom DEF Grown, Begin
  <2>9. Upward' /\ Capped' /\ Len(blocks') = Len(blocks) + 1
    BY <1>1, <2>5, <2>6, <2>7, <2>8, BeginIsCapped DEF MiningInv
  <2>10. Roomy'
    BY <1>2, <2>2, <2>9 DEF BoundInv, Roomy
  <2>11. Named'
    BY <2>2, <2>7 DEF BoundInv, Named, Begin
  <2>. QED  BY <2>9, <2>10, <2>11 DEF BoundInv
<1>5. CASE \/ \E tx \in Payments : Offer(tx)
           \/ \E k \in Kinds : Stop(k)
           \/ UNCHANGED mining_vars
           \/ StartCpu \/ StartGpu
  <2>1. UNCHANGED <<blocks, supply, writer, cand>>
    BY <1>5 DEF Offer, Stop, StartCpu, StartGpu, mining_vars, chain_vars,
       miner_vars
  <2>2. \A m \in Miners : at'[m] \in {at[m], "head"}
    <3>1. CASE StartCpu
      BY <3>1 DEF StartCpu
    <3>2. CASE StartGpu
      BY <3>2 DEF StartGpu, goto, MiningInv, ThreadsOK
    <3>3. CASE ~ StartCpu /\ ~ StartGpu
      BY <1>5, <3>3 DEF Offer, Stop, mining_vars, miner_vars
    <3>. QED  BY <3>1, <3>2, <3>3
  <2>3. starts' \in 0..MAX_STARTS
    <3>1. starts \in 0..MAX_STARTS /\ MAX_STARTS \in Nat
      BY MiningAssumption DEF MiningAssumption, BoundInv, Named
    <3>2. CASE StartCpu \/ StartGpu
      BY <3>1, <3>2 DEF StartCpu, StartGpu
    <3>3. CASE ~ StartCpu /\ ~ StartGpu
      BY <1>5, <3>1, <3>3 DEF Offer, Stop, mining_vars, run_vars
    <3>. QED  BY <3>2, <3>3
  <2>4. Upward' /\ Capped'
    BY <1>1, <2>1, ChainBoundKept DEF MiningInv
  <2>. QED  BY <2>1, <2>2, <2>3, <2>4, SpoiledKept DEF BoundInv, Roomy, Named
<1>6. ASSUME NEW m \in Miners, Step(m) \/ Find(m) PROVE BoundInv'
  <2> DEFINE quiet == /\ UNCHANGED <<chain_vars, starts>>
                      /\ \E l : at' = [at EXCEPT ![m] = l]
                      /\ \/ UNCHANGED cand
                         \/ \E c : cand' = [cand EXCEPT ![m] = c]
                      /\ \/ at'[m] \notin {"found", "submit", "stuck", "won"}
                         \/ /\ at'[m] # "won" /\ cand'[m] = cand[m]
                            /\ \/ at[m] \in {"found", "submit", "stuck", "won"}
                               \/ Len(blocks) < MAX_BLOCKS
                               \/ spoiled(m) \/ cand[m].early
  <2>1. quiet => BoundInv'
    <3> SUFFICES ASSUME quiet PROVE BoundInv'
      OBVIOUS
    <3>1. \A n \in Miners \ {m} : UNCHANGED <<at[n], cand[n]>>
      BY DEF MiningInv, ThreadsOK
    <3>. QED  BY <1>1, <3>1, ThreadBounds
  <2>2. m \in DOMAIN at
    BY DEF MiningInv, ThreadsOK
  <2>3. CASE ReadTip(m)
    BY <2>1, <2>2, <2>3 DEF ReadTip, goto, set, run_vars
  <2>4. CASE ReadRest(m)
    BY <2>1, <2>2, <2>4 DEF ReadRest, goto, set, run_vars
  <2>5. CASE ReadTipAtStart(m)
    BY <2>1, <2>2, <2>5 DEF ReadTipAtStart, goto, run_vars
  <2>6. CASE Look(m)
    BY <2>1, <2>2, <2>6 DEF Look, goto, set, run_vars
  <2>7. CASE ReadSubmitHeight(m)
    BY <2>1, <2>2, <2>7 DEF ReadSubmitHeight, goto, run_vars
  <2>8. CASE Won(m)
    BY <2>1, <2>2, <2>8 DEF Won, goto, set, run_vars
  <2>9. CASE Find(m)
    <3>1. Len(blocks) < MAX_BLOCKS \/ spoiled(m) \/ cand[m].early
      BY <2>9, RoomMeansRoom DEF Find
    <3>. QED  BY <2>1, <2>2, <2>9, <3>1 DEF Find, goto, run_vars
  <2>10. CASE Submit(m) /\ ~ fits(cand[m], believed[m])
    BY <2>1, <2>2, <2>10 DEF Submit, goto, set, run_vars
  <2>11. CASE Submit(m) /\ fits(cand[m], believed[m])
    <3> DEFINE b == [prev |-> cand[m].prev, height |-> believed[m],
                     label |-> cand[m].label, claim |-> cand[m].claim,
                     txs |-> cand[m].txs, by |-> kind(m)]
    <3>1. /\ Begin(b, m) /\ at' = [at EXCEPT ![m] = "won"] /\ UNCHANGED cand
          /\ starts' = starts /\ lock_free /\ at[m] = "submit"
      BY <2>11 DEF Submit, goto, run_vars
    <3>2. cand[m].prev = tip /\ tip = Len(blocks)
      BY <2>11, <3>1 DEF fits, MiningInv, ChainOK, lock_free
    <3>3. b \in Record
      BY <1>2, <3>2 DEF MiningInv, ThreadsOK, Cands, Record, Kinds, kind
    <3>4. b.claim =< block_reward(b.height, Issued(b.prev))
      <4>1. supply = Issued(b.prev)
        BY <3>2 DEF BoundInv, Capped
      <4>2. b.claim =< block_reward(b.height, supply)
        BY <2>11 DEF fits
      <4>. QED  BY <4>1, <4>2
    <3>5. b.prev = Len(blocks)
      BY <3>2
    <3> HIDE DEF b
    <3>6. Len(blocks) < MAX_BLOCKS
      <4>1. ~ spoiled(m) /\ ~ cand[m].early
        BY <2>11, <3>2 DEF fits, spoiled
      <4>. QED  BY <3>1, <3>2, <4>1 DEF BoundInv, Roomy
    <3>7. Grown(b)
      BY <1>2, <3>1, <3>5, <3>6 DEF Grown, Begin
    <3>8. Upward' /\ Capped' /\ Len(blocks') = Len(blocks) + 1
      BY <1>1, <3>1, <3>3, <3>4, <3>7, BeginIsCapped DEF MiningInv
    <3>9. Roomy'
      BY <1>2, <2>2, <3>1, <3>8 DEF BoundInv, Roomy
    <3>10. Named'
      BY <3>1 DEF BoundInv, Named, Begin
    <3>. QED  BY <3>8, <3>9, <3>10 DEF BoundInv
  <2>. QED
    BY <1>6, <2>3, <2>4, <2>5, <2>6, <2>7, <2>8, <2>9, <2>10, <2>11 DEF Step
<1>. QED  BY <1>3, <1>4, <1>5, <1>6 DEF MiningNext

\* There is the genesis block's reward, and nothing else.
LEMMA BoundInit == MiningInit => BoundInv
<1> SUFFICES ASSUME MiningInit PROVE BoundInv
  OBVIOUS
<1>1. ChainOK
  BY MiningInvInit DEF MiningInv
<1>2. Len(blocks) = 0 /\ supply = INITIAL_REWARD /\ MAX_BLOCKS \in Nat
      /\ MAX_STARTS \in Nat
  BY MiningAssumption DEF MiningInit, MiningAssumption
<1>3. Issued(0) = INITIAL_REWARD
  <2>1. PICK g : Sums(g, 0)
    BY <1>1, <1>2, IssuedSum
  <2>. QED  BY <1>2, <2>1 DEF Sums
<1>4. Capped
  BY <1>2, <1>3, MiningAssumption DEF Capped, MiningAssumption
<1>5. Upward
  BY <1>1, <1>2 DEF Upward
<1>6. Roomy /\ Named
  BY <1>2 DEF MiningInit, Roomy, Named
<1>. QED  BY <1>4, <1>5, <1>6 DEF BoundInv

\* The variables hold what their comments say (build_candidate, mine_loop and the
\* writes of connect_tip and switch_to): in particular the supply never exceeds
\* the cap on any branch, for any reward schedule, and every nonce that is found
\* has a place among the blocks of the model.
THEOREM MiningTypeCorrect == MiningSpec => []MiningTypeOK
<1>1. MiningInv /\ BoundInv => MiningTypeOK
  <2> SUFFICES ASSUME MiningInv, BoundInv PROVE MiningTypeOK
    OBVIOUS
  <2> USE DEF MiningInv
  <2>1. Len(blocks) \in Nat /\ MAX_BLOCKS \in Nat /\ MAX_STARTS \in Nat
        /\ Len(blocks) =< MAX_BLOCKS /\ tip \in 0..Len(blocks)
    BY BlockTyped, MiningAssumption DEF MiningAssumption, BoundInv, Upward, ChainOK
  <2>2. blocks \in Seq(Block)
    <3>1. \A i \in 1..Len(blocks) : blocks[i] \in Record
            /\ blocks[i].prev \in 0..MAX_BLOCKS
      BY <2>1 DEF ChainOK
    <3>2. \A r \in Record : r.prev \in 0..MAX_BLOCKS => r \in Block
      BY DEF Record, Block
    <3>. QED  BY <2>1, <3>1, <3>2 DEF ChainOK
  <2>3. supply \in 0..MAX_SUPPLY
    BY <2>1, LedgerAssumption DEF LedgerAssumption, BoundInv, Capped, ChainOK
  <2>4. writer \in [next : {"none", "tip", "height"},
                    by : Miners \cup {"peer", "nobody"}]
    BY DEF ChainOK, BoundInv, Named
  <2>5. cand \in [Miners -> Candidate]
    <3>1. \A m \in Miners : cand[m] \in Candidate
      BY <2>1 DEF ThreadsOK, Cands, Candidate
    <3>. QED  BY <3>1 DEF ThreadsOK
  <2>. QED
    BY <2>1, <2>2, <2>3, <2>4, <2>5 DEF MiningTypeOK, ChainOK, ThreadsOK, BoundInv,
       Named, Places
<1>. QED
  BY <1>1, MiningInvInit, MiningInvStep, BoundInit, BoundStep, PTL DEF MiningSpec
=============================================================================
