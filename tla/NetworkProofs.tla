---------------------------- MODULE NetworkProofs ----------------------------
(***************************************************************************)
(* The two components that live on connections they do not control: nodes  *)
(* that learn blocks from each other, for any finite tree of blocks and    *)
(* any dials between any nodes, and the pool miner's client, for any       *)
(* number of threads and of starts.                                        *)
(***************************************************************************)
EXTENDS BlockSync, PoolClient, LedgerProofs

-----------------------------------------------------------------------------
(* The tree of blocks *)

Some == Seq(Blocks) \ {<< >>}

\* A branch is a sequence of blocks and not empty.
LEMMA BranchTyped == ASSUME NEW b \in Blocks PROVE Branch[b] \in Some
PROOF
  <1> USE SyncAssumption DEF SyncAssumption
  <1> DEFINE n == Cardinality(Blocks)
             F(up) == [i \in 0..n |->
                         IF i = 0 THEN <<b>>
                         ELSE IF up[i - 1][1] = Genesis THEN up[i - 1]
                         ELSE <<Parent[up[i - 1][1]]>> \o up[i - 1]]
             G == [x \in Nat \X Some |->
                     IF x[2][1] = Genesis THEN x[2]
                     ELSE <<Parent[x[2][1]]>> \o x[2]]
             T == [i \in 0..n |-> Some]
             up == CHOOSE f : f = F(f)
  <1>1. n \in Nat
    BY FS_CardinalityType
  <1>2. <<b>> \in Some
    BY DEF Some
  <1>3. ASSUME NEW s \in Some
        PROVE  (IF s[1] = Genesis THEN s ELSE <<Parent[s[1]]>> \o s) \in Some
    <2>1. s[1] \in Blocks
      BY DEF Some
    <2>2. CASE s[1] # Genesis
      <3>1. Parent[s[1]] \in Blocks
        BY <2>1, <2>2
      <3>2. <<Parent[s[1]]>> \in Seq(Blocks)
        BY <3>1
      <3>3. <<Parent[s[1]]>> \o s \in Seq(Blocks)
        BY <3>2 DEF Some
      <3>4. Len(<<Parent[s[1]]>> \o s) = 1 + Len(s)
        BY <3>2 DEF Some
      <3> QED
        BY <2>2, <3>3, <3>4 DEF Some
    <2> QED
      BY <2>2
  <1> HIDE DEF n
  <1>4. IsRecursion(n, Some, T, <<b>>, G)
    <2>1. \A i \in 1..n : \A s \in T[i - 1] : G[<<i, s>>] \in T[i]
      <3> TAKE i \in 1..n
      <3> TAKE s \in T[i - 1]
      <3>1. i \in Nat /\ s \in Some /\ T[i] = Some
        BY <1>1
      <3> QED
        BY <1>3, <3>1
    <2>2. T \in [0..n -> SUBSET Some]
      OBVIOUS
    <2>3. T[0] = Some
      BY <1>1
    <2> HIDE DEF T, G
    <2> QED
      BY <1>1, <1>2, <2>1, <2>2, <2>3 DEF IsRecursion
  <1>5. PICK f : Solves(f, n, Some, T, <<b>>, G)
    BY <1>4, RecursionExists
  <1>6. f = F(f)
    <2>1. \A i \in 1..n : i - 1 \in 0..n /\ f[i - 1] \in Some /\ i \in Nat
      BY <1>1, <1>5 DEF Solves
    <2>2. \A i \in 1..n : f[i] = G[<<i, f[i - 1]>>]
      BY <1>5 DEF Solves
    <2>3. \A i \in 1..n : f[i] = IF f[i - 1][1] = Genesis THEN f[i - 1]
                                 ELSE <<Parent[f[i - 1][1]]>> \o f[i - 1]
      BY <2>1, <2>2
    <2>4. \A i \in 0..n : i = 0 \/ i \in 1..n
      BY <1>1
    <2>5. f \in [0..n -> Some] /\ f[0] = <<b>>
      BY <1>5 DEF Solves
    <2>6. \A i \in 0..n : f[i] = F(f)[i]
      BY <2>3, <2>4, <2>5
    <2> QED
      BY <2>5, <2>6
  <1>7. up = F(up)
    BY <1>6
  <1>8. \A i \in 0..n : up[i] = IF i = 0 THEN <<b>>
                         ELSE IF up[i - 1][1] = Genesis THEN up[i - 1]
                         ELSE <<Parent[up[i - 1][1]]>> \o up[i - 1]
    BY <1>7
  <1>9. Branch[b] = up[n]
    BY DEF Branch, n
  <1> DEFINE S == {i \in Nat : i =< n => up[i] \in Some}
  <1> HIDE DEF up
  <1>10. 0 \in S
    <2>1. 0 \in 0..n
      BY <1>1
    <2>2. up[0] = <<b>>
      BY <1>8, <2>1
    <2> QED
      BY <1>2, <2>2
  <1>11. ASSUME NEW i \in Nat, i \in S PROVE i + 1 \in S
    <2> SUFFICES ASSUME i + 1 =< n PROVE up[i + 1] \in Some
      OBVIOUS
    <2>1. up[i] \in Some
      BY <1>1, <1>11
    <2>2. i + 1 \in 0..n /\ i + 1 # 0 /\ (i + 1) - 1 = i
      BY <1>1
    <2>3. up[i + 1] = IF up[i][1] = Genesis THEN up[i]
                      ELSE <<Parent[up[i][1]]>> \o up[i]
      BY <1>8, <2>2
    <2> QED
      BY <1>3, <2>1, <2>3
  <1> HIDE DEF S
  <1>12. n \in S
    BY <1>1, <1>10, <1>11, SetInduction
  <1> QED
    BY <1>1, <1>9, <1>12 DEF S

LEMMA HeightTyped ==
  ASSUME NEW b \in Blocks
  PROVE  /\ Height[b] \in Nat
         /\ Len(Branch[b]) = Height[b] + 1
         /\ \A h \in 0..Height[b] : Branch[b][h + 1] \in Blocks
PROOF
  <1> DEFINE s == Branch[b]
  <1>1. s \in Seq(Blocks) /\ s # << >>
    BY BranchTyped DEF Some
  <1>2. Height[b] = Len(s) - 1
    BY DEF Height
  <1> HIDE DEF s
  <1>3. Len(s) \in Nat /\ Len(s) # 0
    BY <1>1
  <1>4. \A h \in 0..Len(s) - 1 : s[h + 1] \in Blocks
    <2> TAKE h \in 0..Len(s) - 1
    <2>1. h + 1 \in 1..Len(s)
      BY <1>3
    <2> QED
      BY <1>1, <2>1
  <1> QED
    BY <1>2, <1>3, <1>4 DEF s

LEMMA WorkTyped == ASSUME NEW b \in Blocks PROVE Work[b] \in Nat
PROOF
  <1> DEFINE s == Branch[b]
             n == Len(s)
             F(f) == [i \in 0..n |-> IF i = 0 THEN 0
                                     ELSE f[i - 1] + Weight[s[i]]]
             W == [i \in 1..n |-> Weight[s[i]]]
             G == [x \in (1..n) \X Nat |-> x[2] + W[x[1]]]
             T == [i \in 0..n |-> Nat]
             upTo == CHOOSE f : f = F(f)
  <1>1. s \in Seq(Blocks)
    BY BranchTyped DEF Some
  <1>2. Weight \in [Blocks -> Nat]
    BY SyncAssumption DEF SyncAssumption
  <1> HIDE DEF s
  <1>3. n \in Nat
    BY <1>1
  <1>4. \A i \in 1..n : Weight[s[i]] \in Nat
    BY <1>1, <1>2
  <1> HIDE DEF n
  <1>5. \A i \in 1..n : \A x \in Nat : G[<<i, x>>] = x + Weight[s[i]]
    OBVIOUS
  <1>6. T \in [0..n -> SUBSET Nat] /\ \A i \in 0..n : T[i] = Nat
    OBVIOUS
  <1>7. \A i \in 1..n : i - 1 \in 0..n /\ i \in 0..n
    BY <1>3
  <1>8. IsRecursion(n, Nat, T, 0, G)
    <2>1. 0 \in T[0]
      BY <1>3, <1>6
    <2>2. \A i \in 1..n : \A x \in T[i - 1] : G[<<i, x>>] \in T[i]
      <3> TAKE i \in 1..n
      <3> TAKE x \in T[i - 1]
      <3>1. x \in Nat /\ T[i] = Nat
        BY <1>6, <1>7
      <3>2. G[<<i, x>>] = x + Weight[s[i]] /\ Weight[s[i]] \in Nat
        BY <1>4, <1>5, <3>1
      <3> QED
        BY <3>1, <3>2
    <2> HIDE DEF T, G
    <2> QED
      BY <1>3, <1>6, <2>1, <2>2 DEF IsRecursion
  <1>9. PICK f : Solves(f, n, Nat, T, 0, G)
    BY <1>8, RecursionExists
  <1> HIDE DEF T, G
  <1>10. f = F(f)
    <2>1. f \in [0..n -> Nat] /\ f[0] = 0
      BY <1>9 DEF Solves
    <2>2. \A i \in 1..n : f[i] = f[i - 1] + Weight[s[i]]
      BY <1>5, <1>7, <1>9, <2>1 DEF Solves
    <2>3. \A i \in 0..n : i = 0 \/ i \in 1..n
      BY <1>3
    <2>4. \A i \in 0..n : f[i] = F(f)[i]
      BY <2>1, <2>2, <2>3
    <2> QED
      BY <2>1, <2>4
  <1>11. upTo = F(upTo)
    BY <1>10
  <1>12. \A i \in 0..n : upTo[i] = IF i = 0 THEN 0
                                   ELSE upTo[i - 1] + Weight[s[i]]
    BY <1>11
  <1>13. Work[b] = upTo[n]
    BY DEF Work, n, s
  <1> DEFINE S == {i \in Nat : i =< n => upTo[i] \in Nat}
  <1> HIDE DEF upTo
  <1>14. 0 \in S
    <2>1. 0 \in 0..n
      BY <1>3
    <2> QED
      BY <1>12, <2>1
  <1>15. ASSUME NEW i \in Nat, i \in S PROVE i + 1 \in S
    <2> SUFFICES ASSUME i + 1 =< n PROVE upTo[i + 1] \in Nat
      OBVIOUS
    <2>1. upTo[i] \in Nat
      BY <1>3, <1>15
    <2>2. i + 1 \in 0..n /\ i + 1 \in 1..n /\ i + 1 # 0 /\ (i + 1) - 1 = i
      BY <1>3
    <2>3. upTo[i + 1] = upTo[i] + Weight[s[i + 1]]
      BY <1>12, <2>2
    <2> QED
      BY <1>4, <2>1, <2>2, <2>3
  <1> HIDE DEF S
  <1>16. n \in S
    BY <1>3, <1>14, <1>15, SetInduction
  <1> QED
    BY <1>3, <1>13, <1>16 DEF S

\* Of the blocks of a set that is not empty one is the heaviest.
LEMMA HeaviestTyped ==
  ASSUME NEW R \in SUBSET Blocks, R # {}
  PROVE  heaviest(R) \in R
PROOF
  <1> DEFINE top(S, b) == b \in S /\ \A c \in S : Work[c] =< Work[b]
             T == {S \in SUBSET Blocks : S # {} => \E b : top(S, b)}
  <1>1. IsFiniteSet(Blocks)
    BY SyncAssumption DEF SyncAssumption
  <1>2. \A b \in Blocks : Work[b] \in Nat
    BY WorkTyped
  <1>3. ASSUME NEW S \in SUBSET Blocks, \A x \in S : S \ {x} \in T PROVE S \in T
    <2> SUFFICES ASSUME NEW x \in S PROVE \E b : top(S, b)
      OBVIOUS
    <2>1. S \ {x} \in T
      BY <1>3
    <2>2. CASE S \ {x} = {}
      <3>1. \A c \in S : c = x
        BY <2>2
      <3>2. top(S, x)
        BY <1>2, <3>1
      <3> QED
        BY <3>2
    <2>3. CASE S \ {x} # {}
      <3>1. PICK b : top(S \ {x}, b)
        BY <2>1, <2>3
      <3>2. CASE Work[x] =< Work[b]
        <4>1. top(S, b)
          BY <3>1, <3>2
        <4> QED
          BY <4>1
      <3>3. CASE Work[b] =< Work[x]
        <4>1. top(S, x)
          BY <1>2, <3>1, <3>3
        <4> QED
          BY <4>1
      <3>4. Work[b] \in Nat /\ Work[x] \in Nat
        BY <1>2, <3>1
      <3> QED
        BY <3>2, <3>3, <3>4
    <2> QED
      BY <2>2, <2>3
  <1> HIDE DEF T
  <1>4. R \in T
    BY <1>1, <1>3, SubsetInduction
  <1>5. \E b \in R : \A c \in R : Work[c] =< Work[b]
    BY <1>4 DEF T
  <1> QED
    BY <1>5 DEF heaviest

-----------------------------------------------------------------------------
(* Messages and the pairs they travel between *)

LEMMA MessageParts ==
  ASSUME NEW msg \in Message
  PROVE  /\ msg.type \in {"Version", "GetBlocks", "Inv", "GetData", "Block"}
         /\ msg.type = "Version" => msg.height \in Nat
         /\ msg.type = "GetBlocks" => msg.from \in Nat
         /\ msg.type \in {"Inv", "GetData", "Block"} => msg.block \in Blocks
  BY DEF Message

LEMMA MessagesTyped ==
  ASSUME NEW b \in Blocks
  PROVE  /\ GetBlocksAbove(b) \in Message
         /\ \A t \in {"Inv", "GetData", "Block"} : about(t, b) \in Message
         /\ [type |-> "Version", height |-> Height[b]] \in Message
  BY HeightTyped DEF Message, GetBlocksAbove, about

LEMMA BlocksFromTyped ==
  ASSUME NEW n \in Nodes, tip[n] \in Blocks, NEW from \in Nat
  PROVE  BlocksFrom(n, from) \in Seq(Message)
PROOF
  <1> DEFINE top == Height[tip[n]]
             end == IF from + MAX_SYNC_BATCH - 1 < top
                    THEN from + MAX_SYNC_BATCH - 1 ELSE top
             count == IF end < from THEN 0 ELSE end - from + 1
             msg(i) == about("Block", block_at(n, from + i - 1))
  <1>1. top \in Nat /\ MAX_SYNC_BATCH \in Nat \ {0}
    BY HeightTyped, SyncAssumption DEF SyncAssumption
  <1>2. \A h \in 0..top : Branch[tip[n]][h + 1] \in Blocks
    BY HeightTyped
  <1> HIDE DEF top
  <1>3. count \in Nat
    BY <1>1
  <1>4. \A i \in 1..count : from + i - 1 \in 0..top
    BY <1>1
  <1> HIDE DEF count
  <1>5. \A i \in 1..count : msg(i) \in Message
    <2> TAKE i \in 1..count
    <2>1. block_at(n, from + i - 1) \in Blocks
      BY <1>2, <1>4 DEF block_at
    <2> QED
      BY <2>1, MessagesTyped
  <1>6. BlocksFrom(n, from) = [i \in 1..count |-> msg(i)]
    BY DEF BlocksFrom, top, count
  <1> HIDE DEF msg
  <1> QED
    BY <1>3, <1>5, <1>6

\* What is said of a pair of neighbours.
LEMMA PairParts ==
  ASSUME NEW p \in Pairs
  PROVE  /\ p = <<p[1], p[2]>> /\ p[1] \in Nodes /\ p[2] \in Nodes
         /\ p[1] # p[2]
         /\ <<p[2], p[1]>> \in Pairs
         /\ dial(p[1], p[2]) \in Dials
         /\ dial(p[1], p[2]) = dial(p[2], p[1])
         /\ p \in Dials <=> <<p[2], p[1]>> \notin Dials
PROOF
  <1> USE SyncAssumption DEF SyncAssumption
  <1>1. CASE p \in Dials
    BY <1>1 DEF Pairs, dial
  <1>2. ASSUME NEW d \in Dials, p = <<d[2], d[1]>> PROVE p \notin Dials /\ <<p[2], p[1]>> = d
    BY <1>2
  <1>3. ASSUME NEW d \in Dials, p = <<d[2], d[1]>>
        PROVE  /\ p = <<p[1], p[2]>> /\ p[1] \in Nodes /\ p[2] \in Nodes
               /\ p[1] # p[2]
    BY <1>3
  <1> QED
    BY <1>1, <1>2, <1>3 DEF Pairs, dial

LEMMA SendTyped ==
  ASSUME NEW q \in [Pairs -> Seq(Message)], NEW n, NEW m,
         NEW answers \in Seq(Message), NEW S, NEW b \in Blocks
  PROVE  send(q, n, m, answers, S, b) \in [Pairs -> Seq(Message)]
PROOF
  <1>1. about("Inv", b) \in Message
    BY MessagesTyped
  <1>2. ASSUME NEW p \in Pairs
        PROVE  (IF p = <<n, m>> THEN q[p] \o answers
                ELSE IF p[1] = n /\ p[2] \in S THEN Append(q[p], about("Inv", b))
                ELSE q[p]) \in Seq(Message)
    <2>1. q[p] \in Seq(Message)
      OBVIOUS
    <2> QED
      BY <1>1, <2>1
  <1> QED
    BY <1>2 DEF send

-----------------------------------------------------------------------------
(* Types *)

SyncTyped ==
  /\ SyncTypeOK
  /\ tip \in [Nodes -> Blocks]
  /\ sent \in [Pairs -> Seq(Message)]

\* A message that is received leaves messages.
LEMMA TakenTyped ==
  ASSUME SyncTyped, NEW m, NEW n, <<m, n>> \in Pairs, sent[<<m, n>>] # << >>
  PROVE  /\ Head(sent[<<m, n>>]) \in Message
         /\ taken(m, n) \in [Pairs -> Seq(Message)]
PROOF
  <1>1. sent[<<m, n>>] \in Seq(Message)
    BY DEF SyncTyped
  <1>2. Head(sent[<<m, n>>]) \in Message /\ Tail(sent[<<m, n>>]) \in Seq(Message)
    BY <1>1
  <1> QED
    BY <1>2 DEF SyncTyped, taken

LEMMA TypesInit == SyncInit => SyncTyped
PROOF
  <1> SUFFICES ASSUME SyncInit PROVE SyncTyped
    OBVIOUS
  <1>5. << >> \in Seq(Message)
    OBVIOUS
  <1> USE SyncAssumption DEF SyncInit, SyncAssumption
  <1>1. \A n \in Nodes : heaviest(Before[n]) \in Before[n]
    <2> TAKE n \in Nodes
    <2>1. Before[n] \in SUBSET Blocks /\ Before[n] # {}
      OBVIOUS
    <2> QED
      BY <2>1, HeaviestTyped
  <1>2. \A n \in Nodes : heaviest(Before[n]) \in Blocks
    BY <1>1
  <1>3. tip \in [Nodes -> Blocks] /\ \A n \in Nodes : tip[n] \in known[n]
    BY <1>1, <1>2
  <1>4. last \in [Nodes -> Nat]
    BY <1>2, HeightTyped
  <1>6. sent \in [Pairs -> Seq(Message)]
    BY <1>5
  <1>7. known \in [Nodes -> SUBSET Blocks]
    OBVIOUS
  <1>8. conn \in [Dials -> {"not yet", "open", "closed", "banned"}]
    OBVIOUS
  <1> QED
    BY <1>3, <1>4, <1>6, <1>7, <1>8 DEF SyncTyped, SyncTypeOK

\* The end of a connection empties its streams.
LEMMA EndedTyped ==
  ASSUME SyncTyped, NEW d \in Dials, NEW how \in {"closed", "banned"},
         Ended(d, how)
  PROVE  SyncTyped'
PROOF
  <1>1. conn' \in [Dials -> {"not yet", "open", "closed", "banned"}]
    BY DEF SyncTyped, SyncTypeOK, Ended
  <1>2. << >> \in Seq(Message)
    OBVIOUS
  <1>3. sent' \in [Pairs -> Seq(Message)]
    BY <1>2 DEF SyncTyped, Ended
  <1> QED
    BY <1>1, <1>3 DEF SyncTyped, SyncTypeOK, Ended, node_vars

\* What a node that has its peer's Version does with a message: it answers, and
\* it may announce a block to others of its peers.
Serves(m, n) ==
  /\ <<n, m>> \in shaken
  /\ UNCHANGED <<conn, hello, shaken>>
  /\ \E answers \in Seq(Message), S \in SUBSET PeersOf(n), b \in Blocks :
        /\ m \notin S
        /\ sent' = send(taken(m, n), n, m, answers, S, b)
        /\ early' = overtakes(n, S)

ChainsTyped ==
  /\ known \in [Nodes -> SUBSET Blocks]
  /\ tip \in [Nodes -> Blocks]
  /\ \A k \in Nodes : tip[k] \in known[k]
  /\ last \in [Nodes -> Nat]
  /\ lowered \subseteq Nodes

\* Answers to one peer alone.
LEMMA RepliesServe ==
  ASSUME NEW m, NEW n, <<n, m>> \in shaken, NEW answers \in Seq(Message),
         reply(m, n, answers), UNCHANGED <<conn, hello, shaken, early>>
  PROVE  Serves(m, n)
PROOF
  <1>1. overtakes(n, {}) = early
    BY DEF overtakes
  <1>2. Genesis \in Blocks
    BY SyncAssumption DEF SyncAssumption
  <1>3. {} \in SUBSET PeersOf(n) /\ m \notin {}
    OBVIOUS
  <1> QED
    BY <1>1, <1>2, <1>3 DEF Serves, reply

LEMMA AnswerServes ==
  ASSUME SyncTyped, NEW m, NEW n, <<m, n>> \in Pairs, sent[<<m, n>>] # << >>,
         Answer(m, n)
  PROVE  Serves(m, n) /\ UNCHANGED <<node_vars, lowered>>
PROOF
  <1> DEFINE msg == Head(sent[<<m, n>>])
             answers ==
               CASE msg.type = "Version" -> << >>
                 [] msg.type = "GetBlocks" -> BlocksFrom(n, msg.from)
                 [] msg.type = "Inv" -> IF msg.block \in known[n] THEN << >>
                                        ELSE <<about("GetData", msg.block)>>
                 [] msg.type = "GetData" -> IF msg.block \in known[n]
                                            THEN <<about("Block", msg.block)>>
                                            ELSE << >>
  <1>1. n \in Nodes /\ tip[n] \in Blocks
    BY PairParts DEF SyncTyped
  <1>2. msg \in Message
    BY TakenTyped
  <1> HIDE DEF msg
  <1>3. /\ msg.type \in {"Version", "GetBlocks", "Inv", "GetData", "Block"}
        /\ msg.type = "GetBlocks" => msg.from \in Nat
        /\ msg.type \in {"Inv", "GetData", "Block"} => msg.block \in Blocks
        /\ msg.type # "Block"
    BY <1>2, MessageParts DEF Answer, msg
  <1>4. answers \in Seq(Message)
    <2>1. CASE msg.type = "Version"
      BY <2>1
    <2>2. CASE msg.type = "GetBlocks"
      BY <1>1, <1>3, <2>2, BlocksFromTyped
    <2>3. CASE msg.type = "Inv"
      <3>1. about("GetData", msg.block) \in Message
        BY <1>3, <2>3, MessagesTyped
      <3> QED
        BY <2>3, <3>1
    <2>4. CASE msg.type = "GetData"
      <3>1. about("Block", msg.block) \in Message
        BY <1>3, <2>4, MessagesTyped
      <3> QED
        BY <2>4, <3>1
    <2> QED
      BY <1>3, <2>1, <2>2, <2>3, <2>4
  <1>5. /\ <<n, m>> \in shaken
        /\ reply(m, n, answers)
        /\ UNCHANGED <<node_vars, conn, hello, shaken, early, lowered>>
    BY DEF Answer, msg
  <1> HIDE DEF answers
  <1> QED
    BY <1>4, <1>5, RepliesServe

LEMMA TakeBlockServes ==
  ASSUME SyncTyped, NEW m, NEW n, <<m, n>> \in Pairs, sent[<<m, n>>] # << >>,
         TakeBlock(m, n)
  PROVE  Serves(m, n) /\ ChainsTyped'
PROOF
  <1> DEFINE b == Head(sent[<<m, n>>]).block
  <1>1. n \in Nodes /\ tip[n] \in Blocks
    BY PairParts DEF SyncTyped
  <1>2. b \in Blocks
    BY TakenTyped, MessageParts DEF TakeBlock
  <1>3. <<n, m>> \in shaken /\ UNCHANGED <<last, conn, hello, shaken>>
    BY DEF TakeBlock
  <1>4. GetBlocksAbove(b) \in Message /\ GetBlocksAbove(tip[n]) \in Message
    BY <1>1, <1>2, MessagesTyped
  <1>5. /\ << >> \in Seq(Message) /\ <<GetBlocksAbove(b)>> \in Seq(Message)
        /\ <<GetBlocksAbove(tip[n])>> \in Seq(Message)
    BY <1>4
  <1>6. ChainsTyped
    BY DEF SyncTyped, SyncTypeOK, ChainsTyped
  <1>7. CASE /\ \/ reply(m, n, repeated(b))
                \/ reply(m, n, <<GetBlocksAbove(tip[n])>>)
             /\ UNCHANGED <<known, tip, early, lowered>>
    <2>1. Serves(m, n)
      BY <1>3, <1>5, <1>7, RepliesServe DEF repeated
    <2> QED
      BY <1>3, <1>6, <1>7, <2>1 DEF ChainsTyped
  <1>8. CASE /\ known' = [known EXCEPT ![n] = @ \cup {b}]
             /\ reply(m, n, << >>)
             /\ UNCHANGED <<tip, early, lowered>>
    <2>1. Serves(m, n)
      BY <1>3, <1>5, <1>8, RepliesServe
    <2> QED
      BY <1>1, <1>2, <1>3, <1>6, <1>8, <2>1 DEF ChainsTyped
  <1>9. CASE /\ known' = [known EXCEPT ![n] = @ \cup {b}]
             /\ tip' = [tip EXCEPT ![n] = b]
             /\ lowered' \in {lowered, lowered \cup {n}}
             /\ sent' = send(taken(m, n), n, m, <<GetBlocksAbove(b)>>,
                             PeersOf(n) \ {m}, b)
             /\ early' = overtakes(n, PeersOf(n) \ {m})
    <2>1. Serves(m, n)
      <3>1. PeersOf(n) \ {m} \in SUBSET PeersOf(n) /\ m \notin PeersOf(n) \ {m}
        OBVIOUS
      <3> QED
        BY <1>2, <1>3, <1>5, <1>9, <3>1 DEF Serves
    <2> QED
      BY <1>1, <1>2, <1>3, <1>6, <1>9, <2>1 DEF ChainsTyped
  <1> QED
    BY <1>7, <1>8, <1>9 DEF TakeBlock

LEMMA ServesTyped ==
  ASSUME SyncTyped, NEW m, NEW n, <<m, n>> \in Pairs, sent[<<m, n>>] # << >>,
         Serves(m, n), ChainsTyped'
  PROVE  SyncTyped'
PROOF
  <1> PICK answers \in Seq(Message), S \in SUBSET PeersOf(n), b \in Blocks :
             /\ m \notin S
             /\ sent' = send(taken(m, n), n, m, answers, S, b)
             /\ early' = overtakes(n, S)
    BY DEF Serves
  <1>1. taken(m, n) \in [Pairs -> Seq(Message)]
    BY TakenTyped
  <1>2. sent' \in [Pairs -> Seq(Message)]
    BY <1>1, SendTyped
  <1>3. early' \subseteq Pairs
    BY DEF overtakes, SyncTyped, SyncTypeOK
  <1> QED
    BY <1>2, <1>3 DEF Serves, SyncTyped, SyncTypeOK, ChainsTyped

LEMMA GreetingTyped ==
  ASSUME SyncTyped, NEW m, NEW n, <<m, n>> \in Pairs, NEW h
  PROVE  greeting(m, n, h) \in Seq(Message)
PROOF
  <1>1. tip[n] \in Blocks
    BY PairParts DEF SyncTyped
  <1>2. Version(n) \in Message /\ GetBlocksAbove(tip[n]) \in Message
    BY <1>1, MessagesTyped DEF Version
  <1> QED
    BY <1>2 DEF greeting

LEMMA TypesReceive ==
  ASSUME SyncTyped, NEW m, NEW n, <<m, n>> \in Pairs, Receive(m, n)
  PROVE  SyncTyped'
PROOF
  <1> DEFINE msg == Head(sent[<<m, n>>])
  <1>1. /\ <<n, m>> \in Pairs /\ dial(n, m) \in Dials /\ Genesis \in Blocks
    BY PairParts, SyncAssumption DEF SyncAssumption
  <1>2. sent[<<m, n>>] # << >> /\ taken(m, n) \in [Pairs -> Seq(Message)]
    BY TakenTyped DEF Receive
  <1>3. CASE Greet(m, n)
    <2>1. CASE msg.type # "Version"
      BY <1>1, <1>3, <2>1, EndedTyped DEF Greet
    <2>2. CASE msg.type = "Version"
      <3>1. /\ reply(m, n, greeting(m, n, msg.height))
            /\ shaken' = shaken \cup {<<n, m>>}
            /\ UNCHANGED <<node_vars, conn, hello, early, lowered>>
        BY <1>3, <2>2 DEF Greet
      <3>2. sent' \in [Pairs -> Seq(Message)]
        BY <1>1, <1>2, <3>1, GreetingTyped, SendTyped DEF reply
      <3> QED
        BY <1>1, <3>1, <3>2 DEF SyncTyped, SyncTypeOK, node_vars
    <2> QED
      BY <2>1, <2>2
  <1>4. CASE Answer(m, n)
    <2>1. Serves(m, n) /\ UNCHANGED <<node_vars, lowered>>
      BY <1>2, <1>4, AnswerServes
    <2>2. ChainsTyped'
      BY <2>1 DEF SyncTyped, SyncTypeOK, ChainsTyped, node_vars
    <2> QED
      BY <1>2, <2>1, <2>2, ServesTyped
  <1>5. CASE TakeBlock(m, n)
    BY <1>2, <1>5, TakeBlockServes, ServesTyped
  <1> QED
    BY <1>3, <1>4, <1>5 DEF Receive

LEMMA TypesStep == SyncTyped /\ [SyncNext]_sync_vars => SyncTyped'
PROOF
  <1> SUFFICES ASSUME SyncTyped, [SyncNext]_sync_vars PROVE SyncTyped'
    OBVIOUS
  <1> USE SyncAssumption DEF SyncAssumption
  <1>1. ASSUME NEW d \in Dials, Open(d) PROVE SyncTyped'
    BY <1>1 DEF SyncTyped, SyncTypeOK, Open, node_vars
  <1>2. ASSUME NEW d \in Dials, Hello(d) PROVE SyncTyped'
    <2>1. d \in Pairs /\ d[1] \in Nodes
      BY DEF Pairs
    <2>2. Version(d[1]) \in Message
      BY <2>1, MessagesTyped DEF Version, SyncTyped
    <2>3. sent[d] \in Seq(Message)
      BY <2>1 DEF SyncTyped
    <2>4. Append(sent[d], Version(d[1])) \in Seq(Message)
      BY <2>2, <2>3
    <2>5. sent' \in [Pairs -> Seq(Message)]
      BY <1>2, <2>4 DEF Hello, SyncTyped
    <2> QED
      BY <1>2, <2>5 DEF SyncTyped, SyncTypeOK, Hello, node_vars
  <1>3. ASSUME NEW d \in Dials, Lose(d) PROVE SyncTyped'
    BY <1>3, EndedTyped DEF Lose
  <1>4. ASSUME NEW b \in Blocks \ {Genesis}, Mine(b) PROVE SyncTyped'
    <2>1. Author[b] \in Nodes
      OBVIOUS
    <2> QED
      BY <1>4, <2>1 DEF SyncTyped, SyncTypeOK, Mine, conn_vars
  <1>5. ASSUME NEW n \in Nodes, Announce(n) PROVE SyncTyped'
    <2>1. tip[n] \in Blocks /\ Height[tip[n]] \in Nat
      BY HeightTyped DEF SyncTyped
    <2>2. << >> \in Seq(Message)
      OBVIOUS
    <2>3. sent' \in [Pairs -> Seq(Message)]
      BY <1>5, <2>1, <2>2, SendTyped DEF Announce, SyncTyped
    <2>4. last' \in [Nodes -> Nat]
      BY <1>5, <2>1 DEF Announce, SyncTyped, SyncTypeOK
    <2>5. early' \subseteq Pairs
      BY <1>5 DEF Announce, SyncTyped, SyncTypeOK, overtakes
    <2> QED
      BY <1>5, <2>3, <2>4, <2>5 DEF SyncTyped, SyncTypeOK, Announce
  <1>6. ASSUME NEW p \in Pairs, Receive(p[1], p[2]) PROVE SyncTyped'
    BY <1>6, PairParts, TypesReceive
  <1>7. CASE UNCHANGED sync_vars
    BY <1>7 DEF SyncTyped, SyncTypeOK, sync_vars, node_vars, conn_vars
  <1> QED
    BY <1>1, <1>2, <1>3, <1>4, <1>5, <1>6, <1>7 DEF SyncNext

\* The variables of every node and connection keep their types, for any finite
\* tree of blocks and any dials.
THEOREM SyncTypeCorrect == SyncSpec => []SyncTypeOK
PROOF
  <1>1. SyncTyped => SyncTypeOK
    BY DEF SyncTyped
  <1> QED
    BY <1>1, TypesInit, TypesStep, PTL DEF SyncSpec

-----------------------------------------------------------------------------
(* Greetings *)

Versions(s) == \E i \in DOMAIN s : s[i].type = "Version"

\* Between a and b: nothing travels on a connection that is not up, and one not
\* made yet has no greeting behind it; a Version is on its way, or arrived, only
\* if it was sent; and unless something overtook it, the Version is the first
\* thing b is to read from a.
Greeting(a, b) ==
  LET p == <<a, b>> IN
  /\ ~ open(a, b) => sent[p] = << >>
  /\ conn[dial(a, b)] = "not yet" => ~ greeted(p) /\ <<b, a>> \notin shaken
  /\ Versions(sent[p]) \/ <<b, a>> \in shaken => greeted(p)
  /\ open(a, b) /\ p \notin early /\ <<b, a>> \notin shaken =>
       IF greeted(p) THEN sent[p] # << >> /\ Head(sent[p]).type = "Version"
       ELSE sent[p] = << >>

SyncInv ==
  /\ SyncTyped
  /\ \A a, b \in Nodes : <<a, b>> \in Pairs => Greeting(a, b)
  /\ BansAreOvertakings

\* What is taken off a stream, or put at its end, leaves a Version at its head
\* there, and only a Version brings in a Version.
LEMMA StreamMoves ==
  ASSUME NEW s \in Seq(Message)
  PROVE  /\ Versions(Tail(s)) /\ s # << >> => Versions(s)
         /\ \A x \in Message : /\ Versions(Append(s, x)) => Versions(s) \/ x.type = "Version"
                               /\ Append(s, x) # << >>
                               /\ Head(Append(s, x)) = IF s = << >> THEN x ELSE Head(s)
         /\ \A t \in Seq(Message) :
               s # << >> => s \o t # << >> /\ Head(s \o t) = Head(s)
         /\ s # << >> /\ Head(s).type = "Version" => Versions(s)
         /\ ~ Versions(<< >>)
PROOF
  <1>1. Versions(Tail(s)) /\ s # << >> => Versions(s)
    <2> SUFFICES ASSUME s # << >>, NEW i \in DOMAIN Tail(s),
                        Tail(s)[i].type = "Version"
                 PROVE  Versions(s)
      BY DEF Versions
    <2>1. i + 1 \in DOMAIN s /\ Tail(s)[i] = s[i + 1]
      OBVIOUS
    <2> QED
      BY <2>1 DEF Versions
  <1>2. ASSUME NEW x \in Message
        PROVE  /\ Versions(Append(s, x)) => Versions(s) \/ x.type = "Version"
               /\ Append(s, x) # << >>
               /\ Head(Append(s, x)) = IF s = << >> THEN x ELSE Head(s)
    <2> DEFINE u == Append(s, x)
    <2>1. /\ u \in Seq(Message) /\ Len(u) = Len(s) + 1 /\ Len(s) \in Nat
          /\ DOMAIN u = 1..Len(s) + 1 /\ DOMAIN s = 1..Len(s)
          /\ \A i \in 1..Len(s) : u[i] = s[i]
          /\ u[Len(s) + 1] = x
      OBVIOUS
    <2> HIDE DEF u
    <2>2. Versions(u) => Versions(s) \/ x.type = "Version"
      BY <2>1 DEF Versions
    <2>3. u # << >> /\ Head(u) = u[1]
      BY <2>1
    <2>4. CASE s = << >>
      BY <2>1, <2>2, <2>3, <2>4 DEF u
    <2>5. CASE s # << >>
      <3>1. 1 \in 1..Len(s) /\ Head(s) = s[1]
        BY <2>1, <2>5
      <3> QED
        BY <2>1, <2>2, <2>3, <2>5, <3>1 DEF u
    <2> QED
      BY <2>4, <2>5
  <1>3. \A t \in Seq(Message) :
               s # << >> => s \o t # << >> /\ Head(s \o t) = Head(s)
    OBVIOUS
  <1>4. s # << >> /\ Head(s).type = "Version" => Versions(s)
    BY DEF Versions
  <1>5. ~ Versions(<< >>)
    BY DEF Versions
  <1> QED
    BY <1>1, <1>2, <1>3, <1>4, <1>5

\* A pair that a step does not touch.
LEMMA GreetingStays ==
  ASSUME NEW a, NEW b, Greeting(a, b),
         conn'[dial(a, b)] = conn[dial(a, b)], sent'[<<a, b>>] = sent[<<a, b>>],
         greeted(<<a, b>>)' <=> greeted(<<a, b>>),
         <<b, a>> \in shaken' <=> <<b, a>> \in shaken,
         early \subseteq early'
  PROVE  Greeting(a, b)'
  BY DEF Greeting, open

\* An announcement that a broadcast adds.
LEMMA GreetingHears ==
  ASSUME NEW a, NEW b, Greeting(a, b), open(a, b), sent[<<a, b>>] \in Seq(Message),
         UNCHANGED <<conn, hello, shaken>>, NEW c \in Blocks,
         sent'[<<a, b>>] = Append(sent[<<a, b>>], about("Inv", c)),
         early \subseteq early', greeted(<<a, b>>) \/ <<a, b>> \in early'
  PROVE  Greeting(a, b)'
PROOF
  <1>1. about("Inv", c) \in Message /\ about("Inv", c).type # "Version"
    BY MessagesTyped DEF about
  <1>2. greeted(<<a, b>>)' <=> greeted(<<a, b>>)
    BY DEF greeted
  <1>3. open(a, b)' /\ conn'[dial(a, b)] # "not yet"
    BY DEF open
  <1> DEFINE s == sent[<<a, b>>]
             u == sent'[<<a, b>>]
  <1>4. /\ Versions(u) => Versions(s)
        /\ u # << >>
        /\ s # << >> => Head(u) = Head(s)
    BY <1>1, StreamMoves
  <1>5. Versions(u) \/ <<b, a>> \in shaken' => greeted(<<a, b>>)'
    BY <1>2, <1>4 DEF Greeting
  <1>6. ASSUME <<a, b>> \notin early', <<b, a>> \notin shaken'
        PROVE  greeted(<<a, b>>)' /\ u # << >> /\ Head(u).type = "Version"
    <2>1. greeted(<<a, b>>) /\ <<a, b>> \notin early /\ <<b, a>> \notin shaken
      BY <1>6
    <2>2. s # << >> /\ Head(s).type = "Version"
      BY <2>1 DEF Greeting
    <2> QED
      BY <1>2, <1>4, <2>1, <2>2
  <1> HIDE DEF u
  <1> QED
    BY <1>3, <1>5, <1>6 DEF Greeting, u

LEMMA Neighbours ==
  ASSUME NEW a, NEW b, <<a, b>> \in Pairs
  PROVE  /\ a \in Nodes /\ b \in Nodes /\ a # b
         /\ <<b, a>> \in Pairs
         /\ dial(a, b) \in Dials /\ dial(a, b) = dial(b, a)
         /\ dial(a, b) \in {<<a, b>>, <<b, a>>}
         /\ <<a, b>> \in Dials <=> <<b, a>> \notin Dials
  BY PairParts DEF dial

LEMMA SyncInitInv == SyncInit => SyncInv
PROOF
  <1> SUFFICES ASSUME SyncInit PROVE SyncInv
    OBVIOUS
  <1>1. SyncTyped
    BY TypesInit
  <1>2. ASSUME NEW a \in Nodes, NEW b \in Nodes, <<a, b>> \in Pairs
        PROVE  Greeting(a, b)
    <2>1. sent[<<a, b>>] = << >> /\ conn[dial(a, b)] = "not yet"
      BY <1>2, Neighbours DEF SyncInit
    <2>2. ~ greeted(<<a, b>>) /\ <<b, a>> \notin shaken
      BY DEF SyncInit, greeted
    <2>3. ~ Versions(<< >>)
      BY DEF Versions
    <2> QED
      BY <2>1, <2>2, <2>3 DEF Greeting, open
  <1>3. BansAreOvertakings
    BY DEF SyncInit, BansAreOvertakings
  <1> QED
    BY <1>1, <1>2, <1>3 DEF SyncInv

\* Nobody is banned by a step that bans nobody.
LEMMA BansStay ==
  ASSUME BansAreOvertakings, early \subseteq early',
         \A d \in Dials : conn'[d] = "banned" => conn[d] = "banned"
  PROVE  BansAreOvertakings'
  BY DEF BansAreOvertakings

LEMMA EndedGreeting ==
  ASSUME SyncInv, NEW m, NEW n, <<m, n>> \in Pairs,
         NEW how \in {"closed", "banned"}, Ended(dial(m, n), how),
         how = "banned" => <<m, n>> \in early
  PROVE  SyncInv'
PROOF
  <1>1. SyncTyped' /\ dial(m, n) \in Dials
    <2>1. dial(m, n) \in Dials
      BY Neighbours
    <2> QED
      BY <2>1, EndedTyped DEF SyncInv
  <1>2. /\ UNCHANGED <<hello, shaken, early>>
        /\ conn' = [conn EXCEPT ![dial(m, n)] = how]
        /\ conn \in [Dials -> {"not yet", "open", "closed", "banned"}]
    BY DEF Ended, SyncInv, SyncTyped, SyncTypeOK
  <1>3. ASSUME NEW a \in Nodes, NEW b \in Nodes, <<a, b>> \in Pairs
        PROVE  Greeting(a, b)'
    <2>1. Greeting(a, b) /\ dial(a, b) \in Dials
      BY <1>3, Neighbours DEF SyncInv
    <2>2. greeted(<<a, b>>)' <=> greeted(<<a, b>>)
      BY <1>2 DEF greeted
    <2>3. sent'[<<a, b>>] = IF dial(a, b) = dial(m, n) THEN << >> ELSE sent[<<a, b>>]
      BY <1>3 DEF Ended
    <2>4. CASE dial(a, b) # dial(m, n)
      BY <1>2, <2>1, <2>2, <2>3, <2>4, GreetingStays
    <2>5. CASE dial(a, b) = dial(m, n)
      <3>1. sent'[<<a, b>>] = << >> /\ conn'[dial(a, b)] = how
        BY <1>1, <1>2, <2>3, <2>5
      <3>2. ~ Versions(<< >>)
        BY DEF Versions
      <3> QED
        BY <1>2, <2>1, <2>2, <3>1, <3>2 DEF Greeting, open
    <2> QED
      BY <2>4, <2>5
  <1>4. BansAreOvertakings'
    <2> SUFFICES ASSUME NEW d \in Dials, conn'[d] = "banned"
                 PROVE  d \in early \/ <<d[2], d[1]>> \in early
      BY <1>2 DEF BansAreOvertakings
    <2>1. CASE d # dial(m, n)
      BY <1>2, <2>1 DEF SyncInv, BansAreOvertakings
    <2>2. CASE d = dial(m, n)
      <3>1. <<m, n>> \in early
        BY <1>1, <1>2, <2>2
      <3>2. d = <<m, n>> \/ d = <<n, m>>
        BY <2>2, Neighbours
      <3> QED
        BY <3>1, <3>2
    <2> QED
      BY <2>1, <2>2
  <1> QED
    BY <1>1, <1>3, <1>4 DEF SyncInv

\* An open connection is one that messages travel on.
LEMMA TravelsOpen ==
  ASSUME SyncInv, NEW m, NEW n, <<m, n>> \in Pairs, sent[<<m, n>>] # << >>
  PROVE  /\ open(m, n) /\ open(n, m)
         /\ Greeting(m, n) /\ Greeting(n, m)
PROOF
  <1>1. Greeting(m, n) /\ Greeting(n, m) /\ dial(m, n) = dial(n, m)
    BY Neighbours DEF SyncInv
  <1> QED
    BY <1>1 DEF Greeting, open

\* Who has its peer's Version has sent its own, and the peer sent that Version.
LEMMA GreetedBothWays ==
  ASSUME SyncInv, NEW m, NEW n, <<m, n>> \in Pairs, <<n, m>> \in shaken
  PROVE  greeted(<<m, n>>) /\ greeted(<<n, m>>)
PROOF
  <1>1. Greeting(m, n) /\ Greeting(n, m)
    BY Neighbours DEF SyncInv
  <1>2. greeted(<<m, n>>)
    BY <1>1 DEF Greeting
  <1>3. CASE <<n, m>> \notin Dials
    BY <1>2, <1>3 DEF greeted
  <1>4. CASE <<n, m>> \in Dials
    <2>1. <<m, n>> \in shaken
      BY <1>2, <1>4, Neighbours DEF greeted
    <2> QED
      BY <1>1, <2>1 DEF Greeting
  <1> QED
    BY <1>2, <1>3, <1>4

LEMMA ServesGreeting ==
  ASSUME SyncInv, NEW m, NEW n, <<m, n>> \in Pairs, sent[<<m, n>>] # << >>,
         Serves(m, n), ChainsTyped'
  PROVE  SyncInv'
PROOF
  <1>1. SyncTyped'
    BY ServesTyped DEF SyncInv
  <1>2. <<n, m>> \in shaken /\ UNCHANGED <<conn, hello, shaken>>
    BY DEF Serves
  <1> PICK answers \in Seq(Message), S \in SUBSET PeersOf(n), c \in Blocks :
             /\ m \notin S
             /\ sent' = send(taken(m, n), n, m, answers, S, c)
             /\ early' = overtakes(n, S)
    BY DEF Serves
  <1>3. early \subseteq early'
    BY DEF overtakes
  <1>4. \A p \in Pairs : greeted(p)' <=> greeted(p)
    BY <1>2 DEF greeted
  <1>5. open(m, n) /\ open(n, m)
    BY TravelsOpen
  <1>6. greeted(<<m, n>>) /\ greeted(<<n, m>>)
    BY <1>2, GreetedBothWays
  <1>7. ASSUME NEW a \in Nodes, NEW b \in Nodes, <<a, b>> \in Pairs
        PROVE  Greeting(a, b)'
    <2>1. Greeting(a, b) /\ SyncTyped /\ sent[<<a, b>>] \in Seq(Message)
      BY <1>7 DEF SyncInv, SyncTyped
    <2>2. CASE <<a, b>> = <<m, n>>
      <3>1. open(a, b)' /\ conn'[dial(a, b)] # "not yet"
        BY <1>2, <1>5, <2>2 DEF open
      <3>2. greeted(<<a, b>>)' /\ <<b, a>> \in shaken'
        BY <1>2, <1>4, <1>6, <1>7, <2>2
      <3> QED
        BY <3>1, <3>2 DEF Greeting
    <2>3. CASE /\ <<a, b>> = <<n, m>>
               /\ sent'[<<a, b>>] = sent[<<a, b>>] \o answers
      <3>1. open(a, b)' /\ conn'[dial(a, b)] # "not yet" /\ open(a, b)
        BY <1>2, <1>5, <2>3 DEF open
      <3>2. greeted(<<a, b>>)' /\ greeted(<<a, b>>)
        BY <1>4, <1>6, <1>7, <2>3
      <3>3. ASSUME <<a, b>> \notin early', <<b, a>> \notin shaken'
            PROVE  sent'[<<a, b>>] # << >> /\ Head(sent'[<<a, b>>]).type = "Version"
        <4>1. sent[<<a, b>>] # << >> /\ Head(sent[<<a, b>>]).type = "Version"
          BY <1>2, <1>3, <2>1, <3>1, <3>2, <3>3 DEF Greeting
        <4> QED
          BY <2>1, <2>3, <4>1, StreamMoves
      <3> QED
        BY <3>1, <3>2, <3>3 DEF Greeting
    <2>4. CASE /\ a = n /\ b \in S
               /\ sent'[<<a, b>>] = Append(sent[<<a, b>>], about("Inv", c))
      <3>1. open(a, b)
        BY <2>4 DEF PeersOf
      <3>2. greeted(<<a, b>>) \/ <<a, b>> \in early'
        BY <1>7, <2>4 DEF overtakes
      <3> QED
        BY <1>2, <1>3, <2>1, <2>4, <3>1, <3>2, GreetingHears
    <2>5. CASE sent'[<<a, b>>] = sent[<<a, b>>]
      BY <1>2, <1>3, <1>4, <1>7, <2>1, <2>5, GreetingStays
    <2>6. /\ SyncTyped /\ <<m, n>> \in Pairs /\ <<a, b>> \in Pairs
          /\ m \notin S
          /\ sent' = send(taken(m, n), n, m, answers, S, c)
      BY <1>7, <2>1
    <2>7. \/ /\ <<a, b>> = <<m, n>>
             /\ sent'[<<a, b>>] = Tail(sent[<<a, b>>])
          \/ /\ <<a, b>> = <<n, m>>
             /\ sent'[<<a, b>>] = sent[<<a, b>>] \o answers
          \/ /\ a = n /\ b \in S
             /\ sent'[<<a, b>>] = Append(sent[<<a, b>>], about("Inv", c))
          \/ /\ <<a, b>> \notin {<<m, n>>, <<n, m>>}
             /\ sent'[<<a, b>>] = sent[<<a, b>>]
      <3>1. m # n /\ <<m, n>> # <<n, m>>
        BY Neighbours
      <3>2. taken(m, n)[<<a, b>>] = IF <<a, b>> = <<m, n>> THEN Tail(sent[<<a, b>>])
                                    ELSE sent[<<a, b>>]
        BY <2>6 DEF taken, SyncTyped
      <3>3. sent'[<<a, b>>] =
              IF <<a, b>> = <<n, m>> THEN taken(m, n)[<<a, b>>] \o answers
              ELSE IF a = n /\ b \in S
                   THEN Append(taken(m, n)[<<a, b>>], about("Inv", c))
              ELSE taken(m, n)[<<a, b>>]
        BY <2>6 DEF send
      <3> QED
        BY <2>6, <3>1, <3>2, <3>3
    <2> QED
      BY <2>2, <2>3, <2>4, <2>5, <2>7
  <1>8. BansAreOvertakings'
    BY <1>2, <1>3, BansStay DEF SyncInv
  <1> QED
    BY <1>1, <1>7, <1>8 DEF SyncInv

\* The first message is the peer's Version, which the side that was dialled
\* answers with its own before anything else.
LEMMA GreetGreeting ==
  ASSUME SyncInv, NEW m, NEW n, <<m, n>> \in Pairs, sent[<<m, n>>] # << >>,
         Greet(m, n)
  PROVE  SyncInv'
PROOF
  <1> DEFINE msg == Head(sent[<<m, n>>])
             answers == greeting(m, n, msg.height)
  <1>1. <<n, m>> \notin shaken
    BY DEF Greet
  <1>2. /\ m # n /\ <<n, m>> \in Pairs /\ <<m, n>> # <<n, m>>
        /\ dial(m, n) = dial(n, m) /\ n \in Nodes
        /\ <<m, n>> \in Dials <=> <<n, m>> \notin Dials
    BY Neighbours
  <1>3. /\ open(m, n) /\ open(n, m) /\ Greeting(m, n) /\ Greeting(n, m)
    BY TravelsOpen
  <1>4. SyncTyped /\ sent[<<m, n>>] \in Seq(Message)
    BY DEF SyncInv, SyncTyped
  <1>5. CASE msg.type # "Version"
    <2>1. Ended(dial(m, n), "banned")
      BY <1>2, <1>5 DEF Greet
    <2>2. <<m, n>> \in early
      BY <1>1, <1>3, <1>5 DEF Greeting
    <2> QED
      BY <2>1, <2>2, EndedGreeting
  <1>6. CASE msg.type = "Version"
    <2>1. /\ reply(m, n, answers)
          /\ shaken' = shaken \cup {<<n, m>>}
          /\ UNCHANGED <<node_vars, conn, hello, early, lowered>>
      BY <1>6 DEF Greet
    <2>2. SyncTyped'
      <3>1. Receive(m, n)
        BY DEF Receive
      <3> QED
        BY <1>4, <3>1, TypesReceive
    <2>3. answers \in Seq(Message)
      BY <1>4, GreetingTyped
    <2>4. greeted(<<m, n>>)
      BY <1>3, <1>4, <1>6, StreamMoves DEF Greeting
    <2>5. \A p \in Pairs : p # <<n, m>> => (greeted(p)' <=> greeted(p))
      BY <2>1 DEF greeted
    <2>6. greeted(<<n, m>>)'
      <3>1. CASE <<n, m>> \notin Dials
        BY <2>1, <3>1 DEF greeted
      <3>2. CASE <<n, m>> \in Dials
        <4>1. <<m, n>> \in shaken
          BY <1>2, <2>4, <3>2 DEF greeted
        <4>2. greeted(<<n, m>>)
          BY <1>3, <4>1 DEF Greeting
        <4> QED
          BY <2>1, <3>2, <4>2 DEF greeted
      <3> QED
        BY <3>1, <3>2
    <2>7. ASSUME NEW a \in Nodes, NEW b \in Nodes, <<a, b>> \in Pairs
          PROVE  Greeting(a, b)'
      <3>1. Greeting(a, b) /\ sent[<<a, b>>] \in Seq(Message)
        BY <2>7 DEF SyncInv, SyncTyped
      <3>2. taken(m, n)[<<a, b>>] = IF <<a, b>> = <<m, n>> THEN Tail(sent[<<a, b>>])
                                    ELSE sent[<<a, b>>]
        BY <1>4, <2>7 DEF taken, SyncTyped
      <3>3. sent'[<<a, b>>] = IF <<a, b>> = <<n, m>>
                              THEN taken(m, n)[<<a, b>>] \o answers
                              ELSE taken(m, n)[<<a, b>>]
        BY <2>1, <2>7 DEF reply, send
      <3>4. CASE <<a, b>> = <<m, n>>
        <4>1. open(a, b)' /\ conn'[dial(a, b)] # "not yet"
          BY <1>3, <2>1, <3>4 DEF open
        <4>2. greeted(<<a, b>>)' /\ <<b, a>> \in shaken'
          BY <1>2, <2>1, <2>4, <2>5, <2>7, <3>4
        <4> QED
          BY <4>1, <4>2 DEF Greeting
      <3>5. CASE <<a, b>> = <<n, m>>
        <4>1. open(a, b)' /\ conn'[dial(a, b)] # "not yet" /\ open(a, b)
          BY <1>3, <2>1, <3>5 DEF open
        <4>2. sent'[<<a, b>>] = sent[<<a, b>>] \o answers
          BY <1>2, <3>2, <3>3, <3>5
        <4>3. ASSUME <<a, b>> \notin early', <<b, a>> \notin shaken'
              PROVE  sent'[<<a, b>>] # << >> /\ Head(sent'[<<a, b>>]).type = "Version"
          <5>1. <<m, n>> \notin shaken /\ <<n, m>> \notin Dials
            BY <1>2, <2>1, <2>4, <3>5, <4>3 DEF greeted
          <5>2. ~ greeted(<<n, m>>)
            BY <1>1, <5>1 DEF greeted
          <5>3. sent[<<a, b>>] = << >>
            BY <2>1, <3>1, <3>5, <4>1, <4>3, <5>1, <5>2 DEF Greeting
          <5>4. sent'[<<a, b>>] = answers
            BY <2>3, <4>2, <5>3
          <5>5. answers # << >> /\ Head(answers) = Version(n)
            <6>1. tip[n] \in Blocks
              BY <1>2, <1>4 DEF SyncTyped
            <6>2. Version(n) \in Message /\ GetBlocksAbove(tip[n]) \in Message
              BY <6>1, MessagesTyped DEF Version
            <6> QED
              BY <5>1, <6>2 DEF greeting
          <5> QED
            BY <5>4, <5>5 DEF Version
        <4> QED
          BY <2>6, <3>5, <4>1, <4>3 DEF Greeting
      <3>6. CASE <<a, b>> \notin {<<m, n>>, <<n, m>>}
        <4>1. sent'[<<a, b>>] = sent[<<a, b>>]
          BY <3>2, <3>3, <3>6
        <4>2. <<b, a>> \in shaken' <=> <<b, a>> \in shaken
          BY <2>1, <3>6
        <4> QED
          BY <2>1, <2>5, <2>7, <3>1, <3>6, <4>1, <4>2, GreetingStays
      <3> QED
        BY <3>4, <3>5, <3>6
    <2>8. BansAreOvertakings'
      BY <2>1, BansStay DEF SyncInv
    <2> QED
      BY <2>2, <2>7, <2>8 DEF SyncInv
  <1> QED
    BY <1>5, <1>6

LEMMA ReceiveGreeting ==
  ASSUME SyncInv, NEW m, NEW n, <<m, n>> \in Pairs, Receive(m, n)
  PROVE  SyncInv'
PROOF
  <1>1. sent[<<m, n>>] # << >> /\ SyncTyped
    BY DEF Receive, SyncInv
  <1>2. CASE Greet(m, n)
    BY <1>1, <1>2, GreetGreeting
  <1>3. CASE Answer(m, n)
    <2>1. Serves(m, n) /\ UNCHANGED <<node_vars, lowered>>
      BY <1>1, <1>3, AnswerServes
    <2>2. ChainsTyped'
      BY <1>1, <2>1 DEF SyncTyped, SyncTypeOK, ChainsTyped, node_vars
    <2> QED
      BY <1>1, <2>1, <2>2, ServesGreeting
  <1>4. CASE TakeBlock(m, n)
    BY <1>1, <1>4, TakeBlockServes, ServesGreeting
  <1> QED
    BY <1>2, <1>3, <1>4 DEF Receive

\* The side that dialled speaks first.
LEMMA HelloGreeting ==
  ASSUME SyncInv, NEW d \in Dials, Hello(d)
  PROVE  SyncInv'
PROOF
  <1>1. SyncTyped' /\ SyncTyped
    <2>1. [SyncNext]_sync_vars
      BY DEF SyncNext
    <2> QED
      BY <2>1, TypesStep DEF SyncInv
  <1>2. d \in Pairs /\ d = <<d[1], d[2]>> /\ d[1] \in Nodes /\ d[2] \in Nodes
    BY PairParts DEF Pairs
  <1>3. /\ conn[d] = "open" /\ d \notin hello
        /\ hello' = hello \cup {d}
        /\ sent' = [sent EXCEPT ![d] = Append(@, Version(d[1]))]
        /\ UNCHANGED <<node_vars, conn, shaken, early, lowered>>
    BY DEF Hello
  <1>4. Version(d[1]) \in Message /\ Version(d[1]).type = "Version"
    <2>1. tip[d[1]] \in Blocks
      BY <1>1, <1>2 DEF SyncTyped
    <2> QED
      BY <2>1, MessagesTyped DEF Version
  <1>5. ASSUME NEW a \in Nodes, NEW b \in Nodes, <<a, b>> \in Pairs
        PROVE  Greeting(a, b)'
    <2>1. Greeting(a, b) /\ sent[<<a, b>>] \in Seq(Message)
      BY <1>1, <1>5 DEF SyncInv, SyncTyped
    <2>2. CASE <<a, b>> = d
      <3>1. dial(a, b) = d /\ open(a, b) /\ open(a, b)' /\ conn'[dial(a, b)] # "not yet"
        BY <1>3, <2>2 DEF dial, open
      <3>2. ~ greeted(<<a, b>>) /\ greeted(<<a, b>>)'
        BY <1>3, <2>2 DEF greeted
      <3>3. sent'[<<a, b>>] = Append(sent[<<a, b>>], Version(d[1]))
        BY <1>1, <1>2, <1>3, <2>2 DEF SyncTyped
      <3>4. ASSUME <<a, b>> \notin early', <<b, a>> \notin shaken'
            PROVE  sent'[<<a, b>>] # << >> /\ Head(sent'[<<a, b>>]).type = "Version"
        <4>1. sent[<<a, b>>] = << >>
          BY <1>3, <2>1, <3>1, <3>2, <3>4 DEF Greeting
        <4> QED
          BY <1>4, <2>1, <3>3, <4>1, StreamMoves
      <3> QED
        BY <3>1, <3>2, <3>4 DEF Greeting
    <2>3. CASE <<a, b>> # d
      <3>1. sent'[<<a, b>>] = sent[<<a, b>>]
        BY <1>1, <1>3, <1>5, <2>3 DEF SyncTyped
      <3>2. greeted(<<a, b>>)' <=> greeted(<<a, b>>)
        BY <1>3, <2>3 DEF greeted
      <3> QED
        BY <1>3, <2>1, <3>1, <3>2, GreetingStays
    <2> QED
      BY <2>2, <2>3
  <1>6. BansAreOvertakings'
    BY <1>3, BansStay DEF SyncInv
  <1> QED
    BY <1>1, <1>5, <1>6 DEF SyncInv

LEMMA OpenGreeting ==
  ASSUME SyncInv, NEW d \in Dials, Open(d)
  PROVE  SyncInv'
PROOF
  <1>1. SyncTyped' /\ SyncTyped
    <2>1. [SyncNext]_sync_vars
      BY DEF SyncNext
    <2> QED
      BY <2>1, TypesStep DEF SyncInv
  <1>2. /\ conn[d] = "not yet" /\ conn' = [conn EXCEPT ![d] = "open"]
        /\ UNCHANGED <<node_vars, hello, shaken, sent, early, lowered>>
        /\ conn \in [Dials -> {"not yet", "open", "closed", "banned"}]
    BY <1>1 DEF Open, SyncTyped, SyncTypeOK
  <1>3. ASSUME NEW a \in Nodes, NEW b \in Nodes, <<a, b>> \in Pairs
        PROVE  Greeting(a, b)'
    <2>1. Greeting(a, b) /\ dial(a, b) \in Dials
      BY <1>3, Neighbours DEF SyncInv
    <2>2. greeted(<<a, b>>)' <=> greeted(<<a, b>>)
      BY <1>2 DEF greeted
    <2>3. CASE dial(a, b) # d
      BY <1>2, <2>1, <2>2, <2>3, GreetingStays
    <2>4. CASE dial(a, b) = d
      <3>1. sent'[<<a, b>>] = << >> /\ ~ greeted(<<a, b>>) /\ <<b, a>> \notin shaken
        BY <1>2, <2>1, <2>4 DEF Greeting, open
      <3>2. conn'[dial(a, b)] # "not yet"
        BY <1>2, <2>1, <2>4
      <3>3. ~ Versions(<< >>)
        BY DEF Versions
      <3> QED
        BY <1>2, <2>2, <3>1, <3>2, <3>3 DEF Greeting
    <2> QED
      BY <2>3, <2>4
  <1>4. BansAreOvertakings'
    BY <1>2, BansStay DEF SyncInv
  <1> QED
    BY <1>1, <1>3, <1>4 DEF SyncInv

\* The announcing task writes to every peer in the table, greeted or not.
LEMMA AnnounceGreeting ==
  ASSUME SyncInv, NEW n \in Nodes, Announce(n)
  PROVE  SyncInv'
PROOF
  <1>1. SyncTyped' /\ SyncTyped
    <2>1. [SyncNext]_sync_vars
      BY DEF SyncNext
    <2> QED
      BY <2>1, TypesStep DEF SyncInv
  <1>2. /\ sent' = send(sent, n, n, << >>, PeersOf(n), tip[n])
        /\ early' = overtakes(n, PeersOf(n))
        /\ UNCHANGED <<conn, hello, shaken>>
        /\ early \subseteq early'
        /\ tip[n] \in Blocks
    BY <1>1 DEF Announce, overtakes, SyncTyped
  <1>3. ASSUME NEW a \in Nodes, NEW b \in Nodes, <<a, b>> \in Pairs
        PROVE  Greeting(a, b)'
    <2>1. /\ Greeting(a, b) /\ sent[<<a, b>>] \in Seq(Message)
          /\ <<a, b>> # <<n, n>>
      BY <1>1, <1>3, Neighbours DEF SyncInv, SyncTyped
    <2>2. sent'[<<a, b>>] = IF a = n /\ b \in PeersOf(n)
                            THEN Append(sent[<<a, b>>], about("Inv", tip[n]))
                            ELSE sent[<<a, b>>]
      BY <1>2, <1>3, <2>1 DEF send
    <2>3. greeted(<<a, b>>)' <=> greeted(<<a, b>>)
      BY <1>2 DEF greeted
    <2>4. CASE a = n /\ b \in PeersOf(n)
      <3>1. open(a, b)
        BY <2>4 DEF PeersOf
      <3>2. greeted(<<a, b>>) \/ <<a, b>> \in early'
        BY <1>2, <1>3, <2>4 DEF overtakes
      <3>3. sent'[<<a, b>>] = Append(sent[<<a, b>>], about("Inv", tip[n]))
        BY <2>2, <2>4
      <3> QED
        BY <1>2, <2>1, <3>1, <3>2, <3>3, GreetingHears
    <2>5. CASE ~ (a = n /\ b \in PeersOf(n))
      BY <1>2, <2>1, <2>2, <2>3, <2>5, GreetingStays
    <2> QED
      BY <2>4, <2>5
  <1>4. BansAreOvertakings'
    BY <1>2, BansStay DEF SyncInv
  <1> QED
    BY <1>1, <1>3, <1>4 DEF SyncInv

\* A step that leaves the connections alone.
LEMMA QuietGreeting ==
  ASSUME SyncInv, SyncTyped', UNCHANGED <<conn_vars, early>>
  PROVE  SyncInv'
PROOF
  <1>1. UNCHANGED <<conn, hello, shaken, sent, early>>
    BY DEF conn_vars
  <1>2. ASSUME NEW a \in Nodes, NEW b \in Nodes, <<a, b>> \in Pairs
        PROVE  Greeting(a, b)'
    <2>1. Greeting(a, b)
      BY <1>2 DEF SyncInv
    <2>2. greeted(<<a, b>>)' <=> greeted(<<a, b>>)
      BY <1>1 DEF greeted
    <2> QED
      BY <1>1, <2>1, <2>2, GreetingStays
  <1>3. BansAreOvertakings'
    BY <1>1, BansStay DEF SyncInv
  <1> QED
    BY <1>2, <1>3 DEF SyncInv

LEMMA SyncStepInv == SyncInv /\ [SyncNext]_sync_vars => SyncInv'
PROOF
  <1> SUFFICES ASSUME SyncInv, [SyncNext]_sync_vars PROVE SyncInv'
    OBVIOUS
  <1>1. SyncTyped'
    BY TypesStep DEF SyncInv
  <1>2. ASSUME NEW d \in Dials, Open(d) PROVE SyncInv'
    BY <1>2, OpenGreeting
  <1>3. ASSUME NEW d \in Dials, Hello(d) PROVE SyncInv'
    BY <1>3, HelloGreeting
  <1>4. ASSUME NEW d \in Dials, Lose(d) PROVE SyncInv'
    <2>1. d \in Pairs /\ d = <<d[1], d[2]>> /\ dial(d[1], d[2]) = d
      BY PairParts DEF Pairs, dial
    <2>2. Ended(dial(d[1], d[2]), "closed") /\ <<d[1], d[2]>> \in Pairs
      BY <1>4, <2>1 DEF Lose
    <2> QED
      BY <2>2, EndedGreeting
  <1>5. ASSUME NEW b \in Blocks \ {Genesis}, Mine(b) PROVE SyncInv'
    BY <1>1, <1>5, QuietGreeting DEF Mine
  <1>6. ASSUME NEW n \in Nodes, Announce(n) PROVE SyncInv'
    BY <1>6, AnnounceGreeting
  <1>7. ASSUME NEW p \in Pairs, Receive(p[1], p[2]) PROVE SyncInv'
    BY <1>7, PairParts, ReceiveGreeting
  <1>8. CASE UNCHANGED sync_vars
    BY <1>1, <1>8, QuietGreeting DEF sync_vars
  <1> QED
    BY <1>2, <1>3, <1>4, <1>5, <1>6, <1>7, <1>8 DEF SyncNext

\* However messages, losses and new blocks interleave, an honest node bans an
\* honest node only if something it was sent overtook the Version: a connection is
\* in the table of peers before the greeting.
THEOREM BansStayOvertakings == SyncSpec => []BansAreOvertakings
PROOF
  <1>1. SyncInv => BansAreOvertakings
    BY DEF SyncInv
  <1> QED
    BY <1>1, SyncInitInv, SyncStepInv, PTL DEF SyncSpec

-----------------------------------------------------------------------------
(* The status a pool miner shows *)

\* Unless a start revived a thread, one thread at most is there.
Alone ==
  ~ revived => \A c, d \in Threads : at[c] # "off" /\ at[d] # "off" => c = d

\* A thread that reads, alone and not stopped, has written the status last.
Shown ==
  running /\ ~ revived => \A c \in Threads : at[c] = "read" => connected

\* The status is left by a thread that has it still to clear.
Cleared ==
  connected => \E c \in Threads : at[c] \in {"read", "join", "over"}

ClientInv == ClientTypeOK /\ Alone /\ Shown /\ Cleared

\* No thread is there.
LEMMA ClientInitInv == ClientInit => ClientInv
<1> SUFFICES ASSUME ClientInit PROVE ClientInv
  OBVIOUS
<1> USE DEF ClientInit
<1>1. \A c \in Threads : at[c] = "off"
  OBVIOUS
<1>2. ClientTypeOK
  <2>1. at \in [Threads -> {"off", "head", "dial", "read", "join", "over"}]
    OBVIOUS
  <2>2. starts \in 0..MAX_STARTS
    BY ClientAssumption, SMT DEF ClientAssumption
  <2>. QED  BY <2>1, <2>2 DEF ClientTypeOK
<1>3. Alone /\ Shown
  BY <1>1 DEF Alone, Shown
<1>4. Cleared
  BY DEF Cleared
<1>. QED  BY <1>2, <1>3, <1>4 DEF ClientInv

\* Each step of a thread, of its workers and of the user keeps the invariant.
LEMMA ClientStepInv == ClientInv /\ [ClientNext]_client_vars => ClientInv'
<1> SUFFICES ASSUME ClientInv, [ClientNext]_client_vars PROVE ClientInv'
  OBVIOUS
<1> USE ClientAssumption DEF ClientAssumption, ClientInv, ClientTypeOK, Alone, Shown, Cleared
<1>1. CASE start
  <2> PICK c \in Threads : at[c] = "off" /\ goto(c, "head")
    BY <1>1 DEF start
  <2>1. /\ starts' = starts + 1 /\ starts < MAX_STARTS /\ running' = TRUE
        /\ revived' = (revived \/ \E d \in Threads : at[d] # "off")
        /\ UNCHANGED <<connected, working>>
    BY <1>1 DEF start
  <2>2. \A d \in Threads : at'[d] = IF d = c THEN "head" ELSE at[d]
    BY DEF goto
  <2>3. ClientTypeOK'
    <3>1. starts' \in 0..MAX_STARTS
      BY <2>1
    <3>2. revived' \in BOOLEAN
      BY <2>1
    <3>3. at' \in [Threads -> {"off", "head", "dial", "read", "join", "over"}]
      BY DEF goto
    <3>4. working' \subseteq {d \in Threads : at'[d] \in {"read", "join"}}
      BY <2>1, <2>2
    <3>. QED  BY <2>1, <3>1, <3>2, <3>3, <3>4
  <2>4. Alone' /\ Shown'
    BY <2>1, <2>2
  <2>5. Cleared'
    BY <2>1, <2>2
  <2>. QED  BY <2>3, <2>4, <2>5
<1>2. CASE stop
  BY <1>2 DEF stop
<1>3. ASSUME NEW c \in Threads, ThreadStep(c) PROVE ClientInv'
  <2>1. CASE LookAtFlag(c)  BY <2>1 DEF LookAtFlag, goto
  <2>2. CASE Connect(c)  BY <2>2 DEF Connect, goto
  <2>3. CASE ConnectFails(c)  BY <2>3 DEF ConnectFails, goto
  <2>4. CASE Join(c)  BY <2>4 DEF Join, goto
  <2>5. CASE Over(c)  BY <2>5 DEF Over, goto
  <2>. QED  BY <1>3, <2>1, <2>2, <2>3, <2>4, <2>5 DEF ThreadStep
<1>4. ASSUME NEW c \in Threads, ReadLine(c) PROVE ClientInv'
  BY <1>4 DEF ReadLine, goto
<1>5. ASSUME NEW c \in Threads, EndOfStream(c) PROVE ClientInv'
  BY <1>5 DEF EndOfStream, goto
<1>6. ASSUME NEW c \in Threads, WorkersEnd(c) PROVE ClientInv'
  BY <1>6 DEF WorkersEnd
<1>7. CASE UNCHANGED client_vars
  BY <1>7 DEF client_vars
<1>. QED
  BY <1>1, <1>2, <1>3, <1>4, <1>5, <1>6, <1>7 DEF ClientNext

\* Workers never outlive the call that made them, and the variables are typed,
\* for any number of threads and starts.
THEOREM ClientTypeCorrect == ClientSpec => []ClientTypeOK
<1>1. ClientInv => ClientTypeOK  BY DEF ClientInv
<1>. QED  BY <1>1, ClientInitInv, ClientStepInv, PTL DEF ClientSpec

\* The status shown is true, whichever thread writes it last, as long as no
\* start has revived a thread; and it is never connected without a thread.
THEOREM StatusStaysTrue == ClientSpec => []StatusIsTrue
<1>1. ClientInv => StatusIsTrue
  BY DEF ClientInv, ClientTypeOK, Shown, Cleared, StatusIsTrue
<1>. QED  BY <1>1, ClientInitInv, ClientStepInv, PTL DEF ClientSpec
==============================================================================
