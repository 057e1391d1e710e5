----------------------------- MODULE BlockSync ------------------------------
(***************************************************************************)
(* How nodes learn blocks from each other (net/mod.rs): the handshake, the *)
(* announcements of new tips, and the requests for blocks.  A connection   *)
(* is a pair of TCP streams: in each direction the messages arrive in the  *)
(* order they were sent, until the connection ends and takes the rest with *)
(* it.  No task of the program dials again.                                *)
(*                                                                         *)
(* A node's chain is reduced to the blocks it has and its tip, which       *)
(* accept_block moves as HeaviestChain says.  All blocks here are valid.   *)
(* Transactions travel by the same messages and are left out, as are       *)
(* Verack, GetAddr, Addr and Ping, which change nothing a block depends    *)
(* on.  A handler is one step: what another connection's task changes      *)
(* while it runs, it changes before or after.                              *)
(***************************************************************************)
EXTENDS Naturals, FiniteSets, Sequences, SequencesExt

CONSTANTS
  Nodes,
  Dials,            \* <<a, b>>: node a dials node b
  Blocks, Genesis,
  Parent,           \* Parent[b] of every block but the genesis block
  Weight,           \* Weight[b]: the work of block b alone
  Author,           \* Author[b]: the node that may mine b
  Before,           \* Before[n]: the blocks n has when the model begins
  MAX_SYNC_BATCH

Pairs == Dials \cup {<<d[2], d[1]>> : d \in Dials}

ASSUME SyncAssumption ==
  /\ Dials \subseteq Nodes \X Nodes
  /\ \A d \in Dials : d[1] # d[2] /\ <<d[2], d[1]>> \notin Dials
  /\ IsFiniteSet(Blocks) /\ Genesis \in Blocks
  /\ Parent \in [Blocks \ {Genesis} -> Blocks]
  /\ Weight \in [Blocks -> Nat \ {0}]
  /\ Author \in [Blocks \ {Genesis} -> Nodes]
  /\ Before \in [Nodes -> SUBSET Blocks]
  /\ \A n \in Nodes : Genesis \in Before[n]
  /\ MAX_SYNC_BATCH \in Nat \ {0}

VARIABLES
  known,       \* the blocks in each node's index
  tip,
  last,        \* the height the announcing task saw last
  conn,        \* each dial: not made yet, open, closed, or closed by a ban
  hello,       \* the dials whose dialling side has sent its Version
  shaken,      \* <<a, b>>: a has b's Version
  sent,        \* the messages on their way from a to b
  early,       \* history: a sent b something before its Version
  lowered      \* history: a reorg took the node to no greater height

node_vars == <<known, tip, last>>
conn_vars == <<conn, hello, shaken, sent>>
sync_vars == <<node_vars, conn_vars, early, lowered>>

-----------------------------------------------------------------------------
(* The tree of blocks *)

\* The branch of each block: the genesis block first, the block itself last.
Branch ==
  [b \in Blocks |->
     LET up[n \in 0..Cardinality(Blocks)] ==
           IF n = 0 THEN <<b>>
           ELSE IF up[n - 1][1] = Genesis THEN up[n - 1]
           ELSE <<Parent[up[n - 1][1]]>> \o up[n - 1]
     IN  up[Cardinality(Blocks)]]

Height == [b \in Blocks |-> Len(Branch[b]) - 1]

Work ==
  [b \in Blocks |->
     LET upTo[i \in 0..Len(Branch[b])] ==
           IF i = 0 THEN 0 ELSE upTo[i - 1] + Weight[Branch[b][i]]
     IN  upTo[Len(Branch[b])]]

heaviest(S) == CHOOSE b \in S : \A c \in S : Work[c] =< Work[b]

\* block_at
block_at(n, h) == Branch[tip[n]][h + 1]

-----------------------------------------------------------------------------
(* Messages *)

Message == [type : {"Version"}, height : Nat]
           \cup [type : {"GetBlocks"}, from : Nat]
           \cup [type : {"Inv", "GetData", "Block"}, block : Blocks]

Version(n) == [type |-> "Version", height |-> Height[tip[n]]]

\* The request for what lies above a tip.
GetBlocksAbove(b) == [type |-> "GetBlocks", from |-> Height[b] + 1]

about(t, b) == [type |-> t, block |-> b]

dial(a, b) == IF <<a, b>> \in Dials THEN <<a, b>> ELSE <<b, a>>

open(a, b) == conn[dial(a, b)] = "open"

PeersOf(n) == {m \in Nodes : <<n, m>> \in Pairs /\ open(n, m)}

\* The answers of n to m, and an announcement to every peer in S.
send(q, n, m, answers, S, b) ==
  [p \in Pairs |->
     IF p = <<n, m>> THEN q[p] \o answers
     ELSE IF p[1] = n /\ p[2] \in S THEN Append(q[p], about("Inv", b))
     ELSE q[p]]

\* p[1] has sent its Version to p[2]: the side that was dialled answers with it.
greeted(p) == IF p \in Dials THEN p \in hello ELSE p \in shaken

\* broadcast_inv reaches every peer in the table, greeted or not.
overtakes(n, S) ==
  early \cup {p \in Pairs : p[1] = n /\ p[2] \in S /\ ~ greeted(p)}

-----------------------------------------------------------------------------
(* Connections *)

\* The TCP connection is up; both sides enter run_peer and their table of peers.
Open(d) ==
  /\ conn[d] = "not yet"
  /\ conn' = [conn EXCEPT ![d] = "open"]
  /\ UNCHANGED <<node_vars, hello, shaken, sent, early, lowered>>

\* The side that dialled sends its Version.
Hello(d) ==
  /\ conn[d] = "open" /\ d \notin hello
  /\ hello' = hello \cup {d}
  /\ sent' = [sent EXCEPT ![d] = Append(@, Version(d[1]))]
  /\ UNCHANGED <<node_vars, conn, shaken, early, lowered>>

Ended(d, how) ==
  /\ conn' = [conn EXCEPT ![d] = how]
  /\ sent' = [p \in Pairs |-> IF dial(p[1], p[2]) = d THEN << >> ELSE sent[p]]
  /\ UNCHANGED <<node_vars, hello, shaken, early, lowered>>

\* A reset, or two timeouts of 150 seconds.
Lose(d) == conn[d] = "open" /\ Ended(d, "closed")

\* Mutant of Mine: the tip is moved and the block not stored.
MineUnstored(b) ==
  LET n == Author[b] IN
  /\ b \notin known[n]
  /\ Parent[b] = tip[n]
  /\ tip' = [tip EXCEPT ![n] = b]
  /\ UNCHANGED <<known, last, conn_vars, early, lowered>>

\* Node n mines b, which apply_block connects.
Mine(b) ==
  LET n == Author[b] IN
  /\ b \notin known[n]
  /\ Parent[b] = tip[n]
  /\ known' = [known EXCEPT ![n] = @ \cup {b}]
  /\ tip' = [tip EXCEPT ![n] = b]
  /\ UNCHANGED <<last, conn_vars, early, lowered>>

\* The task that wakes every second.
Announce(n) ==
  /\ Height[tip[n]] > last[n]
  /\ last' = [last EXCEPT ![n] = Height[tip[n]]]
  /\ sent' = send(sent, n, n, << >>, PeersOf(n), tip[n])
  /\ early' = overtakes(n, PeersOf(n))
  /\ UNCHANGED <<known, tip, conn, hello, shaken, lowered>>

-----------------------------------------------------------------------------
(* The messages of peer m, handled by node n *)

\* The message m has on its way to n, taken off.
taken(m, n) == [sent EXCEPT ![<<m, n>>] = Tail(@)]

reply(m, n, answers) == sent' = send(taken(m, n), n, m, answers, {}, Genesis)

\* Mutant of greeting: blocks are asked for before the Version.
greeting_late(m, n, height) ==
  (IF height > Height[tip[n]] THEN <<GetBlocksAbove(tip[n])>> ELSE << >>) \o
  (IF <<n, m>> \in Dials THEN << >> ELSE <<Version(n)>>)

\* What n answers to m's Version, which names m's height.
greeting(m, n, height) ==
  (IF <<n, m>> \in Dials THEN << >> ELSE <<Version(n)>>) \o
  (IF height > Height[tip[n]] THEN <<GetBlocksAbove(tip[n])>> ELSE << >>)

\* The first message: anything but a Version bans the peer.
Greet(m, n) ==
  LET msg == Head(sent[<<m, n>>]) IN
  /\ <<n, m>> \notin shaken
  /\ IF msg.type # "Version"
     THEN Ended(dial(n, m), "banned")
     ELSE /\ shaken' = shaken \cup {<<n, m>>}
          /\ reply(m, n, greeting(m, n, msg.height))
          /\ UNCHANGED <<node_vars, conn, hello, early, lowered>>

\* Mutant of BlocksFrom: the batch stops one block below the tip.
BlocksBelowTip(n, from) ==
  LET top == Height[tip[n]] - 1
      end == IF from + MAX_SYNC_BATCH - 1 < top
             THEN from + MAX_SYNC_BATCH - 1 ELSE top
  IN  [i \in 1..(IF end < from THEN 0 ELSE end - from + 1) |->
         about("Block", block_at(n, from + i - 1))]

\* The blocks of the active chain from a height up, one batch of them.
BlocksFrom(n, from) ==
  LET top == Height[tip[n]]
      end == IF from + MAX_SYNC_BATCH - 1 < top
             THEN from + MAX_SYNC_BATCH - 1 ELSE top
  IN  [i \in 1..(IF end < from THEN 0 ELSE end - from + 1) |->
         about("Block", block_at(n, from + i - 1))]

Answer(m, n) ==
  LET msg == Head(sent[<<m, n>>]) IN
  /\ <<n, m>> \in shaken
  /\ msg.type # "Block"
  /\ reply(m, n,
       CASE msg.type = "Version" -> << >>
         [] msg.type = "GetBlocks" -> BlocksFrom(n, msg.from)
         [] msg.type = "Inv" -> IF msg.block \in known[n] THEN << >>
                                ELSE <<about("GetData", msg.block)>>
         [] msg.type = "GetData" -> IF msg.block \in known[n]
                                    THEN <<about("Block", msg.block)>>
                                    ELSE << >>)
  /\ UNCHANGED <<node_vars, conn, hello, shaken, early, lowered>>

\* Mutant of repeated: the sync goes on from that block, and gets it again.
repeated_again(b) == <<[type |-> "GetBlocks", from |-> Height[b]]>>

\* What a block the node has already is answered with.
repeated(b) == << >>

\* accept_block stores a block unless it is known or its parent is not, and moves
\* to it if it makes the heavier branch.
TakeBlock(m, n) ==
  LET b == Head(sent[<<m, n>>]).block IN
  /\ <<n, m>> \in shaken
  /\ Head(sent[<<m, n>>]).type = "Block"
  /\ \/ /\ b \in known[n]
        /\ reply(m, n, repeated(b))
        /\ UNCHANGED <<known, tip, early, lowered>>
     \/ /\ b \notin known[n] /\ Parent[b] \notin known[n]
        /\ reply(m, n, <<GetBlocksAbove(tip[n])>>)
        /\ UNCHANGED <<known, tip, early, lowered>>
     \/ /\ b \notin known[n] /\ Parent[b] \in known[n]
        /\ known' = [known EXCEPT ![n] = @ \cup {b}]
        /\ Work[b] =< Work[tip[n]]
        /\ reply(m, n, << >>)
        /\ UNCHANGED <<tip, early, lowered>>
     \/ /\ b \notin known[n] /\ Parent[b] \in known[n]
        /\ known' = [known EXCEPT ![n] = @ \cup {b}]
        /\ Work[b] > Work[tip[n]]
        /\ tip' = [tip EXCEPT ![n] = b]
        /\ lowered' = IF Height[b] =< Height[tip[n]] THEN lowered \cup {n}
                      ELSE lowered
        /\ sent' = send(taken(m, n), n, m, <<GetBlocksAbove(b)>>,
                        PeersOf(n) \ {m}, b)
        /\ early' = overtakes(n, PeersOf(n) \ {m})
  /\ UNCHANGED <<last, conn, hello, shaken>>

Receive(m, n) ==
  /\ sent[<<m, n>>] # << >>
  /\ Greet(m, n) \/ Answer(m, n) \/ TakeBlock(m, n)

-----------------------------------------------------------------------------

SyncInit ==
  /\ known = Before
  /\ tip = [n \in Nodes |-> heaviest(Before[n])]
  /\ last = [n \in Nodes |-> Height[heaviest(Before[n])]]
  /\ conn = [d \in Dials |-> "not yet"]
  /\ hello = {}
  /\ shaken = {}
  /\ sent = [p \in Pairs |-> << >>]
  /\ early = {}
  /\ lowered = {}

SyncNext ==
  \/ \E d \in Dials : Open(d) \/ Hello(d) \/ Lose(d)
  \/ \E b \in Blocks \ {Genesis} : Mine(b)
  \/ \E n \in Nodes : Announce(n)
  \/ \E p \in Pairs : Receive(p[1], p[2])

\* Tasks run: what was sent is read, and the announcing task wakes.  Nothing is
\* assumed of the miners, of the dials or of how long a connection lasts.
SyncFairness ==
  /\ \A d \in Dials : WF_sync_vars(Hello(d))
  /\ \A n \in Nodes : WF_sync_vars(Announce(n))
  /\ \A p \in Pairs : WF_sync_vars(Receive(p[1], p[2]))

SyncSpec == SyncInit /\ [][SyncNext]_sync_vars /\ SyncFairness

-----------------------------------------------------------------------------
(* Properties *)

\* The variables hold what their comments say.
SyncTypeOK ==
  /\ known \in [Nodes -> SUBSET Blocks]
  /\ \A n \in Nodes : tip[n] \in known[n]
  /\ last \in [Nodes -> Nat]
  /\ conn \in [Dials -> {"not yet", "open", "closed", "banned"}]
  /\ hello \subseteq Dials
  /\ shaken \subseteq Pairs
  /\ \A p \in Pairs : sent[p] \in Seq(Message)
  /\ early \subseteq Pairs
  /\ lowered \subseteq Nodes

\* The tips of two nodes lie on one branch.
aligned(a, b) == \/ tip[a] \in Range(Branch[tip[b]])
                 \/ tip[b] \in Range(Branch[tip[a]])

\* Honest nodes ban each other in one way only: run_peer puts a peer in the
\* table before the greeting, so that an announcement may overtake the Version
\* (net/mod.rs:187, 104 and 247).
BansAreOvertakings ==
  \A d \in Dials : conn[d] = "banned" =>
                     d \in early \/ <<d[2], d[1]>> \in early

\* A reorg left n at a height its announcing task takes for an old one.
unheard(n) == n \in lowered /\ Height[tip[n]] =< last[n]

\* Two nodes that stay connected come to tips of equal work.  What excuses them
\* is a fork between their tips, and a tip that is not announced because a
\* reorg went to no greater height before (net/mod.rs:131).
NeighboursAgree ==
  \A d \in Dials :
    <>[](\/ conn[d] # "open"
         \/ Work[tip[d[1]]] = Work[tip[d[2]]]
         \/ ~ aligned(d[1], d[2])
         \/ unheard(d[1]) \/ unheard(d[2]))

\* The answers to answers come to an end: blocks that were asked for many times
\* over are not asked for again.  A fork excuses this too.
TrafficEnds ==
  \A d \in Dials :
    <>[](\/ sent[d] = << >> /\ sent[<<d[2], d[1]>>] = << >>
         \/ ~ aligned(d[1], d[2]))

\* Stated by README.md (cumulative chainwork with heaviest-chain fork choice and
\* reorg): two nodes that stay connected come to tips of equal work.
NeighboursFollowTheHeaviest ==
  \A d \in Dials :
    <>[](conn[d] # "open" \/ Work[tip[d[1]]] = Work[tip[d[2]]])
=============================================================================
