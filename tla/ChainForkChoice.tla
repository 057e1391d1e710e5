--------------------------- MODULE ChainForkChoice ---------------------------
(***************************************************************************)
(* ChainState implements HeaviestChain: what a node knows is its index,    *)
(* what it follows is its tip.  Work and validity are defined here from    *)
(* the blocks alone, along their prev_hash links, without the index, the   *)
(* ledger or the marks the node keeps.                                     *)
(***************************************************************************)
EXTENDS ChainState

\* The hash of a block covers its prev_hash, so that no block descends from
\* itself: among any blocks there is one whose parent is not among them.
ASSUME AcyclicAssumption ==
  \A S \in SUBSET Blocks : S # {} => \E b \in S : Header[b].prev \notin S

\* A txid hashes the transaction without signatures and public keys: where two
\* are equal, so are the inputs and the outputs.
ASSUME TxidAssumption ==
  \A a, b \in Blocks : \A i \in DOMAIN Txs[a], j \in DOMAIN Txs[b] :
     Txs[a][i].txid = Txs[b][j].txid
       => /\ Txs[a][i].coinbase = Txs[b][j].coinbase
          /\ Txs[a][i].inputs = Txs[b][j].inputs
          /\ Txs[a][i].outputs = Txs[b][j].outputs

\* The one input of a coinbase names no output (is_coinbase), so none is listed.
ASSUME CoinbaseAssumption ==
  \A b \in Blocks : \A i \in DOMAIN Txs[b] :
     Txs[b][i].coinbase => Txs[b][i].inputs = << >>

\* The work of a branch, from the difficulty its blocks claim.
BranchWork[b \in Blocks] ==
  work_from_bits(Header[b].bits)
    + IF Header[b].prev \in Blocks THEN BranchWork[Header[b].prev] ELSE 0

BranchHeight[b \in Blocks] ==
  IF Header[b].prev \in Blocks THEN BranchHeight[Header[b].prev] + 1 ELSE 0

\* The ledger at the end of a branch, Invalid when a block of it breaks a rule.
BranchLedger[b \in Blocks] ==
  LET before == IF Header[b].prev \in Blocks THEN BranchLedger[Header[b].prev]
                                             ELSE EmptyLedger
  IN  IF before = Invalid THEN Invalid
      ELSE IF validate_txs(before, Txs[b], BranchHeight[b], TRUE)
           THEN apply_txs(before, Txs[b], BranchHeight[b])
           ELSE Invalid

\* Two coinbases of different heights may share a txid.  The coinbase map is then
\* rebuilt with the lower height and kept with the higher one, which no rule
\* tells apart as long as the maturity is 0, as in consensus.rs.
ASSUME MaturityAssumption ==
  \/ COINBASE_MATURITY = 0
  \/ \A a, b \in Blocks :
        coinbase_outputs(a) \cap coinbase_outputs(b) # {}
          => BranchHeight[a] = BranchHeight[b]

ForkChoice == INSTANCE HeaviestChain WITH
  Parent <- [b \in Blocks |-> Header[b].prev],
  Work   <- BranchWork,
  Valid  <- {b \in Blocks : BranchLedger[b] # Invalid},
  known  <- DOMAIN index,
  best   <- tip

\* The node's fork choice is the promised one: every step of accept_block and
\* apply_block learns one block and moves to it exactly when it is valid and
\* strictly heavier; a clock tick or a reopening changes nothing.
ImplementsHeaviestChain == ForkChoice!Spec
=============================================================================
