----------------------------- MODULE MCMempool -----------------------------
(***************************************************************************)
(* Two threads, a pool of two, and transactions that matter to each other: *)
(*   t1 and t2 spend the same output, t2 one more and at a better rate;    *)
(*   t3 spends an output of its own;                                       *)
(*   t4 spends what t1 leaves, once the chain has confirmed t1;            *)
(*   t5 pays too little, t6 more than it has.                              *)
(***************************************************************************)
EXTENDS Mempool, TLC

CONSTANTS t1, t2, t3, t4, t5, t6, c1, c2, c3, p, q

MCTxIds == {t1, t2, t3, t4, t5, t6, c1, c2, c3}

Coin(v) == [value |-> v, spendable |-> TRUE]

Pay(id, ins, outs) ==
  [txid |-> id, coinbase |-> FALSE, inputs |-> ins, outputs |-> outs,
   keyOK |-> TRUE, sigOK |-> TRUE]

MCOffered ==
  {Pay(t1, <<<<c1, 1>>>>, <<Coin(3)>>),
   Pay(t2, <<<<c1, 1>>, <<c2, 1>>>>, <<Coin(4), Coin(2)>>),
   Pay(t3, <<<<c3, 1>>>>, <<Coin(4)>>),
   Pay(t4, <<<<t1, 1>>>>, <<Coin(1)>>),
   Pay(t5, <<<<c2, 1>>>>, <<Coin(5)>>),
   Pay(t6, <<<<c3, 1>>>>, <<Coin(6)>>)}

\* Before and after the chain confirms t1.
MCUtxos ==
  LET start == [o \in {<<c1, 1>>, <<c2, 1>>, <<c3, 1>>} |-> Coin(5)]
  IN  {start,
       Insert(Restrict(start, DOMAIN start \ {<<c1, 1>>}),
              <<t1, 1>>, Coin(3))}

MCSize == [id \in MCTxIds |-> IF id = t3 THEN 1 ELSE 2]

MCThreads == {p, q}

AnyThread == Permutations(MCThreads)
=============================================================================
