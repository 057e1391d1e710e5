---------------------------- MODULE MCChainState ----------------------------
(***************************************************************************)
(* A block tree small enough for TLC with the cases that matter:           *)
(*                                                                         *)
(*   g --- a1 --- a2 --- a3 --- a4      a4 comes from the future           *)
(*    \     |\     \---- o3             o3 claims more than is left        *)
(*     \    | \--- x2 --- x3            x2 spends an output its branch     *)
(*      \    \---- o2                   does not have; o2 claims too much  *)
(*       \- b1 --- b2 --- b3            b2 is worth three blocks           *)
(*           \---- s2                   s2 carries a bad signature         *)
(*                                                                         *)
(* b3 issues the coinbase of b2 again, paid by the subsidy and a fee.      *)
(* a2 and b1 spend the same output of g; b1 burns a coin; the reward       *)
(* halves at height 2 and meets the supply cap at height 3.                *)
(***************************************************************************)
EXTENDS ChainForkChoice, TLC

CONSTANTS g, a1, a2, a3, a4, b1, b2, b3, x2, x3, s2, o2, o3

MCBlocks == {g, a1, a2, a3, a4, b1, b2, b3, x2, x3, s2, o2, o3}

MCTxIds == MCBlocks \X {"cb", "pay"}

Coin(v) == [value |-> v, spendable |-> TRUE]
Burn(v) == [value |-> v, spendable |-> FALSE]

\* The coinbase of block b, with the witness commitment as last output.
Cb(b, v) ==
  [txid |-> <<b, "cb">>, coinbase |-> TRUE, inputs |-> << >>,
   outputs |-> <<Coin(v), Burn(0)>>, keyOK |-> TRUE, sigOK |-> TRUE]

\* The payment in block b that spends the outpoints ins.
Pay(b, ins, outs) ==
  [txid |-> <<b, "pay">>, coinbase |-> FALSE, inputs |-> ins,
   outputs |-> outs, keyOK |-> TRUE, sigOK |-> TRUE]

CbOut(b) == <<<<b, "cb">>, 1>>
PayOut(b, v) == <<<<b, "pay">>, v>>

MCTxs ==
  (g  :> <<Cb(g, 4)>>) @@
  (a1 :> <<Cb(a1, 4)>>) @@
  (a2 :> <<Cb(a2, 3), Pay(a2, <<CbOut(g)>>, <<Coin(2), Coin(1)>>)>>) @@
  (a3 :> <<Cb(a3, 2), Pay(a3, <<PayOut(a2, 1), CbOut(a1)>>, <<Coin(5)>>)>>) @@
  (a4 :> <<Cb(a4, 0)>>) @@
  (b1 :> <<Cb(b1, 5), Pay(b1, <<CbOut(g)>>, <<Burn(1), Coin(2)>>)>>) @@
  (b2 :> <<Cb(b2, 2), Pay(b2, <<CbOut(b1)>>, <<Coin(5)>>)>>) @@
  (b3 :> <<Cb(b2, 2), Pay(b3, <<PayOut(b1, 2)>>, <<Coin(1)>>)>>) @@
  (x2 :> <<Cb(x2, 1), Pay(x2, <<CbOut(b1)>>, <<Coin(5)>>)>>) @@
  (x3 :> <<Cb(x3, 0)>>) @@
  (s2 :> <<Cb(s2, 1), [Pay(s2, <<CbOut(b1)>>, <<Coin(5)>>)
                         EXCEPT !.sigOK = FALSE]>>) @@
  (o2 :> <<Cb(o2, 3)>>) @@
  (o3 :> <<Cb(o3, 2)>>)

H(prev, bits, ts) == [prev |-> prev, bits |-> bits, ts |-> ts, sound |-> TRUE]

MCHeader ==
  (g  :> H(NoHash, 1, 0)) @@
  (a1 :> H(g, 1, 3))  @@ (a2 :> H(a1, 1, 6)) @@
  (a3 :> H(a2, 1, 7)) @@ (a4 :> H(a3, 3, 12)) @@
  (x2 :> H(a1, 1, 4)) @@ (x3 :> H(x2, 3, 7)) @@
  (b1 :> H(g, 1, 1))  @@ (b2 :> H(b1, 3, 5)) @@ (b3 :> H(b2, 1, 8)) @@
  (s2 :> H(b1, 3, 4)) @@ (o2 :> H(a1, 1, 5)) @@ (o3 :> H(a2, 1, 9))

\* The difficulty rule, coarsely: a block that came fast makes the next one
\* three times as heavy.
MCLwma(times, bits) ==
  IF times[Len(times)] - times[Len(times) - 1] =< 1 THEN 3 ELSE 1

MCWork(bits) == bits

NoCheckpoints == << >>
=============================================================================
