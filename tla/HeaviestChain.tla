---------------------------- MODULE HeaviestChain ----------------------------
(***************************************************************************)
(* What a node promises about fork choice, with no ledger, no index and no *)
(* order of arrival: it learns blocks, each after its parent, and follows  *)
(* the valid one that has the most work, the first it learned among        *)
(* equals.                                                                 *)
(***************************************************************************)
EXTENDS Integers

CONSTANTS
  Blocks,
  Genesis,
  Parent,    \* Parent[b]: the block b builds on
  Work,      \* Work[b]: the work of the whole branch that ends with b
  Valid      \* the blocks whose whole branch obeys the rules

VARIABLES
  known,     \* the blocks learned so far
  best       \* the block the node follows

Init == known = {Genesis} /\ best = Genesis

Learn(b) ==
  /\ b \notin known
  /\ Parent[b] \in known
  /\ known' = known \cup {b}
  /\ best' = IF b \in Valid /\ Work[b] > Work[best] THEN b ELSE best

Next == \E b \in Blocks : Learn(b)

Spec == Init /\ [][Next]_<<known, best>>
=============================================================================
