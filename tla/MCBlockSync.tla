---------------------------- MODULE MCBlockSync -----------------------------
(***************************************************************************)
(* Three nodes in a line, A - B - C, and a tree of blocks.                 *)
(*                                                                         *)
(*   g --- a1 --- a2     A has these two when the nodes meet.              *)
(*    \                                                                    *)
(*     c1 --- b2         C may mine c1, which is worth three blocks, and B *)
(*                       b2 on top of it.                                  *)
(***************************************************************************)
EXTENDS BlockSync, TLC

CONSTANTS A, B, C, g, a1, a2, b2, c1

Line == {<<B, A>>, <<C, B>>}

Tree == (a1 :> g) @@ (a2 :> a1) @@ (c1 :> g) @@ (b2 :> c1)

HeavyC == [[b \in {g, a1, a2, b2, c1} |-> 1] EXCEPT ![c1] = 3]

Authors == (a1 :> A) @@ (a2 :> A) @@ (b2 :> B) @@ (c1 :> C)

OneEach == [b \in {g, a1, a2, b2, c1} |-> 1]

\* B and C hold c1 when they meet A.
Forked == (A :> {g, a1, a2}) @@ (B :> {g, c1}) @@ (C :> {g, c1})

AAhead == (A :> {g, a1, a2}) @@ (B :> {g}) @@ (C :> {g})
=============================================================================
