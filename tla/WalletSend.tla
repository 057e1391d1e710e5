----------------------------- MODULE WalletSend -----------------------------
(***************************************************************************)
(* How a payment is put together (wallet/mod.rs, send): coins are taken    *)
(* largest first, and the fee is raised until it pays for the size of the  *)
(* transaction it leads to.  Inputs and outputs have fixed sizes, so the   *)
(* least fee is a sum over them.  A coin is its value and what names it.   *)
(***************************************************************************)
EXTENDS Naturals, FiniteSets, Functions

CONSTANTS
  FEE_BASE, FEE_IN, FEE_OUT,    \* the least fee: base, per input, per output
  ROUNDS                        \* how often the fee may be raised

ASSUME SendAssumption ==
  /\ FEE_BASE \in Nat \ {0} /\ {FEE_IN, FEE_OUT} \subseteq Nat
  /\ ROUNDS \in Nat \ {0}

min_fee(ins, outs) == FEE_BASE + FEE_IN * ins + FEE_OUT * outs

total(coins) == SumFunctionOnSet([c \in coins |-> c.value], coins)

\* What taking coins largest first until there is enough can come to: coins of
\* one value come in any order.
selections(coins, need) ==
  {S \in SUBSET coins :
     /\ total(S) >= need
     /\ \A c \in S : \A d \in coins \ S : d.value =< c.value
     /\ \E c \in S : /\ total(S \ {c}) < need
                    /\ \A d \in S : c.value =< d.value}

\* The least fee of the transaction that a fee leads to; 0 if funds are short.
fee_for(coins, amount, fee) ==
  IF total(coins) < amount + fee THEN 0
  ELSE LET S == CHOOSE S \in selections(coins, amount + fee) : TRUE
       IN  min_fee(Cardinality(S), IF total(S) > amount + fee THEN 2 ELSE 1)

\* Mutant of final_fee: the fee is raised once and then taken as it is.
raised_once(coins, amount, floor) ==
  LET fee == IF floor > 1 THEN floor ELSE 1
      more == fee_for(coins, amount, fee)
  IN  IF more > fee THEN more ELSE fee

\* The fee after the last round, each of which raises it if it falls short.
final_fee(coins, amount, floor) ==
  LET fee[i \in 0..ROUNDS] ==
        IF i = 0 THEN IF floor > 1 THEN floor ELSE 1
        ELSE LET before == fee[i - 1]
                 more == fee_for(coins, amount, before)
             IN  IF more > before THEN more ELSE before
  IN  fee[ROUNDS - 1]

Payment(S, amount, fee) ==
  [ins |-> S, amount |-> amount, fee |-> fee, change |-> total(S) - amount - fee]

\* The transactions send may return; none when it fails.
send(coins, amount, floor) ==
  LET fee == final_fee(coins, amount, floor) IN
  {Payment(S, amount, fee) :
     S \in {T \in selections(coins, amount + fee) :
              fee >= fee_for(coins, amount, fee)}}

outputs(p) == IF p.change > 0 THEN 2 ELSE 1

\* Nothing is lost between inputs and outputs, the fee is one the mempool takes,
\* and it is not above the floor or the least fee with change.
sound(p, floor) ==
  LET n == Cardinality(p.ins) IN
  /\ total(p.ins) = p.amount + p.change + p.fee
  /\ p.fee >= min_fee(n, outputs(p))
  /\ p.fee > floor => p.fee =< min_fee(n, 2)

\* When send finds nothing, no choice of the largest coins would have paid.
complete(coins, amount, floor) ==
  send(coins, amount, floor) = {} =>
    \A S \in SUBSET coins :
      (\A c \in S : \A d \in coins \ S : d.value =< c.value) =>
        total(S) < amount + floor \/ total(S) < amount + min_fee(Cardinality(S), 2)
=============================================================================
