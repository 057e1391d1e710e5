------------------------------- MODULE Ledger -------------------------------
(***************************************************************************)
(* The money rules of ThoCoin: what a block's transactions must satisfy    *)
(* (validate_txs), what they do to the unspent outputs, to the coinbase    *)
(* map and to the supply (apply_txs), and how much a coinbase may claim    *)
(* (block_reward).  Pure operators, no state: ChainState and the mining    *)
(* modules apply them.                                                     *)
(*                                                                         *)
(* A transaction is a record.  Its txid is a value of TxIds; the script    *)
(* and the signature bytes are reduced to what the code asks of them:      *)
(*   keyOK   the public key of every input hashes to the script it spends  *)
(*   sigOK   every input's signature verifies                              *)
(*   spendable  (of an output) its script does not start with OP_RETURN    *)
(* The one pseudo input of a coinbase is left out: inputs = << >>.         *)
(***************************************************************************)
EXTENDS Integers, Sequences, FiniteSets, Functions

CONSTANTS
  TxIds,               \* transaction hashes
  INITIAL_REWARD,      \* subsidy of the first HALVING_INTERVAL blocks
  HALVING_INTERVAL,    \* blocks between two halvings
  MAX_SUPPLY,          \* issuance stops here
  COINBASE_MATURITY,   \* blocks a coinbase output must wait
  U64_MAX              \* largest u64: checked_add fails above it

ASSUME LedgerAssumption ==
  /\ INITIAL_REWARD \in Nat
  /\ HALVING_INTERVAL \in Nat \ {0}
  /\ MAX_SUPPLY \in Nat
  /\ COINBASE_MATURITY \in Nat
  /\ U64_MAX \in Nat
  /\ MAX_SUPPLY =< U64_MAX

OutPoint == TxIds \X (Nat \ {0})

TxOut == [value : Nat, spendable : BOOLEAN]

Transaction ==
  [txid : TxIds, coinbase : BOOLEAN, inputs : Seq(OutPoint),
   outputs : Seq(TxOut), keyOK : BOOLEAN, sigOK : BOOLEAN]

\* f is a function from part of S to T: a HashMap with keys in S, values in T.
IsMap(f, S, T) ==
  /\ f = [x \in DOMAIN f |-> f[x]]
  /\ DOMAIN f \subseteq S
  /\ \A x \in DOMAIN f : f[x] \in T

\* HashMap::insert of one pair, and of every pair of new.
Insert(map, k, v) ==
  [x \in DOMAIN map \cup {k} |-> IF x = k THEN v ELSE map[x]]

InsertAll(map, new) ==
  [x \in DOMAIN map \cup DOMAIN new |->
     IF x \in DOMAIN new THEN new[x] ELSE map[x]]

-----------------------------------------------------------------------------
(* Arithmetic *)

Total(s) ==
  LET upTo[i \in 0..Len(s)] == IF i = 0 THEN 0 ELSE upTo[i - 1] + s[i]
  IN  upTo[Len(s)]

\* INITIAL_REWARD >> n, one halving at a time, for the shifts the code allows.
Subsidy ==
  LET halved[n \in 0..63] ==
        IF n = 0 THEN INITIAL_REWARD ELSE halved[n - 1] \div 2
  IN  halved

\* Mutant of block_reward: no cap by what is left to issue.
block_reward_uncapped(height, supply) ==
  IF supply >= MAX_SUPPLY \/ height \div HALVING_INTERVAL >= 64
  THEN 0
  ELSE Subsidy[height \div HALVING_INTERVAL]

block_reward(height, supply) ==
  IF supply >= MAX_SUPPLY \/ height \div HALVING_INTERVAL >= 64
  THEN 0
  ELSE LET reward    == Subsidy[height \div HALVING_INTERVAL]
           remaining == MAX_SUPPLY - supply
       IN  IF reward =< remaining THEN reward ELSE remaining

-----------------------------------------------------------------------------
(* A ledger is the state a chain of blocks leaves behind. *)

EmptyLedger == [utxo |-> << >>, cb |-> << >>, supply |-> 0]

OutputTotal(tx) == Total([i \in DOMAIN tx.outputs |-> tx.outputs[i].value])

InputTotal(utxo, tx) ==
  Total([i \in DOMAIN tx.inputs |-> utxo[tx.inputs[i]].value])

\* Mutant of Created: every output enters.
created_with_op_return(tx) == {<<tx.txid, v>> : v \in DOMAIN tx.outputs}

\* The outpoints of tx that enter the UTXO set: OP_RETURN outputs do not.
Created(tx) ==
  {<<tx.txid, v>> : v \in {w \in DOMAIN tx.outputs : tx.outputs[w].spendable}}

matured(cb, o, height) ==
  o \in DOMAIN cb => height >= cb[o] + COINBASE_MATURITY

\* The checks of one transaction that is not a coinbase.
tx_valid(ledger, tx, height, check_sigs) ==
  /\ tx.inputs # << >>
  /\ \A i, j \in DOMAIN tx.inputs : tx.inputs[i] = tx.inputs[j] => i = j
  /\ \A i \in DOMAIN tx.inputs :
        /\ tx.inputs[i] \in DOMAIN ledger.utxo
        /\ matured(ledger.cb, tx.inputs[i], height)
  /\ tx.keyOK
  /\ check_sigs => tx.sigOK
  /\ InputTotal(ledger.utxo, tx) =< U64_MAX
  /\ OutputTotal(tx) =< InputTotal(ledger.utxo, tx)

Fees(utxo, txs) ==
  Total([i \in DOMAIN txs |->
           IF txs[i].coinbase THEN 0
           ELSE InputTotal(utxo, txs[i]) - OutputTotal(txs[i])])

\* Every input is looked up in the UTXO set as it was before the block.
validate_txs(ledger, txs, height, check_sigs) ==
  LET fees == Fees(ledger.utxo, txs)
  IN  /\ txs # << >>
      /\ \A i \in DOMAIN txs : txs[i].coinbase <=> i = 1
      /\ \A i \in DOMAIN txs \ {1} :
            tx_valid(ledger, txs[i], height, check_sigs)
      /\ \A i, j \in DOMAIN txs \ {1} :
            i # j => Range(txs[i].inputs) \cap Range(txs[j].inputs) = {}
      /\ block_reward(height, ledger.supply) + fees =< U64_MAX
      /\ OutputTotal(txs[1]) =< block_reward(height, ledger.supply) + fees

\* A transaction's inputs leave both maps, then its outputs enter: the loop
\* body that connect_tip and apply_txs both spell out.
apply_tx(ledger, tx, height) ==
  LET created  == Created(tx)
      kept(m)  == Restrict(m, DOMAIN m \ Range(tx.inputs))
  IN  [ledger EXCEPT
         !.utxo = InsertAll(kept(@), [o \in created |-> tx.outputs[o[2]]]),
         !.cb   = IF tx.coinbase
                  THEN InsertAll(kept(@), [o \in created |-> height])
                  ELSE kept(@)]

apply_each(ledger, txs, height) ==
  LET after[i \in 0..Len(txs)] ==
        IF i = 0 THEN ledger ELSE apply_tx(after[i - 1], txs[i], height)
  IN  after[Len(txs)]

\* The supply after a block: what the coinbase claims, less the fees it
\* collects, never below zero.
issue(supply, cb_out, fees) ==
  IF supply + cb_out - fees > 0 THEN supply + cb_out - fees ELSE 0

apply_txs(ledger, txs, height) ==
  [apply_each(ledger, txs, height) EXCEPT
     !.supply = issue(ledger.supply, OutputTotal(txs[1]),
                      Fees(ledger.utxo, txs))]

=============================================================================
