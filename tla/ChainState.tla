----------------------------- MODULE ChainState -----------------------------
(***************************************************************************)
(* The chain state of a ThoCoin node (core/chain.rs): the block index, the *)
(* active chain with its UTXO set, and the operations that change them.    *)
(* Every operation runs under apply_lock, so each is one action here; what *)
(* readers see between two writes of one operation, and what a crash       *)
(* leaves on disk, belong to other modules.                                *)
(*                                                                         *)
(* Blocks are model values, which makes block hashes injective; what a     *)
(* block holds is given by the constants Header and Txs.  block_store has  *)
(* no variable of its own: store_block_meta inserts a body and its index   *)
(* entry together, so its keys are DOMAIN index.                           *)
(***************************************************************************)
EXTENDS Ledger

CONSTANTS
  Blocks,            \* every block any peer, miner or pool may present
  Genesis,           \* the pinned genesis block
  NoHash,            \* [0u8; 32], the genesis block's prev_hash
  Header,            \* Header[b]: prev, bits, ts, and whether b is sound
  Txs,               \* Txs[b]: the transactions of b, in order
  Bits,              \* compact difficulties
  GENESIS_BITS,
  LWMA_WINDOW,       \* blocks the difficulty rule looks back
  MTP_SPAN,          \* ancestors whose median time bounds a timestamp (11)
  FUTURE_LIMIT,      \* how far ahead of the clock a timestamp may be (2 h)
  Checkpoints,       \* CHECKPOINTS: a map from heights to blocks
  MAX_NOW,           \* bound of the model: the last second of the clock
  lwma_next_bits(_, _),
  work_from_bits(_)

ASSUME ChainAssumption ==
  /\ Genesis \in Blocks
  /\ NoHash \notin Blocks
  /\ Header \in [Blocks -> [prev : Blocks \cup {NoHash}, bits : Bits,
                            ts : Nat, sound : BOOLEAN]]
  /\ Header[Genesis].prev = NoHash
  /\ Txs \in [Blocks -> Seq(Transaction)]
  /\ \A b \in Bits : work_from_bits(b) \in Nat \ {0}
  /\ LWMA_WINDOW \in Nat \ {0}
  /\ MTP_SPAN \in Nat \ {0}
  /\ FUTURE_LIMIT \in Nat
  /\ MAX_NOW \in Nat
  /\ IsMap(Checkpoints, Nat, Blocks)

\* connect_genesis validates the genesis block against an empty ledger.
ASSUME GenesisAssumption ==
  /\ Header[Genesis].sound
  /\ validate_txs(EmptyLedger, Txs[Genesis], 0, TRUE)

VARIABLES
  utxo,          \* unspent outputs: OutPoint -> TxOut
  coinbase_at,   \* coinbase outputs: OutPoint -> height
  supply,
  tip,
  height,
  tip_work,
  index,         \* every stored block: its prev, height, work, ts, bits
  headers,       \* the active chain: block -> height
  height_index,  \* the active chain: height -> block
  validated,     \* blocks whose signatures need no second check
  now            \* the clock, in seconds

ledger_vars == <<utxo, coinbase_at, supply>>
tip_vars    == <<tip, height, tip_work, headers, height_index>>
vars        == <<ledger_vars, tip_vars, index, validated, now>>

ledger == [utxo |-> utxo, cb |-> coinbase_at, supply |-> supply]

Idx == [prev : Blocks \cup {NoHash}, height : Nat, work : Nat, ts : Nat,
        bits : Bits]

-----------------------------------------------------------------------------
(* Walking the index *)

\* walk(idx, from)[n] is the block n below from.
walk(idx, from) ==
  LET back[n \in 0..idx[from].height] ==
        IF n = 0 THEN from ELSE idx[back[n - 1]].prev
  IN  back

\* At most max index entries that end with from, oldest first.
ancestors(idx, from, max) ==
  LET len == IF max < idx[from].height + 1 THEN max ELSE idx[from].height + 1
  IN  [i \in 1..len |-> idx[walk(idx, from)[len - i]]]

\* The branch from the genesis block to target.
path_from_genesis(idx, target) ==
  [i \in 1..idx[target].height + 1 |->
     walk(idx, target)[idx[target].height + 1 - i]]

bits_for_prev(idx, prev) ==
  LET anc == ancestors(idx, prev, LWMA_WINDOW + 1)
  IN  IF Len(anc) < 2
      THEN GENESIS_BITS
      ELSE lwma_next_bits([i \in DOMAIN anc |-> anc[i].ts],
                          [i \in DOMAIN anc |-> anc[i].bits])

\* The upper median of the last timestamps: ts[len / 2] once sorted.
mtp_branch(idx, prev) ==
  LET anc == ancestors(idx, prev, MTP_SPAN)
      atMost(t) == {i \in DOMAIN anc : anc[i].ts =< t}
      below(t)  == {i \in DOMAIN anc : anc[i].ts < t}
  IN  CHOOSE t \in {anc[i].ts : i \in DOMAIN anc} :
        /\ Cardinality(below(t)) =< Len(anc) \div 2
        /\ Cardinality(atMost(t)) > Len(anc) \div 2

last_checkpoint_height ==
  IF DOMAIN Checkpoints = {} THEN 0
  ELSE CHOOSE h \in DOMAIN Checkpoints : \A g \in DOMAIN Checkpoints : g =< h

\* sound stands for the checks that read nothing but the block: it has
\* transactions, fits MAX_BLOCK_SIZE and MAX_BLOCK_SIGOPS, its merkle root and
\* witness commitment match and its hash meets its own bits.
validate_block_basic(b, h, expected_bits, mtp) ==
  /\ h \in DOMAIN Checkpoints => Checkpoints[h] = b
  /\ Header[b].sound
  /\ Header[b].bits = expected_bits
  /\ Header[b].ts >= mtp
  /\ Header[b].ts =< now + FUTURE_LIMIT

-----------------------------------------------------------------------------
(* Replaying a branch *)

Invalid == [invalid |-> TRUE]

\* The ledgers along the branch to target, from the empty one; Invalid from the
\* first block that fails.  Signatures of the blocks in skip are not checked.
replay(idx, target, skip) ==
  LET path == path_from_genesis(idx, target)
      after[i \in 0..Len(path)] ==
        IF i = 0 THEN EmptyLedger
        ELSE IF after[i - 1] = Invalid THEN Invalid
        ELSE IF validate_txs(after[i - 1], Txs[path[i]], idx[path[i]].height,
                             path[i] \notin skip)
             THEN apply_txs(after[i - 1], Txs[path[i]], idx[path[i]].height)
             ELSE Invalid
  IN  after

\* What a branch comes to.
outcome(idx, target, skip) ==
  replay(idx, target, skip)[idx[target].height + 1]

\* Mutant of passed: every block of the branch is marked, replayed or not.
passed_unchecked(idx, target, skip) == Range(path_from_genesis(idx, target))

\* The blocks of the branch that passed, which switch_to marks one by one.
passed(idx, target, skip) ==
  {path_from_genesis(idx, target)[i] :
     i \in {j \in 1..idx[target].height + 1 :
              replay(idx, target, skip)[j] # Invalid}}

active(idx, t) == Range(path_from_genesis(idx, t))

\* Every output of b's first transaction, if that is a coinbase.
coinbase_outputs(b) ==
  {<<Txs[b][1].txid, v>> :
     v \in IF Txs[b] # << >> /\ Txs[b][1].coinbase
           THEN DOMAIN Txs[b][1].outputs ELSE {}}

\* Mutant of rebuilt_cb: outputs are numbered from 0.
rebuilt_cb_from_zero(idx, t) ==
  [o \in UNION {{<<Txs[b][1].txid, v>> : v \in 0..Len(Txs[b][1].outputs) - 1} :
                  b \in active(idx, t)}
     |-> idx[CHOOSE b \in active(idx, t) : Txs[b][1].txid = o[1]].height]

\* The coinbase outputs rebuild_active collects: all of them, spent ones and
\* OP_RETURN ones too; where two coincide the lower one, visited last, stays.
rebuilt_cb(idx, t) ==
  LET path  == path_from_genesis(idx, t)
      at(i) == coinbase_outputs(path[i])
      first(o) == CHOOSE i \in DOMAIN path :
                    o \in at(i) /\ \A j \in DOMAIN path : o \in at(j) => i =< j
  IN  [o \in UNION {at(i) : i \in DOMAIN path} |-> idx[path[first(o)]].height]

-----------------------------------------------------------------------------
(* The state after a clean start: create_genesis, or load_or_init *)

Init ==
  LET start == apply_txs(EmptyLedger, Txs[Genesis], 0)
      work  == work_from_bits(Header[Genesis].bits)
  IN  /\ utxo = start.utxo
      /\ coinbase_at = start.cb
      /\ supply = start.supply
      /\ tip = Genesis
      /\ height = 0
      /\ tip_work = work
      /\ index = [b \in {Genesis} |->
                    [prev |-> NoHash, height |-> 0, work |-> work,
                     ts |-> Header[b].ts, bits |-> Header[b].bits]]
      /\ headers = [b \in {Genesis} |-> 0]
      /\ height_index = [h \in {0} |-> Genesis]
      /\ validated = {Genesis}
      /\ now = 0

Tick ==
  /\ now < MAX_NOW
  /\ now' = now + 1
  /\ UNCHANGED <<ledger_vars, tip_vars, index, validated>>

-----------------------------------------------------------------------------
(* Operations, each under apply_lock *)

\* Mutant of entry: work is added to the tip's, not to the parent's.
entry_on_tip_work(b, prev) ==
  [prev |-> prev, height |-> index[prev].height + 1,
   work |-> tip_work + work_from_bits(Header[b].bits),
   ts |-> Header[b].ts, bits |-> Header[b].bits]

\* A new index entry for b on top of the known block prev.
entry(b, prev) ==
  [prev |-> prev, height |-> index[prev].height + 1,
   work |-> index[prev].work + work_from_bits(Header[b].bits),
   ts |-> Header[b].ts, bits |-> Header[b].bits]

\* Mutant of connects: the reward is computed for the tip's height.
connects_at_tip_height(b) ==
  /\ Header[b].prev = tip
  /\ validate_block_basic(b, height + 1, bits_for_prev(index, tip),
                          mtp_branch(index, tip))
  /\ validate_txs(ledger, Txs[b], height, TRUE)

\* Every check connect_tip makes before it changes anything.
connects(b) ==
  /\ Header[b].prev = tip
  /\ validate_block_basic(b, height + 1, bits_for_prev(index, tip),
                          mtp_branch(index, tip))
  /\ validate_txs(ledger, Txs[b], height + 1, TRUE)

connect_tip(b) ==
  LET after == apply_each(ledger, Txs[b], height + 1)
      work  == tip_work + work_from_bits(Header[b].bits)
  IN  /\ connects(b)
      /\ utxo' = after.utxo
      /\ coinbase_at' = after.cb
      /\ supply' = issue(supply, OutputTotal(Txs[b][1]), Fees(utxo, Txs[b]))
      /\ tip' = b
      /\ height' = height + 1
      /\ tip_work' = work
      /\ index' = Insert(index, b,
                         [prev |-> tip, height |-> height + 1, work |-> work,
                          ts |-> Header[b].ts, bits |-> Header[b].bits])
      /\ headers' = Insert(headers, b, height + 1)
      /\ height_index' = Insert(height_index, height + 1, b)
      /\ validated' = validated \cup {b}
      /\ UNCHANGED now

\* apply_block, the entry of the miners and the pool: h is the height the
\* caller believes the block has.
ApplyBlock(b, h) ==
  /\ h # 0
  /\ h = height + 1
  /\ connect_tip(b)

\* accept_block of a block on the tip.
AcceptOnTip(b) ==
  /\ b \notin DOMAIN index
  /\ connect_tip(b)

\* The checks accept_block makes on a block off the tip before it stores it.
storable(b) ==
  LET prev == Header[b].prev IN
  /\ b \notin DOMAIN index
  /\ prev # tip
  /\ prev \in DOMAIN index
  /\ index[prev].height + 1 > last_checkpoint_height
  /\ validate_block_basic(b, index[prev].height + 1,
                          bits_for_prev(index, prev), mtp_branch(index, prev))

store_block_meta(b) == index' = Insert(index, b, entry(b, Header[b].prev))

\* Mutants of heavier: the longest branch wins; a branch as heavy wins.
higher(b) == entry(b, Header[b].prev).height > height

as_heavy(b) == entry(b, Header[b].prev).work >= tip_work

heavier(b) == entry(b, Header[b].prev).work > tip_work

\* accept_block of a block on a branch no heavier than the active one.
AcceptSide(b) ==
  /\ storable(b)
  /\ ~ heavier(b)
  /\ store_block_meta(b)
  /\ UNCHANGED <<ledger_vars, tip_vars, validated, now>>

\* Mutant of rebuild_active: headers and height_index are not cleared first.
rebuild_active_uncleared(t) ==
  LET path == path_from_genesis(index', t)
  IN  /\ coinbase_at' = rebuilt_cb(index', t)
      /\ headers' =
           InsertAll(headers, [b \in active(index', t) |-> index'[b].height])
      /\ height_index' =
           InsertAll(height_index, [n \in 0..index'[t].height |-> path[n + 1]])

rebuild_active(t) ==
  LET path == path_from_genesis(index', t)
  IN  /\ coinbase_at' = rebuilt_cb(index', t)
      /\ headers' = [b \in active(index', t) |-> index'[b].height]
      /\ height_index' = [n \in 0..index'[t].height |-> path[n + 1]]

\* accept_block of a block that makes a heavier branch, which replays: the
\* node switches to it.
AcceptAndSwitch(b) ==
  /\ storable(b)
  /\ heavier(b)
  /\ store_block_meta(b)
  /\ LET after == outcome(index', b, validated)
     IN  /\ after # Invalid
         /\ utxo' = after.utxo
         /\ supply' = after.supply
  /\ tip' = b
  /\ height' = index'[b].height
  /\ tip_work' = index'[b].work
  /\ rebuild_active(b)
  /\ validated' = validated \cup passed(index', b, validated)
  /\ UNCHANGED now

\* accept_block of a block whose heavier branch does not replay: it stays
\* stored, the blocks before the failure stay marked, the tip stays.
AcceptInvalidBranch(b) ==
  /\ storable(b)
  /\ heavier(b)
  /\ store_block_meta(b)
  /\ outcome(index', b, validated) = Invalid
  /\ validated' = validated \cup passed(index', b, validated)
  /\ UNCHANGED <<ledger_vars, tip_vars, now>>

\* The node stops and opens its database again: the active chain and the marks
\* are rebuilt from the index and the tip, all the rest is read back.
Reopen ==
  /\ UNCHANGED <<utxo, supply, tip, height, tip_work, index, now>>
  /\ rebuild_active(tip)
  /\ validated' = active(index, tip)

Next ==
  \/ Tick
  \/ Reopen
  \/ \E b \in Blocks :
        \/ \E h \in 0..height + 1 : ApplyBlock(b, h)
        \/ AcceptOnTip(b)
        \/ AcceptSide(b)
        \/ AcceptAndSwitch(b)
        \/ AcceptInvalidBranch(b)

Spec == Init /\ [][Next]_vars

-----------------------------------------------------------------------------
(* Properties *)

\* Every variable has the shape its Rust type gives it.
TypeOK ==
  /\ IsMap(utxo, OutPoint, TxOut)
  /\ IsMap(coinbase_at, OutPoint, Nat)
  /\ supply \in Nat
  /\ tip \in Blocks
  /\ height \in Nat
  /\ tip_work \in Nat
  /\ IsMap(index, Blocks, Idx)
  /\ IsMap(headers, Blocks, Nat)
  /\ IsMap(height_index, Nat, Blocks)
  /\ validated \subseteq Blocks
  /\ now \in 0..MAX_NOW

\* A block index is a tree rooted at the genesis block: every block but the root
\* stands on a stored one, one higher and heavier by its own work.
IsTree(idx) ==
  /\ Genesis \in DOMAIN idx
  /\ \A b \in DOMAIN idx :
        /\ idx[b].prev = Header[b].prev
        /\ IF b = Genesis
           THEN /\ idx[b].height = 0
                /\ idx[b].work = work_from_bits(Header[b].bits)
           ELSE /\ idx[b].prev \in DOMAIN idx
                /\ idx[b].height = idx[idx[b].prev].height + 1
                /\ idx[b].work = idx[idx[b].prev].work
                                 + work_from_bits(Header[b].bits)

\* The index stays a tree whichever path (connect_tip, side branch, switch) stores
\* a block; and tip, height and tip_work, which connect_tip and switch_to write one
\* by one, describe the same block of it.
IndexIsTree ==
  /\ IsTree(index)
  /\ tip \in DOMAIN index
  /\ height = index[tip].height
  /\ tip_work = index[tip].work

\* Two blocks of the active chain issue the coinbase output o, which a torn read
\* of the miner brings about: a coinbase then names the height of another block.
reissued(o) ==
  \E a, b \in active(index, tip) :
     a # b /\ o \in coinbase_outputs(a) \cap coinbase_outputs(b)

\* The ledger connect_tip maintains block by block, through reorgs and
\* reopenings, is the one a replay of the active chain with every signature
\* checked gives; the coinbase map may hold more, but never of an unspent output,
\* and gives an unspent output the same height unless two coinbases share it.
LedgerIsReplay ==
  LET fresh == outcome(index, tip, {})
  IN  /\ fresh # Invalid
      /\ utxo = fresh.utxo
      /\ supply = fresh.supply
      /\ \A o \in DOMAIN utxo :
            /\ o \in DOMAIN coinbase_at <=> o \in DOMAIN fresh.cb
            /\ o \in DOMAIN fresh.cb
                 => coinbase_at[o] = fresh.cb[o] \/ reissued(o)

\* Fork choice: no stored block whose whole branch replays has more work than
\* the tip, whatever order the blocks came in and whatever invalid branches the
\* node stored on the way.
TipIsHeaviest ==
  \A b \in DOMAIN index :
     outcome(index, b, {}) # Invalid => index[b].work =< tip_work

\* headers and height_index hold the active chain and nothing else: no entry of
\* an abandoned branch survives a switch to a shorter, heavier one.
ActiveIndexExact ==
  /\ headers = [b \in active(index, tip) |-> index[b].height]
  /\ height_index = [n \in 0..height |-> path_from_genesis(index, tip)[n + 1]]

\* A mark that lets a later replay skip the signatures is set only on a block
\* whose whole branch replays with the signatures checked.
ValidatedIsSound ==
  \A b \in validated : b \in DOMAIN index /\ outcome(index, b, {}) # Invalid

\* Issuance never passes the cap, through any sequence of blocks and reorgs.
SupplyWithinCap == supply =< MAX_SUPPLY

SumOf(f) == FoldFunction(+, 0, f)

\* Coins sent to OP_RETURN outputs of the active chain.
Burned ==
  LET path == path_from_genesis(index, tip)
      burnt(tx) == Total([v \in DOMAIN tx.outputs |->
                            IF tx.outputs[v].spendable THEN 0
                            ELSE tx.outputs[v].value])
      inBlock(b) == Total([i \in DOMAIN Txs[b] |-> burnt(Txs[b][i])])
  IN  Total([i \in DOMAIN path |-> inBlock(path[i])])

\* No coin appears or disappears: the supply is the value of the unspent outputs
\* and of the burned ones, so that the clamp of supply at zero is never needed.
\* A coinbase issued again replaces its first issue, if that is unspent: the coins
\* of one of the two are then lost.
MoneyIsConserved ==
  LET coins == SumOf([o \in DOMAIN utxo |-> utxo[o].value]) + Burned
  IN  \/ supply = coins
      \/ /\ supply > coins
         /\ \E b \in active(index, tip) : \E o \in coinbase_outputs(b) : reissued(o)
=============================================================================
