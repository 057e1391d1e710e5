----------------------------- MODULE ChainStore -----------------------------
(***************************************************************************)
(* How ChainState reaches the disk.  An operation of core/chain.rs that    *)
(* ChainState takes in one step is here the sequence of its writes: to the *)
(* maps in memory (the variables of ChainState), to the sled trees "utxo", *)
(* "blocks" and "idx", and to the keys "tip", "height", "supply" and       *)
(* "tipwork".  Nothing joins two of these writes: the process may end, or  *)
(* a write may return an error, between any two of them.                   *)
(*                                                                         *)
(* sled keeps writes in order and makes a batch atomic; a crash that loses *)
(* the latest writes leaves what an earlier crash would have left.         *)
(***************************************************************************)
EXTENDS ChainForkChoice

CONSTANTS
  MAX_CRASHES,    \* bounds of the model: how often the process dies inside
  MAX_IO_ERRORS   \* an operation, and how often a write fails

ASSUME StoreAssumption ==
  MAX_CRASHES \in Nat /\ MAX_IO_ERRORS \in Nat

VARIABLES
  disk,       \* the sled database; a key never written reads as its default
  up,         \* the process runs
  op,         \* the operation that holds apply_lock
  crashes,
  io_errors

memory == <<ledger_vars, tip_vars, index, validated>>
store_vars == <<vars, disk, up, op, crashes, io_errors>>

NoOp == [at |-> "none"]

\* The values of ChainState's variables while no operation is under way.
committed ==
  [utxo |-> utxo, coinbase_at |-> coinbase_at, supply |-> supply, tip |-> tip,
   height |-> height, tip_work |-> tip_work, index |-> index,
   headers |-> headers, height_index |-> height_index,
   validated |-> validated]

\* An operation on b begins with the write called at.  next is what its last
\* writes will make tip, height, tip_work and the ledger; before is what memory
\* held when it began.
begin(kind, at, b, next) ==
  op' = [kind |-> kind, at |-> at, block |-> b, next |-> next,
         before |-> committed]

goto(at) == op' = [op EXCEPT !.at = at]

return == op' = NoOp

Target(t, h, w, l) == [tip |-> t, height |-> h, work |-> w, ledger |-> l]

-----------------------------------------------------------------------------

EmptyDisk ==
  [utxo |-> << >>, blocks |-> {}, idx |-> << >>,
   tip |-> NoHash, height |-> 0, supply |-> 0, tipwork |-> 0]

\* The database is new.  While the process is down memory means nothing; it is
\* given the value the first start will compute.
StoreInit ==
  /\ Init
  /\ disk = EmptyDisk
  /\ up = FALSE
  /\ op = NoOp
  /\ crashes = 0
  /\ io_errors = 0

StoreTick == Tick /\ UNCHANGED <<disk, up, op, crashes, io_errors>>

\* Every entry's parent is there, one lower.
closed(idx) ==
  \A b \in DOMAIN idx \ {Genesis} :
     idx[b].prev \in DOMAIN idx /\ idx[b].height = idx[idx[b].prev].height + 1

\* load_or_init of a database that has a tip.
Open ==
  /\ ~ up
  /\ disk.tip # NoHash
  /\ closed(disk.idx)
  /\ up' = TRUE
  /\ utxo' = disk.utxo
  /\ supply' = disk.supply
  /\ tip' = disk.tip
  /\ height' = disk.height
  /\ tip_work' = disk.tipwork
  /\ index' = disk.idx
  /\ rebuild_active(tip')
  /\ validated' = active(index', tip')
  /\ UNCHANGED <<disk, op, crashes, io_errors, now>>

\* load_or_init of one that has none: connect_genesis, which checks that the
\* genesis block is valid, starts from empty maps and writes its outputs first.
OpenNew ==
  /\ ~ up
  /\ disk.tip = NoHash
  /\ up' = TRUE
  /\ LET start == apply_txs(EmptyLedger, Txs[Genesis], 0)
         work  == work_from_bits(Header[Genesis].bits)
     IN  /\ utxo' = start.utxo
         /\ coinbase_at' = start.cb
         /\ begin("genesis", "batch", Genesis,
                  Target(Genesis, 0, work, start))
  /\ supply' = 0
  /\ tip' = NoHash
  /\ height' = 0
  /\ tip_work' = 0
  /\ index' = << >>
  /\ headers' = << >>
  /\ height_index' = << >>
  /\ validated' = {}
  /\ UNCHANGED <<disk, crashes, io_errors, now>>

-----------------------------------------------------------------------------
(* The writes of an operation, in their order *)

\* The bound of the model: a node is followed until its index has a gap or a
\* wrong height, which an earlier error or crash can bring about.
free == up /\ op = NoOp /\ closed(index)

\* connect_tip: its checks, then the two maps in memory.
BeginConnect(b) ==
  LET after == apply_txs(ledger, Txs[b], height + 1)
  IN  /\ free
      /\ connects(b)
      /\ utxo' = after.utxo
      /\ coinbase_at' = after.cb
      /\ begin("connect", "batch", b,
               Target(b, height + 1,
                      tip_work + work_from_bits(Header[b].bits), after))
      /\ UNCHANGED <<supply, tip_vars, index, validated, now, disk, up,
                     crashes, io_errors>>

\* accept_block of a block off the tip: store_block_meta fills the two maps in
\* memory first.
BeginStore(b) ==
  /\ free
  /\ storable(b)
  /\ store_block_meta(b)
  /\ begin(IF heavier(b) THEN "switch" ELSE "side", "blocks", b,
           Target(b, index'[b].height, index'[b].work, EmptyLedger))
  /\ UNCHANGED <<ledger_vars, tip_vars, validated, now, disk, up, crashes,
                 io_errors>>

\* The operation is at the write called at, which changes the database to d, or
\* memory alone.
on_disk(at, d) ==
  op.at = at /\ disk' = d /\ UNCHANGED <<vars, up, crashes, io_errors>>

in_memory(at) ==
  op.at = at /\ UNCHANGED <<now, disk, up, crashes, io_errors>>

\* Mutant of Batch: spent outputs stay in the tree.
BatchKeepsSpent ==
  /\ on_disk("batch", [disk EXCEPT !.utxo = InsertAll(@, utxo)])
  /\ goto("blocks_in_memory")

\* utxo_tree.apply_batch: the genesis block's outputs, or what the block spends
\* and creates, done to what the tree holds.
Batch ==
  /\ on_disk("batch", [disk EXCEPT !.utxo =
       apply_each([EmptyLedger EXCEPT !.utxo = disk.utxo],
                  Txs[op.block], 0).utxo])
  /\ goto("blocks_in_memory")

\* store_block_meta of the block connect_tip or connect_genesis connects.
StoreInMemory ==
  LET b == op.block IN
  /\ in_memory("blocks_in_memory")
  /\ index' = Insert(index, b,
                [prev |-> Header[b].prev, height |-> op.next.height,
                 work |-> op.next.work, ts |-> Header[b].ts,
                 bits |-> Header[b].bits])
  /\ goto("blocks")
  /\ UNCHANGED <<ledger_vars, tip_vars, validated>>

\* Mutant of WriteBody: the index entry is written before the body.
WriteEntryFirst ==
  /\ on_disk("blocks",
             [disk EXCEPT !.idx = Insert(@, op.block, index[op.block])])
  /\ goto("idx")

WriteBody ==
  /\ on_disk("blocks", [disk EXCEPT !.blocks = @ \cup {op.block}])
  /\ goto("idx")

\* After its index entry a side branch is done; a heavier one is replayed.
AfterEntry ==
  CASE op.kind = "side"   -> return
    [] op.kind = "switch" -> goto("replay")
    [] OTHER              -> goto("publish")

\* Mutant of WriteEntry: side branches are kept in memory only.
WriteEntryUnlessSide ==
  /\ on_disk("idx",
             IF op.kind = "side" THEN disk
             ELSE [disk EXCEPT !.idx = Insert(@, op.block, index[op.block])])
  /\ AfterEntry

WriteEntry ==
  /\ on_disk("idx", [disk EXCEPT !.idx = Insert(@, op.block, index[op.block])])
  /\ AfterEntry

\* switch_to's loop over the branch, which marks the blocks that pass.
Replay ==
  LET after == outcome(index, op.block, validated) IN
  /\ in_memory("replay")
  /\ validated' = validated \cup passed(index, op.block, validated)
  /\ IF after = Invalid
     THEN return
     ELSE op' = [op EXCEPT !.at = "clear", !.next.ledger = after]
  /\ UNCHANGED <<ledger_vars, tip_vars, index>>

\* Mutant of Clear: the new ledger is written over the old one.
NoClear == on_disk("clear", disk) /\ goto("refill")

\* utxo_tree.clear removes one key at a time.
Clear ==
  \/ /\ DOMAIN disk.utxo = {}
     /\ on_disk("clear", disk)
     /\ goto("refill")
  \/ \E o \in DOMAIN disk.utxo :
        /\ on_disk("clear",
                   [disk EXCEPT !.utxo = Restrict(@, DOMAIN @ \ {o})])
        /\ UNCHANGED op

Refill ==
  /\ on_disk("refill", [disk EXCEPT !.utxo = InsertAll(@, op.next.ledger.utxo)])
  /\ goto("publish")

\* The writes to memory that readers see, and that only they could tell apart.
Publish ==
  /\ in_memory("publish")
  /\ supply' = op.next.ledger.supply
  /\ tip' = op.next.tip
  /\ height' = op.next.height
  /\ tip_work' = op.next.work
  /\ IF op.kind = "switch"
     THEN /\ utxo' = op.next.ledger.utxo
          /\ coinbase_at' = op.next.ledger.cb
          /\ UNCHANGED <<headers, height_index, validated>>
     ELSE /\ headers' = Insert(headers, op.block, op.next.height)
          /\ height_index' = Insert(height_index, op.next.height, op.block)
          /\ validated' = validated \cup {op.block}
          /\ UNCHANGED <<utxo, coinbase_at>>
  /\ goto("tip")
  /\ UNCHANGED index

\* Mutant of WriteTip: but for the genesis block, the work is written first.
WriteWorkFirst ==
  /\ on_disk("tip", IF op.kind = "genesis"
                    THEN [disk EXCEPT !.tip = op.next.tip]
                    ELSE [disk EXCEPT !.tipwork = op.next.work])
  /\ goto("height")

\* persist_meta: four keys, one after the other.
WriteTip ==
  on_disk("tip", [disk EXCEPT !.tip = op.next.tip]) /\ goto("height")

WriteHeight ==
  on_disk("height", [disk EXCEPT !.height = op.next.height]) /\ goto("supply")

WriteSupply ==
  /\ on_disk("supply", [disk EXCEPT !.supply = op.next.ledger.supply])
  /\ goto("tipwork")

WriteWork ==
  /\ on_disk("tipwork", [disk EXCEPT !.tipwork = op.next.work])
  /\ IF op.kind = "switch" THEN goto("rebuild") ELSE return

\* switch_to ends with rebuild_active, which fills coinbase_at and validated too.
Rebuild ==
  /\ in_memory("rebuild")
  /\ index' = index
  /\ rebuild_active(tip)
  /\ validated' = validated \cup active(index, tip)
  /\ return
  /\ UNCHANGED <<utxo, supply, tip, height, tip_work>>

-----------------------------------------------------------------------------
(* Ends and errors *)

\* The process ends between two operations.
Stop ==
  /\ up
  /\ op = NoOp
  /\ up' = FALSE
  /\ UNCHANGED <<vars, disk, op, crashes, io_errors>>

\* The process dies inside one.
Crash ==
  /\ up
  /\ op # NoOp
  /\ crashes < MAX_CRASHES
  /\ crashes' = crashes + 1
  /\ up' = FALSE
  /\ return
  /\ UNCHANGED <<vars, disk, io_errors>>

OnDisk ==
  {"batch", "blocks", "idx", "clear", "refill", "tip", "height", "supply",
   "tipwork"}

\* A write to the database fails: the operation gives up where it stands and
\* leaves memory as it is; when that was the first start, open fails.
IoError ==
  /\ up
  /\ op # NoOp
  /\ op.at \in OnDisk
  /\ io_errors < MAX_IO_ERRORS
  /\ io_errors' = io_errors + 1
  /\ up' = (op.kind # "genesis")
  /\ return
  /\ UNCHANGED <<vars, disk, crashes>>

Write ==
  \/ Batch \/ StoreInMemory \/ WriteBody \/ WriteEntry
  \/ Replay \/ Clear \/ Refill
  \/ Publish \/ WriteTip \/ WriteHeight \/ WriteSupply \/ WriteWork \/ Rebuild

StoreNext ==
  \/ StoreTick \/ Open \/ OpenNew \/ Stop \/ Crash \/ IoError
  \/ \E b \in Blocks : BeginConnect(b) \/ BeginStore(b)
  \/ up /\ op # NoOp /\ Write

StoreSpec == StoreInit /\ [][StoreNext]_store_vars

-----------------------------------------------------------------------------
(* Properties *)

shown == IF op = NoOp THEN committed ELSE op.before

Atomic == INSTANCE ChainState WITH
  utxo <- shown.utxo, coinbase_at <- shown.coinbase_at,
  supply <- shown.supply, tip <- shown.tip, height <- shown.height,
  tip_work <- shown.tip_work, index <- shown.index, headers <- shown.headers,
  height_index <- shown.height_index, validated <- shown.validated

\* As long as no operation is cut short, the writes of each come to the one step
\* ChainState makes of it, and what a restart reads back from the trees and the
\* four keys is what memory held: the first start, every connection, every switch.
ImplementsChainState ==
  /\ Atomic!Init
  /\ [][crashes' = 0 /\ io_errors' = 0
          => [Atomic!Next]_(Atomic!vars)]_store_vars

\* Wherever the process ends, the tip on disk has an index entry and every entry a
\* body, so a restart finds at least the tip and can serve what it indexes.
TipIsStored ==
  /\ disk.tip # NoHash => disk.tip \in DOMAIN disk.idx
  /\ DOMAIN disk.idx \subseteq disk.blocks

\* Short of a failed write, the index on disk has no gap: the branch of every
\* entry can be walked down to the genesis block after a restart.
BranchesAreStored ==
  io_errors = 0 =>
     \A b \in DOMAIN disk.idx \ {Genesis} : disk.idx[b].prev \in DOMAIN disk.idx

\* The batches of connect_tip and of switch_to are atomic and clear is not: at
\* every point of a history without a fault the utxo tree is the exact ledger of
\* the block last connected or being connected, or what clear has left of one.
UtxoTreeIsALedger ==
  crashes = 0 /\ io_errors = 0 /\ up =>
     LET unspent(b) == IF b = NoHash THEN << >> ELSE BranchLedger[b].utxo
         old == unspent(disk.tip)
     IN  \/ disk.utxo = old
         \/ op.at \notin {"none", "batch"} /\ disk.utxo = unspent(op.block)
         \/ op.at \in {"clear", "refill"}
            /\ disk.utxo = Restrict(old, DOMAIN disk.utxo)

\* What a crash or a failed write leaves behind can make the node underrate a
\* branch, never overrate one: no entry and no tip, in memory or on disk, claims
\* more work than its blocks carry.
WorkIsNotOverstated ==
  /\ \A b \in DOMAIN index : index[b].work =< BranchWork[b]
  /\ tip # NoHash => tip_work =< BranchWork[tip]
  /\ disk.tip # NoHash => disk.tipwork =< BranchWork[disk.tip]

\* A running node between two operations follows the heaviest valid branch it
\* stores.  The README promises it without a word on restarts; the code does not
\* keep it across a crash between the index entry and the tip.
HeaviestIsFollowed ==
  up /\ op = NoOp =>
     \A b \in DOMAIN index :
        BranchLedger[b] # Invalid => BranchWork[b] =< BranchWork[tip]
=============================================================================
