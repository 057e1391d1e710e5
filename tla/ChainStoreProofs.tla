-------------------------- MODULE ChainStoreProofs --------------------------
(***************************************************************************)
(* What the disk holds wherever an operation is cut short, for every block *)
(* tree, any number of crashes and any number of failed writes: a restart  *)
(* finds the tip and the body of everything indexed, the index has no gap  *)
(* unless a write failed, and no branch is overrated.  And that, as long   *)
(* as nothing is cut short, the writes implement ChainState and the utxo   *)
(* tree is the ledger of a branch.                                         *)
(***************************************************************************)
EXTENDS ChainStore, ChainStateProofs

-----------------------------------------------------------------------------
(* Entries *)

\* The work of a branch is a natural number.
LEMMA BranchWorkNat ==
  \A b \in Blocks : BranchWork[b] \in Nat
PROOF
  <1> DEFINE T == {b \in Blocks : BranchWork[b] \notin Nat}
  <1>1. \A b \in Blocks : work_from_bits(Header[b].bits) \in Nat
    BY ChainAssumption
  <1> SUFFICES ASSUME T # {} PROVE FALSE
    OBVIOUS
  <1>2. PICK b \in T : Header[b].prev \notin T
    BY AcyclicAssumption
  <1>3. BranchWork[b] \in Nat
    BY <1>1, <1>2, BranchWorkDef
  <1> QED
    BY <1>2, <1>3

\* An index whose entries name their parents and do not overrate their branches.
EntriesOK(idx) ==
  /\ IsMap(idx, Blocks, Idx)
  /\ \A b \in DOMAIN idx : /\ idx[b].prev = Header[b].prev
                           /\ idx[b].work =< BranchWork[b]

LEMMA InsertEntry ==
  ASSUME NEW idx, EntriesOK(idx), NEW b \in Blocks, NEW e \in Idx,
         e.prev = Header[b].prev, e.work =< BranchWork[b]
  PROVE  /\ EntriesOK(Insert(idx, b, e))
         /\ DOMAIN Insert(idx, b, e) = DOMAIN idx \cup {b}
         /\ Insert(idx, b, e)[b] = e
         /\ \A x \in DOMAIN idx : x # b => Insert(idx, b, e)[x] = idx[x]
PROOF
  BY DEF EntriesOK, IsMap, Insert

\* What storing b on a parent that has at most its work claims for b.
LEMMA EntryWork ==
  ASSUME NEW b \in Blocks, Header[b].prev \in Blocks,
         NEW w \in Nat, w =< BranchWork[Header[b].prev]
  PROVE  /\ w + work_from_bits(Header[b].bits) \in Nat
         /\ w < w + work_from_bits(Header[b].bits)
         /\ w + work_from_bits(Header[b].bits) =< BranchWork[b]
PROOF
  <1>1. Header[b] \in [prev : Blocks \cup {NoHash}, bits : Bits,
                       ts : Nat, sound : BOOLEAN]
    BY ChainAssumption
  <1>2. work_from_bits(Header[b].bits) \in Nat \ {0}
    BY <1>1, ChainAssumption
  <1>3. BranchWork[b] = work_from_bits(Header[b].bits)
                          + BranchWork[Header[b].prev]
    BY BranchWorkDef
  <1> QED
    BY <1>2, <1>3, BranchWorkNat

LEMMA HeaderFields ==
  ASSUME NEW b \in Blocks
  PROVE  /\ Header[b].prev \in Blocks \cup {NoHash}
         /\ Header[b].bits \in Bits /\ Header[b].ts \in Nat
PROOF
  <1>1. Header[b] \in [prev : Blocks \cup {NoHash}, bits : Bits,
                       ts : Nat, sound : BOOLEAN]
    BY ChainAssumption
  <1> QED
    BY <1>1

-----------------------------------------------------------------------------
(* The invariant *)

BeforeIndex == {"batch", "blocks_in_memory"}
Unindexed   == {"blocks", "idx"}
Indexed     == {"replay", "clear", "refill", "publish"}
Published   == {"tip", "height", "supply", "tipwork", "rebuild"}
TipWritten  == {"height", "supply", "tipwork", "rebuild"}

MemoryOK ==
  /\ EntriesOK(index)
  /\ height \in Nat
  /\ tip_work \in Nat

DiskOK ==
  /\ disk = [utxo |-> disk.utxo, blocks |-> disk.blocks, idx |-> disk.idx,
             tip |-> disk.tip, height |-> disk.height, supply |-> disk.supply,
             tipwork |-> disk.tipwork]
  /\ EntriesOK(disk.idx)
  /\ disk.height \in Nat
  /\ disk.tipwork \in Nat
  /\ disk.tip = NoHash => disk.tipwork = 0

\* The record of an operation, which EXCEPT keeps in shape.
OpShape(o) ==
  o = [kind |-> o.kind, at |-> o.at, block |-> o.block,
       next |-> Target(o.next.tip, o.next.height, o.next.work, o.next.ledger),
       before |-> o.before]

\* An operation at op.at has done the writes that come before it.
OpOK ==
  op # NoOp =>
    /\ up
    /\ OpShape(op)
    /\ op.at \in UNION {BeforeIndex, Unindexed, Indexed, Published}
    /\ op.kind = "side" => op.at \in Unindexed
    /\ op.at = "replay" => op.kind = "switch"
    /\ op.block \in Blocks
    /\ op.block # Genesis => Header[op.block].prev \in DOMAIN index
    /\ op.next.tip = op.block
    /\ op.next.height \in Nat
    /\ op.next.work \in Nat /\ op.next.work =< BranchWork[op.block]
    /\ op.at \notin BeforeIndex => op.block \in DOMAIN index
    /\ op.at = "idx" => op.block \in disk.blocks
    /\ op.at \in Indexed \cup Published => op.block \in DOMAIN disk.idx
    /\ IF op.at \in Published
       THEN tip = op.block /\ tip_work = op.next.work
       ELSE op.kind # "side" => tip_work =< op.next.work
    /\ op.at \in TipWritten => disk.tip = op.block
    /\ op.kind # "genesis" => tip \in DOMAIN index

\* The work on disk lags behind, and an index that no failed write has broken
\* reaches the disk but for the block being stored.
NodeOK ==
  /\ io_errors \in Nat
  /\ up => disk.tipwork =< tip_work
  /\ up /\ op = NoOp => tip \in DOMAIN index
  /\ up /\ io_errors = 0 =>
       \A b \in DOMAIN index :
          \/ b \in DOMAIN disk.idx
          \/ op # NoOp /\ op.at \in Unindexed /\ b = op.block

StoreInv ==
  /\ MemoryOK
  /\ DiskOK
  /\ OpOK
  /\ NodeOK
  /\ TipIsStored
  /\ BranchesAreStored
  /\ WorkIsNotOverstated

\* The next write.
LEMMA NextWrite ==
  ASSUME OpShape(op), NEW at, at # "none", goto(at)
  PROVE  /\ op' # NoOp /\ OpShape(op') /\ op'.at = at
         /\ op'.kind = op.kind /\ op'.block = op.block
         /\ op'.next = op.next /\ op'.before = op.before
PROOF
  <1>1. op' = [op EXCEPT !.at = at]
    BY DEF goto
  <1>2. op' = [kind |-> op.kind, at |-> at, block |-> op.block,
               next |-> op.next, before |-> op.before]
    BY <1>1 DEF OpShape
  <1> QED
    BY <1>2 DEF OpShape, NoOp

\* Neither memory nor the trees change.
LEMMA SameStore ==
  ASSUME StoreInv, UNCHANGED <<index, height, tip, tip_work, disk>>
  PROVE  /\ MemoryOK' /\ DiskOK' /\ TipIsStored' /\ WorkIsNotOverstated'
PROOF
  BY DEF StoreInv, MemoryOK, DiskOK, TipIsStored, WorkIsNotOverstated

-----------------------------------------------------------------------------
(* The steps *)

LEMMA StoreInitInv ==
  StoreInit => StoreInv
PROOF
  <1> SUFFICES ASSUME StoreInit PROVE StoreInv
    OBVIOUS
  <1> DEFINE work == work_from_bits(Header[Genesis].bits)
  <1>1. /\ disk = EmptyDisk /\ ~ up /\ op = NoOp /\ io_errors = 0
        /\ Init
    BY DEF StoreInit
  <1>2. /\ tip = Genesis /\ height = 0 /\ tip_work = work
        /\ index = [b \in {Genesis} |->
                      [prev |-> NoHash, height |-> 0, work |-> work,
                       ts |-> Header[b].ts, bits |-> Header[b].bits]]
    BY <1>1 DEF Init
  <1>3. Genesis \in Blocks /\ Header[Genesis].prev = NoHash /\ NoHash \notin Blocks
    BY ChainAssumption
  <1>4. BranchWork[Genesis] = work /\ work \in Nat
    <2>1. work \in Nat
      BY <1>3, HeaderFields, ChainAssumption
    <2> QED
      BY <1>3, <2>1, BranchWorkDef
  <1> HIDE DEF work
  <1>5. EntriesOK(index)
    <2>1. /\ Header[Genesis].bits \in Bits /\ Header[Genesis].ts \in Nat
      BY <1>3, HeaderFields
    <2> QED
      BY <1>2, <1>3, <1>4, <2>1 DEF EntriesOK, IsMap, Idx
  <1>6. MemoryOK
    BY <1>2, <1>4, <1>5 DEF MemoryOK
  <1>7. DiskOK
    BY <1>1 DEF DiskOK, EmptyDisk, EntriesOK, IsMap
  <1>8. OpOK /\ NodeOK
    BY <1>1 DEF OpOK, NodeOK
  <1>9. TipIsStored /\ BranchesAreStored
    BY <1>1 DEF TipIsStored, BranchesAreStored, EmptyDisk
  <1>10. WorkIsNotOverstated
    BY <1>1, <1>2, <1>4 DEF WorkIsNotOverstated, EmptyDisk
  <1> QED
    BY <1>6, <1>7, <1>8, <1>9, <1>10 DEF StoreInv

\* load_or_init reads the trees and the four keys back.
LEMMA OpenInv ==
  ASSUME StoreInv, Open
  PROVE  StoreInv'
PROOF
  <1>1. /\ ~ up /\ disk.tip # NoHash /\ up'
        /\ tip' = disk.tip /\ height' = disk.height
        /\ tip_work' = disk.tipwork /\ index' = disk.idx
        /\ UNCHANGED <<disk, op, crashes, io_errors>>
    BY DEF Open
  <1>2. op = NoOp
    BY <1>1 DEF StoreInv, OpOK
  <1>3. disk.tip \in DOMAIN disk.idx
    BY <1>1 DEF StoreInv, TipIsStored
  <1>4. MemoryOK' /\ DiskOK'
    BY <1>1 DEF StoreInv, MemoryOK, DiskOK
  <1>5. OpOK'
    BY <1>1, <1>2 DEF OpOK
  <1>6. NodeOK'
    <2>1. disk.tipwork \in Nat /\ io_errors \in Nat
      BY DEF StoreInv, DiskOK, NodeOK
    <2>2. disk'.tipwork =< tip_work'
      BY <1>1, <2>1
    <2>3. tip' \in DOMAIN index'
      BY <1>1, <1>3
    <2>4. \A b \in DOMAIN index' : b \in DOMAIN disk'.idx
      BY <1>1
    <2> QED
      BY <1>1, <2>1, <2>2, <2>3, <2>4 DEF NodeOK
  <1>7. TipIsStored' /\ BranchesAreStored'
    BY <1>1 DEF StoreInv, TipIsStored, BranchesAreStored
  <1>8. WorkIsNotOverstated'
    BY <1>1 DEF StoreInv, WorkIsNotOverstated, DiskOK, EntriesOK
  <1> QED
    BY <1>4, <1>5, <1>6, <1>7, <1>8 DEF StoreInv

\* connect_genesis begins with empty maps.
LEMMA OpenNewInv ==
  ASSUME StoreInv, OpenNew
  PROVE  StoreInv'
PROOF
  <1> DEFINE start == apply_txs(EmptyLedger, Txs[Genesis], 0)
             work == work_from_bits(Header[Genesis].bits)
  <1>1. /\ ~ up /\ disk.tip = NoHash /\ up'
        /\ tip' = NoHash /\ height' = 0 /\ tip_work' = 0 /\ index' = << >>
        /\ op' = [kind |-> "genesis", at |-> "batch", block |-> Genesis,
                  next |-> Target(Genesis, 0, work, start),
                  before |-> committed]
        /\ UNCHANGED <<disk, crashes, io_errors>>
    BY DEF OpenNew, begin
  <1>2. Genesis \in Blocks /\ Header[Genesis].prev = NoHash /\ NoHash \notin Blocks
    BY ChainAssumption
  <1>3. BranchWork[Genesis] = work /\ work \in Nat
    <2>1. work \in Nat
      BY <1>2, HeaderFields, ChainAssumption
    <2> QED
      BY <1>2, <2>1, BranchWorkDef
  <1> HIDE DEF work, start
  <1>4. MemoryOK'
    BY <1>1 DEF MemoryOK, EntriesOK, IsMap
  <1>5. DiskOK' /\ TipIsStored' /\ BranchesAreStored'
    BY <1>1 DEF StoreInv, DiskOK, TipIsStored, BranchesAreStored
  <1>6. OpShape(op') /\ op' # NoOp
    BY <1>1 DEF OpShape, NoOp, Target
  <1>7. OpOK'
    BY <1>1, <1>2, <1>3, <1>6
       DEF OpOK, Target, BeforeIndex, Unindexed, Indexed, Published, TipWritten
  <1>8. NodeOK'
    BY <1>1, <1>6 DEF StoreInv, NodeOK, DiskOK
  <1>9. WorkIsNotOverstated'
    BY <1>1 DEF WorkIsNotOverstated
  <1> QED
    BY <1>4, <1>5, <1>7, <1>8, <1>9 DEF StoreInv

\* A block that stands on the tip or on a stored block gets an entry that does
\* not overrate it.
LEMMA NewEntry ==
  ASSUME StoreInv, NEW b \in Blocks, Header[b].prev \in DOMAIN index
  PROVE  LET e == entry(b, Header[b].prev)
         IN  /\ e \in Idx /\ e.prev = Header[b].prev
             /\ e.work =< BranchWork[b] /\ index[Header[b].prev].work < e.work
PROOF
  <1> DEFINE p == Header[b].prev
  <1>1. EntriesOK(index)
    BY DEF StoreInv, MemoryOK
  <1>2. p \in Blocks /\ index[p].height \in Nat /\ index[p].work \in Nat
        /\ index[p].work =< BranchWork[p]
    BY <1>1 DEF EntriesOK, IsMap, Idx
  <1>3. /\ index[p].work + work_from_bits(Header[b].bits) \in Nat
        /\ index[p].work < index[p].work + work_from_bits(Header[b].bits)
        /\ index[p].work + work_from_bits(Header[b].bits) =< BranchWork[b]
    BY <1>2, EntryWork
  <1>4. Header[b].bits \in Bits /\ Header[b].ts \in Nat
    BY HeaderFields
  <1> QED
    BY <1>2, <1>3, <1>4 DEF entry, Idx

LEMMA BeginConnectInv ==
  ASSUME StoreInv, NEW b \in Blocks, BeginConnect(b)
  PROVE  StoreInv'
PROOF
  <1> DEFINE after == apply_txs(ledger, Txs[b], height + 1)
             work == tip_work + work_from_bits(Header[b].bits)
  <1>1. /\ up /\ op = NoOp /\ Header[b].prev = tip
        /\ op' = [kind |-> "connect", at |-> "batch", block |-> b,
                  next |-> Target(b, height + 1, work, after),
                  before |-> committed]
        /\ UNCHANGED <<supply, tip_vars, index, validated, disk, up,
                       crashes, io_errors>>
    BY DEF BeginConnect, begin, free, connects
  <1>2. UNCHANGED <<index, height, tip, tip_work, disk>>
    BY <1>1 DEF tip_vars
  <1>3. tip \in DOMAIN index /\ tip \in Blocks /\ tip # NoHash
    BY <1>1, ChainAssumption DEF StoreInv, NodeOK, MemoryOK, EntriesOK, IsMap
  <1>4. height \in Nat /\ tip_work \in Nat /\ tip_work =< BranchWork[tip]
    BY <1>3 DEF StoreInv, MemoryOK, WorkIsNotOverstated
  <1>5. work \in Nat /\ tip_work < work /\ work =< BranchWork[b]
    BY <1>1, <1>3, <1>4, EntryWork
  <1> HIDE DEF after, work
  <1>6. MemoryOK' /\ DiskOK' /\ TipIsStored' /\ WorkIsNotOverstated'
    BY <1>2, SameStore
  <1>7. BranchesAreStored'
    BY <1>1 DEF StoreInv, BranchesAreStored
  <1>8. OpShape(op') /\ op' # NoOp
    BY <1>1 DEF OpShape, NoOp, Target
  <1>9. OpOK'
    <2>1. tip_work =< work
      BY <1>4, <1>5
    <2> QED
      BY <1>1, <1>2, <1>3, <1>4, <1>5, <1>8, <2>1
         DEF OpOK, Target, BeforeIndex, Unindexed, Indexed, Published, TipWritten
  <1>10. NodeOK'
    BY <1>1, <1>2, <1>8 DEF StoreInv, NodeOK
  <1> QED
    BY <1>6, <1>7, <1>9, <1>10 DEF StoreInv

LEMMA BeginStoreInv ==
  ASSUME StoreInv, NEW b \in Blocks, BeginStore(b)
  PROVE  StoreInv'
PROOF
  <1> DEFINE e == entry(b, Header[b].prev)
             kind == IF heavier(b) THEN "switch" ELSE "side"
             next == Target(b, index'[b].height, index'[b].work, EmptyLedger)
  <1>1. /\ up /\ op = NoOp /\ b \notin DOMAIN index
        /\ Header[b].prev \in DOMAIN index
        /\ index' = Insert(index, b, e)
        /\ op' = [kind |-> kind, at |-> "blocks", block |-> b, next |-> next,
                  before |-> committed]
        /\ UNCHANGED <<ledger_vars, tip_vars, validated, disk, up, crashes,
                       io_errors>>
    BY DEF BeginStore, begin, free, storable, store_block_meta
  <1>2. UNCHANGED <<height, tip, tip_work, disk>>
    BY <1>1 DEF tip_vars
  <1>3. /\ e \in Idx /\ e.prev = Header[b].prev
        /\ e.work =< BranchWork[b]
    BY <1>1, NewEntry
  <1> HIDE DEF e
  <1>4. /\ EntriesOK(index') /\ DOMAIN index' = DOMAIN index \cup {b}
        /\ index'[b] = e
        /\ \A x \in DOMAIN index : index'[x] = index[x]
    <2>1. EntriesOK(index)
      BY DEF StoreInv, MemoryOK
    <2> QED
      BY <1>1, <1>3, <2>1, InsertEntry
  <1>5. next = [tip |-> b, height |-> e.height, work |-> e.work,
                ledger |-> EmptyLedger]
        /\ e.height \in Nat /\ e.work \in Nat
    BY <1>3, <1>4 DEF Target, Idx
  <1>6. kind # "side" => tip_work =< e.work
    <2>1. kind # "side" => e.work > tip_work
      BY DEF heavier, e
    <2>2. tip_work \in Nat
      BY DEF StoreInv, MemoryOK
    <2> QED
      BY <1>5, <2>1, <2>2
  <1>7. kind \in {"switch", "side"}
    OBVIOUS
  <1> HIDE DEF next, kind
  <1>8. MemoryOK'
    BY <1>2, <1>4 DEF StoreInv, MemoryOK
  <1>9. DiskOK' /\ TipIsStored' /\ BranchesAreStored'
    BY <1>1 DEF StoreInv, DiskOK, TipIsStored, BranchesAreStored
  <1>10. WorkIsNotOverstated'
    BY <1>1, <1>2, <1>3, <1>4 DEF StoreInv, WorkIsNotOverstated
  <1>11. OpShape(op') /\ op' # NoOp
    BY <1>1, <1>5 DEF OpShape, NoOp, Target
  <1>12. tip \in DOMAIN index
    BY <1>1 DEF StoreInv, NodeOK
  <1>13. OpOK'
    BY <1>1, <1>2, <1>3, <1>4, <1>5, <1>6, <1>7, <1>11, <1>12
       DEF OpOK, BeforeIndex, Unindexed, Indexed, Published, TipWritten
  <1>14. NodeOK'
    BY <1>1, <1>2, <1>4, <1>11 DEF StoreInv, NodeOK, Unindexed
  <1> QED
    BY <1>8, <1>9, <1>10, <1>13, <1>14 DEF StoreInv

\* The batch touches the utxo tree alone, as do the clearing and the refilling.
LEMMA UtxoWriteInv ==
  ASSUME StoreInv, up, op # NoOp, NEW u, disk' = [disk EXCEPT !.utxo = u],
         UNCHANGED <<vars, up, crashes, io_errors>>,
         \/ op' = op /\ op.at \in Indexed
         \/ op.at \in BeforeIndex /\ goto("blocks_in_memory")
         \/ op.at \in Indexed /\ (goto("refill") \/ goto("publish"))
  PROVE  StoreInv'
PROOF
  <1>1. /\ disk'.blocks = disk.blocks /\ disk'.idx = disk.idx
        /\ disk'.tip = disk.tip /\ disk'.tipwork = disk.tipwork
        /\ disk'.height = disk.height
        /\ disk' = [utxo |-> disk'.utxo, blocks |-> disk'.blocks,
                    idx |-> disk'.idx, tip |-> disk'.tip,
                    height |-> disk'.height, supply |-> disk'.supply,
                    tipwork |-> disk'.tipwork]
    BY DEF StoreInv, DiskOK
  <1>2. UNCHANGED <<index, height, tip, tip_work, up, io_errors>>
    BY DEF vars, tip_vars
  <1>3. MemoryOK' /\ DiskOK' /\ TipIsStored' /\ BranchesAreStored'
        /\ WorkIsNotOverstated'
    BY <1>1, <1>2 DEF StoreInv, MemoryOK, DiskOK, TipIsStored,
                      BranchesAreStored, WorkIsNotOverstated
  <1>4. OpOK
    BY DEF StoreInv
  <1>5. /\ op' # NoOp /\ OpShape(op') /\ op'.kind = op.kind
        /\ op'.block = op.block /\ op'.next = op.next
        /\ \/ op.at \in BeforeIndex /\ op'.at \in BeforeIndex
           \/ op.at \in Indexed /\ op'.at \in Indexed
        /\ op'.at = "replay" => op.at = "replay"
    <2>1. CASE op' = op
      BY <1>4, <2>1 DEF OpOK
    <2>2. CASE op.at \in BeforeIndex /\ goto("blocks_in_memory")
      BY <1>4, <2>2, NextWrite DEF OpOK, BeforeIndex
    <2>3. CASE op.at \in Indexed /\ goto("refill")
      BY <1>4, <2>3, NextWrite DEF OpOK, Indexed
    <2>4. CASE op.at \in Indexed /\ goto("publish")
      BY <1>4, <2>4, NextWrite DEF OpOK, Indexed
    <2> QED
      BY <2>1, <2>2, <2>3, <2>4
  <1>6. OpOK'
    BY <1>1, <1>2, <1>4, <1>5
       DEF OpOK, BeforeIndex, Unindexed, Indexed, Published, TipWritten
  <1>7. NodeOK'
    BY <1>1, <1>2, <1>5
       DEF StoreInv, NodeOK, BeforeIndex, Unindexed, Indexed
  <1> QED
    BY <1>3, <1>6, <1>7 DEF StoreInv

LEMMA StoreInMemoryInv ==
  ASSUME StoreInv, up, op # NoOp, StoreInMemory
  PROVE  StoreInv'
PROOF
  <1> DEFINE b == op.block
             e == [prev |-> Header[b].prev, height |-> op.next.height,
                   work |-> op.next.work, ts |-> Header[b].ts,
                   bits |-> Header[b].bits]
  <1>1. /\ op.at = "blocks_in_memory" /\ index' = Insert(index, b, e)
        /\ goto("blocks")
        /\ UNCHANGED <<ledger_vars, tip_vars, disk, up, crashes, io_errors>>
    BY DEF StoreInMemory, in_memory
  <1>2. UNCHANGED <<height, tip, tip_work, disk>>
    BY <1>1 DEF tip_vars
  <1>3. OpOK
    BY DEF StoreInv
  <1>4. b \in Blocks /\ e \in Idx
    <2>1. b \in Blocks /\ op.next.height \in Nat /\ op.next.work \in Nat
      BY <1>3 DEF OpOK
    <2>2. /\ Header[b].prev \in Blocks \cup {NoHash}
          /\ Header[b].bits \in Bits /\ Header[b].ts \in Nat
      BY <2>1, HeaderFields
    <2> QED
      BY <2>1, <2>2 DEF Idx
  <1>5. e.prev = Header[b].prev /\ e.work =< BranchWork[b]
    BY <1>3 DEF OpOK
  <1> HIDE DEF e
  <1>6. /\ EntriesOK(index') /\ DOMAIN index' = DOMAIN index \cup {b}
        /\ index'[b] = e
        /\ \A x \in DOMAIN index : x # b => index'[x] = index[x]
    <2>1. EntriesOK(index)
      BY DEF StoreInv, MemoryOK
    <2> HIDE DEF b
    <2> QED
      BY <1>1, <1>4, <1>5, <2>1, InsertEntry
  <1>7. /\ op' # NoOp /\ OpShape(op') /\ op'.at = "blocks"
        /\ op'.kind = op.kind /\ op'.block = op.block /\ op'.next = op.next
    BY <1>1, <1>3, NextWrite DEF OpOK
  <1>8. MemoryOK'
    BY <1>2, <1>6 DEF StoreInv, MemoryOK
  <1>9. DiskOK' /\ TipIsStored' /\ BranchesAreStored'
    BY <1>1 DEF StoreInv, DiskOK, TipIsStored, BranchesAreStored
  <1>10. WorkIsNotOverstated'
    BY <1>1, <1>2, <1>5, <1>6 DEF StoreInv, WorkIsNotOverstated
  <1>11. OpOK'
    BY <1>1, <1>2, <1>3, <1>6, <1>7
       DEF OpOK, BeforeIndex, Unindexed, Indexed, Published, TipWritten
  <1>12. NodeOK'
    BY <1>1, <1>2, <1>6, <1>7 DEF StoreInv, NodeOK, Unindexed
  <1> QED
    BY <1>8, <1>9, <1>10, <1>11, <1>12 DEF StoreInv

LEMMA WriteBodyInv ==
  ASSUME StoreInv, up, op # NoOp, WriteBody
  PROVE  StoreInv'
PROOF
  <1>1. /\ op.at = "blocks" /\ goto("idx")
        /\ disk' = [disk EXCEPT !.blocks = @ \cup {op.block}]
        /\ UNCHANGED <<index, height, tip, tip_work, up, io_errors>>
    BY DEF WriteBody, on_disk, vars, tip_vars
  <1>2. /\ disk'.blocks = disk.blocks \cup {op.block} /\ disk'.idx = disk.idx
        /\ disk'.tip = disk.tip /\ disk'.tipwork = disk.tipwork
        /\ disk'.height = disk.height
        /\ disk' = [utxo |-> disk'.utxo, blocks |-> disk'.blocks,
                    idx |-> disk'.idx, tip |-> disk'.tip,
                    height |-> disk'.height, supply |-> disk'.supply,
                    tipwork |-> disk'.tipwork]
    BY <1>1 DEF StoreInv, DiskOK
  <1>3. OpOK
    BY DEF StoreInv
  <1>4. /\ op' # NoOp /\ OpShape(op') /\ op'.at = "idx"
        /\ op'.kind = op.kind /\ op'.block = op.block /\ op'.next = op.next
    BY <1>1, <1>3, NextWrite DEF OpOK
  <1>5. MemoryOK' /\ DiskOK' /\ TipIsStored' /\ BranchesAreStored'
        /\ WorkIsNotOverstated'
    BY <1>1, <1>2 DEF StoreInv, MemoryOK, DiskOK, TipIsStored,
                      BranchesAreStored, WorkIsNotOverstated
  <1>6. OpOK'
    BY <1>1, <1>2, <1>3, <1>4
       DEF OpOK, BeforeIndex, Unindexed, Indexed, Published, TipWritten
  <1>7. NodeOK'
    BY <1>1, <1>2, <1>4 DEF StoreInv, NodeOK, Unindexed
  <1> QED
    BY <1>5, <1>6, <1>7 DEF StoreInv

\* The entry reaches the disk after those of the branch below it.
LEMMA WriteEntryInv ==
  ASSUME StoreInv, up, op # NoOp, WriteEntry
  PROVE  StoreInv'
PROOF
  <1> DEFINE b == op.block
  <1>1. /\ op.at = "idx" /\ AfterEntry
        /\ disk' = [disk EXCEPT !.idx = Insert(@, b, index[b])]
        /\ UNCHANGED <<index, height, tip, tip_work, up, io_errors>>
    BY DEF WriteEntry, on_disk, vars, tip_vars
  <1>2. /\ disk'.blocks = disk.blocks /\ disk'.idx = Insert(disk.idx, b, index[b])
        /\ disk'.tip = disk.tip /\ disk'.tipwork = disk.tipwork
        /\ disk'.height = disk.height
        /\ disk' = [utxo |-> disk'.utxo, blocks |-> disk'.blocks,
                    idx |-> disk'.idx, tip |-> disk'.tip,
                    height |-> disk'.height, supply |-> disk'.supply,
                    tipwork |-> disk'.tipwork]
    BY <1>1 DEF StoreInv, DiskOK
  <1>3. OpOK
    BY DEF StoreInv
  <1>4. /\ b \in Blocks /\ b \in DOMAIN index /\ b \in disk.blocks
    BY <1>1, <1>3 DEF OpOK, BeforeIndex
  <1>5. /\ index[b] \in Idx /\ index[b].prev = Header[b].prev
        /\ index[b].work =< BranchWork[b]
    BY <1>4 DEF StoreInv, MemoryOK, EntriesOK, IsMap
  <1>6. /\ EntriesOK(disk'.idx) /\ DOMAIN disk'.idx = DOMAIN disk.idx \cup {b}
        /\ disk'.idx[b] = index[b]
        /\ \A x \in DOMAIN disk.idx : x # b => disk'.idx[x] = disk.idx[x]
    BY <1>2, <1>4, <1>5, InsertEntry DEF StoreInv, DiskOK
  <1>7. \/ op.kind = "side" /\ op' = NoOp
        \/ /\ op.kind # "side" /\ op' # NoOp /\ OpShape(op')
           /\ op'.at \in {"replay", "publish"}
           /\ op'.at = "replay" => op.kind = "switch"
           /\ op'.kind = op.kind /\ op'.block = b /\ op'.next = op.next
    <2>1. CASE op.kind = "side"
      BY <1>1, <2>1 DEF AfterEntry, return
    <2>2. CASE op.kind = "switch"
      <3>1. goto("replay")
        BY <1>1, <2>2 DEF AfterEntry
      <3> QED
        BY <1>3, <2>2, <3>1, NextWrite DEF OpOK
    <2>3. CASE op.kind \notin {"side", "switch"}
      <3>1. goto("publish")
        BY <1>1, <2>3 DEF AfterEntry
      <3> QED
        BY <1>3, <2>3, <3>1, NextWrite DEF OpOK
    <2> QED
      BY <2>1, <2>2, <2>3
  <1>8. MemoryOK'
    BY <1>1 DEF StoreInv, MemoryOK
  <1>9. DiskOK'
    BY <1>2, <1>6 DEF StoreInv, DiskOK
  <1>10. TipIsStored'
    BY <1>2, <1>4, <1>6 DEF StoreInv, TipIsStored
  <1>11. BranchesAreStored'
    <2> SUFFICES ASSUME io_errors = 0, NEW x \in DOMAIN disk'.idx \ {Genesis}
                 PROVE  disk'.idx[x].prev \in DOMAIN disk'.idx
      BY <1>1 DEF BranchesAreStored
    <2>1. CASE x # b
      BY <1>6, <2>1 DEF StoreInv, BranchesAreStored
    <2>2. CASE x = b
      <3>1. Header[b].prev \in DOMAIN index
        BY <1>3, <2>2 DEF OpOK
      <3>2. Header[b].prev # b
        <4>1. {b} \in SUBSET Blocks /\ {b} # {}
          BY <1>4
        <4> QED
          BY <4>1, AcyclicAssumption
      <3>3. Header[b].prev \in DOMAIN disk.idx
        BY <3>1, <3>2 DEF StoreInv, NodeOK
      <3> QED
        BY <1>5, <1>6, <2>2, <3>3
    <2> QED
      BY <2>1, <2>2
  <1>12. WorkIsNotOverstated'
    BY <1>1, <1>2 DEF StoreInv, WorkIsNotOverstated
  <1>13. OpOK'
    BY <1>1, <1>2, <1>3, <1>4, <1>6, <1>7
       DEF OpOK, BeforeIndex, Unindexed, Indexed, Published, TipWritten
  <1>14. NodeOK'
    <2>1. /\ up' => disk'.tipwork =< tip_work'
          /\ io_errors' \in Nat
      BY <1>1, <1>2 DEF StoreInv, NodeOK
    <2>2. up' /\ op' = NoOp => tip' \in DOMAIN index'
      BY <1>1, <1>3, <1>7 DEF OpOK
    <2>3. up' /\ io_errors' = 0 => \A x \in DOMAIN index' : x \in DOMAIN disk'.idx
      BY <1>1, <1>6 DEF StoreInv, NodeOK
    <2> QED
      BY <2>1, <2>2, <2>3 DEF NodeOK
  <1> QED
    BY <1>8, <1>9, <1>10, <1>11, <1>12, <1>13, <1>14 DEF StoreInv

LEMMA ReplayInv ==
  ASSUME StoreInv, up, op # NoOp, Replay
  PROVE  StoreInv'
PROOF
  <1> DEFINE after == outcome(index, op.block, validated)
  <1>1. /\ op.at = "replay"
        /\ UNCHANGED <<disk, up, io_errors, ledger_vars, tip_vars, index>>
        /\ IF after = Invalid THEN op' = NoOp
           ELSE op' = [op EXCEPT !.at = "clear", !.next.ledger = after]
    BY DEF Replay, in_memory, return
  <1> HIDE DEF after
  <1>2. UNCHANGED <<index, height, tip, tip_work, disk>>
    BY <1>1 DEF tip_vars
  <1>3. OpOK
    BY DEF StoreInv
  <1>4. \/ op' = NoOp
        \/ /\ op' # NoOp /\ OpShape(op') /\ op'.at = "clear"
           /\ op'.kind = op.kind /\ op'.block = op.block
           /\ op'.next.tip = op.next.tip /\ op'.next.height = op.next.height
           /\ op'.next.work = op.next.work
    <2>1. CASE after = Invalid
      BY <1>1, <2>1
    <2>2. CASE after # Invalid
      <3> DEFINE n == [op.next EXCEPT !.ledger = after]
      <3>1. /\ op = [kind |-> op.kind, at |-> op.at, block |-> op.block,
                     next |-> op.next, before |-> op.before]
            /\ op.next = [tip |-> op.next.tip, height |-> op.next.height,
                          work |-> op.next.work, ledger |-> op.next.ledger]
        BY <1>3 DEF OpOK, OpShape, Target
      <3>2. n = Target(op.next.tip, op.next.height, op.next.work, after)
        BY <3>1 DEF Target
      <3>3. op' = [op EXCEPT !.at = "clear", !.next = n]
        BY <1>1, <2>2
      <3> HIDE DEF n
      <3>4. op' = [kind |-> op.kind, at |-> "clear", block |-> op.block,
                   next |-> n, before |-> op.before]
        BY <3>1, <3>3
      <3> QED
        BY <3>2, <3>4 DEF OpShape, Target, NoOp
    <2> QED
      BY <2>1, <2>2
  <1>5. MemoryOK' /\ DiskOK' /\ TipIsStored' /\ WorkIsNotOverstated'
    BY <1>2, SameStore
  <1>6. BranchesAreStored'
    BY <1>1 DEF StoreInv, BranchesAreStored
  <1>7. OpOK'
    BY <1>1, <1>2, <1>3, <1>4
       DEF OpOK, BeforeIndex, Unindexed, Indexed, Published, TipWritten
  <1>8. NodeOK'
    <2>1. op.kind # "genesis" => tip \in DOMAIN index
      BY <1>3 DEF OpOK
    <2>2. op.kind = "switch"
      BY <1>1, <1>3 DEF OpOK
    <2>3. op.at \notin Unindexed
      BY <1>1 DEF Unindexed
    <2> QED
      BY <1>1, <1>2, <1>4, <2>1, <2>2, <2>3 DEF StoreInv, NodeOK
  <1> QED
    BY <1>5, <1>6, <1>7, <1>8 DEF StoreInv

\* What readers see changes to what the operation has prepared.
LEMMA PublishInv ==
  ASSUME StoreInv, up, op # NoOp, Publish
  PROVE  StoreInv'
PROOF
  <1>1. /\ op.at = "publish" /\ goto("tip")
        /\ tip' = op.next.tip /\ height' = op.next.height
        /\ tip_work' = op.next.work
        /\ UNCHANGED <<index, disk, up, io_errors>>
    BY DEF Publish, in_memory
  <1>2. OpOK
    BY DEF StoreInv
  <1>3. /\ op' # NoOp /\ OpShape(op') /\ op'.at = "tip"
        /\ op'.kind = op.kind /\ op'.block = op.block /\ op'.next = op.next
    BY <1>1, <1>2, NextWrite DEF OpOK
  <1>4. /\ tip' = op.block /\ op.block \in DOMAIN index
        /\ op.next.height \in Nat /\ op.next.work \in Nat
        /\ op.next.work =< BranchWork[op.block]
        /\ tip_work =< op.next.work
    BY <1>1, <1>2
       DEF OpOK, BeforeIndex, Unindexed, Indexed, Published
  <1>5. MemoryOK'
    BY <1>1, <1>4 DEF StoreInv, MemoryOK
  <1>6. DiskOK' /\ TipIsStored' /\ BranchesAreStored'
    BY <1>1 DEF StoreInv, DiskOK, TipIsStored, BranchesAreStored
  <1>7. WorkIsNotOverstated'
    BY <1>1, <1>4 DEF StoreInv, WorkIsNotOverstated
  <1>8. OpOK'
    BY <1>1, <1>2, <1>3, <1>4
       DEF OpOK, BeforeIndex, Unindexed, Indexed, Published, TipWritten
  <1>9. NodeOK'
    <2>1. disk.tipwork \in Nat /\ tip_work \in Nat /\ disk.tipwork =< tip_work
      BY DEF StoreInv, NodeOK, DiskOK, MemoryOK
    <2>2. disk'.tipwork =< tip_work'
      BY <1>1, <1>4, <2>1
    <2>3. op.at \notin Unindexed
      BY <1>1 DEF Unindexed
    <2> QED
      BY <1>1, <1>3, <2>2, <2>3 DEF StoreInv, NodeOK
  <1> QED
    BY <1>5, <1>6, <1>7, <1>8, <1>9 DEF StoreInv

\* One of the four keys: the tip and the work are those of the operation, the
\* others nothing depends on.
LEMMA KeyWriteInv ==
  ASSUME StoreInv, up, op # NoOp, op.at \in Published,
         disk' = [disk EXCEPT !.tip = op.block, !.height = disk'.height,
                              !.supply = disk'.supply,
                              !.tipwork = disk'.tipwork],
         UNCHANGED <<vars, up, io_errors>>,
         disk'.height \in Nat, disk'.tipwork \in {disk.tipwork, op.next.work},
         op' = NoOp \/ \E at \in TipWritten : goto(at)
  PROVE  StoreInv'
PROOF
  <1> DEFINE w == disk'.tipwork
  <1>1. /\ disk'.blocks = disk.blocks /\ disk'.idx = disk.idx
        /\ disk'.tip = op.block
        /\ disk' = [utxo |-> disk'.utxo, blocks |-> disk'.blocks,
                    idx |-> disk'.idx, tip |-> disk'.tip,
                    height |-> disk'.height, supply |-> disk'.supply,
                    tipwork |-> disk'.tipwork]
    BY DEF StoreInv, DiskOK
  <1>2. UNCHANGED <<index, height, tip, tip_work, up, io_errors>>
    BY DEF vars, tip_vars
  <1>3. OpOK
    BY DEF StoreInv
  <1>4. /\ op.block \in Blocks /\ op.block \in DOMAIN index
        /\ op.block \in DOMAIN disk.idx
        /\ tip = op.block /\ tip_work = op.next.work
        /\ op.next.work \in Nat /\ op.next.work =< BranchWork[op.block]
        /\ op.kind # "side"
    BY <1>3 DEF OpOK, BeforeIndex, Unindexed, Published
  <1>5. /\ disk.tipwork \in Nat /\ disk.tipwork =< tip_work
        /\ disk.tip = NoHash => disk.tipwork = 0
    BY DEF StoreInv, NodeOK, DiskOK
  <1>6. w \in Nat /\ w =< tip_work
    BY <1>4, <1>5
  <1> HIDE DEF w
  <1>7. op.block # NoHash
    BY <1>4, ChainAssumption
  <1>8. MemoryOK' /\ BranchesAreStored'
    BY <1>1, <1>2 DEF StoreInv, MemoryOK, BranchesAreStored
  <1>9. DiskOK'
    BY <1>1, <1>6, <1>7 DEF StoreInv, DiskOK, w
  <1>10. TipIsStored'
    BY <1>1, <1>4 DEF StoreInv, TipIsStored
  <1>11. WorkIsNotOverstated'
    <2>1. w =< BranchWork[op.block]
      BY <1>4, <1>6, BranchWorkNat
    <2> QED
      BY <1>1, <1>2, <2>1 DEF StoreInv, WorkIsNotOverstated, w
  <1>12. OpOK'
    <2>1. CASE op' = NoOp
      BY <2>1 DEF OpOK
    <2>2. CASE \E at \in TipWritten : goto(at)
      <3>1. PICK at \in TipWritten : goto(at)
        BY <2>2
      <3>2. /\ op' # NoOp /\ OpShape(op') /\ op'.at = at
            /\ op'.kind = op.kind /\ op'.block = op.block
            /\ op'.next = op.next
        BY <1>3, <3>1, NextWrite DEF OpOK, TipWritten
      <3> QED
        BY <1>1, <1>2, <1>3, <1>4, <3>1, <3>2
           DEF OpOK, BeforeIndex, Unindexed, Indexed, Published, TipWritten
    <2> QED
      BY <2>1, <2>2
  <1>13. NodeOK'
    <2>1. op.at \notin Unindexed
      BY DEF Published, Unindexed
    <2> QED
      BY <1>1, <1>2, <1>4, <1>6, <2>1 DEF StoreInv, NodeOK, w
  <1> QED
    BY <1>8, <1>9, <1>10, <1>11, <1>12, <1>13 DEF StoreInv

\* persist_meta, key by key.
LEMMA PersistInv ==
  ASSUME StoreInv, up, op # NoOp,
         WriteTip \/ WriteHeight \/ WriteSupply \/ WriteWork
  PROVE  StoreInv'
PROOF
  <1>1. OpOK /\ DiskOK
    BY DEF StoreInv
  <1>2. /\ op.next.tip = op.block /\ op.next.height \in Nat
        /\ op.at \in TipWritten => disk.tip = op.block
    BY <1>1 DEF OpOK
  <1>3. disk.height \in Nat
    BY <1>1 DEF DiskOK
  <1>4. UNCHANGED <<vars, up, io_errors>>
    BY DEF WriteTip, WriteHeight, WriteSupply, WriteWork, on_disk
  <1>5. /\ op.at \in Published
        /\ op' = NoOp \/ \E at \in TipWritten : goto(at)
    BY DEF WriteTip, WriteHeight, WriteSupply, WriteWork, on_disk, return,
           Published, TipWritten
  <1>6. \/ disk' = [disk EXCEPT !.tip = op.block]
        \/ /\ disk.tip = op.block
           /\ \/ disk' = [disk EXCEPT !.height = op.next.height]
              \/ disk' = [disk EXCEPT !.supply = op.next.ledger.supply]
              \/ disk' = [disk EXCEPT !.tipwork = op.next.work]
    BY <1>2 DEF WriteTip, WriteHeight, WriteSupply, WriteWork, on_disk,
                TipWritten
  <1>7. /\ disk' = [disk EXCEPT !.tip = op.block, !.height = disk'.height,
                                !.supply = disk'.supply,
                                !.tipwork = disk'.tipwork]
        /\ disk'.height \in {disk.height, op.next.height}
        /\ disk'.tipwork \in {disk.tipwork, op.next.work}
    BY <1>1, <1>6 DEF DiskOK
  <1> QED
    BY <1>2, <1>3, <1>4, <1>5, <1>7, KeyWriteInv

\* The three writes to the utxo tree.
LEMMA UtxoTreeInv ==
  ASSUME StoreInv, up, op # NoOp, Batch \/ Clear \/ Refill
  PROVE  StoreInv'
PROOF
  <1> DEFINE Write1(u) == disk' = [disk EXCEPT !.utxo = u]
  <1>1. DiskOK
    BY DEF StoreInv
  <1>2. CASE Batch
    <2>1. /\ op.at = "batch" /\ goto("blocks_in_memory")
          /\ \E u : Write1(u)
          /\ UNCHANGED <<vars, up, crashes, io_errors>>
      BY <1>2 DEF Batch, on_disk
    <2>2. op.at \in BeforeIndex
      BY <2>1 DEF BeforeIndex
    <2> QED
      BY <2>1, <2>2, UtxoWriteInv
  <1>3. CASE Clear
    <2>1. /\ op.at = "clear"
          /\ \E u : Write1(u)
          /\ op' = op \/ goto("refill")
          /\ UNCHANGED <<vars, up, crashes, io_errors>>
      <3>1. disk = [disk EXCEPT !.utxo = disk.utxo]
        BY <1>1 DEF DiskOK
      <3> QED
        BY <1>3, <3>1 DEF Clear, on_disk
    <2>2. op.at \in Indexed
      BY <2>1 DEF Indexed
    <2> QED
      BY <2>1, <2>2, UtxoWriteInv
  <1>4. CASE Refill
    <2>1. /\ op.at = "refill" /\ goto("publish")
          /\ \E u : Write1(u)
          /\ UNCHANGED <<vars, up, crashes, io_errors>>
      BY <1>4 DEF Refill, on_disk
    <2>2. op.at \in Indexed
      BY <2>1 DEF Indexed
    <2> QED
      BY <2>1, <2>2, UtxoWriteInv
  <1> QED
    BY <1>2, <1>3, <1>4

\* An operation ends, and with it perhaps the process.
LEMMA EndInv ==
  ASSUME StoreInv, UNCHANGED <<index, height, tip, tip_work, disk>>, op' = NoOp,
         \/ up' = FALSE /\ (io_errors' = io_errors \/ io_errors' = io_errors + 1)
         \/ /\ UNCHANGED <<up, io_errors>>
            /\ op = NoOp \/ op.at = "rebuild"
         \/ /\ up /\ up' /\ io_errors' = io_errors + 1
            /\ op # NoOp /\ op.kind # "genesis"
  PROVE  StoreInv'
PROOF
  <1>1. MemoryOK' /\ DiskOK' /\ TipIsStored' /\ WorkIsNotOverstated'
    BY SameStore
  <1>2. io_errors \in Nat
    BY DEF StoreInv, NodeOK
  <1>3. io_errors' \in Nat /\ (io_errors' = 0 => io_errors = 0)
    BY <1>2
  <1>4. BranchesAreStored'
    BY <1>3 DEF StoreInv, BranchesAreStored
  <1>5. OpOK'
    BY DEF OpOK
  <1>6. NodeOK'
    <2>1. CASE up' = FALSE
      BY <1>3, <2>1 DEF NodeOK
    <2>2. CASE UNCHANGED <<up, io_errors>> /\ op = NoOp
      BY <1>3, <2>2 DEF StoreInv, NodeOK
    <2>3. CASE UNCHANGED <<up, io_errors>> /\ op # NoOp /\ op.at = "rebuild"
      <3>1. tip \in DOMAIN index
        BY <2>3 DEF StoreInv, OpOK, BeforeIndex, Published
      <3>2. op.at \notin Unindexed
        BY <2>3 DEF Unindexed
      <3> QED
        BY <1>3, <2>3, <3>1, <3>2 DEF StoreInv, NodeOK
    <2>4. CASE up /\ up' /\ io_errors' = io_errors + 1
               /\ op # NoOp /\ op.kind # "genesis"
      <3>1. tip \in DOMAIN index /\ io_errors' # 0
        BY <1>2, <2>4 DEF StoreInv, OpOK
      <3> QED
        BY <1>3, <2>4, <3>1 DEF StoreInv, NodeOK
    <2> QED
      BY <2>1, <2>2, <2>3, <2>4
  <1> QED
    BY <1>1, <1>4, <1>5, <1>6 DEF StoreInv

LEMMA StoreNextInv ==
  StoreInv /\ [StoreNext]_store_vars => StoreInv'
PROOF
  <1> SUFFICES ASSUME StoreInv, [StoreNext]_store_vars PROVE StoreInv'
    OBVIOUS
  <1>1. CASE StoreTick \/ UNCHANGED store_vars
    <2>1. UNCHANGED <<index, height, tip, tip_work, disk, up, op, io_errors>>
      BY <1>1 DEF StoreTick, Tick, store_vars, vars, ledger_vars, tip_vars
    <2>2. MemoryOK' /\ DiskOK' /\ TipIsStored' /\ WorkIsNotOverstated'
      BY <2>1, SameStore
    <2>3. OpOK' /\ NodeOK' /\ BranchesAreStored'
      BY <2>1 DEF StoreInv, OpOK, NodeOK, BranchesAreStored
    <2> QED
      BY <2>2, <2>3 DEF StoreInv
  <1>2. CASE Open \/ OpenNew
    BY <1>2, OpenInv, OpenNewInv
  <1>3. CASE Stop \/ Crash
    <2>1. /\ UNCHANGED <<vars, disk, io_errors>>
          /\ up' = FALSE /\ op' = NoOp
      BY <1>3 DEF Stop, Crash, return
    <2>2. UNCHANGED <<index, height, tip, tip_work, disk>>
      BY <2>1 DEF vars, tip_vars
    <2> QED
      BY <2>1, <2>2, EndInv
  <1>4. CASE IoError
    <2>1. /\ UNCHANGED <<vars, disk>> /\ up /\ op # NoOp
          /\ io_errors' = io_errors + 1
          /\ up' = (op.kind # "genesis") /\ op' = NoOp
      BY <1>4 DEF IoError, return
    <2>2. UNCHANGED <<index, height, tip, tip_work, disk>>
      BY <2>1 DEF vars, tip_vars
    <2>3. CASE op.kind = "genesis"
      BY <2>1, <2>2, <2>3, EndInv
    <2>4. CASE op.kind # "genesis"
      BY <2>1, <2>2, <2>4, EndInv
    <2> QED
      BY <2>3, <2>4
  <1>5. CASE \E b \in Blocks : BeginConnect(b) \/ BeginStore(b)
    BY <1>5, BeginConnectInv, BeginStoreInv
  <1>6. CASE up /\ op # NoOp /\ Write
    <2>1. CASE Batch \/ Clear \/ Refill
      BY <1>6, <2>1, UtxoTreeInv
    <2>2. CASE StoreInMemory
      BY <1>6, <2>2, StoreInMemoryInv
    <2>3. CASE WriteBody
      BY <1>6, <2>3, WriteBodyInv
    <2>4. CASE WriteEntry
      BY <1>6, <2>4, WriteEntryInv
    <2>5. CASE Replay
      BY <1>6, <2>5, ReplayInv
    <2>6. CASE Publish
      BY <1>6, <2>6, PublishInv
    <2>7. CASE WriteTip \/ WriteHeight \/ WriteSupply \/ WriteWork
      BY <1>6, <2>7, PersistInv
    <2>8. CASE Rebuild
      <3>1. /\ op.at = "rebuild" /\ op' = NoOp
            /\ UNCHANGED <<index, tip, height, tip_work, disk, up, io_errors>>
        BY <2>8 DEF Rebuild, in_memory, return
      <3> QED
        BY <3>1, EndInv
    <2> QED
      BY <1>6, <2>1, <2>2, <2>3, <2>4, <2>5, <2>6, <2>7, <2>8 DEF Write
  <1> QED
    BY <1>1, <1>2, <1>3, <1>4, <1>5, <1>6 DEF StoreNext

LEMMA StoreInvAlways ==
  StoreSpec => []StoreInv
PROOF
  BY StoreInitInv, StoreNextInv, PTL DEF StoreSpec

\* Whatever crashes and failed writes a history has, the tip a restart would
\* read has an index entry and everything indexed has its body: core/chain.rs
\* writes a body before its entry and the entry before the tip.
THEOREM TipStaysStored ==
  StoreSpec => []TipIsStored
PROOF
  <1>1. StoreInv => TipIsStored
    BY DEF StoreInv
  <1> QED
    BY <1>1, StoreInvAlways, PTL

\* Whatever crashes a history has, as long as no write fails the parent of every
\* indexed block is indexed: accept_block stores a block only on one that it has
\* stored, and holds apply_lock until both are on disk.
THEOREM BranchesStayStored ==
  StoreSpec => []BranchesAreStored
PROOF
  <1>1. StoreInv => BranchesAreStored
    BY DEF StoreInv
  <1> QED
    BY <1>1, StoreInvAlways, PTL

\* Whatever crashes and failed writes a history has, no branch and no tip, in
\* memory or on disk, claims more work than its blocks carry: the tip is written
\* before its work, and an entry takes its work from its parent's.
THEOREM WorkStaysHonest ==
  StoreSpec => []WorkIsNotOverstated
PROOF
  <1>1. StoreInv => WorkIsNotOverstated
    BY DEF StoreInv
  <1> QED
    BY <1>1, StoreInvAlways, PTL

-----------------------------------------------------------------------------
(* What readers are shown *)

\* ChainState, and all that is proved of it, of the state an operation found.
Chain == INSTANCE ChainStateProofs WITH
  utxo <- shown.utxo, coinbase_at <- shown.coinbase_at,
  supply <- shown.supply, tip <- shown.tip, height <- shown.height,
  tip_work <- shown.tip_work, index <- shown.index, headers <- shown.headers,
  height_index <- shown.height_index, validated <- shown.validated

\* The assumptions of its theorems are those made here.
LEMMA Stated ==
  /\ Chain!LedgerAssumption /\ Chain!ChainAssumption
  /\ Chain!GenesisAssumption
  /\ Chain!AcyclicAssumption /\ Chain!TxidAssumption
  /\ Chain!CoinbaseAssumption
  /\ Chain!MaturityAssumption
PROOF
  <1>1. Chain!LedgerAssumption
    BY LedgerAssumption DEF Chain!LedgerAssumption
  <1>2. Chain!ChainAssumption
    BY ChainAssumption
       DEF Chain!ChainAssumption, Chain!IsMap, IsMap, Chain!Transaction,
           Transaction, Chain!TxOut, TxOut, Chain!OutPoint, OutPoint
  <1>3. Chain!GenesisAssumption
    BY GenesisAssumption
       DEF Chain!GenesisAssumption, Chain!EmptyLedger, EmptyLedger,
           Chain!validate_txs, validate_txs, Chain!Fees, Fees, Chain!tx_valid,
           tx_valid, Chain!block_reward, block_reward, Chain!OutputTotal,
           OutputTotal, Chain!Range, Range, Chain!InputTotal, InputTotal,
           Chain!Total, Total, Chain!matured, matured, Chain!Subsidy, Subsidy
  <1>4. Chain!AcyclicAssumption
    BY AcyclicAssumption DEF Chain!AcyclicAssumption
  <1>5. Chain!TxidAssumption
    BY TxidAssumption DEF Chain!TxidAssumption
  <1>6. Chain!CoinbaseAssumption
    BY CoinbaseAssumption DEF Chain!CoinbaseAssumption
  <1>7. Chain!MaturityAssumption
    BY MaturityAssumption
       DEF Chain!MaturityAssumption, Chain!coinbase_outputs, coinbase_outputs,
           Chain!BranchHeight, BranchHeight
  <1> QED
    BY <1>1, <1>2, <1>3, <1>4, <1>5, <1>6, <1>7

\* What depends on no variable means in the instance what it means here.
LEMMA SameInAtomic ==
  /\ \A m, k, v : Atomic!Insert(m, k, v) = Insert(m, k, v)
  /\ \A m, n : Atomic!InsertAll(m, n) = InsertAll(m, n)
  /\ Atomic!EmptyLedger = EmptyLedger
  /\ \A tx : Atomic!OutputTotal(tx) = OutputTotal(tx)
  /\ \A u, txs : Atomic!Fees(u, txs) = Fees(u, txs)
  /\ \A s, out, fees : Atomic!issue(s, out, fees) = issue(s, out, fees)
  /\ \A l, txs, h, sigs :
       Atomic!validate_txs(l, txs, h, sigs)
         <=> validate_txs(l, txs, h, sigs)
  /\ \A l, txs, h : Atomic!apply_each(l, txs, h) = apply_each(l, txs, h)
  /\ \A l, txs, h : Atomic!apply_txs(l, txs, h) = apply_txs(l, txs, h)
  /\ \A idx, b, max : Atomic!ancestors(idx, b, max) = ancestors(idx, b, max)
  /\ \A idx, b : Atomic!bits_for_prev(idx, b) = bits_for_prev(idx, b)
  /\ \A idx, b : Atomic!mtp_branch(idx, b) = mtp_branch(idx, b)
  /\ Atomic!last_checkpoint_height = last_checkpoint_height
  /\ \A b, h, bits, mtp :
       Atomic!validate_block_basic(b, h, bits, mtp)
         <=> validate_block_basic(b, h, bits, mtp)
  /\ \A idx, b : Atomic!path_from_genesis(idx, b) = path_from_genesis(idx, b)
  /\ Atomic!Invalid = Invalid
  /\ \A idx, b, skip : Atomic!replay(idx, b, skip) = replay(idx, b, skip)
  /\ \A idx, b, skip : Atomic!outcome(idx, b, skip) = outcome(idx, b, skip)
  /\ \A idx, b, skip : Atomic!passed(idx, b, skip) = passed(idx, b, skip)
  /\ \A idx, b : Atomic!active(idx, b) = active(idx, b)
  /\ \A idx, b : Atomic!rebuilt_cb(idx, b) = rebuilt_cb(idx, b)
PROOF
  <1>1. \A m, k, v : Atomic!Insert(m, k, v) = Insert(m, k, v)
    BY DEF Atomic!Insert, Insert
  <1>2. \A m, n : Atomic!InsertAll(m, n) = InsertAll(m, n)
    BY DEF Atomic!InsertAll, InsertAll
  <1>3. Atomic!EmptyLedger = EmptyLedger
    BY DEF Atomic!EmptyLedger, EmptyLedger
  <1>4. \A tx : Atomic!OutputTotal(tx) = OutputTotal(tx)
    BY DEF Atomic!OutputTotal, OutputTotal, Atomic!Total, Total
  <1>5. \A u, txs : Atomic!Fees(u, txs) = Fees(u, txs)
    BY DEF Atomic!Fees, Fees, Atomic!Total, Total, Atomic!InputTotal,
           InputTotal, Atomic!OutputTotal, OutputTotal
  <1>6. \A s, out, fees : Atomic!issue(s, out, fees) = issue(s, out, fees)
    BY DEF Atomic!issue, issue
  <1>7. \A l, txs, h, sigs :
       Atomic!validate_txs(l, txs, h, sigs)
         <=> validate_txs(l, txs, h, sigs)
    BY DEF Atomic!validate_txs, validate_txs, Atomic!Fees, Fees, Atomic!Total,
           Total, Atomic!InputTotal, InputTotal, Atomic!OutputTotal,
           OutputTotal, Atomic!tx_valid, tx_valid, Atomic!matured, matured,
           Atomic!block_reward, block_reward, Atomic!Subsidy, Subsidy,
           Atomic!Range, Range
  <1>8. \A l, txs, h : Atomic!apply_each(l, txs, h) = apply_each(l, txs, h)
    BY DEF Atomic!apply_each, apply_each, Atomic!apply_tx, apply_tx,
           Atomic!Created, Created, Atomic!Restrict, Restrict, Atomic!Range,
           Range, Atomic!InsertAll, InsertAll
  <1>9. \A l, txs, h : Atomic!apply_txs(l, txs, h) = apply_txs(l, txs, h)
    BY <1>8, <1>6, <1>4, <1>5 DEF Atomic!apply_txs, apply_txs
  <1>10. \A idx, b, max :
       Atomic!ancestors(idx, b, max)
         = ancestors(idx, b, max)
    BY DEF Atomic!ancestors, ancestors, Atomic!walk, walk
  <1>11. \A idx, b : Atomic!bits_for_prev(idx, b) = bits_for_prev(idx, b)
    BY <1>10 DEF Atomic!bits_for_prev, bits_for_prev
  <1>12. \A idx, b : Atomic!mtp_branch(idx, b) = mtp_branch(idx, b)
    BY DEF Atomic!mtp_branch, mtp_branch, Atomic!ancestors, ancestors,
           Atomic!walk, walk, Atomic!Cardinality, Cardinality
  <1>13. Atomic!last_checkpoint_height = last_checkpoint_height
    BY DEF Atomic!last_checkpoint_height, last_checkpoint_height
  <1>14. \A b, h, bits, mtp :
       Atomic!validate_block_basic(b, h, bits, mtp)
         <=> validate_block_basic(b, h, bits, mtp)
    BY DEF Atomic!validate_block_basic, validate_block_basic
  <1>15. \A idx, b :
       Atomic!path_from_genesis(idx, b)
         = path_from_genesis(idx, b)
    BY DEF Atomic!path_from_genesis, path_from_genesis, Atomic!walk, walk
  <1>16. Atomic!Invalid = Invalid
    BY DEF Atomic!Invalid, Invalid
  <1>17. \A idx, b, skip : Atomic!replay(idx, b, skip) = replay(idx, b, skip)
    BY DEF Atomic!replay, replay, Atomic!path_from_genesis, path_from_genesis,
           Atomic!walk, walk, Atomic!Invalid, Invalid, Atomic!EmptyLedger,
           EmptyLedger, Atomic!validate_txs, validate_txs, Atomic!Fees, Fees,
           Atomic!Total, Total, Atomic!InputTotal, InputTotal,
           Atomic!OutputTotal, OutputTotal, Atomic!tx_valid, tx_valid,
           Atomic!matured, matured, Atomic!block_reward, block_reward,
           Atomic!Subsidy, Subsidy, Atomic!Range, Range, Atomic!apply_txs,
           apply_txs, Atomic!apply_each, apply_each, Atomic!apply_tx,
           apply_tx, Atomic!Created, Created, Atomic!Restrict, Restrict,
           Atomic!InsertAll, InsertAll, Atomic!issue, issue
  <1>18. \A idx, b, skip : Atomic!outcome(idx, b, skip) = outcome(idx, b, skip)
    BY <1>17 DEF Atomic!outcome, outcome
  <1>19. \A idx, b, skip : Atomic!passed(idx, b, skip) = passed(idx, b, skip)
    BY <1>17, <1>15, <1>16 DEF Atomic!passed, passed
  <1>20. \A idx, b : Atomic!active(idx, b) = active(idx, b)
    BY <1>15 DEF Atomic!active, active, Atomic!Range, Range
  <1>21. \A idx, b : Atomic!rebuilt_cb(idx, b) = rebuilt_cb(idx, b)
    BY DEF Atomic!rebuilt_cb, rebuilt_cb, Atomic!path_from_genesis,
           path_from_genesis, Atomic!walk, walk, Atomic!coinbase_outputs,
           coinbase_outputs
  <1> QED
    BY <1>1, <1>2, <1>3, <1>4, <1>5, <1>6, <1>7, <1>8, <1>9, <1>10, <1>11,
       <1>12, <1>13, <1>14, <1>15, <1>16, <1>17, <1>18, <1>19, <1>20, <1>21

\* And in the instance of the theorems.
LEMMA SameInChain ==
  /\ \A m, k, v : Chain!Insert(m, k, v) = Insert(m, k, v)
  /\ \A m, n : Chain!InsertAll(m, n) = InsertAll(m, n)
  /\ Chain!EmptyLedger = EmptyLedger
  /\ \A tx : Chain!OutputTotal(tx) = OutputTotal(tx)
  /\ \A u, txs : Chain!Fees(u, txs) = Fees(u, txs)
  /\ \A s, out, fees : Chain!issue(s, out, fees) = issue(s, out, fees)
  /\ \A l, txs, h, sigs :
       Chain!validate_txs(l, txs, h, sigs)
         <=> validate_txs(l, txs, h, sigs)
  /\ \A l, txs, h : Chain!apply_each(l, txs, h) = apply_each(l, txs, h)
  /\ \A l, txs, h : Chain!apply_txs(l, txs, h) = apply_txs(l, txs, h)
  /\ \A idx, b, max : Chain!ancestors(idx, b, max) = ancestors(idx, b, max)
  /\ \A idx, b : Chain!bits_for_prev(idx, b) = bits_for_prev(idx, b)
  /\ \A idx, b : Chain!mtp_branch(idx, b) = mtp_branch(idx, b)
  /\ Chain!last_checkpoint_height = last_checkpoint_height
  /\ \A b, h, bits, mtp :
       Chain!validate_block_basic(b, h, bits, mtp)
         <=> validate_block_basic(b, h, bits, mtp)
  /\ \A idx, b : Chain!path_from_genesis(idx, b) = path_from_genesis(idx, b)
  /\ Chain!Invalid = Invalid
  /\ \A idx, b, skip : Chain!replay(idx, b, skip) = replay(idx, b, skip)
  /\ \A idx, b, skip : Chain!outcome(idx, b, skip) = outcome(idx, b, skip)
  /\ \A idx, b, skip : Chain!passed(idx, b, skip) = passed(idx, b, skip)
  /\ \A idx, b : Chain!active(idx, b) = active(idx, b)
  /\ \A idx, b : Chain!rebuilt_cb(idx, b) = rebuilt_cb(idx, b)
PROOF
  <1>1. \A m, k, v : Chain!Insert(m, k, v) = Insert(m, k, v)
    BY DEF Chain!Insert, Insert
  <1>2. \A m, n : Chain!InsertAll(m, n) = InsertAll(m, n)
    BY DEF Chain!InsertAll, InsertAll
  <1>3. Chain!EmptyLedger = EmptyLedger
    BY DEF Chain!EmptyLedger, EmptyLedger
  <1>4. \A tx : Chain!OutputTotal(tx) = OutputTotal(tx)
    BY DEF Chain!OutputTotal, OutputTotal, Chain!Total, Total
  <1>5. \A u, txs : Chain!Fees(u, txs) = Fees(u, txs)
    BY DEF Chain!Fees, Fees, Chain!Total, Total, Chain!InputTotal, InputTotal,
           Chain!OutputTotal, OutputTotal
  <1>6. \A s, out, fees : Chain!issue(s, out, fees) = issue(s, out, fees)
    BY DEF Chain!issue, issue
  <1>7. \A l, txs, h, sigs :
       Chain!validate_txs(l, txs, h, sigs)
         <=> validate_txs(l, txs, h, sigs)
    BY DEF Chain!validate_txs, validate_txs, Chain!Fees, Fees, Chain!Total,
           Total, Chain!InputTotal, InputTotal, Chain!OutputTotal,
           OutputTotal, Chain!tx_valid, tx_valid, Chain!matured, matured,
           Chain!block_reward, block_reward, Chain!Subsidy, Subsidy,
           Chain!Range, Range
  <1>8. \A l, txs, h : Chain!apply_each(l, txs, h) = apply_each(l, txs, h)
    BY DEF Chain!apply_each, apply_each, Chain!apply_tx, apply_tx,
           Chain!Created, Created, Chain!Restrict, Restrict, Chain!Range,
           Range, Chain!InsertAll, InsertAll
  <1>9. \A l, txs, h : Chain!apply_txs(l, txs, h) = apply_txs(l, txs, h)
    BY <1>8, <1>6, <1>4, <1>5 DEF Chain!apply_txs, apply_txs
  <1>10. \A idx, b, max : Chain!ancestors(idx, b, max) = ancestors(idx, b, max)
    BY DEF Chain!ancestors, ancestors, Chain!walk, walk
  <1>11. \A idx, b : Chain!bits_for_prev(idx, b) = bits_for_prev(idx, b)
    BY <1>10 DEF Chain!bits_for_prev, bits_for_prev
  <1>12. \A idx, b : Chain!mtp_branch(idx, b) = mtp_branch(idx, b)
    BY DEF Chain!mtp_branch, mtp_branch, Chain!ancestors, ancestors,
           Chain!walk, walk, Chain!Cardinality, Cardinality
  <1>13. Chain!last_checkpoint_height = last_checkpoint_height
    BY DEF Chain!last_checkpoint_height, last_checkpoint_height
  <1>14. \A b, h, bits, mtp :
       Chain!validate_block_basic(b, h, bits, mtp)
         <=> validate_block_basic(b, h, bits, mtp)
    BY DEF Chain!validate_block_basic, validate_block_basic
  <1>15. \A idx, b :
       Chain!path_from_genesis(idx, b)
         = path_from_genesis(idx, b)
    BY DEF Chain!path_from_genesis, path_from_genesis, Chain!walk, walk
  <1>16. Chain!Invalid = Invalid
    BY DEF Chain!Invalid, Invalid
  <1>17. \A idx, b, skip : Chain!replay(idx, b, skip) = replay(idx, b, skip)
    BY DEF Chain!replay, replay, Chain!path_from_genesis, path_from_genesis,
           Chain!walk, walk, Chain!Invalid, Invalid, Chain!EmptyLedger,
           EmptyLedger, Chain!validate_txs, validate_txs, Chain!Fees, Fees,
           Chain!Total, Total, Chain!InputTotal, InputTotal,
           Chain!OutputTotal, OutputTotal, Chain!tx_valid, tx_valid,
           Chain!matured, matured, Chain!block_reward, block_reward,
           Chain!Subsidy, Subsidy, Chain!Range, Range, Chain!apply_txs,
           apply_txs, Chain!apply_each, apply_each, Chain!apply_tx, apply_tx,
           Chain!Created, Created, Chain!Restrict, Restrict, Chain!InsertAll,
           InsertAll, Chain!issue, issue
  <1>18. \A idx, b, skip : Chain!outcome(idx, b, skip) = outcome(idx, b, skip)
    BY <1>17 DEF Chain!outcome, outcome
  <1>19. \A idx, b, skip : Chain!passed(idx, b, skip) = passed(idx, b, skip)
    BY <1>17, <1>15, <1>16 DEF Chain!passed, passed
  <1>20. \A idx, b : Chain!active(idx, b) = active(idx, b)
    BY <1>15 DEF Chain!active, active, Chain!Range, Range
  <1>21. \A idx, b : Chain!rebuilt_cb(idx, b) = rebuilt_cb(idx, b)
    BY DEF Chain!rebuilt_cb, rebuilt_cb, Chain!path_from_genesis,
           path_from_genesis, Chain!walk, walk, Chain!coinbase_outputs,
           coinbase_outputs
  <1> QED
    BY <1>1, <1>2, <1>3, <1>4, <1>5, <1>6, <1>7, <1>8, <1>9, <1>10, <1>11,
       <1>12, <1>13, <1>14, <1>15, <1>16, <1>17, <1>18, <1>19, <1>20, <1>21

\* The two instances of ChainState take the same steps.
LEMMA ChainStep ==
  [Atomic!Next]_(Atomic!vars) => [Chain!Next]_(Chain!vars)
PROOF
  <1> SUFFICES ASSUME [Atomic!Next]_(Atomic!vars)
               PROVE  [Chain!Next]_(Chain!vars)
    OBVIOUS
  <1> USE SameInAtomic, SameInChain
  <1>1. \A b : Chain!connects(b) <=> Atomic!connects(b)
    <2>1. Chain!ledger = Atomic!ledger
      BY DEF Chain!ledger, Atomic!ledger
    <2> QED
      BY <2>1 DEF Chain!connects, Atomic!connects
  <1>2. \A b : Chain!connect_tip(b) <=> Atomic!connect_tip(b)
    BY <1>1
       DEF Chain!connect_tip, Atomic!connect_tip, Chain!ledger, Atomic!ledger
  <1>3. \A b : Chain!storable(b) <=> Atomic!storable(b)
    BY DEF Chain!storable, Atomic!storable, Chain!validate_block_basic,
           Atomic!validate_block_basic
  <1>4. \A b : /\ Chain!heavier(b) <=> Atomic!heavier(b)
               /\ Chain!store_block_meta(b) <=> Atomic!store_block_meta(b)
    BY DEF Chain!heavier, Atomic!heavier, Chain!entry, Atomic!entry,
           Chain!store_block_meta, Atomic!store_block_meta
  <1>5. \A t : Chain!rebuild_active(t) <=> Atomic!rebuild_active(t)
    BY DEF Chain!rebuild_active, Atomic!rebuild_active
  <1>6. \A b : /\ Chain!AcceptSide(b) <=> Atomic!AcceptSide(b)
               /\ Chain!AcceptAndSwitch(b) <=> Atomic!AcceptAndSwitch(b)
               /\ Chain!AcceptInvalidBranch(b) <=> Atomic!AcceptInvalidBranch(b)
    BY <1>3, <1>4, <1>5
       DEF Chain!AcceptSide, Atomic!AcceptSide, Chain!AcceptAndSwitch,
           Atomic!AcceptAndSwitch, Chain!AcceptInvalidBranch,
           Atomic!AcceptInvalidBranch, Chain!ledger_vars, Chain!tip_vars,
           Atomic!ledger_vars, Atomic!tip_vars
  <1>7. \A b, h : Chain!ApplyBlock(b, h) <=> Atomic!ApplyBlock(b, h)
    BY <1>2 DEF Chain!ApplyBlock, Atomic!ApplyBlock
  <1>8. \A b : Chain!AcceptOnTip(b) <=> Atomic!AcceptOnTip(b)
    BY <1>2 DEF Chain!AcceptOnTip, Atomic!AcceptOnTip
  <1>9. Chain!Reopen <=> Atomic!Reopen
    BY <1>5 DEF Chain!Reopen, Atomic!Reopen
  <1>10. /\ Chain!Tick <=> Atomic!Tick
         /\ Chain!vars' = Chain!vars <=> Atomic!vars' = Atomic!vars
    BY DEF Chain!Tick, Atomic!Tick, Chain!vars, Atomic!vars, Chain!ledger_vars,
           Chain!tip_vars, Atomic!ledger_vars, Atomic!tip_vars
  <1> QED
    BY <1>6, <1>7, <1>8, <1>9, <1>10 DEF Chain!Next, Atomic!Next

-----------------------------------------------------------------------------
(* Histories without a fault *)

\* What memory held when the operation began: before the first start, nothing.
NoChain ==
  [utxo |-> << >>, coinbase_at |-> << >>, supply |-> 0, tip |-> NoHash,
   height |-> 0, tip_work |-> 0, index |-> << >>, headers |-> << >>,
   height_index |-> << >>, validated |-> {}]

found == IF op.kind = "genesis" THEN NoChain ELSE op.before

connecting == op.kind \in {"genesis", "connect"}

NewBlock(b, h, w) ==
  [prev |-> Header[b].prev, height |-> h, work |-> w, ts |-> Header[b].ts,
   bits |-> Header[b].bits]

indexed == Insert(found.index, op.block,
                  NewBlock(op.block, op.next.height, op.next.work))

\* The chain a new database begins with.
Started ==
  LET start == apply_txs(EmptyLedger, Txs[Genesis], 0)
      work  == work_from_bits(Header[Genesis].bits)
  IN  [utxo |-> start.utxo, coinbase_at |-> start.cb, supply |-> start.supply,
       tip |-> Genesis, height |-> 0, tip_work |-> work,
       index |-> Insert(<< >>, Genesis, NewBlock(Genesis, 0, work)),
       headers |-> Insert(<< >>, Genesis, 0),
       height_index |-> Insert(<< >>, 0, Genesis), validated |-> {Genesis}]

\* Where a switch has replayed its branch, and where it has refilled the tree.
Replayed == {"clear", "refill", "publish"} \cup Published
Refilled == {"publish"} \cup Published

\* What the operation will come to follows from what it found.
Planned ==
  LET b == op.block
      m == op.before
      n == op.next
      w == work_from_bits(Header[b].bits)
  IN  /\ op.kind \in {"genesis", "connect", "side", "switch"}
      /\ op.at \in BeforeIndex => connecting
      /\ op.at \in {"replay", "clear", "refill", "rebuild"}
           => op.kind = "switch"
      /\ op.kind = "genesis" =>
           /\ b = Genesis /\ m = Started
           /\ n = Target(b, 0, w, apply_txs(EmptyLedger, Txs[b], 0))
      /\ op.kind = "connect" =>
           /\ Atomic!connects(b)
           /\ n = Target(b, m.height + 1, m.tip_work + w,
                         apply_txs([utxo |-> m.utxo, cb |-> m.coinbase_at,
                                    supply |-> m.supply],
                                   Txs[b], m.height + 1))
      /\ op.kind \in {"side", "switch"} =>
           /\ Atomic!storable(b)
           /\ Atomic!heavier(b) <=> op.kind = "switch"
           /\ n.height = m.index[Header[b].prev].height + 1
           /\ n.work = m.index[Header[b].prev].work + w
      /\ op.kind = "switch" /\ op.at \in Replayed =>
           /\ n.ledger = outcome(indexed, b, m.validated)
           /\ n.ledger # Invalid

\* What memory holds while an operation is under way.
MemoryTold ==
  LET published == op.at \in Published
      new(x, y) == IF published THEN x ELSE y
  IN  /\ utxo = IF connecting \/ published THEN op.next.ledger.utxo
                                           ELSE found.utxo
      /\ coinbase_at = IF connecting \/ published THEN op.next.ledger.cb
                                                  ELSE found.coinbase_at
      /\ supply = new(op.next.ledger.supply, found.supply)
      /\ tip = new(op.block, found.tip)
      /\ height = new(op.next.height, found.height)
      /\ tip_work = new(op.next.work, found.tip_work)
      /\ index = IF op.at \in BeforeIndex THEN found.index ELSE indexed
      /\ headers = IF connecting /\ published
                   THEN Insert(found.headers, op.block, op.next.height)
                   ELSE found.headers
      /\ height_index = IF connecting /\ published
                        THEN Insert(found.height_index, op.next.height, op.block)
                        ELSE found.height_index
      /\ validated = IF connecting /\ published
                     THEN found.validated \cup {op.block}
                     ELSE IF op.kind = "switch" /\ op.at \in Replayed
                     THEN found.validated
                            \cup passed(indexed, op.block, found.validated)
                     ELSE found.validated

\* What the disk holds.
DiskTold ==
  LET past(S, x, y) == IF op.at \in S THEN x ELSE y
  IN  /\ IF connecting
         THEN disk.utxo = past({"batch"}, found.utxo, op.next.ledger.utxo)
         ELSE /\ op.at \in Refilled => disk.utxo = op.next.ledger.utxo
              /\ op.at = "refill" => disk.utxo = << >>
              /\ op.at = "clear"
                   => disk.utxo = Restrict(found.utxo, DOMAIN disk.utxo)
              /\ op.at \in Unindexed \cup {"replay"}
                   => disk.utxo = found.utxo
      /\ disk.idx = past(BeforeIndex \cup Unindexed, found.index, indexed)
      /\ disk.tip = past(TipWritten, op.block, found.tip)
      /\ disk.height = past({"supply", "tipwork", "rebuild"},
                            op.next.height, found.height)
      /\ disk.supply = past({"tipwork", "rebuild"},
                            op.next.ledger.supply, found.supply)
      /\ disk.tipwork = past({"rebuild"}, op.next.work, found.tip_work)

\* Between two operations the disk holds what memory does.
AtRest ==
  IF disk.tip = NoHash
  THEN ~ up /\ disk = EmptyDisk /\ committed = Started
  ELSE /\ disk.utxo = utxo /\ disk.supply = supply /\ disk.tip = tip
       /\ disk.height = height /\ disk.tipwork = tip_work /\ disk.idx = index

UnderWay == Planned /\ MemoryTold /\ DiskTold

Told == IF op = NoOp THEN AtRest ELSE UnderWay

\* What readers are shown is a state of ChainState that follows the heaviest valid
\* branch; what memory and disk hold follows from it and from the next write.
FaultlessInv ==
  /\ crashes \in Nat
  /\ crashes = 0 /\ io_errors = 0 =>
       /\ Chain!ForkInv
       /\ Told

\* A state of a history without a fault.
Faultless == StoreInv /\ FaultlessInv /\ crashes = 0 /\ io_errors = 0

-----------------------------------------------------------------------------
(* The writes within an operation *)

\* What is known of the state an operation found.
LEMMA ShownTypes ==
  ASSUME Chain!ForkInv
  PROVE  /\ IsMap(shown.utxo, OutPoint, TxOut)
         /\ IsMap(shown.coinbase_at, OutPoint, Nat)
         /\ shown.supply \in Nat
         /\ shown.tip \in Blocks /\ shown.height \in Nat
         /\ shown.tip_work \in Nat
         /\ IndexMap(shown.index) /\ IsTree(shown.index)
         /\ shown.tip \in DOMAIN shown.index
         /\ shown.height = shown.index[shown.tip].height
         /\ shown.tip_work = shown.index[shown.tip].work
         /\ shown.validated \subseteq Blocks
PROOF
  <1>1. \A f, S, T : Chain!IsMap(f, S, T) <=> IsMap(f, S, T)
    BY DEF Chain!IsMap, IsMap
  <1>2. Chain!OutPoint = OutPoint /\ Chain!TxOut = TxOut /\ Chain!Idx = Idx
    BY DEF Chain!OutPoint, OutPoint, Chain!TxOut, TxOut, Chain!Idx, Idx
  <1>3. Chain!TypeOK /\ Chain!IndexIsTree
    BY DEF Chain!ForkInv, Chain!IInv
  <1> QED
    BY <1>1, <1>2, <1>3
       DEF Chain!TypeOK, Chain!IndexIsTree, Chain!IsTree, IsTree, IndexMap

\* With what it found, an operation has a ledger to apply its block to.
LEMMA ShownLedger ==
  ASSUME Chain!ForkInv
  PROVE  [utxo |-> shown.utxo, cb |-> shown.coinbase_at,
          supply |-> shown.supply] \in LedgerSet
PROOF
  BY ShownTypes, MapSet DEF LedgerSet

\* What a faultless history shows is the outcome of the branch it ends, and its
\* marks are on blocks that replay.
LEMMA ShownOutcome ==
  ASSUME Chain!ForkInv
  PROVE  /\ outcome(shown.index, shown.tip, {}) # Invalid
         /\ shown.utxo = outcome(shown.index, shown.tip, {}).utxo
         /\ \A b \in shown.validated :
               /\ b \in DOMAIN shown.index
               /\ outcome(shown.index, b, {}) # Invalid
PROOF
  BY SameInChain
     DEF Chain!ForkInv, Chain!LedgerIsOutcome, Chain!ValidatedIsSound

\* A new database shows the chain the first start will begin.
LEMMA FaultlessInit ==
  StoreInit => FaultlessInv /\ Atomic!Init
PROOF
  <1> SUFFICES ASSUME StoreInit PROVE FaultlessInv /\ Atomic!Init
    OBVIOUS
  <1>1. /\ Init /\ disk = EmptyDisk /\ ~ up /\ op = NoOp
        /\ crashes = 0 /\ io_errors = 0
    BY DEF StoreInit
  <1>2. shown = committed
    BY <1>1 DEF shown
  <1>3. Chain!Init
    BY <1>1, <1>2, SameInChain DEF Init, Chain!Init, committed
  <1>4. Chain!ForkInv
    BY <1>3, Stated, Chain!InitFork
  <1>5. Atomic!Init
    BY <1>1, <1>2, SameInAtomic DEF Init, Atomic!Init, committed
  <1>6. committed = Started
    <2>1. \A k, v : Insert(<< >>, k, v) = [x \in {k} |-> v]
      BY DEF Insert
    <2>2. Header[Genesis].prev = NoHash
      BY ChainAssumption
    <2>3. index = Insert(<< >>, Genesis,
                         NewBlock(Genesis, 0,
                                  work_from_bits(Header[Genesis].bits)))
      BY <1>1, <2>1, <2>2 DEF Init, NewBlock
    <2>4. /\ headers = Insert(<< >>, Genesis, 0)
          /\ height_index = Insert(<< >>, 0, Genesis)
      BY <1>1, <2>1 DEF Init
    <2> QED
      BY <1>1, <2>3, <2>4 DEF Init, committed, Started
  <1>7. AtRest
    BY <1>1, <1>6 DEF AtRest, EmptyDisk
  <1> QED
    BY <1>1, <1>4, <1>5, <1>7 DEF FaultlessInv, Told

\* A step that leaves the shown state alone is a stutter of ChainState.
LEMMA ShownSame ==
  ASSUME UNCHANGED <<shown, now>>
  PROVE  UNCHANGED Atomic!vars
PROOF
  BY DEF Atomic!vars, Atomic!ledger_vars, Atomic!tip_vars

\* A block that passed the checks passes them later too.
LEMMA ChecksStay ==
  ASSUME shown' = shown, now \in Nat, now' \in {now, now + 1},
         op.block \in Blocks, op'.block = op.block
  PROVE  /\ Atomic!connects(op.block) => Atomic!connects(op.block)'
         /\ Atomic!storable(op.block) => Atomic!storable(op.block)'
         /\ Atomic!heavier(op.block)' <=> Atomic!heavier(op.block)
PROOF
  <1> DEFINE b == op.block
  <1>1. FUTURE_LIMIT \in Nat /\ Header[b].ts \in Nat
    BY ChainAssumption, HeaderFields
  <1>2. Header[b].ts =< now + FUTURE_LIMIT => Header[b].ts =< now' + FUTURE_LIMIT
    BY <1>1
  <1>3. Atomic!connects(b) => Atomic!connects(b)'
    BY <1>2, SameInAtomic
       DEF Atomic!connects, Atomic!ledger, Atomic!validate_block_basic
  <1>4. Atomic!storable(b) => Atomic!storable(b)'
    BY <1>2, SameInAtomic DEF Atomic!storable, Atomic!validate_block_basic
  <1>5. Atomic!heavier(b)' <=> Atomic!heavier(b)
    BY DEF Atomic!heavier, Atomic!entry
  <1> QED
    BY <1>3, <1>4, <1>5

LEMMA ClockType ==
  ASSUME Chain!ForkInv
  PROVE  now \in Nat
PROOF
  BY ChainAssumption DEF Chain!ForkInv, Chain!IInv, Chain!TypeOK

\* The next write of an operation changes neither its plan nor what is shown.
LEMMA PlanStays ==
  ASSUME Faultless, op # NoOp, now' = now, NEW at, at # "none", goto(at),
         at \in BeforeIndex => connecting,
         at \in {"replay", "clear", "refill", "rebuild"} => op.kind = "switch",
         op.kind = "switch" /\ at \in Replayed => op.at \in Replayed
  PROVE  /\ op' # NoOp /\ op'.at = at /\ op'.kind = op.kind
         /\ op'.block = op.block /\ op'.next = op.next
         /\ op'.before = op.before
         /\ shown' = shown /\ found' = found /\ connecting' = connecting
         /\ indexed' = indexed
         /\ UNCHANGED Atomic!vars
         /\ Planned'
PROOF
  <1>1. OpOK /\ Chain!ForkInv /\ Planned
    BY DEF Faultless, StoreInv, FaultlessInv, Told, UnderWay
  <1>2. /\ op' # NoOp /\ op'.at = at
        /\ op'.kind = op.kind /\ op'.block = op.block
        /\ op'.next = op.next /\ op'.before = op.before
    BY <1>1, NextWrite DEF OpOK
  <1>3. shown' = shown /\ found' = found /\ connecting' = connecting
    BY <1>2 DEF shown, found, connecting
  <1>4. indexed' = indexed
    BY <1>2, <1>3 DEF indexed
  <1>5. op.block \in Blocks
    BY <1>1 DEF OpOK
  <1>6. /\ Atomic!connects(op.block) => Atomic!connects(op.block)'
        /\ Atomic!storable(op.block) => Atomic!storable(op.block)'
        /\ Atomic!heavier(op.block)' <=> Atomic!heavier(op.block)
    BY <1>1, <1>2, <1>3, <1>5, ClockType, ChecksStay
  <1>7. Planned'
    BY <1>1, <1>2, <1>3, <1>4, <1>6 DEF Planned
  <1> QED
    BY <1>2, <1>3, <1>4, <1>7, ShownSame

LEMMA InMidst ==
  ASSUME Faultless, op # NoOp
  PROVE  /\ OpOK /\ DiskOK /\ Chain!ForkInv
         /\ Planned /\ MemoryTold /\ DiskTold
PROOF
  BY DEF Faultless, StoreInv, FaultlessInv, Told, UnderWay

\* What a write that leaves memory alone must show of the disk.
LEMMA DiskWrite ==
  ASSUME Faultless, op # NoOp, UNCHANGED vars, NEW at, at # "none", goto(at),
         at \in BeforeIndex <=> op.at \in BeforeIndex,
         at \in Published <=> op.at \in Published,
         at \in {"replay", "clear", "refill", "rebuild"} => op.kind = "switch",
         op.kind = "switch" => (at \in Replayed <=> op.at \in Replayed)
  PROVE  /\ op' # NoOp /\ op'.at = at
         /\ op'.kind = op.kind /\ op'.block = op.block /\ op'.next = op.next
         /\ found' = found /\ connecting' = connecting /\ indexed' = indexed
         /\ UNCHANGED Atomic!vars
         /\ Planned' /\ MemoryTold'
PROOF
  <1>1. Planned /\ MemoryTold
    BY InMidst
  <1>2. now' = now /\ UNCHANGED <<utxo, coinbase_at, supply, tip, height,
                                  tip_work, index, headers, height_index,
                                  validated>>
    BY DEF vars, ledger_vars, tip_vars
  <1>3. at \in BeforeIndex => connecting
    BY <1>1 DEF Planned
  <1>4. /\ op' # NoOp /\ op'.at = at
        /\ op'.kind = op.kind /\ op'.block = op.block /\ op'.next = op.next
        /\ found' = found /\ connecting' = connecting /\ indexed' = indexed
        /\ UNCHANGED Atomic!vars
        /\ Planned'
    BY <1>2, <1>3, PlanStays
  <1>5. MemoryTold'
    BY <1>1, <1>2, <1>4 DEF MemoryTold
  <1> QED
    BY <1>4, <1>5

\* The batch leaves the tree at the ledger the operation comes to: what the
\* block spends and creates does not depend on the heights it is applied with.
LEMMA BatchTold ==
  ASSUME Faultless, op # NoOp, Batch
  PROVE  UNCHANGED Atomic!vars /\ Told'
PROOF
  <1> DEFINE b == op.block
             l == [EmptyLedger EXCEPT !.utxo = disk.utxo]
  <1>1. /\ OpOK /\ DiskOK /\ Chain!ForkInv
        /\ Planned /\ MemoryTold /\ DiskTold
    BY InMidst
  <1>2. /\ op.at = "batch" /\ goto("blocks_in_memory") /\ UNCHANGED vars
        /\ disk' = [disk EXCEPT !.utxo = apply_each(l, Txs[b], 0).utxo]
    BY DEF Batch, on_disk
  <1>3. /\ op' # NoOp /\ op'.at = "blocks_in_memory"
        /\ op'.kind = op.kind /\ op'.block = op.block /\ op'.next = op.next
        /\ found' = found /\ connecting' = connecting /\ indexed' = indexed
        /\ UNCHANGED Atomic!vars
        /\ Planned' /\ MemoryTold'
    BY <1>2, DiskWrite DEF BeforeIndex, Published, Replayed
  <1>4. connecting /\ disk.utxo = found.utxo
    BY <1>1, <1>2 DEF Planned, DiskTold, BeforeIndex
  <1>5. b \in Blocks /\ Txs[b] \in Seq(Transaction)
    BY <1>1, ChainAssumption DEF OpOK
  <1>6. op.next.ledger.utxo = apply_each(l, Txs[b], 0).utxo
    <2>1. EmptyLedger \in LedgerSet
      BY EmptyLedgerCapped DEF CappedLedgers
    <2>2. CASE op.kind = "genesis"
      <3>1. op.next.ledger = apply_txs(EmptyLedger, Txs[b], 0)
        BY <1>1, <2>2 DEF Planned, Target
      <3>2. l = EmptyLedger
        BY <1>4, <2>2 DEF found, NoChain, EmptyLedger
      <3> HIDE DEF l
      <3> QED
        BY <1>5, <2>1, <3>1, <3>2, ApplyTxsMaps
    <2>3. CASE op.kind = "connect"
      <3> DEFINE m == [utxo |-> shown.utxo, cb |-> shown.coinbase_at,
                       supply |-> shown.supply]
                 h == shown.height + 1
      <3>1. shown = op.before /\ found = op.before
        BY <2>3 DEF shown, found
      <3>2. op.next.ledger = apply_txs(m, Txs[b], h)
        BY <1>1, <2>3, <3>1 DEF Planned, Target
      <3>3. m \in LedgerSet /\ h \in Nat
        BY <1>1, ShownLedger, ShownTypes
      <3>4. op.next.ledger.utxo = apply_each(m, Txs[b], h).utxo
        BY <1>5, <3>2, <3>3, ApplyTxsMaps
      <3>5. l.utxo = m.utxo /\ l \in LedgerSet
        BY <1>4, <2>1, <3>1, <3>3 DEF EmptyLedger, LedgerSet
      <3> HIDE DEF l, m, h
      <3> QED
        BY <1>5, <3>3, <3>4, <3>5, ApplyEachUtxo
    <2> QED
      BY <1>4, <2>2, <2>3 DEF connecting
  <1>7. disk' = [disk EXCEPT !.utxo = op.next.ledger.utxo]
    BY <1>2, <1>6
  <1>8. DiskTold'
    BY <1>1, <1>2, <1>3, <1>4, <1>7
       DEF DiskOK, DiskTold, BeforeIndex, Unindexed, TipWritten
  <1> QED
    BY <1>3, <1>8 DEF Told, UnderWay

LEMMA StoreInMemoryTold ==
  ASSUME Faultless, op # NoOp, StoreInMemory
  PROVE  UNCHANGED Atomic!vars /\ Told'
PROOF
  <1>1. OpOK /\ Planned /\ MemoryTold /\ DiskTold
    BY InMidst
  <1>2. /\ op.at = "blocks_in_memory" /\ goto("blocks")
        /\ index' = Insert(index, op.block,
                           NewBlock(op.block, op.next.height, op.next.work))
        /\ UNCHANGED <<ledger_vars, tip_vars, validated, now, disk>>
    BY DEF StoreInMemory, in_memory, NewBlock
  <1>3. /\ op' # NoOp /\ op'.at = "blocks"
        /\ op'.kind = op.kind /\ op'.block = op.block /\ op'.next = op.next
        /\ found' = found /\ connecting' = connecting /\ indexed' = indexed
        /\ UNCHANGED Atomic!vars
        /\ Planned'
    BY <1>2, PlanStays DEF BeforeIndex, Replayed, Published
  <1>4. connecting
    BY <1>1, <1>2 DEF Planned, BeforeIndex
  <1>5. index' = indexed
    BY <1>1, <1>2 DEF MemoryTold, BeforeIndex, indexed
  <1>6. MemoryTold'
    BY <1>1, <1>2, <1>3, <1>4, <1>5
       DEF MemoryTold, connecting, ledger_vars, tip_vars, BeforeIndex,
           Published, Replayed
  <1>7. DiskTold'
    BY <1>1, <1>2, <1>3, <1>4
       DEF DiskTold, BeforeIndex, Unindexed, TipWritten
  <1> QED
    BY <1>3, <1>6, <1>7 DEF Told, UnderWay

LEMMA WriteBodyTold ==
  ASSUME Faultless, op # NoOp, WriteBody
  PROVE  UNCHANGED Atomic!vars /\ Told'
PROOF
  <1>1. DiskOK /\ Planned /\ MemoryTold /\ DiskTold
    BY InMidst
  <1>2. /\ op.at = "blocks" /\ goto("idx") /\ UNCHANGED vars
        /\ disk' = [disk EXCEPT !.blocks = @ \cup {op.block}]
    BY DEF WriteBody, on_disk
  <1>3. /\ op' # NoOp /\ op'.at = "idx"
        /\ op'.kind = op.kind /\ op'.block = op.block /\ op'.next = op.next
        /\ found' = found /\ connecting' = connecting /\ indexed' = indexed
        /\ UNCHANGED Atomic!vars
        /\ Planned' /\ MemoryTold'
    BY <1>2, DiskWrite DEF BeforeIndex, Published, Replayed
  <1>4. UNCHANGED <<disk.utxo, disk.idx, disk.tip, disk.height, disk.supply,
                    disk.tipwork>>
    BY <1>1, <1>2 DEF DiskOK
  <1>5. DiskTold'
    BY <1>1, <1>2, <1>3, <1>4
       DEF DiskTold, BeforeIndex, Unindexed, Refilled, Published, TipWritten
  <1> QED
    BY <1>3, <1>5 DEF Told, UnderWay

\* utxo_tree.clear leaves what it has not removed yet.
LEMMA ClearTold ==
  ASSUME Faultless, op # NoOp, Clear
  PROVE  UNCHANGED Atomic!vars /\ Told'
PROOF
  <1>1. DiskOK /\ Planned /\ MemoryTold /\ DiskTold
    BY InMidst
  <1>2. op.at = "clear" /\ UNCHANGED vars
    BY DEF Clear, on_disk
  <1>3. op.kind = "switch" /\ ~ connecting
    BY <1>1, <1>2 DEF Planned, connecting
  <1>4. disk.utxo = Restrict(found.utxo, DOMAIN disk.utxo)
    BY <1>1, <1>2, <1>3 DEF DiskTold
  <1>5. CASE DOMAIN disk.utxo = {} /\ disk' = disk /\ goto("refill")
    <2>1. /\ op' # NoOp /\ op'.at = "refill"
          /\ op'.kind = op.kind /\ op'.block = op.block /\ op'.next = op.next
          /\ found' = found /\ connecting' = connecting /\ indexed' = indexed
          /\ UNCHANGED Atomic!vars
          /\ Planned' /\ MemoryTold'
      BY <1>2, <1>3, <1>5, DiskWrite DEF BeforeIndex, Published, Replayed
    <2>2. disk.utxo = << >>
      BY <1>4, <1>5 DEF Restrict
    <2>3. DiskTold'
      BY <1>1, <1>2, <1>3, <1>5, <2>1, <2>2
         DEF DiskTold, BeforeIndex, Unindexed, Refilled, Published, TipWritten
    <2> QED
      BY <2>1, <2>3 DEF Told, UnderWay
  <1>6. ASSUME NEW o \in DOMAIN disk.utxo, UNCHANGED op,
               disk' = [disk EXCEPT !.utxo = Restrict(@, DOMAIN @ \ {o})]
        PROVE  UNCHANGED Atomic!vars /\ Told'
    <2>1. shown' = shown /\ found' = found /\ connecting' = connecting
      BY <1>2, <1>6 DEF shown, found, connecting
    <2>2. indexed' = indexed /\ UNCHANGED Atomic!vars
      BY <1>2, <1>6, <2>1, ShownSame DEF indexed, vars
    <2>3. op.block \in Blocks /\ now \in Nat /\ now' = now
      BY <1>2, InMidst, ClockType DEF OpOK, vars
    <2>4. Planned'
      BY <1>1, <1>6, <2>1, <2>2, <2>3, ChecksStay DEF Planned
    <2>5. MemoryTold'
      BY <1>1, <1>2, <1>6, <2>1, <2>2
         DEF MemoryTold, vars, ledger_vars, tip_vars
    <2>6. disk'.utxo = Restrict(disk.utxo, DOMAIN disk.utxo \ {o})
          /\ UNCHANGED <<disk.idx, disk.tip, disk.height, disk.supply,
                         disk.tipwork>>
      BY <1>1, <1>6 DEF DiskOK
    <2>7. disk'.utxo = Restrict(found.utxo, DOMAIN disk'.utxo)
      BY <1>4, <2>6 DEF Restrict
    <2>8. DiskTold'
      BY <1>1, <1>2, <1>3, <1>6, <2>1, <2>2, <2>6, <2>7
         DEF DiskTold, BeforeIndex, Unindexed, Refilled, Published, TipWritten
    <2> QED
      BY <1>6, <2>2, <2>4, <2>5, <2>8 DEF Told, UnderWay
  <1> QED
    BY <1>5, <1>6 DEF Clear, on_disk

\* Storing the block of an operation off the tip keeps the index a tree.
LEMMA IndexedTree ==
  ASSUME Faultless, op # NoOp, op.kind \in {"side", "switch"}
  PROVE  /\ IndexMap(indexed) /\ IsTree(indexed)
         /\ op.block \in DOMAIN indexed
         /\ indexed[op.block] = NewBlock(op.block, op.next.height, op.next.work)
         /\ indexed[op.block] = Atomic!entry(op.block, Header[op.block].prev)
         /\ shown.index \in [DOMAIN shown.index -> Idx]
         /\ DOMAIN shown.index \subseteq DOMAIN indexed
         /\ found = shown
PROOF
  <1> DEFINE b == op.block
             p == Header[b].prev
             e == NewBlock(b, op.next.height, op.next.work)
             w == work_from_bits(Header[b].bits)
  <1>1. OpOK /\ Chain!ForkInv /\ Planned
    BY InMidst
  <1>2. found = op.before /\ shown = op.before
    BY DEF found, shown
  <1>3. IndexMap(shown.index) /\ IsTree(shown.index)
    BY <1>1, ShownTypes
  <1>4. /\ b \in Blocks /\ p \in DOMAIN shown.index
        /\ op.next.height = shown.index[p].height + 1
        /\ op.next.work = shown.index[p].work + w
    BY <1>1, <1>2 DEF Planned, OpOK, Atomic!storable
  <1>5. /\ Header[b].prev \in Blocks \cup {NoHash}
        /\ Header[b].bits \in Bits /\ Header[b].ts \in Nat
        /\ op.next.height \in Nat /\ op.next.work \in Nat
    BY <1>1, <1>4, HeaderFields DEF OpOK
  <1>6. e \in Idx /\ e.prev = p /\ e.height = op.next.height
        /\ e.work = op.next.work
    BY <1>5 DEF NewBlock, Idx
  <1>7. e = Atomic!entry(b, p)
    BY <1>4 DEF NewBlock, Atomic!entry
  <1>8. indexed = Insert(shown.index, b, e)
    BY <1>2 DEF indexed
  <1>9. shown.index \in [DOMAIN shown.index -> Idx]
    BY <1>3 DEF IndexMap, IsMap
  <1> HIDE DEF e, w
  <1>10. /\ IndexMap(indexed) /\ IsTree(indexed)
         /\ b \in DOMAIN indexed /\ indexed[b] = e
         /\ DOMAIN shown.index \subseteq DOMAIN indexed
    BY <1>3, <1>4, <1>6, <1>8, InsertTree DEF w
  <1> QED
    BY <1>2, <1>7, <1>9, <1>10 DEF e

\* The ledger a switch has replayed.
LEMMA SwitchLedger ==
  ASSUME Faultless, op # NoOp, op.kind = "switch", op.at \in Replayed
  PROVE  /\ op.next.ledger \in CappedLedgers
         /\ IsMap(op.next.ledger.utxo, OutPoint, TxOut)
PROOF
  <1>1. /\ op.next.ledger = outcome(indexed, op.block, op.before.validated)
        /\ op.next.ledger # Invalid
    BY InMidst DEF Planned
  <1>2. op.next.ledger \in CappedLedgers
    BY <1>1, IndexedTree, OutcomeType
  <1> QED
    BY <1>2, MapSet DEF CappedLedgers, LedgerSet

LEMMA RefillTold ==
  ASSUME Faultless, op # NoOp, Refill
  PROVE  UNCHANGED Atomic!vars /\ Told'
PROOF
  <1>1. OpOK /\ DiskOK /\ Chain!ForkInv /\ Planned /\ MemoryTold /\ DiskTold
    BY InMidst
  <1>2. /\ op.at = "refill" /\ goto("publish") /\ UNCHANGED vars
        /\ disk' = [disk EXCEPT !.utxo = InsertAll(@, op.next.ledger.utxo)]
    BY DEF Refill, on_disk
  <1>3. /\ op' # NoOp /\ op'.at = "publish"
        /\ op'.kind = op.kind /\ op'.block = op.block /\ op'.next = op.next
        /\ found' = found /\ connecting' = connecting /\ indexed' = indexed
        /\ UNCHANGED Atomic!vars
        /\ Planned' /\ MemoryTold'
    BY <1>2, DiskWrite DEF BeforeIndex, Published, Replayed
  <1>4. op.kind = "switch" /\ ~ connecting
    BY <1>1, <1>2 DEF Planned, connecting
  <1>5. IsMap(op.next.ledger.utxo, OutPoint, TxOut)
    BY <1>1, <1>2, <1>4, SwitchLedger DEF Replayed
  <1>6. disk'.utxo = op.next.ledger.utxo
    <2>1. disk.utxo = << >>
      BY <1>1, <1>2, <1>4 DEF DiskTold
    <2>2. InsertAll(<< >>, op.next.ledger.utxo) = op.next.ledger.utxo
      BY <1>5 DEF InsertAll, IsMap
    <2> QED
      BY <1>1, <1>2, <2>1, <2>2 DEF DiskOK
  <1>7. UNCHANGED <<disk.idx, disk.tip, disk.height, disk.supply,
                    disk.tipwork>>
    BY <1>1, <1>2 DEF DiskOK
  <1>8. DiskTold'
    BY <1>1, <1>2, <1>3, <1>4, <1>6, <1>7
       DEF DiskTold, BeforeIndex, Unindexed, Refilled, Published, TipWritten
  <1> QED
    BY <1>3, <1>8 DEF Told, UnderWay

LEMMA PublishTold ==
  ASSUME Faultless, op # NoOp, Publish
  PROVE  UNCHANGED Atomic!vars /\ Told'
PROOF
  <1>1. OpOK /\ Planned /\ MemoryTold /\ DiskTold
    BY InMidst
  <1>2. /\ op.at = "publish" /\ goto("tip") /\ UNCHANGED <<now, disk, index>>
        /\ supply' = op.next.ledger.supply
        /\ tip' = op.next.tip /\ height' = op.next.height
        /\ tip_work' = op.next.work
        /\ IF op.kind = "switch"
           THEN /\ utxo' = op.next.ledger.utxo
                /\ coinbase_at' = op.next.ledger.cb
                /\ UNCHANGED <<headers, height_index, validated>>
           ELSE /\ headers' = Insert(headers, op.block, op.next.height)
                /\ height_index' = Insert(height_index, op.next.height, op.block)
                /\ validated' = validated \cup {op.block}
                /\ UNCHANGED <<utxo, coinbase_at>>
    BY DEF Publish, in_memory
  <1>3. /\ op' # NoOp /\ op'.at = "tip"
        /\ op'.kind = op.kind /\ op'.block = op.block /\ op'.next = op.next
        /\ found' = found /\ connecting' = connecting /\ indexed' = indexed
        /\ UNCHANGED Atomic!vars
        /\ Planned'
    BY <1>2, PlanStays DEF BeforeIndex, Replayed, Published
  <1>4. op.next.tip = op.block /\ op.kind \in {"genesis", "connect", "switch"}
    BY <1>1, <1>2 DEF OpOK, Planned, Unindexed
  <1>5. MemoryTold'
    <2>1. CASE op.kind = "switch"
      BY <1>1, <1>2, <1>3, <1>4, <2>1
         DEF MemoryTold, connecting, BeforeIndex, Published, Replayed
    <2>2. CASE connecting
      BY <1>1, <1>2, <1>3, <1>4, <2>2
         DEF MemoryTold, connecting, BeforeIndex, Published
    <2> QED
      BY <1>4, <2>1, <2>2 DEF connecting
  <1>6. DiskTold'
    BY <1>1, <1>2, <1>3
       DEF DiskTold, BeforeIndex, Unindexed, Refilled, Published, TipWritten
  <1> QED
    BY <1>3, <1>5, <1>6 DEF Told, UnderWay

\* persist_meta but for its last write.
LEMMA KeyTold ==
  ASSUME Faultless, op # NoOp, WriteTip \/ WriteHeight \/ WriteSupply
  PROVE  UNCHANGED Atomic!vars /\ Told'
PROOF
  <1>1. OpOK /\ DiskOK /\ Planned /\ MemoryTold /\ DiskTold
    BY InMidst
  <1>2. PICK at \in {"height", "supply", "tipwork"} :
          /\ goto(at) /\ UNCHANGED vars
          /\ at = "height" => WriteTip /\ op.at = "tip"
          /\ at = "supply" => WriteHeight /\ op.at = "height"
          /\ at = "tipwork" => WriteSupply /\ op.at = "supply"
    BY DEF WriteTip, WriteHeight, WriteSupply, on_disk
  <1>3. /\ op' # NoOp /\ op'.at = at
        /\ op'.kind = op.kind /\ op'.block = op.block /\ op'.next = op.next
        /\ found' = found /\ connecting' = connecting /\ indexed' = indexed
        /\ UNCHANGED Atomic!vars
        /\ Planned' /\ MemoryTold'
    BY <1>2, DiskWrite DEF BeforeIndex, Published, Replayed
  <1>4. op.next.tip = op.block
    BY <1>1 DEF OpOK
  <1>5. UNCHANGED <<disk.utxo, disk.idx>>
    BY <1>1, <1>2 DEF DiskOK, WriteTip, WriteHeight, WriteSupply, on_disk
  <1>6. /\ disk'.tip = IF at = "height" THEN op.block ELSE disk.tip
        /\ disk'.height = IF at = "supply" THEN op.next.height ELSE disk.height
        /\ disk'.supply = IF at = "tipwork" THEN op.next.ledger.supply
                                            ELSE disk.supply
        /\ disk'.tipwork = disk.tipwork
    BY <1>1, <1>2, <1>4
       DEF DiskOK, WriteTip, WriteHeight, WriteSupply, on_disk
  <1>7. DiskTold'
    BY <1>1, <1>2, <1>3, <1>5, <1>6
       DEF DiskTold, BeforeIndex, Unindexed, Refilled, Published, TipWritten
  <1> QED
    BY <1>3, <1>7 DEF Told, UnderWay

-----------------------------------------------------------------------------
(* The writes that end one *)

\* A side branch is done with its index entry; the others go on.
LEMMA WriteEntryTold ==
  ASSUME Faultless, op # NoOp, WriteEntry
  PROVE  [Atomic!Next]_(Atomic!vars) /\ Told'
PROOF
  <1> DEFINE b == op.block
  <1>1. OpOK /\ DiskOK /\ Chain!ForkInv /\ Planned /\ MemoryTold /\ DiskTold
    BY InMidst
  <1>2. /\ op.at = "idx" /\ UNCHANGED vars /\ AfterEntry
        /\ disk' = [disk EXCEPT !.idx = Insert(@, b, index[b])]
    BY DEF WriteEntry, on_disk
  <1>3. disk.idx = found.index /\ index = indexed
    BY <1>1, <1>2
       DEF DiskTold, MemoryTold, BeforeIndex, Unindexed
  <1>4. indexed[b] = NewBlock(b, op.next.height, op.next.work)
    BY DEF indexed, Insert
  <1>5. disk'.idx = indexed
        /\ UNCHANGED <<disk.utxo, disk.tip, disk.height, disk.supply,
                       disk.tipwork>>
    BY <1>1, <1>2, <1>3, <1>4 DEF DiskOK, indexed
  <1>6. CASE op.kind = "side"
    <2>1. op' = NoOp /\ shown' = committed'
      BY <1>2, <1>6 DEF AfterEntry, return, shown
    <2>2. found = shown /\ ~ connecting
      BY <1>6 DEF found, shown, connecting
    <2>3. /\ utxo = shown.utxo /\ coinbase_at = shown.coinbase_at
          /\ supply = shown.supply /\ tip = shown.tip
          /\ height = shown.height /\ tip_work = shown.tip_work
          /\ headers = shown.headers /\ height_index = shown.height_index
          /\ validated = shown.validated
      BY <1>1, <1>2, <1>6, <2>2
         DEF MemoryTold, Published, Replayed
    <2>4. /\ shown'.utxo = utxo /\ shown'.coinbase_at = coinbase_at
          /\ shown'.supply = supply /\ shown'.tip = tip
          /\ shown'.height = height /\ shown'.tip_work = tip_work
          /\ shown'.index = indexed
          /\ shown'.headers = headers /\ shown'.height_index = height_index
          /\ shown'.validated = validated /\ now' = now
      BY <1>2, <1>3, <2>1
         DEF committed, vars, ledger_vars, tip_vars
    <2>5. Atomic!storable(b) /\ ~ Atomic!heavier(b)
      BY <1>1, <1>6 DEF Planned
    <2>6. Atomic!store_block_meta(b)
      <3>1. indexed = Insert(shown.index, b,
                             Atomic!entry(b, Header[b].prev))
        BY <1>4, <1>6, <2>2, IndexedTree DEF indexed
      <3> QED
        BY <2>4, <3>1, SameInAtomic DEF Atomic!store_block_meta
    <2>7. Atomic!AcceptSide(b)
      BY <2>3, <2>4, <2>5, <2>6
         DEF Atomic!AcceptSide, Atomic!ledger_vars, Atomic!tip_vars
    <2>8. b \in Blocks
      BY <1>1 DEF OpOK
    <2>9. AtRest'
      <3>1. /\ disk.utxo = utxo /\ disk.supply = supply /\ disk.tip = tip
            /\ disk.height = height /\ disk.tipwork = tip_work
        BY <1>1, <1>2, <2>2, <2>3
           DEF DiskTold, Unindexed, Refilled, Published, TipWritten
      <3>2. tip # NoHash
        BY <1>1, <2>3, ShownTypes, ChainAssumption
      <3> QED
        BY <1>2, <1>3, <1>5, <3>1, <3>2
           DEF AtRest, vars, ledger_vars, tip_vars
    <2> QED
      BY <2>1, <2>7, <2>8, <2>9 DEF Told, Atomic!Next
  <1>7. CASE op.kind # "side"
    <2>1. PICK at \in {"replay", "publish"} :
            goto(at) /\ (at = "replay" <=> op.kind = "switch")
      BY <1>2, <1>7 DEF AfterEntry
    <2>2. /\ op' # NoOp /\ op'.at = at
          /\ op'.kind = op.kind /\ op'.block = op.block /\ op'.next = op.next
          /\ found' = found /\ connecting' = connecting /\ indexed' = indexed
          /\ UNCHANGED Atomic!vars
          /\ Planned' /\ MemoryTold'
      BY <1>2, <2>1, DiskWrite DEF BeforeIndex, Published, Replayed
    <2>3. at = "publish" => connecting
      BY <1>1, <1>7, <2>1 DEF Planned, connecting
    <2>4. DiskTold'
      BY <1>1, <1>2, <1>5, <2>1, <2>2, <2>3
         DEF DiskTold, BeforeIndex, Unindexed, Refilled, Published, TipWritten,
             connecting
    <2> QED
      BY <2>2, <2>4 DEF Told, UnderWay
  <1> QED
    BY <1>6, <1>7

\* The last of the four keys ends a connection; a switch goes on.
LEMMA WriteWorkTold ==
  ASSUME Faultless, op # NoOp, WriteWork
  PROVE  [Atomic!Next]_(Atomic!vars) /\ Told'
PROOF
  <1> DEFINE b == op.block
             n == op.next
  <1>1. OpOK /\ DiskOK /\ Chain!ForkInv /\ Planned /\ MemoryTold /\ DiskTold
    BY InMidst
  <1>2. /\ op.at = "tipwork" /\ UNCHANGED vars
        /\ disk' = [disk EXCEPT !.tipwork = op.next.work]
        /\ IF op.kind = "switch" THEN goto("rebuild") ELSE op' = NoOp
    BY DEF WriteWork, on_disk, return
  <1>3. /\ disk'.tipwork = n.work
        /\ UNCHANGED <<disk.utxo, disk.idx, disk.tip, disk.height, disk.supply>>
    BY <1>1, <1>2 DEF DiskOK
  <1>4. /\ disk.idx = indexed /\ disk.tip = b /\ disk.height = n.height
        /\ disk.supply = n.ledger.supply /\ disk.utxo = n.ledger.utxo
    BY <1>1, <1>2 DEF DiskTold, BeforeIndex, Unindexed, TipWritten, Refilled,
                      Published
  <1>5. /\ utxo = n.ledger.utxo /\ supply = n.ledger.supply /\ tip = b
        /\ coinbase_at = n.ledger.cb
        /\ height = n.height /\ tip_work = n.work /\ index = indexed
    BY <1>1, <1>2 DEF MemoryTold, BeforeIndex, Published
  <1>6. b \in Blocks /\ b # NoHash
    BY <1>1, ChainAssumption DEF OpOK
  <1>7. CASE op.kind = "switch"
    <2>1. /\ op' # NoOp /\ op'.at = "rebuild"
          /\ op'.kind = op.kind /\ op'.block = op.block /\ op'.next = op.next
          /\ found' = found /\ connecting' = connecting /\ indexed' = indexed
          /\ UNCHANGED Atomic!vars
          /\ Planned' /\ MemoryTold'
      BY <1>2, <1>7, DiskWrite DEF BeforeIndex, Published, Replayed
    <2>2. DiskTold'
      BY <1>1, <1>2, <1>3, <1>7, <2>1
         DEF DiskTold, BeforeIndex, Unindexed, Refilled, Published, TipWritten
    <2> QED
      BY <2>1, <2>2 DEF Told, UnderWay
  <1>8. CASE op.kind # "switch"
    <2>1. connecting /\ op' = NoOp /\ shown' = committed'
      BY <1>1, <1>2, <1>8 DEF Planned, OpOK, Unindexed, connecting, shown
    <2>2. /\ headers = Insert(found.headers, b, n.height)
          /\ height_index = Insert(found.height_index, n.height, b)
          /\ validated = found.validated \cup {b}
      BY <1>1, <1>2, <2>1 DEF MemoryTold, Published
    <2>3. AtRest'
      BY <1>2, <1>3, <1>4, <1>5, <1>6
         DEF AtRest, vars, ledger_vars, tip_vars
    <2>4. UNCHANGED <<utxo, coinbase_at, supply, tip, height, tip_work, index,
                      headers, height_index, validated, now>>
      BY <1>2 DEF vars, ledger_vars, tip_vars
    <2>5. CASE op.kind = "genesis"
      <3>1. /\ b = Genesis /\ op.before = Started /\ found = NoChain
            /\ n = Target(b, 0, work_from_bits(Header[b].bits),
                          apply_txs(EmptyLedger, Txs[b], 0))
        BY <1>1, <2>5 DEF Planned, found
      <3>2. committed = Started
        BY <1>5, <2>2, <3>1
           DEF committed, Started, indexed, NoChain, Target
      <3>3. committed' = committed
        BY <2>4 DEF committed
      <3>4. shown' = shown
        BY <2>1, <3>1, <3>2, <3>3 DEF shown
      <3> QED
        BY <2>1, <2>3, <2>4, <3>4, ShownSame DEF Told
    <2>6. CASE op.kind = "connect"
      <3> DEFINE m == [utxo |-> shown.utxo, cb |-> shown.coinbase_at,
                       supply |-> shown.supply]
                 h == shown.height + 1
                 w == shown.tip_work + work_from_bits(Header[b].bits)
      <3>1. /\ found = shown /\ Atomic!connects(b)
            /\ n = Target(b, h, w, apply_txs(m, Txs[b], h))
        BY <1>1, <2>6 DEF Planned, found, shown
      <3>2. m \in LedgerSet /\ shown.height \in Nat /\ h \in Nat
        BY <1>1, ShownLedger, ShownTypes
      <3> DEFINE l == apply_txs(m, Txs[b], h)
      <3>3. /\ l.utxo = apply_each(m, Txs[b], h).utxo
            /\ l.cb = apply_each(m, Txs[b], h).cb
            /\ l.supply = issue(m.supply, OutputTotal(Txs[b][1]),
                                Fees(m.utxo, Txs[b]))
        <4> HIDE DEF m, h
        <4> QED
          BY <1>6, <3>2, ApplyTxsMaps
      <3>4. n.ledger = l /\ n.height = h /\ n.work = w
        BY <3>1 DEF Target
      <3> HIDE DEF l
      <3>5. /\ shown'.utxo = l.utxo /\ shown'.coinbase_at = l.cb
            /\ shown'.supply = l.supply /\ shown'.tip = b
            /\ shown'.height = h /\ shown'.tip_work = w
            /\ shown'.index = indexed
            /\ shown'.headers = Insert(shown.headers, b, h)
            /\ shown'.height_index = Insert(shown.height_index, h, b)
            /\ shown'.validated = shown.validated \cup {b} /\ now' = now
        <4> HIDE DEF m, h, w
        <4> QED
          BY <1>5, <2>1, <2>2, <2>4, <3>1, <3>4 DEF committed
      <3>6. indexed = Insert(shown.index, b,
                             [prev |-> shown.tip, height |-> h, work |-> w,
                              ts |-> Header[b].ts, bits |-> Header[b].bits])
        <4>1. Header[b].prev = shown.tip
          BY <3>1 DEF Atomic!connects
        <4> HIDE DEF h, w
        <4> QED
          BY <3>1, <3>4, <4>1 DEF indexed, NewBlock
      <3>7. Atomic!ledger = m
        BY DEF Atomic!ledger
      <3>8. Atomic!connect_tip(b)
        BY <3>1, <3>3, <3>5, <3>6, <3>7, SameInAtomic
           DEF Atomic!connect_tip
      <3>9. Atomic!ApplyBlock(b, h)
        BY <3>2, <3>8 DEF Atomic!ApplyBlock
      <3>10. h \in 0..shown.height + 1
        BY <3>2
      <3> QED
        BY <1>6, <2>1, <2>3, <3>9, <3>10 DEF Told, Atomic!Next
    <2> QED
      BY <2>1, <2>5, <2>6 DEF connecting
  <1> QED
    BY <1>7, <1>8

\* A branch that replays passes block by block.
LEMMA PassedAll ==
  ASSUME NEW idx, IndexMap(idx), IsTree(idx), NEW t \in DOMAIN idx, NEW skip,
         outcome(idx, t, skip) # Invalid
  PROVE  active(idx, t) \subseteq passed(idx, t, skip)
PROOF
  <1> DEFINE path == path_from_genesis(idx, t)
             n == idx[t].height + 1
  <1>1. DOMAIN path = 1..n
    BY PathType
  <1>2. \A i \in 1..n : replay(idx, t, skip)[i] # Invalid
    <2> TAKE i \in 1..n
    <2>1. path[i] \in active(idx, t)
      BY <1>1 DEF active, Range
    <2>2. outcome(idx, path[i], skip) # Invalid
      BY <2>1, ActiveReplays
    <2> QED
      BY <2>2, ReplayOutcome
  <1> QED
    BY <1>1, <1>2 DEF active, passed, Range

\* A branch that does not replay leaves its block stored and the blocks before
\* the failure marked.
LEMMA ReplayTold ==
  ASSUME Faultless, op # NoOp, Replay
  PROVE  [Atomic!Next]_(Atomic!vars) /\ Told'
PROOF
  <1> DEFINE b == op.block
             after == outcome(index, b, validated)
  <1>1. OpOK /\ DiskOK /\ Chain!ForkInv /\ Planned /\ MemoryTold /\ DiskTold
    BY InMidst
  <1>2. /\ op.at = "replay"
        /\ UNCHANGED <<ledger_vars, tip_vars, index, now, disk>>
        /\ validated' = validated \cup passed(index, b, validated)
        /\ IF after = Invalid THEN op' = NoOp
           ELSE op' = [op EXCEPT !.at = "clear", !.next.ledger = after]
    BY DEF Replay, in_memory, return
  <1>3. op.kind = "switch" /\ found = shown /\ shown = op.before
        /\ ~ connecting
    BY <1>1, <1>2 DEF Planned, found, shown, connecting
  <1>4. /\ utxo = shown.utxo /\ coinbase_at = shown.coinbase_at
        /\ supply = shown.supply /\ tip = shown.tip
        /\ height = shown.height /\ tip_work = shown.tip_work
        /\ headers = shown.headers /\ height_index = shown.height_index
        /\ index = indexed /\ validated = shown.validated
    BY <1>1, <1>2, <1>3
       DEF MemoryTold, BeforeIndex, Published, Replayed
  <1>5. /\ disk.utxo = shown.utxo /\ disk.supply = supply /\ disk.tip = tip
        /\ disk.height = height /\ disk.tipwork = tip_work
        /\ disk.idx = indexed
    BY <1>1, <1>2, <1>3, <1>4
       DEF DiskTold, BeforeIndex, Unindexed, Refilled, Published, TipWritten
  <1>6. /\ Atomic!storable(b) /\ Atomic!heavier(b)
        /\ indexed = Insert(shown.index, b,
                            Atomic!entry(b, Header[b].prev))
    <2>1. Atomic!storable(b) /\ Atomic!heavier(b)
      BY <1>1, <1>3 DEF Planned
    <2>2. indexed[b] = NewBlock(b, op.next.height, op.next.work)
          /\ indexed[b] = Atomic!entry(b, Header[b].prev)
      BY <1>3, IndexedTree
    <2> QED
      BY <1>3, <2>1, <2>2 DEF indexed
  <1>7. b \in Blocks
    BY <1>1 DEF OpOK
  <1>8. CASE after = Invalid
    <2>1. op' = NoOp /\ shown' = committed'
      BY <1>2, <1>8 DEF shown
    <2>2. /\ shown'.utxo = utxo /\ shown'.coinbase_at = coinbase_at
          /\ shown'.supply = supply /\ shown'.tip = tip
          /\ shown'.height = height /\ shown'.tip_work = tip_work
          /\ shown'.index = indexed
          /\ shown'.headers = headers /\ shown'.height_index = height_index
          /\ shown'.validated = validated \cup passed(indexed, b, validated)
          /\ now' = now
      BY <1>2, <1>4, <2>1 DEF committed, ledger_vars, tip_vars
    <2>3. Atomic!store_block_meta(b)
      BY <1>6, <2>2, SameInAtomic DEF Atomic!store_block_meta
    <2>4. outcome(indexed, b, shown.validated) = Invalid
      BY <1>4, <1>8
    <2>5. Atomic!AcceptInvalidBranch(b)
      BY <1>4, <1>6, <2>2, <2>3, <2>4, SameInAtomic
         DEF Atomic!AcceptInvalidBranch, Atomic!ledger_vars, Atomic!tip_vars
    <2>6. tip # NoHash
      BY <1>1, <1>4, ShownTypes, ChainAssumption
    <2>7. AtRest'
      BY <1>2, <1>4, <1>5, <2>6 DEF AtRest, ledger_vars, tip_vars
    <2> QED
      BY <1>7, <2>1, <2>5, <2>7 DEF Told, Atomic!Next
  <1>9. CASE after # Invalid
    <2> DEFINE n == [op.next EXCEPT !.ledger = after]
    <2>1. /\ op = [kind |-> op.kind, at |-> op.at, block |-> op.block,
                   next |-> op.next, before |-> op.before]
          /\ op.next = [tip |-> op.next.tip, height |-> op.next.height,
                        work |-> op.next.work, ledger |-> op.next.ledger]
      BY <1>1 DEF OpOK, OpShape, Target
    <2>2. /\ n.tip = op.next.tip /\ n.height = op.next.height
          /\ n.work = op.next.work /\ n.ledger = after
      BY <2>1
    <2>3. op' = [op EXCEPT !.at = "clear", !.next = n]
      BY <1>2, <1>9
    <2> HIDE DEF n, after
    <2>4. op' = [kind |-> op.kind, at |-> "clear", block |-> op.block,
                 next |-> n, before |-> op.before]
      BY <2>1, <2>3
    <2>5. /\ op' # NoOp /\ op'.at = "clear" /\ op'.kind = op.kind
          /\ op'.block = op.block /\ op'.before = op.before
          /\ op'.next.height = op.next.height
          /\ op'.next.work = op.next.work /\ op'.next.ledger = after
      BY <2>2, <2>4 DEF NoOp
    <2>6. /\ shown' = shown /\ found' = found /\ connecting' = connecting
          /\ indexed' = indexed /\ now' = now
      BY <1>2, <2>5 DEF shown, found, connecting, indexed
    <2>7. UNCHANGED Atomic!vars
      BY <2>6, ShownSame
    <2>8. Planned'
      <3>1. /\ Atomic!storable(b) => Atomic!storable(op.block)'
            /\ Atomic!heavier(op.block)' <=> Atomic!heavier(b)
        BY <1>1, <1>7, <2>5, <2>6, ClockType, ChecksStay
      <3>2. after = outcome(indexed, b, op.before.validated)
        BY <1>3, <1>4 DEF after
      <3> QED
        BY <1>1, <1>3, <1>9, <2>5, <2>6, <3>1, <3>2
           DEF Planned, BeforeIndex
    <2>9. MemoryTold'
      BY <1>2, <1>3, <1>4, <2>5, <2>6
         DEF MemoryTold, BeforeIndex, Published, Replayed,
             ledger_vars, tip_vars
    <2>10. DiskTold'
      <3>1. shown.utxo = Restrict(shown.utxo, DOMAIN shown.utxo)
        BY <1>1, ShownTypes DEF IsMap, Restrict
      <3> QED
        BY <1>2, <1>3, <1>4, <1>5, <2>5, <2>6, <3>1
           DEF DiskTold, BeforeIndex, Unindexed, Refilled, Published,
               TipWritten
    <2> QED
      BY <2>5, <2>7, <2>8, <2>9, <2>10 DEF Told, UnderWay
  <1> QED
    BY <1>8, <1>9

\* A switch ends with rebuild_active.
LEMMA RebuildTold ==
  ASSUME Faultless, op # NoOp, Rebuild
  PROVE  [Atomic!Next]_(Atomic!vars) /\ Told'
PROOF
  <1> DEFINE b == op.block
             n == op.next
  <1>1. OpOK /\ DiskOK /\ Chain!ForkInv /\ Planned /\ MemoryTold /\ DiskTold
    BY InMidst
  <1>2. /\ op.at = "rebuild" /\ op' = NoOp /\ rebuild_active(tip)
        /\ validated' = validated \cup active(index, tip)
        /\ UNCHANGED <<utxo, supply, tip, height, tip_work, index, now, disk>>
    BY DEF Rebuild, in_memory, return
  <1>3. op.kind = "switch" /\ found = shown /\ shown = op.before
        /\ ~ connecting
    BY <1>1, <1>2 DEF Planned, found, shown, connecting
  <1>4. /\ utxo = n.ledger.utxo /\ supply = n.ledger.supply /\ tip = b
        /\ height = n.height /\ tip_work = n.work /\ index = indexed
        /\ validated = shown.validated \cup passed(indexed, b, shown.validated)
    BY <1>1, <1>2, <1>3
       DEF MemoryTold, BeforeIndex, Published, Replayed
  <1>5. /\ disk.utxo = n.ledger.utxo /\ disk.supply = n.ledger.supply
        /\ disk.tip = b /\ disk.height = n.height /\ disk.tipwork = n.work
        /\ disk.idx = indexed
    BY <1>1, <1>2, <1>3
       DEF DiskTold, BeforeIndex, Unindexed, Refilled, Published, TipWritten
  <1>6. /\ Atomic!storable(b) /\ Atomic!heavier(b)
        /\ n.ledger = outcome(indexed, b, shown.validated)
        /\ n.ledger # Invalid
    BY <1>1, <1>2, <1>3 DEF Planned, Replayed, Published
  <1>7. /\ IndexMap(indexed) /\ IsTree(indexed) /\ b \in DOMAIN indexed
        /\ indexed[b] = NewBlock(b, n.height, n.work)
        /\ indexed[b] = Atomic!entry(b, Header[b].prev)
    BY <1>3, IndexedTree
  <1>8. indexed = Insert(shown.index, b, Atomic!entry(b, Header[b].prev))
    BY <1>3, <1>7 DEF indexed
  <1>9. validated' = shown.validated \cup passed(indexed, b, shown.validated)
    <2>1. active(indexed, b) \subseteq passed(indexed, b, shown.validated)
      BY <1>6, <1>7, PassedAll
    <2> QED
      BY <1>2, <1>4, <2>1
  <1>10. op' = NoOp /\ shown' = committed'
    BY <1>2 DEF shown
  <1>11. /\ shown'.utxo = n.ledger.utxo /\ shown'.supply = n.ledger.supply
         /\ shown'.tip = b /\ shown'.height = n.height
         /\ shown'.tip_work = n.work /\ shown'.index = indexed
         /\ shown'.coinbase_at = coinbase_at' /\ shown'.headers = headers'
         /\ shown'.height_index = height_index'
         /\ shown'.validated
              = shown.validated \cup passed(indexed, b, shown.validated)
         /\ now' = now
    BY <1>2, <1>4, <1>9, <1>10 DEF committed
  <1>12. Atomic!store_block_meta(b)
    BY <1>8, <1>11, SameInAtomic DEF Atomic!store_block_meta
  <1>13. Atomic!rebuild_active(b)
    <2>1. index' = indexed
      BY <1>2, <1>4
    <2> QED
      BY <1>2, <1>4, <1>11, <2>1, SameInAtomic
         DEF Atomic!rebuild_active, rebuild_active
  <1>14. n.height = indexed[b].height /\ n.work = indexed[b].work
    BY <1>7 DEF NewBlock
  <1>15. Atomic!AcceptAndSwitch(b)
    BY <1>6, <1>11, <1>12, <1>13, <1>14, SameInAtomic
       DEF Atomic!AcceptAndSwitch
  <1>16. b \in Blocks /\ b # NoHash
    BY <1>1, ChainAssumption DEF OpOK
  <1>17. AtRest'
    BY <1>2, <1>4, <1>5, <1>16 DEF AtRest
  <1> QED
    BY <1>10, <1>15, <1>16, <1>17 DEF Told, Atomic!Next

-----------------------------------------------------------------------------
(* Starts, stops and beginnings *)

\* The clock may tick in the midst of an operation.
LEMMA TickTold ==
  ASSUME Faultless, StoreTick
  PROVE  [Atomic!Next]_(Atomic!vars) /\ Told'
PROOF
  <1>1. /\ UNCHANGED <<disk, up, op, utxo, coinbase_at, supply, tip, height,
                       tip_work, index, headers, height_index, validated>>
        /\ now < MAX_NOW /\ now' = now + 1
    BY DEF StoreTick, Tick, ledger_vars, tip_vars
  <1>2. committed' = committed /\ shown' = shown
    BY <1>1 DEF committed, shown
  <1>3. Atomic!Tick
    BY <1>1, <1>2
       DEF Atomic!Tick, Atomic!ledger_vars, Atomic!tip_vars
  <1>4. CASE op = NoOp
    <2>1. AtRest
      BY <1>4 DEF Faultless, FaultlessInv, Told
    <2>2. AtRest'
      BY <1>1, <1>2, <2>1 DEF AtRest
    <2> QED
      BY <1>1, <1>3, <1>4, <2>2 DEF Told, Atomic!Next
  <1>5. CASE op # NoOp
    <2>1. OpOK /\ Chain!ForkInv /\ Planned /\ MemoryTold /\ DiskTold
      BY <1>5, InMidst
    <2>2. found' = found /\ connecting' = connecting /\ indexed' = indexed
      BY <1>1 DEF found, connecting, indexed
    <2>3. op.block \in Blocks
      BY <1>5, <2>1 DEF OpOK
    <2>4. Planned'
      BY <1>1, <1>2, <2>1, <2>2, <2>3, ClockType, ChecksStay DEF Planned
    <2>5. MemoryTold' /\ DiskTold'
      BY <1>1, <2>1, <2>2 DEF MemoryTold, DiskTold
    <2> QED
      BY <1>1, <1>3, <1>5, <2>4, <2>5 DEF Told, UnderWay, Atomic!Next
  <1> QED
    BY <1>4, <1>5

\* What a restart reads back is what memory held.
LEMMA OpenTold ==
  ASSUME Faultless, Open
  PROVE  [Atomic!Next]_(Atomic!vars) /\ Told'
PROOF
  <1>1. /\ disk.tip # NoHash
        /\ utxo' = disk.utxo /\ supply' = disk.supply /\ tip' = disk.tip
        /\ height' = disk.height /\ tip_work' = disk.tipwork
        /\ index' = disk.idx
        /\ rebuild_active(tip') /\ validated' = active(index', tip')
        /\ UNCHANGED <<disk, op, now>> /\ ~ up
    BY DEF Open
  <1>2. op = NoOp
    BY <1>1 DEF Faultless, StoreInv, OpOK
  <1>3. AtRest
    BY <1>2 DEF Faultless, FaultlessInv, Told
  <1>4. shown = committed /\ shown' = committed'
    BY <1>1, <1>2 DEF shown
  <1>5. UNCHANGED <<utxo, supply, tip, height, tip_work, index>>
    BY <1>1, <1>3 DEF AtRest
  <1>6. Atomic!rebuild_active(shown.tip)
    BY <1>1, <1>4, <1>5, SameInAtomic
       DEF Atomic!rebuild_active, rebuild_active, committed
  <1>7. shown'.validated = Atomic!active(shown.index, shown.tip)
    BY <1>1, <1>4, <1>5, SameInAtomic DEF committed
  <1>8. Atomic!Reopen
    BY <1>1, <1>4, <1>5, <1>6, <1>7 DEF Atomic!Reopen, committed
  <1>9. AtRest'
    BY <1>1, <1>3, <1>5 DEF AtRest
  <1> QED
    BY <1>1, <1>2, <1>8, <1>9 DEF Told, Atomic!Next

\* The first start sets out to write what a reader of the new chain will see.
LEMMA OpenNewTold ==
  ASSUME Faultless, OpenNew
  PROVE  [Atomic!Next]_(Atomic!vars) /\ Told'
PROOF
  <1> DEFINE start == apply_txs(EmptyLedger, Txs[Genesis], 0)
             work == work_from_bits(Header[Genesis].bits)
  <1>1. /\ ~ up /\ disk.tip = NoHash /\ UNCHANGED <<disk, now>>
        /\ op' = [kind |-> "genesis", at |-> "batch", block |-> Genesis,
                  next |-> Target(Genesis, 0, work, start),
                  before |-> committed]
        /\ utxo' = start.utxo /\ coinbase_at' = start.cb
        /\ supply' = 0 /\ tip' = NoHash /\ height' = 0 /\ tip_work' = 0
        /\ index' = << >> /\ headers' = << >> /\ height_index' = << >>
        /\ validated' = {}
    BY DEF OpenNew, begin
  <1>2. op = NoOp
    BY <1>1 DEF Faultless, StoreInv, OpOK
  <1>3. disk = EmptyDisk /\ committed = Started
    BY <1>1, <1>2 DEF Faultless, FaultlessInv, Told, AtRest
  <1>4. op' # NoOp /\ shown' = shown
    BY <1>1, <1>2 DEF shown, NoOp
  <1>5. found' = NoChain /\ connecting'
    BY <1>1 DEF found, connecting
  <1> HIDE DEF start, work
  <1>6. Planned'
    BY <1>1, <1>3, <1>5 DEF Planned, start, work
  <1>7. MemoryTold'
    BY <1>1, <1>5
       DEF MemoryTold, NoChain, Target, BeforeIndex, Published, Replayed
  <1>8. DiskTold'
    BY <1>1, <1>3, <1>5
       DEF DiskTold, NoChain, EmptyDisk, BeforeIndex, Unindexed, TipWritten
  <1> QED
    BY <1>1, <1>4, <1>6, <1>7, <1>8, ShownSame DEF Told, UnderWay

LEMMA StopTold ==
  ASSUME Faultless, Stop
  PROVE  [Atomic!Next]_(Atomic!vars) /\ Told'
PROOF
  <1>1. /\ op = NoOp /\ op' = NoOp /\ up' = FALSE /\ disk' = disk
        /\ UNCHANGED <<utxo, coinbase_at, supply, tip, height, tip_work, index,
                       headers, height_index, validated, now>>
    BY DEF Stop, vars, ledger_vars, tip_vars
  <1>2. committed' = committed /\ shown' = shown
    BY <1>1 DEF committed, shown
  <1>3. AtRest
    BY <1>1 DEF Faultless, FaultlessInv, Told
  <1>4. AtRest'
    BY <1>1, <1>2, <1>3 DEF AtRest
  <1> QED
    BY <1>1, <1>2, <1>4, ShownSame DEF Told

LEMMA BeginConnectTold ==
  ASSUME Faultless, NEW b \in Blocks, BeginConnect(b)
  PROVE  [Atomic!Next]_(Atomic!vars) /\ Told'
PROOF
  <1> DEFINE after == apply_txs(ledger, Txs[b], height + 1)
             work == tip_work + work_from_bits(Header[b].bits)
  <1>1. /\ op = NoOp /\ up /\ connects(b)
        /\ op' = [kind |-> "connect", at |-> "batch", block |-> b,
                  next |-> Target(b, height + 1, work, after),
                  before |-> committed]
        /\ utxo' = after.utxo /\ coinbase_at' = after.cb
        /\ UNCHANGED <<supply, tip, height, tip_work, index, headers,
                       height_index, validated, now, disk>>
    BY DEF BeginConnect, begin, free, tip_vars
  <1>2. AtRest
    BY <1>1 DEF Faultless, FaultlessInv, Told
  <1>3. op' # NoOp /\ shown = committed /\ shown' = committed
    BY <1>1 DEF shown, NoOp
  <1>4. found' = committed /\ connecting'
    BY <1>1 DEF found, connecting
  <1>5. Atomic!connects(op.block)'
    BY <1>1, <1>3, SameInAtomic
       DEF Atomic!connects, Atomic!ledger, Atomic!validate_block_basic,
           validate_block_basic, connects, ledger, committed
  <1>6. ledger = [utxo |-> committed.utxo, cb |-> committed.coinbase_at,
                  supply |-> committed.supply]
        /\ height = committed.height /\ tip_work = committed.tip_work
    BY DEF ledger, committed
  <1> HIDE DEF after, work
  <1>7. Planned'
    BY <1>1, <1>4, <1>5, <1>6 DEF Planned, after, work
  <1>8. MemoryTold'
    BY <1>1, <1>4
       DEF MemoryTold, committed, Target, BeforeIndex, Published, Replayed
  <1>9. DiskTold'
    BY <1>1, <1>2, <1>4
       DEF AtRest, DiskTold, committed, BeforeIndex, Unindexed, TipWritten
  <1> QED
    BY <1>1, <1>3, <1>7, <1>8, <1>9, ShownSame DEF Told, UnderWay

LEMMA BeginStoreTold ==
  ASSUME Faultless, NEW b \in Blocks, BeginStore(b)
  PROVE  [Atomic!Next]_(Atomic!vars) /\ Told'
PROOF
  <1> DEFINE e == entry(b, Header[b].prev)
             kind == IF heavier(b) THEN "switch" ELSE "side"
             next == Target(b, index'[b].height, index'[b].work, EmptyLedger)
  <1>1. /\ op = NoOp /\ up /\ storable(b) /\ index' = Insert(index, b, e)
        /\ op' = [kind |-> kind, at |-> "blocks", block |-> b, next |-> next,
                  before |-> committed]
        /\ UNCHANGED <<utxo, coinbase_at, supply, tip, height, tip_work,
                       headers, height_index, validated, now, disk>>
    BY DEF BeginStore, begin, free, store_block_meta, tip_vars, ledger_vars
  <1>2. AtRest
    BY <1>1 DEF Faultless, FaultlessInv, Told
  <1>3. op' # NoOp /\ shown = committed /\ shown' = committed
    BY <1>1 DEF shown, NoOp
  <1>4. kind \in {"side", "switch"} /\ (heavier(b) <=> kind = "switch")
    OBVIOUS
  <1>5. found' = committed /\ ~ connecting'
    BY <1>1, <1>4 DEF found, connecting
  <1>6. Atomic!storable(op.block)'
    BY <1>1, <1>3, SameInAtomic
       DEF Atomic!storable, Atomic!validate_block_basic,
           validate_block_basic, storable, committed
  <1>7. Atomic!heavier(op.block)' <=> heavier(b)
    BY <1>1, <1>3
       DEF Atomic!heavier, Atomic!entry, heavier, entry, committed
  <1>8. index'[b] = e /\ committed.index = index
    BY <1>1 DEF Insert, committed
  <1>9. /\ next.height = index[Header[b].prev].height + 1
        /\ next.work = index[Header[b].prev].work
                         + work_from_bits(Header[b].bits)
        /\ e = NewBlock(b, next.height, next.work)
    BY <1>8 DEF Target, entry, NewBlock
  <1> HIDE DEF e, kind, next
  <1>10. Planned'
    BY <1>1, <1>4, <1>5, <1>6, <1>7, <1>8, <1>9
       DEF Planned, BeforeIndex, Replayed, Published
  <1>11. index' = indexed'
    BY <1>1, <1>5, <1>8, <1>9 DEF indexed
  <1>12. MemoryTold'
    BY <1>1, <1>5, <1>11
       DEF MemoryTold, committed, BeforeIndex, Published, Replayed
  <1>13. DiskTold'
    <2>1. tip # NoHash /\ disk.tip # NoHash
      <3>1. Chain!ForkInv
        BY DEF Faultless, FaultlessInv, Told
      <3>2. tip = shown.tip
        BY <1>3 DEF committed
      <3> QED
        BY <1>1, <1>2, <3>1, <3>2, ShownTypes, ChainAssumption
           DEF AtRest
    <2> QED
      BY <1>1, <1>2, <1>5, <1>8, <2>1
         DEF AtRest, DiskTold, committed, BeforeIndex, Unindexed, Refilled,
             Published, TipWritten
  <1> QED
    BY <1>1, <1>3, <1>10, <1>12, <1>13, ShownSame DEF Told, UnderWay

\* Each step of a faultless history is one of ChainState, or a stutter.
LEMMA FaultlessStep ==
  ASSUME Faultless, [StoreNext]_store_vars, crashes' = 0, io_errors' = 0
  PROVE  [Atomic!Next]_(Atomic!vars) /\ Told'
PROOF
  <1>1. crashes = 0 /\ io_errors = 0
    BY DEF Faultless
  <1>2. CASE UNCHANGED store_vars
    <2>1. UNCHANGED <<disk, up, op, utxo, coinbase_at, supply, tip, height,
                      tip_work, index, headers, height_index, validated, now>>
      BY <1>2 DEF store_vars, vars, ledger_vars, tip_vars
    <2>2. committed' = committed /\ shown' = shown /\ found' = found
          /\ connecting' = connecting
      BY <2>1 DEF committed, shown, found, connecting
    <2>3. indexed' = indexed
      BY <2>1, <2>2 DEF indexed
    <2>4. CASE op = NoOp
      <3>1. AtRest
        BY <2>4 DEF Faultless, FaultlessInv, Told
      <3>2. AtRest'
        BY <2>1, <2>2, <3>1 DEF AtRest
      <3> QED
        BY <2>1, <2>2, <2>4, <3>2, ShownSame DEF Told
    <2>5. CASE op # NoOp
      <3>1. OpOK /\ Chain!ForkInv /\ Planned /\ MemoryTold /\ DiskTold
        BY <2>5, InMidst
      <3>2. op.block \in Blocks
        BY <2>5, <3>1 DEF OpOK
      <3>3. Planned'
        BY <2>1, <2>2, <2>3, <3>1, <3>2, ClockType, ChecksStay DEF Planned
      <3>4. MemoryTold' /\ DiskTold'
        BY <2>1, <2>2, <2>3, <3>1 DEF MemoryTold, DiskTold
      <3> QED
        BY <2>1, <2>2, <2>5, <3>3, <3>4, ShownSame DEF Told, UnderWay
    <2> QED
      BY <2>4, <2>5
  <1>3. ~ Crash /\ ~ IoError
    BY <1>1 DEF Crash, IoError
  <1>4. CASE StoreTick \/ Open \/ OpenNew \/ Stop
    BY <1>4, TickTold, OpenTold, OpenNewTold, StopTold
  <1>5. CASE \E b \in Blocks : BeginConnect(b) \/ BeginStore(b)
    BY <1>5, BeginConnectTold, BeginStoreTold
  <1>6. CASE up /\ op # NoOp /\ Write
    <2>1. CASE Batch \/ StoreInMemory \/ WriteBody \/ Clear \/ Refill
                 \/ Publish
      BY <1>6, <2>1, BatchTold, StoreInMemoryTold, WriteBodyTold, ClearTold,
         RefillTold, PublishTold
    <2>2. CASE WriteTip \/ WriteHeight \/ WriteSupply
      BY <1>6, <2>2, KeyTold
    <2>3. CASE WriteEntry \/ WriteWork
      BY <1>6, <2>3, WriteEntryTold, WriteWorkTold
    <2>4. CASE Replay \/ Rebuild
      BY <1>6, <2>4, ReplayTold, RebuildTold
    <2> QED
      BY <1>6, <2>1, <2>2, <2>3, <2>4 DEF Write
  <1> QED
    BY <1>2, <1>3, <1>4, <1>5, <1>6 DEF StoreNext

\* A fault is never forgotten.
LEMMA StepCounts ==
  ASSUME StoreInv, FaultlessInv, [StoreNext]_store_vars
  PROVE  /\ crashes' \in Nat
         /\ crashes' = 0 /\ io_errors' = 0 => crashes = 0 /\ io_errors = 0
PROOF
  <1>1. crashes \in Nat /\ io_errors \in Nat
    BY DEF FaultlessInv, StoreInv, NodeOK
  <1>2. /\ crashes' \in {crashes, crashes + 1}
        /\ io_errors' \in {io_errors, io_errors + 1}
    <2>1. CASE UNCHANGED store_vars
      BY <2>1 DEF store_vars
    <2>2. CASE StoreTick \/ Open \/ OpenNew \/ Stop \/ Crash \/ IoError
      BY <2>2 DEF StoreTick, Open, OpenNew, Stop, Crash, IoError
    <2>3. CASE \E b \in Blocks : BeginConnect(b) \/ BeginStore(b)
      BY <2>3 DEF BeginConnect, BeginStore
    <2>4. CASE Write
      BY <2>4 DEF Write, Batch, StoreInMemory, WriteBody, WriteEntry, Replay,
                  Clear, Refill, Publish, WriteTip, WriteHeight, WriteSupply,
                  WriteWork, Rebuild, on_disk, in_memory
    <2> QED
      BY <2>1, <2>2, <2>3, <2>4 DEF StoreNext
  <1> QED
    BY <1>1, <1>2

LEMMA FaultlessNext ==
  StoreInv /\ FaultlessInv /\ [StoreNext]_store_vars => FaultlessInv'
PROOF
  <1> SUFFICES ASSUME StoreInv, FaultlessInv, [StoreNext]_store_vars
               PROVE  FaultlessInv'
    OBVIOUS
  <1>1. ASSUME crashes' = 0, io_errors' = 0
        PROVE  Chain!ForkInv' /\ Told'
    <2>1. crashes = 0 /\ io_errors = 0
      BY <1>1, StepCounts
    <2>2. Faultless /\ Chain!ForkInv
      BY <2>1 DEF Faultless, FaultlessInv, Told
    <2>3. [Atomic!Next]_(Atomic!vars) /\ Told'
      BY <1>1, <2>2, FaultlessStep
    <2>4. Chain!ForkInv'
      BY <2>2, <2>3, ChainStep, Stated, Chain!NextFork
    <2> QED
      BY <2>3, <2>4 DEF Told
  <1> QED
    BY <1>1, StepCounts DEF FaultlessInv

LEMMA FaultlessAlways ==
  StoreSpec => [](StoreInv /\ FaultlessInv)
PROOF
  BY StoreInitInv, StoreNextInv, FaultlessInit, FaultlessNext, PTL
     DEF StoreSpec

\* As long as no crash and no failed write cuts an operation short, the writes of
\* connect_genesis, connect_tip and accept_block to the maps in memory, the sled
\* trees and the four keys come to the one step ChainState makes of each, and
\* load_or_init reads back what memory held.
THEOREM WritesImplementChainState ==
  StoreSpec => ImplementsChainState
PROOF
  <1>1. StoreInit => Atomic!Init
    BY FaultlessInit
  <1>2. StoreInv /\ FaultlessInv /\ [StoreNext]_store_vars
          => [crashes' = 0 /\ io_errors' = 0
                => [Atomic!Next]_(Atomic!vars)]_store_vars
    <2> SUFFICES ASSUME StoreInv, FaultlessInv, [StoreNext]_store_vars,
                        crashes' = 0, io_errors' = 0
                 PROVE  [Atomic!Next]_(Atomic!vars)
                        \/ UNCHANGED store_vars
      OBVIOUS
    <2>1. CASE crashes = 0 /\ io_errors = 0
      BY <2>1, FaultlessStep DEF Faultless
    <2>2. crashes = 0 /\ io_errors = 0
      BY StepCounts
    <2> QED
      BY <2>1, <2>2
  <1> QED
    BY <1>1, <1>2, FaultlessAlways, PTL DEF StoreSpec, ImplementsChainState

\* What a switch has replayed, or a connection applied, is the ledger of its
\* branch.
LEMMA NextIsBranchLedger ==
  ASSUME Faultless, op # NoOp,
         connecting \/ (op.kind = "switch" /\ op.at \in Replayed)
  PROVE  op.next.ledger.utxo = BranchLedger[op.block].utxo
PROOF
  <1> DEFINE b == op.block
             n == op.next
             l == outcome(shown.index, shown.tip, {})
             h == shown.height + 1
  <1>1. OpOK /\ Chain!ForkInv /\ Planned
    BY InMidst
  <1>2. b \in Blocks /\ NoHash \notin Blocks
    BY <1>1, ChainAssumption DEF OpOK
  <1>3. CASE op.kind = "genesis"
    <2>1. b = Genesis /\ n.ledger = apply_txs(EmptyLedger, Txs[b], 0)
      BY <1>1, <1>3 DEF Planned, Target
    <2>2. Header[b].prev \notin Blocks
      BY <1>2, <2>1, ChainAssumption
    <2>3. BranchHeight[b] = 0
      BY <1>2, <2>2, BranchHeightDef
    <2>4. EmptyLedger # Invalid
      BY EmptyLedgerCapped, InvalidIsNoLedger DEF CappedLedgers
    <2>5. validate_txs(EmptyLedger, Txs[b], 0, TRUE)
      BY <2>1, GenesisAssumption
    <2>6. BranchLedger[b] = apply_txs(EmptyLedger, Txs[b], 0)
      BY <1>2, <2>2, <2>3, <2>4, <2>5, BranchLedgerDef
         DEF Extend
    <2> QED
      BY <2>1, <2>6
  <1>4. CASE op.kind = "connect"
    <2> DEFINE m == [utxo |-> shown.utxo, cb |-> shown.coinbase_at,
                     supply |-> shown.supply]
    <2>1. Atomic!connects(b) /\ n.ledger = apply_txs(m, Txs[b], h)
      BY <1>1, <1>4 DEF Planned, Target, shown
    <2>2. Header[b].prev = shown.tip /\ validate_txs(m, Txs[b], h, TRUE)
      BY <2>1, SameInAtomic DEF Atomic!connects, Atomic!ledger
    <2>3. /\ IndexMap(shown.index) /\ IsTree(shown.index)
          /\ shown.tip \in DOMAIN shown.index /\ shown.tip \in Blocks
          /\ shown.height = shown.index[shown.tip].height /\ h \in Nat
      BY <1>1, ShownTypes
    <2>4. /\ l = BranchLedger[shown.tip] /\ l # Invalid
          /\ shown.height = BranchHeight[shown.tip]
      BY <1>1, <2>3, ShownOutcome, StoredBranch
    <2>5. /\ validate_txs(m, Txs[b], h, TRUE)
               <=> validate_txs(l, Txs[b], h, TRUE)
          /\ apply_each(m, Txs[b], h).utxo = apply_txs(l, Txs[b], h).utxo
      BY <1>1, <1>2, Stated, SameInChain, Chain!ConnectsAsReplayed
         DEF Chain!ledger
    <2>6. BranchHeight[b] = h
      BY <1>2, <2>2, <2>3, <2>4, BranchHeightDef
    <2>7. BranchLedger[b] = apply_txs(l, Txs[b], h)
      BY <1>2, <2>2, <2>3, <2>4, <2>5, <2>6, BranchLedgerDef
         DEF Extend
    <2>8. m \in LedgerSet
      BY <1>1, ShownLedger
    <2>9. apply_txs(m, Txs[b], h).utxo = apply_each(m, Txs[b], h).utxo
      BY <1>2, <2>3, <2>8, ApplyTxsMaps
    <2> QED
      BY <2>1, <2>5, <2>7, <2>9
  <1>5. CASE op.kind = "switch" /\ op.at \in Replayed
    <2>1. n.ledger = outcome(indexed, b, shown.validated)
      BY <1>1, <1>5 DEF Planned, shown
    <2>2. /\ IndexMap(indexed) /\ IsTree(indexed) /\ b \in DOMAIN indexed
          /\ DOMAIN shown.index \subseteq DOMAIN indexed
      BY <1>5, IndexedTree
    <2>3. IndexMap(shown.index) /\ IsTree(shown.index)
      BY <1>1, ShownTypes
    <2>4. \A x \in shown.validated : outcome(indexed, x, {}) # Invalid
      <3> TAKE x \in shown.validated
      <3>1. x \in DOMAIN shown.index /\ outcome(shown.index, x, {}) # Invalid
        BY <1>1, ShownOutcome
      <3>2. outcome(indexed, x, {}) = outcome(shown.index, x, {})
        BY <2>2, <2>3, <3>1, StoredBranch
      <3> QED
        BY <3>1, <3>2
    <2>5. outcome(indexed, b, shown.validated) = outcome(indexed, b, {})
      BY <2>2, <2>4, PassedSound
    <2> QED
      BY <2>1, <2>2, <2>5, StoredBranch
  <1> QED
    BY <1>3, <1>4, <1>5 DEF connecting

\* Of a map, its restriction to no key at all is the empty map.
LEMMA NothingLeft ==
  \A f : Restrict(f, DOMAIN << >>) = << >>
PROOF
  BY DEF Restrict

LEMMA FaultlessTree ==
  ASSUME StoreInv, FaultlessInv
  PROVE  UtxoTreeIsALedger
PROOF
  <1> DEFINE unspent(b) == IF b = NoHash THEN << >> ELSE BranchLedger[b].utxo
             old == unspent(disk.tip)
  <1> SUFFICES ASSUME crashes = 0, io_errors = 0, up
               PROVE  \/ disk.utxo = old
                      \/ /\ op.at \notin {"none", "batch"}
                         /\ disk.utxo = unspent(op.block)
                      \/ /\ op.at \in {"clear", "refill"}
                         /\ disk.utxo = Restrict(old, DOMAIN disk.utxo)
    BY DEF UtxoTreeIsALedger
  <1>1. Faultless /\ Chain!ForkInv
    BY DEF Faultless, FaultlessInv, Told
  <1>2. shown.utxo = BranchLedger[shown.tip].utxo /\ shown.tip # NoHash
    <2>1. /\ IndexMap(shown.index) /\ IsTree(shown.index)
          /\ shown.tip \in DOMAIN shown.index /\ shown.tip \in Blocks
      BY <1>1, ShownTypes
    <2> QED
      BY <1>1, <2>1, ShownOutcome, StoredBranch, ChainAssumption
  <1>3. CASE op = NoOp
    <2>1. AtRest
      BY <1>3 DEF FaultlessInv, Told
    <2>2. disk.utxo = shown.utxo /\ disk.tip = shown.tip
      BY <1>3, <2>1 DEF AtRest, shown, committed
    <2> QED
      BY <1>2, <2>2
  <1>4. CASE op # NoOp
    <2>1. OpOK /\ Planned /\ DiskTold
      BY <1>1, <1>4, InMidst
    <2>2. op.block # NoHash
      BY <1>4, <2>1, ChainAssumption DEF OpOK
    <2>3. found.utxo = unspent(found.tip)
      BY <1>2, <1>4 DEF found, NoChain, shown
    <2>4. op.at \notin TipWritten => disk.tip = found.tip
      BY <2>1 DEF DiskTold
    <2>5. /\ op.at \in UNION {BeforeIndex, Unindexed, Indexed, Published}
          /\ op.kind = "side" => op.at \in Unindexed
          /\ op.at \in BeforeIndex => connecting
      BY <1>4, <2>1 DEF OpOK, Planned
    <2> HIDE DEF unspent
    <2>6. CASE connecting
      <3>1. op.at = "batch" => disk.utxo = found.utxo /\ disk.tip = found.tip
        BY <2>1, <2>6 DEF DiskTold, TipWritten
      <3>2. op.at # "batch" => disk.utxo = op.next.ledger.utxo
        BY <2>1, <2>6 DEF DiskTold
      <3>3. op.next.ledger.utxo = unspent(op.block)
        BY <1>1, <1>4, <2>2, <2>6, NextIsBranchLedger DEF unspent
      <3>4. op.at # "none"
        BY <2>5 DEF BeforeIndex, Unindexed, Indexed, Published
      <3> QED
        BY <2>3, <3>1, <3>2, <3>3, <3>4
    <2>7. CASE ~ connecting /\ op.at \in Unindexed \cup {"replay"}
      <3>1. disk.utxo = found.utxo
        BY <2>1, <2>7 DEF DiskTold
      <3>2. op.at \notin TipWritten
        BY <2>7 DEF Unindexed, TipWritten
      <3> QED
        BY <2>3, <2>4, <3>1, <3>2
    <2>8. CASE ~ connecting /\ op.at \in {"clear", "refill"}
      <3>1. disk.tip = found.tip
        BY <2>4, <2>8 DEF TipWritten
      <3>2. disk.utxo = Restrict(found.utxo, DOMAIN disk.utxo)
        BY <2>1, <2>8, NothingLeft DEF DiskTold
      <3> QED
        BY <2>3, <2>8, <3>1, <3>2
    <2>9. CASE ~ connecting /\ op.at \in Refilled
      <3>1. disk.utxo = op.next.ledger.utxo
        BY <2>1, <2>9 DEF DiskTold
      <3>2. op.kind = "switch" /\ op.at \in Replayed
        BY <2>1, <2>5, <2>9
           DEF Planned, connecting, Refilled, Replayed, Unindexed, Published
      <3>3. op.next.ledger.utxo = unspent(op.block)
        BY <1>1, <1>4, <2>2, <3>2, NextIsBranchLedger DEF unspent
      <3>4. op.at \notin {"none", "batch"}
        BY <2>9 DEF Refilled, Published
      <3> QED
        BY <3>1, <3>3, <3>4
    <2> QED
      BY <2>5, <2>6, <2>7, <2>8, <2>9 DEF Indexed, Refilled
  <1> QED
    BY <1>3, <1>4

\* Wherever a history without a fault stands, the utxo tree is the exact ledger of
\* the branch last connected or being connected, or, between clear and the batch
\* of switch_to, what is left of one.
THEOREM UtxoTreeStaysALedger ==
  StoreSpec => []UtxoTreeIsALedger
PROOF
  BY FaultlessTree, FaultlessAlways, PTL
=============================================================================
