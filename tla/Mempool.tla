------------------------------ MODULE Mempool ------------------------------
(***************************************************************************)
(* The mempool (core/mempool.rs).  Every connection of the network and the *)
(* RPC server call accept from threads of their own.  accept is not one    *)
(* step: it reads spent under one lock, the UTXO set of the chain under    *)
(* another, and takes the lock of entries only to insert; each of these    *)
(* sections is an action here, and the chain moves between them.           *)
(*                                                                         *)
(* add and drain are left out: nothing in the program calls them.          *)
(***************************************************************************)
EXTENDS Ledger

CONSTANTS
  Threads,               \* the threads that may be inside accept
  Offered,               \* the transactions peers and the wallet present
  Utxos,                 \* the UTXO sets the chain goes through
  Size,                  \* Size[id]: serialized size of transaction id
  MAX_MEMPOOL,
  MAX_BLOCK_SIZE,
  MIN_RELAY_FEE_PER_KB

ASSUME MempoolAssumption ==
  /\ Offered \subseteq Transaction
  /\ \A u \in Utxos : IsMap(u, OutPoint, TxOut)
  /\ Size \in [TxIds -> Nat \ {0}]
  /\ MAX_MEMPOOL \in Nat \ {0}
  /\ MAX_BLOCK_SIZE \in Nat
  /\ MIN_RELAY_FEE_PER_KB \in Nat

\* A txid is a hash of a transaction without its signatures and keys: it fixes
\* the inputs and the outputs, and an outpoint names one output everywhere.
ASSUME HashAssumption ==
  /\ \A tx, other \in Offered :
        tx.txid = other.txid =>
          tx.inputs = other.inputs /\ tx.outputs = other.outputs
  /\ \A u, v \in Utxos : \A o \in DOMAIN u \cap DOMAIN v : u[o] = v[o]

VARIABLES
  entries,     \* the pool: txid -> Entry
  spent,       \* outpoints the entries spend
  chain_utxo,  \* the UTXO set of the chain, which accept reads
  accepting,   \* how far each thread's call of accept has come
  overlapped   \* history: two calls of accept were under way at once

mempool_vars == <<entries, spent, chain_utxo, accepting, overlapped>>

Entry == [tx : Transaction, fee : Nat, size : Nat \ {0}]

Idle == [at |-> "idle"]

Call == {Idle} \cup [at : {"utxo"}, tx : Transaction]
               \cup [at : {"insert", "add"}, entry : Entry]

goto(t, call) == accepting' = [accepting EXCEPT ![t] = call]

\* No thread holds the write lock of entries.
unlocked == \A t \in Threads : accepting[t].at # "add"

-----------------------------------------------------------------------------

saturating(n) == IF n =< U64_MAX THEN n ELSE U64_MAX

feerate(e) == saturating(e.fee * 1000) \div e.size

min_fee(size) == saturating(size * MIN_RELAY_FEE_PER_KB) \div 1000

Spends(tx) == Range(tx.inputs)

\* The checks that read nothing but the transaction.
well_formed(tx) ==
  /\ ~ tx.coinbase
  /\ tx.inputs # << >>
  /\ tx.outputs # << >>
  /\ \A i, j \in DOMAIN tx.inputs : tx.inputs[i] = tx.inputs[j] => i = j
  /\ Size[tx.txid] =< MAX_BLOCK_SIZE

\* The checks against the chain.  The age of a coinbase is not among them.
funded(tx, utxo) ==
  /\ Spends(tx) \subseteq DOMAIN utxo
  /\ tx.keyOK
  /\ tx.sigOK
  /\ InputTotal(utxo, tx) =< U64_MAX
  /\ OutputTotal(tx) =< InputTotal(utxo, tx)

\* Mutant of entry_of: the change, a second output, is counted as fee.
entry_of_first_output(tx, utxo) ==
  [tx |-> tx, fee |-> InputTotal(utxo, tx) - tx.outputs[1].value,
   size |-> Size[tx.txid]]

entry_of(tx, utxo) ==
  [tx |-> tx, fee |-> InputTotal(utxo, tx) - OutputTotal(tx),
   size |-> Size[tx.txid]]

-----------------------------------------------------------------------------
(* accept *)

\* Mutant of CheckSpent: spent is not consulted.
CheckNothing(t, tx) ==
  /\ accepting[t] = Idle
  /\ well_formed(tx)
  /\ goto(t, [at |-> "utxo", tx |-> tx])
  /\ overlapped' = (overlapped \/ \E u \in Threads : accepting[u] # Idle)
  /\ UNCHANGED <<entries, spent, chain_utxo>>

\* The call begins; spent is read and its lock given back.
CheckSpent(t, tx) ==
  /\ accepting[t] = Idle
  /\ well_formed(tx)
  /\ Spends(tx) \cap spent = {}
  /\ goto(t, [at |-> "utxo", tx |-> tx])
  /\ overlapped' = (overlapped \/ \E u \in Threads : accepting[u] # Idle)
  /\ UNCHANGED <<entries, spent, chain_utxo>>

\* Mutant of CheckUtxo: amounts are not compared, neither with the inputs nor
\* with the least fee.
CheckSignatures(t) ==
  LET tx == accepting[t].tx IN
  /\ accepting[t].at = "utxo"
  /\ IF Spends(tx) \subseteq DOMAIN chain_utxo /\ tx.keyOK /\ tx.sigOK
     THEN goto(t, [at |-> "insert", entry |-> entry_of(tx, chain_utxo)])
     ELSE goto(t, Idle)
  /\ UNCHANGED <<entries, spent, chain_utxo, overlapped>>

\* The UTXO set is read, and the fee compared with the least one relayed.
CheckUtxo(t) ==
  LET tx == accepting[t].tx
      e  == entry_of(tx, chain_utxo)
  IN  /\ accepting[t].at = "utxo"
      /\ IF funded(tx, chain_utxo) /\ e.fee >= min_fee(e.size)
         THEN goto(t, [at |-> "insert", entry |-> e])
         ELSE goto(t, Idle)
      /\ UNCHANGED <<entries, spent, chain_utxo, overlapped>>

\* Mutant of full: one entry too many.
over_full == Cardinality(DOMAIN entries) > MAX_MEMPOOL

full == Cardinality(DOMAIN entries) >= MAX_MEMPOOL

lowest == {id \in DOMAIN entries :
             \A other \in DOMAIN entries :
                feerate(entries[id]) =< feerate(entries[other])}

without(ids) == Restrict(entries, DOMAIN entries \ ids)

\* Mutant of Evict: the inputs of the evicted transaction stay spent.
EvictEntryOnly(t) ==
  /\ accepting[t].at = "insert"
  /\ unlocked
  /\ full
  /\ \E id \in lowest :
        /\ feerate(accepting[t].entry) > feerate(entries[id])
        /\ entries' = without({id})
        /\ UNCHANGED spent
  /\ goto(t, [accepting[t] EXCEPT !.at = "add"])
  /\ UNCHANGED <<chain_utxo, overlapped>>

\* A full pool gives up a transaction of the lowest fee rate for a better one.
\* The lock of entries is kept, that of spent is not.
Evict(t) ==
  /\ accepting[t].at = "insert"
  /\ unlocked
  /\ full
  /\ \E id \in lowest :
        /\ feerate(accepting[t].entry) > feerate(entries[id])
        /\ entries' = without({id})
        /\ spent' = spent \ Spends(entries[id].tx)
  /\ goto(t, [accepting[t] EXCEPT !.at = "add"])
  /\ UNCHANGED <<chain_utxo, overlapped>>

\* None in the pool is worse: the transaction is refused.
RefuseFull(t) ==
  /\ accepting[t].at = "insert"
  /\ unlocked
  /\ full
  /\ \E id \in lowest : feerate(accepting[t].entry) =< feerate(entries[id])
  /\ goto(t, Idle)
  /\ UNCHANGED <<entries, spent, chain_utxo, overlapped>>

\* The inputs are marked and the transaction enters, at once when there is
\* room; an entry with the same txid is replaced.
Add(t) ==
  LET e == accepting[t].entry IN
  /\ \/ accepting[t].at = "add"
     \/ accepting[t].at = "insert" /\ unlocked /\ ~ full
  /\ spent' = spent \cup Spends(e.tx)
  /\ entries' = Insert(entries, e.tx.txid, e)
  /\ goto(t, Idle)
  /\ UNCHANGED <<chain_utxo, overlapped>>

-----------------------------------------------------------------------------
(* The other operations *)

\* remove_txs, which a miner calls with the transactions of its own block.
remove_txs(ids) ==
  /\ unlocked
  /\ entries' = without(ids)
  /\ spent' = spent \ UNION {Spends(entries[id].tx) :
                               id \in ids \cap DOMAIN entries}
  /\ UNCHANGED <<chain_utxo, accepting, overlapped>>

\* The chain connects a block or switches to another branch.  No operation of
\* the mempool follows from it.
ChainMoves ==
  /\ chain_utxo' \in Utxos
  /\ UNCHANGED <<entries, spent, accepting, overlapped>>

MempoolInit ==
  /\ entries = << >>
  /\ spent = {}
  /\ chain_utxo \in Utxos
  /\ accepting = [t \in Threads |-> Idle]
  /\ overlapped = FALSE

MempoolNext ==
  \/ \E t \in Threads :
        \/ \E tx \in Offered : CheckSpent(t, tx)
        \/ CheckUtxo(t)
        \/ Evict(t)
        \/ RefuseFull(t)
        \/ Add(t)
  \/ \E ids \in SUBSET {tx.txid : tx \in Offered} : remove_txs(ids)
  \/ ChainMoves

MempoolSpec == MempoolInit /\ [][MempoolNext]_mempool_vars

-----------------------------------------------------------------------------
(* Properties *)

SpentByEntries == UNION {Spends(entries[id].tx) : id \in DOMAIN entries}

Conflict(a, b) == Spends(entries[a].tx) \cap Spends(entries[b].tx) # {}

\* Every variable has the shape of its Rust type; an entry is kept under its txid.
MempoolTypeOK ==
  /\ IsMap(entries, TxIds, Entry)
  /\ \A id \in DOMAIN entries : entries[id].tx.txid = id
  /\ spent \subseteq OutPoint
  /\ IsMap(chain_utxo, OutPoint, TxOut)
  /\ accepting \in [Threads -> Call]
  /\ overlapped \in BOOLEAN

\* No output stays blocked by a transaction that has left the pool, whichever
\* threads evicted, removed or replaced it while others were between their
\* sections: accept would refuse its owner's next payment for ever.
SpentIsBacked == spent \subseteq SpentByEntries

\* The pool never holds more than MAX_MEMPOOL entries, however many threads found
\* room at the same time.
WithinCapacity == Cardinality(DOMAIN entries) =< MAX_MEMPOOL

\* As long as calls of accept never overlap, spent is exactly what the entries
\* spend and no two entries spend one output.
SerialIsExact ==
  ~ overlapped =>
     /\ spent = SpentByEntries
     /\ \A a, b \in DOMAIN entries : Conflict(a, b) => a = b

\* The fee recorded once, on entry, is what the chain would compute now, wherever
\* it has moved: the coinbase a miner builds from it never claims too much.
FeesAreReal ==
  \A id \in DOMAIN entries :
     Spends(entries[id].tx) \subseteq DOMAIN chain_utxo =>
        entries[id].fee = InputTotal(chain_utxo, entries[id].tx)
                          - OutputTotal(entries[id].tx)

\* What the refusal "input already spent by another mempool tx" is for: no two
\* transactions of the pool spend one output.
NoTwoEntriesConflict ==
  \A a, b \in DOMAIN entries : Conflict(a, b) => a = b
=============================================================================
