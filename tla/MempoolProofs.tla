---------------------------- MODULE MempoolProofs ----------------------------
(***************************************************************************)
(* The bookkeeping of the mempool for any number of threads, any offered   *)
(* transactions and any moves of the chain.                                *)
(***************************************************************************)
EXTENDS Mempool, LedgerProofs, FiniteSetTheorems

\* The transaction a call of accept is about.
About(call) == IF call.at = "utxo" THEN call.tx ELSE call.entry.tx

\* An entry of an offered transaction that records the fee every UTXO set gives.
Real(e) ==
  /\ e.tx \in Offered
  /\ \A u \in Utxos : Spends(e.tx) \subseteq DOMAIN u =>
        e.fee = InputTotal(u, e.tx) - OutputTotal(e.tx)

\* What is kept in entries, and what a thread is about to put there.
AllReal ==
  /\ chain_utxo \in Utxos
  /\ \A id \in DOMAIN entries : Real(entries[id])
  /\ \A t \in Threads :
        /\ accepting[t].at = "utxo" => accepting[t].tx \in Offered
        /\ accepting[t].at \in {"insert", "add"} => Real(accepting[t].entry)

\* One thread at most holds the lock of entries, and it has room.
Locked ==
  /\ \A t, u \in Threads :
        accepting[t].at = "add" /\ accepting[u].at = "add" => t = u
  /\ \A t \in Threads :
        accepting[t].at = "add" => Cardinality(DOMAIN entries) < MAX_MEMPOOL

Counted ==
  /\ IsFiniteSet(DOMAIN entries)
  /\ WithinCapacity

\* Without overlap there is one call at most, and nothing has come to spend what
\* its transaction spends.
Serial ==
  ~ overlapped =>
     /\ \A t, u \in Threads :
           accepting[t] # Idle /\ accepting[u] # Idle => t = u
     /\ \A t \in Threads :
           accepting[t] # Idle => Spends(About(accepting[t])) \cap spent = {}

MInv ==
  /\ MempoolTypeOK
  /\ AllReal
  /\ Locked
  /\ Counted
  /\ SpentIsBacked
  /\ Serial
  /\ SerialIsExact

-----------------------------------------------------------------------------

\* The four shapes of a call.
LEMMA CallShape ==
  ASSUME NEW c \in Call
  PROVE  /\ c.at \in {"idle", "utxo", "insert", "add"}
         /\ c.at = "idle" <=> c = Idle
         /\ c.at = "utxo" => c.tx \in Transaction
         /\ c.at \in {"insert", "add"} =>
              /\ c.entry \in Entry
              /\ [c EXCEPT !.at = "add"] = [at |-> "add", entry |-> c.entry]
              /\ [at |-> "add", entry |-> c.entry] \in Call
PROOF
  <1>1. CASE c = Idle
    BY <1>1 DEF Idle
  <1>2. CASE c \in [at : {"utxo"}, tx : Transaction]
    BY <1>2 DEF Idle
  <1>3. CASE c \in [at : {"insert", "add"}, entry : Entry]
    <2>1. c = [at |-> c.at, entry |-> c.entry]
      BY <1>3
    <2> QED
      BY <1>3, <2>1 DEF Idle, Call
  <1> QED
    BY <1>1, <1>2, <1>3 DEF Call

\* The total of a transaction's inputs depends on the outputs they name only.
LEMMA SameInputs ==
  ASSUME NEW u \in Utxos, NEW v \in Utxos, NEW tx \in Transaction,
         Spends(tx) \subseteq DOMAIN u, Spends(tx) \subseteq DOMAIN v
  PROVE  InputTotal(u, tx) = InputTotal(v, tx)
PROOF
  <1>1. \A i \in DOMAIN tx.inputs : u[tx.inputs[i]] = v[tx.inputs[i]]
    BY HashAssumption DEF Spends, Range
  <1>2. [i \in DOMAIN tx.inputs |-> u[tx.inputs[i]].value]
          = [i \in DOMAIN tx.inputs |-> v[tx.inputs[i]].value]
    BY <1>1
  <1> QED
    BY <1>2 DEF InputTotal

\* What CheckUtxo makes of a funded transaction is an entry with its real fee.
LEMMA EntryOfReal ==
  ASSUME NEW tx \in Offered, NEW u \in Utxos, funded(tx, u)
  PROVE  entry_of(tx, u) \in Entry /\ Real(entry_of(tx, u))
PROOF
  <1>1. tx \in Transaction /\ IsMap(u, OutPoint, TxOut)
    BY MempoolAssumption
  <1>2. \A i \in DOMAIN tx.inputs : tx.inputs[i] \in DOMAIN u
    BY DEF funded, Spends, Range
  <1>3. OutputTotal(tx) \in Nat /\ InputTotal(u, tx) \in Nat
    BY <1>1, <1>2, OutputTotalNat, InputTotalNat
  <1>4. Size[tx.txid] \in Nat \ {0}
    BY <1>1, MempoolAssumption DEF Transaction
  <1>5. entry_of(tx, u) \in Entry
    BY <1>1, <1>3, <1>4 DEF entry_of, Entry, funded
  <1>6. \A v \in Utxos : Spends(tx) \subseteq DOMAIN v =>
           entry_of(tx, u).fee = InputTotal(v, tx) - OutputTotal(tx)
    BY <1>1, SameInputs DEF funded, entry_of
  <1> QED
    BY <1>5, <1>6 DEF Real, entry_of

\* The entries that are left, and the ones there are after an insertion.
LEMMA WithoutMap ==
  ASSUME IsMap(entries, TxIds, Entry), NEW ids
  PROVE  /\ IsMap(without(ids), TxIds, Entry)
         /\ DOMAIN without(ids) = DOMAIN entries \ ids
         /\ \A id \in DOMAIN without(ids) : without(ids)[id] = entries[id]
PROOF
  <1>1. DOMAIN entries \ ids \subseteq DOMAIN entries
    OBVIOUS
  <1>2. IsMap(without(ids), TxIds, Entry)
    BY <1>1, MapRestrict DEF without
  <1> QED
    BY <1>2 DEF without, Restrict

-----------------------------------------------------------------------------
(* The invariant *)

LEMMA MempoolInitInv ==
  MempoolInit => MInv
PROOF
  <1> SUFFICES ASSUME MempoolInit PROVE MInv
    OBVIOUS
  <1>1. DOMAIN entries = {}
    BY DEF MempoolInit
  <1>2. IsMap(entries, TxIds, Entry)
    BY DEF MempoolInit, IsMap
  <1>3. MempoolTypeOK
    BY <1>1, <1>2, MempoolAssumption DEF MempoolInit, MempoolTypeOK, Call
  <1>4. AllReal
    BY <1>1 DEF MempoolInit, AllReal, Idle
  <1>5. Locked
    BY DEF MempoolInit, Locked, Idle
  <1>6. Counted
    BY <1>1, FS_EmptySet, MempoolAssumption DEF Counted, WithinCapacity
  <1>7. SpentIsBacked
    BY DEF MempoolInit, SpentIsBacked
  <1>8. Serial
    BY DEF MempoolInit, Serial
  <1>9. SerialIsExact
    BY <1>1 DEF MempoolInit, SerialIsExact, SpentByEntries
  <1> QED
    BY <1>3, <1>4, <1>5, <1>6, <1>7, <1>8, <1>9 DEF MInv

\* Reading spent: a call begins.
LEMMA CheckSpentInv ==
  ASSUME MInv, NEW t \in Threads, NEW tx \in Offered, CheckSpent(t, tx)
  PROVE  MInv'
PROOF
  <1> DEFINE c == [at |-> "utxo", tx |-> tx]
  <1>1. c \in Call /\ c # Idle /\ c.at = "utxo" /\ c.tx = tx
    BY MempoolAssumption DEF Call, Idle
  <1> HIDE DEF c
  <1>2. accepting' = [accepting EXCEPT ![t] = c]
    BY DEF CheckSpent, goto, c
  <1>3. accepting \in [Threads -> Call]
    BY DEF MInv, MempoolTypeOK
  <1>4. UNCHANGED <<entries, spent, chain_utxo>> /\ accepting[t] = Idle
    BY DEF CheckSpent
  <1>5. MempoolTypeOK'
    BY <1>1, <1>2, <1>3, <1>4 DEF MInv, MempoolTypeOK, CheckSpent
  <1>6. AllReal'
    BY <1>1, <1>2, <1>3, <1>4 DEF MInv, AllReal, Real
  <1>7. Locked'
    BY <1>1, <1>2, <1>3, <1>4 DEF MInv, Locked
  <1>8. Counted' /\ SpentIsBacked'
    BY <1>4 DEF MInv, Counted, WithinCapacity, SpentIsBacked, SpentByEntries
  <1>9. Serial'
    <2> SUFFICES ASSUME ~ overlapped'
                 PROVE  /\ \A u, v \in Threads :
                             accepting'[u] # Idle /\ accepting'[v] # Idle
                               => u = v
                        /\ \A u \in Threads : accepting'[u] # Idle =>
                             Spends(About(accepting'[u])) \cap spent' = {}
      BY DEF Serial
    <2>1. \A u \in Threads : accepting[u] = Idle
      BY DEF CheckSpent
    <2>2. \A u \in Threads : u # t => accepting'[u] = Idle
      BY <1>2, <1>3, <2>1
    <2>3. accepting'[t] = c
      BY <1>2, <1>3
    <2>4. Spends(About(c)) \cap spent = {}
      BY <1>1 DEF About, CheckSpent
    <2> QED
      BY <1>4, <2>2, <2>3, <2>4
  <1>10. SerialIsExact'
    BY <1>4 DEF MInv, SerialIsExact, SpentByEntries, Conflict, CheckSpent
  <1> QED
    BY <1>5, <1>6, <1>7, <1>8, <1>9, <1>10 DEF MInv

\* Reading the UTXO set: the call goes on with a real entry, or ends.
LEMMA CheckUtxoInv ==
  ASSUME MInv, NEW t \in Threads, CheckUtxo(t)
  PROVE  MInv'
PROOF
  <1> DEFINE tx == accepting[t].tx
             e  == entry_of(tx, chain_utxo)
             c  == IF funded(tx, chain_utxo) /\ e.fee >= min_fee(e.size)
                   THEN [at |-> "insert", entry |-> e] ELSE Idle
  <1>1. accepting \in [Threads -> Call] /\ accepting[t].at = "utxo"
    BY DEF MInv, MempoolTypeOK, CheckUtxo
  <1>2. tx \in Offered /\ chain_utxo \in Utxos
    BY <1>1 DEF MInv, AllReal
  <1>3. UNCHANGED <<entries, spent, chain_utxo, overlapped>>
    BY DEF CheckUtxo
  <1>4. accepting' = [accepting EXCEPT ![t] = c]
    BY DEF CheckUtxo, goto
  <1>5. /\ c \in Call
        /\ c.at # "add" /\ c.at # "utxo"
        /\ c.at = "insert" => Real(c.entry)
        /\ c # Idle => About(c) = tx
    <2>1. CASE c = Idle
      BY <2>1 DEF Call, Idle
    <2>2. CASE funded(tx, chain_utxo) /\ c = [at |-> "insert", entry |-> e]
      <3>1. e \in Entry /\ Real(e)
        BY <1>2, <2>2, EntryOfReal
      <3>2. e.tx = tx
        BY DEF entry_of
      <3> HIDE DEF e
      <3> QED
        BY <2>2, <3>1, <3>2 DEF Call, About
    <2> QED
      BY <2>1, <2>2
  <1>6. accepting[t] # Idle /\ About(accepting[t]) = tx
    BY <1>1 DEF Idle, About
  <1> HIDE DEF c, tx
  <1>7. MempoolTypeOK'
    BY <1>1, <1>3, <1>4, <1>5 DEF MInv, MempoolTypeOK
  <1>8. AllReal'
    BY <1>1, <1>3, <1>4, <1>5 DEF MInv, AllReal, Real
  <1>9. Locked'
    BY <1>1, <1>3, <1>4, <1>5 DEF MInv, Locked
  <1>10. Counted' /\ SpentIsBacked'
    BY <1>3 DEF MInv, Counted, WithinCapacity, SpentIsBacked, SpentByEntries
  <1>11. Serial'
    BY <1>1, <1>3, <1>4, <1>5, <1>6 DEF MInv, Serial
  <1>12. SerialIsExact'
    BY <1>3 DEF MInv, SerialIsExact, SpentByEntries, Conflict
  <1> QED
    BY <1>7, <1>8, <1>9, <1>10, <1>11, <1>12 DEF MInv

\* Taking entries out together with their inputs, by eviction or by remove_txs,
\* keeps what concerns entries and spent.
LEMMA RemovalKeeps ==
  ASSUME MInv, NEW ids,
         entries' = without(ids),
         spent' = spent \ UNION {Spends(entries[id].tx) :
                                   id \in ids \cap DOMAIN entries},
         UNCHANGED overlapped
  PROVE  /\ IsMap(entries', TxIds, Entry)
         /\ DOMAIN entries' = DOMAIN entries \ ids
         /\ \A id \in DOMAIN entries' : entries'[id] = entries[id]
         /\ spent' \subseteq spent
         /\ Counted'
         /\ SpentIsBacked'
         /\ SerialIsExact'
PROOF
  <1>1. IsMap(entries, TxIds, Entry)
    BY DEF MInv, MempoolTypeOK
  <1>2. /\ IsMap(entries', TxIds, Entry)
        /\ DOMAIN entries' = DOMAIN entries \ ids
        /\ \A id \in DOMAIN entries' : entries'[id] = entries[id]
    BY <1>1, WithoutMap
  <1>3. Counted'
    <2>1. IsFiniteSet(DOMAIN entries)
      BY DEF MInv, Counted
    <2>2. DOMAIN entries' \in SUBSET DOMAIN entries
      BY <1>2
    <2>3. /\ IsFiniteSet(DOMAIN entries')
          /\ Cardinality(DOMAIN entries') =< Cardinality(DOMAIN entries)
      BY <2>1, <2>2, FS_Subset
    <2>4. /\ Cardinality(DOMAIN entries) \in Nat
          /\ Cardinality(DOMAIN entries') \in Nat
      BY <2>1, <2>3, FS_CardinalityType
    <2> QED
      BY <2>3, <2>4, MempoolAssumption DEF MInv, Counted, WithinCapacity
  <1>4. ASSUME NEW o \in spent'
        PROVE  o \in SpentByEntries'
    <2>1. PICK id \in DOMAIN entries : o \in Spends(entries[id].tx)
      BY <1>4 DEF MInv, SpentIsBacked, SpentByEntries
    <2>2. id \notin ids
      BY <1>4, <2>1
    <2> QED
      BY <1>2, <2>1, <2>2 DEF SpentByEntries
  <1>5. SerialIsExact'
    <2> SUFFICES ASSUME ~ overlapped
                 PROVE  /\ SpentByEntries' \subseteq spent'
                        /\ \A a, b \in DOMAIN entries' :
                             Conflict(a, b)' => a = b
      BY <1>4 DEF SerialIsExact
    <2>1. /\ spent = SpentByEntries
          /\ \A a, b \in DOMAIN entries : Conflict(a, b) => a = b
      BY DEF MInv, SerialIsExact
    <2>2. ASSUME NEW id \in DOMAIN entries', NEW o \in Spends(entries'[id].tx)
          PROVE  o \in spent'
      <3>1. id \in DOMAIN entries /\ id \notin ids
            /\ o \in Spends(entries[id].tx)
        BY <1>2, <2>2
      <3>2. \A x \in ids \cap DOMAIN entries : o \notin Spends(entries[x].tx)
        BY <2>1, <3>1 DEF Conflict
      <3> QED
        BY <2>1, <3>1, <3>2 DEF SpentByEntries
    <2>3. \A a, b \in DOMAIN entries' : Conflict(a, b)' => a = b
      BY <1>2, <2>1 DEF Conflict
    <2> QED
      BY <2>2, <2>3 DEF SpentByEntries
  <1> QED
    BY <1>2, <1>3, <1>4, <1>5 DEF SpentIsBacked

LEMMA EvictInv ==
  ASSUME MInv, NEW t \in Threads, Evict(t)
  PROVE  MInv'
PROOF
  <1> DEFINE c == [accepting[t] EXCEPT !.at = "add"]
  <1>1. accepting \in [Threads -> Call] /\ accepting[t].at = "insert"
    BY DEF MInv, MempoolTypeOK, Evict
  <1>2. PICK id \in lowest : /\ entries' = without({id})
                             /\ spent' = spent \ Spends(entries[id].tx)
    BY DEF Evict
  <1>3. id \in DOMAIN entries
    BY <1>2 DEF lowest
  <1>4. spent' = spent \ UNION {Spends(entries[x].tx) :
                                  x \in {id} \cap DOMAIN entries}
    BY <1>2, <1>3
  <1>5. UNCHANGED <<chain_utxo, overlapped>>
    BY DEF Evict
  <1>6. /\ IsMap(entries', TxIds, Entry)
        /\ DOMAIN entries' = DOMAIN entries \ {id}
        /\ \A x \in DOMAIN entries' : entries'[x] = entries[x]
        /\ spent' \subseteq spent
        /\ Counted' /\ SpentIsBacked' /\ SerialIsExact'
    BY <1>2, <1>4, <1>5, RemovalKeeps
  <1>7. accepting' = [accepting EXCEPT ![t] = c]
    BY DEF Evict, goto
  <1>8. /\ c \in Call /\ c.at = "add" /\ c.entry = accepting[t].entry
        /\ c # Idle /\ About(c) = About(accepting[t])
    <2>1. /\ c = [at |-> "add", entry |-> accepting[t].entry]
          /\ c \in Call
      BY <1>1, CallShape
    <2> QED
      BY <1>1, <2>1 DEF Idle, About
  <1>9. accepting[t] # Idle
    BY <1>1 DEF Idle
  <1> HIDE DEF c
  <1>10. MempoolTypeOK'
    BY <1>1, <1>5, <1>6, <1>7, <1>8 DEF MInv, MempoolTypeOK
  <1>11. AllReal'
    BY <1>1, <1>5, <1>6, <1>7, <1>8 DEF MInv, AllReal, Real
  <1>12. Locked'
    <2>1. \A u \in Threads : accepting[u].at # "add"
      BY DEF Evict, unlocked
    <2>2. Cardinality(DOMAIN entries') < MAX_MEMPOOL
      <3>1. IsFiniteSet(DOMAIN entries)
            /\ Cardinality(DOMAIN entries) =< MAX_MEMPOOL
        BY DEF MInv, Counted, WithinCapacity
      <3>2. Cardinality(DOMAIN entries') = Cardinality(DOMAIN entries) - 1
        BY <1>3, <1>6, <3>1, FS_RemoveElement
      <3> QED
        BY <3>1, <3>2, FS_CardinalityType, MempoolAssumption
    <2> QED
      BY <1>1, <1>7, <1>8, <2>1, <2>2 DEF Locked
  <1>13. Serial'
    BY <1>1, <1>5, <1>6, <1>7, <1>8, <1>9 DEF MInv, Serial
  <1> QED
    BY <1>6, <1>10, <1>11, <1>12, <1>13 DEF MInv

LEMMA RefuseFullInv ==
  ASSUME MInv, NEW t \in Threads, RefuseFull(t)
  PROVE  MInv'
PROOF
  <1>1. accepting \in [Threads -> Call]
    BY DEF MInv, MempoolTypeOK
  <1>2. accepting' = [accepting EXCEPT ![t] = Idle]
    BY DEF RefuseFull, goto
  <1>3. UNCHANGED <<entries, spent, chain_utxo, overlapped>>
    BY DEF RefuseFull
  <1>4. Idle \in Call /\ Idle.at = "idle"
    BY DEF Call, Idle
  <1>5. MempoolTypeOK'
    BY <1>1, <1>2, <1>3, <1>4 DEF MInv, MempoolTypeOK
  <1>6. AllReal'
    BY <1>1, <1>2, <1>3, <1>4 DEF MInv, AllReal, Real
  <1>7. Locked'
    BY <1>1, <1>2, <1>3, <1>4 DEF MInv, Locked
  <1>8. Counted' /\ SpentIsBacked'
    BY <1>3 DEF MInv, Counted, WithinCapacity, SpentIsBacked, SpentByEntries
  <1>9. Serial'
    BY <1>1, <1>2, <1>3 DEF MInv, Serial
  <1>10. SerialIsExact'
    BY <1>3 DEF MInv, SerialIsExact, SpentByEntries, Conflict
  <1> QED
    BY <1>5, <1>6, <1>7, <1>8, <1>9, <1>10 DEF MInv

LEMMA AddInv ==
  ASSUME MInv, NEW t \in Threads, Add(t)
  PROVE  MInv'
PROOF
  <1> DEFINE e  == accepting[t].entry
             id == e.tx.txid
  <1>1. accepting \in [Threads -> Call] /\ accepting[t].at \in {"insert", "add"}
    BY DEF MInv, MempoolTypeOK, Add
  <1>2. e \in Entry /\ Real(e)
    BY <1>1, CallShape DEF MInv, AllReal
  <1>3. id \in TxIds /\ e.tx \in Offered /\ e.tx \in Transaction
    BY <1>2, MempoolAssumption DEF Real, Transaction
  <1>4. accepting' = [accepting EXCEPT ![t] = Idle]
    BY DEF Add, goto
  <1>5. /\ spent' = spent \cup Spends(e.tx)
        /\ entries' = Insert(entries, id, e)
        /\ UNCHANGED <<chain_utxo, overlapped>>
    BY DEF Add
  <1>6. Idle \in Call /\ Idle.at = "idle"
    BY DEF Call, Idle
  <1>7. accepting[t] # Idle /\ About(accepting[t]) = e.tx
    BY <1>1 DEF Idle, About
  <1> HIDE DEF e
  <1>8. /\ IsMap(entries', TxIds, Entry)
        /\ DOMAIN entries' = DOMAIN entries \cup {id}
        /\ entries'[id] = e
        /\ \A x \in DOMAIN entries : x # id => entries'[x] = entries[x]
    <2>1. IsMap(entries, TxIds, Entry)
      BY DEF MInv, MempoolTypeOK
    <2>2. entries' = Insert(entries, id, e) /\ id \in TxIds /\ e \in Entry
      BY <1>2, <1>3, <1>5
    <2> HIDE DEF id
    <2> QED
      BY <2>1, <2>2 DEF IsMap, Insert
  \* An entry that is replaced spends the same outpoints.
  <1>9. id \in DOMAIN entries => Spends(entries[id].tx) = Spends(e.tx)
    <2> SUFFICES ASSUME id \in DOMAIN entries
                 PROVE  Spends(entries[id].tx) = Spends(e.tx)
      OBVIOUS
    <2>1. entries[id].tx.txid = id /\ entries[id].tx \in Offered
      BY DEF MInv, MempoolTypeOK, AllReal, Real
    <2>2. entries[id].tx.inputs = e.tx.inputs
      BY <1>3, <2>1, HashAssumption
    <2> QED
      BY <2>2 DEF Spends
  <1> HIDE DEF id
  <1>10. MempoolTypeOK'
    <2>1. Spends(e.tx) \subseteq OutPoint
      <3>1. e.tx.inputs \in Seq(OutPoint)
        BY <1>3 DEF Transaction
      <3> QED
        BY <3>1 DEF Spends, Range
    <2>2. \A x \in DOMAIN entries' : entries'[x].tx.txid = x
      <3>1. entries'[id].tx.txid = id
        BY <1>8 DEF id
      <3>2. \A x \in DOMAIN entries : entries[x].tx.txid = x
        BY DEF MInv, MempoolTypeOK
      <3> QED
        BY <1>8, <3>1, <3>2
    <2>3. IsMap(chain_utxo', OutPoint, TxOut)
      BY <1>5 DEF MInv, MempoolTypeOK
    <2> QED
      BY <1>1, <1>4, <1>5, <1>6, <1>8, <2>1, <2>2, <2>3 DEF MInv, MempoolTypeOK
  <1>11. AllReal'
    BY <1>1, <1>2, <1>4, <1>5, <1>6, <1>8 DEF MInv, AllReal, Real
  <1>12. Locked'
    <2>1. \A u \in Threads : u # t => accepting[u].at # "add"
      BY <1>1 DEF MInv, Locked, Add, unlocked
    <2> QED
      BY <1>1, <1>4, <1>6, <2>1 DEF Locked
  <1>13. Counted'
    <2>1. IsFiniteSet(DOMAIN entries)
      BY DEF MInv, Counted
    <2>2. Cardinality(DOMAIN entries) < MAX_MEMPOOL
      BY <2>1, FS_CardinalityType, MempoolAssumption
         DEF MInv, Locked, Add, full
    <2>3. /\ IsFiniteSet(DOMAIN entries')
          /\ Cardinality(DOMAIN entries') =< Cardinality(DOMAIN entries) + 1
      <3>1. /\ IsFiniteSet(DOMAIN entries \cup {id})
            /\ \/ Cardinality(DOMAIN entries \cup {id}) = Cardinality(DOMAIN entries)
               \/ Cardinality(DOMAIN entries \cup {id}) = Cardinality(DOMAIN entries) + 1
        BY <2>1, FS_AddElement
      <3>2. Cardinality(DOMAIN entries) \in Nat
        BY <2>1, FS_CardinalityType
      <3>3. DOMAIN entries' = DOMAIN entries \cup {id}
        BY <1>8
      <3> QED
        BY <3>1, <3>2, <3>3
    <2>4. Cardinality(DOMAIN entries) \in Nat
          /\ Cardinality(DOMAIN entries') \in Nat
      BY <2>1, <2>3, FS_CardinalityType
    <2> QED
      BY <2>2, <2>3, <2>4, MempoolAssumption DEF Counted, WithinCapacity
  <1>14. SpentByEntries' = SpentByEntries \cup Spends(e.tx)
    <2>1. ASSUME NEW x \in DOMAIN entries
          PROVE  x \in DOMAIN entries' /\ Spends(entries'[x].tx) = Spends(entries[x].tx)
      BY <1>8, <1>9, <2>1
    <2>2. ASSUME NEW x \in DOMAIN entries', x \notin DOMAIN entries
          PROVE  Spends(entries'[x].tx) = Spends(e.tx)
      BY <1>8, <2>2
    <2>3. id \in DOMAIN entries' /\ entries'[id] = e
      BY <1>8
    <2> QED
      BY <2>1, <2>2, <2>3 DEF SpentByEntries
  <1>15. SpentIsBacked'
    BY <1>5, <1>14 DEF MInv, SpentIsBacked
  <1>16. Serial'
    BY <1>1, <1>4, <1>5, <1>7 DEF MInv, Serial
  <1>17. SerialIsExact'
    <2> SUFFICES ASSUME ~ overlapped
                 PROVE  /\ spent' = SpentByEntries'
                        /\ \A a, b \in DOMAIN entries' :
                             Conflict(a, b)' => a = b
      BY <1>5 DEF SerialIsExact
    <2>1. spent = SpentByEntries
          /\ \A a, b \in DOMAIN entries : Conflict(a, b) => a = b
      BY DEF MInv, SerialIsExact
    <2>2. Spends(e.tx) \cap spent = {}
      BY <1>7 DEF MInv, Serial
    <2>3. \A x \in DOMAIN entries : Spends(entries[x].tx) \cap Spends(e.tx) = {}
      BY <2>1, <2>2 DEF SpentByEntries
    <2>4. ASSUME NEW a \in DOMAIN entries', NEW b \in DOMAIN entries',
                 Conflict(a, b)', a # b
          PROVE  FALSE
      <3>1. Spends(entries'[a].tx) \cap Spends(entries'[b].tx) # {}
        BY <2>4 DEF Conflict
      <3>2. CASE a = id
        BY <1>8, <2>3, <2>4, <3>1, <3>2
      <3>3. CASE b = id
        BY <1>8, <2>3, <2>4, <3>1, <3>3
      <3>4. CASE a # id /\ b # id
        BY <1>8, <2>1, <2>4, <3>1, <3>4 DEF Conflict
      <3> QED
        BY <3>2, <3>3, <3>4
    <2> QED
      BY <1>5, <1>14, <2>1, <2>4
  <1> QED
    BY <1>10, <1>11, <1>12, <1>13, <1>15, <1>16, <1>17 DEF MInv

LEMMA RemoveInv ==
  ASSUME MInv, NEW ids, remove_txs(ids)
  PROVE  MInv'
PROOF
  <1>1. UNCHANGED <<chain_utxo, accepting, overlapped>>
    BY DEF remove_txs
  <1>2. /\ IsMap(entries', TxIds, Entry)
        /\ DOMAIN entries' = DOMAIN entries \ ids
        /\ \A x \in DOMAIN entries' : entries'[x] = entries[x]
        /\ spent' \subseteq spent
        /\ Counted' /\ SpentIsBacked' /\ SerialIsExact'
    BY <1>1, RemovalKeeps DEF remove_txs
  <1>3. MempoolTypeOK'
    BY <1>1, <1>2 DEF MInv, MempoolTypeOK
  <1>4. AllReal'
    BY <1>1, <1>2 DEF MInv, AllReal, Real
  <1>5. Locked'
    BY <1>1 DEF remove_txs, unlocked, Locked
  <1>6. Serial'
    BY <1>1, <1>2 DEF MInv, Serial
  <1> QED
    BY <1>2, <1>3, <1>4, <1>5, <1>6 DEF MInv

LEMMA ChainMovesInv ==
  ASSUME MInv, ChainMoves
  PROVE  MInv'
PROOF
  <1>1. UNCHANGED <<entries, spent, accepting, overlapped>>
        /\ chain_utxo' \in Utxos
    BY DEF ChainMoves
  <1>2. MempoolTypeOK'
    BY <1>1, MempoolAssumption DEF MInv, MempoolTypeOK
  <1>3. AllReal' /\ Locked' /\ Counted'
    BY <1>1 DEF MInv, AllReal, Real, Locked, Counted, WithinCapacity
  <1>4. SpentIsBacked' /\ Serial' /\ SerialIsExact'
    BY <1>1 DEF MInv, SpentIsBacked, SpentByEntries, Serial, SerialIsExact,
                Conflict
  <1> QED
    BY <1>2, <1>3, <1>4 DEF MInv

LEMMA MempoolNextInv ==
  MInv /\ [MempoolNext]_mempool_vars => MInv'
PROOF
  <1> SUFFICES ASSUME MInv, [MempoolNext]_mempool_vars PROVE MInv'
    OBVIOUS
  <1>1. ASSUME NEW t \in Threads, NEW tx \in Offered, CheckSpent(t, tx)
        PROVE  MInv'
    BY <1>1, CheckSpentInv
  <1>2. ASSUME NEW t \in Threads,
               CheckUtxo(t) \/ Evict(t) \/ RefuseFull(t) \/ Add(t)
        PROVE  MInv'
    BY <1>2, CheckUtxoInv, EvictInv, RefuseFullInv, AddInv
  <1>3. ASSUME NEW ids, remove_txs(ids) PROVE MInv'
    BY <1>3, RemoveInv
  <1>4. CASE ChainMoves
    BY <1>4, ChainMovesInv
  <1>5. CASE UNCHANGED mempool_vars
    BY <1>5 DEF mempool_vars, MInv, MempoolTypeOK, AllReal, Real, Locked,
                Counted, WithinCapacity, SpentIsBacked, SpentByEntries, Serial,
                SerialIsExact, Conflict
  <1> QED
    BY <1>1, <1>2, <1>3, <1>4, <1>5 DEF MempoolNext

LEMMA MempoolInvariance ==
  MempoolSpec => []MInv
PROOF
  BY MempoolInitInv, MempoolNextInv, PTL DEF MempoolSpec

-----------------------------------------------------------------------------

\* The types of the mempool's state, at every point of every call of accept.
THEOREM MempoolTypeCorrect ==
  MempoolSpec => []MempoolTypeOK
PROOF
  <1>1. MInv => MempoolTypeOK
    BY DEF MInv
  <1> QED
    BY <1>1, MempoolInvariance, PTL

\* No output stays blocked by a transaction that has left (accept, remove_txs).
THEOREM NothingStaysBlocked ==
  MempoolSpec => []SpentIsBacked
PROOF
  <1>1. MInv => SpentIsBacked
    BY DEF MInv
  <1> QED
    BY <1>1, MempoolInvariance, PTL

\* The bound of core/mempool.rs:93 holds for any number of threads.
THEOREM PoolIsBounded ==
  MempoolSpec => []WithinCapacity
PROOF
  <1>1. MInv => WithinCapacity
    BY DEF MInv, Counted
  <1> QED
    BY <1>1, MempoolInvariance, PTL

\* Calls of accept that do not overlap keep the pool free of conflicts.
THEOREM SerialPoolHasNoConflict ==
  MempoolSpec => []SerialIsExact
PROOF
  <1>1. MInv => SerialIsExact
    BY DEF MInv
  <1> QED
    BY <1>1, MempoolInvariance, PTL

\* The fees a template collects are the fees the chain will compute.
THEOREM FeesStayReal ==
  MempoolSpec => []FeesAreReal
PROOF
  <1>1. MInv => FeesAreReal
    BY DEF MInv, AllReal, Real, FeesAreReal
  <1> QED
    BY <1>1, MempoolInvariance, PTL
=============================================================================
