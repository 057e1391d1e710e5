-------------------------- MODULE WalletAppProofs ---------------------------
(***************************************************************************)
(* Who may use a key, what the window lists, and what the payments are:    *)
(* any number of keys, coins, payments, reorgs and ends of the process.    *)
(***************************************************************************)
EXTENDS WalletApp, LedgerProofs

\* The key's phrase was confirmed, or the process ended before it could be.
shown(k) == k \in known \cup cut

FileOK ==
  /\ file = [key |-> file.key, pass |-> file.pass, hist |-> file.hist]
  /\ file.pass \in BOOLEAN

\* A key is on its way to the file; a file that was never written has no
\* password beside it.
Pending ==
  /\ app \in {"creating", "emptied"} => next \in Keys
  /\ app = "creating" => ~ file.pass
  /\ app = "stored" => file.key \in Keys
  /\ app # "down" => file.key # NoKey.absent
  /\ file.key = NoKey.absent => ~ file.pass

\* Before the window opens a password file vouches for the key it lies beside;
\* in the window the confirmation does.
Vouched ==
  /\ app = "down" /\ file.key \in Keys => shown(file.key)
  /\ app \in {"loaded", "serving"} /\ file.pass => shown(key)
  /\ app = "up" /\ acked => shown(key)

SeedInv == FileOK /\ Pending /\ Vouched

\* What the node, the payments and the mempool leave alone.
Still == UNCHANGED <<file, app, next, key, acked, known, cut>>

\* There is no key, or one with a password whose phrase was confirmed.
LEMMA SeedInit == WalletInit => SeedInv
<1> SUFFICES ASSUME WalletInit PROVE SeedInv
  OBVIOUS
<1> USE WalletAssumption DEF WalletAssumption, FileOK, Pending, Vouched, shown,
      SeedInv, NoKey
<1>1. app = "down" /\ cut = {}
  BY DEF WalletInit
<1>2. CASE /\ file = [key |-> NoKey.absent, pass |-> FALSE, hist |-> NoHistory]
  BY <1>1, <1>2
<1>3. CASE /\ file = [key |-> First, pass |-> TRUE, hist |-> NoHistory]
           /\ known = {First}
  BY <1>1, <1>3
<1>. QED  BY <1>2, <1>3 DEF WalletInit

\* What leaves the wallet's own variables alone keeps the invariant.
LEMMA StillKeeps == SeedInv /\ Still => SeedInv'
BY DEF SeedInv, Still, FileOK, Pending, Vouched, shown

\* Everything but the steps that store a key, open the window or end it.
Others ==
  \/ execute_send \/ rpc_send \/ remove_txs
  \/ NewBlock \/ Reorg \/ PublishIndex \/ Flush \/ UNCHANGED vars

\* They leave the wallet's own variables alone.
LEMMA OthersAreStill == ASSUME Others PROVE Still /\ UNCHANGED pass
<1>1. CASE execute_send \/ rpc_send
  <2>1. PICK who \in Callers : Begin(who) \/ Check(who) \/ Admit(who)
    BY <1>1 DEF execute_send, rpc_send, Callers
  <2>. QED  BY <2>1 DEF Begin, Check, Admit, window, seen, Still
<1>2. CASE remove_txs  BY <1>2 DEF remove_txs, window, seen, Still
<1>3. CASE NewBlock  BY <1>3 DEF NewBlock, window, seen, Still
<1>4. CASE Reorg  BY <1>4 DEF Reorg, window, seen, Still
<1>5. CASE PublishIndex  BY <1>5 DEF PublishIndex, window, seen, Still
<1>6. CASE Flush  BY <1>6 DEF Flush, window, seen, Still
<1>7. CASE UNCHANGED vars  BY <1>7 DEF vars, window, seen, Still
<1>. QED  BY <1>1, <1>2, <1>3, <1>4, <1>5, <1>6, <1>7 DEF Others

\* One case for each action that writes the file, the key or the confirmation.
LEMMA SeedStep == SeedInv /\ [WalletNext]_vars => SeedInv'
<1> SUFFICES ASSUME SeedInv, [WalletNext]_vars PROVE SeedInv'
  OBVIOUS
<1> USE WalletAssumption DEF WalletAssumption, FileOK, Pending, Vouched, shown,
      SeedInv, NoKey, goto
<1>1. CASE Load  BY <1>1 DEF Load
<1>2. CASE FirstKey
  <2>1. next' \in Keys  BY <1>2 DEF FirstKey, FreshKeys
  <2>. QED  BY <1>2, <2>1 DEF FirstKey
<1>3. CASE KeyWritten  BY <1>3 DEF KeyWritten, seen
<1>4. CASE Serve  BY <1>4 DEF Serve, seen
<1>5. CASE Open  BY <1>5 DEF Open, seen
<1>6. CASE Die  BY <1>6 DEF Die
<1>7. CASE SetPassword  BY <1>7 DEF SetPassword, Idle, seen
<1>8. CASE Acknowledge  BY <1>8 DEF Acknowledge, Idle
<1>9. CASE Poll  BY <1>9 DEF Poll, Ready, Idle, seen
<1>10. CASE CreateNew
  <2>1. PICK k \in FreshKeys : empty(k)  BY <1>10 DEF CreateNew
  <2>2. k \in Keys  BY DEF FreshKeys
  <2>. QED  BY <1>10, <2>1, <2>2 DEF CreateNew, empty
<1>11. CASE Restore
  <2>1. PICK k \in Keys : empty(k)  BY <1>11 DEF Restore
  <2>. QED  BY <1>11, <2>1 DEF Restore, empty
<1>12. CASE Stored  BY <1>12 DEF Stored, seen
<1>13. CASE TakeUp  BY <1>13 DEF TakeUp, seen
<1>14. CASE ForgetHistory  BY <1>14 DEF ForgetHistory, seen
<1>15. CASE ForgetPassword  BY <1>15 DEF ForgetPassword, seen
<1>16. CASE Others
  BY <1>16, OthersAreStill, StillKeeps
<1>. QED
  BY <1>1, <1>2, <1>3, <1>4, <1>5, <1>6, <1>7, <1>8, <1>9, <1>10, <1>11, <1>12,
     <1>13, <1>14, <1>15, <1>16 DEF WalletNext, Others

\* The window lets nobody in to a key whose phrase was not confirmed, except
\* after an end of the process between the storing of the key and that.
THEOREM SeedStaysShown == WalletSpec => []SeedIsShown
<1>1. SeedInv => SeedIsShown
  BY DEF SeedInv, Vouched, SeedIsShown, Ready, Idle, shown
<1>. QED  BY <1>1, SeedInit, SeedStep, PTL DEF WalletSpec

-----------------------------------------------------------------------------
(* The history *)

Made == \E S : txs \in Seq(S)

Apart(branch) ==
  \A i, j \in 1..Len(branch) : i # j => branch[i] \cap branch[j] = {}

Branch(branch) == branch \in Seq(SUBSET (1..Len(txs))) /\ Apart(branch)

\* The index lags behind by a block at the end: one that is not there yet, or
\* one that a reorg took out and is there still.  The disk lags behind by blocks.
ChainsOK ==
  /\ Branch(chain) /\ Branch(index) /\ Branch(disk)
  /\ Len(index) =< Len(chain) /\ Len(disk) =< Len(chain)
  /\ \A i \in 1..Len(index) :
       index[i] = chain[i] \/ (i = Len(index) /\ index[i] \subseteq moved)
  /\ cursor \in 0..Len(chain)

Within(t, c) == \E i \in 1..c : t \in chain[i]

\* A history whose cursor is at c has nothing sent as income, and once only what
\* is in a block up to there, but for what left the chain.
Honest(h, c) ==
  /\ h = [sent |-> h.sent, got |-> h.got]
  /\ h.sent \subseteq 1..Len(txs) /\ h.got \in [Txs -> Nat]
  /\ \A t \in Txs :
       /\ h.got[t] > 0 => t \in (1..Len(txs)) \ h.sent
       /\ t \notin moved => h.got[t] =< 1 /\ (h.got[t] = 1 => Within(t, c))

\* The history in use goes with the cursor; the saved one will be scanned from
\* the present height on.
HistoryInv ==
  /\ Made /\ ChainsOK
  /\ Honest(hist, cursor)
  /\ FileOK /\ Honest(file.hist, Len(chain))

\* A history of nothing is honest, wherever its cursor is.
LEMMA NothingIsHonest == ASSUME NEW c PROVE Honest(NoHistory, c)
BY DEF Honest, NoHistory

\* A history is as honest as before while the node stands still.
LEMMA HonestKept ==
  ASSUME NEW h, NEW c, Honest(h, c), UNCHANGED <<txs, chain, moved>>
  PROVE  Honest(h, c)'
BY DEF Honest, Within

\* What is honest up to a cursor is so up to the present height.
LEMMA HonestLater ==
  ASSUME ChainsOK, NEW h, NEW c \in 0..Len(chain), Honest(h, c)
  PROVE  Honest(h, Len(chain))
<1>1. \A t : Within(t, c) => Within(t, Len(chain))
  BY DEF Within, ChainsOK, Branch
<1>. QED  BY <1>1 DEF Honest

\* What the wallet's own steps leave alone.
NodeStill == UNCHANGED <<txs, chain, index, disk, moved>>

\* The steps that make no payment and see no block: the history in use stays, is
\* forgotten, or is taken up from the disk with the present height.
LEMMA WindowKeeps ==
  ASSUME HistoryInv, NodeStill, FileOK',
         \/ UNCHANGED <<hist, cursor>>
         \/ hist' = NoHistory /\ cursor' = 0
         \/ hist' = file.hist /\ cursor' = Len(chain),
         file'.hist \in {file.hist, NoHistory}
  PROVE  HistoryInv'
<1> USE DEF HistoryInv, NodeStill
<1>1. Len(chain) \in Nat
  BY DEF ChainsOK, Branch
<1>2. ChainsOK' /\ Made'
  BY <1>1 DEF ChainsOK, Branch, Made, Apart
<1>3. Honest(hist', cursor')
  BY NothingIsHonest
<1>4. Honest(file'.hist, Len(chain))
  BY NothingIsHonest
<1>5. Honest(hist, cursor)'
  BY <1>3, HonestKept
<1>6. Honest(file.hist, Len(chain))'
  BY <1>4, HonestKept
<1>. QED  BY <1>2, <1>5, <1>6

-----------------------------------------------------------------------------
(* The scan *)

\* A payment is in one block of the index at most.
LEMMA ScanOnce ==
  ASSUME ChainsOK, NEW I \in SUBSET (1..Len(index)), NEW t,
         NEW S, S \subseteq {i \in I : t \in index[i]}
  PROVE  /\ Cardinality(S) \in {0, 1}
         /\ Cardinality(S) = 1 => \E i \in I : t \in index[i]
<1>1. CASE S = {}
  BY <1>1, FS_EmptySet
<1>2. CASE S # {}
  <2>1. PICK i : i \in S
    BY <1>2
  <2>2. S = {i}
    BY <2>1 DEF ChainsOK, Branch, Apart
  <2>. QED  BY <2>1, <2>2, FS_Singleton
<1>. QED  BY <1>1, <1>2

\* The scan adds the income of the blocks above the cursor.
LEMMA ScanIsHonest ==
  ASSUME ChainsOK, Honest(hist, cursor), NEW to \in 0..Len(chain), to >= cursor,
         NEW found \in 0..Len(index), found =< to,
         found < to => found = Len(index)
  PROVE  Honest(listed(hist, cursor + 1 .. found), to)
<1> DEFINE I == cursor + 1 .. found
           income(t) == {i \in I : t \in index[i] \ hist.sent
                                    /\ txs[t].key = key /\ txs[t].change > 0}
           h == listed(hist, I)
<1>1. /\ cursor \in Nat /\ Len(index) \in Nat /\ Len(chain) \in Nat
      /\ I \subseteq 1..Len(index)
  BY DEF ChainsOK, Branch
<1>2. h = [sent |-> hist.sent,
           got |-> [t \in Txs |-> hist.got[t] + Cardinality(income(t))]]
  <2> DEFINE f == [t \in Txs |-> hist.got[t] + Cardinality(income(t))]
  <2>1. h = [hist EXCEPT !.got = f]
    BY DEF listed
  <2>2. hist = [sent |-> hist.sent, got |-> hist.got]
    BY DEF Honest
  <2> HIDE DEF f, h, income
  <2>3. h = [sent |-> hist.sent, got |-> f]
    BY <2>1, <2>2
  <2>. QED  BY <2>3 DEF f
<1>3. ASSUME NEW t \in Txs
      PROVE  /\ Cardinality(income(t)) \in {0, 1}
             /\ Cardinality(income(t)) = 1 =>
                  /\ t \notin hist.sent
                  /\ \E i \in I : t \in index[i]
  <2>1. income(t) \subseteq {i \in I : t \in index[i]}
    OBVIOUS
  <2>2. /\ Cardinality(income(t)) \in {0, 1}
        /\ Cardinality(income(t)) = 1 => \E i \in I : t \in index[i]
    <3> HIDE DEF income, I
    <3>. QED  BY <1>1, <2>1, ScanOnce
  <2>3. t \in hist.sent => income(t) = {}
    OBVIOUS
  <2>4. Cardinality({}) = 0
    BY FS_EmptySet
  <2> HIDE DEF income
  <2>5. t \in hist.sent => Cardinality(income(t)) = 0
    BY <2>3, <2>4
  <2>. QED  BY <2>2, <2>5
<1>4. h.got \in [Txs -> Nat] /\ h.sent = hist.sent
  <2>1. \A t \in Txs : hist.got[t] \in Nat /\ Cardinality(income(t)) \in Nat
    BY <1>3 DEF Honest
  <2> HIDE DEF h, income
  <2>. QED  BY <1>2, <2>1
<1>5. ASSUME NEW t \in Txs
      PROVE  /\ h.got[t] > 0 => t \in (1..Len(txs)) \ h.sent
             /\ t \notin moved => h.got[t] =< 1 /\ (h.got[t] = 1 => Within(t, to))
  <2>1. h.got[t] = hist.got[t] + Cardinality(income(t))
    BY <1>2
  <2>2. /\ hist.got[t] \in Nat
        /\ hist.got[t] > 0 => t \in (1..Len(txs)) \ hist.sent
        /\ t \notin moved =>
             hist.got[t] =< 1 /\ (hist.got[t] = 1 => Within(t, cursor))
    BY DEF Honest
  <2>3. Within(t, cursor) => Within(t, to)
    BY <1>1 DEF Within
  <2>4. CASE Cardinality(income(t)) = 0
    <3>1. h.got[t] = hist.got[t]
      BY <2>1, <2>2, <2>4
    <3>. QED  BY <1>4, <2>2, <2>3, <3>1
  <2>5. CASE Cardinality(income(t)) = 1
    <3>1. PICK i \in I : t \in index[i]
      BY <1>3, <2>5
    <3>2. h.got[t] = hist.got[t] + 1 /\ t \notin hist.sent
      BY <1>3, <2>1, <2>5
    <3>3. i \in 1..Len(index) /\ i > cursor /\ i =< found
      BY <1>1
    <3>4. t \in 1..Len(txs)
      BY <3>1, <3>3 DEF ChainsOK, Branch
    <3>5. CASE index[i] = chain[i]
      <4>1. ~ Within(t, cursor)
        <5>1. i \in 1..Len(chain) /\ Apart(chain) /\ cursor \in 0..Len(chain)
          BY <1>1, <3>3 DEF ChainsOK, Branch
        <5>2. \A j \in 1..cursor : j \in 1..Len(chain) /\ j # i
          BY <1>1, <3>3, <5>1
        <5>3. t \in chain[i]
          BY <3>1, <3>5
        <5>. QED  BY <5>1, <5>2, <5>3 DEF Within, Apart
      <4>2. Within(t, to)
        BY <1>1, <3>1, <3>3, <3>5 DEF Within
      <4>. QED  BY <1>4, <2>2, <3>2, <3>4, <4>1, <4>2
    <3>6. CASE index[i] # chain[i]
      <4>1. t \in moved
        BY <3>1, <3>3, <3>6 DEF ChainsOK
      <4>. QED  BY <1>4, <2>2, <3>2, <3>4, <4>1
    <3>. QED  BY <3>5, <3>6
  <2>. QED  BY <1>3, <2>4, <2>5
<1>6. h = [sent |-> h.sent, got |-> h.got]
  BY <1>2
<1>7. h.sent \subseteq 1..Len(txs)
  BY <1>4 DEF Honest
<1> HIDE DEF h
<1>8. Honest(h, to)
  BY <1>4, <1>5, <1>6, <1>7 DEF Honest
<1>. QED  BY <1>8 DEF h

\* What the window sees of the chain is listed and saved.
LEMMA PollKeeps == ASSUME HistoryInv, FileOK', Poll PROVE HistoryInv'
<1> DEFINE last == IF Len(chain) < cursor + 1 + BATCH THEN Len(chain)
                   ELSE cursor + 1 + BATCH
           found == IF Len(index) < last THEN Len(index) ELSE last
<1> USE DEF HistoryInv
<1>1. NodeStill
  BY DEF Poll, node, blocks, NodeStill
<1>2. /\ Len(chain) > cursor /\ cursor' = last
      /\ hist' = listed(hist, cursor + 1 .. found)
      /\ file' = [file EXCEPT !.hist = hist']
  BY DEF Poll
<1>3. /\ last \in 0..Len(chain) /\ last >= cursor /\ found \in 0..Len(index)
      /\ found =< last /\ (found < last => found = Len(index))
  BY <1>2, WalletAssumption DEF WalletAssumption, ChainsOK, Branch
<1> HIDE DEF last, found
<1>4. Honest(hist', cursor')
  BY <1>2, <1>3, ScanIsHonest
<1>5. Honest(hist', Len(chain))
  BY <1>2, <1>3, <1>4, HonestLater
<1>6. file'.hist = hist'
  BY <1>2 DEF FileOK
<1>7. Honest(hist, cursor)' /\ Honest(file.hist, Len(chain))'
  BY <1>1, <1>4, <1>5, <1>6, HonestKept DEF NodeStill
<1>8. ChainsOK' /\ Made'
  BY <1>1, <1>2, <1>3 DEF ChainsOK, Branch, Made, Apart, NodeStill
<1>. QED  BY <1>7, <1>8

-----------------------------------------------------------------------------
(* Payments and blocks *)

\* One more transaction, whatever it is.
LEMMA OneMore ==
  ASSUME Made, NEW p, txs' = Append(txs, p)
  PROVE  /\ Made' /\ Len(txs) \in Nat /\ Len(txs') = Len(txs) + 1
         /\ \A t \in 1..Len(txs) : txs'[t] = txs[t]
         /\ txs'[Len(txs) + 1] = p
<1>1. PICK S : txs \in Seq(S)
  BY DEF Made
<1>2. txs \in Seq(S \cup {p}) /\ p \in S \cup {p}
  BY <1>1
<1>3. txs' \in Seq(S \cup {p})
  BY <1>2
<1>. QED  BY <1>2, <1>3 DEF Made

\* A payment is new: no history has shown it as income.
LEMMA PayKeeps ==
  ASSUME HistoryInv, UNCHANGED <<file, cursor, chain, index, disk, moved>>,
         \/ UNCHANGED <<txs, hist>>
         \/ /\ \E p : txs' = Append(txs, p)
            /\ hist' \in {hist, [hist EXCEPT !.sent = @ \cup {Len(txs) + 1}]}
  PROVE  HistoryInv'
<1> USE DEF HistoryInv
<1>1. CASE UNCHANGED <<txs, hist>>
  <2>1. HistoryInv /\ NodeStill /\ FileOK' /\ UNCHANGED <<hist, cursor>>
    BY <1>1 DEF NodeStill, FileOK
  <2>2. file'.hist \in {file.hist, NoHistory}
    OBVIOUS
  <2>. QED  BY <2>1, <2>2, WindowKeeps
<1>2. CASE /\ \E p : txs' = Append(txs, p)
           /\ hist' \in {hist, [hist EXCEPT !.sent = @ \cup {Len(txs) + 1}]}
  <2>1. /\ Made' /\ Len(txs) \in Nat /\ Len(txs') = Len(txs) + 1
    BY <1>2, OneMore
  <2>2. ChainsOK'
    <3>1. 1..Len(txs) \subseteq 1..Len(txs')
      BY <2>1
    <3>2. ASSUME NEW b, Branch(b) PROVE Branch(b)'
      BY <3>1, <3>2 DEF Branch, Apart
    <3>3. Branch(chain)' /\ Branch(index)' /\ Branch(disk)'
      BY <3>2 DEF ChainsOK
    <3>. QED  BY <3>3 DEF ChainsOK
  <2>3. ASSUME NEW h, NEW c, Honest(h, c) PROVE Honest(h, c)'
    BY <2>1, <2>3 DEF Honest, Within
  <2>4. Honest(file.hist, Len(chain))'
    BY <2>3
  <2>5. ASSUME NEW h, NEW c, NEW n, n = Len(txs) + 1, Honest(h, c)
        PROVE  Honest([sent |-> h.sent \cup {n}, got |-> h.got], c)'
    <3> DEFINE g == [sent |-> h.sent \cup {n}, got |-> h.got]
    <3>1. g = [sent |-> g.sent, got |-> g.got] /\ g.sent \subseteq 1..Len(txs')
      BY <2>1, <2>5 DEF Honest
    <3>2. \A t \in Txs : g.got[t] > 0 => t \in (1..Len(txs')) \ g.sent
      BY <2>1, <2>5 DEF Honest
    <3>. QED  BY <2>5, <3>1, <3>2 DEF Honest, Within
  <2>6. Honest(hist, cursor)'
    <3>1. CASE hist' = hist
      BY <2>3, <3>1
    <3>2. CASE hist' = [hist EXCEPT !.sent = @ \cup {Len(txs) + 1}]
      <4>1. hist' = [sent |-> hist.sent \cup {Len(txs) + 1}, got |-> hist.got]
        BY <3>2 DEF Honest
      <4>. QED  BY <2>5, <4>1
    <3>. QED  BY <1>2, <3>1, <3>2
  <2>. QED  BY <2>1, <2>2, <2>4, <2>6 DEF FileOK
<1>. QED  BY <1>1, <1>2

\* A block is put on top of others: of payments made, none in a block below, and
\* perhaps an income that is made with it.
LEMMA ConnectAdds ==
  ASSUME Made, NEW kept \in Seq(SUBSET (1..Len(txs))), NEW done,
         NEW B \in Blocks(done), Connect(kept, B),
         \A i \in 1..Len(kept) : kept[i] \subseteq done
  PROVE  /\ Made' /\ Len(txs) \in Nat /\ Len(txs') \in Nat
         /\ Len(txs) =< Len(txs')
         /\ \A t \in 1..Len(txs) : txs'[t] = txs[t]
         /\ \E C \in SUBSET (1..Len(txs')) :
              /\ chain' = Append(kept, C)
              /\ \A i \in 1..Len(kept) : kept[i] \cap C = {}
<1>1. Len(txs) \in Nat /\ DOMAIN txs = 1..Len(txs)
  BY DEF Made
<1>2. B \in SUBSET (1..Len(txs)) /\ B \cap done = {}
  BY <1>1 DEF Blocks
<1>3. CASE chain' = Append(kept, B) /\ UNCHANGED txs
  BY <1>1, <1>2, <1>3 DEF Made
<1>4. CASE /\ \E k \in {k \in Keys : k \in known \cup {key}}, v \in Incomes :
                txs' = Append(txs, Income(k, v))
           /\ chain' = Append(kept, B \cup {Len(txs) + 1})
  <2>1. PICK p : txs' = Append(txs, p)
    BY <1>4
  <2>2. /\ Made' /\ Len(txs') = Len(txs) + 1
        /\ \A t \in 1..Len(txs) : txs'[t] = txs[t]
    BY <2>1, OneMore
  <2>3. \A i \in 1..Len(kept) : Len(txs) + 1 \notin kept[i]
    BY <1>1
  <2> DEFINE C == B \cup {Len(txs) + 1}
  <2>4. C \in SUBSET (1..Len(txs'))
    <3>1. 1..Len(txs) \subseteq 1..Len(txs') /\ Len(txs) + 1 \in 1..Len(txs')
      BY <1>1, <2>2
    <3>. QED  BY <1>2, <3>1
  <2>6. ASSUME NEW i \in 1..Len(kept) PROVE kept[i] \cap C = {}
    <3>1. kept[i] \subseteq done /\ Len(txs) + 1 \notin kept[i]
      BY <2>3
    <3>. QED  BY <1>2, <3>1
  <2>5. chain' = Append(kept, C)
    BY <1>4
  <2> HIDE DEF C
  <2>. QED  BY <1>1, <2>2, <2>4, <2>5, <2>6
<1>. QED  BY <1>3, <1>4 DEF Connect

\* The index is the chain until a block is connected: what is in the new block has
\* not been counted before, unless a reorg took it out.
LEMMA NewBlockKeeps == ASSUME HistoryInv, NewBlock PROVE HistoryInv'
<1> USE DEF HistoryInv
<1>1. index = chain /\ UNCHANGED <<file, hist, cursor, index, disk, moved>>
  BY DEF NewBlock, window
<1>2. PICK B \in Blocks(Confirmed(chain)) : Connect(chain, B)
  BY DEF NewBlock
<1>3. /\ chain \in Seq(SUBSET (1..Len(txs))) /\ Apart(chain)
      /\ Len(chain) \in Nat
  BY DEF ChainsOK, Branch
<1>4. \A i \in 1..Len(chain) : chain[i] \subseteq Confirmed(chain)
  BY <1>3 DEF Confirmed, Range
<1>5. /\ Made' /\ Len(txs) \in Nat /\ Len(txs') \in Nat
      /\ Len(txs) =< Len(txs')
      /\ \E C \in SUBSET (1..Len(txs')) :
           /\ chain' = Append(chain, C)
           /\ \A i \in 1..Len(chain) : chain[i] \cap C = {}
  BY <1>2, <1>3, <1>4, ConnectAdds
<1>6. PICK C \in SUBSET (1..Len(txs')) :
        /\ chain' = Append(chain, C)
        /\ \A i \in 1..Len(chain) : chain[i] \cap C = {}
  BY <1>5
<1>7. /\ chain \in Seq(SUBSET (1..Len(txs'))) /\ Len(chain') = Len(chain) + 1
      /\ \A i \in 1..Len(chain) : chain'[i] = chain[i]
      /\ chain'[Len(chain) + 1] = C
  BY <1>3, <1>5, <1>6
<1>8. chain' \in Seq(SUBSET (1..Len(txs'))) /\ Apart(chain)'
  BY <1>3, <1>6, <1>7 DEF Apart
<1>9. ChainsOK'
  <2>1. Branch(chain)' /\ Branch(index)' /\ Branch(disk)'
    <3>1. 1..Len(txs) \subseteq 1..Len(txs')
      BY <1>5
    <3>2. index' = chain /\ disk' = disk
      BY <1>1
    <3>. QED  BY <1>3, <1>7, <1>8, <3>1, <3>2 DEF ChainsOK, Branch, Apart
  <2>2. Len(disk) \in Nat
    BY DEF ChainsOK, Branch
  <2>. QED  BY <1>1, <1>3, <1>7, <2>1, <2>2 DEF ChainsOK
<1>10. ASSUME NEW h, NEW c \in 0..Len(chain), NEW d \in {c, Len(chain')},
              d >= c, Honest(h, c)
       PROVE  Honest(h, d)'
  <2>1. \A t : Within(t, c) => Within(t, d)'
    BY <1>3, <1>7, <1>10 DEF Within
  <2>. QED  BY <1>1, <1>5, <1>10, <2>1 DEF Honest
<1>11. Honest(hist, cursor)'
  BY <1>1, <1>3, <1>10 DEF ChainsOK
<1>12. Honest(file.hist, Len(chain))'
  BY <1>1, <1>3, <1>7, <1>10
<1>. QED  BY <1>1, <1>5, <1>9, <1>11, <1>12 DEF FileOK

\* The block that is taken out stays in the index for a moment: it may be counted
\* there, and once more in its new place.
LEMMA ReorgKeeps == ASSUME HistoryInv, Reorg PROVE HistoryInv'
<1> DEFINE L == Len(chain)
           kept == Append(Front(chain), {})
<1> USE DEF HistoryInv
<1>1. /\ index = chain /\ UNCHANGED <<file, hist, cursor, index, disk>>
      /\ moved' = moved \cup chain[L] /\ L \in 1..MAX_BLOCKS - 1
  BY DEF Reorg, window, Last
<1>2. PICK B \in Blocks(Confirmed(Front(chain))) : Connect(kept, B)
  BY DEF Reorg
<1>3. /\ chain \in Seq(SUBSET (1..Len(txs))) /\ Apart(chain)
      /\ L \in Nat /\ L >= 1 /\ cursor \in 0..L
  BY <1>1 DEF ChainsOK, Branch
<1>4. /\ Front(chain) \in Seq(SUBSET (1..Len(txs)))
      /\ Len(Front(chain)) = L - 1
      /\ \A i \in 1..L - 1 : Front(chain)[i] = chain[i]
  <2>1. L - 1 \in Nat /\ 1..L - 1 \subseteq 1..L
    BY <1>3
  <2>2. Front(chain) = [i \in 1..L - 1 |-> chain[i]]
    BY DEF Front
  <2>3. \A i \in 1..L : chain[i] \in SUBSET (1..Len(txs))
    BY <1>3
  <2>4. Front(chain) \in [1..L - 1 -> SUBSET (1..Len(txs))]
    BY <2>1, <2>2, <2>3
  <2>. QED  BY <2>1, <2>2, <2>4
<1>5. /\ kept \in Seq(SUBSET (1..Len(txs))) /\ Len(kept) = L /\ kept[L] = {}
      /\ \A i \in 1..L - 1 : kept[i] = chain[i]
  BY <1>3, <1>4
<1>6. \A i \in 1..L : kept[i] \subseteq Confirmed(Front(chain))
  <2>1. \A i \in 1..L - 1 : Front(chain)[i] \in Range(Front(chain))
    BY <1>3, <1>4 DEF Range
  <2>2. \A i \in 1..L : i = L \/ i \in 1..L - 1
    BY <1>3
  <2> HIDE DEF kept
  <2>. QED  BY <1>4, <1>5, <2>1, <2>2 DEF Confirmed
<1> HIDE DEF kept
<1>7. /\ Made' /\ Len(txs) \in Nat /\ Len(txs') \in Nat
      /\ Len(txs) =< Len(txs')
      /\ \E C \in SUBSET (1..Len(txs')) :
           /\ chain' = Append(kept, C)
           /\ \A i \in 1..Len(kept) : kept[i] \cap C = {}
  BY <1>2, <1>5, <1>6, ConnectAdds
<1>8. PICK C \in SUBSET (1..Len(txs')) :
        /\ chain' = Append(kept, C)
        /\ \A i \in 1..L : kept[i] \cap C = {}
  BY <1>5, <1>7
<1>9. /\ kept \in Seq(SUBSET (1..Len(txs'))) /\ Len(chain') = L + 1
      /\ chain' \in Seq(SUBSET (1..Len(txs')))
      /\ \A i \in 1..L - 1 : chain'[i] = chain[i]
      /\ chain'[L] = {} /\ chain'[L + 1] = C
  BY <1>3, <1>5, <1>7, <1>8
<1>10. Apart(chain)'
  <2>1. ASSUME NEW i \in 1..L + 1, NEW j \in 1..L + 1, i < j
        PROVE  chain'[i] \cap chain'[j] = {}
    BY <1>3, <1>5, <1>8, <1>9, <2>1 DEF Apart
  <2>2. \A i, j \in 1..L + 1 : i # j => i < j \/ j < i
    BY <1>3
  <2>. QED  BY <1>9, <2>1, <2>2 DEF Apart
<1>11. ChainsOK'
  <2>1. Branch(chain)' /\ Branch(index)' /\ Branch(disk)'
    <3>1. 1..Len(txs) \subseteq 1..Len(txs')
      BY <1>7
    <3>2. index' = chain /\ disk' = disk
      BY <1>1
    <3>. QED  BY <1>3, <1>9, <1>10, <3>1, <3>2 DEF ChainsOK, Branch, Apart
  <2>2. \A i \in 1..L : index'[i] = chain'[i] \/ i = L
    BY <1>1, <1>3, <1>9
  <2>3. index'[L] \subseteq moved' /\ Len(index') = L
    BY <1>1, <1>3
  <2>4. cursor' \in 0..Len(chain') /\ Len(disk') =< Len(chain')
    <3>1. disk' = disk /\ Len(disk) \in Nat /\ Len(disk) =< L
      BY <1>1 DEF ChainsOK, Branch
    <3>. QED  BY <1>1, <1>3, <1>9, <3>1
  <2>. QED  BY <1>3, <1>9, <2>1, <2>2, <2>3, <2>4 DEF ChainsOK
<1>12. ASSUME NEW h, NEW c \in 0..L, NEW d \in {c, L + 1},
              c = L \/ d = c, Honest(h, c)
       PROVE  Honest(h, d)'
  <2>1. \A t : Within(t, c) => Within(t, d)' \/ t \in moved'
    <3> SUFFICES ASSUME NEW t, NEW i \in 1..c, t \in chain[i]
                 PROVE  Within(t, d)' \/ t \in moved'
      BY DEF Within
    <3>1. CASE i = L
      BY <1>1, <3>1
    <3>2. CASE i # L
      <4>1. i \in 1..L - 1 /\ i \in 1..d
        BY <1>3, <1>12, <3>2
      <4>2. t \in chain'[i]
        BY <1>9, <4>1
      <4>. QED  BY <4>1, <4>2 DEF Within
    <3>. QED  BY <3>1, <3>2
  <2>3. ASSUME NEW t \in Txs
        PROVE  /\ h.got[t] > 0 => t \in (1..Len(txs')) \ h.sent
               /\ t \notin moved' =>
                    h.got[t] =< 1 /\ (h.got[t] = 1 => Within(t, d)')
    <3>1. /\ h.got[t] \in Nat
          /\ h.got[t] > 0 => t \in (1..Len(txs)) \ h.sent
          /\ t \notin moved => h.got[t] =< 1 /\ (h.got[t] = 1 => Within(t, c))
      BY <1>12 DEF Honest
    <3>. QED  BY <1>1, <1>7, <2>1, <3>1
  <2>4. h = [sent |-> h.sent, got |-> h.got] /\ h.got \in [Txs -> Nat]
        /\ h.sent \subseteq 1..Len(txs')
    BY <1>7, <1>12 DEF Honest
  <2>. QED  BY <2>3, <2>4 DEF Honest
<1>13. Honest(hist, cursor)'
  BY <1>1, <1>3, <1>12
<1>14. Honest(file.hist, Len(chain))'
  BY <1>1, <1>3, <1>9, <1>12
<1>. QED  BY <1>1, <1>7, <1>11, <1>13, <1>14 DEF FileOK

\* The index catches up: the block that was in it is seen no more.
LEMMA PublishIndexKeeps == ASSUME HistoryInv, PublishIndex PROVE HistoryInv'
<1> USE DEF HistoryInv
<1>1. index' = chain /\ UNCHANGED <<file, hist, cursor, txs, chain, disk, moved>>
  BY DEF PublishIndex, window
<1>2. ChainsOK' /\ Made'
  BY <1>1 DEF ChainsOK, Branch, Made, Apart
<1>3. Honest(hist, cursor)' /\ Honest(file.hist, Len(chain))'
  BY <1>1, HonestKept
<1>. QED  BY <1>1, <1>2, <1>3 DEF FileOK

\* The disk catches up with the chain.
LEMMA FlushKeeps == ASSUME HistoryInv, Flush PROVE HistoryInv'
<1> USE DEF HistoryInv
<1>1. disk' = chain /\ UNCHANGED <<file, hist, cursor, txs, chain, index, moved>>
  BY DEF Flush, window
<1>2. ChainsOK' /\ Made'
  BY <1>1 DEF ChainsOK, Branch, Made, Apart
<1>3. Honest(hist, cursor)' /\ Honest(file.hist, Len(chain))'
  BY <1>1, HonestKept
<1>. QED  BY <1>1, <1>2, <1>3 DEF FileOK

\* The process ends: the saved history goes on from the height on disk, and has
\* what is above it among what left the chain.
LEMMA DieKeeps == ASSUME HistoryInv, Die PROVE HistoryInv'
<1> USE DEF HistoryInv
<1>1. /\ chain' = disk /\ index' = disk /\ hist' = NoHistory /\ cursor' = 0
      /\ moved' = moved \cup (Confirmed(chain) \ Confirmed(disk))
      /\ UNCHANGED <<file, txs, disk>>
  BY DEF Die
<1>2. ChainsOK' /\ Made'
  BY <1>1 DEF ChainsOK, Branch, Made, Apart
<1>3. Honest(hist, cursor)'
  BY <1>1 DEF Honest, NoHistory
<1>4. ASSUME NEW t, Within(t, Len(chain)), t \notin moved'
      PROVE  Within(t, Len(chain))'
  <2>1. PICK i \in 1..Len(chain) : t \in chain[i]
    BY <1>4 DEF Within
  <2>2. chain[i] \in Range(chain)
    BY DEF Range, ChainsOK, Branch
  <2>3. t \in Confirmed(chain)
    BY <2>1, <2>2 DEF Confirmed
  <2>4. t \in Confirmed(disk)
    BY <1>1, <1>4, <2>3
  <2>5. PICK B \in Range(disk) : t \in B
    BY <2>4 DEF Confirmed
  <2>6. PICK j \in 1..Len(disk) : B = disk[j]
    BY <2>5 DEF Range, ChainsOK, Branch
  <2>. QED  BY <1>1, <2>5, <2>6 DEF Within
<1>5. Honest(file.hist, Len(chain))'
  BY <1>1, <1>4 DEF Honest
<1>. QED  BY <1>1, <1>2, <1>3, <1>5 DEF FileOK

\* A payment, or none, and who has it in the history.
LEMMA SendKeeps ==
  ASSUME HistoryInv, execute_send \/ rpc_send \/ remove_txs PROVE HistoryInv'
<1>1. CASE remove_txs
  <2>1. UNCHANGED <<file, cursor, chain, index, disk, moved, txs, hist>>
    BY <1>1 DEF remove_txs, window, blocks
  <2>. QED  BY <2>1, PayKeeps
<1>2. CASE execute_send \/ rpc_send
  <2>1. PICK who \in Callers : Begin(who) \/ Check(who) \/ Admit(who)
    BY <1>2 DEF execute_send, rpc_send, Callers
  <2>2. CASE Begin(who) \/ Check(who)
    <3>1. UNCHANGED <<file, cursor, chain, index, disk, moved, txs, hist>>
      BY <2>2 DEF Begin, Check, window, node, blocks
    <3>. QED  BY <3>1, PayKeeps
  <2>3. CASE Admit(who)
    <3>1. UNCHANGED <<file, cursor, chain, index, disk, moved>>
      BY <2>3 DEF Admit, blocks
    <3>2. \/ UNCHANGED <<txs, hist>>
          \/ /\ \E p : txs' = Append(txs, p)
             /\ hist' \in {hist, [hist EXCEPT !.sent = @ \cup {Len(txs) + 1}]}
      BY <2>3 DEF Admit
    <3>. QED  BY <3>1, <3>2, PayKeeps
  <2>. QED  BY <2>1, <2>2, <2>3
<1>. QED  BY <1>1, <1>2

\* The wallet begins with coins of one block, and a history of nothing.
LEMMA HistoryInit == WalletInit => HistoryInv
<1> SUFFICES ASSUME WalletInit PROVE HistoryInv
  OBVIOUS
<1>1. Made /\ chain = <<chain[1]>> /\ chain[1] \subseteq 1..Len(txs)
  <2>1. CASE txs = <<>> /\ chain = <<{}>>
    BY <2>1 DEF Made
  <2>2. CASE /\ LET values == SetToSeq(Endowment) IN
                  txs = [i \in DOMAIN values |-> Income(First, values[i])]
             /\ chain = <<DOMAIN txs>>
    <3> DEFINE n == Cardinality(Endowment)
               values == SetToSeq(Endowment)
    <3>1. n \in Nat /\ ExistsBijection(1..n, Endowment)
      BY WalletAssumption, FS_CardinalityType DEF WalletAssumption
    <3>2. \E f \in [1..n -> Endowment] : IsInjective(f)
      BY <3>1 DEF ExistsBijection, Bijection, Injection, IsInjective
    <3>3. values \in [1..n -> Endowment]
      BY <3>2 DEF SetToSeq
    <3> HIDE DEF values, n
    <3>4. txs = [i \in 1..n |-> Income(First, values[i])]
      BY <2>2, <3>3 DEF values
    <3> DEFINE S == {txs[i] : i \in 1..n}
    <3>5. txs \in Seq(S) /\ Len(txs) = n
      BY <3>1, <3>4
    <3>. QED  BY <2>2, <3>4, <3>5 DEF Made
  <2>. QED  BY <2>1, <2>2 DEF WalletInit
<1>2. /\ index = chain /\ disk = chain /\ cursor = 0 /\ hist = NoHistory
      /\ file.hist = NoHistory /\ FileOK
  <2>1. FileOK
    BY SeedInit DEF SeedInv
  <2>2. file.hist = NoHistory
    <3>1. \A k, b : [key |-> k, pass |-> b, hist |-> NoHistory].hist = NoHistory
      OBVIOUS
    <3>. QED  BY <3>1 DEF WalletInit
  <2>. QED  BY <2>1, <2>2 DEF WalletInit
<1>3. ChainsOK
  <2>1. chain \in Seq(SUBSET (1..Len(txs))) /\ Len(chain) = 1
    BY <1>1
  <2>. QED  BY <1>2, <2>1 DEF ChainsOK, Branch, Apart
<1>4. Honest(hist, cursor) /\ Honest(file.hist, Len(chain))
  BY <1>2, NothingIsHonest
<1>. QED  BY <1>1, <1>2, <1>3, <1>4 DEF HistoryInv

\* One case for each way a step can move the histories or the chain.
LEMMA HistoryStep ==
  SeedInv /\ HistoryInv /\ [WalletNext]_vars => HistoryInv'
<1> SUFFICES ASSUME SeedInv, HistoryInv, [WalletNext]_vars PROVE HistoryInv'
  OBVIOUS
<1>1. FileOK'
  BY SeedStep DEF SeedInv
<1> DEFINE quiet == /\ NodeStill
                    /\ \/ UNCHANGED <<hist, cursor>>
                       \/ hist' = NoHistory /\ cursor' = 0
                       \/ hist' = file.hist /\ cursor' = Len(chain)
                    /\ file'.hist \in {file.hist, NoHistory}
<1>2. quiet => HistoryInv'
  BY <1>1, WindowKeeps
<1> USE DEF FileOK, HistoryInv, NodeStill, node, blocks
<1>3. CASE Load  BY <1>2, <1>3 DEF Load
<1>4. CASE FirstKey  BY <1>2, <1>4 DEF FirstKey
<1>5. CASE KeyWritten  BY <1>2, <1>5 DEF KeyWritten
<1>6. CASE Serve  BY <1>2, <1>6 DEF Serve
<1>7. CASE Open  BY <1>2, <1>7 DEF Open
<1>8. CASE Die  BY <1>8, DieKeeps
<1>9. CASE SetPassword  BY <1>2, <1>9 DEF SetPassword
<1>10. CASE Acknowledge  BY <1>2, <1>10 DEF Acknowledge
<1>11. CASE CreateNew  BY <1>2, <1>11 DEF CreateNew, empty
<1>12. CASE Restore  BY <1>2, <1>12 DEF Restore, empty
<1>13. CASE Stored  BY <1>2, <1>13 DEF Stored
<1>14. CASE TakeUp  BY <1>2, <1>14 DEF TakeUp
<1>15. CASE ForgetHistory  BY <1>2, <1>15 DEF ForgetHistory
<1>16. CASE ForgetPassword  BY <1>2, <1>16 DEF ForgetPassword
<1>17. CASE UNCHANGED vars  BY <1>2, <1>17 DEF vars, window
<1>18. CASE Poll  BY <1>1, <1>18, PollKeeps
<1>19. CASE execute_send \/ rpc_send \/ remove_txs  BY <1>19, SendKeeps
<1>20. CASE NewBlock \/ Reorg \/ PublishIndex \/ Flush
  BY <1>20, NewBlockKeeps, ReorgKeeps, PublishIndexKeeps, FlushKeeps
<1>. QED
  BY <1>3, <1>4, <1>5, <1>6, <1>7, <1>8, <1>9, <1>10, <1>11, <1>12, <1>13,
     <1>14, <1>15, <1>16, <1>17, <1>18, <1>19, <1>20 DEF WalletNext

\* Change is not shown as income while the payment is shown as sent, and no income
\* is shown twice, except one that left the chain, by a reorg or with a block that
\* an end of the process lost: however starts, ends, changes of the key and scans
\* fall between blocks, reorgs, and an index and a disk that lag behind.
THEOREM IncomeStaysIncome == WalletSpec => []IncomeIsIncome
<1>1. HistoryInv => IncomeIsIncome
  <2> SUFFICES ASSUME HistoryInv, NEW t \in Txs
               PROVE  /\ t \in hist.sent => hist.got[t] = 0
                      /\ hist.got[t] > 1 => t \in moved
    BY DEF IncomeIsIncome
  <2>. QED  BY DEF HistoryInv, Honest
<1>. QED
  BY <1>1, SeedInit, SeedStep, HistoryInit, HistoryStep, PTL DEF WalletSpec

-----------------------------------------------------------------------------
(* Types *)

\* The key in use and the password are those on disk where the property says so,
\* and on the way there.
OnDisk ==
  /\ file.key \in Keys \cup {NoKey.absent, NoKey.empty}
  /\ app \in {"loaded", "serving", "up", "renewed", "forgetting"} =>
       file.key = key
  /\ app = "stored" => file.key = next
  /\ app \in {"loaded", "serving", "up", "stored", "renewed", "forgetting"} =>
       file.key \in Keys
  /\ app \in {"up", "emptied", "stored", "renewed", "forgetting"} =>
       file.pass = pass

\* The mempool holds payments of this wallet, each checked by who began it.
Ours ==
  /\ pool \subseteq {t \in DOMAIN txs : txs[t].by # "others"}
  /\ DOMAIN call = Callers
  /\ \A w \in Callers : \A p \in call[w].checked : p.by = w

\* The two conjuncts begin true.
LEMMA TypeInit == WalletInit => OnDisk /\ Ours
<1> SUFFICES ASSUME WalletInit PROVE OnDisk /\ Ours
  OBVIOUS
<1>1. app = "down" /\ pool = {}
  BY DEF WalletInit
<1>2. file.key \in Keys \cup {NoKey.absent, NoKey.empty}
  <2>1. \A k, b, h : [key |-> k, pass |-> b, hist |-> h].key = k
    OBVIOUS
  <2>. QED  BY <2>1, WalletAssumption DEF WalletInit, WalletAssumption
<1>3. \A w \in Callers : call[w].checked = {}
  BY DEF WalletInit, NoCall
<1>. QED  BY <1>1, <1>2, <1>3 DEF OnDisk, Ours, WalletInit

\* One case for each step of the file, the key and the password.
LEMMA DiskStep == SeedInv /\ OnDisk /\ [WalletNext]_vars => OnDisk'
<1> SUFFICES ASSUME SeedInv, OnDisk, [WalletNext]_vars PROVE OnDisk'
  OBVIOUS
<1> USE WalletAssumption DEF WalletAssumption, SeedInv, FileOK, NoKey, OnDisk,
      Pending, goto
<1>1. CASE Load  BY <1>1 DEF Load
<1>2. CASE FirstKey  BY <1>2 DEF FirstKey
<1>3. CASE KeyWritten  BY <1>3 DEF KeyWritten
<1>4. CASE Serve  BY <1>4 DEF Serve
<1>5. CASE Open  BY <1>5 DEF Open
<1>6. CASE Die  BY <1>6 DEF Die
<1>7. CASE SetPassword  BY <1>7 DEF SetPassword, Idle
<1>8. CASE Acknowledge  BY <1>8 DEF Acknowledge
<1>9. CASE Poll  BY <1>9 DEF Poll
<1>10. CASE CreateNew
  <2>1. PICK k \in FreshKeys : empty(k)  BY <1>10 DEF CreateNew
  <2>. QED  BY <1>10, <2>1 DEF CreateNew, empty, Ready, Idle
<1>11. CASE Restore
  <2>1. PICK k \in Keys : empty(k)  BY <1>11 DEF Restore
  <2>. QED  BY <1>11, <2>1 DEF Restore, empty, Ready, Idle
<1>12. CASE Stored  BY <1>12 DEF Stored
<1>13. CASE TakeUp  BY <1>13 DEF TakeUp
<1>14. CASE ForgetHistory  BY <1>14 DEF ForgetHistory
<1>15. CASE ForgetPassword  BY <1>15 DEF ForgetPassword
<1>16. CASE Others
  <2>1. Still /\ UNCHANGED pass
    BY <1>16, OthersAreStill
  <2>. QED  BY <2>1 DEF Still
<1>. QED
  BY <1>1, <1>2, <1>3, <1>4, <1>5, <1>6, <1>7, <1>8, <1>9, <1>10, <1>11, <1>12,
     <1>13, <1>14, <1>15, <1>16 DEF WalletNext, Others

\* Nobody else calls: what a caller makes is this wallet's.
LEMMA CallersAreOurs == "others" \notin Callers /\ "window" \in Callers
BY WalletAssumption DEF WalletAssumption, Callers

\* A transaction that is added leaves those made before as they are.
LEMMA ConnectOnlyAdds ==
  ASSUME Made, ChainsOK, NewBlock \/ Reorg
  PROVE  /\ Made' /\ Len(txs) \in Nat /\ Len(txs') \in Nat
         /\ Len(txs) =< Len(txs')
         /\ \A t \in 1..Len(txs) : txs'[t] = txs[t]
         /\ UNCHANGED <<mempool, call>>
<1>1. CASE NewBlock
  <2>1. PICK B : Connect(chain, B)
    BY <1>1 DEF NewBlock
  <2>2. UNCHANGED <<mempool, call>>
    BY <1>1 DEF NewBlock
  <2>. QED  BY <2>1, <2>2, OneMore DEF Connect, Made
<1>2. CASE Reorg
  <2>1. PICK B : Connect(Append(Front(chain), {}), B)
    BY <1>2 DEF Reorg
  <2>2. UNCHANGED <<mempool, call>>
    BY <1>2 DEF Reorg
  <2>. QED  BY <2>1, <2>2, OneMore DEF Connect, Made
<1>. QED  BY <1>1, <1>2

\* What was made stays what it was, and what is offered is the wallet's own.
LEMMA OursStep == HistoryInv /\ Ours /\ [WalletNext]_vars => Ours'
<1> SUFFICES ASSUME Made, ChainsOK, Ours, [WalletNext]_vars PROVE Ours'
  BY DEF HistoryInv
<1>1. DOMAIN txs = 1..Len(txs) /\ Len(txs) \in Nat
  BY DEF Made
<1>2. CASE UNCHANGED <<txs, pool, call>>
  BY <1>2 DEF Ours
<1>3. CASE NewBlock \/ Reorg
  <2>1. /\ Made' /\ Len(txs') \in Nat /\ Len(txs) =< Len(txs')
        /\ \A t \in 1..Len(txs) : txs'[t] = txs[t]
        /\ UNCHANGED <<mempool, call>>
    BY <1>3, ConnectOnlyAdds
  <2>2. DOMAIN txs' = 1..Len(txs')
    BY <2>1 DEF Made
  <2>. QED  BY <1>1, <2>1, <2>2 DEF Ours, mempool
<1>4. CASE Die
  <2>1. pool' = {} /\ call' = [w \in Callers |-> NoCall]
    BY <1>4 DEF Die
  <2>. QED  BY <2>1 DEF Ours, NoCall
<1>5. ASSUME NEW who \in Callers, Begin(who) PROVE Ours'
  <2>1. UNCHANGED <<txs, pool>>
    BY <1>5 DEF Begin, node, mempool
  <2>2. PICK c : c.checked = {} /\ call' = [call EXCEPT ![who] = c]
    <3>1. PICK a, f : call' = [call EXCEPT ![who] =
                                 [coins |-> CoinsOf(key), key |-> key,
                                  amount |-> a, floor |-> f, checked |-> {}]]
      BY <1>5 DEF Begin
    <3>. QED  BY <3>1
  <2>. QED  BY <2>1, <2>2 DEF Ours
<1>6. ASSUME NEW who \in Callers, Check(who) PROVE Ours'
  <2>1. UNCHANGED <<txs, pool>>
    BY <1>6 DEF Check
  <2>2. CASE call' = [call EXCEPT ![who] = NoCall]
    BY <2>1, <2>2 DEF Ours, NoCall
  <2>3. CASE \E p : p.by = who /\ call' = [call EXCEPT ![who].checked = {p}]
    <3>1. PICK p : p.by = who /\ call' = [call EXCEPT ![who].checked = {p}]
      BY <2>3
    <3>2. \A w \in Callers : call'[w].checked \in {call[w].checked, {p}}
      BY <3>1 DEF Ours
    <3>3. \A w \in Callers : \A q \in call'[w].checked : q.by = w
      BY <3>1, <3>2 DEF Ours
    <3>. QED  BY <2>1, <3>1, <3>3 DEF Ours
  <2>. QED  BY <1>6, <2>2, <2>3 DEF Check
<1>7. ASSUME NEW who \in Callers, Admit(who) PROVE Ours'
  <2>1. call' = [call EXCEPT ![who] = NoCall]
    BY <1>7 DEF Admit
  <2>2. /\ DOMAIN call' = Callers
        /\ \A w \in Callers : \A p \in call'[w].checked : p.by = w
    BY <2>1 DEF Ours, NoCall
  <2>3. CASE UNCHANGED <<txs, pool>>
    BY <2>2, <2>3 DEF Ours
  <2>4. CASE \E p \in call[who].checked : \E worst :
               /\ txs' = Append(txs, p)
               /\ pool' = (pool \ worst) \cup {Len(txs) + 1}
    <3>1. PICK p \in call[who].checked :
            \E worst : /\ txs' = Append(txs, p)
                      /\ pool' = (pool \ worst) \cup {Len(txs) + 1}
      BY <2>4
    <3>2. /\ Made' /\ Len(txs') = Len(txs) + 1
          /\ \A t \in 1..Len(txs) : txs'[t] = txs[t]
          /\ txs'[Len(txs) + 1] = p
      BY <3>1, OneMore
    <3>3. DOMAIN txs' = 1..Len(txs')
      BY <3>2 DEF Made
    <3>4. p.by # "others"
      BY CallersAreOurs DEF Ours
    <3>. QED  BY <1>1, <2>2, <3>1, <3>2, <3>3, <3>4 DEF Ours
  <2>. QED  BY <1>7, <2>3, <2>4 DEF Admit
<1>8. CASE remove_txs
  <2>1. pool' \subseteq pool /\ UNCHANGED <<txs, call>>
    BY <1>8 DEF remove_txs
  <2>. QED  BY <2>1 DEF Ours
<1>9. CASE \/ Load \/ FirstKey \/ KeyWritten \/ Serve \/ Open
           \/ SetPassword \/ Acknowledge \/ Poll \/ UNCHANGED vars
  BY <1>2, <1>9 DEF Load, FirstKey, KeyWritten, Serve, Open, SetPassword,
     Acknowledge, Poll, node, mempool, vars
<1>10. CASE \/ CreateNew \/ Restore \/ Stored \/ TakeUp \/ ForgetHistory
            \/ ForgetPassword \/ PublishIndex \/ Flush
  BY <1>2, <1>10 DEF CreateNew, Restore, empty, Stored, TakeUp, ForgetHistory,
     ForgetPassword, PublishIndex, Flush, node, mempool
<1>. QED
  BY <1>3, <1>4, <1>5, <1>6, <1>7, <1>8, <1>9, <1>10, CallersAreOurs
     DEF WalletNext, execute_send, rpc_send, Callers

\* A password in memory is one on disk, a history saved is one of made
\* transactions, the file is without a key only while one is being stored or after
\* the process ended there, and a restart finds no more than there was.
THEOREM WalletTypeCorrect == WalletSpec => []WalletTypeOK
<1>1. SeedInv /\ HistoryInv /\ OnDisk /\ Ours => WalletTypeOK
  <2> SUFFICES ASSUME SeedInv, HistoryInv, OnDisk, Ours PROVE WalletTypeOK
    OBVIOUS
  <2>1. /\ Len(chain) \in Nat /\ cursor =< Len(chain) /\ Len(disk) =< Len(chain)
        /\ DOMAIN txs = 1..Len(txs)
    BY DEF HistoryInv, ChainsOK, Branch, Made
  <2>2. ASSUME NEW h, NEW c, Honest(h, c)
        PROVE  /\ \A t \in Txs : t \in h.sent \/ h.got[t] > 0 => t \in DOMAIN txs
               /\ h.got \in [Txs -> Nat]
    BY <2>1, <2>2 DEF Honest
  <2>3. Honest(hist, cursor) /\ Honest(file.hist, Len(chain))
    BY DEF HistoryInv
  <2>4. \A h \in {hist, file.hist} : \A t \in Txs :
          t \in h.sent \/ h.got[t] > 0 => t \in DOMAIN txs
    BY <2>2, <2>3
  <2>5. hist.got \in [Txs -> Nat]
    BY <2>2, <2>3
  <2>6. app \in {"loaded", "serving", "up"} => file.key # NoKey.empty
    BY WalletAssumption DEF WalletAssumption, OnDisk, NoKey
  <2>. QED  BY <2>1, <2>4, <2>5, <2>6 DEF WalletTypeOK, OnDisk, Ours
<1>. QED
  BY <1>1, SeedInit, SeedStep, HistoryInit, HistoryStep, TypeInit, DiskStep,
     OursStep, PTL DEF WalletSpec

-----------------------------------------------------------------------------
(* Coins *)

\* Coins a wallet may hold: finitely many, each worth a natural number.
Purse(coins) == IsFiniteSet(coins) /\ \A c \in coins : c.value \in Nat

\* Some of the coins, none worth less than one left out.
Top(coins, S) ==
  /\ S \in SUBSET coins
  /\ \A c \in S : \A d \in coins \ S : d.value =< c.value

LEMMA PartOfPurse ==
  ASSUME NEW C, Purse(C), NEW S \in SUBSET C
  PROVE  Purse(S) /\ Cardinality(S) \in Nat /\ Cardinality(S) =< Cardinality(C)
BY FS_Subset, FS_CardinalityType DEF Purse

\* The total of a purse is a sum: it is natural, and a coin adds its value.
LEMMA TotalStep ==
  ASSUME NEW C, Purse(C)
  PROVE  /\ total(C) \in Nat
         /\ C = {} => total(C) = 0
         /\ \A x \in C : total(C) = x.value + total(C \ {x})
<1> DEFINE v(D) == [c \in D |-> c.value]
<1>1. Summable(v(C), C) /\ \A D : total(D) = SumOver(v(D), D)
  BY DEF Purse, Summable, total, SumOver
<1>2. ASSUME NEW x \in C PROVE total(C \ {x}) = SumOver(v(C), C \ {x})
  <2>1. Summable(v(C \ {x}), C \ {x})
    BY PartOfPurse DEF Purse, Summable
  <2>2. \A c \in C \ {x} : v(C \ {x})[c] = v(C)[c]
    OBVIOUS
  <2> HIDE DEF v
  <2>. QED  BY <1>1, <2>1, <2>2, SumAgrees
<1>3. \A x \in C : v(C)[x] = x.value
  OBVIOUS
<1> HIDE DEF v
<1>. QED  BY <1>1, <1>2, <1>3, SumStep

\* The total of a purse is that of a part and that of the rest.
LEMMA TotalSplit ==
  ASSUME NEW C, Purse(C), NEW S \in SUBSET C
  PROVE  /\ total(C) = total(C \ S) + total(S)
         /\ total(S) \in Nat /\ total(C \ S) \in Nat /\ total(S) =< total(C)
<1> DEFINE v(D) == [c \in D |-> c.value]
<1>1. Summable(v(C), C) /\ \A D : total(D) = SumOver(v(D), D)
  BY DEF Purse, Summable, total, SumOver
<1>2. ASSUME NEW D \in SUBSET C PROVE total(D) = SumOver(v(C), D)
  <2>1. Summable(v(D), D)
    BY PartOfPurse DEF Purse, Summable
  <2>2. \A c \in D : v(D)[c] = v(C)[c]
    OBVIOUS
  <2> HIDE DEF v
  <2>. QED  BY <1>1, <2>1, <2>2, SumAgrees
<1> HIDE DEF v
<1>3. total(C) = total(C \ S) + total(S)
  BY <1>1, <1>2, SumSplit
<1>4. total(S) \in Nat /\ total(C \ S) \in Nat
  BY PartOfPurse, TotalStep
<1>. QED  BY <1>3, <1>4

\* Coins worth no more than v come to no more than v for each.
LEMMA TotalAtMost ==
  ASSUME NEW C, Purse(C), NEW v \in Nat, \A c \in C : c.value =< v
  PROVE  total(C) =< Cardinality(C) * v
<1> DEFINE T == {S \in SUBSET C : total(S) =< Cardinality(S) * v}
<1>1. ASSUME NEW S \in SUBSET C, \A x \in S : S \ {x} \in T
      PROVE  S \in T
  <2>1. Purse(S) /\ Cardinality(S) \in Nat
    BY PartOfPurse
  <2>2. CASE S = {}
    BY <2>1, <2>2, TotalStep
  <2>3. CASE S # {}
    <3>1. PICK x \in S : TRUE
      BY <2>3
    <3>2. /\ Cardinality(S \ {x}) = Cardinality(S) - 1
          /\ Cardinality(S) \in Nat /\ Cardinality(S \ {x}) \in Nat
      BY <2>1, <3>1, FS_RemoveElement, FS_CardinalityType DEF Purse
    <3>3. /\ total(S) = x.value + total(S \ {x}) /\ total(S) \in Nat
          /\ total(S \ {x}) \in Nat
      BY <2>1, <3>1, TotalStep, TotalSplit
    <3>4. total(S \ {x}) =< Cardinality(S \ {x}) * v
      BY <1>1, <3>1
    <3>5. x.value =< v /\ x.value \in Nat
      BY <3>1 DEF Purse
    <3>6. \A n, m \in Nat : m = n - 1 => m * v + v = n * v
      OBVIOUS
    <3>. QED  BY <3>2, <3>3, <3>4, <3>5, <3>6
  <2>. QED  BY <2>2, <2>3
<1> HIDE DEF T
<1>2. \A S \in SUBSET C : S \in T
  <2>1. IsFiniteSet(C)
    BY DEF Purse
  <2>. QED  BY <1>1, <2>1, SubsetInduction
<1>3. C \in T
  BY <1>2
<1>. QED  BY <1>3 DEF T

\* Coins worth no less than v come to no less than v for each.
LEMMA TotalAtLeast ==
  ASSUME NEW C, Purse(C), NEW v \in Nat, \A c \in C : v =< c.value
  PROVE  Cardinality(C) * v =< total(C)
<1> DEFINE T == {S \in SUBSET C : Cardinality(S) * v =< total(S)}
<1>1. ASSUME NEW S \in SUBSET C, \A x \in S : S \ {x} \in T
      PROVE  S \in T
  <2>1. Purse(S) /\ Cardinality(S) \in Nat
    BY PartOfPurse
  <2>2. CASE S = {}
    BY <2>1, <2>2, TotalStep, FS_EmptySet
  <2>3. CASE S # {}
    <3>1. PICK x \in S : TRUE
      BY <2>3
    <3>2. /\ Cardinality(S \ {x}) = Cardinality(S) - 1
          /\ Cardinality(S) \in Nat /\ Cardinality(S \ {x}) \in Nat
      BY <2>1, <3>1, FS_RemoveElement, FS_CardinalityType DEF Purse
    <3>3. /\ total(S) = x.value + total(S \ {x}) /\ total(S) \in Nat
          /\ total(S \ {x}) \in Nat
      BY <2>1, <3>1, TotalStep, TotalSplit
    <3>4. Cardinality(S \ {x}) * v =< total(S \ {x})
      BY <1>1, <3>1
    <3>5. v =< x.value /\ x.value \in Nat
      BY <3>1 DEF Purse
    <3>6. \A n, m \in Nat : m = n - 1 => m * v + v = n * v
      OBVIOUS
    <3>. QED  BY <3>2, <3>3, <3>4, <3>5, <3>6
  <2>. QED  BY <2>2, <2>3
<1> HIDE DEF T
<1>2. \A S \in SUBSET C : S \in T
  <2>1. IsFiniteSet(C)
    BY DEF Purse
  <2>. QED  BY <1>1, <2>1, SubsetInduction
<1>3. C \in T
  BY <1>2
<1>. QED  BY <1>3 DEF T

\* Of two choices of the largest coins, the one of more coins is worth no less:
\* coins that only one of them has are all of one value.
LEMMA TopsOrdered ==
  ASSUME NEW C, Purse(C), NEW S, Top(C, S), NEW T, Top(C, T),
         Cardinality(S) =< Cardinality(T)
  PROVE  total(S) =< total(T)
<1> DEFINE A == S \ T
           B == T \ S
           I == S \cap T
<1>1. /\ S \in SUBSET C /\ T \in SUBSET C /\ A \in SUBSET C /\ B \in SUBSET C
      /\ A = S \ I /\ B = T \ I /\ I \in SUBSET S /\ I \in SUBSET T
      /\ I = T \cap S
  BY DEF Top
<1>2. Purse(S) /\ Purse(T) /\ Purse(A) /\ Purse(B)
  BY <1>1, PartOfPurse
<1>3. /\ total(S) = total(A) + total(I) /\ total(T) = total(B) + total(I)
      /\ total(A) \in Nat /\ total(B) \in Nat /\ total(I) \in Nat
  BY <1>1, <1>2, TotalSplit
<1>4. Cardinality(A) =< Cardinality(B)
      /\ Cardinality(A) \in Nat /\ Cardinality(B) \in Nat
  <2>1. /\ Cardinality(A) = Cardinality(S) - Cardinality(I)
        /\ Cardinality(B) = Cardinality(T) - Cardinality(I)
    BY <1>1, <1>2, FS_Difference DEF Purse
  <2>2. /\ Cardinality(S) \in Nat /\ Cardinality(T) \in Nat
        /\ Cardinality(I) \in Nat /\ Cardinality(A) \in Nat
        /\ Cardinality(B) \in Nat
    BY <1>1, <1>2, PartOfPurse
  <2>. QED  BY <2>1, <2>2
<1>5. \A a \in A : \A b \in B : a.value = b.value /\ a.value \in Nat
                                 /\ b.value \in Nat
  <2>1. ASSUME NEW a \in A, NEW b \in B
        PROVE  a.value = b.value /\ a.value \in Nat /\ b.value \in Nat
    <3>1. a \in S /\ a \in C \ T /\ b \in T /\ b \in C \ S
      BY <1>1
    <3>2. a.value =< b.value /\ b.value =< a.value
      BY <3>1 DEF Top
    <3>3. a.value \in Nat /\ b.value \in Nat
      BY <3>1 DEF Purse
    <3>. QED  BY <3>2, <3>3
  <2>. QED  BY <2>1
<1>6. CASE A = {}
  BY <1>2, <1>3, <1>6, TotalStep
<1>7. CASE A # {}
  <2>1. B # {}
    BY <1>2, <1>4, <1>7, FS_EmptySet DEF Purse
  <2>2. PICK a \in A : TRUE
    BY <1>7
  <2>3. PICK b \in B : TRUE
    BY <2>1
  <2>4. \A x \in A : x.value =< b.value
    BY <1>5, <2>3
  <2>5. \A y \in B : b.value =< y.value
    BY <1>5, <2>2, <2>3
  <2>6. b.value \in Nat
    BY <1>5, <2>2, <2>3
  <2> HIDE DEF A, B, I
  <2>7. /\ total(A) =< Cardinality(A) * b.value
        /\ Cardinality(B) * b.value =< total(B)
    BY <1>2, <2>4, <2>5, <2>6, TotalAtMost, TotalAtLeast
  <2>8. \A n, m, v \in Nat : n =< m => n * v =< m * v
    <3> SUFFICES ASSUME NEW n \in Nat, NEW m \in Nat, NEW v \in Nat, n =< m
                 PROVE  n * v =< m * v
      OBVIOUS
    <3>1. PICK d \in Nat : m = n + d
      <4>1. m - n \in Nat /\ m = n + (m - n)
        OBVIOUS
      <4>. QED  BY <4>1
    <3>2. m * v = n * v + d * v
      BY <3>1
    <3>3. n * v \in Nat /\ d * v \in Nat
      OBVIOUS
    <3>. QED  BY <3>2, <3>3
  <2>9. Cardinality(A) * b.value =< Cardinality(B) * b.value
    BY <1>4, <2>6, <2>8
  <2>10. /\ Cardinality(A) * b.value \in Nat
         /\ Cardinality(B) * b.value \in Nat
    BY <1>4, <2>6
  <2>. QED  BY <1>3, <2>7, <2>9, <2>10
<1>. QED  BY <1>6, <1>7

\* What is selected is a choice of the largest coins that is enough, of no more
\* coins than any other.
LEMMA SelectionIsLeast ==
  ASSUME NEW C, Purse(C), NEW need \in Nat \ {0}, NEW S \in selections(C, need)
  PROVE  /\ Top(C, S) /\ total(S) >= need /\ S # {}
         /\ total(S) \in Nat /\ Cardinality(S) \in Nat
         /\ \A T : Top(C, T) /\ total(T) >= need =>
                     Cardinality(S) =< Cardinality(T)
<1>1. Top(C, S) /\ total(S) >= need
  BY DEF selections, Top
<1>2. PICK c \in S : /\ total(S \ {c}) < need
                     /\ \A d \in S : c.value =< d.value
  BY DEF selections
<1>3. Top(C, S \ {c})
  <2> SUFFICES ASSUME NEW x \in S \ {c}, NEW d \in C \ (S \ {c})
               PROVE  d.value =< x.value
    BY <1>1 DEF Top
  <2>1. CASE d = c
    BY <1>2, <2>1
  <2>2. CASE d \in C \ S
    BY <1>1, <2>2 DEF Top
  <2>. QED  BY <2>1, <2>2
<1>4. S \in SUBSET C /\ Purse(S) /\ S \ {c} \in SUBSET C
  BY <1>1, PartOfPurse DEF Top
<1>5. /\ Cardinality(S \ {c}) = Cardinality(S) - 1
      /\ Cardinality(S) \in Nat
  BY <1>2, <1>4, FS_RemoveElement, FS_CardinalityType DEF Purse
<1>6. total(S) \in Nat /\ total(S \ {c}) \in Nat
  BY <1>4, TotalSplit
<1>7. ASSUME NEW T, Top(C, T), total(T) >= need
      PROVE  Cardinality(S) =< Cardinality(T)
  <2>1. Cardinality(T) \in Nat /\ total(T) \in Nat
    BY <1>7, PartOfPurse, TotalSplit DEF Top
  <2>2. Cardinality(T) =< Cardinality(S \ {c}) => total(T) =< total(S \ {c})
    BY <1>3, <1>7, TopsOrdered
  <2>. QED  BY <1>2, <1>5, <1>6, <1>7, <2>1, <2>2
<1>. QED  BY <1>1, <1>2, <1>5, <1>6, <1>7

\* However coins of one value are ordered, it is as many coins and as much.
LEMMA SelectionsAgree ==
  ASSUME NEW C, Purse(C), NEW need \in Nat \ {0},
         NEW S \in selections(C, need), NEW T \in selections(C, need)
  PROVE  Cardinality(S) = Cardinality(T) /\ total(S) = total(T)
<1>1. /\ Top(C, S) /\ total(S) >= need /\ Top(C, T) /\ total(T) >= need
      /\ Cardinality(S) \in Nat /\ Cardinality(T) \in Nat
      /\ total(S) \in Nat /\ total(T) \in Nat
      /\ Cardinality(S) =< Cardinality(T) /\ Cardinality(T) =< Cardinality(S)
  BY SelectionIsLeast
<1>2. total(S) =< total(T) /\ total(T) =< total(S)
  BY <1>1, TopsOrdered
<1>. QED  BY <1>1, <1>2

\* Of coins there is one worth the least.
LEMMA LeastCoin ==
  ASSUME NEW S, Purse(S), S # {}
  PROVE  \E c \in S : \A d \in S : c.value =< d.value
<1> DEFINE V == {c.value : c \in S}
<1>1. V \in SUBSET Nat /\ V # {}
  BY DEF Purse
<1>2. PICK m \in V : \A k \in V : m =< k
  BY <1>1, LeastNatural
<1>. QED  BY <1>2

\* When there is enough, something is selected.
LEMMA SelectionExists ==
  ASSUME NEW C, Purse(C), NEW need \in Nat \ {0}, total(C) >= need
  PROVE  selections(C, need) # {}
<1> DEFINE Enough(S) == Top(C, S) /\ total(S) >= need
           T == {S \in SUBSET C : Enough(S) => selections(C, need) # {}}
<1>1. ASSUME NEW S \in SUBSET C, \A x \in S : S \ {x} \in T
      PROVE  S \in T
  <2> SUFFICES ASSUME Enough(S) PROVE selections(C, need) # {}
    OBVIOUS
  <2>1. Purse(S) /\ S # {}
    BY PartOfPurse, TotalStep
  <2>2. PICK c \in S : \A d \in S : c.value =< d.value
    BY <2>1, LeastCoin
  <2>3. total(S \ {c}) \in Nat
    BY <2>1, TotalSplit
  <2>4. CASE total(S \ {c}) < need
    <3>1. S \in selections(C, need)
      BY <2>2, <2>4 DEF selections, Top
    <3>. QED  BY <3>1
  <2>5. CASE total(S \ {c}) >= need
    <3>1. Top(C, S \ {c})
      <4> SUFFICES ASSUME NEW x \in S \ {c}, NEW d \in C \ (S \ {c})
                   PROVE  d.value =< x.value
        BY DEF Top
      <4>1. CASE d = c
        BY <2>2, <4>1
      <4>2. CASE d \in C \ S
        BY <4>2 DEF Top
      <4>. QED  BY <4>1, <4>2
    <3>2. Enough(S \ {c}) /\ S \ {c} \in T
      BY <1>1, <2>2, <2>5, <3>1
    <3>. QED  BY <3>2
  <2>. QED  BY <2>3, <2>4, <2>5
<1>2. Enough(C)
  BY DEF Top
<1>3. C \in T
  <2>1. IsFiniteSet(C)
    BY DEF Purse
  <2> HIDE DEF T
  <2>2. \A S \in SUBSET C : S \in T
    BY <1>1, <2>1, SubsetInduction
  <2>. QED  BY <2>2
<1>. QED  BY <1>2, <1>3

-----------------------------------------------------------------------------
(* Fees *)

\* The least fee grows with the inputs and the outputs, and is never nothing.
LEMMA MinFeeGrows ==
  ASSUME NEW n \in Nat, NEW m \in Nat, n =< m,
         NEW o \in Nat, NEW q \in Nat, o =< q
  PROVE  /\ min_fee(n, o) \in Nat \ {0} /\ min_fee(m, q) \in Nat \ {0}
         /\ min_fee(n, o) =< min_fee(m, q)
<1>1. /\ FEE_BASE \in Nat \ {0} /\ FEE_IN \in Nat /\ FEE_OUT \in Nat
  BY SendAssumption DEF SendAssumption
<1>2. ASSUME NEW a \in Nat, NEW x \in Nat, NEW y \in Nat, x =< y
      PROVE  a * x \in Nat /\ a * y \in Nat /\ a * x =< a * y
  <2>1. PICK d \in Nat : y = x + d
    <3>1. y - x \in Nat /\ y = x + (y - x)
      BY <1>2
    <3>. QED  BY <3>1
  <2>2. a * y = a * x + a * d
    BY <2>1
  <2>3. a * x \in Nat /\ a * d \in Nat
    OBVIOUS
  <2>. QED  BY <2>2, <2>3
<1>3. /\ FEE_IN * n \in Nat /\ FEE_IN * m \in Nat /\ FEE_IN * n =< FEE_IN * m
      /\ FEE_OUT * o \in Nat /\ FEE_OUT * q \in Nat
      /\ FEE_OUT * o =< FEE_OUT * q
  BY <1>1, <1>2
<1>. QED  BY <1>1, <1>3 DEF min_fee

\* The outputs of the transaction that spends S to pay an amount and a fee.
Outputs(S, need) == IF total(S) > need THEN 2 ELSE 1

\* What a fee leads to is the least fee of any transaction selected for it, and 0
\* where the funds are short.
LEMMA FeeFor ==
  ASSUME NEW C, Purse(C), NEW amount \in Nat, NEW fee \in Nat \ {0}
  PROVE  /\ fee_for(C, amount, fee) \in Nat
         /\ total(C) < amount + fee => /\ fee_for(C, amount, fee) = 0
                                       /\ selections(C, amount + fee) = {}
         /\ total(C) >= amount + fee => selections(C, amount + fee) # {}
         /\ \A S \in selections(C, amount + fee) :
              /\ fee_for(C, amount, fee)
                   = min_fee(Cardinality(S), Outputs(S, amount + fee))
              /\ S \in SUBSET C /\ Cardinality(S) \in Nat \ {0}
<1> DEFINE need == amount + fee
           R == CHOOSE R \in selections(C, need) : TRUE
<1>1. need \in Nat \ {0} /\ total(C) \in Nat
  BY TotalStep
<1>2. CASE total(C) < need
  <2>1. fee_for(C, amount, fee) = 0
    BY <1>2 DEF fee_for
  <2>2. ASSUME NEW S \in selections(C, need) PROVE FALSE
    <3>1. Top(C, S) /\ total(S) >= need /\ total(S) \in Nat
      BY <1>1, SelectionIsLeast
    <3>2. total(S) =< total(C)
      BY <3>1, TotalSplit DEF Top
    <3>. QED  BY <1>1, <1>2, <3>1, <3>2
  <2>. QED  BY <1>1, <1>2, <2>1, <2>2
<1>3. CASE total(C) >= need
  <2>1. selections(C, need) # {}
    BY <1>1, <1>3, SelectionExists
  <2>2. R \in selections(C, need)
    BY <2>1
  <2>3. fee_for(C, amount, fee) = min_fee(Cardinality(R), Outputs(R, need))
    BY <1>1, <1>3 DEF fee_for, Outputs
  <2> HIDE DEF R
  <2>4. ASSUME NEW S \in selections(C, need)
        PROVE  /\ S \in SUBSET C /\ Cardinality(S) \in Nat \ {0}
               /\ Cardinality(S) = Cardinality(R) /\ total(S) = total(R)
    <3>1. Top(C, S) /\ S # {} /\ Cardinality(S) \in Nat
      BY <1>1, SelectionIsLeast
    <3>2. S \in SUBSET C /\ Cardinality(S) # 0
      BY <3>1, PartOfPurse, FS_EmptySet DEF Top, Purse
    <3>3. Cardinality(S) = Cardinality(R) /\ total(S) = total(R)
      BY <1>1, <2>2, SelectionsAgree
    <3>. QED  BY <3>1, <3>2, <3>3
  <2>5. fee_for(C, amount, fee) \in Nat
    <3>1. Cardinality(R) \in Nat /\ Outputs(R, need) \in Nat
      BY <2>2, <2>4 DEF Outputs
    <3>. QED  BY <2>3, <3>1, MinFeeGrows
  <2>. QED  BY <1>1, <1>3, <2>1, <2>3, <2>4, <2>5 DEF Outputs
<1>. QED  BY <1>1, <1>2, <1>3

\* The fees of the rounds.
Rounds(fee, coins, amount, floor) ==
  /\ fee \in [0..ROUNDS -> Nat \ {0}]
  /\ fee[0] = IF floor > 1 THEN floor ELSE 1
  /\ \A i \in 1..ROUNDS :
       fee[i] = IF fee_for(coins, amount, fee[i - 1]) > fee[i - 1]
                  THEN fee_for(coins, amount, fee[i - 1]) ELSE fee[i - 1]

LEMMA RoundsExist ==
  ASSUME NEW C, Purse(C), NEW amount \in Nat, NEW floor \in Nat
  PROVE  \E fee : /\ Rounds(fee, C, amount, floor)
                  /\ final_fee(C, amount, floor) = fee[ROUNDS - 1]
<1> DEFINE U == Nat \ {0}
           n == ROUNDS
           a == IF floor > 1 THEN floor ELSE 1
           more(x) == IF fee_for(C, amount, x) > x THEN fee_for(C, amount, x)
                                                   ELSE x
           G == [p \in (1..n) \X U |-> more(p[2])]
           T == [i \in 0..n |-> U]
           F(f) == [i \in 0..n |-> IF i = 0 THEN a ELSE more(f[i - 1])]
           fee == CHOOSE f : f = F(f)
<1>1. n \in Nat \ {0} /\ a \in U
  BY SendAssumption DEF SendAssumption
<1>2. \A x \in U : more(x) \in U
  BY FeeFor
<1> HIDE DEF n, a, more
<1>3. T \in [0..n -> SUBSET U] /\ \A i \in 0..n : T[i] = U
  OBVIOUS
<1>4. \A i \in 1..n : i \in 0..n /\ i - 1 \in 0..n
  BY <1>1
<1>5. \A i \in 1..n : \A x \in U : G[<<i, x>>] = more(x)
  OBVIOUS
<1>6. IsRecursion(n, U, T, a, G)
  <2>1. a \in T[0]
    BY <1>1, <1>3
  <2>2. \A i \in 1..n : \A x \in T[i - 1] : G[<<i, x>>] \in T[i]
    <3> TAKE i \in 1..n
    <3> TAKE x \in T[i - 1]
    <3>1. x \in U /\ T[i] = U
      BY <1>3, <1>4
    <3>2. G[<<i, x>>] = more(x)
      BY <1>5, <3>1
    <3>. QED  BY <1>2, <3>1, <3>2
  <2>. QED  BY <1>1, <1>3, <2>1, <2>2 DEF IsRecursion
<1> HIDE DEF T, G
<1>7. PICK f : Solves(f, n, U, T, a, G)
  BY <1>6, RecursionExists
<1>8. f \in [0..n -> U] /\ f[0] = a /\ \A i \in 1..n : f[i] = more(f[i - 1])
  BY <1>4, <1>5, <1>7 DEF Solves
<1> HIDE DEF U
<1>9. f = F(f)
  <2>1. \A i \in 0..n : f[i] = IF i = 0 THEN a ELSE more(f[i - 1])
    BY <1>1, <1>8
  <2>. QED  BY <1>8, <2>1
<1>10. fee = F(fee)
  <2> HIDE DEF F
  <2>. QED  BY <1>9
<1> HIDE DEF fee
<1>11. \A i \in 0..n : fee[i] = IF i = 0 THEN a ELSE more(fee[i - 1])
  BY <1>10
<1>12. DOMAIN fee = 0..n
  BY <1>10
<1>13. \A k \in Nat : k \in {j \in Nat : j \in 0..n => fee[j] \in U}
  <2> DEFINE S == {j \in Nat : j \in 0..n => fee[j] \in U}
  <2>1. 0 \in S
    BY <1>1, <1>11
  <2>2. ASSUME NEW k \in Nat, k \in S PROVE k + 1 \in S
    <3> SUFFICES ASSUME k + 1 \in 0..n PROVE fee[k + 1] \in U
      OBVIOUS
    <3>1. k \in 0..n /\ k + 1 # 0 /\ (k + 1) - 1 = k
      BY <1>1
    <3>2. fee[k] \in U
      BY <2>2, <3>1
    <3>3. fee[k + 1] = more(fee[k])
      BY <1>11, <3>1
    <3>. QED  BY <1>2, <3>2, <3>3
  <2> HIDE DEF S
  <2>3. \A k \in Nat : k \in S
    BY <2>1, <2>2, SetInduction
  <2>. QED  BY <2>3 DEF S
<1>14. fee \in [0..n -> U]
  <2>1. \A k \in 0..n : fee[k] \in U
    BY <1>1, <1>13
  <2>2. fee = [i \in 0..n |-> fee[i]]
    BY <1>10
  <2>. QED  BY <2>1, <2>2
<1>15. fee[0] = a /\ \A i \in 1..n : fee[i] = more(fee[i - 1])
  BY <1>1, <1>4, <1>11
<1>16. Rounds(fee, C, amount, floor)
  BY <1>14, <1>15 DEF Rounds, n, a, more, U
<1>17. final_fee(C, amount, floor) = fee[ROUNDS - 1]
  BY DEF final_fee, fee, F, n, a, more
<1>. QED  BY <1>16, <1>17

\* Each fee is the first one, or what a lower fee led to.
LEMMA FeeIsLed ==
  ASSUME NEW C, NEW amount, NEW floor \in Nat, NEW fee,
         Rounds(fee, C, amount, floor), NEW i \in 0..ROUNDS
  PROVE  \/ fee[i] = IF floor > 1 THEN floor ELSE 1
         \/ \E e \in Nat \ {0} : e < fee[i] /\ fee[i] = fee_for(C, amount, e)
<1> DEFINE Led(x) == \/ x = IF floor > 1 THEN floor ELSE 1
                     \/ \E e \in Nat \ {0} : e < x /\ x = fee_for(C, amount, e)
           S == {k \in Nat : k \in 0..ROUNDS => Led(fee[k])}
<1>1. 0 \in S
  BY DEF Rounds
<1>2. ASSUME NEW k \in Nat, k \in S PROVE k + 1 \in S
  <2> SUFFICES ASSUME k + 1 \in 0..ROUNDS PROVE Led(fee[k + 1])
    OBVIOUS
  <2>1. /\ k \in 0..ROUNDS /\ k + 1 \in 1..ROUNDS /\ (k + 1) - 1 = k
    BY SendAssumption DEF SendAssumption
  <2>2. Led(fee[k])
    BY <1>2, <2>1
  <2>3. fee[k] \in Nat \ {0}
    BY <2>1 DEF Rounds
  <2>4. fee[k + 1] = IF fee_for(C, amount, fee[k]) > fee[k]
                       THEN fee_for(C, amount, fee[k]) ELSE fee[k]
    BY <2>1 DEF Rounds
  <2>5. CASE fee_for(C, amount, fee[k]) > fee[k]
    BY <2>3, <2>4, <2>5
  <2>6. CASE ~ (fee_for(C, amount, fee[k]) > fee[k])
    <3>1. fee[k + 1] = fee[k]
      BY <2>4, <2>6
    <3> HIDE DEF Led
    <3>. QED  BY <2>2, <3>1
  <2>. QED  BY <2>5, <2>6
<1> HIDE DEF S
<1>3. \A k \in Nat : k \in S
  BY <1>1, <1>2, SetInduction
<1>4. i \in Nat
  BY SendAssumption DEF SendAssumption
<1>. QED  BY <1>3, <1>4 DEF S

\* What send makes spends coins it was given, loses nothing, pays a fee the mempool
\* takes, and no more of it than asked for or needed.
LEMMA SendIsSound ==
  ASSUME NEW C, Purse(C), NEW amount \in Nat, NEW floor \in Nat,
         NEW p \in send(C, amount, floor)
  PROVE  /\ p.ins \in SUBSET C /\ p.change \in Nat /\ p.amount = amount
         /\ sound(p, floor)
<1>1. PICK round : /\ Rounds(round, C, amount, floor)
                   /\ final_fee(C, amount, floor) = round[ROUNDS - 1]
  BY RoundsExist
<1> DEFINE fee == final_fee(C, amount, floor)
           need == amount + fee
<1>2. ROUNDS - 1 \in 0..ROUNDS
  BY SendAssumption DEF SendAssumption
<1>3. fee \in Nat \ {0}
  BY <1>1, <1>2 DEF Rounds
<1>4. \/ fee = IF floor > 1 THEN floor ELSE 1
      \/ \E e \in Nat \ {0} : e < fee /\ fee = fee_for(C, amount, e)
  BY <1>1, <1>2, FeeIsLed
<1>5. PICK S \in selections(C, need) :
        fee >= fee_for(C, amount, fee) /\ p = Payment(S, amount, fee)
  BY DEF send
<1> HIDE DEF fee
<1>6. need \in Nat \ {0}
  BY <1>3
<1>7. /\ Top(C, S) /\ total(S) >= need /\ total(S) \in Nat
      /\ \A T : Top(C, T) /\ total(T) >= need =>
                  Cardinality(S) =< Cardinality(T)
  BY <1>5, <1>6, SelectionIsLeast
<1>8. /\ fee_for(C, amount, fee) = min_fee(Cardinality(S), Outputs(S, need))
      /\ S \in SUBSET C /\ Cardinality(S) \in Nat \ {0}
  BY <1>3, <1>5, FeeFor
<1>9. /\ p.ins = S /\ p.amount = amount /\ p.fee = fee
      /\ p.change = total(S) - amount - fee
  BY <1>5 DEF Payment
<1>10. p.change \in Nat /\ outputs(p) = Outputs(S, need)
       /\ total(S) = amount + p.change + fee
  BY <1>3, <1>7, <1>9 DEF outputs, Outputs
<1>11. p.fee > floor => p.fee =< min_fee(Cardinality(S), 2)
  <2> SUFFICES ASSUME fee > floor PROVE fee =< min_fee(Cardinality(S), 2)
    BY <1>9
  <2>1. min_fee(Cardinality(S), 2) \in Nat \ {0}
    <3>1. Cardinality(S) \in Nat /\ Cardinality(S) =< Cardinality(S)
          /\ 2 \in Nat /\ 2 =< 2
      BY <1>8
    <3>. QED  BY <3>1, MinFeeGrows
  <2>2. CASE fee = IF floor > 1 THEN floor ELSE 1
    BY <2>1, <2>2
  <2>3. CASE \E e \in Nat \ {0} : e < fee /\ fee = fee_for(C, amount, e)
    <3>1. PICK e \in Nat \ {0} : e < fee /\ fee = fee_for(C, amount, e)
      BY <2>3
    <3>2. total(C) >= amount + e
      <4>1. total(C) \in Nat
        BY TotalStep
      <4>2. total(C) < amount + e => fee = 0
        BY <3>1, FeeFor
      <4>. QED  BY <1>3, <4>1, <4>2
    <3>3. PICK T \in selections(C, amount + e) : TRUE
      BY <3>2, FeeFor
    <3>4. /\ fee = min_fee(Cardinality(T), Outputs(T, amount + e))
          /\ Cardinality(T) \in Nat
      BY <3>1, <3>3, FeeFor
    <3>5. total(S) >= amount + e /\ amount + e \in Nat \ {0}
      BY <1>3, <1>7, <3>1
    <3>6. Cardinality(T) =< Cardinality(S)
      BY <1>7, <3>3, <3>5, SelectionIsLeast
    <3>7. Outputs(T, amount + e) \in Nat /\ Outputs(T, amount + e) =< 2
      BY DEF Outputs
    <3>. QED  BY <1>8, <3>4, <3>6, <3>7, MinFeeGrows
  <2>. QED  BY <1>4, <2>2, <2>3
<1>. QED  BY <1>5, <1>8, <1>9, <1>10, <1>11 DEF sound

\* A round that does not raise the fee is followed by none that does.
LEMMA RoundsSettle ==
  ASSUME NEW C, Purse(C), NEW amount \in Nat, NEW floor, NEW fee,
         Rounds(fee, C, amount, floor), NEW i \in 0..ROUNDS,
         fee_for(C, amount, fee[i]) =< fee[i]
  PROVE  \A j \in i..ROUNDS : fee[j] = fee[i]
<1> DEFINE S == {d \in Nat : i + d =< ROUNDS => fee[i + d] = fee[i]}
<1>1. i \in Nat /\ ROUNDS \in Nat
  BY SendAssumption DEF SendAssumption
<1>2. 0 \in S
  BY <1>1
<1>3. ASSUME NEW d \in Nat, d \in S PROVE d + 1 \in S
  <2> SUFFICES ASSUME i + (d + 1) =< ROUNDS PROVE fee[i + (d + 1)] = fee[i]
    OBVIOUS
  <2>1. /\ i + (d + 1) \in 1..ROUNDS /\ (i + (d + 1)) - 1 = i + d
        /\ i + d =< ROUNDS
    BY <1>1
  <2>2. fee[i + d] = fee[i]
    BY <1>3, <2>1
  <2>3. fee[i + (d + 1)] = IF fee_for(C, amount, fee[i + d]) > fee[i + d]
                             THEN fee_for(C, amount, fee[i + d]) ELSE fee[i + d]
    BY <2>1 DEF Rounds
  <2>4. ~ (fee_for(C, amount, fee[i]) > fee[i])
    <3>1. fee[i] \in Nat \ {0}
      BY DEF Rounds
    <3>2. fee_for(C, amount, fee[i]) \in Nat
      BY <3>1, FeeFor
    <3>. QED  BY <3>1, <3>2
  <2>. QED  BY <2>2, <2>3, <2>4
<1> HIDE DEF S
<1>4. \A d \in Nat : d \in S
  BY <1>2, <1>3, SetInduction
<1>5. ASSUME NEW j \in i..ROUNDS PROVE fee[j] = fee[i]
  <2>1. j - i \in Nat /\ i + (j - i) = j /\ j =< ROUNDS
    BY <1>1
  <2>. QED  BY <1>4, <2>1 DEF S
<1>. QED  BY <1>5

LEMMA CountUpTo ==
  ASSUME NEW n \in Nat
  PROVE  IsFiniteSet(1..n) /\ Cardinality(1..n) = n
<1>1. 1 \in Int /\ n \in Int /\ n - 1 + 1 = n /\ (1 > n => n = 0)
  OBVIOUS
<1>2. IsFiniteSet(1..n) /\ Cardinality(1..n) = IF 1 > n THEN 0 ELSE n - 1 + 1
  BY <1>1, FS_Interval
<1>. QED  BY <1>1, <1>2

\* When some choice of the largest coins can pay the amount, the floor and the
\* least fee with change, and the rounds are more than two for each coin, send
\* finds a payment: a fee that is raised was the least fee of a number of inputs
\* with or without change, and no such fee comes twice.
LEMMA SendIsComplete ==
  ASSUME NEW C, Purse(C), NEW amount \in Nat, NEW floor \in Nat,
         2 * Cardinality(C) < ROUNDS
  PROVE  complete(C, amount, floor)
<1> SUFFICES ASSUME send(C, amount, floor) = {},
                    NEW S, Top(C, S), ~ (total(S) < amount + floor),
                    ~ (total(S) < amount + min_fee(Cardinality(S), 2))
             PROVE  FALSE
  BY DEF complete, Top
<1>1. PICK fee : /\ Rounds(fee, C, amount, floor)
                 /\ final_fee(C, amount, floor) = fee[ROUNDS - 1]
  BY RoundsExist
<1> DEFINE k == Cardinality(C)
           n == Cardinality(S)
           last == fee[ROUNDS - 1]
<1>2. /\ ROUNDS \in Nat \ {0} /\ k \in Nat /\ n \in Nat
      /\ S \in SUBSET C /\ total(S) \in Nat /\ total(C) \in Nat
      /\ total(S) =< total(C)
  BY SendAssumption, PartOfPurse, TotalSplit, TotalStep DEF SendAssumption, Top
<1>3. min_fee(n, 2) \in Nat \ {0}
  <2>1. n =< n
    BY <1>2
  <2>. QED  BY <1>2, <2>1, MinFeeGrows
<1>4. total(S) >= amount + floor /\ total(S) >= amount + min_fee(n, 2)
  BY <1>2, <1>3
<1>5. \A i \in 0..ROUNDS : fee[i] \in Nat \ {0}
  BY <1>1 DEF Rounds
<1> HIDE DEF k, n
\* Every fee can be paid from S, and leads to that of a number of inputs.
<1>6. ASSUME NEW e \in Nat \ {0}, amount + e =< total(S)
      PROVE  /\ selections(C, amount + e) # {}
             /\ \E m \in 1..k, o \in {1, 2} :
                  fee_for(C, amount, e) = min_fee(m, o)
             /\ fee_for(C, amount, e) =< min_fee(n, 2)
  <2>0. total(C) >= amount + e
    BY <1>2, <1>6
  <2>1. PICK T \in selections(C, amount + e) : TRUE
    BY <2>0, FeeFor
  <2>2. /\ fee_for(C, amount, e)
             = min_fee(Cardinality(T), Outputs(T, amount + e))
        /\ T \in SUBSET C /\ Cardinality(T) \in Nat \ {0}
    BY <2>1, FeeFor
  <2>3. Cardinality(T) =< n
    <3>1. amount + e \in Nat \ {0} /\ total(S) >= amount + e
      BY <1>2, <1>6
    <3>. QED  BY <2>1, <3>1, SelectionIsLeast DEF n
  <2>4. Cardinality(T) =< k
    BY <2>2, PartOfPurse DEF k
  <2>5. Outputs(T, amount + e) \in {1, 2}
    BY DEF Outputs
  <2>6. /\ Outputs(T, amount + e) \in Nat
        /\ Outputs(T, amount + e) =< 2
    BY <2>5
  <2>7. min_fee(Cardinality(T), Outputs(T, amount + e)) =< min_fee(n, 2)
    BY <1>2, <2>2, <2>3, <2>6, MinFeeGrows
  <2>8. Cardinality(T) \in 1..k
    BY <1>2, <2>2, <2>4
  <2>. QED  BY <2>1, <2>2, <2>5, <2>7, <2>8
<1>7. \A i \in Nat : i \in {j \in Nat : j =< ROUNDS => amount + fee[j] =< total(S)}
  <2> DEFINE A == {j \in Nat : j =< ROUNDS => amount + fee[j] =< total(S)}
  <2>1. 0 \in A
    <3>1. fee[0] = IF floor > 1 THEN floor ELSE 1
      BY <1>1 DEF Rounds
    <3>. QED  BY <1>2, <1>3, <1>4, <3>1
  <2>2. ASSUME NEW j \in Nat, j \in A PROVE j + 1 \in A
    <3> SUFFICES ASSUME j + 1 =< ROUNDS PROVE amount + fee[j + 1] =< total(S)
      OBVIOUS
    <3>1. j \in 0..ROUNDS /\ j + 1 \in 1..ROUNDS /\ (j + 1) - 1 = j
      BY <1>2
    <3>2. amount + fee[j] =< total(S) /\ fee[j] \in Nat \ {0}
      BY <1>5, <2>2, <3>1
    <3>3. fee_for(C, amount, fee[j]) =< min_fee(n, 2)
          /\ fee_for(C, amount, fee[j]) \in Nat
      BY <1>6, <3>2, FeeFor
    <3>4. fee[j + 1] \in {fee_for(C, amount, fee[j]), fee[j]}
      BY <1>1, <3>1 DEF Rounds
    <3>. QED  BY <1>2, <1>3, <1>4, <3>2, <3>3, <3>4
  <2> HIDE DEF A
  <2>3. \A i \in Nat : i \in A
    BY <2>1, <2>2, SetInduction
  <2>. QED  BY <2>3 DEF A
<1>8. \A i \in 0..ROUNDS : amount + fee[i] =< total(S)
  BY <1>2, <1>7
\* So the last round was not enough, and none before it.
<1>9. fee_for(C, amount, last) > last
  <2>1. ROUNDS - 1 \in 0..ROUNDS
    BY <1>2
  <2>2. last \in Nat \ {0} /\ amount + last =< total(S)
    BY <1>5, <1>8, <2>1
  <2>3. selections(C, amount + last) # {}
    BY <1>6, <2>2
  <2>4. ~ (last >= fee_for(C, amount, last))
    BY <1>1, <2>3 DEF send
  <2>5. fee_for(C, amount, last) \in Nat
    BY <2>2, FeeFor
  <2>. QED  BY <2>2, <2>4, <2>5
<1>10. ASSUME NEW i \in 1..ROUNDS
       PROVE  fee[i] = fee_for(C, amount, fee[i - 1]) /\ fee[i - 1] < fee[i]
  <2>1. /\ i - 1 \in 0..ROUNDS /\ ROUNDS - 1 \in i - 1..ROUNDS
        /\ i - 1 \in Nat
    BY <1>2
  <2>2. fee[i - 1] \in Nat \ {0} /\ fee_for(C, amount, fee[i - 1]) \in Nat
    BY <1>5, <2>1, FeeFor
  <2>3. fee_for(C, amount, fee[i - 1]) > fee[i - 1]
    <3>1. ASSUME fee_for(C, amount, fee[i - 1]) =< fee[i - 1] PROVE FALSE
      <4>1. last = fee[i - 1]
        BY <1>1, <2>1, <3>1, RoundsSettle
      <4>. QED  BY <1>9, <2>2, <3>1, <4>1
    <3>. QED  BY <2>2, <3>1
  <2>. QED  BY <1>1, <2>3 DEF Rounds
<1>11. \A i, j \in 0..ROUNDS : i < j => fee[i] < fee[j]
  <2> DEFINE A == {d \in Nat : \A i \in 0..ROUNDS :
                     i + (d + 1) =< ROUNDS => fee[i] < fee[i + (d + 1)]}
  <2>1. 0 \in A
    <3> SUFFICES ASSUME NEW i \in 0..ROUNDS, i + (0 + 1) =< ROUNDS
                 PROVE  fee[i] < fee[i + (0 + 1)]
      OBVIOUS
    <3>1. /\ i + (0 + 1) = i + 1 /\ i + 1 \in 1..ROUNDS /\ (i + 1) - 1 = i
      BY <1>2
    <3>. QED  BY <1>10, <3>1
  <2>2. ASSUME NEW d \in Nat, d \in A PROVE d + 1 \in A
    <3> SUFFICES ASSUME NEW i \in 0..ROUNDS, i + ((d + 1) + 1) =< ROUNDS
                 PROVE  fee[i] < fee[i + ((d + 1) + 1)]
      OBVIOUS
    <3>1. /\ i + (d + 1) =< ROUNDS /\ i + (d + 1) \in 0..ROUNDS
          /\ i + ((d + 1) + 1) \in 1..ROUNDS
          /\ (i + ((d + 1) + 1)) - 1 = i + (d + 1)
      BY <1>2
    <3>2. fee[i] < fee[i + (d + 1)]
      BY <2>2, <3>1
    <3>3. fee[i + (d + 1)] < fee[i + ((d + 1) + 1)]
      BY <1>10, <3>1
    <3>4. /\ fee[i] \in Nat /\ fee[i + (d + 1)] \in Nat
          /\ fee[i + ((d + 1) + 1)] \in Nat
      <4>1. i + ((d + 1) + 1) \in 0..ROUNDS
        BY <1>2
      <4>. QED  BY <1>5, <3>1, <4>1
    <3>. QED  BY <3>2, <3>3, <3>4
  <2> HIDE DEF A
  <2>3. \A d \in Nat : d \in A
    BY <2>1, <2>2, SetInduction
  <2> SUFFICES ASSUME NEW i \in 0..ROUNDS, NEW j \in 0..ROUNDS, i < j
               PROVE  fee[i] < fee[j]
    OBVIOUS
  <2>4. /\ j - i - 1 \in Nat /\ i + ((j - i - 1) + 1) = j /\ j =< ROUNDS
    BY <1>2
  <2>. QED  BY <2>3, <2>4 DEF A
\* More rounds than such fees: one would come twice.
<1> DEFINE V == (1..k) \X {1, 2}
           g == [i \in 1..ROUNDS |->
                   CHOOSE v \in V : fee[i] = min_fee(v[1], v[2])]
<1>12. IsFiniteSet(V) /\ Cardinality(V) = k * 2
  <2>1. IsFiniteSet(1..k) /\ Cardinality(1..k) = k
    BY <1>2, CountUpTo
  <2>2. IsFiniteSet({1, 2}) /\ Cardinality({1, 2}) = 2
    <3>1. {1, 2} = 1..2
      OBVIOUS
    <3>2. 2 \in Nat
      OBVIOUS
    <3>. QED  BY <3>1, <3>2, CountUpTo
  <2>3. ASSUME NEW A, NEW B, IsFiniteSet(A), IsFiniteSet(B)
        PROVE  /\ IsFiniteSet(A \X B)
               /\ Cardinality(A \X B) = Cardinality(A) * Cardinality(B)
    BY <2>3, FS_Product
  <2>4. /\ IsFiniteSet((1..k) \X {1, 2})
        /\ Cardinality((1..k) \X {1, 2})
             = Cardinality(1..k) * Cardinality({1, 2})
    BY <2>1, <2>2, <2>3
  <2>. QED  BY <2>1, <2>2, <2>4
<1>13. ASSUME NEW i \in 1..ROUNDS
       PROVE  g[i] \in V /\ fee[i] = min_fee(g[i][1], g[i][2])
  <2>1. i - 1 \in 0..ROUNDS
    BY <1>2
  <2>2. fee[i - 1] \in Nat \ {0} /\ amount + fee[i - 1] =< total(S)
    BY <1>5, <1>8, <2>1
  <2>3. PICK m \in 1..k, o \in {1, 2} :
          fee_for(C, amount, fee[i - 1]) = min_fee(m, o)
    BY <1>6, <2>2
  <2>4. <<m, o>> \in V /\ fee[i] = min_fee(<<m, o>>[1], <<m, o>>[2])
    BY <1>10, <2>3
  <2> HIDE DEF V
  <2>. QED  BY <2>4
<1> HIDE DEF g, V
<1>14. g \in [1..ROUNDS -> V]
  <2>1. g = [i \in 1..ROUNDS |-> g[i]]
    BY DEF g
  <2>. QED  BY <1>13, <2>1
<1>15. IsFiniteSet(1..ROUNDS) /\ Cardinality(1..ROUNDS) = ROUNDS
  BY <1>2, CountUpTo
<1>16. Cardinality(V) < Cardinality(1..ROUNDS)
  BY <1>2, <1>12, <1>15 DEF k
<1>17. PICK i \in 1..ROUNDS, j \in 1..ROUNDS : i # j /\ g[i] = g[j]
  <2> DEFINE P == 1..ROUNDS
  <2>1. /\ IsFiniteSet(P) /\ IsFiniteSet(V) /\ g \in [P -> V]
        /\ Cardinality(V) < Cardinality(P)
    BY <1>12, <1>14, <1>15, <1>16
  <2> HIDE DEF P
  <2>2. \E i, j \in P : i # j /\ g[i] = g[j]
    BY <2>1, FS_PigeonHole
  <2>. QED  BY <2>2 DEF P
<1>18. fee[i] = fee[j]
  BY <1>13, <1>17
<1>19. /\ i \in 0..ROUNDS /\ j \in 0..ROUNDS /\ (i < j \/ j < i)
  BY <1>2, <1>17
<1>20. fee[i] < fee[j] \/ fee[j] < fee[i]
  BY <1>11, <1>19
<1>21. fee[i] \in Nat /\ fee[j] \in Nat
  BY <1>5, <1>19
<1>. QED  BY <1>18, <1>20, <1>21

-----------------------------------------------------------------------------
(* Payments *)

\* The wallet begins with no more coins than there may be, and the fee may be
\* raised more than twice for each.
RoundsSuffice == Cardinality(Endowment) =< MAX_TXS /\ 2 * MAX_TXS < ROUNDS

\* What a call holds: coins, and a payment checked that is sound.
Prepared(c) ==
  /\ Purse(c.coins) /\ c.amount \in Nat /\ c.floor \in Nat
  /\ \A p \in c.checked : p.change \in Nat /\ sound(p, p.floor)

\* Each coin of the mempool is marked, for one payment, and the one payment that
\* is checked and not yet in has none of them.
Unraced ==
  /\ \A t \in pool : txs[t].ins \subseteq spent
  /\ \A t, u \in pool : t # u => txs[t].ins \cap txs[u].ins = {}
  /\ \A w \in Callers : \A p \in call[w].checked : p.ins \cap spent = {}
  /\ \A v, w \in Callers :
       call[v].checked # {} /\ call[w].checked # {} => v = w

\* What was made pays back a natural number, and is sound where this wallet made
\* it; so will be what is being made.
Paid ==
  /\ \A t \in 1..Len(txs) :
       txs[t].change \in Nat
       /\ (txs[t].by # "others" => sound(txs[t], txs[t].floor))
  /\ \A w \in Callers : Prepared(call[w])
  /\ overlapped \/ Unraced
  /\ Cardinality(Endowment) =< MAX_TXS => Len(txs) =< MAX_TXS

\* The coins of a key are a purse, of one coin for each transaction at most.
LEMMA CoinsArePurse ==
  ASSUME HistoryInv, Paid, NEW k
  PROVE  /\ Purse(CoinsOf(k)) /\ Cardinality(CoinsOf(k)) \in Nat
         /\ Cardinality(CoinsOf(k)) =< Len(txs)
<1> DEFINE n == Len(txs)
           C == CoinsOf(k)
           f == [c \in C |-> c.of]
<1>1. n \in Nat
  BY DEF HistoryInv, Made
<1>2. Confirmed(chain) \subseteq 1..n
  BY DEF HistoryInv, ChainsOK, Branch, Confirmed, Range
<1>3. ASSUME NEW c \in C
      PROVE  /\ c.of \in 1..n
             /\ c = [value |-> txs[c.of].change, of |-> c.of,
                     key |-> txs[c.of].key]
  <2>1. PICK t \in Confirmed(chain) :
          c = [value |-> txs[t].change, of |-> t, key |-> txs[t].key]
    BY DEF CoinsOf
  <2>2. c.of = t
    BY <2>1
  <2>. QED  BY <1>2, <2>1, <2>2
<1>4. ASSUME NEW c \in C PROVE c.value \in Nat
  <2>1. c.of \in 1..n /\ c.value = txs[c.of].change
    BY <1>3
  <2>. QED  BY <2>1 DEF Paid
<1> HIDE DEF C
<1>5. f \in Injection(C, 1..n)
  <2>1. f \in [C -> 1..n] /\ \A c \in C : f[c] = c.of
    BY <1>3
  <2> HIDE DEF f
  <2>2. \A c, d \in C : f[c] = f[d] => c = d
    BY <1>3, <2>1
  <2>. QED  BY <2>1, <2>2 DEF Injection, IsInjective
<1>6. IsFiniteSet(1..n) /\ Cardinality(1..n) = n
  BY <1>1, CountUpTo
<1>7. IsFiniteSet(C) /\ Cardinality(C) =< n
  <2> HIDE DEF f
  <2>. QED  BY <1>5, <1>6, FS_Injection
<1>. QED  BY <1>4, <1>7, FS_CardinalityType DEF Purse, C

\* No call holds nothing.
LEMMA NoCallIsPrepared == Prepared(NoCall)
<1>1. /\ NoCall.coins = {} /\ NoCall.amount = 0 /\ NoCall.floor = 0
      /\ NoCall.checked = {}
  BY DEF NoCall
<1>. QED  BY <1>1, FS_EmptySet DEF Prepared, Purse

\* A caller goes on: the others are where they were.
LEMMA OneCall ==
  ASSUME Ours, Paid, NEW who \in Callers, NEW c, Prepared(c),
         call' = [call EXCEPT ![who] = c]
  PROVE  /\ \A w \in Callers : Prepared(call'[w])
         /\ call'[who] = c
         /\ \A w \in Callers : w # who => call'[w] = call[w]
<1>1. call'[who] = c /\ \A w \in Callers : w # who => call'[w] = call[w]
  BY DEF Ours
<1>. QED  BY <1>1 DEF Paid

\* Where some payments leave with their marks, those that stay keep theirs.
LEMMA OthersKeepTheirMarks ==
  ASSUME Unraced, NEW T \in SUBSET pool
  PROVE  \A t \in pool \ T : txs[t].ins \subseteq spent \ InputsOf(T)
BY DEF Unraced, InputsOf

\* The wallet's coins at the start are worth something, and nothing is made.
LEMMA PaidInit == WalletInit => Paid
<1> SUFFICES ASSUME WalletInit PROVE Paid
  OBVIOUS
<1>1. /\ \A t \in 1..Len(txs) : txs[t].change \in Nat /\ txs[t].by = "others"
      /\ Cardinality(Endowment) =< MAX_TXS => Len(txs) =< MAX_TXS
  <2>1. CASE txs = <<>>
    BY <2>1, WalletAssumption DEF WalletAssumption
  <2>2. CASE LET values == SetToSeq(Endowment) IN
               txs = [i \in DOMAIN values |-> Income(First, values[i])]
    <3> DEFINE n == Cardinality(Endowment)
               values == SetToSeq(Endowment)
    <3>1. n \in Nat /\ ExistsBijection(1..n, Endowment)
      BY WalletAssumption, FS_CardinalityType DEF WalletAssumption
    <3>2. \E f \in [1..n -> Endowment] : IsInjective(f)
      BY <3>1 DEF ExistsBijection, Bijection, Injection, IsInjective
    <3>3. values \in [1..n -> Endowment]
      BY <3>2 DEF SetToSeq
    <3> HIDE DEF values
    <3>4. txs = [i \in 1..n |-> Income(First, values[i])]
      BY <2>2, <3>3 DEF values
    <3> HIDE DEF n
    <3> DEFINE S == {txs[i] : i \in 1..n}
    <3>5. txs \in Seq(S) /\ Len(txs) = n
      BY <3>1, <3>4
    <3>6. ASSUME NEW t \in 1..n
          PROVE  txs[t].change \in Nat /\ txs[t].by = "others"
      <4>1. txs[t] = Income(First, values[t]) /\ values[t] \in Nat
        BY <3>3, <3>4, WalletAssumption DEF WalletAssumption
      <4>. QED  BY <4>1 DEF Income
    <3>. QED  BY <3>5, <3>6 DEF n
  <2>. QED  BY <2>1, <2>2 DEF WalletInit
<1>2. \A w \in Callers : call[w] = NoCall
  BY DEF WalletInit
<1>3. pool = {} /\ NoCall.checked = {}
  BY DEF WalletInit, NoCall
<1>. QED  BY <1>1, <1>2, <1>3, NoCallIsPrepared DEF Paid, Unraced

\* A block may bring an income; the mempool is as it was.
LEMMA ConnectPays ==
  ASSUME HistoryInv, Ours, Paid, NewBlock \/ Reorg PROVE Paid'
<1>1. /\ Made' /\ Len(txs) \in Nat /\ Len(txs') \in Nat
      /\ \A t \in 1..Len(txs) : txs'[t] = txs[t]
      /\ UNCHANGED <<mempool, call>>
  BY ConnectOnlyAdds DEF HistoryInv
<1>2. UNCHANGED <<pool, spent, overlapped>>
  BY <1>1 DEF mempool
<1>3. pool \subseteq 1..Len(txs)
  BY DEF HistoryInv, Made, Ours
<1>4. (overlapped \/ Unraced)'
  BY <1>1, <1>2, <1>3 DEF Paid, Unraced
<1>5. PICK kept, B : Connect(kept, B)
  BY DEF NewBlock, Reorg
<1>6. CASE UNCHANGED txs
  BY <1>1, <1>4, <1>6 DEF Paid
<1>7. CASE /\ Len(txs) < MAX_TXS
           /\ \E k \in {k \in Keys : k \in known \cup {key}}, v \in Incomes :
                txs' = Append(txs, Income(k, v))
  <2>1. PICK k \in Keys, v \in Incomes : txs' = Append(txs, Income(k, v))
    BY <1>7
  <2>2. Len(txs') = Len(txs) + 1 /\ txs'[Len(txs) + 1] = Income(k, v)
    BY <2>1, OneMore DEF HistoryInv
  <2>3. v \in Nat /\ MAX_TXS \in Nat
    BY WalletAssumption DEF WalletAssumption
  <2>4. Income(k, v).change \in Nat /\ Income(k, v).by = "others"
    BY <2>3 DEF Income
  <2>5. ASSUME NEW t \in 1..Len(txs')
        PROVE  /\ txs'[t].change \in Nat
               /\ txs'[t].by # "others" => sound(txs'[t], txs'[t].floor)
    <3>1. CASE t \in 1..Len(txs)
      BY <1>1, <3>1 DEF Paid
    <3>2. CASE t = Len(txs) + 1
      BY <2>2, <2>4, <3>2
    <3>. QED  BY <1>1, <2>2, <3>1, <3>2
  <2>6. Len(txs') =< MAX_TXS
    BY <1>1, <1>7, <2>2, <2>3
  <2>. QED  BY <1>1, <1>4, <2>5, <2>6 DEF Paid
<1>. QED  BY <1>5, <1>6, <1>7 DEF Connect

\* A payment is begun: the coins are those of a key.
LEMMA BeginPays ==
  ASSUME HistoryInv, Ours, Paid, NEW who \in Callers, Begin(who) PROVE Paid'
<1>1. UNCHANGED <<txs, pool, spent, overlapped>>
  BY DEF Begin, node, mempool
<1>2. PICK amount \in Amounts,
           floor \in IF who = "window" THEN Floors ELSE {RPC_FLOOR} :
        call' = [call EXCEPT ![who] = [coins |-> CoinsOf(key), key |-> key,
                                       amount |-> amount, floor |-> floor,
                                       checked |-> {}]]
  BY DEF Begin
<1> DEFINE c == [coins |-> CoinsOf(key), key |-> key, amount |-> amount,
                 floor |-> floor, checked |-> {}]
<1>3. amount \in Nat /\ floor \in Nat
  BY WalletAssumption DEF WalletAssumption
<1>4. Purse(CoinsOf(key))
  BY CoinsArePurse
<1>5. Prepared(c) /\ c.checked = {}
  BY <1>3, <1>4 DEF Prepared
<1> HIDE DEF c
<1>6. call' = [call EXCEPT ![who] = c]
  BY <1>2 DEF c
<1>7. /\ \A w \in Callers : Prepared(call'[w])
      /\ \A w \in Callers : call'[w].checked \in {call[w].checked, {}}
  BY <1>5, <1>6, OneCall
<1>8. (overlapped \/ Unraced)'
  BY <1>1, <1>7 DEF Paid, Unraced
<1>. QED  BY <1>1, <1>7, <1>8 DEF Paid

\* A payment is refused, or found good: it is sound, and its coins are unmarked.
LEMMA CheckPays ==
  ASSUME HistoryInv, Ours, Paid, NEW who \in Callers, Check(who) PROVE Paid'
<1> DEFINE c == call[who]
           as(p) == [ins |-> p.ins, amount |-> p.amount, fee |-> p.fee,
                     change |-> p.change, key |-> c.key, floor |-> c.floor,
                     by |-> who]
<1>1. UNCHANGED <<txs, pool, spent>>
  BY DEF Check
<1>2. CASE call' = [call EXCEPT ![who] = NoCall] /\ UNCHANGED overlapped
  <2>1. /\ \A w \in Callers : Prepared(call'[w])
        /\ \A w \in Callers : call'[w] \in {call[w], NoCall}
    BY <1>2, OneCall, NoCallIsPrepared
  <2>2. \A w \in Callers : call'[w].checked \in {call[w].checked, {}}
    BY <2>1 DEF NoCall
  <2>3. (overlapped \/ Unraced)'
    BY <1>1, <1>2, <2>2 DEF Paid, Unraced
  <2>. QED  BY <1>1, <2>1, <2>3 DEF Paid
<1>3. CASE \E p \in send(c.coins, c.amount, c.floor) :
             /\ accepted(as(p), key)
             /\ call' = [call EXCEPT ![who].checked = {as(p)}]
             /\ overlapped' = (\/ overlapped
                               \/ \E w \in Callers : call[w].checked # {})
  <2>1. PICK p \in send(c.coins, c.amount, c.floor) :
          /\ accepted(as(p), key)
          /\ call' = [call EXCEPT ![who].checked = {as(p)}]
    BY <1>3
  <2>2. Purse(c.coins) /\ c.amount \in Nat /\ c.floor \in Nat
    BY DEF Paid, Prepared
  <2>3. p.change \in Nat /\ sound(p, c.floor)
    <3> HIDE DEF c
    <3>. QED  BY <2>1, <2>2, SendIsSound
  <2>4. /\ as(p).ins = p.ins /\ as(p).amount = p.amount /\ as(p).fee = p.fee
        /\ as(p).change = p.change /\ as(p).floor = c.floor
    OBVIOUS
  <2> HIDE DEF as, c
  <2>5. as(p).change \in Nat /\ sound(as(p), as(p).floor)
    BY <2>3, <2>4 DEF sound, outputs
  <2>6. as(p).ins \cap spent = {}
    BY <2>1 DEF accepted
  <2> DEFINE d == [call[who] EXCEPT !.checked = {as(p)}]
  <2>7. call' = [call EXCEPT ![who] = d]
    BY <2>1
  <2>8. ASSUME NEW w \in Callers
        PROVE  /\ w # who => call'[w] = call[w]
               /\ Prepared(call'[w])
               /\ w = who => call'[w].checked \in {{as(p)}, call[w].checked}
    <3>1. CASE w # who
      BY <2>7, <3>1 DEF Paid, Ours
    <3>2. CASE w = who
      <4>1. call'[w] = d
        BY <2>7, <3>2 DEF Ours
      <4>2. /\ d.coins = c.coins /\ d.amount = c.amount /\ d.floor = c.floor
            /\ d.checked \in {{as(p)}, call[w].checked}
        BY <3>2 DEF c
      <4> HIDE DEF d
      <4>3. \A q \in d.checked : q.change \in Nat /\ sound(q, q.floor)
        BY <2>5, <3>2, <4>2 DEF Paid, Prepared
      <4>. QED  BY <2>2, <3>2, <4>1, <4>2, <4>3 DEF Prepared
    <3>. QED  BY <3>1, <3>2
  <2> HIDE DEF d
  <2>9. ASSUME ~ overlapped' PROVE Unraced'
    <3>1. Unraced /\ \A w \in Callers : call[w].checked = {}
      BY <1>3, <2>9 DEF Paid
    <3>2. \A w \in Callers : w # who => call'[w].checked = {}
      BY <2>8, <3>1
    <3>3. \A w \in Callers : \A q \in call'[w].checked : q.ins \cap spent = {}
      BY <2>6, <2>8, <3>1
    <3>. QED  BY <1>1, <3>1, <3>2, <3>3 DEF Unraced
  <2>. QED  BY <1>1, <2>8, <2>9 DEF Paid
<1>. QED  BY <1>2, <1>3 DEF Check

\* A payment enters, and another may give way to it; where no two calls raced,
\* none of its coins has been marked since it was checked.
LEMMA AdmitPays ==
  ASSUME HistoryInv, Ours, Paid, NEW who \in Callers, Admit(who) PROVE Paid'
<1> DEFINE id == Len(txs) + 1
<1>1. /\ Len(txs) \in Nat /\ pool \subseteq 1..Len(txs) /\ MAX_TXS \in Nat
  BY WalletAssumption DEF WalletAssumption, HistoryInv, Made, Ours
<1>2. /\ \A w \in Callers : Prepared(call'[w])
      /\ call'[who] = NoCall
      /\ \A w \in Callers : w # who => call'[w] = call[w]
  BY OneCall, NoCallIsPrepared DEF Admit
<1>3. NoCall.checked = {} /\ UNCHANGED overlapped
  BY DEF NoCall, Admit
<1>4. \A w \in Callers : call'[w].checked \in {call[w].checked, {}}
  BY <1>2, <1>3
<1>5. CASE UNCHANGED <<txs, pool, spent>>
  <2>1. (overlapped \/ Unraced)'
    BY <1>3, <1>4, <1>5 DEF Paid, Unraced
  <2>. QED  BY <1>2, <1>5, <2>1 DEF Paid
<1>6. CASE \E p \in call[who].checked :
           \E worst \in {{}} \cup {{t} : t \in pool} :
             /\ id =< MAX_TXS
             /\ txs' = Append(txs, p)
             /\ pool' = (pool \ worst) \cup {id}
             /\ spent' = (spent \ InputsOf(worst)) \cup p.ins
  <2>1. PICK p \in call[who].checked :
             \E worst \in {{}} \cup {{t} : t \in pool} :
               /\ id =< MAX_TXS
               /\ txs' = Append(txs, p)
               /\ pool' = (pool \ worst) \cup {id}
               /\ spent' = (spent \ InputsOf(worst)) \cup p.ins
    BY <1>6
  <2>2. PICK worst \in SUBSET pool :
               /\ id =< MAX_TXS
               /\ txs' = Append(txs, p)
               /\ pool' = (pool \ worst) \cup {id}
               /\ spent' = (spent \ InputsOf(worst)) \cup p.ins
    BY <2>1
  <2>3. p.change \in Nat /\ sound(p, p.floor)
    BY DEF Paid, Prepared
  <2>4. /\ Len(txs') = id /\ txs'[id] = p
        /\ \A t \in 1..Len(txs) : txs'[t] = txs[t]
    BY <2>2, OneMore DEF HistoryInv
  <2>5. ASSUME NEW t \in 1..Len(txs')
        PROVE  /\ txs'[t].change \in Nat
               /\ txs'[t].by # "others" => sound(txs'[t], txs'[t].floor)
    <3>1. CASE t \in 1..Len(txs)
      BY <2>4, <3>1 DEF Paid
    <3>2. CASE t = id
      BY <2>3, <2>4, <3>2
    <3>. QED  BY <1>1, <2>4, <3>1, <3>2
  <2>6. ASSUME Unraced PROVE Unraced'
    <3>1. \A t \in pool \ worst : /\ t \in 1..Len(txs) /\ t # id
                                 /\ txs'[t].ins = txs[t].ins
      BY <1>1, <2>4
    <3>2. \A t \in pool \ worst : txs[t].ins \subseteq spent \ InputsOf(worst)
      BY <2>6, OthersKeepTheirMarks
    <3>3. p.ins \cap spent = {}
      BY <2>6 DEF Unraced
    <3>4. \A t \in pool' : txs'[t].ins \subseteq spent'
      BY <2>2, <2>4, <3>1, <3>2
    <3>5. \A t \in pool \ worst : txs'[t].ins \cap txs'[id].ins = {}
      BY <2>4, <3>1, <3>2, <3>3
    <3>6. ASSUME NEW t \in pool', NEW u \in pool', t # u
          PROVE  txs'[t].ins \cap txs'[u].ins = {}
      <4>1. CASE t \in pool \ worst /\ u \in pool \ worst
        BY <2>6, <3>1, <3>6, <4>1 DEF Unraced
      <4>2. CASE t = id \/ u = id
        BY <2>2, <3>5, <3>6, <4>2
      <4>. QED  BY <2>2, <4>1, <4>2
    <3>7. \A w \in Callers : call'[w].checked = {}
      BY <1>2, <1>3, <2>1, <2>6 DEF Unraced
    <3>. QED  BY <3>4, <3>6, <3>7 DEF Unraced
  <2>7. (overlapped \/ Unraced)'
    BY <1>3, <2>6 DEF Paid
  <2>8. Len(txs') =< MAX_TXS
    BY <2>2, <2>4
  <2>. QED  BY <1>2, <2>5, <2>7, <2>8 DEF Paid
<1>. QED  BY <1>5, <1>6 DEF Admit

\* Payments leave, and their marks with them.
LEMMA LeavePays == ASSUME Paid, remove_txs PROVE Paid'
<1>1. UNCHANGED <<txs, call, overlapped>>
  BY DEF remove_txs
<1>2. PICK T : /\ T \in {{t} : t \in pool} \cup {pool \cap B : B \in Range(chain)}
               /\ pool' = pool \ T /\ spent' = spent \ InputsOf(T)
  BY DEF remove_txs
<1>3. T \in SUBSET pool
  BY <1>2
<1>4. ASSUME Unraced PROVE Unraced'
  <2>1. \A t \in pool' : txs[t].ins \subseteq spent'
    BY <1>2, <1>3, <1>4, OthersKeepTheirMarks
  <2>2. pool' \subseteq pool /\ spent' \subseteq spent
    BY <1>2
  <2>3. \A w \in Callers : \A p \in call[w].checked : p.ins \cap spent' = {}
    BY <1>4, <2>2 DEF Unraced
  <2>. QED  BY <1>1, <1>4, <2>1, <2>2, <2>3 DEF Unraced
<1>. QED  BY <1>1, <1>4 DEF Paid

\* One case for each step that makes a payment, or ends one.
LEMMA PaidStep ==
  HistoryInv /\ Ours /\ Paid /\ [WalletNext]_vars => Paid'
<1> SUFFICES ASSUME HistoryInv, Ours, Paid, [WalletNext]_vars PROVE Paid'
  OBVIOUS
<1>1. CASE UNCHANGED <<txs, mempool, call>>
  BY <1>1 DEF Paid, Unraced, mempool
<1>2. CASE Die
  <2>1. call' = [w \in Callers |-> NoCall] /\ pool' = {} /\ UNCHANGED txs
    BY <1>2 DEF Die
  <2>2. \A w \in Callers : call'[w] = NoCall
    BY <2>1
  <2>3. NoCall.checked = {}
    BY DEF NoCall
  <2>4. Unraced'
    BY <2>1, <2>2, <2>3 DEF Unraced
  <2>. QED  BY <2>1, <2>2, <2>4, NoCallIsPrepared DEF Paid
<1>3. CASE NewBlock \/ Reorg
  BY <1>3, ConnectPays
<1>4. CASE execute_send \/ rpc_send
  <2>1. PICK who \in Callers : Begin(who) \/ Check(who) \/ Admit(who)
    BY <1>4 DEF execute_send, rpc_send, Callers
  <2>. QED  BY <2>1, BeginPays, CheckPays, AdmitPays
<1>5. CASE remove_txs
  BY <1>5, LeavePays
<1>6. CASE \/ Load \/ FirstKey \/ KeyWritten \/ Serve \/ Open
           \/ SetPassword \/ Acknowledge \/ Poll \/ UNCHANGED vars
  BY <1>1, <1>6 DEF Load, FirstKey, KeyWritten, Serve, Open, SetPassword,
     Acknowledge, Poll, node, vars
<1>7. CASE \/ CreateNew \/ Restore \/ Stored \/ TakeUp \/ ForgetHistory
           \/ ForgetPassword \/ PublishIndex \/ Flush
  BY <1>1, <1>7 DEF CreateNew, Restore, empty, Stored, TakeUp, ForgetHistory,
     ForgetPassword, PublishIndex, Flush, node
<1>. QED  BY <1>2, <1>3, <1>4, <1>5, <1>6, <1>7 DEF WalletNext

\* What send makes is sound, and unless two calls of accept were between check and
\* insertion at once, no two payments in the mempool share a coin, whatever the
\* rounds and however many coins there are.
PaymentsBalance ==
  /\ \A t \in DOMAIN txs : txs[t].by # "others" => sound(txs[t], txs[t].floor)
  /\ overlapped \/ \A t, u \in pool : t # u => txs[t].ins \cap txs[u].ins = {}

\* A payment loses nothing between its inputs and its outputs, and pays a fee the
\* mempool takes and no more than asked for or needed; and it shares no coin with
\* another one in the mempool, unless two calls of accept overlapped there: for
\* every set of coins, fees, rounds and callers.
THEOREM PaymentsStayBalanced == WalletSpec => []PaymentsBalance
<1>1. HistoryInv /\ Paid => PaymentsBalance
  BY DEF HistoryInv, Made, Paid, Unraced, PaymentsBalance
<1>. QED
  BY <1>1, SeedInit, SeedStep, HistoryInit, HistoryStep, TypeInit, OursStep,
     PaidInit, PaidStep, PTL DEF WalletSpec

\* Where the fee may be raised more than twice for each coin, send also finds a
\* payment whenever the coins of the key in use can pay.
THEOREM PaymentsStaySound ==
  RoundsSuffice => (WalletSpec => []PaymentsAreSound)
<1> SUFFICES ASSUME RoundsSuffice PROVE WalletSpec => []PaymentsAreSound
  OBVIOUS
<1>1. HistoryInv /\ Paid => PaymentsAreSound
  <2> SUFFICES ASSUME HistoryInv, Paid PROVE PaymentsAreSound
    OBVIOUS
  <2>1. PaymentsBalance
    BY DEF HistoryInv, Made, Paid, Unraced, PaymentsBalance
  <2>2. ASSUME NEW a \in Amounts, NEW f \in Floors
        PROVE  complete(CoinsOf(key), a, f)
    <3>1. a \in Nat /\ f \in Nat /\ MAX_TXS \in Nat /\ ROUNDS \in Nat
      BY WalletAssumption, SendAssumption DEF WalletAssumption, SendAssumption
    <3>2. /\ Purse(CoinsOf(key)) /\ Cardinality(CoinsOf(key)) \in Nat
          /\ Cardinality(CoinsOf(key)) =< Len(txs)
      BY CoinsArePurse
    <3>3. Len(txs) \in Nat /\ Len(txs) =< MAX_TXS /\ 2 * MAX_TXS < ROUNDS
      BY DEF HistoryInv, Made, Paid, RoundsSuffice
    <3>4. 2 * Cardinality(CoinsOf(key)) < ROUNDS
      BY <3>1, <3>2, <3>3
    <3>. QED  BY <3>1, <3>2, <3>4, SendIsComplete
  <2>. QED  BY <2>1, <2>2 DEF PaymentsBalance, PaymentsAreSound
<1>. QED
  BY <1>1, SeedInit, SeedStep, HistoryInit, HistoryStep, TypeInit, OursStep,
     PaidInit, PaidStep, PTL DEF WalletSpec
=============================================================================
