----------------------------- MODULE WalletApp -----------------------------
(***************************************************************************)
(* The wallet behind the window: its key, its password, the history it     *)
(* shows and the payments it makes, beside the RPC server that pays with   *)
(* the same key and the node that connects blocks (wallet/mod.rs,          *)
(* gui/mod.rs, gui_main.rs, rpc/mod.rs).                                   *)
(*                                                                         *)
(* The window is one thread: its handlers do not interleave, but each may  *)
(* be cut short by the end of the process.  The threads of the RPC server  *)
(* run beside it, and a payment of either looks at the coins, is signed    *)
(* and checked, and enters the mempool one after the other.  A transaction *)
(* is what it spends and what it pays back to one key of this wallet; a    *)
(* block is a set of them.                                                 *)
(***************************************************************************)
EXTENDS WalletSend, Sequences, SequencesExt

CONSTANTS
  Keys, First,                  \* keys; the one of a wallet already in use
  Endowment,                    \* coins that wallet starts with, by value
  Incomes, Amounts, Floors,     \* values paid to a key; amounts and fees typed
  RPC_FLOOR,                    \* the fee the RPC server asks for
  Rpc,                          \* the threads of the RPC server
  BATCH,                        \* blocks a look at the chain takes at most
  MAX_BLOCKS, MAX_TXS, MAX_STARTS, MAX_REORGS, MAX_KEYS     \* bounds

ASSUME WalletAssumption ==
  /\ First \in Keys /\ IsFiniteSet(Keys) /\ {"absent", "empty"} \cap Keys = {}
  /\ {"window", "others"} \cap Rpc = {}
  /\ UNION {Incomes, Amounts, Floors} \subseteq Nat /\ RPC_FLOOR \in Nat
  /\ Endowment \subseteq Nat \ {0} /\ IsFiniteSet(Endowment) /\ BATCH \in Nat
  /\ {MAX_BLOCKS, MAX_TXS, MAX_STARTS, MAX_REORGS, MAX_KEYS} \subseteq Nat

VARIABLES
  file,      \* on disk: the key file, whether a password file is, the history
  app,       \* where the process is
  next,      \* the key being stored
  key, pass, acked,             \* key in use, password set, phrase confirmed
  hist, cursor,                 \* the history, and the last block it has seen
  call,                         \* the payments being built
  txs,                          \* every transaction, in the order of making
  chain, index,                 \* the blocks, and those block_at finds
  disk,                         \* the blocks a restart finds
  pool, spent,                  \* the mempool: payments, and coins marked spent
  known, cut, moved, overlapped,       \* kept for the properties
  starts, reorgs                       \* kept for the bounds

window == <<app, next, key, pass, acked, hist, cursor>>
mempool == <<pool, spent, overlapped>>
blocks == <<chain, index, disk, moved, reorgs>>
node   == <<txs, mempool, blocks>>
seen   == <<known, cut, starts>>
vars   == <<file, window, call, node, seen>>

Callers == {"window"} \cup Rpc

Txs   == 1..MAX_TXS
NoKey == [absent |-> "absent", empty |-> "empty"]
NoCall ==
  [coins |-> {}, key |-> NoKey.absent, amount |-> 0, floor |-> 0, checked |-> {}]
NoHistory == [sent |-> {}, got |-> [t \in Txs |-> 0]]
Confirmed(branch) == UNION Range(branch)
InputsOf(set) == UNION {txs[t].ins : t \in set}

\* The unspent outputs of a key: all may be spent, the maturity is 0.
CoinsOf(k) ==
  LET done == Confirmed(chain)
  IN  {c \in {[value |-> txs[t].change, of |-> t, key |-> txs[t].key] :
                t \in {u \in done : txs[u].change > 0}} :
         c.key = k /\ c \notin InputsOf(done)}

Income(k, value) ==
  [ins |-> {}, amount |-> 0, fee |-> 0, change |-> value, key |-> k,
   floor |-> 0, by |-> "others"]

goto(place) == app' = place
FreshKeys == {k \in Keys : k \notin known \cup cut \cup {key, file.key}
                         /\ \A i \in DOMAIN txs : txs[i].key # k}

----------------------------------------------------------------------------
(* Starting and ending the process.                                        *)

Load ==
  /\ app = "down" /\ file.key \in Keys /\ starts < MAX_STARTS
  /\ key' = file.key /\ starts' = starts + 1 /\ goto("loaded")
  /\ UNCHANGED <<file, next, pass, acked, hist, cursor, call, node, known, cut>>

\* No file: a new key is made and stored; opening the file empties it.
FirstKey ==
  /\ app = "down" /\ file.key = NoKey.absent /\ starts < MAX_STARTS
  /\ \E k \in FreshKeys : next' = k
  /\ file' = [file EXCEPT !.key = NoKey.empty]
  /\ starts' = starts + 1 /\ goto("creating")
  /\ UNCHANGED <<key, pass, acked, hist, cursor, call, node, known, cut>>

KeyWritten ==
  /\ app = "creating"
  /\ file' = [file EXCEPT !.key = next] /\ key' = next /\ goto("loaded")
  /\ UNCHANGED <<next, pass, acked, hist, cursor, call, node, seen>>

\* The RPC server answers, and for up to ten seconds the chain catches up.
Serve ==
  /\ app = "loaded" /\ goto("serving")
  /\ UNCHANGED <<file, next, key, pass, acked, hist, cursor, call, node, seen>>

\* The window opens: a wallet with a password counts as one whose phrase was
\* confirmed, and blocks up to the present height as seen.
Open ==
  /\ app = "serving"
  /\ pass' = file.pass /\ acked' = file.pass
  /\ hist' = file.hist /\ cursor' = Len(chain) /\ goto("up")
  /\ UNCHANGED <<file, next, key, call, node, seen>>

\* The process ends wherever it is.  The mempool was in its memory, and so were
\* blocks not yet on disk: the next start may find a lower tip.  (Coins on disk
\* that are a block ahead of the tip there are a matter of ChainStore.)
Die ==
  /\ app # "down" /\ goto("down")
  /\ cut' = cut \cup ({file.key} \cap (Keys \ known))
  /\ key' = NoKey.absent /\ next' = NoKey.absent
  /\ pass' = FALSE /\ acked' = FALSE /\ hist' = NoHistory /\ cursor' = 0
  /\ call' = [w \in Callers |-> NoCall]
  /\ pool' = {} /\ spent' = {} /\ overlapped' = FALSE
  /\ chain' = disk /\ index' = disk
  /\ moved' = moved \cup (Confirmed(chain) \ Confirmed(disk))
  /\ UNCHANGED <<file, txs, disk, reorgs, known, starts>>

----------------------------------------------------------------------------
(* The window's handlers.                                                  *)

Idle == app = "up" /\ call["window"] = NoCall

SetPassword ==
  /\ Idle /\ ~pass
  /\ pass' = TRUE /\ file' = [file EXCEPT !.pass = TRUE]
  /\ UNCHANGED <<app, next, key, acked, hist, cursor, call, node, seen>>

Acknowledge ==
  /\ Idle /\ pass /\ ~acked
  /\ acked' = TRUE /\ known' = known \cup {key}
  /\ UNCHANGED <<file, app, next, key, pass, hist, cursor, call, node, cut,
                 starts>>

Ready == Idle /\ pass /\ acked

\* Mutant of listed: change is taken for income.
listed_all(h, heights) ==
  LET income(t) == {i \in heights : t \in index[i] /\ txs[t].key = key
                                      /\ txs[t].change > 0}
  IN  [h EXCEPT !.got = [t \in Txs |-> h.got[t] + Cardinality(income(t))]]

\* What the blocks at these heights add to the history: what they pay to the
\* key in use, unless the history has it as sent.
listed(h, heights) ==
  LET income(t) == {i \in heights : t \in index[i] \ h.sent
                                      /\ txs[t].key = key /\ txs[t].change > 0}
  IN  [h EXCEPT !.got = [t \in Txs |-> h.got[t] + Cardinality(income(t))]]

\* A height the index does not have yet is passed over for good.
Poll ==
  /\ Ready /\ Len(chain) > cursor
  /\ LET last == IF Len(chain) < cursor + 1 + BATCH THEN Len(chain)
                 ELSE cursor + 1 + BATCH
         found == IF Len(index) < last THEN Len(index) ELSE last
     IN  /\ hist' = listed(hist, cursor + 1 .. found)
         /\ cursor' = last
  /\ file' = [file EXCEPT !.hist = hist']
  /\ UNCHANGED <<app, next, key, pass, acked, call, node, seen>>

\* The key file is opened for the next key, and emptied by it.
empty(k) ==
  /\ next' = k /\ file' = [file EXCEPT !.key = NoKey.empty] /\ goto("emptied")
  /\ UNCHANGED <<key, pass, acked, hist, cursor, call, node, cut, starts>>

CreateNew ==
  /\ Ready /\ Cardinality(known) < MAX_KEYS
  /\ UNCHANGED known /\ \E k \in FreshKeys : empty(k)

\* The key of a phrase that is typed in; no password is asked for.
Restore ==
  /\ Ready /\ Cardinality(known) < MAX_KEYS
  /\ \E k \in Keys : empty(k) /\ known' = known \cup {k}

Stored ==
  /\ app = "emptied"
  /\ file' = [file EXCEPT !.key = next] /\ goto("stored")
  /\ UNCHANGED <<next, key, pass, acked, hist, cursor, call, node, seen>>

TakeUp ==
  /\ app = "stored" /\ key' = next /\ goto("renewed")
  /\ UNCHANGED <<file, next, pass, acked, hist, cursor, call, node, seen>>

ForgetHistory ==
  /\ app = "renewed" /\ goto("forgetting")
  /\ hist' = NoHistory /\ cursor' = 0
  /\ file' = [file EXCEPT !.hist = NoHistory]
  /\ UNCHANGED <<next, key, pass, acked, call, node, seen>>

\* Mutant of ForgetPassword: the phrase of the new key counts as confirmed.
ForgetPasswordOnly ==
  /\ app = "forgetting" /\ goto("up")
  /\ pass' = FALSE /\ next' = NoKey.absent
  /\ file' = [file EXCEPT !.pass = FALSE]
  /\ UNCHANGED <<key, acked, hist, cursor, call, node, seen>>

\* Mutant of ForgetPassword: the file of the old password stays.
KeepPasswordFile ==
  /\ app = "forgetting" /\ goto("up") /\ next' = NoKey.absent
  /\ pass' = FALSE /\ acked' = FALSE
  /\ UNCHANGED <<file, key, hist, cursor, call, node, seen>>

ForgetPassword ==
  /\ app = "forgetting" /\ goto("up") /\ next' = NoKey.absent
  /\ pass' = FALSE /\ acked' = FALSE /\ file' = [file EXCEPT !.pass = FALSE]
  /\ UNCHANGED <<key, hist, cursor, call, node, seen>>

----------------------------------------------------------------------------
(* Payments, from the window and over RPC.                                 *)

\* The coins are read, for the key in use at that moment.
Begin(who) ==
  /\ IF who = "window" THEN Ready ELSE app \notin {"down", "creating", "loaded"}
  /\ call[who] = NoCall /\ Len(txs) < MAX_TXS
  /\ \E amount \in Amounts,
        floor \in IF who = "window" THEN Floors ELSE {RPC_FLOOR} :
       call' = [call EXCEPT ![who] = [coins |-> CoinsOf(key), key |-> key,
                                      amount |-> amount, floor |-> floor,
                                      checked |-> {}]]
  /\ UNCHANGED <<file, window, node, seen>>

\* What accept asks of a payment: it is signed by the owner of its coins, which
\* are unspent and not marked, and its fee is enough.
accepted(p, signer) ==
  /\ signer = p.key /\ p.ins \subseteq CoinsOf(p.key)
  /\ p.ins \cap spent = {}
  /\ p.fee >= min_fee(Cardinality(p.ins), outputs(p))

\* It is signed with the key in use now, and accept checks it; the locks it read
\* the marks and the coins under are given back.
Check(who) ==
  /\ call[who] # NoCall /\ call[who].checked = {}
  /\ LET c == call[who]
         made == {[ins |-> p.ins, amount |-> p.amount, fee |-> p.fee,
                   change |-> p.change, key |-> c.key, floor |-> c.floor,
                   by |-> who] :
                    p \in send(c.coins, c.amount, c.floor)}
     IN  \/ /\ made = {} \/ \E p \in made : ~ accepted(p, key)
            /\ call' = [call EXCEPT ![who] = NoCall]
            /\ UNCHANGED overlapped
         \/ \E p \in made :
              /\ accepted(p, key)
              /\ call' = [call EXCEPT ![who].checked = {p}]
              /\ overlapped' = (\/ overlapped
                                \/ \E w \in Callers : call[w].checked # {})
  /\ UNCHANGED <<file, window, txs, pool, spent, blocks, seen>>

\* accept goes on to put it in, or refuses it where the mempool is full of better
\* ones; a full mempool gives up its worst.  Only the window's form writes it down,
\* and that is saved with the next block it sees.  (The window's console pays like
\* the RPC server.)
Admit(who) ==
  /\ call[who].checked # {}
  /\ call' = [call EXCEPT ![who] = NoCall]
  /\ \/ UNCHANGED <<txs, pool, spent, hist>>
     \/ LET id == Len(txs) + 1 IN
        \E p \in call[who].checked, worst \in {{}} \cup {{t} : t \in pool} :
          /\ id =< MAX_TXS
          /\ txs' = Append(txs, p)
          /\ pool' = (pool \ worst) \cup {id}
          /\ spent' = (spent \ InputsOf(worst)) \cup p.ins
          /\ hist' = IF who = "window" THEN [hist EXCEPT !.sent = @ \cup {id}]
                     ELSE hist
  /\ UNCHANGED <<file, app, next, key, pass, acked, cursor, overlapped, blocks,
                 seen>>

execute_send == Begin("window") \/ Check("window") \/ Admit("window")

rpc_send == \E r \in Rpc : Begin(r) \/ Check(r) \/ Admit(r)

\* Payments leave the mempool: those of a block this node mined, some time after
\* it is the tip, or one that gives way to a better one of somebody else; their
\* marks go with them.
remove_txs ==
  /\ \E T \in {{t} : t \in pool} \cup {pool \cap B : B \in Range(chain)} :
       /\ T # {}
       /\ pool' = pool \ T /\ spent' = spent \ InputsOf(T)
  /\ UNCHANGED <<file, window, call, txs, overlapped, blocks, seen>>

----------------------------------------------------------------------------
(* The node: its chain moves on its own, and the index a little later.     *)

\* What was once made is known to other nodes, whatever this one has of it.
Blocks(done) ==
  {B \in SUBSET (DOMAIN txs \ done) :
     /\ \A t \in B : \A c \in txs[t].ins : c.of \in done /\ c \notin InputsOf(done)
     /\ \A t, u \in B : t # u => txs[t].ins \cap txs[u].ins = {}}

Connect(kept, B) ==
  \/ chain' = Append(kept, B) /\ UNCHANGED txs
  \/ /\ Len(txs) < MAX_TXS
     /\ \E k \in {k \in Keys : k \in known \cup {key}}, v \in Incomes :
          txs' = Append(txs, Income(k, v))
     /\ chain' = Append(kept, B \cup {Len(txs) + 1})

NewBlock ==
  /\ index = chain /\ Len(chain) < MAX_BLOCKS
  /\ \E B \in Blocks(Confirmed(chain)) : Connect(chain, B)
  /\ UNCHANGED <<file, window, call, mempool, index, disk, moved, reorgs, seen>>

\* A heavier branch replaces the last block by two.
Reorg ==
  /\ index = chain /\ Len(chain) \in 1..MAX_BLOCKS - 1 /\ reorgs < MAX_REORGS
  /\ reorgs' = reorgs + 1 /\ moved' = moved \cup Last(chain)
  /\ \E B \in Blocks(Confirmed(Front(chain))) :
       Connect(Append(Front(chain), {}), B)
  /\ UNCHANGED <<file, window, call, mempool, index, disk, seen>>

PublishIndex ==
  /\ index # chain /\ index' = chain
  /\ UNCHANGED <<file, window, call, txs, mempool, chain, disk, moved, reorgs,
                 seen>>

\* What persist_meta wrote reaches the disk, which nothing waits for.
Flush ==
  /\ index = chain /\ disk # chain /\ disk' = chain
  /\ UNCHANGED <<file, window, call, txs, mempool, chain, index, moved, reorgs,
                 seen>>

----------------------------------------------------------------------------
\* No wallet yet, or one in use that has coins.
WalletInit ==
  /\ \/ /\ file = [key |-> NoKey.absent, pass |-> FALSE, hist |-> NoHistory]
        /\ txs = <<>> /\ known = {} /\ chain = <<{}>>
     \/ /\ file = [key |-> First, pass |-> TRUE, hist |-> NoHistory]
        /\ LET values == SetToSeq(Endowment) IN
             txs = [i \in DOMAIN values |-> Income(First, values[i])]
        /\ known = {First} /\ chain = <<DOMAIN txs>>
  /\ app = "down" /\ next = NoKey.absent /\ key = NoKey.absent
  /\ pass = FALSE /\ acked = FALSE /\ hist = NoHistory /\ cursor = 0
  /\ call = [w \in Callers |-> NoCall]
  /\ index = chain /\ disk = chain
  /\ pool = {} /\ spent = {} /\ overlapped = FALSE
  /\ cut = {} /\ moved = {} /\ starts = 0 /\ reorgs = 0

WalletNext ==
  \/ Load \/ FirstKey \/ KeyWritten \/ Serve \/ Open \/ Die
  \/ SetPassword \/ Acknowledge \/ Poll
  \/ CreateNew \/ Restore \/ Stored \/ TakeUp \/ ForgetHistory \/ ForgetPassword
  \/ execute_send \/ rpc_send \/ remove_txs
  \/ NewBlock \/ Reorg \/ PublishIndex \/ Flush

WalletSpec == WalletInit /\ [][WalletNext]_vars

----------------------------------------------------------------------------
(* Properties.                                                             *)

\* A password in memory is one on disk, a history saved is one of made
\* transactions, the file is without a key only while one is being stored or
\* after the process ended there, and a restart finds no more than there was.
WalletTypeOK ==
  /\ file.key \in Keys \cup {NoKey.absent, NoKey.empty}
  /\ app \in {"up", "renewed"} => file.key = key /\ file.pass = pass
  /\ app \in {"loaded", "serving", "up"} => file.key # NoKey.empty
  /\ \A h \in {hist, file.hist} : \A t \in Txs :
       t \in h.sent \/ h.got[t] > 0 => t \in DOMAIN txs
  /\ hist.got \in [Txs -> Nat]
  /\ cursor =< Len(chain) /\ Len(disk) =< Len(chain)
  /\ pool \subseteq {t \in DOMAIN txs : txs[t].by # "others"}

\* The window lets nobody in to a key whose recovery phrase was not confirmed,
\* unless the process ended between storing the key and the confirmation
\* (gui/mod.rs:220 takes the password file for the confirmation).
SeedIsShown == Ready => key \in known \cup cut

\* Change is not shown as income while the payment is shown as sent, and no
\* income is shown twice, except one that once left the chain: by a reorg, or
\* with a block that was not on disk when the process ended (gui/mod.rs:296, the
\* scan; gui/mod.rs:198, the cursor it starts from).
IncomeIsIncome ==
  \A t \in Txs :
    /\ t \in hist.sent => hist.got[t] = 0
    /\ hist.got[t] > 1 => t \in moved

\* What send makes is sound; unless two calls of accept were between their checks
\* and their insertion at once, no two payments in the mempool share a coin,
\* whatever blocks, evictions and changes of the key came between; and when the
\* coins of the key in use can pay, send finds a payment (wallet/mod.rs:120, the
\* rounds that raise the fee).
PaymentsAreSound ==
  /\ \A t \in DOMAIN txs : txs[t].by # "others" => sound(txs[t], txs[t].floor)
  /\ overlapped \/ \A t, u \in pool : t # u => txs[t].ins \cap txs[u].ins = {}
  /\ \A a \in Amounts, f \in Floors : complete(CoinsOf(key), a, f)
=============================================================================
