# ThoCoin in TLA+

A verification project for the ThoCoin node (`src/`): TLA+ modules that model
the program, TLC configurations that check them on small instances, and proofs
checked by TLAPS. Paths below are relative to `src/src/`.

## The system

ThoCoin is a proof-of-work currency: a node with an HTTP RPC (`thocoind`) and a
desktop program (`thocoin-gui`) that is a node, a wallet, a CPU or GPU miner, a
pool server and a pool client in one process.

| component | state | operations | used by |
|---|---|---|---|
| ledger rules (`core/chain.rs`, `core/consensus.rs`, `core/tx.rs`) | none | `validate_txs`, `apply_txs`, `block_reward` | chain state |
| chain state (`core/chain.rs`) | utxo, coinbase_at, supply, tip, height, tip_work, index, block_store, headers, height_index, validated | `open`, `apply_block` (miners, pool), `accept_block` (network), readers | everything |
| persistence (`core/chain.rs` on sled) | trees utxo, blocks, idx; keys tip, height, supply, tipwork | the writes inside the operations above, `load_or_init` | chain state |
| difficulty (`core/hash.rs`, `core/consensus.rs`) | none | 256-bit arithmetic, compact bits, LWMA | chain state, pool |
| mempool (`core/mempool.rs`) | entries, spent | `accept`, `remove_txs`, `snapshot_with_fees` | RPC, network, miners, pool |
| miners (`miner/`) | running, nonce, candidate | `start`, `stop`, mine loop | GUI |
| pool (`pool/mod.rs`, `pool/embedded.rs`) | share window, share counts, a template per connection | subscribe, share, background refresh | pool clients |
| pool client (`pool/client.rs`) | running, connection, current job | `start`, `stop`, workers | GUI |
| network (`net/mod.rs`) | peers, outbound, known and banned addresses, best_height | handshake, GetBlocks, Inv, GetData, BlockMsg, TxMsg, announce loop | other nodes |
| wallet (`wallet/`) | key, seed file | `send`, load, restore | RPC, GUI |
| RPC (`rpc/mod.rs`), GUI (`gui/`), updater (`update.rs`) | views | call the above | users |

Threads of one process share the chain state. Its mutating operations hold
`apply_lock`; its readers do not, and each field has a lock of its own. Miners
and the pool submit blocks with `apply_block`, the network with `accept_block`;
the mempool reads the UTXO set; the announce loop of the network looks at the
tip's height and at the mempool once a second.

What is hard to test here, and what the properties are for (the full list, line
by line, is `hazards` in `PROJECT.json`):

* blocks of competing branches in every order, reorgs that fail half way,
  restarts in between (chain state);
* the process dying, or a write failing, between any two of the writes of an
  operation (persistence);
* readers that combine fields from before and after a block (miners, pool,
  network);
* transactions that blocks from elsewhere confirm or contradict (mempool);
* two nodes on different branches that must find each other's blocks, with lost
  connections (network);
* stop and start of threads that share one flag (miner, pool, pool client).

What makes each component correct: the ledger conserves coins and issues at most
`MAX_SUPPLY`; the chain state is a function of its active chain, and the active
chain is the heaviest valid one known; the database can always be opened and
never claims more than the blocks carry; the mempool holds no two entries that
spend one output, and only entries the chain could confirm; a template is valid
on the tip it names; share counts are those of the window; nodes that stay
connected come to follow the same chain; a payment spends only what the wallet
owns and its change adds up.

## The modules

| module | models | contents |
|---|---|---|
| `Ledger` | `validate_txs`, `apply_txs`, `block_reward` | operators on `[utxo, cb, supply]`, no state |
| `ChainState` | `core/chain.rs`, one step per operation | the state machine and its invariants |
| `HeaviestChain` | the promise of fork choice | abstract specification: blocks are learned, the heaviest valid one is followed, the first among equals |
| `ChainForkChoice` | the refinement | work, height and ledger of a branch computed from the blocks alone; `ChainState` implements `HeaviestChain` |
| `ChainStore` | the same operations, write by write, with the database, deaths and errors | implements `ChainState` as long as nothing fails |
| `Mempool` | `core/mempool.rs`, `accept` as its lock sections | the pool, the threads inside `accept`, the chain they read |
| `Mining` | `miner/mod.rs`, `miner/gpu.rs` against `connect_tip` and `switch_to` | mining threads that read tip, height, supply and mempool one by one while a writer publishes them |
| `BlockSync` | `net/mod.rs` | nodes, connections, greeting, announcements, requests and answers about blocks |
| `PoolServer` | `pool/mod.rs`, `pool/embedded.rs` | the window of shares, its counts and payouts; the two threads of a connection |
| `PoolClient` | `pool/client.rs` | the threads that connect, over starts and stops |
| `WalletSend` | `Wallet::send` | coin selection and the rounds of the fee, operators only |
| `WalletApp` | `wallet/mod.rs`, `gui/mod.rs`, `gui_main.rs`, RPC `send` | key file, password, recovery phrase, history, payments, over deaths of the process |
| `MCChainState`, `MCChainStore`, `MCMempool`, `MCMining`, `MCBlockSync` | instances for TLC | the block trees, the transactions, the payments |
| `LedgerProofs`, `ChainStateProofs`, `ChainStoreProofs`, `MempoolProofs`, `MiningProofs`, `PoolServerProofs`, `NetworkProofs`, `WalletAppProofs` | theorems | see *What is proved* |

### ChainState against the code

The variables are the fields of `ChainState` (`core/chain.rs:23`), with
`tip_work` and `index`; `block_store` has none, because every insertion into it
is followed by one of the same key into `index`. `now` is the clock that
`validate_block_basic` reads.

| action | code |
|---|---|
| `Init` | `create_genesis`, `connect_genesis` |
| `ApplyBlock(b, h)` | `apply_block(b, h)`: refused unless `h` is the next height, then `connect_tip` |
| `AcceptOnTip(b)` | `accept_block` of an unknown block whose parent is the tip |
| `AcceptSide(b)` | `accept_block` of a block off the tip whose branch is not heavier |
| `AcceptAndSwitch(b)` | the same with a heavier branch: `switch_to` succeeds |
| `AcceptInvalidBranch(b)` | the same when `switch_to` fails: the error is swallowed, the block stays |
| `Reopen` | end of the process between operations and `load_or_init` |
| `Tick` | the clock |

Refused calls change nothing and are not actions. Blocks are model values:
`Header[b]` gives parent, difficulty, timestamp and whether the checks that
read nothing but the block hold (size, sigops, merkle root, witness commitment,
proof of work), `Txs[b]` its transactions. Distinct blocks have distinct hashes.
Transactions carry outpoints and amounts; whether a key fits the script it
spends, whether a signature verifies and whether an output is OP_RETURN are
Booleans. The pseudo input of a coinbase is left out. Work is a natural number:
the saturation of 256-bit addition is out of the model.

`validate_txs` looks every input up in the UTXO set *before* the block, so a
transaction cannot spend an output of its own block; the model keeps that, and
the order of effects in `apply_txs`. `rebuild_active` collects all coinbase
outputs, spent and OP_RETURN ones too, while `apply_txs` keeps the unspent
spendable ones: `coinbase_at` therefore differs before and after a restart, and
`LedgerIsReplay` says in what it may not differ.

### ChainStore against the code

An operation in progress is the record `op`: which one, at which write, with
which block, and what its last writes will make of tip, height, work and ledger.
Each write is an action named for what it writes, in the order of the code:

    connect_tip   maps in memory, Batch, StoreInMemory, WriteBody, WriteEntry,
                  Publish, WriteTip, WriteHeight, WriteSupply, WriteWork
    accept_block  StoreInMemory (in BeginStore), WriteBody, WriteEntry, then for
                  a heavier branch Replay, Clear, Refill, Publish, the four
                  keys, Rebuild

The writes to memory between two writes to the database are one action
(`Publish`): inside one process only unlocked readers could tell them apart, and
those belong to `Mining` and `PoolServer`. `Crash` ends the process inside an
operation, `Stop` between two, `IoError` makes the next write return an error,
after which the operation gives up and memory stays as it is. sled is assumed to
keep writes in order and to make a batch atomic, and a crash that loses the
latest writes leaves what an earlier crash would have left. `clear` is not
atomic: sled removes the keys one by one.

A node is followed until its index has a gap or an entry with a wrong height
(the guard `closed`), which a failed write or a death can bring about and from
which the walks down the index no longer mean anything; a node that is down with
such a database is a state without successor, so this run does not check for
deadlock.

### Mempool against the code

`accept` runs in as many threads at once as there are connections and RPC calls.
`accepting[t]` says how far the call of thread `t` has come; its steps are the
lock sections of the code:

| action | code | locks |
|---|---|---|
| `CheckSpent(t, tx)` | `core/mempool.rs:36-58`: the checks of the transaction alone, then `spent` | `spent`, read, given back |
| `CheckUtxo(t)` | lines 60-90: inputs, signatures, totals, least fee | `chain.utxo`, read, given back |
| `Evict(t)` | lines 92-103: the pool is full and its lowest fee rate is worse | `entries`, kept; `spent`, given back |
| `RefuseFull(t)` | lines 92-106: the pool is full and nothing in it is worse | `entries` |
| `Add(t)` | lines 107-113, after `Evict` or when there is room | `entries`, then `spent` |
| `remove_txs(ids)` | lines 152-160 | `entries`, then `spent` |
| `ChainMoves` | a block connects or a reorg replaces the UTXO set | none of these |

`Add` is one step although it writes `spent` and `entries` under two locks:
every other operation that could tell the difference takes the lock of `entries`
first, except `CheckSpent`, which looks at `spent` only. `overlapped` is a history
variable: it remembers whether two calls of `accept` were ever under way at once.
`feerate` and `min_fee` saturate as the code does, at `U64_MAX`. The maturity of a
coinbase is not among the checks of `accept`, and not in the model.

### Mining against the code

The chain is the list of the blocks that were ever its tip. `writer` says which
write of `connect_tip` or `switch_to` comes next: `supply` is written first, then
`tip`, then `height` (`core/chain.rs:459-461`, `522-524`), all under `apply_lock`,
which the readers do not take. A mining thread goes through places, one for each
read whose order matters:

| action | code |
|---|---|
| `StartCpu`, `StartGpu`, `Stop` | `Miner::start`, `GpuMiner::start`, `stop`: a flag, and threads nobody waits for |
| `ReadTip`, `ReadRest` | `build_candidate`: the tip, then height, supply and the mempool |
| `ReadTipAtStart` | the GPU miner's `tip_at_start`, read after the candidate was built (`miner/gpu.rs:278`) |
| `Look` | between two batches of nonces: flag, tip, end of the nonces |
| `Find`, `ReadSubmitHeight`, `Submit`, `Won` | a nonce is found, the height read anew, `apply_block` called under `apply_lock`, the mempool cleared of the block |
| `PeerBlock`, `Publish` | a block from elsewhere, which may reorganise, and the writes that make it the tip |
| `Offer(tx)` | the mempool takes a payment whose output the UTXO set has |

`fits` is what `apply_block` asks of a found block: the next height
(`core/chain.rs:536`), the tip as its parent, a time after the median of its branch
(line 278), payments whose outputs are there and which do not contradict each other
(lines 313-317), and a claim within reward and fees. A template can fail each of
them. Its time is the clock's alone (`miner/mod.rs:59`), so that peers whose clocks
are ahead, or a clock set back, make it `early`. Its payments are the whole mempool,
from which `Won` takes the own block's payments and nobody those a peer's block has
confirmed or contradicted, or those whose outputs a reorg has taken out; and `Offer`
asks nothing of the mempool, since overlapping calls of `accept` let two payments of
one output in (run `mempool_race`). A payment is what it spends; fees are left out.

`Submit` of the CPU miner keeps a nonce that was refused (`miner/mod.rs:78`), that
of the GPU miner does not. `StartCpu` takes idle threads: one of an earlier run that
has not looked at the flag since goes on beside them. Work and bits are left out:
bits of a later tip only go with a candidate that is stale for good. `block_reward`
is that of `Ledger`.

### BlockSync against the code

Each pair of nodes that dial has two ordered streams; a connection that ends
takes what is on its way with it, and no task dials again. `Open` and `Hello`
are the two halves of a connection's beginning: both sides are in their table of
peers, and get announcements, before the Version is sent. `Greet`, `Answer` and
`TakeBlock` are the arms of `run_peer`'s loop: the first message, requests and
announcements, and blocks. `TakeBlock` has one disjunct for each outcome of
`accept_block` and what the code answers it with: nothing for a known block or
a side block, `GetBlocks` above the own height for an orphan, `GetBlocks` and an
announcement to the others for a new tip. `Announce` is the task that wakes once a
second and looks at the height. A block carries its weight, and the tip moves as
`HeaviestChain` says; transactions, addresses and pings are left out.

### PoolServer against the code

`reader[c]` and `ticker[c]` are the two threads of a connection: one handles what
the miner sends, the other sends a job every four seconds, and both test the
connection's template against the tip and replace it, under locks they give back
in between. What the reader does goes through these places:

    a share         TakeShare, Write and Send if the tip has left the template,
                    Check, Record (twice)
    a block found   Win after that, then Renew, Write, Send
    a subscription  Subscribes, then Renew, Write, Send

`Subscribes` writes the address, and from then on the ticker may send the template of
the connection (`pool/embedded.rs:184`), the first one too, while the reader is still
to build, write and send its own (lines 235-241). `Win` is refused on a tip that has
moved, and may be refused on the very tip the template was built on, for a torn
height, for payments a peer's block or a reorg has spoiled (`on_block_won` takes none
out of the mempool) or for a time behind the median: what for, `Mining` has in detail,
and here it is a choice. The reader goes on with a new template either way (lines
279-285), which makes the miner's job one the pool no longer takes. `Wake`, `Rebuild`
and `SendJob` are the sections of the ticker. `record_share` is two steps (`Begin`, `Credit`), since the counts can be
read between them. `payout_outputs` is an operator on the counts as they are: what
a coinbase built at that moment would pay. All callers build with a pool share of
zero (`build_template` asks for 1.0; `fee_percent` of `PoolConfig` is never read),
so the pool gets the remainder only. A share meets the target of the template it
was mined for and of no other; the work of a miner is its latest job.

### PoolClient against the code

`at[c]` is the place of one connecting thread in its loop (look at the flag, dial,
read, join the workers, wait), `working` the connections that have workers.
`start` creates a thread and `stop` lowers the shared flag and writes the status;
neither waits. The flag is looked at when a line comes, and not before.

### WalletApp against the code

`file` is what is on disk: the key file (`absent`, `empty` or a key), whether there
is a password file, and the saved history. `app` is the place of the process in
`gui_main`'s start or in a handler that writes several times:

| action | code |
|---|---|
| `FirstKey`, `KeyWritten`, `Load` | `Wallet::load_or_create`; `fs::write` empties the file before it writes |
| `Serve`, `Open` | the RPC server and the wait for the chain in `gui_main.rs`; `App::new`, which takes a password file for a confirmed phrase |
| `SetPassword`, `Acknowledge` | `lock_screen_ui`, `seed_backup_ui` |
| `Poll` | the scan of new blocks and the saving of the history |
| `CreateNew`, `Restore`, then `Stored`, `TakeUp`, `ForgetHistory`, `ForgetPassword` | another key: the file twice, the key in memory, `reset_history_for_new_wallet` |
| `Begin(who)` | `Wallet::send` from the window or by a thread of the RPC server: the coins are read for one key |
| `Check(who)` | the payment signed with the key of a later moment, and the checks of `accept` (`core/mempool.rs:36-91`) |
| `Admit(who)` | what `accept` does under its last locks (lines 92-114): room is made, the coins marked, the payment inserted, or it is refused |
| `remove_txs` | payments leave the mempool with their marks |
| `NewBlock`, `Reorg`, `PublishIndex` | the node: blocks, and the index that `block_at` reads, which is written after the height |
| `Flush` | what the node wrote to its database reaches the disk, which nothing waits for |
| `Die` | the end of the process, at any point; chain and index are then those on disk |

A coin is its value and the transaction that made it. `WalletSend` computes the
payments of `send`: the coins are taken largest first, and the fee raised, `ROUNDS`
times at most (16 in the code), until it pays for the inputs it leads to. `accept` is
in two steps because its locks are given back between the check of the marks and the
insertion: the window and the RPC server can both pass the first with one coin, and
`overlapped` remembers that two calls were between the two. `disk` lags behind `chain`
by any number of blocks, since a block is the tip in memory before `persist_meta`
writes it (`core/chain.rs:461-472`) and nothing flushes: a window opened after a death
may start its cursor below a block whose income is already in the saved history. Passwords and 2FA codes are
guards that the owner can satisfy; changing a password changes nothing modelled.

## The runs

| run | module | bounds | states | question |
|---|---|---|---|---|
| `chain_state` | `MCChainState` | 13 blocks, clock 0..1 | 3,668 | is the state, after any history, what the active chain determines? |
| `chain_store` | `MCChainStore` | 6 blocks, clock 0..1, 2 deaths, 1 failed write | 442,938 | do the writes add up to the operation, and what is left when they do not all happen? |
| `store_crash` | `MCChainStore` | 6 blocks, 1 death | violated | is the promise of fork choice kept across a death? |
| `mempool` | `MCMempool` | 2 threads, 6 transactions, room for 2 | 2,026 | does the bookkeeping of the pool survive overlapping calls and a moving chain? |
| `mempool_race` | `MCMempool` | the same | violated | can two entries spend one output? |
| `mining` | `MCMining` | 2 CPU threads, 1 GPU thread, 2 payments, 2 blocks, 2 starts | 581,043 | does found work earn its block, are stale candidates left, do refusals and threads end? |
| `coinbase_twice` | `MCMining` | 1 CPU and 1 GPU thread, 1 payment, another reward schedule | violated | do the coinbases of one wallet differ? |
| `network` | `MCBlockSync` | 3 nodes in a line, 5 blocks, batches of 1 | 110,702 | do neighbours come to agree, and do they fall silent? |
| `sync_fork` | `MCBlockSync` | the same, the chains forked when the nodes meet | violated | does the heavier branch reach a node on a lighter one? |
| `pool` | `PoolServer` | 1 connection in full and 1 that records shares, a window of 2, a tip that moves once, 1 connect | 969,152 | do payouts follow the window, and are shares of the present tip taken? |
| `pool_client` | `PoolClient` | 3 threads, 3 starts | 2,587 | do stops stop, and is the status true? |
| `wallet` | `WalletApp` | 2 keys, 2 coins, 3 transactions, 2 blocks, 1 reorg, 2 starts, 1 RPC thread | 2,059,448 | are payments sound, the phrase shown and the history right, whatever is interrupted? |

The block tree of `MCChainState` is drawn in the module. It has a branch point
at each of the first three heights, ties, a branch that wins although it is
shorter (a block worth three), an invalid block on a winning branch and a valid
one above it, a bad signature, coinbases that claim too much against the halving
and against the cap, the issue of a coinbase a second time (`b3` repeats `b2`'s), a burned coin, a transaction that spends two outputs, one
output spent on two branches, and a block too far in the future until the clock
ticks. `HALVING_INTERVAL` is 2 and `MAX_SUPPLY` 11, so that the subsidy halves at
height 2 and meets the cap at height 3. `COINBASE_MATURITY` is 0 as in
`core/consensus.rs`. `CHECKPOINTS` is empty as in the code. The difficulty rule
is a coarse stand-in that reacts to timestamps, so that two branches carry
different difficulties; its arithmetic is not modelled. The clock
needs two values: before and after the future block becomes acceptable.

`chain_store` keeps the two branches with a tie, a reorg to a heavier block and a
bad signature. Two deaths allow one in the recovery from another; one failed
write is enough to reach every place a write can fail, after any death.

What the invariants of `chain_state` say, beside the type invariant: the index is
a tree and tip, height and work describe one block of it (`IndexIsTree`); the
ledger is the replay of the active chain (`LedgerIsReplay`); no valid stored
block is heavier than the tip (`TipIsHeaviest`); `headers` and `height_index` are
the active chain (`ActiveIndexExact`); a mark that skips signatures is on blocks
that passed with signatures (`ValidatedIsSound`); the cap (`SupplyWithinCap`); the
supply is the sum of the coins (`MoneyIsConserved`). Every step implements
`HeaviestChain` (`ImplementsHeaviestChain`), whose steps follow a block only for more
work.

What those of `chain_store` say: at every point a database that has a tip has its
entry and the bodies of all entries (`TipIsStored`), and without failed writes
its index has no gap (`BranchesAreStored`); without faults the utxo tree is at
every point an exact ledger or what `clear` left of one (`UtxoTreeIsALedger`);
whatever fails, no entry claims more work than its blocks carry
(`WorkIsNotOverstated`); and as long as nothing failed, memory between operations
moves as `ChainState` moves (`ImplementsChainState`).

`store_crash` is a finding. The index entry of a block is written before the tip
key; a process that dies between the two comes back with the block indexed and
the tip below it, and `accept_block` returns `Ok(false)` for every indexed block
(`core/chain.rs:547`). The node stays on the lighter tip until a block on top of
the refused one arrives. After such a death the utxo tree can also be one block
ahead of the tip, which is why `UtxoTreeIsALedger` is limited to histories without
faults.

`mempool` offers two transactions that spend one output, the second one spending
another output too and paying more, one that spends the output of the first
once the chain has it, one at a different fee rate (its `feerate` saturates, with
`U64_MAX` at 9000), one below the least fee and one that spends more than it has.
Two threads are enough for any interleaving of two sections; a pool of two is
full as soon as two enter, so that eviction, refusal and replacement all meet.
The threads are interchangeable and declared symmetric. It checks that no output
stays blocked by a transaction that has left (`SpentIsBacked`), the capacity
(`WithinCapacity`), that calls which never overlap leave an exact and
conflict-free pool (`SerialIsExact`), and that a recorded fee is the one any
later chain would compute (`FeesAreReal`).

`mempool_race` is a finding. `accept` looks at `spent` under a lock it gives back
(`core/mempool.rs:58`) and marks its inputs only when it inserts (line 108), with
the verification of signatures in between: two threads with transactions that
spend one output both pass. The refusal at line 55 says that this should not
happen; a template with both is refused as a block.

`mining` has a halving at every height and a cap that is met at height 2, so that
a reward read for the wrong height or from the wrong supply is too large or
makes the GPU miner wait. Two blocks are enough for a reorg during any read: one
to leave and one to come to. Of the two payments one spends what the other makes, so
that a reorg leaves it in the mempool with its output gone. Two starts and two CPU
threads are needed for a thread of an earlier run to go on beside a new one; the
bound counts the starts of both miners, since their threads meet in the chain only.
It checks that a nonce found on the present tip earns its block (`WorkIsNotWasted`),
that a thread leaves a candidate whose tip was overtaken (`StaleIsAbandoned`), that it
does not submit a refused block for ever (`RefusalsEnd`), and that after the last stop
no thread of either miner, of whichever run, stays (`StopIsObeyed`). Three excuses are
named, each for a block that `apply_block` refuses and a template can be: `torn`, whose
height is not the one above its tip, read between the two writes; `spoiled`, whose
payments cannot be made on its branch (confirmed, contradicted, contradicting each
other, or spending what is gone); `early`, whose time is not after the median. They
are of the candidate as it was built: with any other one the refusals end.

`coinbase_twice` is a finding: a torn candidate names the height of its own parent,
and nothing compares that with the height of the block. If the parent is of the
same wallet and claims the same, both coinbases have one txid, and the ledger,
keyed by txid, loses an output.

`network` lets A be two blocks ahead of B and C when they meet, and C and B mine a
branch that is heavier and no longer. With a batch of one block a synchronisation
takes a chain of requests; three nodes in a line are the least in which a block
is passed on. Neighbours that stay connected come to tips of equal work
(`NeighboursAgree`), the messages about blocks come to an end (`TrafficEnds`), and
honest nodes ban each other only when an announcement overtook a Version
(`BansAreOvertakings`). The excuses are what the protocol does not handle: a fork
between the two tips, and a tip that is not announced because a reorg did not
raise the height (`net/mod.rs:131`).

`sync_fork` is a finding: nodes that meet with a fork below both tips ask each other
for what lies above their own heights only, get orphans and ask the same again.
`README.md:198` promises the heaviest chain.

`pool` needs one connection in full for the race of its two threads, and another
party that records shares for the race on the window; a window of two drops a
share as soon as a third comes. `Variants` are what makes two templates of one tip
differ. It checks that the counts are those of the window and that a coinbase
built at any moment sums to the block's total and gives an address what its
shares are worth, whichever addresses decode (`PayoutsFollowWindow`, with totals 0
and 7, which is no multiple of the counts); that a share of the present tip is refused only on
a connection whose threads crossed, each on its way to replace the template, or which
had a win refused on the tip it was made for, after which the reader gives up a
template the tip has not left (`RefusalsAreCrossings`, the excuse is `crossed`); and that
workers end up with a template on the tip, however often wins are refused
(`MinersReachTheTip`). One connect is enough: a new connection finds nothing of an old
one but the counts of the window.

`pool_client` allows three starts, so that two earlier threads can be taken over.
It checks that workers do not outlive their connection, that the status shown is
true unless a quick start left two threads writing it (`StatusIsTrue`), and that the
last stop ends all (`StopIsFinal`).

`wallet` begins without a wallet or with one that has a password and two coins. Two
keys allow one replacement of each kind; a look at the chain takes one block
(`BATCH` 0), so that `Poll` falls behind; two starts allow a death and what comes after
it, with the last blocks on disk or not; one thread of the RPC server is enough for two
calls of `accept` to overlap. With three coins at most, 7 rounds are more than two for
each, so that the code's 16 would change nothing (see `PaymentsStaySound` below). It
checks that nobody gets past an unconfirmed phrase, except through a death of the
process between the storing of a key and the confirmation (`SeedIsShown`, the excuse is
`cut`); that change is not listed as income beside its payment and no income twice,
except one that left the chain, by a reorg or with a block that was not on disk when
the process ended (`IncomeIsIncome`, the excuse is `moved`); that every payment adds up,
pays a fee the mempool takes and not more than it must, that `send` finds a payment when
the largest coins could pay for one, and that two payments in the mempool share no coin
as long as no two calls of `accept` were between check and insertion at once
(`PaymentsAreSound`, the excuse is `overlapped`; `mempool_race` shows what comes of it).

### Fairness

The chain, the mempool and the wallet are checked for safety only: their operations
are calls from outside that nothing obliges to happen. Liveness is checked where
the program has threads of its own:

* `Mining`: each thread takes its next step (`WF` of `Step`), and a writer that holds
  `apply_lock` finishes. Finding a nonce, blocks of peers, starts and stops may
  never happen. `RefusalsEnd` and `StopIsObeyed` say what happens again and again
  (`[]<>`): a thread that came to the head of its loop, or ended, has left its candidate.
* `BlockSync`: what was sent is read, the side that dialled greets, the announcing
  task wakes. Dials, blocks and the end of connections are free.
* `PoolServer`: the threads run (`WF`), and a thread that waits for a lock others
  want again and again gets it: `SF` of the reader, which waits for `apply_lock`, for
  the window and for the stream. The locks are those of parking_lot, which hand
  over to a waiter in bounded time. Miners take jobs from a connection that is
  up; finding shares is luck.
* `PoolClient`: the threads run, and a line comes to every connection, since the
  server sends a job every four seconds. Whether the pool can be reached is free.

## What is proved

`ChainStateProofs` first proves four theorems of `Spec` for every value of the
constants allowed by the assumptions: any set of blocks and any tree they form,
any transactions, any functions `work_from_bits` (positive) and `lwma_next_bits`, any
window, limit and checkpoint map, any reward schedule and cap.

| theorem | statement |
|---|---|
| `TypeCorrect` | `Spec => []TypeOK` |
| `IndexStaysTree` | `Spec => []IndexIsTree` |
| `SupplyCapped` | `Spec => []SupplyWithinCap` |
| `ActiveIndexStaysExact` | `Spec => []ActiveIndexExact` |

The inductive invariant is `IInv == TypeOK /\ IndexIsTree /\ SupplyWithinCap`. The
three need each other: the types of `coinbase_at` and `height_index` after a
reorg depend on walks down the index, which stay inside the index only because
it is a tree; a replay yields a typed ledger only along such a walk; and the cap
on the next block's coinbase holds only for a supply already within it. It was
checked with TLC (its parts are invariants of `chain_state`) before it was proved.
`ActiveIndexExact` is inductive on top of it: connecting a block appends one
height to a map that holds exactly those below, and `rebuild_active` starts
from nothing, along a walk that meets every height of the branch once.

Then it proves what the node does with competing branches, for any tree
of blocks and any order in which they arrive:

| theorem | statement |
|---|---|
| `LedgerStaysReplay` | `Spec => []LedgerIsReplay` |
| `TipStaysHeaviest` | `Spec => []TipIsHeaviest` |
| `MarksStaySound` | `Spec => []ValidatedIsSound` |
| `FollowsHeaviestChain` | `Spec => ImplementsHeaviestChain` |
| `MoneyStaysConserved` | `Spec => []MoneyIsConserved` |

The inductive invariant `ForkInv` is `IInv` with `TipIsHeaviest`, `ValidatedIsSound` and
a link between what the node keeps and what the blocks determine,
`LedgerIsOutcome`: the UTXO set and the supply are the outcome of replaying the
active chain with every signature checked, and the two ways `coinbase_at` is
built agree on every unspent output (`MapsFit`). None stands alone. A
block may be connected on top of the tip without a replay because the ledger is
the replay's outcome; a replay may skip the signatures of marked blocks because
the marks are sound; a mark is sound because what connects, or is replayed, is
valid; and the ledger of a replay that skipped signatures is the outcome because
the marks it skipped at are sound. The lemmas beneath say that a replay depends
neither on the marks, as long as they are sound, nor on blocks stored above or
beside its branch, and that the ledger of a branch, defined from the blocks alone
(`BranchLedger`), is what the replay over the index computes.

`MoneyStaysConserved` needs no invariant beyond `ForkInv`: the ledger is the outcome of
the active chain, and the outcome of every branch balances, by induction over the
tree of blocks. What is carried along a branch is `Account`: the value of the unspent
outputs and of what the branch burnt never exceeds the supply, and reaches it as
long as no two coinbases of the branch coincide (`Unique`), because then every
output is made once (`Traced`): a transaction with the txid of an earlier one is a
coinbase, or takes the same inputs, and those are gone. One block is accounted for
in `LedgerProofs` (`BlockMoves`): transaction by transaction, inputs leave the sum and
outputs enter it, and an output that was there already is what a repeated
coinbase loses. It follows that `issue` never clamps the supply at zero.

`ChainStoreProofs` proves five theorems of `StoreSpec`, for any number of deaths and
failed writes between any two writes of any operations:

| theorem | statement |
|---|---|
| `TipStaysStored` | `StoreSpec => []TipIsStored` |
| `BranchesStayStored` | `StoreSpec => []BranchesAreStored` |
| `WorkStaysHonest` | `StoreSpec => []WorkIsNotOverstated` |
| `WritesImplementChainState` | `StoreSpec => ImplementsChainState` |
| `UtxoTreeStaysALedger` | `StoreSpec => []UtxoTreeIsALedger` |

The inductive invariant `StoreInv` adds what every place of an operation has already
written (`OpOK`: a block whose entry is being written has its body on disk, one
that becomes the tip has its entry), that the work on disk never exceeds the work
in memory, and that an index unbroken by a failed write is on disk as a whole
but for the block being stored (`NodeOK`). The last is why `BranchesAreStored`
survives a death: a parent known to memory is on disk before its child is. TLC
checked `StoreInv` on the 442,938 states of `chain_store` before it was proved.

The last two are about histories in which no operation is cut short. There the state
that readers are shown, with what the operation in progress has replaced in memory put
back, is a state of `ChainState`: `Chain` is `ChainStateProofs` instantiated at that
state, so that `ForkInv` and what was proved from it are at hand. `FaultlessInv` joins
`Chain!ForkInv` to `Told`: at rest, memory and disk are what is shown; under way, both
are functions of what the operation found, of what it will come to (`Planned`) and of
the write it makes next (`MemoryTold`, `DiskTold`). A write within an operation is then
a stutter; the write that ends it is `ApplyBlock`, `AcceptSide`, `AcceptInvalidBranch` or
`AcceptAndSwitch`, according to how the operation began; and `Open` is `Reopen`, because
what it reads back is what memory held. `ForkInv` is what each step needs of the state it
starts from: the ledger a connection applies its block to must be the branch's, and a
branch that replayed must pass block by block. `UtxoTreeIsALedger` follows: between
writes the tree on disk holds the ledger of the tip or of the branch being connected,
and between `clear` and the batch of `switch_to` a part of the old one. Faults are
counted and never forgotten, so nothing is said after one. `FaultlessInv` was checked
with TLC on the same 442,938 states before it was proved.

`MempoolProofs` proves five theorems of `MempoolSpec`, for any number of threads,
any transactions, any sequence of UTXO sets and any capacity:

| theorem | statement |
|---|---|
| `MempoolTypeCorrect` | `MempoolSpec => []MempoolTypeOK` |
| `NothingStaysBlocked` | `MempoolSpec => []SpentIsBacked` |
| `PoolIsBounded` | `MempoolSpec => []WithinCapacity` |
| `SerialPoolHasNoConflict` | `MempoolSpec => []SerialIsExact` |
| `FeesStayReal` | `MempoolSpec => []FeesAreReal` |

The inductive invariant `MInv` adds to these what the threads carry between their
sections. `AllReal`: every entry, in the pool or on its way there, was computed
from some UTXO set of the chain. `Locked`: at most one thread is between `Evict`
and `Add`, and for it the pool is not full, which is what makes the bound hold
although the count and the insertion are two steps. `Counted`: the pool is finite
and within its bound. `Serial`: without overlap at most one thread is inside, and
what it is about to spend is not yet spent. `FeesStayReal` rests on `AllReal` and on
`HashAssumption`: a txid fixes the inputs and outputs of a transaction, and an
outpoint names the same output in every UTXO set. `MempoolAssumption` and
`HashAssumption` are evaluated in both runs.

`MiningProofs` proves two theorems of `MiningSpec`, for any number of CPU and GPU
threads, starts and blocks, any reorgs and payments and any reward schedule:

| theorem | statement |
|---|---|
| `WorkStaysPaid` | `MiningSpec => []WorkIsNotWasted` |
| `MiningTypeCorrect` | `MiningSpec => []MiningTypeOK`, the supply within the cap, every nonce that may be taken has a place |

For the first the inductive invariant `MiningInv` has three parts. `ChainOK`: the
writer's place says how far `tip` is behind the list of blocks, and every block
builds on one of the list or on the genesis block, so that a walk down with `Branch`
meets blocks only. `ThreadsOK`: no candidate builds on a block later than the tip. `Told`: a
candidate on the present tip names the height after the present one unless it is
torn, was given the reward for that height and the present supply unless a block
is just being published, and is submitted with the height it names. `Told` breaks
for a thread only by a new tip, which makes its candidate stale for good because
of `ThreadsOK`. The heights and supplies of branches are recursive functions; that
they are natural is shown with the lemmas on recursion in `LedgerProofs`. The excuses `torn`, `spoiled`
and `early` remain in the theorem: what it proves is that nothing else `apply_block` asks
(parent, height and claim) is ever what a block on the tip fails by. Liveness stays with TLC.

The second needs `BoundInv`. `Capped`: no branch has issued more than the cap, and the
supply is what the branch of the newest block has issued. A block's claim is bounded
by what its own branch leaves; the step is that the branch of a new block is the one
below it and the block itself (`NewBranch`), that the branches of older blocks stay
(`OldBranch`), and that what they issued does too (`IssuedGrown`), each by induction
along the recursive functions of the model. `Roomy`: a thread with a nonce for the
present tip that is neither `spoiled` nor `early` has a place left in the list of blocks, so
that the bound of the model never stands between a thread and its block.

`PoolServerProofs` proves three theorems of `PoolSpec`, for any window, any finite set
of connections, any totals to pay and any number of tips, connects and losses:

| theorem | statement |
|---|---|
| `PayoutsStayFair` | `PoolSpec => []PayoutsFollowWindow` |
| `RefusalsStayCrossings` | `PoolSpec => []RefusalsAreCrossings` |
| `PoolTypeCorrect` | `PoolSpec => []PoolTypeOK` |

Payouts rest on `WindowInv`: an address counts as many shares as it has places in
the window, less the one being recorded, and the counts together make up the
window, less that one. The second half is what bounds the payments: each is a share
of the total rounded down, so that together they are at most the total, and what
the rounding leaves is the pool's. Dropping the oldest share and crediting the new
one keep both halves separately, which is why another thread may read between.

Refusals rest on `PoolInv`, a condition on each connection. `ReaderOK`: the message
being handled is a share where the reader says so, and matches its template from
the check on. `NotAhead`: no template, job or share is of a later tip than the
present one, so that a new tip makes no old job worth mining on. `InStep`, as long as
the two threads did not cross and no win was refused on its own tip: a job of the
present tip is the connection's template, wherever it is on its way to the miner and
back; a thread about to replace the template has found the tip gone from it, or no job
of it was ever sent (`Greeting`: the reader is at a subscription, and the ticker has
nothing to send); and the template the reader goes by, once written, is the one in
place. A crossing breaks the first two, and a refused win the second, and so the
theorem keeps that excuse. `PoolInv` was checked with TLC on the instance of `pool`
before it was proved.

`NetworkProofs` proves two theorems of `SyncSpec`, for any set of nodes and connections,
any finite tree of blocks, any batch sizes and any number of steps, and two of `ClientSpec`,
for any number of threads and starts:

| theorem | statement |
|---|---|
| `SyncTypeCorrect` | `SyncSpec => []SyncTypeOK`, a node's tip is a block it has, a stream holds well-formed messages |
| `BansStayOvertakings` | `SyncSpec => []BansAreOvertakings` |
| `ClientTypeCorrect` | `ClientSpec => []ClientTypeOK`, workers belong to a thread that reads or joins |
| `StatusStaysTrue` | `ClientSpec => []StatusIsTrue` |

The types rest on what the operators over the tree of blocks yield: `Branch`, `Height` and
`Work` are recursive functions, typed by the lemmas of `LedgerProofs` on recursion, and
the heaviest of a finite set of blocks exists, by induction over its subsets.
`BansAreOvertakings` needs the greeting to be followed from end to end (`Greeting`):
nothing travels on a connection that is not up; one that is not made yet has seen no
greeting; a `Version` travels, or has arrived, only if it was sent; and unless it was
overtaken, the `Version` is the first message of its stream. So the peer that takes
another message for the first one is served by a stream in which the greeting lost its
place. TLC checked the invariant (`SyncInv`) on the 110,702 states of `network` before it
was proved.

`ClientInv` adds three facts to the types: at most one thread is there unless one
was revived (`Alone`), a lone thread that reads wrote the status last (`Shown`), and a
status of connected has a thread that will clear it (`Cleared`).

`WalletAppProofs` proves five theorems of `WalletSpec`, for any set of keys and coins
and any number of starts, deaths, payments, scans and reorgs:

| theorem | statement |
|---|---|
| `SeedStaysShown` | `WalletSpec => []SeedIsShown` |
| `IncomeStaysIncome` | `WalletSpec => []IncomeIsIncome` |
| `WalletTypeCorrect` | `WalletSpec => []WalletTypeOK` |
| `PaymentsStayBalanced` | `WalletSpec => []PaymentsBalance` |
| `PaymentsStaySound` | `RoundsSuffice => (WalletSpec => []PaymentsAreSound)` |

`SeedInv` follows the key
from the file to the window: what is being written is a key (`Pending`), and a
password file vouches for the key it lies beside before the window opens, the
confirmation after that (`Vouched`), with the keys of interrupted replacements
excused by `cut`.

`HistoryInv` says what a history may hold whose cursor is at some height (`Honest`):
nothing it has as sent, and a payment that never left the chain once at most, and then
in a block up to the cursor. It is stated of the history in use with the cursor, and of
the saved one with the present height, because the next start scans from there on.
`ChainsOK` is what makes a scan count right: blocks share no payment, the disk is no
longer than the chain, and the index that `block_at` reads differs from the chain only
in its last block, which a reorg has then taken out. A death puts chain and index back
to what is on disk; every payment whose block goes with it is `moved` from then on, and
what is left is listed up to where the next window starts. `WalletTypeCorrect` adds that
password and key in memory are those on disk (`OnDisk`) and that the mempool holds
payments of this wallet, each checked by the caller who made it (`Ours`).

The last two are about what `send` makes. `PaymentsBalance` is the part of
`PaymentsAreSound` that holds for all constants: a payment's inputs are its amount, change
and fee, the fee is one the mempool takes and not above what was asked for or needed,
and, until two calls of `accept` overlap, no coin is in two payments of the mempool. The
invariant for the last part is `Unraced`: the coins of every payment in the mempool are
marked, no two payments share one, and at most one payment is between check and
insertion, with none of its coins marked. The lemmas beneath are about the largest
coins. Of two choices of the largest coins, the one of more coins is worth no less
(`TopsOrdered`: the coins that only one of them has are all of one value); so what `send`
selects is of no more coins than any choice that is enough (`SelectionIsLeast`), in
whatever order coins of one value come; so a fee that was raised is the least fee of a
payment of no more inputs than the one made at last.

The other part of `PaymentsAreSound` says that `send` finds a payment when some choice of
the largest coins can pay amount, floor and least fee. A fee can be raised twice for each
coin (with change, without, and so for each number of inputs), and no fee comes twice,
since each is above the one before: with more rounds than that, the last round is one
that changed nothing (`SendIsComplete`, by the pigeonhole theorem). `RoundsSuffice` says it
of the model's constants, and the instance of `wallet` meets it with its 7 rounds.
In the code the number of rounds is fixed, at 16, and the number of coins is not: for up to 7 coins
the theorem speaks for it; with more, many coins each worth little more than the fee of
spending them could use up the rounds, and `send` then ends with "fee did not converge"
(`wallet/mod.rs:159`). This is why it is a hypothesis of the theorem and not an
assumption of the module. `Paid`, the invariant beneath, adds that what is being made
starts from coins that are finitely many, and that what was checked and is not yet in is
sound.

`LedgerProofs` holds what the proofs need of the money rules: totals of natural
numbers are natural, a valid block's fees are what its inputs exceed its outputs
by, a block that passes `validate_txs` keeps the supply within the cap, applying
transactions keeps the maps well typed, and what a block does to the unspent
outputs does not depend on the coinbase map. The fold of the community modules is
shown to be the sum over a finite set, by induction over its subsets, and the
`Total` of a sequence to be the sum over the places it lists. It also holds what they need of
functions defined by recursion on an interval of naturals or along an acyclic
parent relation; the induction theorems of the library take an operator as
parameter, which the installed provers cannot instantiate, so the inductions are
on sets.

Assumptions used for the chain: `LedgerAssumption`, `ChainAssumption` and
`GenesisAssumption` (the pinned genesis block is sound and obeys the money rules).
The theorems on competing branches and `ChainStoreProofs` use four more, all of
`ChainForkChoice`:

* `AcyclicAssumption`: no block descends from itself, since a block's hash covers
  its `prev_hash`. Without it the work of a branch would not be defined.
* `TxidAssumption`: transactions of one txid have the same inputs and outputs,
  since a txid hashes the transaction without signatures and public keys
  (`core/tx.rs`). Without it a coinbase created twice could change an output's value.
* `CoinbaseAssumption`: a coinbase takes no output. Its one input names none
  (`is_coinbase` in `core/tx.rs` asks for an all-zero txid) and is left out.
* `MaturityAssumption`: `COINBASE_MATURITY` is 0, as in `core/consensus.rs`, or
  coinbases of different heights never share a txid. With another maturity and
  the coinbases of `coinbase_twice`, a rebuilt coinbase map would let an output
  mature at another height than the kept one.

TLC evaluates them in `chain_state` and `chain_store`. `MiningProofs` uses
`LedgerAssumption` and `MiningAssumption` (finitely many threads, every payment spends a
coin or what a payment makes, and a first reward within the cap, as in
`core/consensus.rs`), `PoolServerProofs` `PoolAssumption`
(connections are finitely many, each with an address of its own that is none of the
model's marks "nobody", "pool", "free" and "peer"), `NetworkProofs` `SyncAssumption` (finitely
many blocks, the parent of each but the root among them, and every node begins with the root) and `ClientAssumption`,
`WalletAppProofs` `WalletAssumption` (names that differ, finitely many keys and coins) and
`SendAssumption` (natural fees, of which the base is
not 0, as `MIN_RELAY_FEE_PER_KB` is not and no transaction is empty), each evaluated in the
component's run. The modules that extend `LedgerProofs` for its lemmas on recursion and sums
have its constants and `LedgerAssumption` in scope, which their theorems do not use.

Only model-checked: of `BlockSync`, that neighbours come to agree and fall silent; of
`Mining`, the liveness properties; of `PoolServer`, `MinersReachTheTip`; of `PoolClient`,
`StopIsFinal`; of `WalletApp`, that `send` finds a payment where `RoundsSuffice` does not hold.
Out of the prover's reach: liveness under fairness, ENABLED, and what a recursive definition
computes on all inputs by an induction over an operator. Every invariant and every
safety property of steps that a passing run checks is a theorem, `PaymentsAreSound` under
`RoundsSuffice`.

## Plan

In this order; each module with its run, then its proofs.

1. `Ledger`, `ChainState`, `HeaviestChain`, `ChainForkChoice`, `ChainStore`: done.
2. `Mempool`, with its proofs; `snapshot_with_fees`, which only reads, in `Mining`: done.
3. `Mining`: templates read field by field, the mining loops, and the proof of
   `WorkIsNotWasted`: done.
4. `PoolServer`: window, counts, payouts, jobs, templates and shares, and the proofs
   of `PayoutsFollowWindow` and `RefusalsAreCrossings`: done.
5. `BlockSync`: synchronisation and its limits, and the proofs of its types and of
   `BansAreOvertakings`: done.
6. `PoolClient`, `WalletSend`, `WalletApp`, with the proofs of `ClientTypeOK`,
   `StatusIsTrue`, `SeedIsShown`, `IncomeIsIncome`, `PaymentsAreSound` and the types: done.
7. Proofs of `LedgerIsReplay`, `ValidatedIsSound`, `TipIsHeaviest`,
   `MoneyIsConserved` and the refinement of `HeaviestChain`; of the three invariants of
   `ChainStore` that survive every failure; of the refinement of `ChainState` by
   `ChainStore`, and of `UtxoTreeIsALedger`, in histories without faults: done.
8. `PeerTable`: connection slots, outbound set, ban scores, time-outs; a second
   start of the pool server while connections of the first are open.

## Not modelled

Hash functions, signatures, key derivation, wallet encryption, TOTP and address
encoding (cryptographic primitives, represented by what they decide); 256-bit
arithmetic and the difficulty rule, whose behaviour a reduced width would not
show; the GPU kernel; of the network, the table of connections, addresses, pings
and ban scores; of the pool server, a second start and its statistics; of the
GUI, drawing, contacts, 2FA and the read-only console; the updater, which is I/O;
RPC queries, which only read; the headless node's start; the binaries under
`rpc/` that `Cargo.toml` does not build. `components` in `PROJECT.json` lists every
part with its status, `hazards` what each omission leaves uncovered.
