------------------------------- MODULE Mining -------------------------------
(***************************************************************************)
(* Solo mining (miner/mod.rs, miner/gpu.rs).  A mining thread assembles a  *)
(* candidate from single reads of tip, height, supply and the mempool,     *)
(* none of them under apply_lock, while connect_tip and switch_to publish  *)
(* a new tip under it, one variable after the other.  It then searches for *)
(* a nonce and presents what it finds.                                     *)
(*                                                                         *)
(* The chain is kept as the list of the blocks that ever were its tip.     *)
(* Work and difficulty are left out: current_bits reads the tip once more, *)
(* and a tip that has moved on never comes back, so that bits of a later   *)
(* tip only go with a candidate that is stale for good.  A payment spends  *)
(* one output, a coin of old or what another payment has made; fees are    *)
(* left out (the fee an entry records is the fee connect_tip counts), and  *)
(* so are the size of a template (snapshot_with_fees takes the whole pool) *)
(* and failing writes to the database.  Of times only this is kept:        *)
(* whether the clock a candidate was stamped by is behind the median time  *)
(* of its branch, which the clocks of peers decide as well.                *)
(***************************************************************************)
EXTENDS Ledger

CONSTANTS
  Cpu,               \* threads the CPU miner may have
  Gpu,               \* the thread of the GPU miner, or none
  THREADS,           \* CPU threads one start creates
  Payments,          \* transactions blocks may hold
  Offered,           \* those of them this node is offered
  Coins, Spends,     \* outputs there from the start; what a payment spends
  CLOCK_SET_BACK,    \* whether this node's clock may be set back
  MAX_BLOCKS,        \* bound of the model: blocks that become the tip
  MAX_STARTS         \* bound of the model: starts of the two miners

ASSUME MiningAssumption ==
  /\ Cpu \cap Gpu = {}
  /\ IsFiniteSet(Cpu) /\ IsFiniteSet(Gpu)
  /\ Spends \in [Payments -> Coins \cup Payments]
  /\ Offered \subseteq Payments
  /\ CLOCK_SET_BACK \in BOOLEAN
  /\ {THREADS, MAX_BLOCKS, MAX_STARTS} \subseteq Nat
  /\ INITIAL_REWARD =< MAX_SUPPLY

Miners == Cpu \cup Gpu

VARIABLES
  blocks,    \* the blocks that became the tip, in that order
  tip,       \* the tip's place in blocks; 0 is the genesis block
  height,
  supply,
  writer,    \* which write of connect_tip or switch_to comes next
  pool,      \* the mempool
  running,   \* the running flags of the two miners
  starts,    \* how often the two miners were started
  at,        \* where each mining thread is
  cand,      \* the candidate of each thread
  believed   \* the height a thread submits with; the GPU's tip_at_start

chain_vars == <<blocks, tip, height, supply, writer>>
run_vars   == <<running, starts>>
miner_vars == <<at, cand, believed>>
mining_vars == <<chain_vars, pool, run_vars, miner_vars>>

Kinds == {"cpu", "gpu"}
kind(m) == IF m \in Cpu THEN "cpu" ELSE "gpu"

NoCandidate ==
  [prev |-> 0, label |-> 0, claim |-> 0, txs |-> {}, early |-> FALSE]

Candidate == [prev : 0..MAX_BLOCKS, label : Nat, claim : Nat,
              txs : SUBSET Payments, early : BOOLEAN]

-----------------------------------------------------------------------------
(* What the chain is, whatever has been published of it *)

Block == [prev : 0..MAX_BLOCKS, height : Nat, label : Nat, claim : Nat,
          txs : SUBSET Payments, by : Kinds \cup {"peer"}]

HeightOf(i) == IF i = 0 THEN 0 ELSE blocks[i].height

\* The blocks of the branch that ends with i, the genesis block left out.
Branch(i) ==
  LET below[n \in 0..MAX_BLOCKS] ==
        IF n = 0 THEN i
        ELSE IF below[n - 1] = 0 THEN 0 ELSE blocks[below[n - 1]].prev
  IN  {below[n] : n \in 0..MAX_BLOCKS} \ {0}

Confirmed(i) == UNION {blocks[b].txs : b \in Branch(i)}

Issued(i) ==
  LET sum[n \in 0..Len(blocks)] ==
        IF n = 0 THEN INITIAL_REWARD
        ELSE sum[n - 1] + IF n \in Branch(i) THEN blocks[n].claim ELSE 0
  IN  sum[Len(blocks)]

spent(txs) == {Spends[t] : t \in txs}

\* validate_txs for the payments of a block above i: each output is there and
\* unspent before the block, and none is spent twice in it.
usable(txs, i) ==
  LET before == Confirmed(i)
  IN  /\ spent(txs) \subseteq (Coins \cup before) \ spent(before)
      /\ \A t, u \in txs : Spends[t] = Spends[u] => t = u

\* The payments of a thread's candidate cannot be made on the branch it builds
\* on: one is confirmed or contradicted there, two contradict each other, or a
\* reorg has taken out what one spends.
spoiled(m) == ~ usable(cand[m].txs, cand[m].prev)

-----------------------------------------------------------------------------
(* The writer, under apply_lock *)

lock_free == writer.next = "none"

\* Bound of the model: a block is kept for every nonce found that may be taken.
room == Len(blocks) + Cardinality({m \in Miners :
                        /\ at[m] \in {"found", "submit", "stuck"}
                        /\ ~ spoiled(m) /\ ~ cand[m].early}) < MAX_BLOCKS

\* Mutant of Begin: the supply of the branch that is left is added to.
BeginOnTop(b, by) ==
  /\ blocks' = Append(blocks, b)
  /\ supply' = supply + b.claim
  /\ writer' = [next |-> "tip", by |-> by]
  /\ UNCHANGED <<tip, height>>

\* The new block is stored, and the supply, the first of the three, written.
Begin(b, by) ==
  /\ blocks' = Append(blocks, b)
  /\ supply' = Issued(b.prev) + b.claim
  /\ writer' = [next |-> "tip", by |-> by]
  /\ UNCHANGED <<tip, height>>

\* The tip, then the height, after which apply_lock is given back.
Publish ==
  \/ /\ writer.next = "tip"
     /\ tip' = Len(blocks)
     /\ writer' = [writer EXCEPT !.next = "height"]
     /\ UNCHANGED <<blocks, height, supply, pool, run_vars, miner_vars>>
  \/ /\ writer.next = "height"
     /\ height' = HeightOf(Len(blocks))
     /\ writer' = [next |-> "none", by |-> "nobody"]
     /\ UNCHANGED <<blocks, tip, supply, pool, run_vars, miner_vars>>

\* A peer's block connects to the tip, or wins with a branch that leaves ours
\* at some block below.  It confirms or contradicts payments this node may hold,
\* which stay in the mempool.
PeerBlock ==
  /\ lock_free
  /\ room
  /\ \E p \in Branch(tip) \cup {0}, txs \in SUBSET Payments :
       /\ usable(txs, p)
       /\ Begin([prev |-> p, height |-> HeightOf(p) + 1,
                 label |-> HeightOf(p) + 1,
                 claim |-> block_reward(HeightOf(p) + 1, Issued(p)),
                 txs |-> txs, by |-> "peer"], "peer")
  /\ UNCHANGED <<pool, run_vars, miner_vars>>

\* The wallet or a peer offers a payment whose output the UTXO set has (it is
\* written before the three).  accept also looks for a payment in the pool that
\* spends the same output, but inserts under another lock: two that come at the
\* same time both get in, so that the model asks nothing of the pool.
Offer(tx) ==
  /\ tx \in Offered \ pool
  /\ usable({tx}, Len(blocks))
  /\ pool' = pool \cup {tx}
  /\ UNCHANGED <<chain_vars, run_vars, miner_vars>>

-----------------------------------------------------------------------------
(* The mining threads *)

goto(m, l) == at' = [at EXCEPT ![m] = l]

set(m, c) == cand' = [cand EXCEPT ![m] = c]

\* Start of the CPU miner, with threads that are idle, no matter which.  A thread
\* of an earlier run that has not looked at the flag since goes on beside them.
StartCpu ==
  /\ ~ running["cpu"]
  /\ starts < MAX_STARTS
  /\ LET idle == {m \in Cpu : at[m] = "off"}
         new  == CHOOSE S \in SUBSET idle : Cardinality(S) = THREADS
     IN  /\ Cardinality(idle) >= THREADS
         /\ at' = [m \in Miners |-> IF m \in new THEN "head" ELSE at[m]]
  /\ running' = [running EXCEPT !["cpu"] = TRUE]
  /\ starts' = starts + 1
  /\ UNCHANGED <<chain_vars, pool, cand, believed>>

StartGpu ==
  /\ ~ running["gpu"]
  /\ starts < MAX_STARTS
  /\ \E m \in Gpu : at[m] = "off" /\ goto(m, "head")
  /\ running' = [running EXCEPT !["gpu"] = TRUE]
  /\ starts' = starts + 1
  /\ UNCHANGED <<chain_vars, pool, cand, believed>>

Stop(k) ==
  /\ running[k]
  /\ running' = [running EXCEPT ![k] = FALSE]
  /\ UNCHANGED <<chain_vars, pool, starts, miner_vars>>

\* The outer loop looks at the flag, and a candidate is begun with the tip.
ReadTip(m) ==
  /\ at[m] = "head"
  /\ IF running[kind(m)]
     THEN goto(m, "rest") /\ set(m, [NoCandidate EXCEPT !.prev = tip])
     ELSE goto(m, "off") /\ set(m, NoCandidate)
  /\ UNCHANGED <<chain_vars, pool, run_vars, believed>>

\* The median time of branch i may be ahead of this node's clock.  A block of
\* its own was stamped by that clock.
may_be_early(i) ==
  CLOCK_SET_BACK \/ \E b \in Branch(i) : blocks[b].by = "peer"

\* Mutant of ReadRest: the reward is taken for the height of the tip.
ReadRestOfTip(m) ==
  LET reward == block_reward(height, supply) IN
  /\ at[m] = "rest"
  /\ goto(m, IF m \in Gpu THEN "seen" ELSE "search")
  /\ \E early \in BOOLEAN :
       /\ early => may_be_early(cand[m].prev)
       /\ set(m, [cand[m] EXCEPT !.label = height + 1, !.claim = reward,
                                 !.txs = pool, !.early = early])
  /\ UNCHANGED <<chain_vars, pool, run_vars, believed>>

\* The height, the supply, the pool and the clock (not next_timestamp), one after
\* the other; in one step, since what a writer changes between these reads comes
\* with the tip this thread has, or makes that tip stale for good.  The GPU miner
\* asks for no block that pays nothing and looks again a second later.
ReadRest(m) ==
  LET reward == block_reward(height + 1, supply) IN
  /\ at[m] = "rest"
  /\ IF m \in Gpu /\ reward = 0
     THEN goto(m, "head") /\ set(m, NoCandidate)
     ELSE /\ goto(m, IF m \in Gpu THEN "seen" ELSE "search")
          /\ \E early \in BOOLEAN :
               /\ early => may_be_early(cand[m].prev)
               /\ set(m, [cand[m] EXCEPT !.label = height + 1, !.claim = reward,
                                         !.txs = pool, !.early = early])
  /\ UNCHANGED <<chain_vars, pool, run_vars, believed>>

\* tip_at_start, read after the candidate was built.
ReadTipAtStart(m) ==
  /\ at[m] = "seen"
  /\ goto(m, "search")
  /\ believed' = [believed EXCEPT ![m] = tip]
  /\ UNCHANGED <<chain_vars, pool, run_vars, cand>>

\* Mutant of outdated: the CPU miner does not look at the tip.
outdated_gpu_only(m) == m \in Gpu /\ believed[m] # tip

\* What makes the inner loop drop a candidate.
outdated(m) == IF m \in Gpu THEN believed[m] # tip ELSE cand[m].prev # tip

\* Mutant of Look: the inner loop leaves the flag to the outer one.
LookAtTipOnly(m) ==
  /\ at[m] \in {"search", "stuck"}
  /\ \/ outdated(m) /\ goto(m, "head") /\ set(m, NoCandidate)
     \/ ~ outdated(m) /\ at[m] = "stuck" /\ goto(m, "found") /\ UNCHANGED cand
     \/ /\ ~ outdated(m) /\ at[m] = "search"
        /\ goto(m, "head") /\ set(m, NoCandidate)
  /\ believed' = [believed EXCEPT ![m] = 0]
  /\ UNCHANGED <<chain_vars, pool, run_vars>>

\* Between two batches of nonces: the flag, the tip, the end of the nonces.
\* A CPU thread whose nonce was refused (stuck) has it still, and the nonces
\* never run out.
Look(m) ==
  /\ at[m] \in {"search", "stuck"}
  /\ \/ ~ running[kind(m)] /\ goto(m, "off") /\ set(m, NoCandidate)
     \/ /\ running[kind(m)] /\ outdated(m)
        /\ goto(m, "head") /\ set(m, NoCandidate)
     \/ /\ running[kind(m)] /\ ~ outdated(m)
        /\ at[m] = "stuck" /\ goto(m, "found") /\ UNCHANGED cand
     \/ /\ running[kind(m)] /\ ~ outdated(m)
        /\ at[m] = "search" /\ goto(m, "head") /\ set(m, NoCandidate)
  /\ believed' = [believed EXCEPT ![m] = 0]
  /\ UNCHANGED <<chain_vars, pool, run_vars>>

\* A batch holds a nonce.  The batch was begun before tip or flag moved on.
Find(m) ==
  /\ at[m] = "search"
  /\ room \/ spoiled(m) \/ cand[m].early
  /\ goto(m, "found")
  /\ UNCHANGED <<chain_vars, pool, run_vars, cand, believed>>

ReadSubmitHeight(m) ==
  /\ at[m] = "found"
  /\ goto(m, "submit")
  /\ believed' = [believed EXCEPT ![m] = height + 1]
  /\ UNCHANGED <<chain_vars, pool, run_vars, cand>>

\* apply_block and the checks of connect_tip; the height the coinbase names is
\* none of them.
fits(c, h) ==
  /\ h = height + 1
  /\ c.prev = tip
  /\ ~ c.early
  /\ usable(c.txs, tip)
  /\ c.claim =< block_reward(h, supply)

Submit(m) ==
  LET c == cand[m] IN
  /\ at[m] = "submit"
  /\ lock_free
  /\ IF fits(c, believed[m])
     THEN /\ Begin([prev |-> c.prev, height |-> believed[m],
                    label |-> c.label, claim |-> c.claim, txs |-> c.txs,
                    by |-> kind(m)], m)
          /\ goto(m, "won")
          /\ UNCHANGED cand
     ELSE /\ goto(m, IF m \in Gpu THEN "head" ELSE "stuck")
          /\ IF m \in Gpu THEN set(m, NoCandidate) ELSE UNCHANGED cand
          /\ UNCHANGED chain_vars
  /\ believed' = [believed EXCEPT ![m] = 0]
  /\ UNCHANGED <<pool, run_vars>>

\* apply_block has returned: the payments of the block leave the pool.  The
\* CPU thread's nonce is as good as before, so it looks at the tip first.
Won(m) ==
  /\ at[m] = "won"
  /\ writer.by # m
  /\ pool' = pool \ cand[m].txs
  /\ goto(m, IF m \in Gpu THEN "head" ELSE "stuck")
  /\ IF m \in Gpu THEN set(m, NoCandidate) ELSE UNCHANGED cand
  /\ UNCHANGED <<chain_vars, run_vars, believed>>

-----------------------------------------------------------------------------

MiningInit ==
  /\ blocks = << >>
  /\ tip = 0 /\ height = 0 /\ supply = INITIAL_REWARD
  /\ writer = [next |-> "none", by |-> "nobody"]
  /\ pool = {}
  /\ running = [k \in Kinds |-> FALSE]
  /\ starts = 0
  /\ at = [m \in Miners |-> "off"]
  /\ cand = [m \in Miners |-> NoCandidate]
  /\ believed = [m \in Miners |-> 0]

\* One step of a thread's own code.
Step(m) ==
  \/ ReadTip(m) \/ ReadRest(m) \/ ReadTipAtStart(m)
  \/ Look(m) \/ ReadSubmitHeight(m) \/ Submit(m) \/ Won(m)

MiningNext ==
  \/ Publish \/ PeerBlock \/ \E tx \in Payments : Offer(tx)
  \/ StartCpu \/ StartGpu \/ \E k \in Kinds : Stop(k)
  \/ \E m \in Miners : Step(m) \/ Find(m)

\* A thread that runs takes its next step: a batch of nonces ends, and so do
\* the locks others hold.  Nothing is assumed of luck (Find), of the peers or
\* of the user.
MiningFairness ==
  /\ WF_mining_vars(Publish)
  /\ \A m \in Miners : WF_mining_vars(Step(m))

MiningSpec == MiningInit /\ [][MiningNext]_mining_vars /\ MiningFairness

-----------------------------------------------------------------------------
(* Properties *)

\* The variables hold what their comments say.
MiningTypeOK ==
  /\ blocks \in Seq(Block)
  /\ Len(blocks) =< MAX_BLOCKS
  /\ tip \in 0..Len(blocks)
  /\ height \in Nat /\ supply \in 0..MAX_SUPPLY
  /\ writer \in [next : {"none", "tip", "height"},
                 by : Miners \cup {"peer", "nobody"}]
  /\ pool \subseteq Payments
  /\ running \in [Kinds -> BOOLEAN]
  /\ starts \in 0..MAX_STARTS
  /\ at \in [Miners -> {"off", "head", "rest", "seen", "search",
                       "found", "submit", "stuck", "won"}]
  /\ cand \in [Miners -> Candidate]
  /\ believed \in [Miners -> Nat]

\* The height a candidate names is not the one above its prev: a new tip was
\* read between the writes of tip and height.
torn(m) == cand[m].label # HeightOf(cand[m].prev) + 1

\* A nonce found on the present tip earns its block (build_candidate and
\* mine_loop against connect_tip), whatever was read between whose writes: what
\* is refused has a torn height, payments that cannot be made, or an early time.
\* The reward, above all, is never more than connect_tip grants.
WorkIsNotWasted ==
  \A m \in Miners :
    at[m] = "submit" /\ lock_free /\ cand[m].prev = tip
      /\ ~ torn(m) /\ ~ spoiled(m) /\ ~ cand[m].early
    => fits(cand[m], believed[m])

\* A thread whose tip was overtaken leaves its candidate, also when it holds a
\* nonce that is refused over and over, and when the GPU miner took the new
\* tip for the one it had built on.
StaleIsAbandoned ==
  \A m \in Miners :
    at[m] # "off" /\ cand[m].prev # tip ~> at[m] \in {"head", "off"}

\* The inner loop keeps a nonce apply_block refused and submits it again.  It
\* does so for ever only with a candidate that was faulty when it was built: with
\* any other, a thread comes back to the head of its loop again and again.
RefusalsEnd ==
  \A m \in Miners :
    []<>(at[m] \in {"head", "off"} \/ torn(m) \/ spoiled(m) \/ cand[m].early)

\* Once a miner is stopped for good every one of its threads ends, the ones an
\* earlier quick restart took over included: none is there for good.  (A miner
\* stopped after the last start stays stopped.)
StopIsObeyed ==
  \A m \in Miners :
    []<>(running[kind(m)] \/ starts < MAX_STARTS \/ at[m] = "off")

\* Stated by the test coinbase_txid_unique_per_height: the coinbases of this
\* wallet on one chain have different txids.  A txid depends on the height it
\* names, the amount and, through the witness commitment, the payments.
CoinbasesDiffer ==
  LET own == {i \in Branch(tip) : blocks[i].by # "peer"}
      txid(i) == <<blocks[i].label, blocks[i].claim, blocks[i].txs>>
  IN  \A i, j \in own : txid(i) = txid(j) => i = j
=============================================================================
