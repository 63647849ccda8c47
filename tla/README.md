# Verification of crypto-simulator

TLA+ models, TLC runs and TLAPS proofs about the node program in `src/`: a small
proof-of-work blockchain with a UTXO set, a memory pool, a miner and a TCP peer
network, stored in a bbolt database. Paths below are relative to `src/`.

## 1. The system

| component | state | operations | talks to |
|---|---|---|---|
| Chain store: `internal/blockchain/{blockchain,repository}.go` | buckets `blocks` (with the key `l`, the tip), `height_index`, `utxo`; in memory `bc.tip` and the LRU cache of `GetUTXOs` | `New`, `InitHeightIndex`, `CreateBlock`, `AddBlock`, `GetUTXOs`, `VerifyTransaction`, `GetBalance`, `LastBlock`, `CurrentHeight`, `GetBlock`, `GetBlockAtHeight` | called directly, without a mutex, by every other component |
| Consensus: `internal/blockchain/{consensus,helpers}.go` | the scratch database `fork.db` | `GetForkChain`, `ReorganizeChain`, `GetBlockLocator`, `FindCommonBlock`, `GetNextBlockHashes`, `adjustDifficulty` | chain store |
| Messages: `internal/p2p/server.go` | none of its own | `handleBlock`, `handleFork`, `handleTransaction`, `handleGetBlocks`, `handleInventory`, `handleGetData`, `handleSync` | chain store, pool, peers; one goroutine per connection |
| Peers: `internal/p2p/{node,peers}.go` | map of peers under `n.mu`, the connection semaphore, the `peers` bucket | `Connect`, `acceptConnections`, the two handshakes, `processMessages`, `ping`, `removePeer`, `SavePeers`, `LoadPeers` | TCP, chain database |
| Memory pool: `internal/mempool` | sharded map of transactions, a mutex per shard | `Add`, `Remove`, `Flush`, `HandleCoinbaseTxs` | chain store |
| Miner and CLI: `internal/app`, `internal/cli` | wallets, the stop channels | `mineNewBlock`, `mineBlock`, `handleSend`, `handleBalance`, `Shutdown` | pool, chain store, peers |
| Formats: `pkg/*` | none | hashes, proof of work, `IsValid`, signatures, serialisation | |

### What is hard

* **Shared state without a lock.** `bc.tip` and the cache are read and written by every
  goroutine. `CreateBlock` reads `bc.tip` three times or more; `handleBlock` reads the
  database four times before it writes; `GetUTXOs` reads the database and writes the cache
  in two steps. Only `Db.Update` calls exclude each other.
* **Memory that moves before the disk.** `addBlockToDb` sets `bc.tip` and purges the cache
  inside the transaction. Until the commit, other goroutines see a tip that is not stored,
  and after a failed one they keep seeing it.
* **Forks.** `handleFork` asks `GetForkChain` for a chain that starts at the new block, but
  looks for it in the node's own database, where it is not yet. The scratch chain therefore
  never wins, `ReorganizeChain` has no caller that reaches it, and every block that fits on
  some stored block becomes the tip. The UTXO set is shared by all branches.
* **Crashes.** The index is rewritten at each start in the order of the hashes, because the
  test for an empty index can never succeed.
* **Nil as an answer.** `LastBlock` and `GetBlockAtHeight` return nil for "not there";
  `handleFork`, `IsValid` and `adjustDifficulty` dereference what they get. Nothing
  recovers from a panic.

* **Two goroutines and one payment.** The pool is flushed shard by shard before a block is
  made, and the batch is dropped with the block if any of its payments has become bad.
* **Locks held while waiting.** `Broadcast` keeps `n.mu` while it writes to sockets, and
  `SavePeers` waits for `n.mu` inside `Db.Update`, while `Shutdown` closes the database.
* **The name of a peer.** The map of the peers has the address of the socket, `Connect` looks
  up the name the user gave, and the end of a session removes whatever the address has by then.

`PROJECT.json` lists these hazards at their lines, each with the properties that cover it or a
note that says why none does.

### What makes each component correct

* Chain store: the blocks form a tree of consecutive heights; tip, index and UTXO set agree
  with it after any interleaving, kill or failed commit; the memory agrees with the disk;
  every call ends.
* Consensus: the longest chain wins; a reorganisation leaves the UTXO set of the new branch;
  two nodes that synchronise end with the same blocks.
* Messages and pool: a valid transaction stays pending until it is in a block; a block that
  is refused costs nothing but its own connection.
* Peers: one session per peer, no session without an entry, the semaphore is given back.
* Application: a shutdown writes what it promises before the database closes.

## 2. Modules

| module | what it is |
|---|---|
| `ChainData` | constants and pure operators: blocks, transactions by what they spend and create, `UpdateUTXOSet`, `UTXOsOf`, `IsValid` |
| `BlockTree` | abstract specification of the store: a tree of blocks that grows, and a head inside it |
| `Ledger` | one node's chain: database, memory and goroutines, with kills and failed commits. Implements `BlockTree` |
| `MCLedger` | the small transactions, owners and batches TLC uses |
| `Sync` | the exchange of blocks between nodes: sessions, locators, inventories, requests, and the miners that announce |
| `MCSync` | two nodes for TLC |
| `Reorg` | `ReorganizeChain` as a function of the blocks `Ledger` stores |
| `PaymentLife` | abstract specification of the pool: a payment is pending, taken or confirmed |
| `Pool` | the pool between the handlers of the peers' messages, the user and the miner. Implements `PaymentLife` |
| `MCPool` | the coins, payments and shards TLC uses |
| `Lifecycle` | one run of the program from start to end: connections, the map of the peers, locks, the shutdown |
| `MCLifecycle` | one other host with two names |
| `Recursion` | lemmas about numbers, induction and recursive functions, which the proofs need |
| `BlockTreeProofs`, `LedgerProofs`, `ReorgProofs`, `SyncProofs`, `PoolProofs`, `LifecycleProofs` | the theorems |

`ChainData` is under `Ledger`, `Sync` and `Pool`. `Ledger` has the tree of blocks and one node's
interleavings, `Sync` several nodes with the node of `Ledger` reduced to its blocks, `Pool` the
payments with the tree reduced to "the tip moved", `Lifecycle` what has neither.

### Ledger and the code

The variables `blocks`, `dbTip`, `index` and `utxos` are the database; `tip` and `cache` are
the fields of `Blockchain`; `forkLocked` says that an error path left `fork.db` open; `net`
is what the peers have mined. Each goroutine has a label in `pc` and its local variables in
`job`. A step is what lies between two accesses to shared state:

| code | actions |
|---|---|
| `handleBlock`, `handleFork` | `HandleBlock`, `LookupPrevious`, `ReadLastBlock` or `LastBlockPanics` |
| `GetForkChain`, `isPotentialFork` | `NoForkFound`, `ForkReplayRejected`, `ForkReplayPanics` |
| `VerifyTransaction`, `GetUTXOs` | `GetUTXOsCached`, or `MissCache`, `ViewUTXOs`, `FillCache` |
| `AddBlock` after it, `addBlockToDb` | `CheckValid` or `IsValidPanics`, `RunUpdate`, `Commit` or `CommitFails` |
| `CreateBlock`, `adjustDifficulty` | `StartMining`, the verification, `AdjustDifficulty`, `ReadTimeSpan` or `TimeSpanPanics`, `ReadHeight`, `NewBlock`, and `AddBlock` again |
| `GetBalance`, `handleSend`, `Mempool.Add` | `StartRead` and the steps of `GetUTXOs` |
| process | `Kill`, `Restart` (`createGenesisBlock`, `createHeightIndex`) |

A goroutine that waits for the lock of `fork.db` has no enabled step: `bbolt.Open` is called
without a timeout.

What is abstracted:

* Hashes are natural numbers; only identity and order matter. The hash of a mined block is
  chosen when the mining starts, a fresh one.
* Amounts, signatures, timestamps, nonces and difficulties are left out. Of the four tests of
  `IsValid` only the height can fail then: the parent is looked up under the block's own
  `PreviousHash`, and blocks are not altered on the way. Peers run this program, so the heights
  of their blocks are sequential; what their payments spend may exist on another branch only.
* Coinbase transactions to one address are the same transaction, as their IDs are in the code
  (`NewCoinBaseTx` hashes the address and the amount): a later reward overwrites the outpoint of
  the earlier one.
* What the pool returns when it is flushed is any member of `Batch`.
* The inputs of a block are looked up in any order, and an input that two of its transactions
  share once: the same outcomes as the order of the code.
* Reads that are two machine steps but have the outcome of one (`bc.tip`, then the block stored
  under it) are one step. `bc.tip` is a slice, and an assignment to it is torn in theory; its
  length and capacity are the same for all hashes, so a torn read is not seen.
* `createHeightIndex` keeps the slice that `Bucket.Get` returned after its transaction has ended,
  which bbolt does not allow; the model has a copy of the hash.
* The replies of handlers, the clean-up of the pool after a block and the disconnection of a
  peer belong to other components.

### Sync and the code

`Sync` takes the network's side of what `Ledger` says of one node. A session is a pair `<<n, m>>`:
`session` is `n`'s end of the connection, `chan` what `n` wrote on it, in order, `syncing` the
goroutine that asks for blocks once, `job` what the goroutine that reads from it is doing. The
pair `<<n, n>>` is the miner of `n`.

| code | actions |
|---|---|
| `Connect`, handshakes, `setupPeerSession` | `Connect`, `SetupPeerSession`, `HandleSyncOnce` |
| `handleSync`, `GetBlockLocator` | `HandleSync` with `Locator` |
| `handleGetBlocks`, `FindCommonBlock`, `GetNextBlockHashes` | `HandleGetBlocks`, `GetNextBlockHash`, `SendInventory` |
| `handleInventory`, `collectUnknownBlockHashes` | `HandleInventory`, `CollectUnknownBlockHash`, `SendGetData` |
| `handleGetData`, `sendRequestedData` | `HandleGetData`, `SendRequestedData`, `AllReplied` |
| `handleBlock`, `handleFork` | `HandleBlock`, `LookupPrevious`, `ReadLastBlock`, `GetForkChain` |
| `AddBlock`, `addBlockToDb` | `CheckValid`, `RunUpdate`, `Commit` |
| `mineNewBlock`, `CreateBlock`, `Broadcast` | `StartMining`, `CheckMisfit`, `AddBlock`'s steps, `Broadcast` |
| a lost connection, a nil dereference | `Drop`, `Panic` |

What is abstracted, besides the hashes and contents of blocks as in `Ledger`:

* Blocks carry rewards only, so `AddBlock` accepts every block whose parent is stored and fits. The
  difficulty and the restart after a panic are `Ledger`'s subject: here a process that panics
  stays down.
* Commits succeed. After a failed one `bc.tip` names a block that is not stored, until the process
  panics over it or is restarted: `Ledger` and `Pool` have that.
* A locator is the set of its hashes, in which alone the answer depends on it.
* Both ends of a connection lose it at once, with everything under way, and two nodes have one
  connection at a time. Two that dial each other are `Lifecycle`'s subject.
* A write is finished at once: the buffers of TCP do not fill up.
* A node asks for blocks only. The IDs of payments, which the CLI announces, and the requests
  they cause are `Pool`'s subject.

### Pool and the code

`utxos` is the bucket, `cache` the cache of `GetUTXOs`, `pool` the shards, `stored` the payments
in stored blocks. `tip` says of the block that `bc.tip` names whether it is stored, being committed or
lost by a failed commit, and `parent` the same of the block the node mines on. `wallet` says whether the
node has one: without it `handleMiningReward` returns an error and nothing is mined. `told` has the own payments that were announced, `known` those the peers have.
`Handler` are the goroutines that read connections, `local` is the one of the CLI or, if `auto`
is TRUE, of `automaticMining`.

| code | actions |
|---|---|
| `handleTransaction`, `Mempool.Get`, `Mempool.Add` | `HandleTransaction`, `CheckPool`, `Add`, each after the steps of `VerifyTransaction` |
| `VerifyTransaction`, `GetUTXOs` | `GetUTXOsCached`, or `MissCache`, `ViewUTXOs`, `FillCache`; then `Judge` |
| `handleSend`, `createTransaction` | `HandleSend`, the steps of `GetUTXOs` with `CreateTransaction` at their end, `Add` |
| inventory of a payment, `getTransactionFromSource` | `SendRequestedData` |
| `handleBlock`, `AddBlock`, `removeFromMempool` | `HandleBlock`, `RunUpdate`, `Commit` or `CommitFails`, `RemoveFromMempool` |
| `HandleCoinbaseTxs`, `Flush` | `StartMining`, `FlushShard` with `Collect` |
| `CreateBlock`, `IsValid` | `ReadHeight`, `NewBlock`, `CheckMined` or `IsValidPanics`, `RunUpdate`, `Commit` or `CommitFails` |
| process | `Kill`, `Restart` |

What is abstracted:

* A payment is what it spends and creates. The amounts of `createTransaction` are the choice of
  the payment: the user asks for what its inputs cover.
* A signature is good, or one of those that `VerifySignature` splits in the wrong place because
  `big.Int.Bytes` drops leading zero bytes (`Short`). Signing again gives another signature, but
  the same payment here.
* The tree of blocks shows only in whether `bc.tip` moved between the two reads of
  `CreateBlock`, and whether the block it names is stored; the peers' blocks fit on a stored parent.
  A peer's block that comes while the tip is not stored ends the process, which is a `Kill`. Branches
  are `Ledger`'s subject.
* A node has a wallet when it starts or never gets one: `createwallet` is left out.
* Rewards of the node's and the peers' wallets are there from the start, one outpoint each, as a
  second reward to one address is the same outpoint.
* A payment that is not announced any more after a restart stays announced: peers may ask later.

### Lifecycle and the code

`slots` are the tokens in the channel `sem`, one of which `acceptConnections` takes before it waits for a
connection, `peers` the map `n.Peers`, `key` the address of
each connection, `open` the sockets. `main` says what the main goroutine does next, `pc` the same of
the others: a connection is unused, being dialled, in its handshake, in its session, or in
`Broadcast`. `n.mu` is taken when some goroutine is in `Broadcast`, bbolt's writer lock when one
is in `Db.Update` of `SavePeers`; a shorter critical section is one step that waits for the lock.

| code | actions |
|---|---|
| `NewNode`, `LoadPeers`, `ConnectBootstrapNodes` | `LoadPeer`, `CheckPeers`, `ConnectBootstrap` |
| `Connect` | `Call`, in those and in `HandleConnect`; `Dial` |
| `acceptConnections` | `Acquire`, `Accept` or `AcceptPanics`; the deferred calls in `End` |
| the two handshakes, `registerPeer` | `HandshakeFails`, `HandshakePanics`, `RegisterPeer` |
| `processMessages`, `removePeer` | `ReadFails`, `RemovePeer`, `RefuseBlock`, `AddBlockPanics` |
| `Broadcast` | `StartBroadcast`, `WriteToPeer`, `EndBroadcast` |
| `SavePeers`, `storePeers`, `schedulePeersSave` | `SavePeers`, `StorePeers`, `SaverEnds` |
| `App.Start`, `Node.Start`, `Shutdown`, `main` | `Start`, `Listen`, `Exit`, `Signal`, `ReceiveDone`, `Stop`, `Close`, `Leave` |

What is abstracted: pings, `LastSeen` and what the messages say (a session just ends or
not); the saved addresses, which are any set of hosts when the program starts; the commits of
blocks, which take the writer lock and wait for nothing with it; the automatic mode, which does
less than the CLI and knows only the signal. Which block is compared with one that the database lacks
is `Ledger`'s subject: here `AddBlockPanics` may happen at any time.

### Reorg and the code

`ReorganizeChain` is not called by any step: `GetForkChain` looks for the new block before it is
stored, and `isPotentialFork` closes `fork.db` before the chain in it would be read. `Reorg` has
the function itself over the stored blocks: `FindForkPoint` with `CollectChainHashes`, which gives
up after `DepthLimit` blocks (100 in the code), `CollectBlocksFrom`, `Rollback` with `UndoBlock` for
each block (`RestoreSpentOutputs` and `RemoveCreatedOutputs`), `ApplyNewBlocks`, and what goes back
into the pool. Its `Put` of the key `l`, the move of `bc.tip` and the purge of the cache are left out, as the
property is about the bucket, the index and the payments. What loops in the code is a recursive function. Both branches are read from the same
database. The variables are `Ledger`'s, and the
property is an invariant of its steps: TLC evaluates the function for every pair of branches of
every tree that `Ledger` reaches.

## 3. Properties and runs

The runs of the ledger use `MCLedger`. The node's wallet `alice` earns the output `c0`, its peers' wallet
`carol` the output `d0`; `tx` and `ty` both spend `c0`.

| run | instance | properties |
|---|---|---|
| `ledger_calls` | one goroutine that does everything, so calls do not overlap; 4 hashes, payments `tx` or `ty`, one kill, one failed commit | `IndexCovers`, `UtxoAccounting`, `SpendsBacked`, `CacheFresh`, `ReorgSwitches`, `OneBranchCoherent` |
| `ledger_race` | two goroutines that receive blocks, one of which mines as well; 4 hashes, the payment `tx`, no faults; the difficulty is adjusted at every block | `StoreConnected`, `PanicNeedsOverlap`, `ImplementsBlockTree` |
| `ledger_faults` | one goroutine that receives and one that mines, fair; 3 hashes, two kills, two failed commits | `TypeOK`, `TipCoherent`, `ForkDBReleased`, `OperationEnds` |

`Restart` and the panics are in all three. The properties say, in short:

* `StoreConnected`: all blocks but the genesis block are stored one height above a stored
  parent. It holds although `CreateBlock` may put the height of one tip and the hash of another
  into a block, because `IsValid` drops that block.
* `TipCoherent`: `bc.tip` is the database's tip, or the block in flight, or a block whose commit
  failed.
* `IndexCovers`: the index has a block of each height up to that of any stored block, through the
  restarts that write it anew in another order. Two unchecked dereferences rely on it. Which branch
  the block of a height is on may change, and no property is about that.
* `UtxoAccounting`, `SpendsBacked`: the UTXO bucket is explained by the stored blocks of all
  branches. The second, that an output is spent by no more blocks than created it, holds only
  when calls do not overlap: two goroutines may both verify against the state before the first
  commit.
* `CacheFresh`: the cache answers what the bucket would. Only without overlap (see below).
* `PanicNeedsOverlap`: no handler dereferences nil on its own; it takes an update in flight, a
  failed commit, or the same block stored during its own evaluation as a fork.
* `ReorgSwitches`: from the UTXO set and index of one branch `ReorganizeChain` makes those of any
  other, and gives back the payments of the old one only. The index is exact; for the rest the
  property names what the function gets wrong, and that it gets nothing else wrong. An output that
  was earned while the same outpoint was unspent (any miner's second reward, before the first is
  spent) is deleted with the second reward. An input that a block spent although its branch did
  not have it unspent is put back. And a payment that a branch has twice, since the reward it
  spends was earned again, may be given back although the new branch has it below the fork.
* `OneBranchCoherent`: as long as no two stored blocks have the same parent, the tip's chain is
  all there is and the bucket is its UTXO set, kills and failed commits or not. It takes calls
  that do not overlap: two goroutines that get the same block may apply it twice.
* `ForkDBReleased`: `fork.db` is closed when nobody looks at a fork. It holds with one receiver,
  whatever the miner stores meanwhile; `fork_db_leak` shows that two break it.
* `OperationEnds`: each operation ends, by a result, an error or the end of the process, or is
  in the search for a nonce (`block.Mine`), which need not end.
* `ImplementsBlockTree`: the database only grows by one block at a time with the head on it.

The runs of the exchange use `MCSync`, two nodes `a` and `b`:

| run | instance | properties |
|---|---|---|
| `sync_mesh` | both mine, two blocks besides the genesis block, inventories of two, one lost connection | `RequestsAnswerable`, `AnswersLeadOn`, `Quiesces`, `CatchUp` |

* `RequestsAnswerable`: a block that is announced, asked for or on its way is stored by the node
  that has to have it. `sendRequestedData` passes over what it does not find and nothing asks
  again, so a miner that announced before its commit would lose the block for its peers.
* `AnswersLeadOn`: the inventory that answers a locator is a path of blocks that begins above one
  the asker has. The locator may be out of date when it is read, may name a tip that is not stored
  yet, and skips blocks; the walk goes on in a store that grows. A chain of the asker that
  shares nothing with the locator's names is led on from the genesis block.
* `Quiesces`: the exchange ends. A block with an unknown parent makes the node ask again, so it
  could go on for ever.
* `CatchUp`: nodes that stay connected end up with the same blocks unless two blocks with the same
  parent divide them. It takes the request for what lies between: a `getblocks` that comes during
  an update is not answered and not repeated, and what was then mined on top arrives without its
  parent. After a fork the answer follows the branch of the least hashes, so blocks of the other
  may never be asked for; this is why the property excludes forks (`OneBranch`).

The run of the pool uses `MCPool`. Carol pays alice by `tv`, alice, whose wallet the node has, pays
on by `tx` and tries to pay by `tz`, whose signature is short:

| run | instance | properties |
|---|---|---|
| `pool_life` | one handler and the local goroutine, either mode, a wallet or none, two shards, blocks of the peers with `tv` or `tx`, kills and failed commits without bound | `TypeOK`, `InputsAccounted`, `RefusalNeedsCause`, `ImplementsPaymentLife`, `PoolDrains`, `ChainGrows` |

* `InputsAccounted`: what a payment in the pool or in the miner's hands spends is unspent, or a
  stored payment has spent it. `Mempool.Add` verifies against a cache that may be out of date, and
  inserts later; still there is no other way for a pending payment to go bad.
* `RefusalNeedsCause`: a process that goes on drops the miner's batch for one of four reasons: a
  payment spends what a stored one has spent, the tip moved between the two reads of
  `CreateBlock` or named no stored block, the answer of `GetUTXOs` is out of date, or the commit
  of the block failed. One bad payment costs all the others in the batch, but a batch is never lost
  without a cause.
* `ImplementsPaymentLife`: a pending payment stays so until a miner takes it, a block has it or the
  process ends; what a miner took is confirmed or given up as a whole. In particular a shard that
  is being filled while the next is flushed loses nothing, and `removeFromMempool`, which runs
  after the commit and outside of it, takes out only what is stored, although a payment may come
  in again before.
* `PoolDrains`, `ChainGrows`: in the automatic mode of a node with a wallet a pending payment leaves
  the pool, and the node keeps storing blocks until the process ends: a bad payment costs one batch and
  cannot come back to block the next. Both have a premise the code does not see to, `MineEnds`: every
  search for a nonce ends. `adjustDifficulty` holds seconds against nanoseconds and only ever raises
  the difficulty.

The run of the program's life uses `MCLifecycle`:

| run | instance | properties |
|---|---|---|
| `lifecycle` | three connections at a time from either side, one host known by two names, one slot, two descriptors | `TypeOK`, `EntriesLive`, `ReachableUnlessShared`, `SlotsBalance`, `PanicsExplained`, `ShutdownEnds` |

* `EntriesLive`: an entry of `n.Peers` is a connection with that address whose session has yet to remove
  it. Entries are overwritten by a second session and removed by the first that ends, by
  `RefuseBlock` and by `Broadcast`; none stays without a session.
* `ReachableUnlessShared`: a session over an open connection gets what is broadcast, unless its
  address had two sessions at a time. It may have: `Connect` checks and registers in two critical
  sections with a dial between them, and a name is not the address it resolves to. Then the
  end of one takes the entry of the other.
* `SlotsBalance`: the tokens in `sem` are those of the connections that peers dialled and that did not
  end yet, whatever way they ended, and the one that `acceptConnections` waits with.
* `PanicsExplained`: until `Done` is closed nothing works with what the shutdown closes. What panics
  before is a connection accepted without a descriptor left, while the listener is open, or a block
  compared with one that the open database lacks, which `PanicNeedsOverlap` of `Ledger` explains.
  After that a signal and the exit command both close `Done`, and `acceptConnections` and the handlers
  go on with a listener and a database that are closed.
* `ShutdownEnds`: the exit command or a signal ends the process. `Close` waits for the
  writer lock, its holder for `n.mu`, whose holder writes to sockets: no cycle.

Where the code does not do what the README of the repository says, a run finds the
counterexample:

| run | property | what happens |
|---|---|---|
| `tip_not_longest` | `LongestChainKept` | a block on a lower stored block becomes the tip; a shorter branch takes over ("Chain reorganization to handle longer competing chains") |
| `utxos_of_branch` | `UtxosOfTipBranch` | after a change of branch the UTXO set is still that of both ("Proper handling of spent outputs during chain reorganization") |
| `fork_db_leak` | `ForkDBReleased` | the same block from two peers: the second replays it into `fork.db`, fails, and leaves it locked ("Fork DB isolation to safely evaluate alternative chains") |
| `double_spend` | `NoDoubleSpend` | two payments with one input go through the checks of one block ("Transaction model similar to Bitcoin") |
| `cache_stale` | `CacheFresh` | a read from before a commit fills the cache after the purge ("In-memory LRU cache for frequently accessed UTXOs") |
| `sync_limit` | `CatchUp` | the peer's chain is longer than one inventory, nothing asks for the rest and the peer mines no more ("Decentralized node discovery and synchronization") |

**Bounds.** `Hash` bounds the blocks there may ever be: with three besides the genesis block
there are a chain of three, a fork of two branches of different length and two siblings.
`MaxKills` and `MaxFailures` bound faults: two of each suffice for a fault during the recovery
from another. `BlocksToAdjust` is 1 or 2 instead of 10, so that the adjustment is reached, and `DepthLimit` 2
instead of 100, so that there are branches that part further down, where the search goes on to the
genesis block; the theorem is for any.
`HashesInOrder`, an action constraint of the two runs with four hashes, lets new blocks take the least
free hash: hashes are compared only when the index is rebuilt, and siblings are still stored in
either order, so the index still goes either way. `MCSync` has the same constraint: there the
order matters between siblings, which either miner may be the first to make. `Limit` is 2 where the
code has 10, and as long as the chain; `sync_limit` has 1. Two blocks suffice for a block that
overtakes its parent and for a fork. Three nodes, or three blocks with a fork, are too many states;
what needs them, a block that comes from two peers (the panic in `GetForkChain`) or on one of two
siblings during its commit (the one in `CheckValid`), no run of `Sync` reaches. `Ledger`'s runs do.
`CHECK_DEADLOCK FALSE` is set because these runs end
when the hashes are used up or when all goroutines wait for `fork.db`, and in `lifecycle` because
the program ends.

In `pool_life` the payments form a chain, so that an output is created by one and spent by another
pending payment, and two conflicting uses come about by a payment that arrives twice: in the pool
after a block had it. With one handler and the local goroutine any two of the operations overlap;
two shards tell a flush from an atomic one. In `lifecycle` three connections are two sessions with one
address and a third that is begun while they end; a slot and two descriptors are both
exhausted with three. Neither run has a counter to bound.

**Fairness.** `OperationEnds` assumes weak fairness of each goroutine's steps: Go's scheduler
lets a goroutine that can run do so, and bbolt's writer lock is a `sync.Mutex`, which is not
starved. `Kill`, `Restart`, the starts of operations and `NewBlock`, which ends the search for a nonce, are
not fair. The run has one goroutine
that receives blocks, so `fork.db` is never left locked in it (`ForkDBReleased` is one of its
invariants, and `fork_db_leak` needs two). With two, an operation may wait for ever.
`Quiesces` and `CatchUp` assume it of each session's goroutines and of what follows the mining of a
block. A message that was written arrives, as TCP promises, unless the connection is lost. Nobody
has to connect, to mine, or to connect again.
`PoolDrains` and `ChainGrows` assume weak fairness of each goroutine, strong fairness of
`RunUpdate`, since the writer lock starves nobody although others take it again and again, and
that the ticker of the automatic mode fires. Payments need not come. `NewBlock` is not fair either: that
searches end is the premise `MineEnds`, a choice of runs and not of the scheduler.
`ShutdownEnds` assumes that the main goroutine goes on, that whichever goroutine is in `Broadcast` does
(each write has a deadline of ten seconds), and strong fairness of `StorePeers` and `Close`, which wait for a
mutex. No handshake, session or read has to end, nor the saver to come to its ticker.

**Mutants.** For every property of a passing run `PROJECT.json` names a slip in the code that
breaks it: an index entry or a tip not written, a cache not purged, the lock of `Db.Update`
missing, a height not compared, spent outputs kept or new ones forgotten, a block announced before
it is added, a stored block gone through again, an answer that starts from the last block when the
locator names none, an orphan dropped or asked for again instead of what lies before it, a shard copied under
one lock and emptied under another or left out of the flush, a batch put back after it was
refused, a token taken without a place for it, a token or an entry that is kept, an entry removed with its connection left open, a
`Broadcast` that locks twice, blocks rolled back in the wrong order.

## 4. Proofs

For any sets of nodes, goroutines, connections, hashes, addresses, transactions and batches and any
bounds, under the named assumptions of `ChainData`, `Ledger`, `Sync`, `Pool` and `Lifecycle` (types of the
constants; nil is no hash, block or outpoint; coinbase transactions spend nothing; there are
finitely many payments and connections) and, for `ReorgProofs`, `DepthAssumption` of `Reorg` (the depth
limit is a number above 0):

| theorem | statement |
|---|---|
| `TypeCorrect` | `Spec => []TypeOK` |
| `StoreStaysConnected` | `Spec => []StoreConnected` |
| `TipStaysCoherent` | `Spec => []TipCoherent` |
| `IndexAlwaysCovers` | `Spec => []IndexCovers` |
| `UtxosAccounted` | `Spec => []UtxoAccounting` |
| `PanicsNeedOverlap` | `Spec => PanicNeedsOverlap` |
| `Refinement` | `Spec => ImplementsBlockTree` |
| `SpendsBackedAlone` | `SpendsBacked` always holds if there is one goroutine |
| `OneBranchCoherentAlone` | so does `OneBranchCoherent` |
| `KeptUntilFork` | with one goroutine `LongestChainKept` and `UtxosOfTipBranch` hold until two stored blocks have the same parent |
| `SoloNeverForks` | a node without peers never has such blocks, so both hold for ever |
| `NoDoubleSpendAlone` | with one goroutine and no batch of conflicting payments `NoDoubleSpend` holds until two stored blocks have the same parent |
| `PanicsNeedFailureAlone` | with one goroutine a nil is dereferenced only after a failed commit |
| `ForkDBReleasedByOne` | `ForkDBReleased` always holds if one goroutine receives blocks |
| `ReorganizesEverywhere` | `Spec => []ReorgSwitches`, for any two branches of any length, without an assumption about them |
| `UpdateIsTheLoop` | the effect `UpdateUTXOSet` states of a block is that of the loop over its transactions |
| `SyncTypeCorrect`, `RequestsStayAnswerable` | `TypeOK` and `RequestsAnswerable` of `Sync` always hold |
| `AnswersAlwaysLeadOn` | `Spec => []AnswersLeadOn` |
| `StoresWholeChains` | a node that stores a block stores its chain down to the genesis block |
| `GetBlocksAnswered` | a request for blocks has an answer whenever the tip is stored, whatever its locator names |
| `PoolTypeCorrect`, `InputsStayAccounted` | `TypeOK` and `InputsAccounted` of `Pool` always hold |
| `PoolRefinement` | `Spec => ImplementsPaymentLife` |
| `RefusalsHaveCauses` | `Spec => RefusalNeedsCause` |
| `LifecycleTypeCorrect`, `EntriesStayLive`, `StaysReachable`, `SlotsStayBalanced` | `TypeOK`, `EntriesLive`, `ReachableUnlessShared`, `SlotsBalance` of `Lifecycle` always hold |
| `PanicsStayExplained` | `PanicsExplained` of `Lifecycle` always holds |
| `TreeHangsTogether` | the tree of `BlockTree` is connected, with consecutive heights and its head inside |

**Types.** `TypeOK` is not inductive: that a `job` has a block where a step reads one depends on
the label. `TypeInv` adds `Shape`, which says which operations go with which labels, and that
nothing runs in a process that is down.

**The chain store.** `StoreConnected` is not inductive either. `ChainInv` adds

* `Names`: a hash names one block, among the peers' blocks, the stored ones and those being
  mined, so that a block that is committed twice is the same block;
* `Ready`: a block in `update` or `commit` fits on a stored parent, since `CheckValid` saw it and
  blocks are never removed;
* `Lock`: one goroutine at a time is between the closure of `Db.Update` and the commit, which
  `TipCoherent` needs;
* `IndexCovers` and `UtxoAccounting`, which go along with the store;
* `Parents` and `Spans`, for the panics: the parent of a mined block is stored, in flight or
  failed; the time span starts at a height some stored block has.

Most steps move one goroutine and touch neither the database nor `bc.tip`. They are classed once
as `Begins` or `Continues`, and the invariant is shown for the classes; `PeerMines`, `RunUpdate`,
`Commit`, `CommitFails`, the stops and `Restart` have a lemma each. The theorems follow from
`ChainInvariant`. In the refinement a commit is `Adopt` of its hash; all other steps stutter.

**The exchange.** `RequestsAnswerable` speaks of messages, but a message is made from what a
goroutine gathered before: `SyncInv` adds `JobsSound`, that an inventory being gathered is the node's
own, that one being gone through is the peer's, and that a block about to be announced is stored.
Sending and receiving have a lemma each (`Sends`, `Receives`), as has a step of one goroutine
(`JobKeeps`); blocks are only added, so nothing that was answerable ceases to be.

`AnswersLeadOn` needs more: that the blocks mined anywhere are a tree (`Rooted`, with a rank that
falls from each block to its parent), that a node stores a block only with its parent (`Known`),
and that the tip is stored unless a goroutine is committing it (`Committing`), since otherwise
`RunUpdate` could take away a tip that a locator already named. Together they are `ChainInv`. From
them what a node has only grows (`Grows`), so that a locator under way goes on naming blocks of
its sender and a path goes on leading (`PathStays`). A step is classed by what it does to each channel
(`Delivers`) and to each goroutine (`HandsOn`).

**Calls that do not overlap.** With two goroutines `SpendsBacked` and `CacheFresh` are false
(`double_spend`, `cache_stale`). With one, `LoneInv` adds that an answer on its way into the cache
is what the bucket has (`LoneJob`), that the cache is empty during a commit, and that what a block
spends is unspent or yet to be looked up, while the block is not stored. A commit then adds one block to those
that spend an output only if it takes the output out of the bucket, and counting does the rest.

**What the findings take.** `LongestChainKept`, `UtxosOfTipBranch`, `NoDoubleSpend` and
`ForkDBReleased` are false in general (see above). The theorems about one goroutine say that they
have no other cause than the one the counterexample shows: a fork, two conflicting payments in a
batch, a second receiver. While there is no fork the stored blocks are the tip's chain, one for each
height, so the number of places in the chain is the number of blocks, and what holds of all
branches together, `UtxoAccounting` and `SpendsBacked`, holds of the tip's. For `SoloNeverForks`, what the
miner has in hand is on top of the tip from `NewBlock` to `Commit`, also after a failed commit, as
its parent is missing then and the block is not stored.

**The reorganisation.** `Reorg`'s functions loop over chains and over the transactions of blocks, so
the proofs take induction, and that there is a function with the equations of a recursive
definition. Both are in `Recursion`, in a form without operator parameters: a property is the set of
what has it, and induction is the least-number principle for the complement (`Induction`,
`RankInduction`, from the library's theorem that `<` on the numbers is well-founded); a recursion is
given by functions for its base, its next argument and its step, on a domain with a rank
(`Recursive`). Heights are the rank of blocks. Then, for each function, what it returns in closed form:
`Branch` is the set of blocks below, with one of each height; `CollectBlocksFrom` lists them downwards;
applying or undoing a list of blocks adds and removes sets of outpoints. `ReorganizesEverywhere` takes
the state at the fork point as the middle: undoing the old branch leads there, and applying the new
one leads on. `RollsBack` carries two bounds through the rollback, block by block: nothing of the state
at the fork point is missing but what was earned again, and nothing is there beside it but what was
spent without being there.
`Applies` keeps them through the replay: what `UpdateUTXOSet` makes of two sets differs in nothing in
which the sets did not.

**The pool.** A payment is verified once and stays for long, so `InputsAccounted` needs an argument
about every moment in between. It is that the set `Known` of what is unspent or was spent by a
stored payment never shrinks: a commit moves outpoints from one part to the other. The
inductive `Inv` says `InputsAccounted`, that the cache and every answer under way are part of `Known`
(`CacheKnown`), and that so is what a goroutine has looked up so far (`JobsOK`, which also says what
each label implies about the operation). In the refinement `FlushShard` is `Take` of what the shard
had, `Commit` is `Confirm` or `ConfirmElsewhere`, `RemoveFromMempool` is `Clear` or a stutter.

**The life of the program.** `Inv` joins the invariants with what they need of each other: which
connections this node dialled (`DialledKnown`, for the balance of the slots), that the main and the
node's goroutine end only after `Done` and `n.done` are closed (`EndsInOrder`, for the panics), and
that two sessions with one address are both in the history (`SharedKnown`, for the entries). Each
action has a lemma that it keeps `Inv`; `SlotsBalance` counts a set that changes by one connection
at a time.

**Only model-checked.** `OperationEnds`, `Quiesces`, `CatchUp`, `PoolDrains`, `ChainGrows` and
`ShutdownEnds`: liveness under fairness is out of the prover's reach. Every invariant and every action
property of the runs that pass is proved but `CacheFresh`: `SpendsBacked`, `OneBranchCoherent` and
`ForkDBReleased` under the condition each holds on. `CacheFresh` holds only of calls that do not overlap,
which nothing in the code sees to, and a proof under that condition would leave out the reader between
the purge and the commit (`cache_stale`).

## 5. Not modelled, and the plan

What a next step could add, in this order:

1. `Difficulty`: the arithmetic of `adjustDifficulty` and the comparison of targets.
2. `Payment`: coin selection and change with amounts, and the sums that `createOutputs` keeps.
3. A third node in `Sync`: a block is not passed on by the node that receives it, which the model
   of two nodes cannot show, and a payment is sent back and forth between peers that both pass it on.
4. Longer chains in `Sync`, with a state space reduced by letting a session's steps go together.
5. A proof that each node of `Sync` implements `BlockTree`, on the way to one specification that
   `Ledger` and `Sync` both implement.

Left out for good: serialisation and the encoding of message frames (no state, errors end the
session), wallet files, key generation, flags, the terminal.
