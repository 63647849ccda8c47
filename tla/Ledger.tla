------------------------------- MODULE Ledger -------------------------------
(***************************************************************************)
(* One node's chain: the bbolt database of internal/blockchain, the fields *)
(* of the Blockchain struct kept in memory beside it, and the goroutines   *)
(* that work on both: one per peer connection (handleBlock,                *)
(* handleTransaction) and the one that mines and pays (the CLI, or         *)
(* automaticMining). The Blockchain struct has no mutex: every goroutine   *)
(* reads bc.tip and the cache as it goes, each Db.View sees the last       *)
(* committed state and only Db.Update calls exclude each other. A step is  *)
(* what happens between two such reads or writes.                          *)
(*                                                                         *)
(* The process may be killed at any step, a commit may fail (the disk is   *)
(* full) and a nil dereference ends the process (no goroutine recovers).   *)
(***************************************************************************)
EXTENDS ChainData, FiniteSets

CONSTANTS
    Peer,           \* the goroutines that read a peer connection
    Local,          \* the goroutines that mine and pay
    Wallet,         \* the addresses of the node's own wallets
    PeerWallet,     \* the addresses the peers mine for
    Batch,          \* what a mempool flush may return: sequences of payments
    BlocksToAdjust, \* blocksToAdjust, the period of the difficulty adjustment
    MaxKills,       \* bound: how many times the process is killed
    MaxFailures     \* bound: how many commits fail

Worker == Peer \cup Local

\* The outpoints of which a balance query, a payment or a pending transaction may ask.
Queried == {o \in Outpoint : Owner[o] \in Wallet \/ \E t \in Tx : o \in Spends[t]}

ASSUME LedgerAssumption ==
    /\ Wallet \subseteq Miner
    /\ PeerWallet \subseteq Miner
    /\ Batch \subseteq Seq(Tx)
    /\ BlocksToAdjust \in Nat \ {0}
    /\ MaxKills \in Nat
    /\ MaxFailures \in Nat

VARIABLES
    net,        \* the blocks mined by the peers: hash -> Block
    blocks,     \* the blocks bucket: hash -> Block
    dbTip,      \* the key "l" of the blocks bucket
    index,      \* the height_index bucket: height -> hash
    utxos,      \* the keys of the utxo bucket
    tip,        \* bc.tip
    cache,      \* bc.utxoCache: address -> outpoints
    forkLocked, \* an error path left fork.db open: its file lock is never released
    status,     \* "up", "down" (killed) or "panic"
    kills,      \* how many times the process was killed
    failures,   \* how many commits failed
    failed,     \* the blocks whose commit failed since the process started
    pc,         \* what each goroutine does next
    job         \* the local variables of each goroutine

disk == <<blocks, dbTip, index, utxos>>
memory == <<tip, cache, forkLocked>>
fate == <<status, kills, failures, failed>>
vars == <<net, disk, memory, fate, pc, job>>

\* A goroutine that waits for a message, a command or the ticker.
NoJob == [op |-> "none", hash |-> Nil, block |-> Nil, todo |-> {}, input |-> Nil, seen |-> {}]

\* Continue goroutine w at a label, or let it return to its loop.
Goto(w, label) == pc' = [pc EXCEPT ![w] = label] /\ UNCHANGED job

Return(w) ==
    /\ pc' = [pc EXCEPT ![w] = "idle"]
    /\ job' = [job EXCEPT ![w] = NoJob]

\* A panic in any goroutine ends the process. The operating system drops the lock on fork.db.
StopProcess(how) ==
    /\ status' = how
    /\ pc' = [w \in Worker |-> "idle"]
    /\ job' = [w \in Worker |-> NoJob]
    /\ forkLocked' = FALSE
    /\ UNCHANGED <<net, disk, tip, cache, failures, failed>>

Panic == StopProcess("panic") /\ UNCHANGED kills

At(w, label) == status = "up" /\ pc[w] = label

Taken == DOMAIN net \cup DOMAIN blocks \cup failed \cup {job[w].hash : w \in Worker}

\* What CurrentHeight could get wrong: its error value where a default is due.
CurrentHeightMinusOne == IF tip \in DOMAIN blocks THEN blocks[tip].height ELSE -1

\* CurrentHeight: bc.tip is read and the block looked up, with 0 for a block not found.
CurrentHeight == IF tip \in DOMAIN blocks THEN blocks[tip].height ELSE 0

-----------------------------------------------------------------------------
(* The first start: createGenesisBlock, InitHeightIndex and an empty cache. *)

Init ==
    /\ net = [h \in {} |-> Nil]
    /\ blocks = [h \in {Genesis} |-> GenesisBlock]
    /\ dbTip = Genesis
    /\ index = [k \in {0} |-> Genesis]
    /\ utxos = Creates[GenesisTx]
    /\ tip = Genesis
    /\ cache = [a \in {} |-> {}]
    /\ forkLocked = FALSE
    /\ status = "up"
    /\ kills = 0
    /\ failures = 0
    /\ failed = {}
    /\ pc = [w \in Worker |-> "idle"]
    /\ job = [w \in Worker |-> NoJob]

-----------------------------------------------------------------------------
(* The environment: the peers mine on any block they know. They run this   *)
(* code, so heights are sequential, but what their payments spend may      *)
(* exist on another branch only, or on none.                               *)

PeerMines(h, p, a, b) ==
    /\ h \notin Taken
    /\ p \in DOMAIN net \cup DOMAIN blocks
    /\ LET parent == IF p \in DOMAIN blocks THEN blocks[p] ELSE net[p]
       IN  net' = Put(net, h, [height |-> parent.height + 1, prev |-> p,
                               txs |-> <<CoinbaseOf[a]>> \o b])
    /\ UNCHANGED <<disk, memory, fate, pc, job>>

-----------------------------------------------------------------------------
(* handleBlock up to the call of AddBlock.                                  *)

\* What handleBlock could get wrong: a block that is stored is gone through again.
HandleBlockAgain(w, h) ==
    /\ At(w, "idle")
    /\ h \in DOMAIN net
    /\ pc' = [pc EXCEPT ![w] = "previous"]
    /\ job' = [job EXCEPT ![w] = [NoJob EXCEPT !.op = "receive", !.hash = h, !.block = net[h],
                                               !.todo = InputsOf(net[h].txs)]]
    /\ UNCHANGED <<net, disk, memory, fate>>

\* A peer sends block h. Its first act is to look h up; a block that is stored is ignored.
HandleBlock(w, h) ==
    /\ At(w, "idle")
    /\ h \in DOMAIN net \ DOMAIN blocks
    /\ pc' = [pc EXCEPT ![w] = "previous"]
    /\ job' = [job EXCEPT ![w] = [NoJob EXCEPT !.op = "receive", !.hash = h, !.block = net[h],
                                               !.todo = InputsOf(net[h].txs)]]
    /\ UNCHANGED <<net, disk, memory, fate>>

\* The parent is looked up. If it is unknown the peer is asked for the blocks in between.
LookupPrevious(w) ==
    /\ At(w, "previous")
    /\ \/ job[w].block.prev \in DOMAIN blocks /\ Goto(w, "lastBlock")
       \/ job[w].block.prev \notin DOMAIN blocks /\ Return(w)
    /\ UNCHANGED <<net, disk, memory, fate>>

\* handleFork: a block whose parent is not the tip is looked at as a fork.
ReadLastBlock(w) ==
    /\ At(w, "lastBlock")
    /\ tip \in DOMAIN blocks
    /\ Goto(w, IF job[w].block.prev = tip THEN "verify" ELSE "forkChain")
    /\ UNCHANGED <<net, disk, memory, fate>>

\* lastBlock is nil when bc.tip names a block that is not stored, and is dereferenced.
LastBlockPanics(w) ==
    /\ At(w, "lastBlock")
    /\ tip \notin DOMAIN blocks
    /\ Panic

\* GetForkChain reads the chain of the new block from the node's own database, where the
\* block is not stored yet, so fork.db is opened with a genesis block, holds nothing else,
\* and loses against the last block (isPotentialFork). ReorganizeChain is never called.
NoForkFound(w) ==
    /\ At(w, "forkChain")
    /\ ~forkLocked
    /\ job[w].hash \notin DOMAIN blocks
    /\ Goto(w, "verify")
    /\ UNCHANGED <<net, disk, memory, fate>>

\* Another goroutine stored the same block since: it is added to fork.db, where nothing its
\* payments spend exists. The error path returns without closing fork.db.
ForkReplayRejected(w) ==
    /\ At(w, "forkChain")
    /\ ~forkLocked
    /\ job[w].hash \in DOMAIN blocks
    /\ InputsOf(job[w].block.txs) # {}
    /\ forkLocked' = TRUE
    /\ Return(w)
    /\ UNCHANGED <<net, disk, tip, cache, fate>>

\* The same without payments: the parent is not in fork.db and IsValid dereferences nil or,
\* when it is the genesis block, addBlockToDb uses a height_index bucket that fork.db lacks.
ForkReplayPanics(w) ==
    /\ At(w, "forkChain")
    /\ ~forkLocked
    /\ job[w].hash \in DOMAIN blocks
    /\ InputsOf(job[w].block.txs) = {}
    /\ Panic

-----------------------------------------------------------------------------
(* VerifyTransaction over the transactions of a block: each input is looked *)
(* up among the UTXOs of its owner.                                         *)

\* The answer of GetUTXOs is held against the input: it is done with, or the whole call
\* ends. For a query (op "read") the answer is all there is to it.
Judge(w, o, answer) ==
    IF job[w].op # "read" /\ o \in answer
    THEN /\ pc' = [pc EXCEPT ![w] = "verify"]
         /\ job' = [job EXCEPT ![w].todo = @ \ {o}, ![w].input = Nil, ![w].seen = {}]
    ELSE Return(w)

\* GetUTXOs finds the address in the cache.
GetUTXOsCached(w) ==
    /\ At(w, "verify")
    /\ \E o \in job[w].todo :
        /\ Owner[o] \in DOMAIN cache
        /\ Judge(w, o, cache[Owner[o]])
    /\ UNCHANGED <<net, disk, memory, fate>>

\* GetUTXOs misses the cache.
MissCache(w) ==
    /\ At(w, "verify")
    /\ \E o \in job[w].todo :
        /\ Owner[o] \notin DOMAIN cache
        /\ job' = [job EXCEPT ![w].input = o]
    /\ pc' = [pc EXCEPT ![w] = "view"]
    /\ UNCHANGED <<net, disk, memory, fate>>

\* It scans the utxo bucket as it is by now.
ViewUTXOs(w) ==
    /\ At(w, "view")
    /\ job' = [job EXCEPT ![w].seen = UTXOsOf(utxos, Owner[job[w].input])]
    /\ pc' = [pc EXCEPT ![w] = "fill"]
    /\ UNCHANGED <<net, disk, memory, fate>>

\* GetUTXOs puts what it found into the cache and returns it.
FillCache(w) ==
    /\ At(w, "fill")
    /\ cache' = Put(cache, Owner[job[w].input], job[w].seen)
    /\ Judge(w, job[w].input, job[w].seen)
    /\ UNCHANGED <<net, disk, tip, forkLocked, fate>>

\* GetBalance, handleSend and the check of a pending transaction (handleTransaction,
\* Mempool.Add) read the UTXOs of an address, here the owner of outpoint o.
StartRead(w, o) ==
    /\ At(w, "idle")
    /\ pc' = [pc EXCEPT ![w] = "verify"]
    /\ job' = [job EXCEPT ![w] = [NoJob EXCEPT !.op = "read", !.todo = {o}]]
    /\ UNCHANGED <<net, disk, memory, fate>>

-----------------------------------------------------------------------------
(* AddBlock after the verification, with addBlockToDb.                      *)

Verified(w, ops) == At(w, "verify") /\ job[w].todo = {} /\ job[w].op \in ops

\* What the check could get wrong: a block that fails is tried again.
CheckValidRetries(w) ==
    /\ Verified(w, {"receive", "mine"})
    /\ job[w].block.prev \in DOMAIN blocks
    /\ IsValid(job[w].block, blocks[job[w].block.prev])
    /\ Goto(w, "update")
    /\ UNCHANGED <<net, disk, memory, fate>>

\* IsValid against the stored parent. A block that fails is dropped.
CheckValid(w) ==
    /\ Verified(w, {"receive", "mine"})
    /\ job[w].block.prev \in DOMAIN blocks
    /\ IF IsValid(job[w].block, blocks[job[w].block.prev])
       THEN Goto(w, "update")
       ELSE Return(w)
    /\ UNCHANGED <<net, disk, memory, fate>>

\* The parent is not stored: IsValid dereferences nil.
IsValidPanics(w) ==
    /\ Verified(w, {"receive", "mine"})
    /\ job[w].block.prev \notin DOMAIN blocks
    /\ Panic

\* What the closure of Db.Update could get wrong: a cache that survives it, a tip set late.
RunUpdateNoPurge(w) ==
    /\ At(w, "update")
    /\ \A v \in Worker : pc[v] # "commit"
    /\ tip' = job[w].hash
    /\ Goto(w, "commit")
    /\ UNCHANGED <<net, disk, cache, forkLocked, fate>>

RunUpdateNoLock(w) ==
    /\ At(w, "update")
    /\ tip' = job[w].hash
    /\ cache' = [a \in {} |-> {}]
    /\ Goto(w, "commit")
    /\ UNCHANGED <<net, disk, forkLocked, fate>>

\* Db.Update lets one goroutine in. Its closure, addBlockToDb, sets bc.tip and purges the
\* cache while what it writes is not visible to anybody yet.
RunUpdate(w) ==
    /\ At(w, "update")
    /\ \A v \in Worker : pc[v] # "commit"
    /\ tip' = job[w].hash
    /\ cache' = [a \in {} |-> {}]
    /\ Goto(w, "commit")
    /\ UNCHANGED <<net, disk, forkLocked, fate>>

\* What the write of a block could get wrong: no entry in the height index, no tip.
CommitNoIndex(w) ==
    /\ At(w, "commit")
    /\ blocks' = Put(blocks, job[w].hash, job[w].block)
    /\ dbTip' = job[w].hash
    /\ utxos' = UpdateUTXOSet(utxos, job[w].block.txs)
    /\ Return(w)
    /\ UNCHANGED <<net, index, memory, fate>>

CommitNoTip(w) ==
    /\ At(w, "commit")
    /\ blocks' = Put(blocks, job[w].hash, job[w].block)
    /\ index' = Put(index, job[w].block.height, job[w].hash)
    /\ utxos' = UpdateUTXOSet(utxos, job[w].block.txs)
    /\ Return(w)
    /\ UNCHANGED <<net, dbTip, memory, fate>>

\* The transaction commits: block, tip, height index and UTXO set at once.
Commit(w) ==
    /\ At(w, "commit")
    /\ blocks' = Put(blocks, job[w].hash, job[w].block)
    /\ dbTip' = job[w].hash
    /\ index' = Put(index, job[w].block.height, job[w].hash)
    /\ utxos' = UpdateUTXOSet(utxos, job[w].block.txs)
    /\ Return(w)
    /\ UNCHANGED <<net, memory, fate>>

\* The commit fails: nothing is written, but bc.tip has moved.
CommitFails(w) ==
    /\ At(w, "commit")
    /\ failures < MaxFailures
    /\ failures' = failures + 1
    /\ failed' = failed \cup {job[w].hash}
    /\ Return(w)
    /\ UNCHANGED <<net, disk, memory, status, kills>>

-----------------------------------------------------------------------------
(* mineBlock and mineNewBlock: CreateBlock, then AddBlock on its result.    *)

\* The coinbase for address a goes before the flushed payments b, and all of them are
\* verified. h is the hash the search for a nonce will end with.
StartMining(w, h, a, b) ==
    /\ At(w, "idle")
    /\ h \notin Taken
    /\ pc' = [pc EXCEPT ![w] = "verify"]
    /\ LET txs == <<CoinbaseOf[a]>> \o b
       IN  job' = [job EXCEPT ![w] = [NoJob EXCEPT
                    !.op = "create", !.hash = h, !.todo = InputsOf(txs),
                    !.block = [height |-> 0, prev |-> Nil, txs |-> txs]]]
    /\ UNCHANGED <<net, disk, memory, fate>>

\* adjustDifficulty reads the height and, every BlocksToAdjust blocks, the time the last
\* ones took. The height read is kept in the block until CreateBlock reads its own.
AdjustDifficulty(w) ==
    /\ Verified(w, {"create"})
    /\ pc' = [pc EXCEPT ![w] = IF CurrentHeight > 0 /\ CurrentHeight % BlocksToAdjust = 0
                               THEN "timeSpan" ELSE "height"]
    /\ job' = [job EXCEPT ![w].block.height = CurrentHeight]
    /\ UNCHANGED <<net, disk, memory, fate>>

\* Both ends of the time span: LastBlock and GetBlockAtHeight.
SpanKnown(w) ==
    LET first == job[w].block.height - BlocksToAdjust
    IN  /\ tip \in DOMAIN blocks
        /\ first \in DOMAIN index
        /\ index[first] \in DOMAIN blocks

ReadTimeSpan(w) ==
    /\ At(w, "timeSpan")
    /\ SpanKnown(w)
    /\ Goto(w, "height")
    /\ UNCHANGED <<net, disk, memory, fate>>

\* One of them is nil and its time stamp is read.
TimeSpanPanics(w) ==
    /\ At(w, "timeSpan")
    /\ ~SpanKnown(w)
    /\ Panic

ReadHeight(w) ==
    /\ At(w, "height")
    /\ pc' = [pc EXCEPT ![w] = "newBlock"]
    /\ job' = [job EXCEPT ![w].block.height = CurrentHeight + 1]
    /\ UNCHANGED <<net, disk, memory, fate>>

\* block.New reads bc.tip once more; the block is mined, for as long as that takes, and handed
\* to AddBlock.
NewBlock(w) ==
    /\ At(w, "newBlock")
    /\ pc' = [pc EXCEPT ![w] = "verify"]
    /\ job' = [job EXCEPT ![w].op = "mine", ![w].block.prev = tip,
                          ![w].todo = InputsOf(job[w].block.txs)]
    /\ UNCHANGED <<net, disk, memory, fate>>

-----------------------------------------------------------------------------
(* The process ends and starts again.                                       *)

Kill ==
    /\ status = "up"
    /\ kills < MaxKills
    /\ kills' = kills + 1
    /\ StopProcess("down")

Heights == {blocks[h].height : h \in DOMAIN blocks}

\* New and InitHeightIndex. New keeps the slice that Bucket.Get returned for "l" as bc.tip, which
\* bbolt guarantees until the end of the transaction only: here bc.tip is a copy. The index is
\* taken for empty, since its keys are decimal strings and never the byte 0, and every stored
\* block is put into it in the order of the hashes: the last one of a height stays.
Restart ==
    /\ status # "up"
    /\ status' = "up"
    /\ tip' = dbTip
    /\ cache' = [a \in {} |-> {}]
    /\ failed' = {}
    /\ \E last \in [Heights -> DOMAIN blocks] :
        /\ \A k \in Heights : blocks[last[k]].height = k
        /\ \A h \in DOMAIN blocks : h <= last[blocks[h].height]
        /\ index' = [k \in DOMAIN index \cup Heights |->
                        IF k \in Heights THEN last[k] ELSE index[k]]
    /\ UNCHANGED <<net, blocks, dbTip, utxos, forkLocked, kills, failures, pc, job>>

-----------------------------------------------------------------------------
\* A goroutine goes on with what it is doing, other than searching for a nonce.
Step(w) ==
    \/ LookupPrevious(w)
    \/ ReadLastBlock(w)
    \/ LastBlockPanics(w)
    \/ NoForkFound(w)
    \/ ForkReplayRejected(w)
    \/ ForkReplayPanics(w)
    \/ GetUTXOsCached(w)
    \/ MissCache(w)
    \/ ViewUTXOs(w)
    \/ FillCache(w)
    \/ CheckValid(w)
    \/ IsValidPanics(w)
    \/ RunUpdate(w)
    \/ Commit(w)
    \/ CommitFails(w)
    \/ AdjustDifficulty(w)
    \/ ReadTimeSpan(w)
    \/ TimeSpanPanics(w)
    \/ ReadHeight(w)

Next ==
    \/ \E h \in Hash, p \in Hash, a \in PeerWallet, b \in Batch : PeerMines(h, p, a, b)
    \/ \E w \in Peer, h \in Hash : HandleBlock(w, h)
    \/ \E w \in Worker, o \in Queried : StartRead(w, o)
    \/ \E w \in Local, h \in Hash, a \in Wallet, b \in Batch : StartMining(w, h, a, b)
    \/ \E w \in Worker : Step(w) \/ NewBlock(w)
    \/ Kill
    \/ Restart

Spec == Init /\ [][Next]_vars

\* Go's scheduler is fair to a goroutine that can run, and bbolt's writer lock is handed on.
\* Nothing is assumed of NewBlock: Mine tries nonces without a limit, at a difficulty that every
\* adjustment raises, since adjustDifficulty holds seconds against nanoseconds.
Fairness == \A w \in Worker : WF_vars(Step(w))

FairSpec == Spec /\ Fairness
-----------------------------------------------------------------------------
(* Properties.                                                              *)

InFlight == {w \in Worker : pc[w] = "commit"}

\* The local variables of a goroutine. op says what it is doing: it received a block, creates
\* one (CreateBlock), adds the one it mined (AddBlock) or reads UTXOs.
Job == [op : {"none", "receive", "create", "mine", "read"},
        hash : Hash \cup {Nil},
        block : Block \cup {Nil},
        todo : SUBSET Outpoint,
        input : Outpoint \cup {Nil},
        seen : SUBSET Outpoint]

Labels == {"idle", "previous", "lastBlock", "forkChain", "verify", "view", "fill", "update", "commit",
           "timeSpan", "height", "newBlock"}

\* Every variable has its type. The buckets are partial functions on the hashes, heights and
\* addresses there are (createGenesisBlock, addBlockToDb, GetUTXOs).
TypeOK ==
    /\ DOMAIN net \subseteq Hash /\ \A h \in DOMAIN net : net[h] \in Block
    /\ DOMAIN blocks \subseteq Hash /\ \A h \in DOMAIN blocks : blocks[h] \in Block
    /\ dbTip \in Hash
    /\ DOMAIN index \subseteq Nat /\ \A k \in DOMAIN index : index[k] \in Hash
    /\ utxos \subseteq Outpoint
    /\ tip \in Hash
    /\ DOMAIN cache \subseteq Addr /\ \A a \in DOMAIN cache : cache[a] \subseteq Outpoint
    /\ forkLocked \in BOOLEAN
    /\ status \in {"up", "down", "panic"}
    /\ kills \in 0..MaxKills
    /\ failures \in 0..MaxFailures
    /\ failed \subseteq Hash
    /\ pc \in [Worker -> Labels]
    /\ job \in [Worker -> Job]

\* The stored blocks form a chain store: the genesis block is there as it was made, every
\* other block was stored on a stored parent one height below it, and the database's tip is
\* one of them (AddBlock, addBlockToDb), in spite of heights and parents that CreateBlock
\* reads at different moments.
StoreConnected ==
    /\ dbTip \in DOMAIN blocks
    /\ Genesis \in DOMAIN blocks /\ blocks[Genesis] = GenesisBlock
    /\ \A h \in DOMAIN blocks \ {Genesis} :
        /\ blocks[h].prev \in DOMAIN blocks
        /\ blocks[h].height = blocks[blocks[h].prev].height + 1

\* bc.tip is the database's tip unless an update is in flight, when it already is the new
\* block, or a commit failed since the process started (addBlockToDb sets it before the
\* commit). With neither, LastBlock finds a block.
TipCoherent ==
    status = "up" =>
        /\ \A w \in InFlight : tip = job[w].hash
        /\ InFlight = {} => tip = dbTip \/ tip \in failed

\* GetBlockAtHeight finds some stored block of the height asked for at every height up to the
\* one of any stored block: the nodes' handshake (height 0) and adjustDifficulty dereference the
\* result unchecked. Of which branch it is may change: a fork, or the rebuild of the index by a
\* restart, may give a height to a block that is not on the tip's branch.
IndexCovers ==
    \A h \in DOMAIN blocks : \A k \in 0..blocks[h].height :
        /\ k \in DOMAIN index
        /\ index[k] \in DOMAIN blocks
        /\ blocks[index[k]].height = k

Created == UNION {OutputsOf(blocks[h].txs) : h \in DOMAIN blocks}
Spent == UNION {InputsOf(blocks[h].txs) : h \in DOMAIN blocks}

\* The UTXO bucket is explained by the stored blocks, of all branches together: it holds
\* every output that no stored block spends, and nothing that no stored block creates
\* (updateUTXOSet in the same transaction as the block).
UtxoAccounting ==
    /\ Created \ Spent \subseteq utxos
    /\ utxos \subseteq Created

\* No nil is dereferenced unless two goroutines got in each other's way or a commit failed
\* before: bc.tip named a block that was not committed, or the same block was delivered
\* twice and stored between two lookups of handleBlock. On its own no handler panics.
PanicNeedsOverlap ==
    [][status = "up" /\ status' = "panic" =>
        \/ failed # {}
        \/ InFlight # {}
        \/ \E w \in Worker : pc[w] = "forkChain" /\ job[w].hash \in DOMAIN blocks]_vars

\* When calls do not overlap, an outpoint is spent by no more blocks than created it, and by
\* fewer as long as it is in the bucket, over all branches: what one block spent the next
\* one is refused (VerifyTransaction against the cache and the bucket, updateUTXOSet).
SpendsBacked ==
    \A o \in Outpoint :
        LET spenders == {h \in DOMAIN blocks : o \in InputsOf(blocks[h].txs)}
            makers == {h \in DOMAIN blocks : o \in OutputsOf(blocks[h].txs)}
        IN  Cardinality(spenders) + (IF o \in utxos THEN 1 ELSE 0) <= Cardinality(makers)

\* The branch that ends at a block, as the set of its hashes.
Branch[h \in DOMAIN blocks] == IF h = Genesis THEN {h} ELSE {h} \cup Branch[blocks[h].prev]

\* On the branch of the tip no outpoint is spent by more transactions than created it.
NoDoubleSpend ==
    LET places == UNION {{h} \X DOMAIN blocks[h].txs : h \in Branch[dbTip]}
        txAt(pl) == blocks[pl[1]].txs[pl[2]]
    IN  \A o \in Outpoint :
            Cardinality({pl \in places : o \in Spends[txAt(pl)]})
                <= Cardinality({pl \in places : o \in Creates[txAt(pl)]})

\* A cached answer of GetUTXOs is what the bucket would answer.
CacheFresh == \A a \in DOMAIN cache : cache[a] = UTXOsOf(utxos, a)

\* The tip is a block of the greatest height there is: a longer chain is kept, and a longer
\* competing chain takes over (handleFork, ReorganizeChain).
LongestChainKept ==
    status = "up" /\ InFlight = {} /\ failed = {} =>
        \A h \in DOMAIN blocks : blocks[h].height <= CurrentHeight

\* The UTXO set of a branch, replayed from the genesis block.
BranchUTXOs[h \in DOMAIN blocks] ==
    IF h = Genesis THEN Creates[GenesisTx]
    ELSE UpdateUTXOSet(BranchUTXOs[blocks[h].prev], blocks[h].txs)

\* The UTXO bucket is the UTXO set of the branch the tip is on: what orphaned blocks spent is
\* unspent again (restoreSpentOutputs, removeCreatedOutputs).
UtxosOfTipBranch == utxos = BranchUTXOs[dbTip]

\* No two stored blocks were built on the same block.
Unforked == \A g, h \in DOMAIN blocks \ {Genesis} : blocks[g].prev = blocks[h].prev => g = h

\* As long as there is no fork the database is that of one branch: the tip is its last block
\* and the bucket its UTXO set, whatever kills, failed commits and refused blocks come between
\* (addBlockToDb). A block that is delivered twice at once breaks it: stored late a second time,
\* it takes the tip back and creates anew what was spent since.
OneBranchCoherent ==
    Unforked =>
        /\ Branch[dbTip] = DOMAIN blocks
        /\ utxos = BranchUTXOs[dbTip]

\* fork.db is closed whenever nobody evaluates a fork.
ForkDBReleased == ~forkLocked

\* A goroutine that started an operation ends it, by a result, an error or the end of the
\* process, unless it is left searching for a nonce, which nothing limits (Mine). It waits for
\* bbolt's writer lock and for the lock of fork.db. What it does with a mined block ends too.
OperationEnds == \A w \in Worker : pc[w] # "idle" ~> pc[w] \in {"idle", "newBlock"}

Tree == INSTANCE BlockTree WITH
            tree <- [h \in DOMAIN blocks |->
                        [height |-> blocks[h].height, prev |-> blocks[h].prev]],
            head <- dbTip

\* The database is a block tree that only grows, with a head inside: crashes, failed
\* commits, restarts and racing goroutines are steps of it or change nothing of it.
ImplementsBlockTree == Tree!Spec
=============================================================================
