-------------------------------- MODULE Pool --------------------------------
(***************************************************************************)
(* The life of a payment in one node: the sharded pool of internal/mempool *)
(* between the goroutines that fill and clean it (handleTransaction and    *)
(* handleBlock, one per peer connection) and the one that pays and mines   *)
(* (the CLI, or automaticMining), over the UTXO bucket and its cache. The  *)
(* pool has one mutex per shard and is in memory only; the payments in it  *)
(* are verified when they enter, and again with the block they end up in.  *)
(*                                                                         *)
(* A step is what happens between two reads or writes of the bucket, the   *)
(* cache or a shard. Which block extends which is Ledger's subject: here a *)
(* block is its transactions, and the tip shows only in whether it moved   *)
(* and whether the block it names is stored: a commit may fail.            *)
(***************************************************************************)
EXTENDS ChainData, FiniteSets

CONSTANTS
    Handler,    \* the goroutines that read a peer connection
    local,      \* the goroutine of the CLI or of automaticMining
    Wallet,     \* the address the node mines for
    PeerMiner,  \* the address the peers mine for
    Payment,    \* the transactions that are no coinbase
    Own,        \* the payments of the node's own wallets
    Short,      \* those whose signature lost a leading zero byte: it is split in the wrong place
    PeerBlock,  \* the payments a peer's block may hold, as sequences
    Shards,     \* the number of shards
    ShardOf     \* the shard of a payment, by a hash of its ID

ASSUME PoolAssumption ==
    /\ local \notin Handler
    /\ Wallet \in Miner /\ PeerMiner \in Miner
    /\ Payment \subseteq Tx /\ IsFiniteSet(Payment)
    /\ \A a \in Miner : CoinbaseOf[a] \notin Payment
    /\ Own \subseteq Payment
    /\ Short \subseteq Own /\ \A t \in Short : Spends[t] # {}
    /\ PeerBlock \subseteq Seq(Payment)
    /\ Shards \in Nat \ {0}
    /\ ShardOf \in [Payment -> 1..Shards]

Worker == Handler \cup {local}

VARIABLES
    auto,       \* automaticMining runs, not the CLI
    wallet,     \* the node has a wallet (createwallet, which makes one, is left out)
    up,         \* the process runs
    utxos,      \* the keys of the utxo bucket
    cache,      \* bc.utxoCache: address -> outpoints
    stored,     \* the payments in stored blocks
    tip,        \* the block that bc.tip names: "stored", "coming" (its update is under way)
                \* or "lost" (its commit failed)
    parent,     \* the same for the parent of the block the node mines
    pool,       \* the shards of the pool, each a set of payments
    told,       \* the own payments announced to the peers by their ID
    known,      \* the payments the peers have
    pc,         \* what each goroutine does next
    job         \* the local variables of each goroutine

process == <<auto, wallet, up>>
chain == <<utxos, stored, tip, parent>>
news == <<told, known>>
vars == <<process, chain, cache, pool, news, pc, job>>

\* A goroutine that waits for a message, a command or the ticker.
NoJob == [op |-> "none", txs |-> <<>>, todo |-> {}, input |-> Nil, seen |-> {},
          moved |-> FALSE, shard |-> 0]

Return(w) ==
    /\ pc' = [pc EXCEPT ![w] = "idle"]
    /\ job' = [job EXCEPT ![w] = NoJob]

At(w, label) == up /\ pc[w] = label

Pending == UNION {pool[i] : i \in 1..Shards}

PaymentsOf(txs) == {txs[i] : i \in DOMAIN txs} \cap Payment

\* What getShard could get wrong: every payment in the first shard but one.
FirstShard(t) == 1

\* getShard
Shard(t) == ShardOf[t]

\* The orders in which a Go map may be ranged over.
Orders(S) == {s \in [1..Cardinality(S) -> S] : {s[i] : i \in DOMAIN s} = S}

-----------------------------------------------------------------------------
\* The peers and a node with a wallet have mined a block each, and the process starts.
Init ==
    /\ auto \in BOOLEAN
    /\ wallet \in BOOLEAN
    /\ up = TRUE
    /\ utxos = Creates[GenesisTx] \cup Creates[CoinbaseOf[PeerMiner]]
               \cup (IF wallet THEN Creates[CoinbaseOf[Wallet]] ELSE {})
    /\ tip = "stored"
    /\ parent = "stored"
    /\ cache = [a \in {} |-> {}]
    /\ stored = {}
    /\ pool = [i \in 1..Shards |-> {}]
    /\ told = {}
    /\ known = Payment \ Own
    /\ pc = [w \in Worker |-> "idle"]
    /\ job = [w \in Worker |-> NoJob]

-----------------------------------------------------------------------------
(* VerifyTransaction over all the inputs of what a goroutine holds, and the *)
(* read of GetUTXOs that a payment is built from.                           *)

Verify(w, op, txs) ==
    /\ pc' = [pc EXCEPT ![w] = "verify"]
    /\ job' = [job EXCEPT ![w] = [NoJob EXCEPT !.op = op, !.txs = txs, !.todo = InputsOf(txs)]]

Verified(w, ops) == At(w, "verify") /\ job[w].todo = {} /\ job[w].op \in ops

\* The signature of an input is good if its two halves are the numbers that were signed.
Signed(w, o) == \A t \in PaymentsOf(job[w].txs) \cap Short : o \notin Spends[t]

\* createTransaction: the answer of GetUTXOs has all the outputs the payment is to spend, so
\* that selectInputs covers the amount and createOutputs gives back the rest.
CreateTransaction(w, answer) == job[w].todo \subseteq answer

\* GetUTXOs has answered for the owner of outpoint o. handleSend goes on to Mempool.Add if
\* the answer has all that the payment is to spend, a verification to the next input.
Judge(w, o, answer) ==
    \/ /\ job[w].op = "select"
       /\ CreateTransaction(w, answer)
       /\ Verify(w, "add", job[w].txs)
    \/ /\ job[w].op # "select"
       /\ o \in answer
       /\ Signed(w, o)
       /\ pc' = [pc EXCEPT ![w] = "verify"]
       /\ job' = [job EXCEPT ![w].todo = @ \ {o}, ![w].input = Nil, ![w].seen = {}]
    \/ /\ IF job[w].op = "select" THEN ~CreateTransaction(w, answer)
                                  ELSE ~(o \in answer /\ Signed(w, o))
       /\ Return(w)

\* What a refusal could get wrong: the payments of the batch go back into the pool.
GetUTXOsCachedPutsBack(w) ==
    /\ At(w, "verify")
    /\ \E o \in job[w].todo :
        /\ Owner[o] \in DOMAIN cache
        /\ Judge(w, o, cache[Owner[o]])
        /\ pool' = [i \in 1..Shards |-> pool[i] \cup
                        {t \in PaymentsOf(job[w].txs) : /\ job[w].op \in {"create", "mine"}
                                                       /\ o \notin cache[Owner[o]]
                                                       /\ ShardOf[t] = i}]
    /\ UNCHANGED <<process, chain, cache, news>>

\* GetUTXOs finds the address in the cache.
GetUTXOsCached(w) ==
    /\ At(w, "verify")
    /\ \E o \in job[w].todo :
        /\ Owner[o] \in DOMAIN cache
        /\ Judge(w, o, cache[Owner[o]])
    /\ UNCHANGED <<process, chain, cache, pool, news>>

\* It misses the cache, scans the bucket as it is by now, and fills the cache.
MissCache(w) ==
    /\ At(w, "verify")
    /\ \E o \in job[w].todo :
        /\ Owner[o] \notin DOMAIN cache
        /\ job' = [job EXCEPT ![w].input = o]
    /\ pc' = [pc EXCEPT ![w] = "view"]
    /\ UNCHANGED <<process, chain, cache, pool, news>>

ViewUTXOs(w) ==
    /\ At(w, "view")
    /\ job' = [job EXCEPT ![w].seen = UTXOsOf(utxos, Owner[job[w].input])]
    /\ pc' = [pc EXCEPT ![w] = "fill"]
    /\ UNCHANGED <<process, chain, cache, pool, news>>

FillCache(w) ==
    /\ At(w, "fill")
    /\ cache' = Put(cache, Owner[job[w].input], job[w].seen)
    /\ Judge(w, job[w].input, job[w].seen)
    /\ UNCHANGED <<process, chain, pool, news>>

-----------------------------------------------------------------------------
(* Payments come in.                                                        *)

\* handleTransaction: a peer sends payment t. It is verified, looked up in the pool and
\* verified again by Mempool.Add.
HandleTransaction(w, t) ==
    /\ At(w, "idle")
    /\ t \in known
    /\ Verify(w, "check", <<t>>)
    /\ UNCHANGED <<process, chain, cache, pool, news>>

CheckPool(w) ==
    /\ Verified(w, {"check"})
    /\ LET t == job[w].txs[1]
       IN  IF t \in pool[Shard(t)] THEN Return(w) ELSE Verify(w, "add", <<t>>)
    /\ UNCHANGED <<process, chain, cache, pool, news>>

\* handleSend: the user sends an amount that createTransaction covers by the inputs of t.
HandleSend(t) ==
    /\ At(local, "idle")
    /\ ~auto /\ wallet
    /\ t \notin told
    /\ Verify(local, "select", <<t>>)
    /\ UNCHANGED <<process, chain, cache, pool, news>>

\* What Mempool.Add could get wrong: it takes anything.
AddUnverified(w) ==
    /\ At(w, "verify")
    /\ job[w].op = "add"
    /\ LET t == job[w].txs[1]
       IN  /\ pool' = [pool EXCEPT ![Shard(t)] = @ \cup {t}]
           /\ told' = IF w = local THEN told \cup {t} ELSE told
    /\ Return(w)
    /\ UNCHANGED <<process, chain, cache, known>>

\* Mempool.Add puts the payment into its shard. A peer's payment is sent on, to its sender
\* too; the ID of an own one is announced.
Add(w) ==
    /\ Verified(w, {"add"})
    /\ LET t == job[w].txs[1]
       IN  /\ pool' = [pool EXCEPT ![Shard(t)] = @ \cup {t}]
           /\ told' = IF w = local THEN told \cup {t} ELSE told
    /\ Return(w)
    /\ UNCHANGED <<process, chain, cache, known>>

\* A peer that does not know the ID announced asks for it (handleInventory of the peer,
\* handleGetData here). It gets the payment from the pool or from a block. While the
\* payment is being mined it is in neither, and the request is not answered.
SendRequestedData(w, t) ==
    /\ At(w, "idle")
    /\ t \in told
    /\ t \in pool[Shard(t)] \cup stored
    /\ known' = known \cup {t}
    /\ UNCHANGED <<process, chain, cache, pool, told, pc, job>>

-----------------------------------------------------------------------------
(* Blocks of the peers.                                                     *)

\* handleBlock up to the verification of AddBlock, for a block with a stored parent. handleFork
\* gets the block that bc.tip names; without it the process panics, which is a Kill.
HandleBlock(w, b) ==
    /\ At(w, "idle")
    /\ tip = "stored"
    /\ PaymentsOf(b) \subseteq known
    /\ Verify(w, "receive", <<CoinbaseOf[PeerMiner]>> \o b)
    /\ UNCHANGED <<process, chain, cache, pool, news>>

\* AddBlock: Db.Update lets one goroutine in, with a verified block that fits its parent, as
\* every block of a peer does. addBlockToDb moves bc.tip, which the miner may be about to
\* read for the second time, and purges the cache before the commit.
RunUpdate(w) ==
    /\ At(w, "update") \/ Verified(w, {"receive"})
    /\ tip # "coming"
    /\ tip' = "coming"
    /\ cache' = [a \in {} |-> {}]
    /\ pc' = [pc EXCEPT ![w] = "commit"]
    /\ job' = [job EXCEPT ![local].moved = @ \/ pc[local] = "newBlock"]
    /\ UNCHANGED <<process, utxos, stored, parent, pool, news>>

\* The payments of a stored block that are yet to be removed from the pool.
CleanNext(w, txs) ==
    IF txs = <<>>
    THEN Return(w)
    ELSE /\ pc' = [pc EXCEPT ![w] = "cleanUp"]
         /\ job' = [job EXCEPT ![w].txs = txs]

\* The commit. Only handleBlock cleans the pool afterwards: mineBlock and mineNewBlock have
\* flushed it, and announce their block. A block that was lost may have been sent again.
Commit(w) ==
    /\ At(w, "commit")
    /\ utxos' = UpdateUTXOSet(utxos, job[w].txs)
    /\ stored' = stored \cup PaymentsOf(job[w].txs)
    /\ tip' = "stored"
    /\ parent' \in IF parent = "lost" THEN {"lost", "stored"} ELSE {"stored"}
    /\ CleanNext(w, IF w = local THEN <<>> ELSE Tail(job[w].txs))
    /\ UNCHANGED <<process, cache, pool, news>>

\* The commit fails. AddBlock returns the error and nothing is cleaned up: a peer's block is
\* dropped, and the batch of the node's own is in no pool any more. bc.tip stays where it is.
CommitFails(w) ==
    /\ At(w, "commit")
    /\ tip' = "lost"
    /\ parent' = IF parent = "coming" THEN "lost" ELSE parent
    /\ Return(w)
    /\ UNCHANGED <<process, utxos, stored, cache, pool, news>>

\* removeFromMempool, one payment of the block at a time.
RemoveFromMempool(w) ==
    /\ At(w, "cleanUp")
    /\ LET t == Head(job[w].txs) IN pool' = [pool EXCEPT ![Shard(t)] = @ \ {t}]
    /\ CleanNext(w, Tail(job[w].txs))
    /\ UNCHANGED <<process, chain, cache, news>>

-----------------------------------------------------------------------------
(* mineBlock and mineNewBlock.                                              *)

\* The ticker fires, or the user says mine: HandleCoinbaseTxs flushes the pool, for a node
\* with a wallet. Without one handleMiningReward's error comes first.
StartMining ==
    /\ At(local, "idle")
    /\ wallet
    /\ pc' = [pc EXCEPT ![local] = "flush"]
    /\ job' = [job EXCEPT ![local] = [NoJob EXCEPT !.op = "flush", !.shard = 1]]
    /\ UNCHANGED <<process, chain, cache, pool, news>>

\* The batch grows by what a shard had. After the last shard the coinbase goes in front and
\* CreateBlock verifies the whole.
Collect(batch) ==
    LET txs == job[local].txs \o batch
    IN  IF job[local].shard = Shards
        THEN Verify(local, "create", <<CoinbaseOf[Wallet]>> \o txs)
        ELSE /\ job' = [job EXCEPT ![local].txs = txs, ![local].shard = @ + 1]
             /\ UNCHANGED pc

\* What Flush could get wrong: the last shard is left out, or a shard is copied under a read
\* lock and replaced after it, when a payment may have come in between.
FlushSkipsLast ==
    /\ At(local, "flush")
    /\ LET i == job[local].shard
       IN  IF i = Shards THEN Collect(<<>>) /\ UNCHANGED pool
           ELSE /\ pool' = [pool EXCEPT ![i] = {}]
                /\ \E batch \in Orders(pool[i]) : Collect(batch)
    /\ UNCHANGED <<process, chain, cache, news>>

FlushUnlocked ==
    /\ At(local, "flush")
    /\ LET i == job[local].shard
       IN  /\ pool' = [pool EXCEPT ![i] = {}]
           /\ \E copied \in SUBSET pool[i] : \E batch \in Orders(copied) : Collect(batch)
    /\ UNCHANGED <<process, chain, cache, news>>

\* Flush takes everything out of one shard after the other, under the mutex of each.
FlushShard ==
    /\ At(local, "flush")
    /\ LET i == job[local].shard
       IN  /\ pool' = [pool EXCEPT ![i] = {}]
           /\ \E batch \in Orders(pool[i]) : Collect(batch)
    /\ UNCHANGED <<process, chain, cache, news>>

\* CreateBlock reads the height, from a block that is not there before its commit.
ReadHeight ==
    /\ Verified(local, {"create"})
    /\ pc' = [pc EXCEPT ![local] = "newBlock"]
    /\ job' = [job EXCEPT ![local].moved = tip # "stored"]
    /\ UNCHANGED <<process, chain, cache, pool, news>>

\* It reads the tip again for the parent. The block is mined, which nothing bounds, and
\* AddBlock verifies it again.
NewBlock ==
    /\ At(local, "newBlock")
    /\ parent' = tip
    /\ pc' = [pc EXCEPT ![local] = "verify"]
    /\ job' = [job EXCEPT ![local].op = "mine", ![local].todo = InputsOf(job[local].txs)]
    /\ UNCHANGED <<process, utxos, stored, tip, cache, pool, news>>

\* IsValid: if the tip moved between the two reads, the height may not be the parent's plus
\* one, and the block is given up.
CheckMined ==
    /\ Verified(local, {"mine"})
    /\ parent = "stored"
    /\ \/ pc' = [pc EXCEPT ![local] = "update"] /\ UNCHANGED job
       \/ job[local].moved /\ Return(local)
    /\ UNCHANGED <<process, chain, cache, pool, news>>

-----------------------------------------------------------------------------
\* The process ends. Nothing of the pool and the cache is left, an update that was not
\* committed has not happened, and bc.tip is read from the database when it starts again.
StopProcess ==
    /\ up
    /\ up' = FALSE
    /\ cache' = [a \in {} |-> {}]
    /\ pool' = [i \in 1..Shards |-> {}]
    /\ pc' = [w \in Worker |-> "idle"]
    /\ job' = [w \in Worker |-> NoJob]
    /\ tip' = "stored"
    /\ parent' = "stored"
    /\ UNCHANGED <<auto, wallet, utxos, stored, news>>

\* IsValid dereferences the parent, which is not stored.
IsValidPanics ==
    /\ Verified(local, {"mine"})
    /\ parent # "stored"
    /\ StopProcess

\* The process is killed, or panics elsewhere.
Kill == StopProcess

\* The program is started again, in the same mode.
Restart ==
    /\ ~up
    /\ up' = TRUE
    /\ UNCHANGED <<auto, wallet, chain, cache, pool, news, pc, job>>

-----------------------------------------------------------------------------
Reading(w) == GetUTXOsCached(w) \/ MissCache(w) \/ ViewUTXOs(w) \/ FillCache(w)

Storing(w) == RunUpdate(w) \/ Commit(w) \/ CommitFails(w) \/ RemoveFromMempool(w)

Mining == FlushShard \/ ReadHeight \/ CheckMined \/ IsValidPanics

\* A goroutine goes on with what it is doing.
Step(w) == Reading(w) \/ CheckPool(w) \/ Add(w) \/ Storing(w) \/ (w = local /\ Mining)

Next ==
    \/ \E w \in Handler, t \in Payment : HandleTransaction(w, t) \/ SendRequestedData(w, t)
    \/ \E t \in Own : HandleSend(t)
    \/ \E w \in Handler, b \in PeerBlock : HandleBlock(w, b)
    \/ StartMining \/ NewBlock
    \/ \E w \in Worker : Step(w)
    \/ Kill
    \/ Restart

Spec == Init /\ [][Next]_vars

\* Go's scheduler runs a goroutine that can run, bbolt's writer lock (a sync.Mutex) starves
\* nobody, and in automatic mode the ticker keeps firing. The user need not do anything, and
\* the search for a nonce in NewBlock need not end: every adjustment raises the difficulty.
Fairness ==
    /\ \A w \in Worker : WF_vars(Step(w)) /\ SF_vars(RunUpdate(w))
    /\ WF_vars(auto /\ StartMining)

FairSpec == Spec /\ Fairness

-----------------------------------------------------------------------------
(* Properties.                                                              *)

Job == [op : {"none", "check", "select", "add", "receive", "flush", "create", "mine"},
        txs : Seq(Tx),
        todo : SUBSET Outpoint,
        input : Outpoint \cup {Nil},
        seen : SUBSET Outpoint,
        moved : BOOLEAN,
        shard : 0..Shards]

Labels == {"idle", "verify", "view", "fill", "update", "commit", "cleanUp", "flush", "newBlock"}

\* Every variable has its type, and a payment is only ever in the shard where getShard
\* looks for it (Get, Remove).
TypeOK ==
    /\ auto \in BOOLEAN
    /\ wallet \in BOOLEAN
    /\ up \in BOOLEAN
    /\ tip \in {"stored", "coming", "lost"} /\ parent \in {"stored", "coming", "lost"}
    /\ utxos \subseteq Outpoint
    /\ DOMAIN cache \subseteq Addr /\ \A a \in DOMAIN cache : cache[a] \subseteq Outpoint
    /\ stored \subseteq Payment
    /\ pool \in [1..Shards -> SUBSET Payment]
    /\ \A i \in 1..Shards : \A t \in pool[i] : ShardOf[t] = i
    /\ told \subseteq Own
    /\ known \subseteq Payment
    /\ pc \in [Worker -> Labels]
    /\ job \in [Worker -> Job]

\* The payments of the block that is being made.
Taken == PaymentsOf(job[local].txs) \cap {t \in Payment : job[local].op \in {"flush", "create", "mine"}}

\* What a pending payment, or one that is being mined, spends is unspent, or a stored payment
\* has spent it since it was verified: whatever answers the cache gave and however the
\* flushes, the peers' blocks and the restarts fell in between, there is no other way for a
\* payment in the pool to go bad (Mempool.Add, updateUTXOSet), and its signatures are good.
InputsAccounted ==
    \A t \in Pending \cup Taken :
        /\ t \notin Short
        /\ Spends[t] \subseteq utxos \cup UNION {Spends[s] : s \in stored}

\* The process goes on without the miner's batch, which is in no stored block.
BatchLost == /\ up /\ up'
             /\ job[local].op \in {"create", "mine"}
             /\ pc'[local] = "idle"
             /\ ~(Taken \subseteq stored')

Stale ==
    \/ \E a \in DOMAIN cache : cache[a] # UTXOsOf(utxos, a)
    \/ pc[local] = "fill" /\ job[local].seen # UTXOsOf(utxos, Owner[job[local].input])

\* A process that goes on loses a batch only for one of four reasons: one of its payments
\* spends what a stored payment has spent; the tip moved between the two times CreateBlock read
\* it, or named a block that was not stored; the answer of GetUTXOs is out of date; the commit
\* of the block failed. A node to which none of these happens loses no payment.
RefusalNeedsCause ==
    [][BatchLost =>
        \/ \E t \in Taken, s \in stored : Spends[t] \cap Spends[s] # {}
        \/ job[local].moved
        \/ Stale
        \/ pc[local] = "commit" /\ tip' = "lost"]_vars

Life == INSTANCE PaymentLife WITH
            pending <- Pending, taken <- Taken, confirmed <- stored

\* No payment vanishes: what the handlers, the shard by shard flush, the clean-up after a
\* block and the restarts do to a payment is what PaymentLife allows.
ImplementsPaymentLife == Life!Spec

\* What the two properties below rest on, and the code does not see to: the search for a nonce
\* always ends (block.Mine has no limit, and adjustDifficulty, which holds seconds against
\* nanoseconds, raises the difficulty every time).
MineEnds == []<>(pc[local] # "newBlock")

\* In automatic mode no payment stays pending for ever in a node with a wallet: a flush takes
\* it, whatever is added to the shards meanwhile.
PoolDrains ==
    MineEnds => \A t \in Payment : (auto /\ wallet /\ t \in Pending) ~> t \notin Pending

\* In automatic mode a node with a wallet makes or gets block after block for as long as the
\* process runs: no payment gets into the pool and keeps every block from being made, and a
\* failed commit, after which no own block has a parent, ends the process.
ChainGrows == MineEnds => (auto /\ wallet ~> ~up \/ \E w \in Worker : pc[w] = "commit")
=============================================================================
