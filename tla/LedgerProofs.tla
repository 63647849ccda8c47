---------------------------- MODULE LedgerProofs ----------------------------
(***************************************************************************)
(* Proofs about Ledger, for any sets of goroutines, hashes and             *)
(* transactions and any bounds.                                            *)
(***************************************************************************)
EXTENDS Ledger, FiniteSetTheorems, TLAPS

-----------------------------------------------------------------------------
(* Type correctness needs to know which labels go with which operation: a  *)
(* goroutine that holds a block is told from one that does not by its op.  *)

Consistent(label, j) ==
    /\ label = "idle" => j = NoJob
    /\ label \in {"previous", "lastBlock", "forkChain"} => j.op = "receive"
    /\ label \in {"update", "commit"} => j.op \in {"receive", "mine"}
    /\ label \in {"timeSpan", "height", "newBlock"} => j.op = "create"
    /\ label \in {"view", "fill"} => j.input \in Outpoint
    /\ j.op \in {"receive", "create", "mine"} => j.hash \in Hash /\ j.block \in Block

Shape ==
    /\ status # "up" => \A w \in Worker : pc[w] = "idle"
    /\ \A w \in Worker : Consistent(pc[w], job[w])

TypeInv == TypeOK /\ Shape

\* The inputs and outputs of a block's transactions are outpoints.
LEMMA OutpointsType ==
    ASSUME NEW txs \in Seq(Tx)
    PROVE  InputsOf(txs) \subseteq Outpoint /\ OutputsOf(txs) \subseteq Outpoint
  <1>1. \A i \in DOMAIN txs : txs[i] \in Tx
    OBVIOUS
  <1> QED
    BY <1>1, TxAssumption DEF InputsOf, OutputsOf

\* What a miner puts into a block is a sequence of transactions.
LEMMA RewardType ==
    ASSUME NEW a \in Miner, NEW b \in Batch
    PROVE  <<CoinbaseOf[a]>> \o b \in Seq(Tx)
  <1>1. CoinbaseOf[a] \in Tx /\ b \in Seq(Tx)
    BY TxAssumption, LedgerAssumption
  <1> QED
    BY <1>1

\* The height read for an adjustment or a new block is a height.
LEMMA HeightType ==
    ASSUME TypeOK
    PROVE  CurrentHeight \in Nat
  BY DEF TypeOK, CurrentHeight, Block

LEMMA NoJobType == NoJob \in Job
  BY DEF NoJob, Job

LEMMA TypeInit == Init => TypeInv
  <1> SUFFICES ASSUME Init PROVE TypeInv
    OBVIOUS
  <1>1. GenesisBlock \in Block
    BY HashAssumption, TxAssumption DEF GenesisBlock, Block
  <1>2. utxos \subseteq Outpoint
    BY TxAssumption DEF Init
  <1>3. job \in [Worker -> Job] /\ pc \in [Worker -> Labels]
    BY NoJobType DEF Init, Labels
  <1>4. kills \in 0..MaxKills /\ failures \in 0..MaxFailures
    BY LedgerAssumption DEF Init
  <1>5. /\ DOMAIN net = {} /\ DOMAIN cache = {}
        /\ DOMAIN blocks = {Genesis} /\ blocks[Genesis] \in Block
        /\ DOMAIN index = {0} /\ index[0] \in Hash
    BY <1>1, HashAssumption DEF Init
  <1>6. dbTip \in Hash /\ tip \in Hash /\ failed \subseteq Hash
    BY HashAssumption DEF Init
  <1>7. forkLocked \in BOOLEAN /\ status \in {"up", "down", "panic"}
    BY DEF Init
  <1>8. TypeOK
    BY <1>2, <1>3, <1>4, <1>5, <1>6, <1>7, HashAssumption DEF TypeOK
  <1>9. Shape
    BY DEF Init, Shape, Consistent, NoJob
  <1> QED
    BY <1>8, <1>9 DEF TypeInv

\* A goroutine moves to label l with the local variables j; the others stay where they are.
LEMMA MoveType ==
    ASSUME TypeInv, NEW w \in Worker, NEW l \in Labels, NEW j \in Job, Consistent(l, j),
           status = "up", UNCHANGED status,
           pc' = [pc EXCEPT ![w] = l], job' = [job EXCEPT ![w] = j]
    PROVE  pc' \in [Worker -> Labels] /\ job' \in [Worker -> Job] /\ Shape'
  <1>1. pc' \in [Worker -> Labels] /\ job' \in [Worker -> Job]
    BY DEF TypeInv, TypeOK
  <1>2. \A v \in Worker : Consistent(pc'[v], job'[v])
    BY DEF TypeInv, TypeOK, Shape
  <1> QED
    BY <1>1, <1>2 DEF Shape

LEMMA ReturnType ==
    ASSUME TypeInv, NEW w \in Worker, status = "up", UNCHANGED status, Return(w)
    PROVE  pc' \in [Worker -> Labels] /\ job' \in [Worker -> Job] /\ Shape'
  <1>1. Consistent("idle", NoJob)
    BY DEF Consistent, NoJob
  <1> QED
    BY <1>1, MoveType, NoJobType DEF Return, Labels

LEMMA GotoType ==
    ASSUME TypeInv, NEW w \in Worker, NEW l \in Labels, Consistent(l, job[w]),
           status = "up", UNCHANGED status, Goto(w, l)
    PROVE  pc' \in [Worker -> Labels] /\ job' \in [Worker -> Job] /\ Shape'
  <1>1. job[w] \in Job /\ job' = [job EXCEPT ![w] = job[w]]
    BY DEF TypeInv, TypeOK, Goto
  <1> QED
    BY <1>1, MoveType DEF Goto

LEMMA JudgeType ==
    ASSUME TypeInv, NEW w \in Worker, NEW o \in Outpoint, NEW answer, Judge(w, o, answer),
           status = "up", UNCHANGED status
    PROVE  pc' \in [Worker -> Labels] /\ job' \in [Worker -> Job] /\ Shape'
  <1>1. CASE Return(w)
    BY <1>1, ReturnType
  <1>2. CASE ~Return(w)
    <2> DEFINE j == [job[w] EXCEPT !.todo = @ \ {o}, !.input = Nil, !.seen = {}]
    <2>1. job[w] \in Job
      BY DEF TypeInv, TypeOK
    <2>2. j \in Job /\ job' = [job EXCEPT ![w] = j] /\ pc' = [pc EXCEPT ![w] = "verify"]
      BY <1>2, <2>1 DEF Judge, Job
    <2>3. Consistent("verify", j)
      BY <2>1 DEF TypeInv, Shape, Consistent, Job
    <2> QED
      BY <2>2, <2>3, MoveType DEF Labels
  <1> QED
    BY <1>1, <1>2

LEMMA PanicType ==
    ASSUME TypeInv, NEW how \in {"down", "panic"}, StopProcess(how),
           kills' \in 0..MaxKills
    PROVE  TypeInv'
  <1>1. pc' \in [Worker -> Labels] /\ job' \in [Worker -> Job]
    BY NoJobType DEF StopProcess, Labels
  <1>2. Shape'
    BY DEF StopProcess, Shape, Consistent, NoJob
  <1>3. TypeOK'
    BY <1>1 DEF TypeInv, TypeOK, StopProcess, disk
  <1> QED
    BY <1>2, <1>3 DEF TypeInv

\* Most steps only move a goroutine.
LEMMA QuietType ==
    ASSUME TypeInv, UNCHANGED <<net, disk, memory, fate>>,
           pc' \in [Worker -> Labels], job' \in [Worker -> Job], Shape'
    PROVE  TypeInv'
  BY DEF TypeInv, TypeOK, disk, memory, fate

LEMMA PeerMinesType ==
    ASSUME TypeInv, NEW h \in Hash, NEW p \in Hash, NEW a \in PeerWallet, NEW b \in Batch,
           PeerMines(h, p, a, b)
    PROVE  TypeInv'
  <1> DEFINE parent == IF p \in DOMAIN blocks THEN blocks[p] ELSE net[p]
             block == [height |-> parent.height + 1, prev |-> p,
                       txs |-> <<CoinbaseOf[a]>> \o b]
  <1>1. parent \in Block
    BY DEF TypeInv, TypeOK, PeerMines
  <1>2. a \in Miner
    BY LedgerAssumption
  <1>3. block \in Block
    BY <1>1, <1>2, RewardType DEF Block
  <1>4. net' = Put(net, h, block)
    BY DEF PeerMines
  <1> HIDE DEF block
  <1>5. DOMAIN net' \subseteq Hash /\ \A x \in DOMAIN net' : net'[x] \in Block
    BY <1>3, <1>4 DEF TypeInv, TypeOK, Put
  <1> QED
    BY <1>5 DEF TypeInv, TypeOK, Shape, PeerMines, disk, memory, fate

LEMMA HandleBlockType ==
    ASSUME TypeInv, NEW w \in Worker, NEW h \in Hash, HandleBlock(w, h)
    PROVE  TypeInv'
  <1> DEFINE j == [NoJob EXCEPT !.op = "receive", !.hash = h, !.block = net[h],
                                !.todo = InputsOf(net[h].txs)]
  <1>1. net[h] \in Block /\ net[h].txs \in Seq(Tx)
    BY DEF HandleBlock, TypeInv, TypeOK, Block
  <1>2. j \in Job
    BY <1>1, OutpointsType, NoJobType DEF NoJob, Job
  <1>3. Consistent("previous", j)
    BY <1>1 DEF Consistent, NoJob
  <1>4. status = "up" /\ UNCHANGED status
    BY DEF HandleBlock, At, fate
  <1>5. pc' = [pc EXCEPT ![w] = "previous"] /\ job' = [job EXCEPT ![w] = j]
    BY DEF HandleBlock
  <1> HIDE DEF j
  <1>6. pc' \in [Worker -> Labels] /\ job' \in [Worker -> Job] /\ Shape'
    BY <1>2, <1>3, <1>4, <1>5, MoveType DEF Labels
  <1> QED
    BY <1>6, QuietType DEF HandleBlock

LEMMA LookupType ==
    ASSUME TypeInv, NEW w \in Worker, LookupPrevious(w) \/ ReadLastBlock(w) \/ NoForkFound(w)
    PROVE  TypeInv'
  <1>1. status = "up" /\ UNCHANGED status /\ UNCHANGED <<net, disk, memory, fate>>
    BY DEF LookupPrevious, ReadLastBlock, NoForkFound, At, fate
  <1>2. job[w].op = "receive" /\ job[w].hash \in Hash /\ job[w].block \in Block
    BY DEF TypeInv, Shape, Consistent, LookupPrevious, ReadLastBlock, NoForkFound, At
  <1>3. \A l \in {"lastBlock", "forkChain", "verify"} : Consistent(l, job[w]) /\ l \in Labels
    BY <1>2 DEF Consistent, Labels
  <1>4. Return(w) \/ \E l \in {"lastBlock", "forkChain", "verify"} : Goto(w, l)
    BY DEF LookupPrevious, ReadLastBlock, NoForkFound
  <1>5. pc' \in [Worker -> Labels] /\ job' \in [Worker -> Job] /\ Shape'
    BY <1>1, <1>3, <1>4, ReturnType, GotoType
  <1> QED
    BY <1>1, <1>5, QuietType

LEMMA ForkReplayRejectedType ==
    ASSUME TypeInv, NEW w \in Worker, ForkReplayRejected(w)
    PROVE  TypeInv'
  <1>1. pc' \in [Worker -> Labels] /\ job' \in [Worker -> Job] /\ Shape'
    BY ReturnType DEF ForkReplayRejected, At, fate
  <1> QED
    BY <1>1 DEF TypeInv, TypeOK, ForkReplayRejected, disk, fate

LEMMA PanicsType ==
    ASSUME TypeInv, Panic
    PROVE  TypeInv'
  <1>1. kills' \in 0..MaxKills
    BY DEF TypeInv, TypeOK, Panic
  <1> QED
    BY <1>1, PanicType DEF Panic

LEMMA GetUTXOsType ==
    ASSUME TypeInv, NEW w \in Worker, GetUTXOsCached(w) \/ MissCache(w) \/ ViewUTXOs(w)
    PROVE  TypeInv'
  <1>1. status = "up" /\ UNCHANGED status /\ UNCHANGED <<net, disk, memory, fate>>
    BY DEF GetUTXOsCached, MissCache, ViewUTXOs, At, fate
  <1>2. job[w] \in Job /\ Consistent(pc[w], job[w])
    BY DEF TypeInv, TypeOK, Shape
  <1>3. pc' \in [Worker -> Labels] /\ job' \in [Worker -> Job] /\ Shape'
    <2>1. CASE GetUTXOsCached(w)
      <3>1. PICK o \in job[w].todo : Judge(w, o, cache[Owner[o]])
        BY <2>1 DEF GetUTXOsCached
      <3>2. o \in Outpoint
        BY <1>2 DEF Job
      <3> QED
        BY <1>1, <3>1, <3>2, JudgeType
    <2>2. CASE MissCache(w)
      <3>1. PICK o \in job[w].todo : job' = [job EXCEPT ![w].input = o]
        BY <2>2 DEF MissCache
      <3> DEFINE j == [job[w] EXCEPT !.input = o]
      <3>2. j \in Job /\ job' = [job EXCEPT ![w] = j]
        BY <1>2, <3>1 DEF Job
      <3>3. Consistent("view", j)
        BY <1>2 DEF Consistent, Job
      <3>4. pc' = [pc EXCEPT ![w] = "view"] /\ "view" \in Labels
        BY <2>2 DEF MissCache, Labels
      <3> QED
        BY <1>1, <3>2, <3>3, <3>4, MoveType
    <2>3. CASE ViewUTXOs(w)
      <3> DEFINE s == UTXOsOf(utxos, Owner[job[w].input])
                 j == [job[w] EXCEPT !.seen = s]
      <3>1. s \subseteq Outpoint
        BY DEF UTXOsOf, TypeInv, TypeOK
      <3>2. pc[w] = "view" /\ job' = [job EXCEPT ![w].seen = s]
        BY <2>3 DEF ViewUTXOs, At
      <3> HIDE DEF s
      <3>3. j \in Job /\ job' = [job EXCEPT ![w] = j]
        BY <1>2, <3>1, <3>2 DEF Job
      <3>4. Consistent("fill", j)
        BY <1>2, <3>2 DEF Consistent, Job
      <3>5. pc' = [pc EXCEPT ![w] = "fill"] /\ "fill" \in Labels
        BY <2>3 DEF ViewUTXOs, Labels
      <3> QED
        BY <1>1, <3>3, <3>4, <3>5, MoveType
    <2> QED
      BY <2>1, <2>2, <2>3
  <1> QED
    BY <1>1, <1>3, QuietType

LEMMA FillCacheType ==
    ASSUME TypeInv, NEW w \in Worker, FillCache(w)
    PROVE  TypeInv'
  <1>1. status = "up" /\ UNCHANGED status
    BY DEF FillCache, At, fate
  <1>2. job[w].input \in Outpoint /\ job[w].seen \subseteq Outpoint
    BY DEF TypeInv, TypeOK, Shape, Consistent, FillCache, At, Job
  <1>3. pc' \in [Worker -> Labels] /\ job' \in [Worker -> Job] /\ Shape'
    BY <1>1, <1>2, JudgeType DEF FillCache
  <1>4. Owner[job[w].input] \in Addr
    BY <1>2, TxAssumption
  <1>5. DOMAIN cache' \subseteq Addr /\ \A a \in DOMAIN cache' : cache'[a] \subseteq Outpoint
    BY <1>2, <1>4 DEF TypeInv, TypeOK, FillCache, Put
  <1> QED
    BY <1>3, <1>5 DEF TypeInv, TypeOK, FillCache, disk, fate

LEMMA StartReadType ==
    ASSUME TypeInv, NEW w \in Worker, NEW o \in Queried, StartRead(w, o)
    PROVE  TypeInv'
  <1> DEFINE j == [NoJob EXCEPT !.op = "read", !.todo = {o}]
  <1>1. status = "up" /\ UNCHANGED status
    BY DEF StartRead, At, fate
  <1>2. j \in Job /\ Consistent("verify", j)
    BY DEF Queried, NoJob, Job, Consistent
  <1>3. pc' \in [Worker -> Labels] /\ job' \in [Worker -> Job] /\ Shape'
    BY <1>1, <1>2, MoveType DEF StartRead, Labels
  <1> QED
    BY <1>3, QuietType DEF StartRead

LEMMA CheckValidType ==
    ASSUME TypeInv, NEW w \in Worker, CheckValid(w)
    PROVE  TypeInv'
  <1>1. status = "up" /\ UNCHANGED status
    BY DEF CheckValid, Verified, At, fate
  <1>2. Consistent("update", job[w])
    BY DEF CheckValid, Verified, At, TypeInv, Shape, Consistent
  <1>3. pc' \in [Worker -> Labels] /\ job' \in [Worker -> Job] /\ Shape'
    BY <1>1, <1>2, ReturnType, GotoType DEF CheckValid, Labels
  <1> QED
    BY <1>3, QuietType DEF CheckValid

\* What a goroutine holds when it is about to update the database.
LEMMA HoldsBlock ==
    ASSUME TypeInv, NEW w \in Worker, pc[w] \in {"update", "commit"}
    PROVE  /\ job[w].op \in {"receive", "mine"}
           /\ job[w].hash \in Hash
           /\ job[w].block \in Block
           /\ job[w].block.txs \in Seq(Tx)
           /\ job[w].block.height \in Nat
  BY DEF TypeInv, Shape, Consistent, Block

LEMMA UpdateType ==
    ASSUME TypeInv, NEW w \in Worker, RunUpdate(w)
    PROVE  TypeInv'
  <1>1. status = "up" /\ UNCHANGED status /\ pc[w] = "update"
    BY DEF RunUpdate, At, fate
  <1>2. Consistent("commit", job[w])
    BY <1>1, HoldsBlock DEF Consistent
  <1>3. pc' \in [Worker -> Labels] /\ job' \in [Worker -> Job] /\ Shape'
    BY <1>1, <1>2, GotoType DEF RunUpdate, Labels
  <1>4. tip' \in Hash /\ DOMAIN cache' = {}
    BY <1>1, HoldsBlock DEF RunUpdate
  <1> QED
    BY <1>3, <1>4 DEF TypeInv, TypeOK, RunUpdate, disk, fate

LEMMA UpdateUTXOSetType ==
    ASSUME NEW U \in SUBSET Outpoint, NEW txs \in Seq(Tx)
    PROVE  UpdateUTXOSet(U, txs) \subseteq Outpoint
  BY OutpointsType DEF UpdateUTXOSet

LEMMA CommitType ==
    ASSUME TypeInv, NEW w \in Worker, Commit(w)
    PROVE  TypeInv'
  <1>1. status = "up" /\ UNCHANGED status /\ pc[w] = "commit"
    BY DEF Commit, At, fate
  <1>2. pc' \in [Worker -> Labels] /\ job' \in [Worker -> Job] /\ Shape'
    BY <1>1, ReturnType DEF Commit
  <1>3. DOMAIN blocks' \subseteq Hash /\ \A h \in DOMAIN blocks' : blocks'[h] \in Block
    BY <1>1, HoldsBlock DEF TypeInv, TypeOK, Commit, Put
  <1>4. DOMAIN index' \subseteq Nat /\ \A k \in DOMAIN index' : index'[k] \in Hash
    BY <1>1, HoldsBlock DEF TypeInv, TypeOK, Commit, Put
  <1>5. utxos' \subseteq Outpoint
    BY <1>1, HoldsBlock, UpdateUTXOSetType DEF TypeInv, TypeOK, Commit
  <1>6. dbTip' \in Hash
    BY <1>1, HoldsBlock DEF Commit
  <1> QED
    BY <1>2, <1>3, <1>4, <1>5, <1>6 DEF TypeInv, TypeOK, Commit, memory, fate

LEMMA CommitFailsType ==
    ASSUME TypeInv, NEW w \in Worker, CommitFails(w)
    PROVE  TypeInv'
  <1>1. status = "up" /\ UNCHANGED status /\ pc[w] = "commit"
    BY DEF CommitFails, At
  <1>2. pc' \in [Worker -> Labels] /\ job' \in [Worker -> Job] /\ Shape'
    BY <1>1, ReturnType DEF CommitFails
  <1>3. failed' \subseteq Hash
    BY <1>1, HoldsBlock DEF TypeInv, TypeOK, CommitFails
  <1>4. failures' \in 0..MaxFailures
    BY LedgerAssumption DEF TypeInv, TypeOK, CommitFails
  <1> QED
    BY <1>2, <1>3, <1>4 DEF TypeInv, TypeOK, CommitFails, disk, memory

LEMMA StartMiningType ==
    ASSUME TypeInv, NEW w \in Worker, NEW h \in Hash, NEW a \in Wallet, NEW b \in Batch,
           StartMining(w, h, a, b)
    PROVE  TypeInv'
  <1> DEFINE txs == <<CoinbaseOf[a]>> \o b
             block == [height |-> 0, prev |-> Nil, txs |-> txs]
             j == [NoJob EXCEPT !.op = "create", !.hash = h, !.todo = InputsOf(txs),
                                !.block = block]
  <1>1. txs \in Seq(Tx)
    BY RewardType, LedgerAssumption
  <1>2. pc' = [pc EXCEPT ![w] = "verify"] /\ job' = [job EXCEPT ![w] = j]
    BY DEF StartMining
  <1>3. status = "up" /\ UNCHANGED status /\ UNCHANGED <<net, disk, memory, fate>>
    BY DEF StartMining, At, fate
  <1> HIDE DEF txs
  <1>4. block \in Block /\ InputsOf(txs) \subseteq Outpoint
    BY <1>1, OutpointsType DEF Block
  <1> HIDE DEF block
  <1>5. j \in Job /\ Consistent("verify", j)
    BY <1>4 DEF NoJob, Job, Consistent
  <1> HIDE DEF j
  <1>6. pc' \in [Worker -> Labels] /\ job' \in [Worker -> Job] /\ Shape'
    BY <1>2, <1>3, <1>5, MoveType DEF Labels
  <1> QED
    BY <1>3, <1>6, QuietType

LEMMA CreateBlockType ==
    ASSUME TypeInv, NEW w \in Worker,
           AdjustDifficulty(w) \/ ReadTimeSpan(w) \/ ReadHeight(w) \/ NewBlock(w)
    PROVE  TypeInv'
  <1>1. status = "up" /\ UNCHANGED status /\ UNCHANGED <<net, disk, memory, fate>>
    BY DEF AdjustDifficulty, ReadTimeSpan, ReadHeight, NewBlock, Verified, At, fate
  <1>2. job[w] \in Job /\ job[w].op = "create" /\ job[w].hash \in Hash /\ job[w].block \in Block
    BY DEF TypeInv, TypeOK, Shape, Consistent,
           AdjustDifficulty, ReadTimeSpan, ReadHeight, NewBlock, Verified, At
  <1>3. CurrentHeight \in Nat
    BY HeightType DEF TypeInv
  <1>4. pc' \in [Worker -> Labels] /\ job' \in [Worker -> Job] /\ Shape'
    <2>1. CASE AdjustDifficulty(w) \/ ReadHeight(w)
      <3>1. PICK n \in {CurrentHeight, CurrentHeight + 1}, l \in {"timeSpan", "height", "newBlock"} :
                pc' = [pc EXCEPT ![w] = l] /\ job' = [job EXCEPT ![w].block.height = n]
        BY <2>1 DEF AdjustDifficulty, ReadHeight
      <3> DEFINE j == [job[w] EXCEPT !.block = [job[w].block EXCEPT !.height = n]]
      <3>2. [job[w].block EXCEPT !.height = n] \in Block
        BY <1>2, <1>3 DEF Block
      <3>3. j \in Job /\ job' = [job EXCEPT ![w] = j]
        BY <1>2, <3>1, <3>2 DEF Job
      <3>4. Consistent(l, j)
        BY <1>2, <3>2 DEF Consistent, Job
      <3>5. l \in Labels /\ pc' = [pc EXCEPT ![w] = l]
        BY <3>1 DEF Labels
      <3> HIDE DEF j
      <3> QED
        BY <1>1, <3>3, <3>4, <3>5, MoveType
    <2>2. CASE ReadTimeSpan(w)
      <3>1. Consistent("height", job[w])
        BY <1>2 DEF Consistent
      <3> QED
        BY <1>1, <2>2, <3>1, GotoType DEF ReadTimeSpan, Labels
    <2>3. CASE NewBlock(w)
      <3> DEFINE b == [job[w].block EXCEPT !.prev = tip]
                 todo == InputsOf(job[w].block.txs)
                 j == [job[w] EXCEPT !.op = "mine", !.block = b, !.todo = todo]
      <3>1. b \in Block
        BY <1>2 DEF TypeInv, TypeOK, Block
      <3>2. todo \subseteq Outpoint
        BY <1>2, OutpointsType DEF Block
      <3>3. job' = [job EXCEPT ![w].op = "mine", ![w].block.prev = tip, ![w].todo = todo]
        BY <2>3 DEF NewBlock
      <3> HIDE DEF todo
      <3>4. j \in Job /\ job' = [job EXCEPT ![w] = j]
        BY <1>2, <3>1, <3>2, <3>3 DEF Job
      <3>5. Consistent("verify", j)
        BY <1>2, <3>1 DEF Consistent, Job
      <3>6. pc' = [pc EXCEPT ![w] = "verify"] /\ "verify" \in Labels
        BY <2>3 DEF NewBlock, Labels
      <3> HIDE DEF j
      <3> QED
        BY <1>1, <3>4, <3>5, <3>6, MoveType
    <2> QED
      BY <2>1, <2>2, <2>3
  <1> QED
    BY <1>1, <1>4, QuietType

LEMMA KillType ==
    ASSUME TypeInv, Kill
    PROVE  TypeInv'
  <1>1. kills' \in 0..MaxKills
    BY LedgerAssumption DEF TypeInv, TypeOK, Kill
  <1> QED
    BY <1>1, PanicType DEF Kill

LEMMA RestartType ==
    ASSUME TypeInv, Restart
    PROVE  TypeInv'
  <1>1. PICK last \in [Heights -> DOMAIN blocks] :
            index' = [k \in DOMAIN index \cup Heights |->
                        IF k \in Heights THEN last[k] ELSE index[k]]
    BY DEF Restart
  <1>2. Heights \subseteq Nat /\ DOMAIN blocks \subseteq Hash
    BY DEF TypeInv, TypeOK, Heights, Block
  <1>3. DOMAIN index' \subseteq Nat /\ \A k \in DOMAIN index' : index'[k] \in Hash
    BY <1>1, <1>2 DEF TypeInv, TypeOK
  <1> QED
    BY <1>3 DEF TypeInv, TypeOK, Shape, Restart

\* A step of a goroutine that panics.
Panics(w) ==
    LastBlockPanics(w) \/ ForkReplayPanics(w) \/ IsValidPanics(w) \/ TimeSpanPanics(w)

LEMMA TypeNext == TypeInv /\ [Next]_vars => TypeInv'
  <1> SUFFICES ASSUME TypeInv, [Next]_vars PROVE TypeInv'
    OBVIOUS
  <1>1. ASSUME NEW h \in Hash, NEW p \in Hash, NEW a \in PeerWallet, NEW b \in Batch,
               PeerMines(h, p, a, b)
        PROVE  TypeInv'
    BY <1>1, PeerMinesType
  <1>2. ASSUME NEW w \in Peer, NEW h \in Hash, HandleBlock(w, h)
        PROVE  TypeInv'
    BY <1>2, HandleBlockType DEF Worker
  <1>3. ASSUME NEW w \in Worker, NEW o \in Queried, StartRead(w, o)
        PROVE  TypeInv'
    BY <1>3, StartReadType
  <1>4. ASSUME NEW w \in Local, NEW h \in Hash, NEW a \in Wallet, NEW b \in Batch,
               StartMining(w, h, a, b)
        PROVE  TypeInv'
    BY <1>4, StartMiningType DEF Worker
  <1>5. ASSUME NEW w \in Worker, Step(w) \/ NewBlock(w)
        PROVE  TypeInv'
    <2>1. CASE LookupPrevious(w) \/ ReadLastBlock(w) \/ NoForkFound(w)
      BY <2>1, LookupType
    <2>2. CASE ForkReplayRejected(w)
      BY <2>2, ForkReplayRejectedType
    <2>3. CASE GetUTXOsCached(w) \/ MissCache(w) \/ ViewUTXOs(w)
      BY <2>3, GetUTXOsType
    <2>4. CASE FillCache(w)
      BY <2>4, FillCacheType
    <2>5. CASE CheckValid(w)
      BY <2>5, CheckValidType
    <2>6. CASE RunUpdate(w)
      BY <2>6, UpdateType
    <2>7. CASE Commit(w)
      BY <2>7, CommitType
    <2>8. CASE CommitFails(w)
      BY <2>8, CommitFailsType
    <2>9. CASE AdjustDifficulty(w) \/ ReadTimeSpan(w) \/ ReadHeight(w) \/ NewBlock(w)
      BY <2>9, CreateBlockType
    <2>10. CASE Panics(w)
      BY <2>10, PanicsType
         DEF Panics, LastBlockPanics, ForkReplayPanics, IsValidPanics, TimeSpanPanics
    <2> QED
      BY <1>5, <2>1, <2>2, <2>3, <2>4, <2>5, <2>6, <2>7, <2>8, <2>9, <2>10 DEF Step, Panics
  <1>6. CASE Kill
    BY <1>6, KillType
  <1>7. CASE Restart
    BY <1>7, RestartType
  <1>8. CASE UNCHANGED vars
    BY <1>8 DEF TypeInv, TypeOK, Shape, vars, disk, memory, fate
  <1> QED
    BY <1>1, <1>2, <1>3, <1>4, <1>5, <1>6, <1>7, <1>8 DEF Next

LEMMA TypeInvariant == Spec => []TypeInv
  BY TypeInit, TypeNext, PTL DEF Spec

\* Every variable keeps its type, whatever the goroutines, crashes and failed commits do.
THEOREM TypeCorrect == Spec => []TypeOK
  <1>1. TypeInv => TypeOK
    BY DEF TypeInv
  <1> QED
    BY <1>1, TypeInvariant, PTL

-----------------------------------------------------------------------------
(* The inductive invariant of the chain store. The store stays connected   *)
(* because a block that reaches Db.Update has a stored parent one below it *)
(* (Ready) and never replaces another block under its hash (Names). The    *)
(* tip is coherent because one goroutine at a time is past the closure of  *)
(* Db.Update (Lock). The last two parts say what the missing nil checks    *)
(* rely on: where the parent of a mined block may be (Parents), and that   *)
(* the time span starts at a height there is (Spans).                      *)

Names ==
    /\ \A h \in DOMAIN net \cap DOMAIN blocks : blocks[h] = net[h]
    /\ \A w \in Worker :
        /\ job[w].op = "receive" =>
            job[w].hash \in DOMAIN net /\ job[w].block = net[job[w].hash]
        /\ job[w].op \in {"create", "mine"} =>
            /\ job[w].hash \notin DOMAIN net
            /\ job[w].hash \notin DOMAIN blocks
            /\ \A v \in Worker : job[v].hash = job[w].hash => v = w

Lock == \A v \in Worker, w \in Worker : pc[v] = "commit" /\ pc[w] = "commit" => v = w

\* A block fits on the parent it names.
Fits(b) == b.prev \in DOMAIN blocks /\ b.height = blocks[b.prev].height + 1

Ready ==
    \A w \in Worker :
        /\ job[w].op = "receive" /\ pc[w] # "previous" => job[w].block.prev \in DOMAIN blocks
        /\ pc[w] \in {"update", "commit"} => Fits(job[w].block)

Parents ==
    \A w \in Worker :
        job[w].op = "mine" =>
            \/ job[w].block.prev \in DOMAIN blocks
            \/ failed # {}
            \/ \E v \in InFlight : job[w].block.prev = job[v].hash

Spans ==
    \A w \in Worker :
        pc[w] = "timeSpan" =>
            /\ job[w].block.height >= BlocksToAdjust
            /\ \E g \in DOMAIN blocks : blocks[g].height = job[w].block.height

ChainInv ==
    /\ Names
    /\ Lock
    /\ TipCoherent
    /\ Ready
    /\ StoreConnected
    /\ IndexCovers
    /\ UtxoAccounting
    /\ Parents
    /\ Spans

-----------------------------------------------------------------------------
(* All that most steps of a goroutine have in common: it begins an          *)
(* operation, or goes on with one, and touches neither the database nor    *)
(* bc.tip.                                                                  *)

Moves(w, l, j) == pc' = [pc EXCEPT ![w] = l] /\ job' = [job EXCEPT ![w] = j]

BeginsWith(l, j) ==
    \/ /\ l = "previous" /\ j.op = "receive"
       /\ j.hash \in DOMAIN net /\ j.block = net[j.hash]
    \/ l = "verify" /\ j.op = "create" /\ j.hash \notin Taken
    \/ l = "verify" /\ j.op = "read" /\ j.hash = Nil

Begins(w) ==
    /\ pc[w] = "idle" /\ status = "up"
    /\ UNCHANGED <<net, disk, tip, fate>>
    /\ \E l \in Labels, j \in Job : Moves(w, l, j) /\ BeginsWith(l, j)

\* What becomes of the job of w, and of the label, when it does not return.
Keeps(w, l, j) ==
    /\ j.op = job[w].op /\ j.hash = job[w].hash /\ j.block = job[w].block
    /\ l \notin {"idle", "previous", "commit", "timeSpan"}
    /\ pc[w] = "previous" => j.block.prev \in DOMAIN blocks
    /\ l = "update" => Fits(j.block)

Assembles(w, l, j) ==
    /\ job[w].op = "create" /\ j.op = "create" /\ j.hash = job[w].hash
    /\ l \in {"timeSpan", "height", "newBlock"}
    /\ l = "timeSpan" =>
        /\ tip \in DOMAIN blocks
        /\ j.block.height = blocks[tip].height
        /\ j.block.height >= BlocksToAdjust

Mines(w, l, j) ==
    /\ job[w].op = "create" /\ j.op = "mine" /\ j.hash = job[w].hash
    /\ l = "verify"
    /\ j.block.prev = tip

Continues(w) ==
    /\ pc[w] \notin {"idle", "commit"} /\ status = "up"
    /\ UNCHANGED <<net, disk, tip, fate>>
    /\ \E l \in Labels, j \in Job :
        /\ Moves(w, l, j)
        /\ \/ l = "idle" /\ j = NoJob
           \/ Keeps(w, l, j)
           \/ Assembles(w, l, j)
           \/ Mines(w, l, j)

LEMMA HandleBlockBegins ==
    ASSUME TypeInv, NEW w \in Worker, NEW h \in Hash, HandleBlock(w, h)
    PROVE  Begins(w)
  <1> DEFINE j == [NoJob EXCEPT !.op = "receive", !.hash = h, !.block = net[h],
                                !.todo = InputsOf(net[h].txs)]
  <1>1. net[h] \in Block /\ net[h].txs \in Seq(Tx) /\ h \in DOMAIN net
    BY DEF HandleBlock, TypeInv, TypeOK, Block
  <1>2. j \in Job
    BY <1>1, OutpointsType, NoJobType DEF NoJob, Job
  <1>3. BeginsWith("previous", j)
    BY <1>1 DEF BeginsWith, NoJob
  <1>4. Moves(w, "previous", j)
    BY DEF HandleBlock, Moves
  <1> HIDE DEF j
  <1> QED
    BY <1>2, <1>3, <1>4 DEF HandleBlock, Begins, At, Labels, memory

LEMMA StartMiningBegins ==
    ASSUME TypeInv, NEW w \in Worker, NEW h \in Hash, NEW a \in Wallet, NEW b \in Batch,
           StartMining(w, h, a, b)
    PROVE  Begins(w)
  <1> DEFINE txs == <<CoinbaseOf[a]>> \o b
             block == [height |-> 0, prev |-> Nil, txs |-> txs]
             j == [NoJob EXCEPT !.op = "create", !.hash = h, !.todo = InputsOf(txs),
                                !.block = block]
  <1>1. txs \in Seq(Tx)
    BY RewardType, LedgerAssumption
  <1>2. Moves(w, "verify", j)
    BY DEF StartMining, Moves
  <1> HIDE DEF txs
  <1>3. block \in Block /\ InputsOf(txs) \subseteq Outpoint
    BY <1>1, OutpointsType DEF Block
  <1> HIDE DEF block
  <1>4. j \in Job
    BY <1>3 DEF NoJob, Job
  <1>5. BeginsWith("verify", j)
    BY DEF StartMining, BeginsWith, NoJob
  <1> HIDE DEF j
  <1> QED
    BY <1>2, <1>4, <1>5 DEF StartMining, Begins, At, Labels, memory

LEMMA StartReadBegins ==
    ASSUME NEW w \in Worker, NEW o \in Queried, StartRead(w, o)
    PROVE  Begins(w)
  <1> DEFINE j == [NoJob EXCEPT !.op = "read", !.todo = {o}]
  <1>1. j \in Job /\ BeginsWith("verify", j)
    BY DEF Queried, NoJob, Job, BeginsWith
  <1>2. Moves(w, "verify", j)
    BY DEF StartRead, Moves
  <1> HIDE DEF j
  <1> QED
    BY <1>1, <1>2 DEF StartRead, Begins, At, Labels, memory

\* Returning and going on with the same job are ways to continue.
LEMMA ReturnContinues ==
    ASSUME NEW w \in Worker, Return(w), status = "up", pc[w] \notin {"idle", "commit"},
           UNCHANGED <<net, disk, tip, fate>>
    PROVE  Continues(w)
  BY NoJobType DEF Return, Continues, Moves, Labels

LEMMA KeepsContinues ==
    ASSUME NEW w \in Worker, NEW l \in Labels, NEW j \in Job, Moves(w, l, j), Keeps(w, l, j),
           status = "up", pc[w] \notin {"idle", "commit"}, UNCHANGED <<net, disk, tip, fate>>
    PROVE  Continues(w)
  BY DEF Continues

LEMMA GotoMoves ==
    ASSUME TypeInv, NEW w \in Worker, NEW l, Goto(w, l)
    PROVE  job[w] \in Job /\ Moves(w, l, job[w])
  BY DEF TypeInv, TypeOK, Goto, Moves

LEMMA JudgeContinues ==
    ASSUME TypeInv, NEW w \in Worker, NEW o \in Outpoint, NEW answer, Judge(w, o, answer),
           pc[w] \in {"verify", "fill"}, status = "up", UNCHANGED <<net, disk, tip, fate>>
    PROVE  Continues(w)
  <1>1. CASE Return(w)
    BY <1>1, ReturnContinues
  <1>2. CASE ~Return(w)
    <2> DEFINE j == [job[w] EXCEPT !.todo = @ \ {o}, !.input = Nil, !.seen = {}]
    <2>1. job[w] \in Job
      BY DEF TypeInv, TypeOK
    <2>2. j \in Job /\ Moves(w, "verify", j)
      BY <1>2, <2>1 DEF Judge, Job, Moves
    <2>3. Keeps(w, "verify", j)
      BY <2>1 DEF Keeps, Job
    <2> HIDE DEF j
    <2> QED
      BY <2>2, <2>3, KeepsContinues DEF Labels
  <1> QED
    BY <1>1, <1>2

\* A step on the way of handleBlock to AddBlock.
LEMMA HandlerContinues ==
    ASSUME TypeInv, NEW w \in Worker,
           \/ LookupPrevious(w) \/ ReadLastBlock(w) \/ NoForkFound(w)
           \/ ForkReplayRejected(w) \/ CheckValid(w)
    PROVE  Continues(w)
  <1>1. status = "up" /\ pc[w] \notin {"idle", "commit"} /\ UNCHANGED <<net, disk, tip, fate>>
    BY DEF LookupPrevious, ReadLastBlock, NoForkFound, ForkReplayRejected, CheckValid,
           Verified, At, memory
  <1>2. CASE Return(w)
    BY <1>1, <1>2, ReturnContinues
  <1>3. CASE ~Return(w)
    <2>1. PICK l \in {"lastBlock", "forkChain", "verify", "update"} :
            /\ Goto(w, l)
            /\ pc[w] = "previous" => job[w].block.prev \in DOMAIN blocks
            /\ l = "update" => Fits(job[w].block)
      BY <1>3 DEF LookupPrevious, ReadLastBlock, NoForkFound, ForkReplayRejected, CheckValid,
                  Verified, At, Fits, IsValid
    <2>2. job[w] \in Job /\ Moves(w, l, job[w])
      BY <2>1, GotoMoves
    <2>3. Keeps(w, l, job[w])
      BY <2>1 DEF Keeps
    <2> QED
      BY <1>1, <2>2, <2>3, KeepsContinues DEF Labels
  <1> QED
    BY <1>2, <1>3

LEMMA ReaderContinues ==
    ASSUME TypeInv, NEW w \in Worker,
           GetUTXOsCached(w) \/ MissCache(w) \/ ViewUTXOs(w) \/ FillCache(w)
    PROVE  Continues(w)
  <1>1. /\ status = "up" /\ pc[w] \in {"verify", "view", "fill"}
        /\ UNCHANGED <<net, disk, tip, fate>>
    BY DEF GetUTXOsCached, MissCache, ViewUTXOs, FillCache, At, memory
  <1>2. job[w] \in Job /\ Consistent(pc[w], job[w])
    BY DEF TypeInv, TypeOK, Shape
  <1>3. CASE GetUTXOsCached(w)
    <2>1. PICK o \in job[w].todo : Judge(w, o, cache[Owner[o]])
      BY <1>3 DEF GetUTXOsCached
    <2>2. o \in Outpoint /\ pc[w] = "verify"
      BY <1>2, <1>3 DEF Job, GetUTXOsCached, At
    <2> QED
      BY <1>1, <2>1, <2>2, JudgeContinues
  <1>4. CASE FillCache(w)
    <2>1. job[w].input \in Outpoint /\ pc[w] = "fill"
      BY <1>2, <1>4 DEF Consistent, FillCache, At
    <2> QED
      BY <1>1, <1>4, <2>1, JudgeContinues DEF FillCache
  <1>5. CASE MissCache(w)
    <2>1. PICK o \in job[w].todo : job' = [job EXCEPT ![w].input = o]
      BY <1>5 DEF MissCache
    <2> DEFINE j == [job[w] EXCEPT !.input = o]
    <2>2. j \in Job /\ Moves(w, "view", j)
      BY <1>2, <1>5, <2>1 DEF Job, MissCache, Moves
    <2>3. Keeps(w, "view", j)
      BY <1>1, <1>2 DEF Keeps, Job
    <2> HIDE DEF j
    <2> QED
      BY <1>1, <2>2, <2>3, KeepsContinues DEF Labels
  <1>6. CASE ViewUTXOs(w)
    <2> DEFINE s == UTXOsOf(utxos, Owner[job[w].input])
               j == [job[w] EXCEPT !.seen = s]
    <2>1. s \subseteq Outpoint
      BY DEF UTXOsOf, TypeInv, TypeOK
    <2>2. job' = [job EXCEPT ![w].seen = s] /\ pc' = [pc EXCEPT ![w] = "fill"]
      BY <1>6 DEF ViewUTXOs
    <2> HIDE DEF s
    <2>3. j \in Job /\ Moves(w, "fill", j)
      BY <1>2, <2>1, <2>2 DEF Job, Moves
    <2>4. Keeps(w, "fill", j)
      BY <1>1, <1>2 DEF Keeps, Job
    <2> HIDE DEF j
    <2> QED
      BY <1>1, <2>3, <2>4, KeepsContinues DEF Labels
  <1> QED
    BY <1>3, <1>4, <1>5, <1>6

\* A positive multiple of a period is not smaller than it.
LEMMA PeriodReached ==
    ASSUME NEW n \in Nat, NEW k \in Nat \ {0}, n > 0, n % k = 0
    PROVE  n >= k
  <1>1. ASSUME n < k PROVE n % k = n
    BY <1>1
  <1> QED
    BY <1>1

LEMMA CreatorContinues ==
    ASSUME TypeInv, NEW w \in Worker,
           AdjustDifficulty(w) \/ ReadTimeSpan(w) \/ ReadHeight(w) \/ NewBlock(w)
    PROVE  Continues(w)
  <1>1. status = "up" /\ pc[w] \in {"verify", "timeSpan", "height", "newBlock"}
        /\ UNCHANGED <<net, disk, tip, fate>>
    BY DEF AdjustDifficulty, ReadTimeSpan, ReadHeight, NewBlock, Verified, At, memory
  <1>2. job[w] \in Job /\ job[w].op = "create" /\ job[w].hash \in Hash /\ job[w].block \in Block
    BY DEF TypeInv, TypeOK, Shape, Consistent,
           AdjustDifficulty, ReadTimeSpan, ReadHeight, NewBlock, Verified, At
  <1>3. CurrentHeight \in Nat
    BY HeightType DEF TypeInv
  <1>4. CASE AdjustDifficulty(w) \/ ReadHeight(w)
    <2>1. PICK n \in {CurrentHeight, CurrentHeight + 1}, l \in {"timeSpan", "height", "newBlock"} :
            /\ Moves(w, l, [job[w] EXCEPT !.block = [job[w].block EXCEPT !.height = n]])
            /\ l = "timeSpan" =>
                n = CurrentHeight /\ CurrentHeight > 0 /\ CurrentHeight % BlocksToAdjust = 0
      BY <1>4 DEF AdjustDifficulty, ReadHeight, Moves
    <2> DEFINE b == [job[w].block EXCEPT !.height = n]
               j == [job[w] EXCEPT !.block = b]
    <2>2. b \in Block /\ b.height = n
      BY <1>2, <1>3 DEF Block
    <2> HIDE DEF b
    <2>3. j \in Job /\ j.op = "create" /\ j.hash = job[w].hash /\ j.block = b
      BY <1>2, <2>2 DEF Job
    <2>4. ASSUME l = "timeSpan"
          PROVE  tip \in DOMAIN blocks /\ n = blocks[tip].height /\ n >= BlocksToAdjust
      <3>1. n >= BlocksToAdjust
        BY <1>3, <2>1, <2>4, PeriodReached, LedgerAssumption
      <3>2. CurrentHeight > 0 /\ n = CurrentHeight
        BY <2>1, <2>4
      <3> QED
        BY <3>1, <3>2 DEF CurrentHeight
    <2>5. Moves(w, l, j)
      BY <2>1 DEF b
    <2>6. Assembles(w, l, j)
      BY <1>2, <2>2, <2>3, <2>4 DEF Assembles
    <2> HIDE DEF j
    <2> QED
      BY <1>1, <2>3, <2>5, <2>6 DEF Continues, Labels
  <1>5. CASE ReadTimeSpan(w)
    <2>1. Moves(w, "height", job[w])
      BY <1>5, GotoMoves DEF ReadTimeSpan
    <2>2. Assembles(w, "height", job[w])
      BY <1>2 DEF Assembles
    <2> QED
      BY <1>1, <1>2, <2>1, <2>2 DEF Continues, Labels
  <1>6. CASE NewBlock(w)
    <2> DEFINE b == [job[w].block EXCEPT !.prev = tip]
               todo == InputsOf(job[w].block.txs)
               j == [job[w] EXCEPT !.op = "mine", !.block = b, !.todo = todo]
    <2>1. b \in Block /\ b.prev = tip
      BY <1>2 DEF TypeInv, TypeOK, Block
    <2>2. todo \subseteq Outpoint
      BY <1>2, OutpointsType DEF Block
    <2>3. job' = [job EXCEPT ![w].op = "mine", ![w].block.prev = tip, ![w].todo = todo]
          /\ pc' = [pc EXCEPT ![w] = "verify"]
      BY <1>6 DEF NewBlock
    <2> HIDE DEF todo
    <2>4. Moves(w, "verify", j)
      BY <2>3 DEF Moves
    <2> HIDE DEF b
    <2>5. j \in Job /\ j.op = "mine" /\ j.hash = job[w].hash /\ j.block = b
      BY <1>2, <2>1, <2>2 DEF Job
    <2>6. Mines(w, "verify", j)
      BY <1>2, <2>1, <2>5 DEF Mines
    <2> HIDE DEF j
    <2> QED
      BY <1>1, <2>4, <2>5, <2>6 DEF Continues, Labels
  <1> QED
    BY <1>4, <1>5, <1>6

-----------------------------------------------------------------------------
(* Every kind of step keeps the invariant of the chain store.               *)

\* What is said of the database alone.
StoreInv == StoreConnected /\ IndexCovers /\ UtxoAccounting

LEMMA StoreQuiet ==
    ASSUME StoreInv, UNCHANGED disk
    PROVE  StoreInv'
  BY DEF StoreInv, StoreConnected, IndexCovers, UtxoAccounting, Created, Spent, disk

LEMMA ChainInit == Init => ChainInv
  <1> SUFFICES ASSUME Init PROVE ChainInv
    OBVIOUS
  <1>1. /\ blocks = [h \in {Genesis} |-> GenesisBlock] /\ dbTip = Genesis /\ tip = Genesis
        /\ index = [k \in {0} |-> Genesis] /\ utxos = Creates[GenesisTx]
        /\ net = [h \in {} |-> Nil] /\ failed = {}
        /\ pc = [w \in Worker |-> "idle"] /\ job = [w \in Worker |-> NoJob]
    BY DEF Init
  <1>2. Names /\ Lock /\ Ready /\ Parents /\ Spans
    BY <1>1 DEF Names, Lock, Ready, Parents, Spans, NoJob
  <1>3. TipCoherent
    BY <1>1 DEF TipCoherent, InFlight
  <1>4. StoreConnected /\ IndexCovers
    BY <1>1 DEF StoreConnected, IndexCovers, GenesisBlock
  <1>5. InputsOf(GenesisBlock.txs) = {} /\ OutputsOf(GenesisBlock.txs) = Creates[GenesisTx]
    <2>1. /\ DOMAIN GenesisBlock.txs = {1}
          /\ GenesisBlock.txs[1] = GenesisTx
      BY DEF GenesisBlock
    <2> HIDE DEF GenesisBlock
    <2> QED
      BY <2>1, TxAssumption DEF InputsOf, OutputsOf
  <1>6. Created = Creates[GenesisTx]
    BY <1>1, <1>5 DEF Created
  <1>7. UtxoAccounting
    BY <1>1, <1>6 DEF UtxoAccounting
  <1> QED
    BY <1>2, <1>3, <1>4, <1>7 DEF ChainInv

\* A step that moves one goroutine, neither into nor out of a commit, and changes neither the
\* database nor bc.tip.
LEMMA QuietMove ==
    ASSUME TypeInv, ChainInv, NEW w \in Worker, NEW l \in Labels, NEW j \in Job,
           Moves(w, l, j), pc[w] # "commit", l # "commit",
           UNCHANGED <<net, disk, tip, fate>>
    PROVE  /\ InFlight' = InFlight
           /\ pc'[w] = l /\ job'[w] = j
           /\ \A v \in Worker : v # w => pc'[v] = pc[v] /\ job'[v] = job[v]
           /\ Lock' /\ TipCoherent' /\ StoreInv'
  <1>1. pc \in [Worker -> Labels] /\ job \in [Worker -> Job]
    BY DEF TypeInv, TypeOK
  <1>2. /\ pc'[w] = l /\ job'[w] = j
        /\ \A v \in Worker : v # w => pc'[v] = pc[v] /\ job'[v] = job[v]
    BY <1>1 DEF Moves
  <1>3. InFlight' = InFlight
    BY <1>2 DEF InFlight
  <1>4. Lock'
    BY <1>2 DEF ChainInv, Lock
  <1>5. \A v \in InFlight : job'[v].hash = job[v].hash
    BY <1>2 DEF InFlight
  <1>6. TipCoherent'
    BY <1>3, <1>5 DEF ChainInv, TipCoherent, disk, fate
  <1>7. StoreInv'
    BY StoreQuiet DEF ChainInv, StoreInv
  <1> QED
    BY <1>2, <1>3, <1>4, <1>6, <1>7

LEMMA BeginsChain ==
    ASSUME TypeInv, ChainInv, NEW w \in Worker, Begins(w)
    PROVE  ChainInv'
  <1>1. PICK l \in Labels, j \in Job : Moves(w, l, j) /\ BeginsWith(l, j)
    BY DEF Begins
  <1>2. pc[w] = "idle" /\ l \in {"previous", "verify"} /\ UNCHANGED <<net, disk, tip, fate>>
    BY <1>1 DEF Begins, BeginsWith
  <1>3. /\ InFlight' = InFlight
        /\ pc'[w] = l /\ job'[w] = j
        /\ \A v \in Worker : v # w => pc'[v] = pc[v] /\ job'[v] = job[v]
        /\ Lock' /\ TipCoherent' /\ StoreInv'
    BY <1>1, <1>2, QuietMove
  <1>4. UNCHANGED <<net, blocks, failed>>
    BY <1>2 DEF disk, fate
  <1>5. \A v \in Worker : job[v].op \in {"create", "mine"} => job[v].hash # Nil
    BY HashAssumption DEF TypeInv, Shape, Consistent
  <1>6. Names'
    <2>1. ASSUME NEW v \in Worker
          PROVE  /\ job'[v].op = "receive" =>
                    job'[v].hash \in DOMAIN net /\ job'[v].block = net[job'[v].hash]
                 /\ job'[v].op \in {"create", "mine"} =>
                    /\ job'[v].hash \notin DOMAIN net
                    /\ job'[v].hash \notin DOMAIN blocks
      <3>1. CASE v = w
        BY <1>1, <1>3, <3>1 DEF BeginsWith, Taken
      <3>2. CASE v # w
        BY <1>3, <3>2 DEF ChainInv, Names
      <3> QED
        BY <3>1, <3>2
    <2>2. ASSUME NEW u \in Worker, NEW v \in Worker, job'[v].op \in {"create", "mine"},
                 job'[u].hash = job'[v].hash
          PROVE  u = v
      <3>1. CASE v = w /\ u # w
        <4>1. j.hash \notin Taken
          BY <1>1, <1>3, <2>2, <3>1 DEF BeginsWith
        <4> QED
          BY <1>3, <2>2, <3>1, <4>1 DEF Taken
      <3>2. CASE v # w /\ u = w
        <4>1. job[v].hash \in Taken /\ job[v].hash # Nil /\ job[v].hash \notin DOMAIN net
          BY <1>3, <1>5, <2>2, <3>2 DEF Taken, ChainInv, Names
        <4> QED
          BY <1>1, <1>3, <2>2, <3>2, <4>1 DEF BeginsWith
      <3>3. CASE v # w /\ u # w
        BY <1>3, <2>2, <3>3 DEF ChainInv, Names
      <3> QED
        BY <3>1, <3>2, <3>3
    <2>3. \A h \in DOMAIN net \cap DOMAIN blocks : blocks[h] = net[h]
      BY DEF ChainInv, Names
    <2> QED
      BY <1>4, <2>1, <2>2, <2>3 DEF Names
  <1>7. Ready'
    BY <1>1, <1>3, <1>4 DEF ChainInv, Ready, Fits, BeginsWith
  <1>8. Parents'
    <2>1. \A v \in Worker : job'[v].op = "mine" => v # w
      BY <1>1, <1>3 DEF BeginsWith
    <2>2. w \notin InFlight
      BY <1>2 DEF InFlight
    <2> QED
      BY <1>3, <1>4, <2>1, <2>2 DEF ChainInv, Parents, InFlight
  <1>9. Spans'
    BY <1>2, <1>3, <1>4 DEF ChainInv, Spans
  <1> QED
    BY <1>3, <1>6, <1>7, <1>8, <1>9 DEF ChainInv, StoreInv

LEMMA ContinuesChain ==
    ASSUME TypeInv, ChainInv, NEW w \in Worker, Continues(w)
    PROVE  ChainInv'
  <1>1. PICK l \in Labels, j \in Job :
            /\ Moves(w, l, j)
            /\ \/ l = "idle" /\ j = NoJob
               \/ Keeps(w, l, j)
               \/ Assembles(w, l, j)
               \/ Mines(w, l, j)
    BY DEF Continues
  <1>2. /\ pc[w] \notin {"idle", "commit"} /\ l # "commit" /\ status = "up"
        /\ UNCHANGED <<net, disk, tip, fate>>
    BY <1>1 DEF Continues, Keeps, Assembles, Mines
  <1>3. /\ InFlight' = InFlight
        /\ pc'[w] = l /\ job'[w] = j
        /\ \A v \in Worker : v # w => pc'[v] = pc[v] /\ job'[v] = job[v]
        /\ Lock' /\ TipCoherent' /\ StoreInv'
    BY <1>1, <1>2, QuietMove
  <1>4. UNCHANGED <<net, blocks, failed>>
    BY <1>2 DEF disk, fate
  <1>5. NoJob.op = "none" /\ NoJob.hash = Nil
    BY DEF NoJob
  <1>6. Names'
    <2>1. \/ j.hash = job[w].hash /\ j.block = job[w].block /\ j.op = job[w].op
          \/ /\ j.hash = job[w].hash /\ j.op \in {"create", "mine"}
             /\ job[w].op \in {"create", "mine"}
          \/ j.op = "none" /\ j.hash = Nil
      BY <1>1, <1>5 DEF Keeps, Assembles, Mines
    <2>2. \A v \in Worker : job[v].op \in {"create", "mine"} => job[v].hash # Nil
      BY HashAssumption DEF TypeInv, Shape, Consistent
    <2>3. ASSUME NEW v \in Worker
          PROVE  /\ job'[v].op = "receive" =>
                    job'[v].hash \in DOMAIN net /\ job'[v].block = net[job'[v].hash]
                 /\ job'[v].op \in {"create", "mine"} =>
                    /\ job'[v].hash \notin DOMAIN net
                    /\ job'[v].hash \notin DOMAIN blocks
      BY <1>3, <2>1 DEF ChainInv, Names
    <2>4. ASSUME NEW u \in Worker, NEW v \in Worker, job'[v].op \in {"create", "mine"},
                 job'[u].hash = job'[v].hash
          PROVE  u = v
      <3>1. job[v].op \in {"create", "mine"} /\ job'[v].hash = job[v].hash
        BY <1>3, <2>1, <2>4
      <3>2. job'[u].hash = job[u].hash
        BY <1>3, <2>1, <2>2, <2>4, <3>1
      <3> QED
        BY <2>4, <3>1, <3>2 DEF ChainInv, Names
    <2>5. \A h \in DOMAIN net \cap DOMAIN blocks : blocks[h] = net[h]
      BY DEF ChainInv, Names
    <2> QED
      BY <1>4, <2>3, <2>4, <2>5 DEF Names
  <1>7. Ready'
    <2>1. /\ j.op = "receive" => j.block.prev \in DOMAIN blocks
          /\ l = "update" => Fits(j.block)
      BY <1>1, <1>5 DEF ChainInv, Ready, Keeps, Assembles, Mines
    <2>2. \A v \in Worker \ {w} :
            /\ job'[v].op = "receive" /\ pc'[v] # "previous" => job'[v].block.prev \in DOMAIN blocks
            /\ pc'[v] \in {"update", "commit"} => Fits(job'[v].block)
      BY <1>3 DEF ChainInv, Ready
    <2> QED
      BY <1>2, <1>3, <1>4, <2>1, <2>2 DEF Ready, Fits
  <1>8. Parents'
    <2>1. \A v \in InFlight : job'[v] = job[v]
      BY <1>2, <1>3 DEF InFlight
    <2>2. CASE Mines(w, l, j)
      <3>1. \/ tip \in DOMAIN blocks
            \/ failed # {}
            \/ \E v \in InFlight : tip = job[v].hash
        BY <1>2 DEF ChainInv, TipCoherent, StoreConnected
      <3> QED
        BY <1>3, <1>4, <2>1, <2>2, <3>1 DEF ChainInv, Parents, Mines
    <2>3. CASE ~Mines(w, l, j)
      <3>1. j.op = "mine" => job[w].op = "mine" /\ j.block = job[w].block
        BY <1>1, <1>5, <2>3 DEF Keeps, Assembles
      <3> QED
        BY <1>3, <1>4, <2>1, <3>1 DEF ChainInv, Parents
    <2> QED
      BY <2>2, <2>3
  <1>9. Spans'
    <2>1. l = "timeSpan" =>
            /\ j.block.height >= BlocksToAdjust
            /\ \E g \in DOMAIN blocks : blocks[g].height = j.block.height
      BY <1>1 DEF Keeps, Assembles, Mines
    <2>2. \A v \in Worker \ {w} : pc'[v] = "timeSpan" =>
            /\ job'[v].block.height >= BlocksToAdjust
            /\ \E g \in DOMAIN blocks : blocks[g].height = job'[v].block.height
      BY <1>3 DEF ChainInv, Spans
    <2> QED
      BY <1>3, <1>4, <2>1, <2>2 DEF Spans
  <1> QED
    BY <1>3, <1>6, <1>7, <1>8, <1>9 DEF ChainInv, StoreInv

LEMMA PeerMinesChain ==
    ASSUME TypeInv, ChainInv, NEW h \in Hash, NEW p \in Hash, NEW a \in PeerWallet, NEW b \in Batch,
           PeerMines(h, p, a, b)
    PROVE  ChainInv'
  <1>1. PICK block : net' = Put(net, h, block)
    BY DEF PeerMines
  <1>2. h \notin Taken /\ UNCHANGED <<disk, memory, fate, pc, job>>
    BY DEF PeerMines
  <1>3. UNCHANGED <<blocks, dbTip, tip, status, failed, pc, job>>
    BY <1>2 DEF disk, memory, fate
  <1>4. DOMAIN net' = DOMAIN net \cup {h} /\ \A x \in DOMAIN net : x # h => net'[x] = net[x]
    BY <1>1 DEF Put
  <1>5. h \notin DOMAIN net /\ h \notin DOMAIN blocks /\ \A w \in Worker : job[w].hash # h
    BY <1>2 DEF Taken
  <1>6. Names'
    BY <1>3, <1>4, <1>5 DEF ChainInv, Names
  <1>7. StoreInv'
    BY <1>2, StoreQuiet DEF ChainInv, StoreInv
  <1>8. Lock' /\ Ready' /\ Parents' /\ Spans' /\ TipCoherent'
    BY <1>3 DEF ChainInv, Lock, Ready, Fits, Parents, Spans, TipCoherent, InFlight
  <1> QED
    BY <1>6, <1>7, <1>8 DEF ChainInv, StoreInv

\* The closure of Db.Update moves bc.tip to the block in flight.
LEMMA RunUpdateChain ==
    ASSUME TypeInv, ChainInv, NEW w \in Worker, RunUpdate(w)
    PROVE  ChainInv'
  <1>1. /\ pc[w] = "update" /\ tip' = job[w].hash /\ UNCHANGED <<net, disk, fate, job>>
        /\ pc' = [pc EXCEPT ![w] = "commit"]
    BY DEF RunUpdate, Goto, At
  <1>2. UNCHANGED <<net, blocks, dbTip, status, failed>>
    BY <1>1 DEF disk, fate
  <1>3. pc'[w] = "commit" /\ \A v \in Worker : v # w => pc'[v] = pc[v] /\ pc[v] # "commit"
    BY <1>1 DEF RunUpdate, TypeInv, TypeOK
  <1>4. InFlight = {} /\ InFlight' = {w}
    BY <1>1, <1>3 DEF InFlight
  <1>5. Names' /\ Lock' /\ TipCoherent'
    BY <1>1, <1>2, <1>3, <1>4 DEF ChainInv, Names, Lock, TipCoherent
  <1>6. Ready'
    BY <1>1, <1>2, <1>3 DEF ChainInv, Ready, Fits
  <1>7. Parents'
    BY <1>1, <1>2, <1>4 DEF ChainInv, Parents
  <1>8. Spans'
    BY <1>1, <1>2, <1>3 DEF ChainInv, Spans
  <1>9. StoreInv'
    BY <1>1, StoreQuiet DEF ChainInv, StoreInv
  <1> QED
    BY <1>5, <1>6, <1>7, <1>8, <1>9 DEF ChainInv, StoreInv

\* A goroutine leaves Db.Update, with or without having written.
LEMMA LeavesUpdate ==
    ASSUME TypeInv, ChainInv, NEW w \in Worker, At(w, "commit"), Return(w)
    PROVE  /\ InFlight = {w} /\ InFlight' = {}
           /\ pc'[w] = "idle" /\ job'[w] = NoJob
           /\ \A v \in Worker : v # w => pc'[v] = pc[v] /\ job'[v] = job[v] /\ pc[v] # "commit"
           /\ tip = job[w].hash
           /\ Lock'
  <1>1. /\ pc'[w] = "idle" /\ job'[w] = NoJob
        /\ \A v \in Worker : v # w => pc'[v] = pc[v] /\ job'[v] = job[v]
    BY DEF TypeInv, TypeOK, Return
  <1>2. \A v \in Worker : v # w => pc[v] # "commit"
    BY DEF ChainInv, Lock, At
  <1>3. InFlight = {w} /\ InFlight' = {}
    BY <1>1, <1>2 DEF InFlight, At
  <1>4. tip = job[w].hash
    BY <1>3 DEF ChainInv, TipCoherent, At
  <1>5. Lock'
    BY <1>1, <1>2 DEF Lock
  <1> QED
    BY <1>1, <1>2, <1>3, <1>4, <1>5

LEMMA CommitFailsChain ==
    ASSUME TypeInv, ChainInv, NEW w \in Worker, CommitFails(w)
    PROVE  ChainInv'
  <1>1. /\ InFlight = {w} /\ InFlight' = {}
        /\ pc'[w] = "idle" /\ job'[w] = NoJob
        /\ \A v \in Worker : v # w => pc'[v] = pc[v] /\ job'[v] = job[v] /\ pc[v] # "commit"
        /\ tip = job[w].hash
        /\ Lock'
    BY LeavesUpdate DEF CommitFails
  <1>2. UNCHANGED <<net, disk, blocks, dbTip, tip, status>> /\ failed' = failed \cup {job[w].hash}
    BY DEF CommitFails, disk, memory
  <1>3. NoJob.op = "none" /\ NoJob.hash = Nil
    BY DEF NoJob
  <1>4. \A v \in Worker : job[v].op \in {"create", "mine"} => job[v].hash # Nil
    BY HashAssumption DEF TypeInv, Shape, Consistent
  <1>5. Names'
    BY <1>1, <1>2, <1>3, <1>4 DEF ChainInv, Names
  <1>6. TipCoherent'
    BY <1>1, <1>2 DEF TipCoherent
  <1>7. Ready' /\ Spans'
    BY <1>1, <1>2, <1>3 DEF ChainInv, Ready, Fits, Spans
  <1>8. Parents'
    BY <1>1, <1>2, <1>3 DEF ChainInv, Parents
  <1>9. StoreInv'
    BY <1>2, StoreQuiet DEF ChainInv, StoreInv
  <1> QED
    BY <1>1, <1>5, <1>6, <1>7, <1>8, <1>9 DEF ChainInv, StoreInv

\* A panic or a kill leaves the database alone, and no job behind.
LEMMA StopChain ==
    ASSUME TypeInv, ChainInv, NEW how \in {"down", "panic"}, StopProcess(how)
    PROVE  ChainInv'
  <1>1. /\ status' # "up" /\ UNCHANGED <<net, disk, blocks>>
        /\ \A w \in Worker : pc'[w] = "idle" /\ job'[w] = NoJob
    BY DEF StopProcess, disk
  <1>2. NoJob.op = "none"
    BY DEF NoJob
  <1>3. Names' /\ Lock' /\ Ready' /\ Parents' /\ Spans' /\ TipCoherent'
    BY <1>1, <1>2 DEF ChainInv, Names, Lock, Ready, Parents, Spans, TipCoherent
  <1>4. StoreInv'
    BY <1>1, StoreQuiet DEF ChainInv, StoreInv
  <1> QED
    BY <1>3, <1>4 DEF ChainInv, StoreInv

\* A rebuilt index names a stored block of every height, and every height below the height of
\* a stored block is the height of one.
LEMMA RestartChain ==
    ASSUME TypeInv, ChainInv, Restart
    PROVE  ChainInv'
  <1>1. /\ status # "up" /\ tip' = dbTip /\ UNCHANGED <<net, blocks, dbTip, utxos, pc, job>>
    BY DEF Restart
  <1>2. \A w \in Worker : pc[w] = "idle" /\ job[w].op = "none"
    BY <1>1 DEF TypeInv, Shape, Consistent, NoJob
  <1>3. Names' /\ Lock' /\ Ready' /\ Parents' /\ Spans'
    BY <1>1, <1>2 DEF ChainInv, Names, Lock, Ready, Parents, Spans
  <1>4. TipCoherent'
    BY <1>1, <1>2 DEF TipCoherent, InFlight
  <1>5. PICK last \in [Heights -> DOMAIN blocks] :
            /\ \A k \in Heights : blocks[last[k]].height = k
            /\ index' = [k \in DOMAIN index \cup Heights |->
                            IF k \in Heights THEN last[k] ELSE index[k]]
    BY DEF Restart
  <1>6. ASSUME NEW h \in DOMAIN blocks, NEW k \in 0..blocks[h].height
        PROVE  k \in DOMAIN index' /\ index'[k] \in DOMAIN blocks /\ blocks[index'[k]].height = k
    <2>1. k \in DOMAIN index /\ index[k] \in DOMAIN blocks /\ blocks[index[k]].height = k
      BY DEF ChainInv, IndexCovers
    <2>2. k \in Heights
      BY <2>1 DEF Heights
    <2>3. index'[k] = last[k]
      BY <1>5, <2>2
    <2> QED
      BY <1>5, <2>2, <2>3
  <1>7. IndexCovers'
    BY <1>1, <1>6 DEF IndexCovers
  <1>8. StoreConnected' /\ UtxoAccounting'
    BY <1>1 DEF ChainInv, StoreConnected, UtxoAccounting, Created, Spent
  <1> QED
    BY <1>3, <1>4, <1>7, <1>8 DEF ChainInv

\* The UTXO set after a block has everything the block did not spend of what there was and
\* what it created, and nothing besides.
LEMMA UpdateUTXOSetBounds ==
    ASSUME NEW u, NEW txs \in Seq(Tx)
    PROVE  /\ (u \cup OutputsOf(txs)) \ InputsOf(txs) \subseteq UpdateUTXOSet(u, txs)
           /\ UpdateUTXOSet(u, txs) \subseteq u \cup OutputsOf(txs)
  <1>1. ASSUME NEW o \in OutputsOf(txs), o \notin InputsOf(txs)
        PROVE  o \in UpdateUTXOSet(u, txs)
    <2>1. PICK i \in DOMAIN txs : o \in Creates[txs[i]]
      BY <1>1 DEF OutputsOf
    <2>2. \A k \in DOMAIN txs : o \notin Spends[txs[k]]
      BY <1>1 DEF InputsOf
    <2> QED
      BY <1>1, <2>1, <2>2 DEF UpdateUTXOSet
  <1>2. u \ InputsOf(txs) \subseteq UpdateUTXOSet(u, txs)
    BY DEF UpdateUTXOSet
  <1>3. UpdateUTXOSet(u, txs) \subseteq u \cup OutputsOf(txs)
    BY DEF UpdateUTXOSet
  <1> QED
    BY <1>1, <1>2, <1>3

\* The block a goroutine commits extends the store: it fits on a stored parent, it is not the
\* genesis block, and if its hash is stored already then so is the same block.
LEMMA CommitExtends ==
    ASSUME TypeInv, ChainInv, NEW w \in Worker, At(w, "commit")
    PROVE  /\ job[w].hash \in Hash /\ job[w].block \in Block
           /\ job[w].hash # Genesis
           /\ Fits(job[w].block)
           /\ job[w].hash \in DOMAIN blocks => blocks[job[w].hash] = job[w].block
           /\ job[w].hash \in DOMAIN net => net[job[w].hash] = job[w].block
  <1>1. /\ job[w].op \in {"receive", "mine"}
        /\ job[w].hash \in Hash /\ job[w].block \in Block
    BY DEF TypeInv, Shape, Consistent, At
  <1>2. Fits(job[w].block)
    BY DEF ChainInv, Ready, At
  <1>3. job[w].hash \in DOMAIN blocks => blocks[job[w].hash] = job[w].block
    BY <1>1 DEF ChainInv, Names
  <1>4. job[w].hash \in DOMAIN net => net[job[w].hash] = job[w].block
    BY <1>1 DEF ChainInv, Names
  <1>5. job[w].hash # Genesis
    <2>1. Genesis \in DOMAIN blocks /\ blocks[Genesis].prev = Nil /\ Nil \notin DOMAIN blocks
      BY HashAssumption DEF ChainInv, StoreConnected, GenesisBlock, TypeInv, TypeOK
    <2> QED
      BY <1>2, <1>3, <2>1 DEF Fits
  <1> QED
    BY <1>1, <1>2, <1>3, <1>4, <1>5

LEMMA CommitStore ==
    ASSUME TypeInv, ChainInv, NEW w \in Worker, Commit(w)
    PROVE  StoreInv'
  <1> DEFINE h == job[w].hash
             b == job[w].block
  <1>1. /\ h \in Hash /\ b \in Block /\ h # Genesis /\ Fits(b)
        /\ h \in DOMAIN blocks => blocks[h] = b
    BY CommitExtends DEF Commit
  <1>2. /\ blocks' = Put(blocks, h, b) /\ dbTip' = h /\ index' = Put(index, b.height, h)
        /\ utxos' = UpdateUTXOSet(utxos, b.txs)
    BY DEF Commit
  <1> HIDE DEF h, b
  <1>3. /\ DOMAIN blocks' = DOMAIN blocks \cup {h} /\ blocks'[h] = b
        /\ \A x \in DOMAIN blocks : blocks'[x] = blocks[x]
    BY <1>1, <1>2 DEF Put
  <1>4. /\ DOMAIN index' = DOMAIN index \cup {b.height} /\ index'[b.height] = h
        /\ \A k \in DOMAIN index : k # b.height => index'[k] = index[k]
    BY <1>2 DEF Put
  <1>5. StoreConnected'
    <2>1. ASSUME NEW x \in DOMAIN blocks', x # Genesis
          PROVE  /\ blocks'[x].prev \in DOMAIN blocks'
                 /\ blocks'[x].height = blocks'[blocks'[x].prev].height + 1
      <3>1. CASE x = h
        BY <1>1, <1>3, <3>1 DEF Fits
      <3>2. CASE x # h
        BY <1>3, <2>1, <3>2 DEF ChainInv, StoreConnected
      <3> QED
        BY <3>1, <3>2
    <2>2. dbTip' \in DOMAIN blocks' /\ Genesis \in DOMAIN blocks' /\ blocks'[Genesis] = GenesisBlock
      BY <1>2, <1>3 DEF ChainInv, StoreConnected
    <2> QED
      BY <2>1, <2>2 DEF StoreConnected
  <1>6. IndexCovers'
    <2> SUFFICES ASSUME NEW x \in DOMAIN blocks', NEW k \in 0..blocks'[x].height
                 PROVE  /\ k \in DOMAIN index' /\ index'[k] \in DOMAIN blocks'
                        /\ blocks'[index'[k]].height = k
      BY DEF IndexCovers
    <2>1. CASE k = b.height
      BY <1>3, <1>4, <2>1
    <2>2. CASE k # b.height
      <3>1. PICK y \in DOMAIN blocks : k \in 0..blocks[y].height
        <4>1. CASE x \in DOMAIN blocks
          BY <1>3, <4>1
        <4>2. CASE x = h
          <5>1. b.prev \in DOMAIN blocks /\ b.height = blocks[b.prev].height + 1
            BY <1>1 DEF Fits
          <5>2. blocks[b.prev].height \in Nat
            BY <5>1 DEF TypeInv, TypeOK, Block
          <5>3. k \in 0..b.height
            BY <1>3, <4>2
          <5>4. k \in 0..blocks[b.prev].height
            BY <2>2, <5>1, <5>2, <5>3
          <5> QED
            BY <5>1, <5>4
        <4> QED
          BY <1>3, <4>1, <4>2
      <3>2. k \in DOMAIN index /\ index[k] \in DOMAIN blocks /\ blocks[index[k]].height = k
        BY <3>1 DEF ChainInv, IndexCovers
      <3> QED
        BY <1>3, <1>4, <2>2, <3>2
    <2> QED
      BY <2>1, <2>2
  <1>7. UtxoAccounting'
    <2>1. Created' = Created \cup OutputsOf(b.txs) /\ Spent' = Spent \cup InputsOf(b.txs)
      BY <1>1, <1>3 DEF Created, Spent
    <2>2. b.txs \in Seq(Tx)
      BY <1>1 DEF Block
    <2>3. /\ (utxos \cup OutputsOf(b.txs)) \ InputsOf(b.txs) \subseteq utxos'
          /\ utxos' \subseteq utxos \cup OutputsOf(b.txs)
      BY <1>2, <2>2, UpdateUTXOSetBounds
    <2> QED
      BY <2>1, <2>3 DEF ChainInv, UtxoAccounting
  <1> QED
    BY <1>5, <1>6, <1>7 DEF StoreInv

LEMMA CommitChain ==
    ASSUME TypeInv, ChainInv, NEW w \in Worker, Commit(w)
    PROVE  ChainInv'
  <1>1. /\ InFlight = {w} /\ InFlight' = {}
        /\ pc'[w] = "idle" /\ job'[w] = NoJob
        /\ \A v \in Worker : v # w => pc'[v] = pc[v] /\ job'[v] = job[v] /\ pc[v] # "commit"
        /\ tip = job[w].hash
        /\ Lock'
    BY LeavesUpdate DEF Commit
  <1>2. /\ job[w].hash \in Hash
        /\ job[w].hash \in DOMAIN blocks => blocks[job[w].hash] = job[w].block
        /\ job[w].hash \in DOMAIN net => net[job[w].hash] = job[w].block
    BY CommitExtends DEF Commit
  <1>3. UNCHANGED <<net, tip, status, failed>> /\ dbTip' = job[w].hash
    BY DEF Commit, memory, fate
  <1>4. /\ DOMAIN blocks' = DOMAIN blocks \cup {job[w].hash}
        /\ blocks'[job[w].hash] = job[w].block
        /\ \A x \in DOMAIN blocks : blocks'[x] = blocks[x]
    BY <1>2 DEF Commit, Put
  <1>5. NoJob.op = "none" /\ NoJob.hash = Nil
    BY DEF NoJob
  <1>6. \A v \in Worker : job[v].op \in {"create", "mine"} => job[v].hash # Nil
    BY HashAssumption DEF TypeInv, Shape, Consistent
  <1>7. Names'
    <2>1. \A x \in DOMAIN net \cap DOMAIN blocks' : blocks'[x] = net[x]
      BY <1>2, <1>4 DEF ChainInv, Names
    <2>2. ASSUME NEW v \in Worker, v # w
          PROVE  /\ job[v].op = "receive" =>
                    job[v].hash \in DOMAIN net /\ job[v].block = net[job[v].hash]
                 /\ job[v].op \in {"create", "mine"} =>
                    /\ job[v].hash \notin DOMAIN net
                    /\ job[v].hash \notin DOMAIN blocks'
                    /\ job[v].hash # Nil
                    /\ \A u \in Worker : job[u].hash = job[v].hash => u = v
      BY <1>4, <1>6, <2>2 DEF ChainInv, Names
    <2> QED
      BY <1>1, <1>3, <1>5, <2>1, <2>2 DEF Names
  <1>8. TipCoherent'
    BY <1>1, <1>3 DEF TipCoherent
  <1>9. Ready'
    BY <1>1, <1>4, <1>5 DEF ChainInv, Ready, Fits
  <1>10. Parents'
    BY <1>1, <1>3, <1>4, <1>5 DEF ChainInv, Parents
  <1>11. Spans'
    BY <1>1, <1>4 DEF ChainInv, Spans
  <1>12. StoreInv'
    BY CommitStore
  <1> QED
    BY <1>1, <1>7, <1>8, <1>9, <1>10, <1>11, <1>12 DEF ChainInv, StoreInv

LEMMA UnchangedChain ==
    ASSUME ChainInv, UNCHANGED vars
    PROVE  ChainInv'
  <1>1. StoreInv'
    BY StoreQuiet DEF ChainInv, StoreInv, vars
  <1>2. Names' /\ Lock' /\ Ready' /\ Parents' /\ Spans' /\ TipCoherent'
    BY DEF ChainInv, Names, Lock, Ready, Fits, Parents, Spans, TipCoherent, InFlight,
           vars, disk, memory, fate
  <1> QED
    BY <1>1, <1>2 DEF ChainInv, StoreInv

LEMMA ChainNext == TypeInv /\ ChainInv /\ [Next]_vars => ChainInv'
  <1> SUFFICES ASSUME TypeInv, ChainInv, [Next]_vars PROVE ChainInv'
    OBVIOUS
  <1>1. ASSUME NEW h \in Hash, NEW p \in Hash, NEW a \in PeerWallet, NEW b \in Batch,
               PeerMines(h, p, a, b)
        PROVE  ChainInv'
    BY <1>1, PeerMinesChain
  <1>2. ASSUME NEW w \in Peer, NEW h \in Hash, HandleBlock(w, h)
        PROVE  ChainInv'
    BY <1>2, HandleBlockBegins, BeginsChain DEF Worker
  <1>3. ASSUME NEW w \in Worker, NEW o \in Queried, StartRead(w, o)
        PROVE  ChainInv'
    BY <1>3, StartReadBegins, BeginsChain
  <1>4. ASSUME NEW w \in Local, NEW h \in Hash, NEW a \in Wallet, NEW b \in Batch,
               StartMining(w, h, a, b)
        PROVE  ChainInv'
    BY <1>4, StartMiningBegins, BeginsChain DEF Worker
  <1>5. ASSUME NEW w \in Worker, Step(w) \/ NewBlock(w)
        PROVE  ChainInv'
    <2>1. CASE LookupPrevious(w) \/ ReadLastBlock(w) \/ NoForkFound(w)
               \/ ForkReplayRejected(w) \/ CheckValid(w)
      BY <2>1, HandlerContinues, ContinuesChain
    <2>2. CASE GetUTXOsCached(w) \/ MissCache(w) \/ ViewUTXOs(w) \/ FillCache(w)
      BY <2>2, ReaderContinues, ContinuesChain
    <2>3. CASE AdjustDifficulty(w) \/ ReadTimeSpan(w) \/ ReadHeight(w) \/ NewBlock(w)
      BY <2>3, CreatorContinues, ContinuesChain
    <2>4. CASE RunUpdate(w)
      BY <2>4, RunUpdateChain
    <2>5. CASE Commit(w)
      BY <2>5, CommitChain
    <2>6. CASE CommitFails(w)
      BY <2>6, CommitFailsChain
    <2>7. CASE Panics(w)
      BY <2>7, StopChain
         DEF Panics, Panic, LastBlockPanics, ForkReplayPanics, IsValidPanics, TimeSpanPanics
    <2> QED
      BY <1>5, <2>1, <2>2, <2>3, <2>4, <2>5, <2>6, <2>7 DEF Step, Panics
  <1>6. CASE Kill
    BY <1>6, StopChain DEF Kill
  <1>7. CASE Restart
    BY <1>7, RestartChain
  <1>8. CASE UNCHANGED vars
    BY <1>8, UnchangedChain
  <1> QED
    BY <1>1, <1>2, <1>3, <1>4, <1>5, <1>6, <1>7, <1>8 DEF Next

LEMMA ChainInvariant == Spec => [](TypeInv /\ ChainInv)
  BY TypeInit, TypeNext, ChainInit, ChainNext, PTL DEF Spec

-----------------------------------------------------------------------------
(* What follows from it.                                                    *)

\* Every stored block but the genesis block has a stored parent one height below it, and the
\* database's tip is stored, whatever AddBlock and CreateBlock calls race, crash or fail.
THEOREM StoreStaysConnected == Spec => []StoreConnected
  <1>1. ChainInv => StoreConnected
    BY DEF ChainInv
  <1> QED
    BY <1>1, ChainInvariant, PTL

\* bc.tip is the database's tip, or the block of the update in flight, or a block whose commit
\* failed in this run of the process (addBlockToDb sets it before the commit).
THEOREM TipStaysCoherent == Spec => []TipCoherent
  <1>1. ChainInv => TipCoherent
    BY DEF ChainInv
  <1> QED
    BY <1>1, ChainInvariant, PTL

\* The height index has a stored block of the right height for every height up to that of any
\* stored block, through forks, restarts and rebuilds (addBlockToDb, createHeightIndex).
THEOREM IndexAlwaysCovers == Spec => []IndexCovers
  <1>1. ChainInv => IndexCovers
    BY DEF ChainInv
  <1> QED
    BY <1>1, ChainInvariant, PTL

\* The UTXO bucket has every output that no stored block spends and none that no stored block
\* creates (updateUTXOSet).
THEOREM UtxosAccounted == Spec => []UtxoAccounting
  <1>1. ChainInv => UtxoAccounting
    BY DEF ChainInv
  <1> QED
    BY <1>1, ChainInvariant, PTL

\* What a nil dereference takes.
Excuse ==
    \/ failed # {}
    \/ InFlight # {}
    \/ \E w \in Worker : pc[w] = "forkChain" /\ job[w].hash \in DOMAIN blocks

\* With no commit failed and none in flight, bc.tip names a stored block.
LEMMA TipStored ==
    ASSUME ChainInv, status = "up", ~Excuse
    PROVE  tip \in DOMAIN blocks
  BY DEF ChainInv, TipCoherent, StoreConnected, Excuse

LEMMA PanicsExcused ==
    ASSUME TypeInv, ChainInv, NEW w \in Worker, Panics(w)
    PROVE  Excuse
  <1> SUFFICES ASSUME ~Excuse PROVE FALSE
    OBVIOUS
  <1>1. status = "up"
    BY DEF Panics, LastBlockPanics, ForkReplayPanics, IsValidPanics, TimeSpanPanics, Verified, At
  <1>2. tip \in DOMAIN blocks
    BY <1>1, TipStored
  <1>3. CASE LastBlockPanics(w)
    BY <1>2, <1>3 DEF LastBlockPanics
  <1>4. CASE ForkReplayPanics(w)
    BY <1>4 DEF ForkReplayPanics, At, Excuse
  <1>5. CASE IsValidPanics(w)
    BY <1>5 DEF IsValidPanics, Verified, At, Excuse, ChainInv, Ready, Parents
  <1>6. CASE TimeSpanPanics(w)
    <2> DEFINE first == job[w].block.height - BlocksToAdjust
    <2>1. PICK g \in DOMAIN blocks :
            job[w].block.height >= BlocksToAdjust /\ blocks[g].height = job[w].block.height
      BY <1>6 DEF TimeSpanPanics, At, ChainInv, Spans
    <2>2. blocks[g].height \in Nat /\ BlocksToAdjust \in Nat \ {0}
      BY LedgerAssumption DEF TypeInv, TypeOK, Block
    <2>3. first \in 0..blocks[g].height
      BY <2>1, <2>2
    <2>4. first \in DOMAIN index /\ index[first] \in DOMAIN blocks
      BY <2>3 DEF ChainInv, IndexCovers
    <2> QED
      BY <1>2, <1>6, <2>4 DEF TimeSpanPanics, SpanKnown
  <1> QED
    BY <1>3, <1>4, <1>5, <1>6 DEF Panics

\* No handler, query or mining call dereferences nil on its own: it takes a failed commit, an
\* update in flight, or a block stored while another goroutine evaluates it as a fork.
THEOREM PanicsNeedOverlap == Spec => PanicNeedsOverlap
  <1>1. TypeInv /\ ChainInv /\ [Next]_vars => [status = "up" /\ status' = "panic" => Excuse]_vars
    <2> SUFFICES ASSUME TypeInv, ChainInv, Next, status = "up", status' = "panic"
                 PROVE  Excuse
      BY DEF vars, fate
    <2>1. \E w \in Worker : Panics(w)
      BY DEF Next, Step, Panics, PeerMines, HandleBlock, StartRead, StartMining, Kill, StopProcess,
             Restart, LookupPrevious, ReadLastBlock, NoForkFound, ForkReplayRejected,
             GetUTXOsCached, MissCache, ViewUTXOs, FillCache, CheckValid, RunUpdate, Commit,
             CommitFails, AdjustDifficulty, ReadTimeSpan, ReadHeight, NewBlock, fate
    <2> QED
      BY <2>1, PanicsExcused
  <1>2. [][status = "up" /\ status' = "panic" => Excuse]_vars => PanicNeedsOverlap
    BY DEF PanicNeedsOverlap, Excuse
  <1> QED
    BY <1>1, <1>2, ChainInvariant, PTL DEF Spec

-----------------------------------------------------------------------------
(* The database implements the block tree: a commit adopts its block, and  *)
(* nothing else touches what the tree is made of.                          *)

LEMMA CommitAdopts ==
    ASSUME TypeInv, ChainInv, NEW w \in Worker, Commit(w)
    PROVE  Tree!Next
  <1> DEFINE h == job[w].hash
             b == job[w].block
             tree == [x \in DOMAIN blocks |->
                        [height |-> blocks[x].height, prev |-> blocks[x].prev]]
             node == [height |-> tree[b.prev].height + 1, prev |-> b.prev]
  <1>1. /\ h \in Hash /\ Fits(b)
        /\ h \in DOMAIN blocks => blocks[h] = b
    BY CommitExtends DEF Commit
  <1>2. blocks' = Put(blocks, h, b) /\ dbTip' = h
    BY DEF Commit
  <1> HIDE DEF h, b
  <1>3. b.prev \in DOMAIN tree /\ node = [height |-> b.height, prev |-> b.prev]
    BY <1>1 DEF Fits
  <1>4. h \in DOMAIN tree => tree[h] = node
    BY <1>1, <1>3
  <1>5. tree' = [x \in DOMAIN tree \cup {h} |-> IF x = h THEN node ELSE tree[x]]
    BY <1>1, <1>2, <1>3 DEF Put
  <1> HIDE DEF tree, node
  <1>6. \E x \in Hash : \E p \in DOMAIN tree :
            LET n == [height |-> tree[p].height + 1, prev |-> p]
            IN  /\ x \in DOMAIN tree => tree[x] = n
                /\ tree' = [y \in DOMAIN tree \cup {x} |-> IF y = x THEN n ELSE tree[y]]
                /\ dbTip' = x
    BY <1>1, <1>2, <1>3, <1>4, <1>5 DEF node
  <1> QED
    BY <1>6 DEF Tree!Next, Tree!Adopt, tree

\* Crashes, failed commits, restarts and whatever goroutines do in between are stutters of the
\* block tree, and every commit is a step of it (addBlockToDb).
THEOREM Refinement == Spec => ImplementsBlockTree
  <1>1. Init => Tree!Init
    BY DEF Init, GenesisBlock, Tree!Init
  <1>2. TypeInv /\ ChainInv /\ [Next]_vars => [Tree!Next]_(Tree!vars)
    <2> SUFFICES ASSUME TypeInv, ChainInv, [Next]_vars
                 PROVE  Tree!Next \/ UNCHANGED <<blocks, dbTip>>
      BY DEF Tree!vars
    <2>1. CASE \E w \in Worker : Commit(w)
      BY <2>1, CommitAdopts
    <2>2. CASE ~\E w \in Worker : Commit(w)
      BY <2>2 DEF Next, Step, PeerMines, HandleBlock, StartRead, StartMining, Kill, StopProcess,
             Restart, LookupPrevious, ReadLastBlock, NoForkFound, ForkReplayRejected,
             GetUTXOsCached, MissCache, ViewUTXOs, FillCache, CheckValid, RunUpdate,
             CommitFails, AdjustDifficulty, ReadTimeSpan, ReadHeight, NewBlock, disk, vars,
             LastBlockPanics, ForkReplayPanics, IsValidPanics, TimeSpanPanics, Panic
    <2> QED
      BY <2>1, <2>2
  <1> QED
    BY <1>1, <1>2, ChainInvariant, PTL DEF Spec, ImplementsBlockTree, Tree!Spec

-----------------------------------------------------------------------------
(* Calls that do not overlap: one goroutine does everything. What it has   *)
(* verified stays unspent until it commits, and the cache is never behind. *)

\* An answer on its way into the cache is what the bucket has, nobody fills the cache during
\* a commit, and a block that is not stored yet spends what is unspent or yet to be looked up.
LoneJob(w) ==
    /\ pc[w] = "fill" => job[w].seen = UTXOsOf(utxos, Owner[job[w].input])
    /\ pc[w] = "commit" => DOMAIN cache = {}
    /\ pc[w] \in {"update", "commit"} => job[w].todo = {}
    /\ job[w].op \in {"receive", "create", "mine"} =>
        /\ job[w].hash \notin DOMAIN blocks
        /\ InputsOf(job[w].block.txs) \subseteq utxos \cup job[w].todo

LoneInv ==
    /\ IsFiniteSet(DOMAIN blocks)
    /\ SpendsBacked
    /\ CacheFresh
    /\ \A w \in Worker : LoneJob(w)

\* At first there is the genesis block.
LEMMA LoneInit == Init => LoneInv
  <1> SUFFICES ASSUME Init PROVE LoneInv
    OBVIOUS
  <1>1. IsFiniteSet(DOMAIN blocks)
    BY FS_Singleton DEF Init
  <1>2. SpendsBacked
    <2> SUFFICES ASSUME NEW o \in Outpoint
                 PROVE  Cardinality({h \in DOMAIN blocks : o \in InputsOf(blocks[h].txs)})
                          + (IF o \in utxos THEN 1 ELSE 0)
                        <= Cardinality({h \in DOMAIN blocks : o \in OutputsOf(blocks[h].txs)})
      BY DEF SpendsBacked
    <2>1. blocks = [h \in {Genesis} |-> GenesisBlock] /\ utxos = Creates[GenesisTx]
      BY DEF Init
    <2>2. InputsOf(GenesisBlock.txs) = {} /\ OutputsOf(GenesisBlock.txs) = Creates[GenesisTx]
      BY TxAssumption DEF InputsOf, OutputsOf, GenesisBlock
    <2> DEFINE S == {h \in DOMAIN blocks : o \in InputsOf(blocks[h].txs)}
               M == {h \in DOMAIN blocks : o \in OutputsOf(blocks[h].txs)}
    <2>3. S = {}
      BY <2>1, <2>2
    <2>4. M = IF o \in utxos THEN {Genesis} ELSE {}
      BY <2>1, <2>2
    <2>5. Cardinality({}) = 0 /\ Cardinality({Genesis}) = 1
      BY FS_EmptySet, FS_Singleton
    <2> HIDE DEF S, M
    <2>6. Cardinality(S) + (IF o \in utxos THEN 1 ELSE 0) <= Cardinality(M)
      BY <2>3, <2>4, <2>5
    <2> QED BY <2>6 DEF S, M
  <1>3. CacheFresh
    BY DEF Init, CacheFresh
  <1>4. ASSUME NEW w \in Worker PROVE LoneJob(w)
    BY <1>4 DEF Init, LoneJob, NoJob
  <1> QED BY <1>1, <1>2, <1>3, <1>4 DEF LoneInv

\* A step that leaves the store and the cache alone.
LEMMA LoneQuiet ==
    ASSUME LoneInv, UNCHANGED <<blocks, utxos, cache>>, \A w \in Worker : LoneJob(w)'
    PROVE  LoneInv'
  BY DEF LoneInv, SpendsBacked, CacheFresh

\* The starts of the operations.
LEMMA LoneBegins ==
    ASSUME TypeInv, LoneInv, NEW p, Worker = {p},
           \/ \E h \in Hash : HandleBlock(p, h)
           \/ \E o \in Queried : StartRead(p, o)
           \/ \E h \in Hash, a \in Wallet, b \in Batch : StartMining(p, h, a, b)
    PROVE  LoneInv'
  <1>1. job \in [Worker -> Job] /\ pc \in [Worker -> Labels] /\ p \in Worker
    BY DEF TypeInv, TypeOK
  <1>2. UNCHANGED <<blocks, utxos, cache>>
    BY DEF HandleBlock, StartRead, StartMining, disk, memory
  <1>3. LoneJob(p)'
    <2>1. ASSUME NEW h \in Hash, HandleBlock(p, h) PROVE LoneJob(p)'
      BY <1>1, <1>2, <2>1 DEF HandleBlock, LoneJob, NoJob
    <2>2. ASSUME NEW o \in Queried, StartRead(p, o) PROVE LoneJob(p)'
      BY <1>1, <1>2, <2>2 DEF StartRead, LoneJob, NoJob
    <2>3. ASSUME NEW h \in Hash, NEW a \in Wallet, NEW b \in Batch, StartMining(p, h, a, b)
          PROVE  LoneJob(p)'
      BY <1>1, <1>2, <2>3 DEF StartMining, LoneJob, NoJob, Taken
    <2> QED BY <2>1, <2>2, <2>3
  <1> QED BY <1>2, <1>3, LoneQuiet

\* An answer of GetUTXOs that is what the bucket has.
LEMMA LoneJudges ==
    ASSUME TypeInv, NEW w \in Worker, NEW o, LoneJob(w),
           UNCHANGED <<blocks, utxos>>, Judge(w, o, UTXOsOf(utxos, Owner[o]))
    PROVE  LoneJob(w)'
  <1>1. job \in [Worker -> Job] /\ pc \in [Worker -> Labels]
    BY DEF TypeInv, TypeOK
  <1>2. CASE Return(w)
    BY <1>1, <1>2 DEF Return, LoneJob, NoJob
  <1>3. CASE ~Return(w)
    <2>1. /\ o \in utxos
          /\ pc' = [pc EXCEPT ![w] = "verify"]
          /\ job' = [job EXCEPT ![w].todo = @ \ {o}, ![w].input = Nil, ![w].seen = {}]
      BY <1>3 DEF Judge, UTXOsOf
    <2>2. /\ pc'[w] = "verify"
          /\ job'[w].op = job[w].op /\ job'[w].hash = job[w].hash /\ job'[w].block = job[w].block
          /\ job'[w].todo = job[w].todo \ {o}
      BY <1>1, <2>1 DEF Job
    <2> QED BY <2>1, <2>2 DEF LoneJob
  <1> QED BY <1>2, <1>3

\* The steps of GetUTXOs.
LEMMA LoneReads ==
    ASSUME TypeInv, LoneInv, NEW p, Worker = {p},
           GetUTXOsCached(p) \/ MissCache(p) \/ ViewUTXOs(p) \/ FillCache(p)
    PROVE  LoneInv'
  <1>1. job \in [Worker -> Job] /\ pc \in [Worker -> Labels] /\ p \in Worker /\ LoneJob(p)
    BY DEF TypeInv, TypeOK, LoneInv
  <1>2. UNCHANGED <<blocks, utxos>>
    BY DEF GetUTXOsCached, MissCache, ViewUTXOs, FillCache, disk
  <1>3. CASE GetUTXOsCached(p)
    <2>1. PICK o \in job[p].todo : Owner[o] \in DOMAIN cache /\ Judge(p, o, cache[Owner[o]])
      BY <1>3 DEF GetUTXOsCached
    <2>2. Judge(p, o, UTXOsOf(utxos, Owner[o]))
      BY <2>1 DEF LoneInv, CacheFresh
    <2> QED BY <1>1, <1>2, <1>3, <2>2, LoneJudges, LoneQuiet DEF GetUTXOsCached, memory
  <1>4. CASE MissCache(p)
    <2>1. /\ pc'[p] = "view" /\ job'[p].op = job[p].op /\ job'[p].hash = job[p].hash
          /\ job'[p].block = job[p].block /\ job'[p].todo = job[p].todo
      BY <1>1, <1>4 DEF MissCache, Job
    <2> QED BY <1>1, <1>2, <1>4, <2>1, LoneQuiet DEF MissCache, memory, LoneJob
  <1>5. CASE ViewUTXOs(p)
    <2>1. /\ pc'[p] = "fill" /\ job'[p].op = job[p].op /\ job'[p].hash = job[p].hash
          /\ job'[p].block = job[p].block /\ job'[p].todo = job[p].todo
          /\ job'[p].seen = UTXOsOf(utxos, Owner[job[p].input]) /\ job'[p].input = job[p].input
      BY <1>1, <1>5 DEF ViewUTXOs, Job
    <2>2. LoneJob(p)'
      BY <1>1, <1>2, <2>1 DEF LoneJob, UTXOsOf
    <2> QED BY <1>2, <1>5, <2>2, LoneQuiet DEF ViewUTXOs, memory
  <1>6. CASE FillCache(p)
    <2>1. job[p].seen = UTXOsOf(utxos, Owner[job[p].input])
      BY <1>1, <1>6 DEF FillCache, At, LoneJob
    <2>2. CacheFresh'
      BY <1>2, <1>6, <2>1 DEF FillCache, CacheFresh, Put, LoneInv, UTXOsOf
    <2>3. LoneJob(p)'
      BY <1>1, <1>2, <1>6, <2>1, LoneJudges DEF FillCache
    <2> QED BY <1>2, <2>2, <2>3 DEF LoneInv, SpendsBacked
  <1> QED BY <1>3, <1>4, <1>5, <1>6

\* Handlers and CreateBlock between their reads: nothing is stored, and what is still to be
\* verified stays the same or, for a new block, starts anew.
\* The steps that only look at the store.
LEMMA LoneContinues ==
    ASSUME TypeInv, LoneInv, NEW p, Worker = {p},
           \/ LookupPrevious(p) \/ ReadLastBlock(p) \/ NoForkFound(p) \/ ForkReplayRejected(p)
           \/ CheckValid(p) \/ AdjustDifficulty(p) \/ ReadTimeSpan(p) \/ ReadHeight(p) \/ NewBlock(p)
    PROVE  LoneInv'
  <1>1. job \in [Worker -> Job] /\ pc \in [Worker -> Labels] /\ p \in Worker /\ LoneJob(p)
    BY DEF TypeInv, TypeOK, LoneInv
  <1>2. UNCHANGED <<blocks, utxos, cache>>
    BY DEF LookupPrevious, ReadLastBlock, NoForkFound, ForkReplayRejected, CheckValid,
           AdjustDifficulty, ReadTimeSpan, ReadHeight, NewBlock, disk, memory
  <1>3. ASSUME Return(p) PROVE LoneJob(p)'
    BY <1>1, <1>3 DEF Return, LoneJob, NoJob
  <1>4. ASSUME NEW l, Goto(p, l), l \notin {"fill", "commit"},
               l = "update" => job[p].todo = {}
        PROVE  LoneJob(p)'
    BY <1>1, <1>2, <1>4 DEF Goto, LoneJob
  <1>5. CASE AdjustDifficulty(p) \/ ReadHeight(p)
    <2>1. job[p].op = "create" /\ job[p].block \in Block
      BY <1>1, <1>5 DEF AdjustDifficulty, Verified, ReadHeight, At, TypeInv, Shape, Consistent
    <2>2. /\ pc'[p] \in {"timeSpan", "height", "newBlock"}
          /\ job'[p].op = job[p].op /\ job'[p].hash = job[p].hash /\ job'[p].todo = job[p].todo
          /\ job'[p].block.txs = job[p].block.txs
      BY <1>1, <1>5, <2>1 DEF AdjustDifficulty, ReadHeight, Job, Block
    <2> QED BY <1>1, <1>2, <2>2, LoneQuiet DEF LoneJob
  <1>6. CASE NewBlock(p)
    <2>1. job[p].op = "create" /\ job[p].block \in Block
      BY <1>1, <1>6 DEF NewBlock, At, TypeInv, Shape, Consistent
    <2>2. /\ pc'[p] = "verify" /\ job'[p].op = "mine" /\ job'[p].hash = job[p].hash
          /\ job'[p].todo = InputsOf(job[p].block.txs) /\ job'[p].block.txs = job[p].block.txs
      BY <1>1, <1>6, <2>1 DEF NewBlock, Job, Block
    <2> QED BY <1>1, <1>2, <2>1, <2>2, LoneQuiet DEF LoneJob
  <1>7. CASE LookupPrevious(p) \/ ForkReplayRejected(p) \/ CheckValid(p)
    <2>1. Return(p) \/ Goto(p, "lastBlock") \/ (Goto(p, "update") /\ job[p].todo = {})
      BY <1>7 DEF LookupPrevious, ForkReplayRejected, CheckValid, Verified
    <2> QED BY <1>2, <1>3, <1>4, <2>1, LoneQuiet
  <1>8. CASE ReadLastBlock(p) \/ NoForkFound(p) \/ ReadTimeSpan(p)
    <2>1. Goto(p, "verify") \/ Goto(p, "forkChain") \/ Goto(p, "height")
      BY <1>8 DEF ReadLastBlock, NoForkFound, ReadTimeSpan
    <2> QED BY <1>2, <1>4, <2>1, LoneQuiet
  <1> QED BY <1>5, <1>6, <1>7, <1>8

\* The closure of Db.Update, which purges the cache, and its rollback.
LEMMA LoneUpdates ==
    ASSUME TypeInv, LoneInv, NEW p, Worker = {p}, RunUpdate(p) \/ CommitFails(p)
    PROVE  LoneInv'
  <1>1. job \in [Worker -> Job] /\ pc \in [Worker -> Labels] /\ p \in Worker /\ LoneJob(p)
    BY DEF TypeInv, TypeOK, LoneInv
  <1>2. UNCHANGED <<blocks, utxos>>
    BY DEF RunUpdate, CommitFails, disk
  <1>3. CASE RunUpdate(p)
    BY <1>1, <1>2, <1>3 DEF RunUpdate, Goto, At, LoneInv, LoneJob, SpendsBacked, CacheFresh
  <1>4. CASE CommitFails(p)
    <2>1. UNCHANGED cache /\ Return(p)
      BY <1>4 DEF CommitFails, memory
    <2>2. LoneJob(p)'
      BY <1>1, <2>1 DEF Return, LoneJob, NoJob
    <2> QED BY <1>2, <2>1, <2>2, LoneQuiet
  <1> QED BY <1>3, <1>4

\* One more block h with the transactions txs, none of whose inputs was spent before.
LEMMA SpendsStayBacked ==
    ASSUME IsFiniteSet(DOMAIN blocks), SpendsBacked, NEW h, h \notin DOMAIN blocks,
           NEW b \in Block, InputsOf(b.txs) \subseteq utxos,
           blocks' = Put(blocks, h, b), utxos' = UpdateUTXOSet(utxos, b.txs)
    PROVE  SpendsBacked'
  <1> SUFFICES ASSUME NEW o \in Outpoint
               PROVE  Cardinality({g \in DOMAIN blocks' : o \in InputsOf(blocks'[g].txs)})
                        + (IF o \in utxos' THEN 1 ELSE 0)
                      <= Cardinality({g \in DOMAIN blocks' : o \in OutputsOf(blocks'[g].txs)})
    BY DEF SpendsBacked
  <1> DEFINE S == {g \in DOMAIN blocks : o \in InputsOf(blocks[g].txs)}
             M == {g \in DOMAIN blocks : o \in OutputsOf(blocks[g].txs)}
             S1 == {g \in DOMAIN blocks' : o \in InputsOf(blocks'[g].txs)}
             M1 == {g \in DOMAIN blocks' : o \in OutputsOf(blocks'[g].txs)}
             flag == IF o \in utxos THEN 1 ELSE 0
             flag1 == IF o \in utxos' THEN 1 ELSE 0
             spent == IF o \in InputsOf(b.txs) THEN 1 ELSE 0
             made == IF o \in OutputsOf(b.txs) THEN 1 ELSE 0
  <1>1. /\ DOMAIN blocks' = DOMAIN blocks \cup {h} /\ blocks'[h] = b
        /\ \A g \in DOMAIN blocks : blocks'[g] = blocks[g]
    BY DEF Put
  <1>2. /\ IsFiniteSet(S) /\ IsFiniteSet(M) /\ h \notin S /\ h \notin M
        /\ Cardinality(S) \in Nat /\ Cardinality(M) \in Nat
    BY FS_Subset, FS_CardinalityType
  <1>3. Cardinality(S) + flag <= Cardinality(M)
    BY DEF SpendsBacked
  <1>4. o \in InputsOf(b.txs) => S1 = S \cup {h}
    BY <1>1
  <1>5. o \notin InputsOf(b.txs) => S1 = S
    BY <1>1
  <1>6. o \in OutputsOf(b.txs) => M1 = M \cup {h}
    BY <1>1
  <1>7. o \notin OutputsOf(b.txs) => M1 = M
    BY <1>1
  <1>8. /\ Cardinality(S \cup {h}) = Cardinality(S) + 1
        /\ Cardinality(M \cup {h}) = Cardinality(M) + 1
    BY <1>2, FS_AddElement
  <1>9. /\ o \in InputsOf(b.txs) => o \in utxos
        /\ o \in utxos' => o \in OutputsOf(b.txs) \/ (o \in utxos /\ o \notin InputsOf(b.txs))
    BY DEF UpdateUTXOSet
  <1> HIDE DEF S, M, S1, M1
  <1>10. Cardinality(S1) = Cardinality(S) + spent
    BY <1>2, <1>4, <1>5, <1>8
  <1>11. Cardinality(M1) = Cardinality(M) + made
    <2>1. CASE o \in OutputsOf(b.txs)
      <3>1. made = 1
        BY <2>1 DEF made
      <3> HIDE DEF made
      <3> QED BY <1>6, <1>8, <2>1, <3>1
    <2>2. CASE o \notin OutputsOf(b.txs)
      <3>1. made = 0
        BY <2>2 DEF made
      <3> HIDE DEF made
      <3> QED BY <1>2, <1>7, <2>2, <3>1
    <2> QED BY <2>1, <2>2
  <1>12. /\ spent \in {0, 1} /\ made \in {0, 1} /\ flag \in {0, 1} /\ flag1 \in {0, 1}
         /\ spent = 1 => flag = 1
         /\ flag1 = 1 => made = 1 \/ (flag = 1 /\ spent = 0)
    <2>1. /\ spent = 1 <=> o \in InputsOf(b.txs)
          /\ made = 1 <=> o \in OutputsOf(b.txs)
      OBVIOUS
    <2>2. (flag = 1 <=> o \in utxos) /\ (flag1 = 1 <=> o \in utxos')
      OBVIOUS
    <2>3. /\ spent \in {0, 1} /\ made \in {0, 1}
          /\ flag \in {0, 1} /\ flag1 \in {0, 1}
      OBVIOUS
    <2> HIDE DEF spent, made, flag, flag1
    <2>4. spent = 0 <=> o \notin InputsOf(b.txs)
      BY <2>1, <2>3
    <2> QED BY <1>9, <2>1, <2>2, <2>3, <2>4
  <1> HIDE DEF spent, made, flag, flag1
  <1>13. Cardinality(S1) + flag1 <= Cardinality(M1)
    BY <1>2, <1>3, <1>10, <1>11, <1>12
  <1> QED BY <1>13 DEF S1, M1, flag1

\* The block's inputs are unspent, so the commit spends them for the first time.
LEMMA LoneCommits ==
    ASSUME TypeInv, LoneInv, NEW p, Worker = {p}, Commit(p)
    PROVE  LoneInv'
  <1>1. job \in [Worker -> Job] /\ pc \in [Worker -> Labels] /\ p \in Worker /\ LoneJob(p)
    BY DEF TypeInv, TypeOK, LoneInv
  <1>2. /\ job[p].op \in {"receive", "mine"} /\ job[p].block \in Block
        /\ job[p].hash \notin DOMAIN blocks /\ InputsOf(job[p].block.txs) \subseteq utxos
        /\ DOMAIN cache = {} /\ cache' = cache
    BY <1>1 DEF Commit, At, LoneJob, TypeInv, Shape, Consistent, memory
  <1>3. SpendsBacked'
    BY <1>2, SpendsStayBacked DEF Commit, LoneInv
  <1>4. IsFiniteSet(DOMAIN blocks')
    <2>1. DOMAIN blocks' = DOMAIN blocks \cup {job[p].hash}
      BY DEF Commit, Put
    <2> QED BY <2>1, FS_AddElement DEF LoneInv
  <1>5. CacheFresh'
    BY <1>2 DEF CacheFresh
  <1>6. LoneJob(p)'
    BY <1>1 DEF Commit, Return, LoneJob, NoJob
  <1> QED BY <1>3, <1>4, <1>5, <1>6 DEF LoneInv

\* Every step.
LEMMA LoneNext ==
    ASSUME TypeInv, LoneInv, NEW p, Worker = {p}, [Next]_vars
    PROVE  LoneInv'
  <1>1. CASE \E w \in Peer, h \in Hash : HandleBlock(w, h)
    BY <1>1, LoneBegins DEF Worker
  <1>2. CASE \E w \in Worker, o \in Queried : StartRead(w, o)
    BY <1>2, LoneBegins
  <1>3. CASE \E w \in Local, h \in Hash, a \in Wallet, b \in Batch : StartMining(w, h, a, b)
    BY <1>3, LoneBegins DEF Worker
  <1>4. ASSUME NEW w \in Worker, Step(w) \/ NewBlock(w) PROVE LoneInv'
    <2>1. w = p
      OBVIOUS
    <2>2. CASE Panics(p)
      <3>1. /\ UNCHANGED <<blocks, utxos, cache>>
            /\ pc' = [v \in Worker |-> "idle"] /\ job' = [v \in Worker |-> NoJob]
        BY <2>2 DEF Panics, LastBlockPanics, ForkReplayPanics, IsValidPanics, TimeSpanPanics, Panic,
                    StopProcess, disk
      <3> QED BY <3>1, LoneQuiet DEF LoneJob, NoJob
    <2> QED BY <1>4, <2>1, <2>2, LoneReads, LoneContinues, LoneUpdates, LoneCommits DEF Step, Panics
  <1>5. CASE Kill
    <2>1. /\ UNCHANGED <<blocks, utxos, cache>>
          /\ pc' = [v \in Worker |-> "idle"] /\ job' = [v \in Worker |-> NoJob]
      BY <1>5 DEF Kill, StopProcess, disk
    <2> QED BY <2>1, LoneQuiet DEF LoneJob, NoJob
  <1>6. CASE Restart
    <2>1. \A w \in Worker : pc[w] = "idle" /\ job[w] = NoJob
      BY <1>6 DEF Restart, TypeInv, Shape, Consistent
    <2> QED BY <1>6, <2>1 DEF Restart, LoneInv, LoneJob, NoJob, SpendsBacked, CacheFresh
  <1>7. CASE UNCHANGED vars \/ \E h \in Hash, q \in Hash, a \in PeerWallet, b \in Batch : PeerMines(h, q, a, b)
    <2>1. UNCHANGED <<blocks, utxos, cache, pc, job>>
      BY <1>7 DEF vars, PeerMines, disk, memory
    <2> QED BY <2>1, LoneQuiet DEF LoneJob, LoneInv
  <1> QED BY <1>1, <1>2, <1>3, <1>4, <1>5, <1>6, <1>7 DEF Next

\* With one goroutine for everything no outpoint is spent by more blocks than created it,
\* over all branches, kills and failed commits: VerifyTransaction and updateUTXOSet agree.
THEOREM SpendsBackedAlone ==
    ASSUME NEW p, Worker = {p}
    PROVE  Spec => []SpendsBacked
  <1>1. TypeInv /\ LoneInv /\ [Next]_vars => LoneInv'
    BY LoneNext
  <1>2. LoneInv => SpendsBacked
    BY DEF LoneInv
  <1> QED BY <1>1, <1>2, LoneInit, TypeInvariant, PTL DEF Spec

-----------------------------------------------------------------------------
(* One goroutine receives blocks, any number mine. A block that was not    *)
(* stored when it came is not stored by anybody else, as nobody mines a    *)
(* block a peer has mined.                                                 *)

NewToAll(p) == \A w \in Worker : job[w].op = "receive" => w = p /\ job[w].hash \notin DOMAIN blocks

\* A step of goroutine w that neither receives a block nor stores one.
LEMMA NewStaysNew ==
    ASSUME TypeInv, NEW p, NewToAll(p), NEW w \in Worker, NEW l \in Labels, NEW j \in Job,
           Moves(w, l, j), UNCHANGED blocks,
           j.op = "receive" => job[w].op = "receive" /\ j.hash = job[w].hash
    PROVE  NewToAll(p)'
  <1>1. job \in [Worker -> Job]
    BY DEF TypeInv, TypeOK
  <1>2. job'[w] = j /\ \A v \in Worker : v # w => job'[v] = job[v]
    BY <1>1 DEF Moves
  <1> QED BY <1>2 DEF NewToAll

LEMMA NewBegins ==
    ASSUME TypeInv, NEW p, Peer = {p}, NewToAll(p),
           \/ \E h \in Hash : HandleBlock(p, h)
           \/ \E w \in Worker, o \in Queried : StartRead(w, o)
           \/ \E w \in Local, h \in Hash, a \in Wallet, b \in Batch : StartMining(w, h, a, b)
    PROVE  NewToAll(p)'
  <1>1. job \in [Worker -> Job] /\ p \in Worker
    BY DEF TypeInv, TypeOK, Worker
  <1>2. UNCHANGED blocks
    BY DEF HandleBlock, StartRead, StartMining, disk
  <1>3. ASSUME NEW h \in Hash, HandleBlock(p, h) PROVE NewToAll(p)'
    <2>1. job'[p].hash = h /\ h \notin DOMAIN blocks
      BY <1>1, <1>3 DEF HandleBlock, NoJob
    <2>2. \A v \in Worker : v # p => job'[v] = job[v]
      BY <1>1, <1>3 DEF HandleBlock
    <2> QED BY <1>2, <2>1, <2>2 DEF NewToAll
  <1>4. ASSUME NEW w \in Worker, NEW o \in Queried, StartRead(w, o) PROVE NewToAll(p)'
    <2>1. job'[w].op = "read" /\ \A v \in Worker : v # w => job'[v] = job[v]
      BY <1>1, <1>4 DEF StartRead, NoJob
    <2> QED BY <1>2, <2>1 DEF NewToAll
  <1>5. ASSUME NEW w \in Local, NEW h \in Hash, NEW a \in Wallet, NEW b \in Batch,
               StartMining(w, h, a, b)
        PROVE  NewToAll(p)'
    <2>1. w \in Worker /\ job'[w].op = "create" /\ \A v \in Worker : v # w => job'[v] = job[v]
      BY <1>1, <1>5 DEF StartMining, NoJob, Worker
    <2> QED BY <1>2, <2>1 DEF NewToAll
  <1> QED BY <1>3, <1>4, <1>5

\* What goes on with a job goes on with its block, and only its own receiver stores a received one.
LEMMA NewContinues ==
    ASSUME TypeInv, ChainInv, NEW p, NewToAll(p), NEW w \in Worker, Step(w) \/ NewBlock(w), ~Panics(w)
    PROVE  NewToAll(p)'
  <1>1. job \in [Worker -> Job] /\ pc \in [Worker -> Labels]
    BY DEF TypeInv, TypeOK
  <1>2. CASE Continues(w)
    <2>1. UNCHANGED blocks
      BY <1>2 DEF Continues, disk
    <2>2. PICK l \in Labels, j \in Job :
            /\ Moves(w, l, j)
            /\ \/ l = "idle" /\ j = NoJob
               \/ Keeps(w, l, j)
               \/ Assembles(w, l, j)
               \/ Mines(w, l, j)
      BY <1>2 DEF Continues
    <2>3. j.op = "receive" => job[w].op = "receive" /\ j.hash = job[w].hash
      BY <2>2 DEF Keeps, Assembles, Mines, NoJob
    <2> QED BY <2>1, <2>2, <2>3, NewStaysNew
  <1>3. CASE RunUpdate(w)
    <2>1. UNCHANGED blocks /\ UNCHANGED job
      BY <1>3 DEF RunUpdate, Goto, disk
    <2> QED BY <2>1 DEF NewToAll
  <1>4. CASE CommitFails(w)
    <2>1. UNCHANGED blocks /\ job' = [job EXCEPT ![w] = NoJob]
      BY <1>4 DEF CommitFails, Return, disk
    <2> QED BY <1>1, <2>1 DEF NewToAll, NoJob
  <1>5. CASE Commit(w)
    <2>1. DOMAIN blocks' = DOMAIN blocks \cup {job[w].hash} /\ job' = [job EXCEPT ![w] = NoJob]
      BY <1>5 DEF Commit, Return, Put
    <2>2. job[w].op \in {"receive", "mine"}
      BY <1>5 DEF Commit, At, TypeInv, Shape, Consistent
    <2>3. ASSUME NEW v \in Worker, job'[v].op = "receive"
          PROVE  v = p /\ job'[v].hash \notin DOMAIN blocks'
      <3>1. v # w /\ job'[v] = job[v]
        BY <1>1, <2>1, <2>3 DEF NoJob
      <3>2. v = p /\ job[v].hash \notin DOMAIN blocks /\ job[v].hash \in DOMAIN net
        BY <2>3, <3>1 DEF NewToAll, ChainInv, Names
      <3>3. job[w].op = "mine"
        BY <2>2, <3>1, <3>2 DEF NewToAll
      <3>4. job[w].hash \notin DOMAIN net
        BY <3>3 DEF ChainInv, Names
      <3> QED BY <2>1, <3>1, <3>2, <3>4
    <2> QED BY <2>3 DEF NewToAll
  <1> QED
    BY <1>2, <1>3, <1>4, <1>5, HandlerContinues, ReaderContinues, CreatorContinues DEF Step, Panics

LEMMA NewNext ==
    ASSUME TypeInv, ChainInv, NEW p, Peer = {p}, NewToAll(p), [Next]_vars
    PROVE  NewToAll(p)'
  <1>1. CASE \/ \E w \in Peer, h \in Hash : HandleBlock(w, h)
             \/ \E w \in Worker, o \in Queried : StartRead(w, o)
             \/ \E w \in Local, h \in Hash, a \in Wallet, b \in Batch : StartMining(w, h, a, b)
    BY <1>1, NewBegins
  <1>2. ASSUME NEW w \in Worker, Step(w) \/ NewBlock(w), ~Panics(w) PROVE NewToAll(p)'
    BY <1>2, NewContinues
  <1>3. CASE Kill \/ \E w \in Worker : Panics(w)
    <2>1. job' = [v \in Worker |-> NoJob]
      BY <1>3 DEF Panics, LastBlockPanics, ForkReplayPanics, IsValidPanics, TimeSpanPanics, Panic, Kill,
                  StopProcess
    <2> QED BY <2>1 DEF NewToAll, NoJob
  <1>4. CASE \/ Restart \/ UNCHANGED vars
             \/ \E h \in Hash, q \in Hash, a \in PeerWallet, b \in Batch : PeerMines(h, q, a, b)
    <2>1. UNCHANGED <<blocks, job>>
      BY <1>4 DEF vars, PeerMines, Restart, disk
    <2> QED BY <2>1 DEF NewToAll
  <1> QED BY <1>1, <1>2, <1>3, <1>4 DEF Next

\* With one peer, and miners beside it, fork.db is closed whenever nobody evaluates a fork: that the
\* replay into it fails and leaves it locked takes a block that comes from two peers at once
\* (GetForkChain).
THEOREM ForkDBReleasedByOne ==
    ASSUME NEW p, Peer = {p}
    PROVE  Spec => []ForkDBReleased
  <1>1. Init => NewToAll(p) /\ ForkDBReleased
    BY DEF Init, NewToAll, NoJob, ForkDBReleased
  <1>2. TypeInv /\ ChainInv /\ NewToAll(p) /\ [Next]_vars => NewToAll(p)'
    BY NewNext
  <1>3. ASSUME TypeInv, NewToAll(p), ForkDBReleased, [Next]_vars PROVE ForkDBReleased'
    <2>1. ASSUME NEW w \in Worker PROVE ~ForkReplayRejected(w)
      BY <1>3 DEF ForkReplayRejected, At, TypeInv, Shape, Consistent, NewToAll
    <2> QED
      BY <1>3, <2>1
         DEF ForkDBReleased, Next, Step, PeerMines, HandleBlock, StartRead, StartMining, Kill, StopProcess,
             Restart, LookupPrevious, ReadLastBlock, NoForkFound, GetUTXOsCached, MissCache, ViewUTXOs,
             FillCache, CheckValid, RunUpdate, Commit, CommitFails, AdjustDifficulty, ReadTimeSpan,
             ReadHeight, NewBlock, LastBlockPanics, ForkReplayPanics, IsValidPanics, TimeSpanPanics,
             Panic, memory, vars
  <1> QED BY <1>1, <1>2, <1>3, ChainInvariant, PTL DEF Spec

\* With one goroutine for everything a nil is dereferenced only after a failed commit: bc.tip then
\* names a block that is not there (addBlockToDb sets it before the commit).
THEOREM PanicsNeedFailureAlone ==
    ASSUME NEW p, Worker = {p}
    PROVE  Spec => [][status = "up" /\ status' = "panic" => failed # {}]_vars
  <1>1. TypeInv /\ ChainInv /\ LoneInv /\ [Next]_vars
          => [status = "up" /\ status' = "panic" => failed # {}]_vars
    <2> SUFFICES ASSUME TypeInv, ChainInv, LoneInv, Next, status = "up", status' = "panic"
                 PROVE  failed # {}
      BY DEF vars, fate
    <2>1. Panics(p)
      BY DEF Next, Step, Panics, PeerMines, HandleBlock, StartRead, StartMining, Kill, StopProcess,
             Restart, LookupPrevious, ReadLastBlock, NoForkFound, ForkReplayRejected,
             GetUTXOsCached, MissCache, ViewUTXOs, FillCache, CheckValid, RunUpdate, Commit,
             CommitFails, AdjustDifficulty, ReadTimeSpan, ReadHeight, NewBlock, fate
    <2>2. Excuse
      BY <2>1, PanicsExcused
    <2>3. InFlight = {}
      BY <2>1 DEF InFlight, Panics, LastBlockPanics, ForkReplayPanics, IsValidPanics, TimeSpanPanics,
                  Verified, At
    <2>4. ~(pc[p] = "forkChain" /\ job[p].hash \in DOMAIN blocks)
      BY DEF LoneInv, LoneJob, TypeInv, Shape, Consistent
    <2> QED BY <2>2, <2>3, <2>4 DEF Excuse
  <1>2. TypeInv /\ LoneInv /\ [Next]_vars => LoneInv'
    BY LoneNext
  <1> QED BY <1>1, <1>2, LoneInit, ChainInvariant, PTL DEF Spec
=============================================================================
