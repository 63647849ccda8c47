------------------------------ MODULE PoolProofs ------------------------------
(***************************************************************************)
(* Theorems about Pool for any number of goroutines, shards, payments and  *)
(* wallets: the types, what is known of the inputs of pending payments,    *)
(* why a batch may be refused, and that the pool implements PaymentLife.   *)
(* What must eventually happen (PoolDrains, ChainGrows) is left to TLC.    *)
(***************************************************************************)
EXTENDS Pool, FiniteSetTheorems, TLAPS

\* What the node's blocks are made of.
Entry == Payment \cup {CoinbaseOf[a] : a \in Miner}

\* The outpoints that are unspent or that a stored payment has spent. They only grow.
Known == utxos \cup UNION {Spends[s] : s \in stored}

\* What the cache answers was true once.
CacheKnown == \A a \in DOMAIN cache : cache[a] \subseteq Known

\* What a goroutine has in hand, by what it is doing.
JobOK(w) ==
    /\ job[w].txs \in Seq(Entry)
    /\ job[w].todo \subseteq InputsOf(job[w].txs)
    /\ job[w].seen \subseteq Known
    /\ pc[w] = "idle" => job[w] = NoJob
    /\ pc[w] \in {"verify", "view", "fill"} =>
            job[w].op \in {"check", "select", "add", "receive", "create", "mine"}
    /\ pc[w] \in {"view", "fill"} => job[w].input \in job[w].todo
    /\ pc[w] = "newBlock" => job[w].op = "create"
    /\ pc[w] = "update" => job[w].op = "mine"
    /\ pc[w] = "commit" => job[w].op \in {"receive", "mine"}
    /\ pc[w] \in {"newBlock", "update", "commit", "cleanUp", "flush"} => job[w].todo = {}
    /\ pc[w] = "cleanUp" => /\ job[w].op = "receive" /\ job[w].txs # <<>>
                            /\ job[w].txs \in Seq(Payment) /\ PaymentsOf(job[w].txs) \subseteq stored
    /\ pc[w] = "flush" <=> job[w].op = "flush"
    /\ job[w].op = "flush" => job[w].txs \in Seq(Payment) /\ job[w].shard \in 1..Shards
    /\ job[w].op \in {"receive", "create", "mine"} /\ pc[w] # "cleanUp" =>
            job[w].txs # <<>> /\ Tail(job[w].txs) \in Seq(Payment)
    /\ job[w].op \in {"check", "select", "add"} =>
            \E t \in Payment : job[w].txs = <<t>>
    /\ job[w].op \in {"select", "add"} /\ w = local => \E t \in Own : job[w].txs = <<t>>
    /\ job[w].op \in {"check", "receive"} => w # local
    /\ job[w].op \in {"select", "flush", "create", "mine"} => w = local
    /\ job[w].op = "add" =>
            /\ InputsOf(job[w].txs) \ job[w].todo \subseteq Known
            /\ PaymentsOf(job[w].txs) \cap Short # {} => job[w].todo # {}

JobsOK == \A w \in Worker : JobOK(w)

Inv == TypeOK /\ CacheKnown /\ JobsOK /\ InputsAccounted

\* What bc.tip and the parent of the block that is mined may be.
TipsTyped == tip \in {"stored", "coming", "lost"} /\ parent \in {"stored", "coming", "lost"}

\* A step that leaves all payments where they are, but for a batch that is given up.
Settles == Pending' = Pending /\ stored' = stored /\ Taken' \in {Taken, {}}

-----------------------------------------------------------------------------
(* Lemmas about the data.                                                   *)

LEMMA Entries ==
    /\ Entry \subseteq Tx /\ Payment \subseteq Entry
    /\ \A t \in Tx : Spends[t] \subseteq Outpoint /\ Creates[t] \subseteq Outpoint
    /\ \A t \in Entry \ Payment : Spends[t] = {}
    /\ Wallet \in Miner /\ PeerMiner \in Miner /\ local \in Worker
BY TxAssumption, PoolAssumption DEF Entry, Worker

\* A sequence of one.
LEMMA Single ==
    ASSUME NEW t \in Payment
    PROVE  /\ <<t>> \in Seq(Payment) /\ <<t>> \in Seq(Entry)
           /\ InputsOf(<<t>>) = Spends[t] /\ PaymentsOf(<<t>>) = {t}
<1>1. <<t>> \in Seq(Payment) /\ <<t>> \in Seq(Entry)
  BY DEF Entry
<1>2. DOMAIN <<t>> = {1} /\ <<t>>[1] = t
  OBVIOUS
<1>3. InputsOf(<<t>>) = Spends[t]
  BY <1>2 DEF InputsOf
<1>4. PaymentsOf(<<t>>) = {t}
  BY <1>2 DEF PaymentsOf
<1> QED BY <1>1, <1>3, <1>4

\* The coinbase in front of payments.
LEMMA Front ==
    ASSUME NEW a \in Miner, NEW txs \in Seq(Payment)
    PROVE  LET all == <<CoinbaseOf[a]>> \o txs
           IN  /\ all \in Seq(Entry) /\ all # <<>> /\ Tail(all) = txs
               /\ PaymentsOf(all) = PaymentsOf(txs)
<1> DEFINE all == <<CoinbaseOf[a]>> \o txs
<1>1. CoinbaseOf[a] \in Entry /\ CoinbaseOf[a] \notin Payment /\ txs \in Seq(Entry)
  BY PoolAssumption DEF Entry
<1>2. all \in Seq(Entry) /\ Len(all) = Len(txs) + 1 /\ all # <<>> /\ Tail(all) = txs
  BY <1>1
<1>3. all[1] = CoinbaseOf[a] /\ \A i \in 1..Len(txs) : all[i + 1] = txs[i]
  BY <1>1
<1>4. \A t \in Payment : (\E i \in DOMAIN all : all[i] = t) <=> (\E i \in DOMAIN txs : txs[i] = t)
  <2>1. ASSUME NEW t \in Payment, NEW i \in DOMAIN all, all[i] = t
        PROVE  \E k \in DOMAIN txs : txs[k] = t
    <3>1. i # 1 /\ i \in 1..(Len(txs) + 1)
      BY <1>1, <1>2, <1>3, <2>1
    <3>2. i - 1 \in 1..Len(txs) /\ (i - 1) + 1 = i
      BY <3>1
    <3>3. txs[i - 1] = t /\ i - 1 \in DOMAIN txs
      BY <1>3, <2>1, <3>2
    <3> QED BY <3>3
  <2>2. ASSUME NEW t \in Payment, NEW k \in DOMAIN txs, txs[k] = t
        PROVE  \E i \in DOMAIN all : all[i] = t
    <3>1. k + 1 \in DOMAIN all /\ all[k + 1] = t
      BY <1>2, <1>3, <2>2
    <3> QED BY <3>1
  <2> QED BY <2>1, <2>2
<1>5. PaymentsOf(all) = PaymentsOf(txs)
  BY <1>4 DEF PaymentsOf
<1> QED BY <1>2, <1>5

LEMMA Tails ==
    ASSUME NEW txs \in Seq(Entry), txs # <<>>
    PROVE  /\ Tail(txs) \in Seq(Entry)
           /\ PaymentsOf(Tail(txs)) \subseteq PaymentsOf(txs)
           /\ txs \in Seq(Payment) => Head(txs) \in PaymentsOf(txs) /\ Tail(txs) \in Seq(Payment)
<1>1. Len(txs) \in Nat \ {0} /\ Tail(txs) \in Seq(Entry) /\ Len(Tail(txs)) = Len(txs) - 1
  OBVIOUS
<1>2. ASSUME NEW i \in DOMAIN Tail(txs) PROVE Tail(txs)[i] \in {txs[k] : k \in DOMAIN txs}
  <2>1. i + 1 \in DOMAIN txs /\ Tail(txs)[i] = txs[i + 1]
    BY <1>1, <1>2
  <2> QED BY <2>1
<1>3. PaymentsOf(Tail(txs)) \subseteq PaymentsOf(txs)
  BY <1>2 DEF PaymentsOf
<1>4. txs \in Seq(Payment) => Head(txs) \in PaymentsOf(txs) /\ Tail(txs) \in Seq(Payment)
  BY <1>1 DEF PaymentsOf
<1> QED BY <1>1, <1>3, <1>4

\* Only the payments among the transactions have inputs.
LEMMA InputsOfPayments ==
    ASSUME NEW txs \in Seq(Entry)
    PROVE  /\ InputsOf(txs) \subseteq UNION {Spends[t] : t \in PaymentsOf(txs)}
           /\ InputsOf(txs) \subseteq Outpoint
<1>1. ASSUME NEW o \in InputsOf(txs) PROVE o \in Outpoint /\ \E t \in PaymentsOf(txs) : o \in Spends[t]
  <2>1. PICK i \in DOMAIN txs : o \in Spends[txs[i]]
    BY <1>1 DEF InputsOf
  <2>2. txs[i] \in Entry
    OBVIOUS
  <2>3. txs[i] \in Payment
    BY <2>1, <2>2, Entries
  <2> QED BY <2>1, <2>2, <2>3, Entries DEF PaymentsOf
<1> QED BY <1>1

\* The orders of a set of payments.
LEMMA OrderTypes ==
    ASSUME NEW S \in SUBSET Payment, NEW batch \in Orders(S)
    PROVE  batch \in Seq(Payment) /\ PaymentsOf(batch) = S
<1>1. S \in SUBSET Payment /\ IsFiniteSet(Payment)
  BY PoolAssumption
<1>2. IsFiniteSet(S) /\ Cardinality(S) \in Nat
  BY <1>1, FS_Subset, FS_CardinalityType
<1>3. batch \in [1..Cardinality(S) -> S] /\ {batch[i] : i \in DOMAIN batch} = S
  BY DEF Orders
<1>4. batch \in Seq(S)
  BY <1>2, <1>3
<1> QED BY <1>3, <1>4 DEF PaymentsOf

LEMMA Joined ==
    ASSUME NEW a \in Seq(Payment), NEW b \in Seq(Payment)
    PROVE  a \o b \in Seq(Payment) /\ PaymentsOf(a \o b) = PaymentsOf(a) \cup PaymentsOf(b)
<1> DEFINE all == a \o b
<1>1. all \in Seq(Payment) /\ Len(all) = Len(a) + Len(b) /\ Len(a) \in Nat /\ Len(b) \in Nat
  OBVIOUS
<1>2. \A i \in 1..Len(a) : all[i] = a[i]
  OBVIOUS
<1>3. \A i \in 1..Len(b) : all[Len(a) + i] = b[i]
  OBVIOUS
<1>4. ASSUME NEW t, \E i \in DOMAIN all : all[i] = t
      PROVE  (\E i \in DOMAIN a : a[i] = t) \/ (\E i \in DOMAIN b : b[i] = t)
  <2>1. PICK i \in 1..(Len(a) + Len(b)) : all[i] = t
    BY <1>1, <1>4
  <2>2. CASE i <= Len(a)
    BY <1>1, <1>2, <2>1, <2>2
  <2>3. CASE i > Len(a)
    <3>1. i - Len(a) \in 1..Len(b) /\ Len(a) + (i - Len(a)) = i
      BY <1>1, <2>3
    <3> QED BY <1>3, <2>1, <3>1
  <2> QED BY <1>1, <2>2, <2>3
<1>5. ASSUME NEW t, (\E i \in DOMAIN a : a[i] = t) \/ (\E i \in DOMAIN b : b[i] = t)
      PROVE  \E i \in DOMAIN all : all[i] = t
  <2>1. CASE \E i \in DOMAIN a : a[i] = t
    BY <1>1, <1>2, <2>1
  <2>2. CASE \E i \in DOMAIN b : b[i] = t
    <3>1. PICK i \in 1..Len(b) : b[i] = t
      BY <2>2
    <3>2. Len(a) + i \in 1..(Len(a) + Len(b)) /\ all[Len(a) + i] = t
      BY <1>1, <1>3, <3>1
    <3> QED BY <1>1, <3>2
  <2> QED BY <1>5, <2>1, <2>2
<1>6. PaymentsOf(all) = PaymentsOf(a) \cup PaymentsOf(b)
  BY <1>4, <1>5 DEF PaymentsOf
<1> QED BY <1>1, <1>6

\* A commit deletes from the bucket only what the payments it stores spend.
LEMMA CommitKnows ==
    ASSUME NEW txs \in Seq(Entry), utxos \subseteq Outpoint,
           utxos' = UpdateUTXOSet(utxos, txs), stored' = stored \cup PaymentsOf(txs)
    PROVE  Known \subseteq Known' /\ utxos' \subseteq Outpoint
<1>1. utxos \ InputsOf(txs) \subseteq utxos' /\ utxos' \subseteq utxos \cup OutputsOf(txs)
  BY DEF UpdateUTXOSet
<1>2. OutputsOf(txs) \subseteq Outpoint
  BY Entries DEF OutputsOf
<1>3. InputsOf(txs) \subseteq Known'
  BY InputsOfPayments DEF Known
<1> QED BY <1>1, <1>2, <1>3 DEF Known

-----------------------------------------------------------------------------
(* Lemmas about the goroutines.                                             *)

\* A goroutine that does not move has what it had.
LEMMA StaysOK ==
    ASSUME NEW v, JobOK(v), pc'[v] = pc[v], job'[v] = job[v],
           Known \subseteq Known', stored \subseteq stored'
    PROVE  JobOK(v)'
BY DEF JobOK, NoJob

\* One goroutine moves.
LEMMA Moves ==
    ASSUME Inv, NEW w \in Worker, NEW label \in Labels, NEW j \in Job,
           pc' = [pc EXCEPT ![w] = label], job' = [job EXCEPT ![w] = j],
           Known \subseteq Known', stored \subseteq stored',
           JobOK(w)'
    PROVE  JobsOK' /\ pc' \in [Worker -> Labels] /\ job' \in [Worker -> Job]
<1>1. ASSUME NEW v \in Worker PROVE JobOK(v)'
  <2>1. CASE v = w
    BY <2>1
  <2>2. CASE v # w
    BY <2>2, StaysOK DEF Inv, TypeOK, JobsOK
  <2> QED BY <2>1, <2>2
<1> QED BY <1>1 DEF Inv, TypeOK, JobsOK

\* What is said of the pending payments and the miner's stays true when neither grows.
LEMMA Accounted ==
    ASSUME Inv, Known \subseteq Known', Pending' \cup Taken' \subseteq Pending \cup Taken
    PROVE  InputsAccounted'
BY DEF Inv, InputsAccounted, Known

LEMMA NoJobTypes ==
    NoJob \in Job /\ NoJob.txs = <<>> /\ NoJob.todo = {} /\ NoJob.op = "none" /\ NoJob.seen = {}
BY PoolAssumption DEF NoJob, Job

\* Another goroutine than the miner's moves, or the miner's keeps what it makes a block of.
LEMMA SameTaken ==
    ASSUME job'[local].txs = job[local].txs, job'[local].op = job[local].op
    PROVE  Taken' = Taken
BY DEF Taken

\* The local variables of a goroutine are equal if each of them is.
LEMMA SameJob ==
    ASSUME NEW r \in Job, NEW s \in Job,
           r.op = s.op, r.txs = s.txs, r.todo = s.todo, r.input = s.input, r.seen = s.seen,
           r.moved = s.moved, r.shard = s.shard
    PROVE  r = s
BY DEF Job

\* A goroutine returns to its loop.
LEMMA Returns ==
    ASSUME Inv, NEW w \in Worker, Return(w), Known \subseteq Known', stored \subseteq stored'
    PROVE  /\ JobsOK' /\ pc' \in [Worker -> Labels] /\ job' \in [Worker -> Job]
           /\ Taken' = IF w = local THEN {} ELSE Taken
<1>1. pc'[w] = "idle" /\ job'[w] = NoJob /\ \A v \in Worker \ {w} : job'[v] = job[v]
  BY DEF Return, Inv, TypeOK
<1>2. JobOK(w)'
  <2>1. <<>> \in Seq(Entry)
    OBVIOUS
  <2> QED BY <1>1, <2>1 DEF JobOK, NoJob
<1>3. "idle" \in Labels
  BY DEF Labels
<1>4. CASE w = local
  <2>1. Taken' = {}
    BY <1>1, <1>4, NoJobTypes DEF Taken
  <2> QED BY <1>2, <1>3, <1>4, <2>1, NoJobTypes, Moves DEF Return
<1>5. CASE w # local
  <2>1. Taken' = Taken
    BY <1>1, <1>5, Entries, SameTaken
  <2> QED BY <1>2, <1>3, <1>5, <2>1, NoJobTypes, Moves DEF Return
<1> QED BY <1>4, <1>5

\* A goroutine starts to verify a sequence of transactions.
LEMMA Verifies ==
    ASSUME Inv, NEW w \in Worker, NEW op, NEW txs \in Seq(Entry), Verify(w, op, txs),
           UNCHANGED chain,
           \/ op \in {"check", "select", "add"} /\ \E t \in Payment : txs = <<t>>
           \/ op \in {"receive", "create", "mine"} /\ txs # <<>> /\ Tail(txs) \in Seq(Payment),
           op \in {"select", "add"} /\ w = local => \E t \in Own : txs = <<t>>,
           op \in {"check", "receive"} => w # local,
           op \in {"select", "create", "mine"} => w = local
    PROVE  JobsOK' /\ pc' \in [Worker -> Labels] /\ job' \in [Worker -> Job]
<1> DEFINE j == [NoJob EXCEPT !.op = op, !.txs = txs, !.todo = InputsOf(txs)]
<1>1. /\ j.op = op /\ j.txs = txs /\ j.todo = InputsOf(txs) /\ j.seen = {} /\ j.input = Nil
      /\ j.moved = FALSE /\ j.shard = 0
  BY DEF NoJob
<1>2. j \in Job
  <2>1. txs \in Seq(Tx)
    BY Entries
  <2>2. InputsOf(txs) \in SUBSET Outpoint
    BY InputsOfPayments
  <2>3. op \in {"check", "select", "add", "receive", "create", "mine"}
    OBVIOUS
  <2> QED BY <2>1, <2>2, <2>3, NoJobTypes DEF Job
<1>3. pc'[w] = "verify" /\ job'[w] = j
  BY DEF Verify, Inv, TypeOK
<1>4. JobOK(w)'
  <2>1. op = "add" => (PaymentsOf(txs) \cap Short # {} => InputsOf(txs) # {})
    <3>1. ASSUME NEW t \in Payment, txs = <<t>>, PaymentsOf(txs) \cap Short # {}
          PROVE  InputsOf(txs) # {}
      BY <3>1, Single, PoolAssumption
    <3> QED BY <3>1
  <2> QED BY <1>1, <1>3, <2>1 DEF JobOK
<1>5. "verify" \in Labels
  BY DEF Labels
<1>6. Known' = Known /\ stored' = stored
  BY DEF Known, chain
<1> QED BY <1>2, <1>4, <1>5, <1>6, Moves DEF Verify

\* A step of goroutine w to some label with some other variables.
LEMMA Becomes ==
    ASSUME Inv, NEW w \in Worker, NEW label, NEW j, label \in Labels, j \in Job,
           pc' = [pc EXCEPT ![w] = label], job' = [job EXCEPT ![w] = j]
    PROVE  pc'[w] = label /\ job'[w] = j /\ \A v \in Worker \ {w} : pc'[v] = pc[v] /\ job'[v] = job[v]
BY DEF Inv, TypeOK

-----------------------------------------------------------------------------
(* Each step keeps the invariant.                                           *)

LEMMA InitInv == Init => Inv
<1> SUFFICES ASSUME Init PROVE Inv
  OBVIOUS
<1>1. utxos \subseteq Outpoint
  BY Entries, TxAssumption, PoolAssumption DEF Init
<1>2. pool \in [1..Shards -> SUBSET Payment] /\ \A i \in 1..Shards : pool[i] = {}
  BY DEF Init
<1>3. DOMAIN cache = {}
  BY DEF Init
<1>4. pc \in [Worker -> Labels] /\ job \in [Worker -> Job]
  BY NoJobTypes DEF Init, Labels
<1>5. known \subseteq Payment /\ told = {} /\ stored = {}
  BY DEF Init
<1>6. TypeOK
  BY <1>1, <1>2, <1>3, <1>4, <1>5 DEF Init, TypeOK
<1>7. CacheKnown
  BY <1>3 DEF CacheKnown
<1>8. JobsOK
  <2>1. <<>> \in Seq(Entry)
    OBVIOUS
  <2>2. \A w \in Worker : pc[w] = "idle" /\ job[w] = NoJob
    BY DEF Init
  <2>3. ASSUME NEW w \in Worker PROVE JobOK(w)
    <3>1. pc[w] = "idle" /\ job[w] = NoJob
      BY <2>2
    <3> QED BY <2>1, <3>1 DEF JobOK, NoJob
  <2> QED BY <2>3 DEF JobsOK
<1>9. InputsAccounted
  <2>1. Pending = {} /\ Taken = {}
    BY <1>2, NoJobTypes, Entries DEF Pending, Taken, Init
  <2> QED BY <2>1 DEF InputsAccounted
<1> QED BY <1>6, <1>7, <1>8, <1>9 DEF Inv

\* GetUTXOs has answered with what was true once.
LEMMA JudgeKeeps ==
    ASSUME Inv, NEW w \in Worker, pc[w] \in {"verify", "fill"},
           NEW o \in job[w].todo, NEW answer \in SUBSET Known, Judge(w, o, answer),
           UNCHANGED chain
    PROVE  /\ JobsOK' /\ pc' \in [Worker -> Labels] /\ job' \in [Worker -> Job]
           /\ Taken' \in {Taken, {}}
<1>1. JobOK(w) /\ job[w] \in Job
  BY DEF Inv, JobsOK, TypeOK
<1>2. Known' = Known /\ stored' = stored
  BY DEF Known, chain
<1>3. CASE job[w].op = "select" /\ Verify(w, "add", job[w].txs)
  <2>1. /\ w = local /\ job[w].txs \in Seq(Entry)
        /\ \E t \in Payment : job[w].txs = <<t>>
        /\ \E t \in Own : job[w].txs = <<t>>
    BY <1>1, <1>3 DEF JobOK
  <2>2. JobsOK' /\ pc' \in [Worker -> Labels] /\ job' \in [Worker -> Job]
    BY <1>3, <2>1, Verifies
  <2>3. job'[local].op = "add"
    BY <1>3, <2>1, NoJobTypes DEF Verify, Inv, TypeOK, Job
  <2>4. Taken' = {}
    BY <2>3 DEF Taken
  <2> QED BY <2>2, <2>4
<1>4. CASE /\ job[w].op # "select"
           /\ o \in answer
           /\ Signed(w, o)
           /\ pc' = [pc EXCEPT ![w] = "verify"]
           /\ job' = [job EXCEPT ![w].todo = @ \ {o}, ![w].input = Nil, ![w].seen = {}]
  <2> DEFINE j == [job[w] EXCEPT !.todo = @ \ {o}, !.input = Nil, !.seen = {}]
  <2>1. /\ j \in Job
        /\ j.op = job[w].op /\ j.txs = job[w].txs /\ j.todo = job[w].todo \ {o} /\ j.seen = {}
        /\ j.shard = job[w].shard
    BY <1>1 DEF Job
  <2>2. job' = [job EXCEPT ![w] = j] /\ "verify" \in Labels
    BY <1>4 DEF Inv, TypeOK, Job, Labels
  <2>3. pc'[w] = "verify" /\ job'[w] = j /\ \A v \in Worker \ {w} : job'[v] = job[v]
    BY <1>4, <2>2 DEF Inv, TypeOK
  <2>4. job[w].op = "add" =>
            /\ InputsOf(j.txs) \ j.todo \subseteq Known
            /\ PaymentsOf(j.txs) \cap Short # {} => j.todo # {}
    <3> SUFFICES ASSUME job[w].op = "add"
                 PROVE  /\ InputsOf(j.txs) \ j.todo \subseteq Known
                        /\ PaymentsOf(j.txs) \cap Short # {} => j.todo # {}
      OBVIOUS
    <3>1. PICK t \in Payment : job[w].txs = <<t>>
      BY <1>1 DEF JobOK
    <3>2. job[w].todo \subseteq Spends[t] /\ PaymentsOf(job[w].txs) = {t}
      BY <1>1, <3>1, Single DEF JobOK
    <3>3. t \notin Short
      BY <1>4, <3>2 DEF Signed
    <3>4. InputsOf(j.txs) \ j.todo \subseteq Known
      BY <1>1, <1>4, <2>1 DEF JobOK
    <3> QED BY <2>1, <3>2, <3>3, <3>4
  <2>5. JobOK(w)'
    BY <1>1, <1>2, <1>4, <2>1, <2>3, <2>4 DEF JobOK
  <2>6. JobsOK' /\ pc' \in [Worker -> Labels] /\ job' \in [Worker -> Job]
    BY <1>2, <1>4, <2>1, <2>2, <2>5, Moves
  <2>7. Taken' = Taken
    <3>1. job'[local].txs = job[local].txs /\ job'[local].op = job[local].op
      BY <2>1, <2>2, <2>3, Entries DEF Inv, TypeOK
    <3> QED BY <3>1, SameTaken
  <2> QED BY <2>6, <2>7
<1>5. CASE Return(w)
  BY <1>2, <1>5, Returns
<1> QED BY <1>3, <1>4, <1>5 DEF Judge, CreateTransaction

LEMMA TipsStay == ASSUME Inv, UNCHANGED <<tip, parent>> PROVE TipsTyped'
BY DEF Inv, TypeOK, TipsTyped

\* The parts of the invariant that a step of reading may touch.
LEMMA ReadingKeeps ==
    ASSUME Inv, UNCHANGED <<process, utxos, stored, pool, news>>, TipsTyped',
           DOMAIN cache' \subseteq Addr, \A a \in DOMAIN cache' : cache'[a] \subseteq Outpoint \cap Known,
           JobsOK', pc' \in [Worker -> Labels], job' \in [Worker -> Job],
           Taken' \in {Taken, {}}
    PROVE  Inv' /\ Settles
<1>1. Known' = Known /\ Pending' = Pending
  BY DEF Known, Pending
<1>2. TypeOK'
  BY DEF Inv, TypeOK, TipsTyped, process, news
<1>3. CacheKnown'
  BY <1>1 DEF CacheKnown
<1>4. InputsAccounted'
  BY <1>1, Accounted
<1>5. Settles
  BY <1>1 DEF Settles
<1> QED BY <1>2, <1>3, <1>4, <1>5 DEF Inv

LEMMA GetUTXOsCachedKeeps == ASSUME Inv, NEW w \in Worker, GetUTXOsCached(w) PROVE Inv' /\ Settles
<1>1. PICK o \in job[w].todo : Owner[o] \in DOMAIN cache /\ Judge(w, o, cache[Owner[o]])
  BY DEF GetUTXOsCached
<1>2. pc[w] = "verify" /\ UNCHANGED <<process, chain, cache, pool, news>>
  BY DEF GetUTXOsCached, At
<1>3. cache[Owner[o]] \in SUBSET Known
  BY <1>1 DEF Inv, CacheKnown
<1>4. /\ JobsOK' /\ pc' \in [Worker -> Labels] /\ job' \in [Worker -> Job]
      /\ Taken' \in {Taken, {}}
  BY <1>1, <1>2, <1>3, JudgeKeeps
<1>5. DOMAIN cache' \subseteq Addr /\ \A a \in DOMAIN cache' : cache'[a] \subseteq Outpoint \cap Known
  BY <1>2 DEF Inv, TypeOK, CacheKnown
<1> QED BY <1>2, <1>4, <1>5, TipsStay, ReadingKeeps DEF chain

LEMMA FillCacheKeeps == ASSUME Inv, NEW w \in Worker, FillCache(w) PROVE Inv' /\ Settles
<1> DEFINE o == job[w].input
<1>1. /\ pc[w] = "fill" /\ UNCHANGED <<process, chain, pool, news>>
      /\ cache' = Put(cache, Owner[o], job[w].seen)
      /\ Judge(w, o, job[w].seen)
  BY DEF FillCache, At
<1>2. JobOK(w) /\ job[w] \in Job
  BY DEF Inv, JobsOK, TypeOK
<1>3. o \in job[w].todo /\ job[w].seen \in SUBSET Known /\ job[w].seen \subseteq Outpoint /\ o \in Outpoint
  BY <1>1, <1>2 DEF JobOK, Job
<1>4. Owner[o] \in Addr
  BY <1>3, TxAssumption
<1>5. /\ JobsOK' /\ pc' \in [Worker -> Labels] /\ job' \in [Worker -> Job]
      /\ Taken' \in {Taken, {}}
  BY <1>1, <1>3, JudgeKeeps
<1>6. DOMAIN cache' \subseteq Addr /\ \A a \in DOMAIN cache' : cache'[a] \subseteq Outpoint \cap Known
  BY <1>1, <1>3, <1>4 DEF Inv, TypeOK, CacheKnown, Put
<1> QED BY <1>1, <1>5, <1>6, TipsStay, ReadingKeeps DEF chain

LEMMA MissCacheKeeps == ASSUME Inv, NEW w \in Worker, MissCache(w) \/ ViewUTXOs(w) PROVE Inv' /\ Settles
<1>1. JobOK(w) /\ job[w] \in Job
  BY DEF Inv, JobsOK, TypeOK
<1>2. Known' = Known /\ stored' = stored /\ UNCHANGED <<process, chain, cache, pool, news>>
  BY DEF MissCache, ViewUTXOs, Known, chain
<1>3. PICK label \in {"view", "fill"}, j \in Job :
        /\ pc' = [pc EXCEPT ![w] = label] /\ job' = [job EXCEPT ![w] = j]
        /\ j.op = job[w].op /\ j.txs = job[w].txs /\ j.todo = job[w].todo /\ j.shard = job[w].shard
        /\ j.input \in j.todo /\ j.seen \subseteq Known
        /\ pc[w] \in {"verify", "view"}
  <2>1. CASE MissCache(w)
    <3>1. PICK o \in job[w].todo : job' = [job EXCEPT ![w].input = o]
      BY <2>1 DEF MissCache
    <3> DEFINE j == [job[w] EXCEPT !.input = o]
    <3>2. job' = [job EXCEPT ![w] = j]
      BY <3>1 DEF Inv, TypeOK
    <3>3. /\ j \in Job /\ j.op = job[w].op /\ j.txs = job[w].txs /\ j.todo = job[w].todo
          /\ j.shard = job[w].shard /\ j.input = o /\ j.seen = job[w].seen
      BY <1>1 DEF Job
    <3>4. j.seen \subseteq Known
      BY <1>1, <3>3 DEF JobOK
    <3> QED BY <2>1, <3>2, <3>3, <3>4 DEF MissCache, At
  <2>2. CASE ViewUTXOs(w)
    <3> DEFINE j == [job[w] EXCEPT !.seen = UTXOsOf(utxos, Owner[job[w].input])]
    <3>1. job' = [job EXCEPT ![w] = j] /\ pc[w] = "view" /\ pc' = [pc EXCEPT ![w] = "fill"]
      BY <2>2 DEF ViewUTXOs, At, Inv, TypeOK
    <3>2. UTXOsOf(utxos, Owner[job[w].input]) \in SUBSET utxos /\ utxos \subseteq Outpoint
      BY DEF UTXOsOf, Inv, TypeOK
    <3>3. /\ j \in Job /\ j.op = job[w].op /\ j.txs = job[w].txs /\ j.todo = job[w].todo
          /\ j.shard = job[w].shard /\ j.input = job[w].input
          /\ j.seen = UTXOsOf(utxos, Owner[job[w].input])
      BY <1>1, <3>2 DEF Job
    <3>4. j.seen \subseteq Known /\ j.input \in j.todo
      BY <1>1, <3>1, <3>2, <3>3 DEF JobOK, Known
    <3> QED BY <3>1, <3>3, <3>4
  <2> QED BY <2>1, <2>2
<1>4. label \in Labels
  BY DEF Labels
<1>5. pc'[w] = label /\ job'[w] = j /\ \A v \in Worker \ {w} : job'[v] = job[v]
  BY <1>3, <1>4, Becomes
<1>6. JobOK(w)'
  BY <1>1, <1>2, <1>3, <1>5 DEF JobOK
<1>7. JobsOK' /\ pc' \in [Worker -> Labels] /\ job' \in [Worker -> Job]
  BY <1>2, <1>3, <1>4, <1>6, Moves
<1>8. Taken' = Taken
  BY <1>3, <1>5, Entries, SameTaken
<1>9. DOMAIN cache' \subseteq Addr /\ \A a \in DOMAIN cache' : cache'[a] \subseteq Outpoint \cap Known
  BY <1>2 DEF Inv, TypeOK, CacheKnown
<1> QED BY <1>2, <1>7, <1>8, <1>9, TipsStay, ReadingKeeps DEF chain

\* A step that leaves the bucket, the stored payments, the cache and the pool alone.
LEMMA MoveKeeps ==
    ASSUME Inv, UNCHANGED <<process, utxos, stored, cache, pool, news>>, TipsTyped',
           JobsOK', pc' \in [Worker -> Labels], job' \in [Worker -> Job],
           Taken' \in {Taken, {}}
    PROVE  Inv' /\ Settles
<1>1. DOMAIN cache' \subseteq Addr /\ \A a \in DOMAIN cache' : cache'[a] \subseteq Outpoint \cap Known
  BY DEF Inv, TypeOK, CacheKnown
<1> QED BY <1>1, ReadingKeeps

\* A step that leaves the chain, the cache and the pool alone.
LEMMA QuietKeeps ==
    ASSUME Inv, UNCHANGED <<process, chain, cache, pool, news>>,
           JobsOK', pc' \in [Worker -> Labels], job' \in [Worker -> Job],
           Taken' \in {Taken, {}}
    PROVE  Inv' /\ Settles
BY TipsStay, MoveKeeps DEF chain

LEMMA HandleTransactionKeeps ==
    ASSUME Inv, NEW w \in Handler, NEW t \in Payment, HandleTransaction(w, t)
    PROVE  Inv' /\ Settles
<1>1. /\ w \in Worker /\ w # local /\ Verify(w, "check", <<t>>)
      /\ UNCHANGED <<process, chain, cache, pool, news>>
  BY PoolAssumption DEF HandleTransaction, Worker
<1>2. JobsOK' /\ pc' \in [Worker -> Labels] /\ job' \in [Worker -> Job]
  BY <1>1, Single, Verifies
<1>3. Taken' = Taken
  BY <1>1, Entries, SameTaken DEF Verify, Inv, TypeOK
<1> QED BY <1>1, <1>2, <1>3, QuietKeeps

LEMMA HandleSendKeeps == ASSUME Inv, NEW t \in Own, HandleSend(t) PROVE Inv' /\ Settles
<1>1. t \in Payment /\ Verify(local, "select", <<t>>) /\ UNCHANGED <<process, chain, cache, pool, news>>
  BY PoolAssumption DEF HandleSend
<1>2. JobsOK' /\ pc' \in [Worker -> Labels] /\ job' \in [Worker -> Job]
  BY <1>1, Single, Entries, Verifies
<1>3. job'[local].op = "select"
  BY <1>1, Entries, NoJobTypes DEF Verify, Inv, TypeOK, Job
<1>4. Taken' = {}
  BY <1>3 DEF Taken
<1> QED BY <1>1, <1>2, <1>4, QuietKeeps

LEMMA HandleBlockKeeps ==
    ASSUME Inv, NEW w \in Handler, NEW b \in PeerBlock, HandleBlock(w, b)
    PROVE  Inv' /\ Settles
<1> DEFINE txs == <<CoinbaseOf[PeerMiner]>> \o b
<1>1. /\ w \in Worker /\ w # local /\ Verify(w, "receive", txs)
      /\ UNCHANGED <<process, chain, cache, pool, news>>
  BY PoolAssumption DEF HandleBlock, Worker
<1>2. b \in Seq(Payment)
  BY PoolAssumption
<1>3. txs \in Seq(Entry) /\ txs # <<>> /\ Tail(txs) \in Seq(Payment)
  BY <1>2, Entries, Front
<1>4. JobsOK' /\ pc' \in [Worker -> Labels] /\ job' \in [Worker -> Job]
  BY <1>1, <1>3, Verifies
<1>5. Taken' = Taken
  BY <1>1, Entries, SameTaken DEF Verify, Inv, TypeOK
<1> QED BY <1>1, <1>4, <1>5, QuietKeeps

LEMMA CheckPoolKeeps == ASSUME Inv, NEW w \in Worker, CheckPool(w) PROVE Inv' /\ Settles
<1>1. JobOK(w) /\ job[w].op = "check" /\ UNCHANGED <<process, chain, cache, pool, news>>
  BY DEF CheckPool, Verified, Inv, JobsOK
<1>2. PICK t \in Payment : job[w].txs = <<t>>
  BY <1>1 DEF JobOK
<1>3. w # local /\ job[w].txs[1] = t
  BY <1>1, <1>2 DEF JobOK
<1>4. Return(w) \/ Verify(w, "add", <<t>>)
  BY <1>3 DEF CheckPool
<1>5. Known' = Known /\ stored' = stored
  BY <1>1 DEF Known, chain
<1>6. CASE Return(w)
  BY <1>1, <1>5, <1>6, Returns, QuietKeeps
<1>7. CASE Verify(w, "add", <<t>>)
  <2>1. JobsOK' /\ pc' \in [Worker -> Labels] /\ job' \in [Worker -> Job]
    BY <1>1, <1>3, <1>7, Single, Verifies
  <2>2. Taken' = Taken
    BY <1>3, <1>7, Entries, SameTaken DEF Verify, Inv, TypeOK
  <2> QED BY <1>1, <2>1, <2>2, QuietKeeps
<1> QED BY <1>4, <1>6, <1>7

LEMMA SendRequestedDataKeeps ==
    ASSUME Inv, NEW w \in Handler, NEW t \in Payment, SendRequestedData(w, t)
    PROVE  Inv' /\ Settles
<1>1. UNCHANGED <<process, chain, cache, pool, told, pc, job>> /\ known' = known \cup {t}
  BY DEF SendRequestedData
<1>2. TypeOK'
  BY <1>1 DEF Inv, TypeOK, process, chain
<1>3. Known' = Known /\ Pending' = Pending /\ Taken' = Taken /\ stored' = stored
  BY <1>1 DEF Known, Pending, Taken, chain
<1>4. CacheKnown'
  BY <1>1, <1>3 DEF Inv, CacheKnown
<1>5. JobsOK'
  <2>1. ASSUME NEW v \in Worker PROVE JobOK(v)'
    BY <1>1, <1>3, StaysOK DEF Inv, JobsOK, TypeOK
  <2> QED BY <2>1 DEF JobsOK
<1> QED BY <1>2, <1>3, <1>4, <1>5, Accounted DEF Inv, Settles

\* A payment that has been verified is put into its shard.
LEMMA AddKeeps ==
    ASSUME Inv, NEW w \in Worker, Add(w)
    PROVE  /\ Inv'
           /\ \E t \in Payment : Pending' = Pending \cup {t} /\ Taken' = Taken /\ stored' = stored
<1>1. /\ JobOK(w) /\ job[w].op = "add" /\ job[w].todo = {} /\ Return(w)
      /\ UNCHANGED <<process, chain, cache, known>>
  BY DEF Add, Verified, Inv, JobsOK
<1>2. PICK t \in Payment : job[w].txs = <<t>> /\ (w = local => t \in Own)
  <2>1. CASE w = local
    BY <1>1, <2>1, PoolAssumption DEF JobOK
  <2>2. CASE w # local
    BY <1>1, <2>2 DEF JobOK
  <2> QED BY <2>1, <2>2
<1>3. job[w].txs[1] = t /\ InputsOf(job[w].txs) = Spends[t] /\ PaymentsOf(job[w].txs) = {t}
  BY <1>2, Single
<1>4. Spends[t] \subseteq Known /\ t \notin Short
  BY <1>1, <1>3 DEF JobOK
<1>5. pool' = [pool EXCEPT ![ShardOf[t]] = pool[ShardOf[t]] \cup {t}] /\ ShardOf[t] \in 1..Shards
  BY <1>3, PoolAssumption DEF Add, Shard
<1>6. Known' = Known /\ stored' = stored
  BY <1>1 DEF Known, chain
<1>7. /\ JobsOK' /\ pc' \in [Worker -> Labels] /\ job' \in [Worker -> Job]
      /\ Taken' = Taken
  <2>1. /\ JobsOK' /\ pc' \in [Worker -> Labels] /\ job' \in [Worker -> Job]
        /\ Taken' = IF w = local THEN {} ELSE Taken
    BY <1>1, <1>6, Returns
  <2>2. w = local => Taken = {}
    BY <1>1 DEF Taken
  <2> QED BY <2>1, <2>2
<1>8. told' \subseteq Own
  <2>1. CASE w = local
    <3>1. told' = told \cup {t}
      BY <1>3, <2>1 DEF Add
    <3> QED BY <1>2, <2>1, <3>1 DEF Inv, TypeOK
  <2>2. CASE w # local
    BY <2>2 DEF Add, Inv, TypeOK
  <2> QED BY <2>1, <2>2
<1>9. pool' \in [1..Shards -> SUBSET Payment] /\ \A i \in 1..Shards : \A u \in pool'[i] : ShardOf[u] = i
  BY <1>5 DEF Inv, TypeOK
<1>10. TypeOK'
  BY <1>1, <1>7, <1>8, <1>9 DEF Inv, TypeOK, process, chain
<1>11. CacheKnown'
  BY <1>1, <1>6 DEF Inv, CacheKnown
<1>12. Pending' = Pending \cup {t}
  BY <1>5 DEF Pending, Inv, TypeOK
<1>13. InputsAccounted'
  BY <1>4, <1>6, <1>7, <1>12 DEF Inv, InputsAccounted, Known
<1> QED BY <1>6, <1>7, <1>10, <1>11, <1>12, <1>13 DEF Inv

\* The writer lock is taken for a verified block.
LEMMA RunUpdateKeeps == ASSUME Inv, NEW w \in Worker, RunUpdate(w) PROVE Inv' /\ Settles
<1>1. /\ pc[w] \in {"update", "verify"} /\ JobOK(w) /\ job[w] \in Job
      /\ pc[w] = "verify" => job[w].op = "receive" /\ job[w].todo = {}
      /\ pc' = [pc EXCEPT ![w] = "commit"]
      /\ UNCHANGED <<process, utxos, stored, parent, pool, news>> /\ tip' = "coming"
      /\ cache' = [a \in {} |-> {}]
  BY DEF RunUpdate, At, Verified, Inv, JobsOK, TypeOK
<1> DEFINE b == job[local].moved \/ pc[local] = "newBlock"
           j == [job[local] EXCEPT !.moved = b]
<1>2. job' = [job EXCEPT ![local] = j]
  BY DEF RunUpdate, Inv, TypeOK
<1>3. /\ j \in Job
      /\ j.op = job[local].op /\ j.txs = job[local].txs /\ j.todo = job[local].todo
      /\ j.seen = job[local].seen /\ j.input = job[local].input /\ j.shard = job[local].shard
      /\ j.moved = b
  <2>1. job[local] \in Job
    BY Entries DEF Inv, TypeOK
  <2>2. job[local].moved \in BOOLEAN
    BY <2>1 DEF Job
  <2>3. b \in BOOLEAN
    OBVIOUS
  <2> HIDE DEF b
  <2> QED BY <2>1, <2>3 DEF Job
<1>4. /\ job' \in [Worker -> Job] /\ pc' \in [Worker -> Labels]
      /\ job'[local] = j /\ \A v \in Worker \ {local} : job'[v] = job[v]
  BY <1>1, <1>2, <1>3, Entries DEF Inv, TypeOK, Labels
<1>5. Known' = Known /\ stored' = stored
  BY <1>1 DEF Known
<1>6. pc[local] = "idle" => j = job[local]
  <2>1. SUFFICES ASSUME pc[local] = "idle" PROVE j = job[local]
    OBVIOUS
  <2>2. job[local] = NoJob
    BY <2>1, Entries DEF Inv, JobsOK, JobOK
  <2>3. job[local].moved = FALSE
    BY <2>2 DEF NoJob
  <2>4. b = FALSE
    BY <2>1, <2>3
  <2>5. j.moved = job[local].moved
    BY <1>3, <2>3, <2>4
  <2> HIDE DEF j
  <2> QED BY <1>3, <2>5, Entries, SameJob DEF Inv, TypeOK
<1>7. ASSUME NEW v \in Worker PROVE JobOK(v)'
  <2>1. /\ job'[v].txs = job[v].txs /\ job'[v].todo = job[v].todo /\ job'[v].seen = job[v].seen
        /\ job'[v].op = job[v].op /\ job'[v].input = job[v].input /\ job'[v].shard = job[v].shard
    <3>1. CASE v = local
      BY <1>3, <1>4, <3>1
    <3>2. CASE v # local
      BY <1>4, <3>2
    <3> QED BY <3>1, <3>2
  <2>2. CASE v = w
    <3>1. pc'[v] = "commit" /\ job[v].op \in {"receive", "mine"}
      BY <1>1, <2>2 DEF JobOK, Inv, TypeOK
    <3>2. job[v].todo = {}
      BY <1>1, <2>2 DEF JobOK
    <3> QED BY <1>1, <1>5, <2>1, <2>2, <3>1, <3>2 DEF JobOK
  <2>3. CASE v # w
    <3>1. pc'[v] = pc[v]
      BY <1>1, <2>3 DEF Inv, TypeOK
    <3>2. pc[v] = "idle" => job'[v] = job[v]
      BY <1>4, <1>6
    <3>3. JobOK(v)
      BY DEF Inv, JobsOK
    <3> QED BY <1>5, <2>1, <3>1, <3>2, <3>3 DEF JobOK, NoJob
  <2> QED BY <2>2, <2>3
<1>8. Taken' = Taken
  BY <1>3, <1>4, SameTaken
<1>9. JobsOK'
  BY <1>7 DEF JobsOK
<1>10. DOMAIN cache' \subseteq Addr /\ \A a \in DOMAIN cache' : cache'[a] \subseteq Outpoint \cap Known
  BY <1>1
<1>11. TipsTyped'
  BY <1>1 DEF Inv, TypeOK, TipsTyped
<1> QED BY <1>1, <1>4, <1>8, <1>9, <1>10, <1>11, ReadingKeeps

\* The commit fails: AddBlock returns, and a batch of the miner's is given up.
LEMMA CommitFailsKeeps == ASSUME Inv, NEW w \in Worker, CommitFails(w) PROVE Inv' /\ Settles
<1>1. Return(w) /\ UNCHANGED <<process, utxos, stored, cache, pool, news>>
  BY DEF CommitFails
<1>2. Known' = Known /\ stored' = stored
  BY <1>1 DEF Known
<1>3. /\ JobsOK' /\ pc' \in [Worker -> Labels] /\ job' \in [Worker -> Job]
      /\ Taken' \in {Taken, {}}
  BY <1>1, <1>2, Returns
<1>4. TipsTyped'
  BY DEF CommitFails, Inv, TypeOK, TipsTyped
<1> QED BY <1>1, <1>3, <1>4, MoveKeeps

\* After a commit and after each payment, handleBlock goes on with the next one.
LEMMA CleanNextKeeps ==
    ASSUME Inv, NEW w \in Worker, NEW txs \in Seq(Payment), CleanNext(w, txs),
           Known \subseteq Known', stored \subseteq stored', PaymentsOf(txs) \subseteq stored',
           txs # <<>> => job[w].op = "receive" /\ job[w].todo = {}
    PROVE  /\ JobsOK' /\ pc' \in [Worker -> Labels] /\ job' \in [Worker -> Job]
           /\ Taken' = IF w = local THEN {} ELSE Taken
<1>1. CASE txs = <<>>
  BY <1>1, Returns DEF CleanNext
<1>2. CASE txs # <<>>
  <2> DEFINE j == [job[w] EXCEPT !.txs = txs]
  <2>1. JobOK(w) /\ job[w] \in Job /\ txs \in Seq(Entry) /\ txs \in Seq(Tx)
    BY Entries DEF Inv, JobsOK, TypeOK
  <2>2. /\ j \in Job
        /\ j.op = job[w].op /\ j.txs = txs /\ j.todo = job[w].todo /\ j.seen = job[w].seen
        /\ j.shard = job[w].shard
    BY <2>1 DEF Job
  <2>3. job' = [job EXCEPT ![w] = j] /\ pc' = [pc EXCEPT ![w] = "cleanUp"] /\ "cleanUp" \in Labels
    BY <1>2 DEF CleanNext, Inv, TypeOK, Labels
  <2>4. pc'[w] = "cleanUp" /\ job'[w] = j /\ \A v \in Worker \ {w} : job'[v] = job[v]
    BY <2>3 DEF Inv, TypeOK
  <2>5. job[w].op = "receive" /\ job[w].todo = {}
    BY <1>2
  <2>6. JobOK(w)'
    BY <1>2, <2>1, <2>2, <2>4, <2>5 DEF JobOK, PaymentsOf
  <2>7. JobsOK' /\ pc' \in [Worker -> Labels] /\ job' \in [Worker -> Job]
    BY <2>2, <2>3, <2>6, Moves
  <2>8. w # local
    BY <2>1, <2>5 DEF JobOK
  <2> QED BY <2>4, <2>7, <2>8, Entries, SameTaken
<1> QED BY <1>1, <1>2

LEMMA CommitKeeps ==
    ASSUME Inv, NEW w \in Worker, Commit(w)
    PROVE  /\ Inv' /\ Pending' = Pending
           /\ \/ Taken' = {} /\ stored' = stored \cup Taken
              \/ Taken' = Taken /\ \E S \in SUBSET Payment : stored' = stored \cup S
<1>1. /\ JobOK(w) /\ pc[w] = "commit" /\ job[w].op \in {"receive", "mine"}
      /\ utxos' = UpdateUTXOSet(utxos, job[w].txs)
      /\ stored' = stored \cup PaymentsOf(job[w].txs)
      /\ UNCHANGED <<process, cache, pool, news>> /\ TipsTyped'
  BY DEF Commit, TipsTyped, At, Inv, JobsOK, JobOK
<1>2. Known \subseteq Known' /\ utxos' \subseteq Outpoint /\ stored \subseteq stored'
  BY <1>1, CommitKnows DEF JobOK, Inv, TypeOK
<1> DEFINE rest == IF w = local THEN <<>> ELSE Tail(job[w].txs)
<1>3. rest \in Seq(Payment) /\ PaymentsOf(rest) \subseteq stored'
  <2>1. job[w].txs \in Seq(Entry) /\ job[w].txs # <<>> /\ Tail(job[w].txs) \in Seq(Payment)
    BY <1>1 DEF JobOK
  <2>2. PaymentsOf(Tail(job[w].txs)) \subseteq PaymentsOf(job[w].txs)
    BY <2>1, Tails
  <2>3. <<>> \in Seq(Payment) /\ PaymentsOf(<<>>) = {}
    BY DEF PaymentsOf
  <2> QED BY <1>1, <2>1, <2>2, <2>3
<1>4. CleanNext(w, rest)
  BY DEF Commit
<1>5. rest # <<>> => job[w].op = "receive" /\ job[w].todo = {}
  <2>1. rest # <<>> => w # local
    OBVIOUS
  <2> QED BY <1>1, <2>1 DEF JobOK
<1>6. /\ JobsOK' /\ pc' \in [Worker -> Labels] /\ job' \in [Worker -> Job]
      /\ Taken' = IF w = local THEN {} ELSE Taken
  <2> HIDE DEF rest
  <2> QED BY <1>2, <1>3, <1>4, <1>5, CleanNextKeeps
<1>7. TypeOK'
  BY <1>1, <1>2, <1>6 DEF Inv, TypeOK, TipsTyped, process, news, PaymentsOf
<1>8. CacheKnown'
  BY <1>1, <1>2 DEF Inv, CacheKnown
<1>9. Pending' = Pending
  BY <1>1 DEF Pending
<1>10. w = local => stored' = stored \cup Taken
  BY <1>1 DEF Taken, JobOK, PaymentsOf
<1>11. PaymentsOf(job[w].txs) \in SUBSET Payment
  BY DEF PaymentsOf
<1>12. Inv'
  BY <1>2, <1>6, <1>7, <1>8, <1>9, Accounted DEF Inv
<1> QED BY <1>1, <1>6, <1>9, <1>10, <1>11, <1>12

LEMMA RemoveFromMempoolKeeps ==
    ASSUME Inv, NEW w \in Worker, RemoveFromMempool(w)
    PROVE  /\ Inv' /\ Taken' = Taken /\ stored' = stored
           /\ \E t \in Payment \cap stored : Pending' = Pending \ {t}
<1>1. /\ JobOK(w) /\ pc[w] = "cleanUp" /\ CleanNext(w, Tail(job[w].txs))
      /\ pool' = [pool EXCEPT ![Shard(Head(job[w].txs))] = pool[Shard(Head(job[w].txs))] \ {Head(job[w].txs)}]
      /\ UNCHANGED <<process, chain, cache, news>>
  BY DEF RemoveFromMempool, At, Inv, JobsOK
<1>2. /\ job[w].txs \in Seq(Entry) /\ job[w].txs # <<>> /\ job[w].txs \in Seq(Payment)
      /\ PaymentsOf(job[w].txs) \subseteq stored /\ job[w].op = "receive" /\ job[w].todo = {}
  BY <1>1 DEF JobOK
<1>3. Tail(job[w].txs) \in Seq(Payment) /\ PaymentsOf(Tail(job[w].txs)) \subseteq stored
  BY <1>2, Tails
<1>4. Known' = Known /\ stored' = stored
  BY <1>1 DEF Known, chain
<1>5. /\ JobsOK' /\ pc' \in [Worker -> Labels] /\ job' \in [Worker -> Job]
      /\ Taken' = Taken
  <2>1. w # local
    BY <1>1, <1>2 DEF JobOK
  <2> QED BY <1>1, <1>2, <1>3, <1>4, <2>1, CleanNextKeeps
<1>6. pool' \in [1..Shards -> SUBSET Payment] /\ \A i \in 1..Shards : pool'[i] \subseteq pool[i]
  BY <1>1 DEF Inv, TypeOK
<1>7. TypeOK'
  BY <1>1, <1>5, <1>6 DEF Inv, TypeOK, process, chain, news
<1>8. Pending' \subseteq Pending
  BY <1>6 DEF Pending
<1>9. CacheKnown'
  BY <1>1, <1>4 DEF Inv, CacheKnown
<1>10. \E t \in Payment \cap stored : Pending' = Pending \ {t}
  <2> DEFINE t == Head(job[w].txs)
  <2>1. t \in PaymentsOf(job[w].txs)
    BY <1>2, Tails
  <2>2. t \in Payment \cap stored /\ ShardOf[t] \in 1..Shards
    BY <1>2, <2>1, PoolAssumption DEF PaymentsOf
  <2>3. pool' = [pool EXCEPT ![ShardOf[t]] = pool[ShardOf[t]] \ {t}]
    BY <1>1 DEF Shard
  <2>4. \A i \in 1..Shards : pool'[i] = pool[i] \ {t}
    <3> HIDE DEF t
    <3> QED BY <2>2, <2>3 DEF Inv, TypeOK
  <2>5. Pending' = Pending \ {t}
    <3> HIDE DEF t
    <3> QED BY <2>4 DEF Pending
  <2> QED BY <2>2, <2>5
<1> QED BY <1>4, <1>5, <1>7, <1>8, <1>9, <1>10, Accounted DEF Inv

\* The miner's goroutine moves, and what it has is typed.
LEMMA StartMiningKeeps == ASSUME Inv, StartMining PROVE Inv' /\ Settles
<1> DEFINE j == [NoJob EXCEPT !.op = "flush", !.shard = 1]
<1>1. /\ pc[local] = "idle" /\ pc' = [pc EXCEPT ![local] = "flush"] /\ job' = [job EXCEPT ![local] = j]
      /\ UNCHANGED <<process, chain, cache, pool, news>>
  BY DEF StartMining, At
<1>2. j \in Job /\ j.op = "flush" /\ j.txs = <<>> /\ j.todo = {} /\ j.seen = {} /\ j.shard = 1
  <2>1. 1 \in 0..Shards
    BY PoolAssumption
  <2> QED BY <2>1, NoJobTypes DEF Job
<1>3. pc'[local] = "flush" /\ job'[local] = j
  BY <1>1, Entries DEF Inv, TypeOK
<1>4. Known' = Known /\ stored' = stored
  BY <1>1 DEF Known, chain
<1>5. JobOK(local)'
  <2>1. <<>> \in Seq(Payment) /\ <<>> \in Seq(Entry) /\ 1 \in 1..Shards
    BY PoolAssumption
  <2> HIDE DEF j
  <2> QED BY <1>2, <1>3, <2>1 DEF JobOK
<1>6. JobsOK' /\ pc' \in [Worker -> Labels] /\ job' \in [Worker -> Job]
  <2>1. "flush" \in Labels
    BY DEF Labels
  <2> HIDE DEF j
  <2> QED BY <1>1, <1>2, <1>4, <1>5, <2>1, Entries, Moves
<1>7. Taken' = {}
  BY <1>2, <1>3 DEF Taken, PaymentsOf
<1> QED BY <1>1, <1>6, <1>7, QuietKeeps

\* One shard's payments go from the pool to the batch, and nothing else does.
LEMMA FlushShardKeeps ==
    ASSUME Inv, FlushShard
    PROVE  /\ Inv'
           /\ \E S \in SUBSET Payment : /\ S \subseteq Pending
                                        /\ Pending' = Pending \ S
                                        /\ Taken' = Taken \cup S
<1> DEFINE i == job[local].shard
           S == pool[i]
<1>1. PICK batch \in Orders(S) : Collect(batch)
  BY DEF FlushShard
<1>2. /\ pc[local] = "flush" /\ JobOK(local) /\ job[local] \in Job
      /\ pool' = [pool EXCEPT ![i] = {}]
      /\ UNCHANGED <<process, chain, cache, news>>
  BY Entries DEF FlushShard, At, Inv, JobsOK, TypeOK
<1>3. /\ job[local].op = "flush" /\ job[local].txs \in Seq(Payment) /\ i \in 1..Shards
      /\ Shards \in Nat
  BY <1>2, PoolAssumption DEF JobOK
<1>4. S \in SUBSET Payment
  BY <1>3 DEF Inv, TypeOK
<1> DEFINE txs == job[local].txs \o batch
<1>5. txs \in Seq(Payment) /\ PaymentsOf(txs) = PaymentsOf(job[local].txs) \cup S
  BY <1>1, <1>3, <1>4, OrderTypes, Joined
<1>6. Taken = PaymentsOf(job[local].txs)
  BY <1>3 DEF Taken, PaymentsOf
<1>7. Known' = Known /\ stored' = stored
  BY <1>2 DEF Known, chain
<1>8. /\ JobsOK' /\ pc' \in [Worker -> Labels] /\ job' \in [Worker -> Job]
      /\ Taken' = Taken \cup S
  <2>1. CASE i = Shards
    <3> DEFINE all == <<CoinbaseOf[Wallet]>> \o txs
    <3>1. Verify(local, "create", all)
      BY <1>1, <2>1 DEF Collect
    <3>2. all \in Seq(Entry) /\ all # <<>> /\ Tail(all) \in Seq(Payment) /\ PaymentsOf(all) = PaymentsOf(txs)
      BY <1>5, Entries, Front
    <3>3. JobsOK' /\ pc' \in [Worker -> Labels] /\ job' \in [Worker -> Job]
      <4> HIDE DEF all
      <4> QED BY <1>2, <3>1, <3>2, Entries, Verifies
    <3>4. job'[local].op = "create" /\ job'[local].txs = all
      BY <3>1, Entries, NoJobTypes DEF Verify, Inv, TypeOK, Job
    <3>5. Taken' = PaymentsOf(all)
      BY <3>4 DEF Taken, PaymentsOf
    <3> QED BY <1>5, <1>6, <3>2, <3>3, <3>5
  <2>2. CASE i # Shards
    <3> DEFINE j == [job[local] EXCEPT !.txs = txs, !.shard = i + 1]
    <3>1. job' = [job EXCEPT ![local] = j] /\ pc' = pc
      <4>1. job' = [job EXCEPT ![local].txs = txs, ![local].shard = @ + 1]
        BY <1>1, <2>2 DEF Collect
      <4>2. pc' = pc
        BY <1>1, <1>2, <2>2 DEF Collect, FlushShard
      <4> QED BY <4>1, <4>2 DEF Inv, TypeOK
    <3>2. i + 1 \in 1..Shards
      BY <1>3, <2>2
    <3>3. txs \in Seq(Entry) /\ txs \in Seq(Tx)
      BY <1>5, Entries
    <3>4. /\ j \in Job /\ j.op = "flush" /\ j.txs = txs /\ j.todo = job[local].todo
          /\ j.seen = job[local].seen /\ j.shard = i + 1
      <4>1. i + 1 \in 0..Shards
        BY <1>3, <3>2
      <4> HIDE DEF txs
      <4> QED BY <1>2, <1>3, <3>3, <4>1 DEF Job
    <3>5. pc'[local] = "flush" /\ job'[local] = j
      BY <1>2, <3>1, Entries DEF Inv, TypeOK
    <3>6. JobOK(local)'
      <4>1. j.todo = {} /\ j.seen \subseteq Known
        BY <1>2, <3>4 DEF JobOK
      <4> HIDE DEF j, txs
      <4> QED BY <1>5, <1>7, <3>2, <3>3, <3>4, <3>5, <4>1 DEF JobOK
    <3>7. JobsOK' /\ pc' \in [Worker -> Labels] /\ job' \in [Worker -> Job]
      <4>1. pc' = [pc EXCEPT ![local] = "flush"] /\ "flush" \in Labels
        BY <1>2, <3>1, Entries DEF Inv, TypeOK, Labels
      <4> HIDE DEF j
      <4> QED BY <1>7, <3>1, <3>4, <3>6, <4>1, Entries, Moves
    <3>8. Taken' = PaymentsOf(txs)
      BY <3>4, <3>5 DEF Taken, PaymentsOf
    <3> QED BY <1>5, <1>6, <3>7, <3>8
  <2> QED BY <2>1, <2>2
<1>9. /\ pool' \in [1..Shards -> SUBSET Payment]
      /\ \A k \in 1..Shards : pool'[k] = IF k = i THEN {} ELSE pool[k]
  BY <1>2 DEF Inv, TypeOK
<1>10. S \subseteq Pending /\ Pending' = Pending \ S
  <2>1. \A k \in 1..Shards : \A t \in pool[k] : ShardOf[t] = k
    BY DEF Inv, TypeOK
  <2> QED BY <1>3, <1>9, <2>1 DEF Pending
<1>11. TypeOK'
  <2>1. \A k \in 1..Shards : \A t \in pool'[k] : ShardOf[t] = k
    BY <1>9 DEF Inv, TypeOK
  <2> QED BY <1>2, <1>8, <1>9, <2>1 DEF Inv, TypeOK, process, chain, news
<1>12. CacheKnown'
  BY <1>2, <1>7 DEF Inv, CacheKnown
<1>13. InputsAccounted'
  BY <1>7, <1>8, <1>10, Accounted
<1> QED BY <1>4, <1>8, <1>10, <1>11, <1>12, <1>13 DEF Inv

\* The steps of CreateBlock and AddBlock between the verifications.
LEMMA MinerKeeps == ASSUME Inv, ReadHeight \/ NewBlock \/ CheckMined PROVE Inv' /\ Settles
<1>1. /\ JobOK(local) /\ job[local] \in Job /\ job[local].op \in {"create", "mine"}
      /\ job[local].txs \in Seq(Entry) /\ job[local].txs # <<>> /\ Tail(job[local].txs) \in Seq(Payment)
      /\ UNCHANGED <<process, utxos, stored, cache, pool, news>> /\ TipsTyped'
  <2>1. JobOK(local) /\ job[local] \in Job
    BY Entries DEF Inv, JobsOK, TypeOK
  <2>2. job[local].op \in {"create", "mine"} /\ pc[local] # "cleanUp"
    BY <2>1 DEF ReadHeight, NewBlock, CheckMined, Verified, At, JobOK
  <2>3. UNCHANGED <<process, utxos, stored, cache, pool, news>> /\ TipsTyped'
    BY DEF ReadHeight, NewBlock, CheckMined, chain, Inv, TypeOK, TipsTyped
  <2> QED BY <2>1, <2>2, <2>3 DEF JobOK
<1>2. Known' = Known /\ stored' = stored
  BY <1>1 DEF Known
<1>3. CASE Return(local)
  <2>1. Taken' = {}
    BY <1>3, Entries, NoJobTypes DEF Return, Taken, Inv, TypeOK
  <2> QED BY <1>1, <1>2, <1>3, <2>1, Entries, Returns, MoveKeeps
<1>4. CASE ~Return(local)
  <2>1. PICK label \in {"newBlock", "verify", "update"}, j \in Job :
            /\ pc' = [pc EXCEPT ![local] = label] /\ job' = [job EXCEPT ![local] = j]
            /\ j.txs = job[local].txs /\ j.seen = job[local].seen
            /\ j.op \in {"create", "mine"}
            /\ j.todo \subseteq InputsOf(j.txs)
            /\ label = "newBlock" => j.op = "create" /\ j.todo = {}
            /\ label = "update" => j.op = "mine" /\ j.todo = {}
    <3>1. CASE ReadHeight
      <4> DEFINE j == [job[local] EXCEPT !.moved = tip # "stored"]
      <4>1. (tip # "stored") \in BOOLEAN
        OBVIOUS
      <4>2. /\ pc' = [pc EXCEPT ![local] = "newBlock"] /\ job' = [job EXCEPT ![local] = j]
            /\ job[local].op = "create" /\ job[local].todo = {}
        BY <3>1 DEF ReadHeight, Verified, Inv, TypeOK
      <4>3. /\ j \in Job /\ j.op = job[local].op /\ j.txs = job[local].txs /\ j.todo = job[local].todo
            /\ j.seen = job[local].seen
        BY <1>1, <4>1 DEF Job
      <4> HIDE DEF j
      <4> QED BY <4>2, <4>3
    <3>2. CASE NewBlock
      <4> DEFINE j == [job[local] EXCEPT !.op = "mine", !.todo = InputsOf(job[local].txs)]
      <4>1. InputsOf(job[local].txs) \in SUBSET Outpoint
        BY <1>1, InputsOfPayments
      <4>2. pc' = [pc EXCEPT ![local] = "verify"] /\ job' = [job EXCEPT ![local] = j]
        BY <3>2 DEF NewBlock, Inv, TypeOK
      <4>3. /\ j \in Job /\ j.op = "mine" /\ j.txs = job[local].txs
            /\ j.todo = InputsOf(job[local].txs) /\ j.seen = job[local].seen
        BY <1>1, <4>1 DEF Job
      <4> HIDE DEF j
      <4> QED BY <4>2, <4>3
    <3>3. CASE CheckMined
      <4>1. /\ pc' = [pc EXCEPT ![local] = "update"] /\ job' = job
            /\ job[local].op = "mine" /\ job[local].todo = {}
        BY <1>4, <3>3 DEF CheckMined, Verified
      <4>2. job' = [job EXCEPT ![local] = job[local]]
        BY <4>1 DEF Inv, TypeOK
      <4> QED BY <1>1, <4>1, <4>2
    <3> QED BY <3>1, <3>2, <3>3
  <2>2. label \in Labels
    BY DEF Labels
  <2>3. pc'[local] = label /\ job'[local] = j
    BY <2>1, Entries DEF Inv, TypeOK
  <2>4. JobOK(local)'
    BY <1>1, <1>2, <2>1, <2>3 DEF JobOK
  <2>5. JobsOK' /\ pc' \in [Worker -> Labels] /\ job' \in [Worker -> Job]
    BY <1>2, <2>1, <2>2, <2>4, Entries, Moves
  <2>6. Taken' = Taken
    BY <1>1, <2>1, <2>3 DEF Taken
  <2> QED BY <1>1, <2>5, <2>6, MoveKeeps
<1> QED BY <1>3, <1>4

LEMMA StopKeeps == ASSUME Inv, StopProcess PROVE Inv' /\ Pending' = {} /\ Taken' = {} /\ stored' = stored
<1>1. /\ up' = FALSE /\ UNCHANGED <<auto, wallet, utxos, stored, news>>
      /\ tip' = "stored" /\ parent' = "stored"
      /\ cache' = [a \in {} |-> {}]
      /\ pool' = [i \in 1..Shards |-> {}]
      /\ pc' = [w \in Worker |-> "idle"]
      /\ job' = [w \in Worker |-> NoJob]
  BY DEF StopProcess
<1>2. Known' = Known /\ stored' = stored
  BY <1>1 DEF Known
<1>3. TypeOK'
  <2>1. pc' \in [Worker -> Labels] /\ job' \in [Worker -> Job]
    BY <1>1, NoJobTypes DEF Labels
  <2>2. pool' \in [1..Shards -> SUBSET Payment] /\ \A i \in 1..Shards : pool'[i] = {}
    BY <1>1
  <2>3. DOMAIN cache' = {}
    BY <1>1
  <2> QED BY <1>1, <2>1, <2>2, <2>3 DEF Inv, TypeOK, news
<1>4. CacheKnown'
  BY <1>1 DEF CacheKnown
<1>5. JobsOK'
  <2>1. ASSUME NEW w \in Worker PROVE JobOK(w)'
    <3>1. pc'[w] = "idle" /\ job'[w] = NoJob
      BY <1>1
    <3>2. <<>> \in Seq(Entry)
      OBVIOUS
    <3> QED BY <3>1, <3>2 DEF JobOK, NoJob
  <2> QED BY <2>1 DEF JobsOK
<1>6. Pending' = {}
  BY <1>1 DEF Pending
<1>7. Taken' = {}
  BY <1>1, Entries, NoJobTypes DEF Taken
<1> QED BY <1>2, <1>3, <1>4, <1>5, <1>6, <1>7, Accounted DEF Inv

\* A step that changes neither the chain nor what is in memory.
LEMMA RestartKeeps == ASSUME Inv, Restart \/ UNCHANGED vars PROVE Inv' /\ Settles
<1>1. UNCHANGED <<auto, wallet, chain, cache, pool, news, pc, job>> /\ up' \in BOOLEAN
  BY DEF Restart, vars, process, Inv, TypeOK
<1>2. Known' = Known /\ Pending' = Pending /\ Taken' = Taken /\ stored' = stored
  BY <1>1 DEF Known, Pending, Taken, chain
<1>3. TypeOK'
  BY <1>1 DEF Inv, TypeOK, chain, news
<1>4. CacheKnown'
  BY <1>1, <1>2 DEF Inv, CacheKnown
<1>5. JobsOK'
  <2>1. ASSUME NEW v \in Worker PROVE JobOK(v)'
    BY <1>1, <1>2, StaysOK DEF Inv, JobsOK, TypeOK
  <2> QED BY <2>1 DEF JobsOK
<1> QED BY <1>2, <1>3, <1>4, <1>5, Accounted DEF Inv, Settles

-----------------------------------------------------------------------------
(* The theorems.                                                            *)

LEMMA SettlesMaps == Settles => [Life!Next]_Life!vars
BY DEF Settles, Life!Next, Life!GiveUp, Life!vars

\* Every step keeps the invariant and does to the payments what PaymentLife allows.
LEMMA NextKeeps == Inv /\ [Next]_vars => Inv' /\ [Life!Next]_Life!vars
<1> SUFFICES ASSUME Inv, [Next]_vars PROVE Inv' /\ [Life!Next]_Life!vars
  OBVIOUS
<1>1. CASE \E w \in Handler, t \in Payment : HandleTransaction(w, t) \/ SendRequestedData(w, t)
  BY <1>1, HandleTransactionKeeps, SendRequestedDataKeeps, SettlesMaps
<1>2. CASE \E t \in Own : HandleSend(t)
  BY <1>2, HandleSendKeeps, SettlesMaps
<1>3. CASE \E w \in Handler, b \in PeerBlock : HandleBlock(w, b)
  BY <1>3, HandleBlockKeeps, SettlesMaps
<1>4. CASE StartMining \/ NewBlock
  BY <1>4, StartMiningKeeps, MinerKeeps, SettlesMaps
<1>5. ASSUME NEW w \in Worker, Step(w)
      PROVE  Inv' /\ [Life!Next]_Life!vars
  <2>1. CASE Reading(w) \/ CheckPool(w) \/ RunUpdate(w) \/ CommitFails(w)
    BY <2>1, GetUTXOsCachedKeeps, MissCacheKeeps, FillCacheKeeps, CheckPoolKeeps, RunUpdateKeeps,
       CommitFailsKeeps, SettlesMaps DEF Reading
  <2>2. CASE Add(w)
    BY <2>2, AddKeeps DEF Life!Next, Life!Accept
  <2>3. CASE Commit(w)
    BY <2>3, CommitKeeps DEF Life!Next, Life!Confirm, Life!ConfirmElsewhere
  <2>4. CASE RemoveFromMempool(w)
    <3>1. PICK t \in Payment \cap stored : Pending' = Pending \ {t} /\ Taken' = Taken /\ stored' = stored
      BY <2>4, RemoveFromMempoolKeeps
    <3>2. CASE t \in Pending
      BY <2>4, <3>1, <3>2, RemoveFromMempoolKeeps DEF Life!Next, Life!Clear
    <3>3. CASE t \notin Pending
      BY <2>4, <3>1, <3>3, RemoveFromMempoolKeeps DEF Life!vars
    <3> QED BY <3>2, <3>3
  <2>5. CASE FlushShard
    <3>1. PICK S \in SUBSET Payment : S \subseteq Pending /\ Pending' = Pending \ S /\ Taken' = Taken \cup S
      BY <2>5, FlushShardKeeps
    <3>2. stored' = stored
      BY <2>5 DEF FlushShard, chain
    <3>3. Life!Take(S)
      BY <3>1, <3>2 DEF Life!Take
    <3> QED BY <2>5, <3>3, FlushShardKeeps DEF Life!Next
  <2>6. CASE ReadHeight \/ CheckMined
    BY <2>6, MinerKeeps, SettlesMaps
  <2>7. CASE IsValidPanics
    BY <2>7, StopKeeps DEF IsValidPanics, Life!Next, Life!End
  <2> QED BY <1>5, <2>1, <2>2, <2>3, <2>4, <2>5, <2>6, <2>7 DEF Step, Storing, Mining
<1>6. CASE Kill
  BY <1>6, StopKeeps DEF Kill, Life!Next, Life!End
<1>7. CASE Restart \/ UNCHANGED vars
  BY <1>7, RestartKeeps, SettlesMaps
<1> QED BY <1>1, <1>2, <1>3, <1>4, <1>5, <1>6, <1>7 DEF Next

LEMMA Invariance == Spec => []Inv
BY InitInv, NextKeeps, PTL DEF Spec

\* Every variable keeps its type, and every payment in the pool is in its own shard.
THEOREM PoolTypeCorrect == Spec => []TypeOK
BY Invariance, PTL DEF Inv

\* What a payment that is pending or being mined spends was there when it was verified, and
\* only a stored payment can have spent it since; none has a signature that is split wrongly.
THEOREM InputsStayAccounted == Spec => []InputsAccounted
BY Invariance, PTL DEF Inv

\* The pool, the flush, the clean-up and the restarts do to the payments what PaymentLife allows.
THEOREM PoolRefinement == Spec => ImplementsPaymentLife
<1>1. Init => Life!Init
  BY NoJobTypes, Entries DEF Init, Life!Init, Pending, Taken
<1>2. Inv /\ [Next]_vars => [Life!Next]_Life!vars
  BY NextKeeps
<1> QED BY <1>1, <1>2, Invariance, PTL DEF Spec, ImplementsPaymentLife, Life!Spec

\* CreateBlock and AddBlock give the miner's batch up only for one of the causes named.
THEOREM RefusalsHaveCauses == Spec => RefusalNeedsCause
<1> DEFINE Cause == \/ \E t \in Taken, s \in stored : Spends[t] \cap Spends[s] # {}
                    \/ job[local].moved
                    \/ Stale
                    \/ pc[local] = "commit" /\ tip' = "lost"
<1>1. ASSUME Inv, [Next]_vars, BatchLost PROVE Cause
  <2>1. /\ up /\ job[local].op \in {"create", "mine"}
        /\ up' /\ pc'[local] = "idle" /\ ~(Taken \subseteq stored')
    BY <1>1 DEF BatchLost
  <2>2. JobOK(local) /\ job[local] \in Job /\ pc[local] # "idle"
    <3>1. JobOK(local) /\ job[local] \in Job
      BY <1>1, Entries DEF Inv, JobsOK, TypeOK
    <3> QED BY <2>1, <3>1, NoJobTypes DEF JobOK
  <2>3. ASSUME NEW o \in job[local].todo, NEW answer, Judge(local, o, answer),
               answer = UTXOsOf(utxos, Owner[o]) \/ Stale
        PROVE  Cause
    <3>1. ~(o \in answer /\ Signed(local, o))
      <4>1. pc' # [pc EXCEPT ![local] = "verify"]
        BY <1>1, <2>1, Entries DEF Inv, TypeOK
      <4> QED BY <2>1, <2>3, <4>1 DEF Judge, CreateTransaction
    <3>2. PICK t \in PaymentsOf(job[local].txs) : o \in Spends[t]
      BY <2>2, InputsOfPayments DEF JobOK
    <3>3. PaymentsOf(job[local].txs) \subseteq Taken
      BY <2>1 DEF Taken, PaymentsOf
    <3>4. Signed(local, o)
      BY <1>1, <3>3 DEF Inv, InputsAccounted, Signed
    <3>5. t \in Taken /\ o \in utxos \cup UNION {Spends[s] : s \in stored}
      BY <1>1, <3>2, <3>3 DEF Inv, InputsAccounted
    <3>6. CASE o \in utxos
      BY <2>3, <3>1, <3>4, <3>6 DEF UTXOsOf
    <3>7. CASE \E s \in stored : o \in Spends[s]
      BY <3>2, <3>5, <3>7
    <3> QED BY <3>5, <3>6, <3>7
  <2>4. CASE GetUTXOsCached(local)
    <3>1. PICK o \in job[local].todo : Owner[o] \in DOMAIN cache /\ Judge(local, o, cache[Owner[o]])
      BY <2>4 DEF GetUTXOsCached
    <3>2. cache[Owner[o]] = UTXOsOf(utxos, Owner[o]) \/ Stale
      BY <3>1 DEF Stale
    <3> QED BY <2>3, <3>1, <3>2
  <2>5. CASE FillCache(local)
    <3>1. pc[local] = "fill" /\ Judge(local, job[local].input, job[local].seen)
      BY <2>5 DEF FillCache, At
    <3>2. job[local].input \in job[local].todo
      BY <2>2, <3>1 DEF JobOK
    <3>3. job[local].seen = UTXOsOf(utxos, Owner[job[local].input]) \/ Stale
      BY <3>1 DEF Stale
    <3> QED BY <2>3, <3>1, <3>2, <3>3
  <2>6. CASE CheckMined
    <3>1. job[local].moved
      <4>1. pc' # [pc EXCEPT ![local] = "update"]
        BY <1>1, <2>1, Entries DEF Inv, TypeOK
      <4> QED BY <2>6, <4>1 DEF CheckMined
    <3> QED BY <3>1
  <2>7. ASSUME NEW w \in Worker, w # local, Step(w)
        PROVE  pc'[local] = pc[local]
    <3>1. \/ pc' = pc
          \/ \E label : pc' = [pc EXCEPT ![w] = label]
      BY <2>7 DEF Step, Reading, Storing, GetUTXOsCached, MissCache, ViewUTXOs, FillCache, Judge, CreateTransaction, Verify,
                  Return, CheckPool, Add, RunUpdate, Commit, CommitFails, RemoveFromMempool, CleanNext
    <3> QED BY <1>1, <2>7, <3>1, Entries DEF Inv, TypeOK
  <2>8. CASE MissCache(local) \/ RunUpdate(local) \/ ReadHeight
    BY <1>1, <2>1, <2>8, Entries DEF MissCache, RunUpdate, ReadHeight, Inv, TypeOK
  <2>9. CASE ViewUTXOs(local) \/ RemoveFromMempool(local) \/ FlushShard \/ NewBlock \/ StartMining
    <3>1. CASE ViewUTXOs(local) \/ NewBlock \/ StartMining
      BY <1>1, <2>1, <3>1, Entries DEF ViewUTXOs, NewBlock, StartMining, Inv, TypeOK
    <3>2. CASE RemoveFromMempool(local) \/ FlushShard
      BY <2>1, <2>2, <3>2 DEF RemoveFromMempool, FlushShard, At, JobOK
    <3> QED BY <2>9, <3>1, <3>2
  <2>14. CASE CommitFails(local)
    BY <2>14 DEF CommitFails, At
  <2>15. CASE Commit(local)
    <3>1. stored' = stored \cup PaymentsOf(job[local].txs)
      BY <2>15 DEF Commit
    <3> QED BY <2>1, <3>1 DEF Taken
  <2>10. CASE CheckPool(local) \/ Add(local) \/ \E t \in Own : HandleSend(t)
    BY <2>1, <2>2, <2>10 DEF CheckPool, Add, HandleSend, Verified, At
  <2>11. CASE Kill \/ IsValidPanics \/ Restart \/ UNCHANGED vars
    BY <2>1, <2>2, <2>11 DEF Kill, IsValidPanics, StopProcess, Restart, vars
  <2>12. CASE \E w \in Worker : Step(w)
    <3>1. PICK w \in Worker : Step(w)
      BY <2>12
    <3>2. w = local
      BY <2>1, <2>2, <2>7, <3>1
    <3> QED BY <2>4, <2>5, <2>6, <2>8, <2>9, <2>10, <2>11, <2>14, <2>15, <3>1, <3>2
            DEF Step, Reading, Storing, Mining
  <2>13. CASE \/ \E w \in Handler, t \in Payment : HandleTransaction(w, t) \/ SendRequestedData(w, t)
              \/ \E w \in Handler, b \in PeerBlock : HandleBlock(w, b)
    <3>1. PICK w \in Handler : \/ \E t \in Payment : HandleTransaction(w, t) \/ SendRequestedData(w, t)
                               \/ \E b \in PeerBlock : HandleBlock(w, b)
      BY <2>13
    <3>2. w \in Worker /\ w # local
      BY PoolAssumption DEF Worker
    <3>3. pc' = pc \/ \E label : pc' = [pc EXCEPT ![w] = label]
      BY <3>1 DEF HandleTransaction, SendRequestedData, HandleBlock, Verify
    <3> QED BY <1>1, <2>1, <2>2, <3>2, <3>3, Entries DEF Inv, TypeOK
  <2> QED BY <1>1, <2>9, <2>10, <2>11, <2>12, <2>13 DEF Next
<1> QED BY <1>1, Invariance, PTL DEF Spec, RefusalNeedsCause
=============================================================================
