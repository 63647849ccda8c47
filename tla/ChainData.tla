------------------------------ MODULE ChainData ------------------------------
(***************************************************************************)
(* The data the node works on and the pure operators of pkg/block,         *)
(* pkg/transaction and internal/blockchain that the other modules use.     *)
(*                                                                         *)
(* A hash is a natural number: SHA-256 values are arbitrary, so only their *)
(* identity and their order (the key order of bbolt's cursors) matter.     *)
(* A transaction is a name with the outpoints it spends and creates. Its   *)
(* amounts and signatures are left out: Tx holds transactions the wallets  *)
(* of the network build (createTransaction), whose inputs are signed by    *)
(* their owner and cover the outputs.                                      *)
(*                                                                         *)
(* The ID of a coinbase transaction hashes only the address and the amount *)
(* (NewCoinBaseTx), so every reward to an address is the same transaction  *)
(* and creates the same outpoint: CoinbaseOf is a function of the address. *)
(***************************************************************************)
EXTENDS Integers, Sequences

CONSTANTS
    Hash,       \* the hashes of the blocks there may be
    Genesis,    \* the hash of the fixed genesis block
    Nil,        \* Go's nil, where a hash, a block or an outpoint may be missing
    Addr,       \* the wallet addresses
    Miner,      \* the addresses that receive mining rewards
    Outpoint,   \* the <<transaction ID, output index>> pairs, the keys of the UTXO bucket
    Owner,      \* the address each outpoint pays to
    Tx,         \* the transactions
    GenesisTx,  \* the coinbase transaction of the genesis block
    CoinbaseOf, \* the coinbase transaction that rewards a miner
    Spends,     \* the outpoints the inputs of a transaction refer to
    Creates     \* the outpoints of the outputs of a transaction

ASSUME HashAssumption ==
    /\ Hash \subseteq Nat
    /\ Genesis \in Hash
    /\ Nil \notin Hash

ASSUME TxAssumption ==
    /\ Nil \notin Outpoint
    /\ Owner \in [Outpoint -> Addr]
    /\ GenesisTx \in Tx
    /\ Miner \subseteq Addr
    /\ CoinbaseOf \in [Miner -> Tx]
    /\ Spends \in [Tx -> SUBSET Outpoint]
    /\ Creates \in [Tx -> SUBSET Outpoint]
    /\ Spends[GenesisTx] = {}
    /\ \A a \in Miner : Spends[CoinbaseOf[a]] = {}

\* A block without its time stamp, nonce and difficulty; its hash is the key it is
\* stored under.
Block == [height : Nat, prev : Hash \cup {Nil}, txs : Seq(Tx)]

ASSUME NilAssumption == Nil \notin Block

\* Bucket.Put and Cache.Add: a bucket or a cache is a function on the set of its keys.
Put(f, k, v) == [x \in DOMAIN f \cup {k} |-> IF x = k THEN v ELSE f[x]]

GenesisBlock == [height |-> 0, prev |-> Nil, txs |-> <<GenesisTx>>]

InputsOf(txs) == UNION {Spends[txs[i]] : i \in DOMAIN txs}

OutputsOf(txs) == UNION {Creates[txs[i]] : i \in DOMAIN txs}

-----------------------------------------------------------------------------
(* Plausible slips in updateUTXOSet and IsValid, for the mutation checks.   *)

UpdateUTXOSetKeepsSpent(utxos, txs) == utxos \cup OutputsOf(txs)

UpdateUTXOSetForgetsNew(utxos, txs) == utxos \ InputsOf(txs)

IsValidAnyHeight(b, previous) == b.height > 0

-----------------------------------------------------------------------------
\* The UTXO bucket after the transactions of a block in their order, each one deleting its
\* inputs and then putting its outputs: a new output is there at the end if a creation of
\* it is followed by no deletion.
UpdateUTXOSet(utxos, txs) ==
    (utxos \ InputsOf(txs))
    \cup {o \in OutputsOf(txs) :
            \E i \in DOMAIN txs :
                /\ o \in Creates[txs[i]]
                /\ \A j \in DOMAIN txs : j > i => o \notin Spends[txs[j]]}

\* updateUTXOSet as the loop over the transactions that it is. ReorgProofs shows that it gives
\* the same.
UpdateUTXOSetLoop(utxos, txs) ==
    LET after[i \in 0..Len(txs)] ==
            IF i = 0 THEN utxos ELSE (after[i - 1] \ Spends[txs[i]]) \cup Creates[txs[i]]
    IN  after[Len(txs)]

\* The unspent outputs of one address.
UTXOsOf(utxos, a) == {o \in utxos : Owner[o] = a}

\* The check of a block against its parent. The parent is the block stored under the
\* block's own PreviousHash, and every block of the model is a mined one that nothing
\* altered, so of the four tests only the height can fail.
IsValid(b, previous) == b.height = previous.height + 1
=============================================================================
