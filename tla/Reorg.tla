-------------------------------- MODULE Reorg --------------------------------
(***************************************************************************)
(* ReorganizeChain of internal/blockchain as a function of the stored      *)
(* blocks: from the branch of one block the UTXO bucket and the height     *)
(* index are taken back to the common ancestor, the transactions of the    *)
(* old blocks one by one, and then forward along the other branch.         *)
(*                                                                         *)
(* No step of Ledger calls it: GetForkChain looks for a chain that starts  *)
(* at a block that is not stored yet, and isPotentialFork closes the       *)
(* chain before ReorganizeChain would read it. What is checked is what the *)
(* function does with the trees of blocks that Ledger reaches, for a new   *)
(* chain whose blocks are at hand.                                         *)
(***************************************************************************)
EXTENDS Ledger

SX == INSTANCE SequencesExt

CONSTANT DepthLimit \* depthLimit, how far down collectChainHashes follows the new chain

ASSUME DepthAssumption == DepthLimit \in Nat \ {0}

\* collectChainHashes: the last blocks of the new chain.
CollectChainHashes(new) == {h \in Branch[new] : blocks[h].height > blocks[new].height - DepthLimit}

\* findForkPoint: the first block from the old tip downwards whose hash was collected. When the
\* branches part further down the search ends at the genesis block.
FindForkPoint(old, new) ==
    LET first[h \in DOMAIN blocks] ==
            IF h \in CollectChainHashes(new) \cup {Genesis} THEN h ELSE first[blocks[h].prev]
    IN  first[old]

\* collectBlocksFrom: the blocks from a block down to one of its ancestors, both included.
\* Below the genesis block there is nothing to go on with.
CollectBlocksFrom(start, end) ==
    LET down[h \in DOMAIN blocks] ==
            IF h \in {end, Genesis} THEN <<h>> ELSE <<h>> \o down[blocks[h].prev]
    IN  down[start]

\* What an input refers to is put back if any stored block has the transaction it is from.
RestoreSpentOutputs(utxo, t) == utxo \cup (Spends[t] \cap Created)

RemoveCreatedOutputs(utxo, t) == utxo \ Creates[t]

\* The transactions of a block are taken back in their order.
UndoBlock(utxo, txs) ==
    LET after[i \in 0..Len(txs)] ==
            IF i = 0 THEN utxo
            ELSE RemoveCreatedOutputs(RestoreSpentOutputs(after[i - 1], txs[i]), txs[i])
    IN  after[Len(txs)]

\* What rollbackBlocks could get wrong: the oldest block first.
RollbackOldestFirst(utxo, hashes) ==
    LET after[i \in 0..Len(hashes)] ==
            IF i = 0 THEN utxo
            ELSE UndoBlock(after[i - 1], blocks[hashes[Len(hashes) + 1 - i]].txs)
    IN  after[Len(hashes)]

\* rollbackBlocks, the blocks from the tip down.
Rollback(utxo, hashes) ==
    LET after[i \in 0..Len(hashes)] ==
            IF i = 0 THEN utxo ELSE UndoBlock(after[i - 1], blocks[hashes[i]].txs)
    IN  after[Len(hashes)]

\* applyNewBlocksReverseOrder: from the ancestor up.
ApplyNewBlocks(utxo, hashes) ==
    LET after[i \in 0..Len(hashes)] ==
            IF i = 0 THEN utxo
            ELSE UpdateUTXOSet(after[i - 1], blocks[hashes[Len(hashes) + 1 - i]].txs)
    IN  after[Len(hashes)]

TxsOf(S) == UNION {SX!ToSet(blocks[h].txs) : h \in S}

HeightsOf(S) == {blocks[h].height : h \in S}

\* ReorganizeChain: the bucket, the index, and the payments that go back to the pool. Both
\* chains end with the ancestor, which rollback and replay skip. What it does beside that (it
\* writes the key "l", moves bc.tip, purges the cache) is left out: nothing here reads them.
ReorganizeChain(utxo, heights, old, new) ==
    LET ancestor == FindForkPoint(old, new)
        newBlocks == CollectBlocksFrom(new, ancestor)
        gone == SX!Front(CollectBlocksFrom(old, ancestor))
        come == SX!Front(newBlocks)
        goneAt == HeightsOf(SX!ToSet(gone))
        comeAt == HeightsOf(SX!ToSet(come))
    IN  [utxos |-> ApplyNewBlocks(Rollback(utxo, gone), come),
         index |-> [k \in (DOMAIN heights \ goneAt) \cup comeAt |->
                        IF k \in comeAt THEN CHOOSE h \in SX!ToSet(come) : blocks[h].height = k
                                        ELSE heights[k]],
         restored |-> {t \in TxsOf(SX!ToSet(gone)) \ TxsOf(SX!ToSet(newBlocks)) : Spends[t] # {}}]

-----------------------------------------------------------------------------
\* The height index of one branch, and the payments on it.
BranchIndex(h) == [k \in 0..blocks[h].height |-> CHOOSE b \in Branch[h] : blocks[b].height = k]

PaymentsOf(S) == {t \in TxsOf(S) : Spends[t] # {}}

\* From the UTXO set and the index of one branch ReorganizeChain makes those of any other, and
\* hands back the payments that are on the old one only. In three cases it does more or less
\* than that, each for what the blocks taken back did. An outpoint that a block created while it
\* was unspent already, as every miner's second reward does before the first one is spent, is
\* deleted and not known to have been there before (removeCreatedOutputs). What a block spent
\* although it was not unspent on its branch, as it may with one bucket for all branches, is put
\* back all the same (restoreSpentOutputs). And a payment that a branch has twice, when the
\* reward it spends is earned again, may be handed back although the new branch has it further
\* down: txExistsInBlocks looks no further than the ancestor.
ReorgSwitches ==
    \A old, new \in DOMAIN blocks :
        LET after == ReorganizeChain(BranchUTXOs[old], BranchIndex(old), old, new)
            gone == Branch[old] \ Branch[FindForkPoint(old, new)]
            unspent(b) == BranchUTXOs[blocks[b].prev]
            earnedAgain == UNION {OutputsOf(blocks[b].txs) \cap unspent(b) : b \in gone}
            notUnspent == UNION {InputsOf(blocks[b].txs) \ unspent(b) : b \in gone}
            paidAgain == UNION {PaymentsOf({b}) \cap PaymentsOf(Branch[blocks[b].prev]) : b \in gone}
            oldOnly == PaymentsOf(Branch[old]) \ PaymentsOf(Branch[new])
        IN  /\ after.index = BranchIndex(new)
            /\ BranchUTXOs[new] \ earnedAgain \subseteq after.utxos
            /\ after.utxos \subseteq BranchUTXOs[new] \cup notUnspent
            /\ oldOnly \subseteq after.restored
            /\ after.restored \subseteq oldOnly \cup paidAgain
=============================================================================
