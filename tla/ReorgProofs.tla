----------------------------- MODULE ReorgProofs -----------------------------
(***************************************************************************)
(* ReorganizeChain does what it is for in every tree of blocks that the    *)
(* node may have stored, whatever the length of its branches. The          *)
(* functions it is made of are recursive: that they exist, and what their  *)
(* values are, is shown along the heights of the blocks, which go down by  *)
(* one from each block to the previous one.                                *)
(***************************************************************************)
EXTENDS Reorg, LedgerProofs, Recursion

H(h) == blocks[h].height
P(h) == blocks[h].prev

\* What is assumed of the stored blocks: their type, and that they form a tree.
Store == TypeOK /\ StoreConnected

-----------------------------------------------------------------------------
(* Branches.                                                                *)

LEMMA StoreShape ==
    ASSUME Store
    PROVE  /\ Genesis \in DOMAIN blocks /\ H(Genesis) = 0
           /\ \A h \in DOMAIN blocks : H(h) \in Nat /\ blocks[h].txs \in Seq(Tx)
           /\ \A h \in DOMAIN blocks \ {Genesis} :
                P(h) \in DOMAIN blocks /\ H(P(h)) = H(h) - 1 /\ H(h) > 0
<1>1. \A h \in DOMAIN blocks : H(h) \in Nat /\ blocks[h].txs \in Seq(Tx)
  BY DEF Store, TypeOK, Block, H
<1>2. Genesis \in DOMAIN blocks /\ H(Genesis) = 0
  BY DEF Store, StoreConnected, GenesisBlock, H
<1>3. ASSUME NEW h \in DOMAIN blocks \ {Genesis}
      PROVE  P(h) \in DOMAIN blocks /\ H(P(h)) = H(h) - 1 /\ H(h) > 0
  <2>1. P(h) \in DOMAIN blocks /\ H(h) = H(P(h)) + 1
    BY DEF Store, StoreConnected, H, P
  <2> QED BY <1>1, <2>1
<1> QED BY <1>1, <1>2, <1>3

\* A function on the stored blocks that is given at some of them, the genesis block included,
\* and otherwise computed from its value at the previous block.
HeightOf == [h \in DOMAIN blocks |-> H(h)]
PrevOf == [h \in DOMAIN blocks |-> P(h)]

LEMMA StoreDescends ==
    ASSUME Store, NEW base, Genesis \in base
    PROVE  Descends(DOMAIN blocks, base, HeightOf, PrevOf)
<1>1. HeightOf \in [DOMAIN blocks -> Nat]
  BY StoreShape DEF HeightOf
<1>2. ASSUME NEW h \in DOMAIN blocks \ base
      PROVE  PrevOf[h] \in DOMAIN blocks /\ HeightOf[PrevOf[h]] < HeightOf[h]
  BY StoreShape DEF HeightOf, PrevOf
<1> QED BY <1>1, <1>2 DEF Descends

\* What holds of a block whenever it holds of the previous one holds of every stored block.
LEMMA BlockInduction ==
    ASSUME Store, NEW S,
           \A h \in DOMAIN blocks : (h = Genesis \/ P(h) \in S) => h \in S
    PROVE  DOMAIN blocks \subseteq S
<1>1. ASSUME NEW d \in DOMAIN blocks,
             \A e \in DOMAIN blocks : HeightOf[e] < HeightOf[d] => e \in S
      PROVE  d \in S
  <2>1. CASE d = Genesis
    BY <2>1
  <2>2. CASE d # Genesis
    <3>1. P(d) \in DOMAIN blocks /\ HeightOf[P(d)] < HeightOf[d]
      BY <2>2, StoreShape DEF HeightOf
    <3> QED BY <1>1, <3>1
  <2> QED BY <2>1, <2>2
<1>2. HeightOf \in [DOMAIN blocks -> Nat]
  BY StoreShape DEF HeightOf
<1> QED BY <1>1, <1>2, RankInduction

LEMMA BranchDef ==
    ASSUME Store
    PROVE  /\ Branch \in [DOMAIN blocks -> SUBSET DOMAIN blocks]
           /\ \A h \in DOMAIN blocks :
                Branch[h] = IF h = Genesis THEN {h} ELSE {h} \cup Branch[P(h)]
<1> DEFINE D == DOMAIN blocks
           V == SUBSET D
           given == [h \in {Genesis} |-> {h}]
           step == [z \in D \X V |-> {z[1]} \cup z[2]]
<1>1. Descends(D, {Genesis}, HeightOf, PrevOf)
  BY StoreDescends
<1>2. /\ \A d \in D \cap {Genesis} : given[d] \in V
      /\ \A d \in D \ {Genesis}, v \in V : step[<<d, v>>] \in V
      /\ V # {}
  OBVIOUS
<1>3. PICK f \in [D -> V] : Computes(f, D, {Genesis}, given, PrevOf, step)
  <2> HIDE DEF D, V, given, step
  <2> QED BY <1>1, <1>2, Recursive
<1>4. ASSUME NEW h \in D PROVE f[h] = IF h = Genesis THEN {h} ELSE {h} \cup f[P(h)]
  <2>1. CASE h = Genesis
    BY <1>3, <2>1 DEF Computes
  <2>2. CASE h # Genesis
    <3>1. P(h) \in D /\ PrevOf[h] = P(h)
      BY <2>2, StoreShape DEF PrevOf
    <3>2. f[P(h)] \in V
      BY <3>1
    <3>3. f[h] = step[<<h, f[P(h)]>>]
      BY <1>3, <2>2, <3>1 DEF Computes
    <3> QED BY <2>2, <3>2, <3>3
  <2> QED BY <2>1, <2>2
<1> HIDE DEF V
<1>5. f = [h \in D |-> IF h = Genesis THEN {h} ELSE {h} \cup f[P(h)]]
  BY <1>4
<1>6. Branch = [h \in D |-> IF h = Genesis THEN {h} ELSE {h} \cup Branch[P(h)]]
  BY <1>5 DEF Branch, P
<1>7. \A h \in D : Branch[h] = IF h = Genesis THEN {h} ELSE {h} \cup Branch[P(h)]
  BY <1>6
<1> DEFINE S == {h \in D : Branch[h] \in V}
<1>8. ASSUME NEW h \in D, h = Genesis \/ P(h) \in S PROVE h \in S
  BY <1>7, <1>8 DEF V
<1>9. D \subseteq S
  <2> HIDE DEF S
  <2> QED BY <1>8, BlockInduction
<1>10. Branch \in [D -> V]
  BY <1>6, <1>9
<1> QED BY <1>7, <1>10 DEF V

\* A branch goes down from its last block, and the branch of each block on it is a part of it.
LEMMA BranchDown ==
    ASSUME Store, NEW h \in DOMAIN blocks
    PROVE  /\ h \in Branch[h] /\ Genesis \in Branch[h] /\ Branch[h] \subseteq DOMAIN blocks
           /\ \A b \in Branch[h] : H(b) <= H(h) /\ Branch[b] \subseteq Branch[h]
<1> DEFINE S == {x \in DOMAIN blocks :
                    /\ Genesis \in Branch[x]
                    /\ \A b \in Branch[x] : H(b) <= H(x) /\ Branch[b] \subseteq Branch[x]}
<1>1. ASSUME NEW x \in DOMAIN blocks, x = Genesis \/ P(x) \in S PROVE x \in S
  <2>1. CASE x = Genesis
    <3>1. Branch[x] = {Genesis} /\ x \in DOMAIN blocks /\ H(x) = 0 /\ H(Genesis) = 0
      BY <2>1, BranchDef, StoreShape
    <3> QED BY <2>1, <3>1
  <2>2. CASE x # Genesis
    <3>1. Branch[x] = {x} \cup Branch[P(x)] /\ H(P(x)) = H(x) - 1 /\ H(x) \in Nat
      BY <2>2, BranchDef, StoreShape
    <3>2. P(x) \in DOMAIN blocks /\ Branch[P(x)] \subseteq DOMAIN blocks
      BY <2>2, BranchDef, StoreShape
    <3>3. ASSUME NEW b \in Branch[x] PROVE H(b) <= H(x) /\ Branch[b] \subseteq Branch[x]
      <4>1. CASE b = x
        BY <3>1, <4>1
      <4>2. CASE b \in Branch[P(x)]
        <5>1. H(b) <= H(P(x)) /\ Branch[b] \subseteq Branch[P(x)] /\ H(b) \in Nat
          BY <1>1, <2>2, <3>2, <4>2, StoreShape
        <5> QED BY <3>1, <5>1
      <4> QED BY <3>1, <4>1, <4>2
    <3> QED BY <1>1, <2>2, <3>1, <3>3
  <2> QED BY <2>1, <2>2
<1>2. DOMAIN blocks \subseteq S
  <2> HIDE DEF S
  <2> QED BY <1>1, BlockInduction
<1>3. h \in Branch[h] /\ Branch[h] \subseteq DOMAIN blocks
  BY BranchDef
<1> QED BY <1>2, <1>3

\* Below a block of a branch there is nothing but the branch of that block.
LEMMA BranchPrefix ==
    ASSUME Store, NEW h \in DOMAIN blocks, NEW a \in Branch[h], NEW b \in Branch[h], H(b) <= H(a)
    PROVE  b \in Branch[a]
<1> DEFINE Below(x) == \A c, d \in Branch[x] : H(d) <= H(c) => d \in Branch[c]
           S == {x \in DOMAIN blocks : Below(x)}
<1>1. ASSUME NEW x \in DOMAIN blocks, x = Genesis \/ P(x) \in S PROVE x \in S
  <2>1. CASE x = Genesis
    BY <2>1, BranchDef
  <2>2. CASE x # Genesis
    <3>1. Branch[x] = {x} \cup Branch[P(x)] /\ P(x) \in DOMAIN blocks /\ H(P(x)) < H(x)
      BY <2>2, BranchDef, StoreShape
    <3>2. ASSUME NEW c \in Branch[x], NEW d \in Branch[x], H(d) <= H(c) PROVE d \in Branch[c]
      <4>1. CASE c = x
        BY <3>2, <4>1
      <4>2. CASE c # x
        <5>1. c \in Branch[P(x)]
          BY <3>1, <4>2
        <5>2. H(c) <= H(P(x)) /\ H(c) \in Nat /\ H(d) \in Nat /\ H(x) \in Nat /\ H(P(x)) \in Nat
          BY <3>1, <5>1, BranchDown, StoreShape
        <5>3. d # x
          BY <3>1, <3>2, <5>2
        <5>4. d \in Branch[P(x)]
          BY <3>1, <5>3
        <5> QED BY <1>1, <2>2, <3>2, <5>1, <5>4
      <4> QED BY <4>1, <4>2
    <3> QED BY <3>2
  <2> QED BY <2>1, <2>2
<1>2. DOMAIN blocks \subseteq S
  <2> HIDE DEF S
  <2> QED BY <1>1, BlockInduction
<1> QED BY <1>2

\* A branch has one block of each height up to its own.
LEMMA BranchHeights ==
    ASSUME Store, NEW h \in DOMAIN blocks
    PROVE  /\ \A a, b \in Branch[h] : H(a) = H(b) => a = b
           /\ \A k \in 0..H(h) : \E b \in Branch[h] : H(b) = k
<1>1. ASSUME NEW a \in Branch[h], NEW b \in Branch[h], H(a) = H(b), a # b PROVE FALSE
  <2>1. a \in DOMAIN blocks /\ b \in DOMAIN blocks
    BY BranchDown
  <2>2. H(a) \in Nat /\ H(b) \in Nat
    BY <2>1, StoreShape
  <2>3. b \in Branch[a]
    BY <1>1, <2>2, BranchPrefix
  <2>4. a # Genesis /\ b \in Branch[P(a)]
    BY <1>1, <2>1, <2>3, BranchDef
  <2>5. P(a) \in DOMAIN blocks /\ H(P(a)) = H(a) - 1
    BY <2>1, <2>4, StoreShape
  <2>6. H(b) <= H(P(a))
    BY <2>4, <2>5, BranchDown
  <2> QED BY <1>1, <2>2, <2>5, <2>6
<1> DEFINE Full(x) == \A k \in 0..H(x) : \E b \in Branch[x] : H(b) = k
           S == {x \in DOMAIN blocks : Full(x)}
<1>2. ASSUME NEW x \in DOMAIN blocks, x = Genesis \/ P(x) \in S PROVE x \in S
  <2>1. CASE x = Genesis
    <3>1. Branch[x] = {Genesis} /\ x \in DOMAIN blocks /\ H(x) = 0 /\ H(Genesis) = 0
      BY <2>1, BranchDef, StoreShape
    <3> QED BY <2>1, <3>1
  <2>2. CASE x # Genesis
    <3>1. Branch[x] = {x} \cup Branch[P(x)] /\ H(P(x)) = H(x) - 1 /\ H(x) \in Nat
      BY <2>2, BranchDef, StoreShape
    <3> QED BY <1>2, <2>2, <3>1
  <2> QED BY <2>1, <2>2
<1>3. DOMAIN blocks \subseteq S
  <2> HIDE DEF S
  <2> QED BY <1>2, BlockInduction
<1> QED BY <1>1, <1>3

\* Of a block of a branch other than its last one the branch goes on upwards: from the previous
\* block of one to the block itself.
LEMMA BranchStep ==
    ASSUME Store, NEW h \in DOMAIN blocks, NEW b \in Branch[h], b # Genesis
    PROVE  P(b) \in Branch[h]
<1>1. b \in DOMAIN blocks /\ Branch[b] \subseteq Branch[h]
  BY BranchDown
<1>2. P(b) \in DOMAIN blocks /\ Branch[b] = {b} \cup Branch[P(b)]
  BY <1>1, BranchDef, StoreShape
<1> QED BY <1>1, <1>2, BranchDown

-----------------------------------------------------------------------------
(* The UTXO set of a branch.                                                *)

\* What a block does to a set of outpoints stays a set of outpoints that were created.
LEMMA BlockCreates ==
    ASSUME Store, NEW h \in DOMAIN blocks, NEW u
    PROVE  UpdateUTXOSet(u, blocks[h].txs) \subseteq u \cup Created
<1>1. OutputsOf(blocks[h].txs) \subseteq Created
  BY DEF Created
<1> QED BY <1>1 DEF UpdateUTXOSet

LEMMA BranchUTXOsDef ==
    ASSUME Store
    PROVE  /\ BranchUTXOs \in [DOMAIN blocks -> SUBSET Created]
           /\ \A h \in DOMAIN blocks :
                BranchUTXOs[h] = IF h = Genesis THEN Creates[GenesisTx]
                                 ELSE UpdateUTXOSet(BranchUTXOs[P(h)], blocks[h].txs)
<1> DEFINE D == DOMAIN blocks
           V == SUBSET Created
           given == [h \in {Genesis} |-> Creates[GenesisTx]]
           step == [z \in D \X V |-> UpdateUTXOSet(z[2], blocks[z[1]].txs)]
<1>1. Descends(D, {Genesis}, HeightOf, PrevOf)
  BY StoreDescends
<1>2. Creates[GenesisTx] \in V
  <2>1. Genesis \in D /\ blocks[Genesis].txs = <<GenesisTx>>
    BY DEF Store, StoreConnected, GenesisBlock
  <2>2. Creates[GenesisTx] \subseteq OutputsOf(<<GenesisTx>>)
    BY DEF OutputsOf
  <2> QED BY <2>1, <2>2 DEF Created
<1>3. \A d \in D, v \in V : UpdateUTXOSet(v, blocks[d].txs) \in V
  BY BlockCreates
<1>4. /\ \A d \in D \cap {Genesis} : given[d] \in V
      /\ \A d \in D \ {Genesis}, v \in V : step[<<d, v>>] \in V
      /\ V # {}
  BY <1>2, <1>3
<1>5. PICK f \in [D -> V] : Computes(f, D, {Genesis}, given, PrevOf, step)
  <2> HIDE DEF D, V, given, step
  <2> QED BY <1>1, <1>4, Recursive
<1>6. ASSUME NEW h \in D
      PROVE  f[h] = IF h = Genesis THEN Creates[GenesisTx]
                    ELSE UpdateUTXOSet(f[P(h)], blocks[h].txs)
  <2>1. CASE h = Genesis
    BY <1>5, <2>1 DEF Computes
  <2>2. CASE h # Genesis
    <3>1. P(h) \in D /\ PrevOf[h] = P(h)
      BY <2>2, StoreShape DEF PrevOf
    <3>2. f[P(h)] \in V
      BY <3>1
    <3>3. f[h] = step[<<h, f[P(h)]>>]
      BY <1>5, <2>2, <3>1 DEF Computes
    <3> QED BY <2>2, <3>2, <3>3
  <2> QED BY <2>1, <2>2
<1> HIDE DEF V
<1>7. f = [h \in D |-> IF h = Genesis THEN Creates[GenesisTx]
                        ELSE UpdateUTXOSet(f[P(h)], blocks[h].txs)]
  BY <1>6
<1>8. BranchUTXOs = [h \in D |-> IF h = Genesis THEN Creates[GenesisTx]
                                  ELSE UpdateUTXOSet(BranchUTXOs[P(h)], blocks[h].txs)]
  BY <1>7 DEF BranchUTXOs, P
<1>9. \A h \in D : BranchUTXOs[h] = IF h = Genesis THEN Creates[GenesisTx]
                                     ELSE UpdateUTXOSet(BranchUTXOs[P(h)], blocks[h].txs)
  BY <1>8
<1> DEFINE S == {h \in D : BranchUTXOs[h] \in V}
<1>10. ASSUME NEW h \in D, h = Genesis \/ P(h) \in S PROVE h \in S
  BY <1>2, <1>3, <1>9, <1>10
<1>11. D \subseteq S
  <2> HIDE DEF S
  <2> QED BY <1>10, BlockInduction
<1>12. BranchUTXOs \in [D -> V]
  BY <1>8, <1>11
<1> QED BY <1>9, <1>12 DEF V

-----------------------------------------------------------------------------
(* The common ancestor and the two chains down to it.                       *)

\* findForkPoint ends at a block that is on both branches.
LEMMA ForkPoint ==
    ASSUME Store, NEW old \in DOMAIN blocks, NEW new \in DOMAIN blocks
    PROVE  FindForkPoint(old, new) \in Branch[old] \cap Branch[new]
<1> DEFINE D == DOMAIN blocks
           base == CollectChainHashes(new) \cup {Genesis}
           given == [h \in D |-> h]
           step == [z \in D \X D |-> z[2]]
           Is(f) == f = [h \in D |-> IF h \in base THEN h ELSE f[P(h)]]
           first == CHOOSE f : Is(f)
<1>1. Descends(D, base, HeightOf, PrevOf)
  BY StoreDescends
<1>2. /\ \A d \in D \cap base : given[d] \in D
      /\ \A d \in D \ base, v \in D : step[<<d, v>>] \in D
      /\ D # {}
  OBVIOUS
<1>3. PICK f \in [D -> D] : Computes(f, D, base, given, PrevOf, step)
  <2> HIDE DEF D, base, given, step
  <2> QED BY <1>1, <1>2, Recursive
<1>4. ASSUME NEW h \in D PROVE f[h] = IF h \in base THEN h ELSE f[P(h)]
  <2>1. CASE h \in base
    <3> HIDE DEF base
    <3> QED BY <1>3, <2>1 DEF Computes
  <2>2. CASE h \notin base
    <3>1. P(h) \in D /\ PrevOf[h] = P(h)
      BY <2>2, StoreShape DEF PrevOf
    <3>2. f[P(h)] \in D
      BY <3>1
    <3> HIDE DEF base
    <3>3. f[h] = step[<<h, f[P(h)]>>]
      BY <1>3, <2>2, <3>1 DEF Computes
    <3> QED BY <2>2, <3>2, <3>3
  <2> QED BY <2>1, <2>2
<1>5. base \subseteq Branch[new]
  BY BranchDown DEF CollectChainHashes
<1> HIDE DEF base
<1>6. Is(f)
  BY <1>4
<1>7. Is(first)
  BY <1>6
<1>8. FindForkPoint(old, new) = first[old]
  BY DEF FindForkPoint, base, P
<1> HIDE DEF first
<1>9. \A h \in D : first[h] = IF h \in base THEN h ELSE first[P(h)]
  BY <1>7
<1> DEFINE S == {h \in D : first[h] \in Branch[h] \cap Branch[new]}
<1>10. ASSUME NEW h \in D, h = Genesis \/ P(h) \in S PROVE h \in S
  <2>1. CASE h \in base
    BY <1>5, <1>9, <2>1, BranchDown
  <2>2. CASE h \notin base
    <3>1. h # Genesis
      BY <2>2 DEF base
    <3> QED BY <1>9, <1>10, <2>2, <3>1, BranchDef
  <2> QED BY <2>1, <2>2
<1>11. D \subseteq S
  <2> HIDE DEF S
  <2> QED BY <1>10, BlockInduction
<1> QED BY <1>8, <1>11

\* collectBlocksFrom walks down the branch from its last block to the end, one height at a time.
ChainDown(c, h, a) ==
    /\ c \in Seq(Branch[h])
    /\ Len(c) = H(h) - H(a) + 1
    /\ \A i \in 1..Len(c) : H(c[i]) = H(h) + 1 - i

LEMMA Collects ==
    ASSUME Store, NEW start \in DOMAIN blocks, NEW a \in Branch[start]
    PROVE  ChainDown(CollectBlocksFrom(start, a), start, a)
<1> DEFINE D == DOMAIN blocks
           V == Seq(D)
           base == {a, Genesis}
           given == [h \in D |-> <<h>>]
           step == [z \in D \X V |-> <<z[1]>> \o z[2]]
           Is(f) == f = [h \in D |-> IF h \in base THEN <<h>> ELSE <<h>> \o f[P(h)]]
           down == CHOOSE f : Is(f)
<1>1. Descends(D, base, HeightOf, PrevOf)
  BY StoreDescends
<1>2. /\ \A d \in D \cap base : given[d] \in V
      /\ \A d \in D \ base, v \in V : step[<<d, v>>] \in V
      /\ V # {}
  <2>1. \A d \in D : <<d>> \in V
    OBVIOUS
  <2>2. \A d \in D, v \in V : <<d>> \o v \in V
    BY Prepend
  <2> HIDE DEF V
  <2> QED BY <2>1, <2>2
<1>3. PICK f \in [D -> V] : Computes(f, D, base, given, PrevOf, step)
  <2> HIDE DEF D, V, base, given, step
  <2> QED BY <1>1, <1>2, Recursive
<1>4. ASSUME NEW h \in D PROVE f[h] = IF h \in base THEN <<h>> ELSE <<h>> \o f[P(h)]
  <2>1. CASE h \in base
    <3> HIDE DEF base
    <3> QED BY <1>3, <2>1 DEF Computes
  <2>2. CASE h \notin base
    <3>1. P(h) \in D /\ PrevOf[h] = P(h)
      BY <2>2, StoreShape DEF PrevOf
    <3>2. f[P(h)] \in V
      BY <3>1
    <3> HIDE DEF base, V
    <3>3. f[h] = step[<<h, f[P(h)]>>]
      BY <1>3, <2>2, <3>1 DEF Computes
    <3> QED BY <2>2, <3>2, <3>3
  <2> QED BY <2>1, <2>2
<1> HIDE DEF base
<1>5. Is(f)
  BY <1>4
<1>6. Is(down)
  BY <1>5
<1>7. CollectBlocksFrom(start, a) = down[start]
  BY DEF CollectBlocksFrom, base, P
<1> HIDE DEF down
<1>8. \A h \in D : down[h] = IF h \in base THEN <<h>> ELSE <<h>> \o down[P(h)]
  BY <1>6
<1> DEFINE S == {h \in D : a \in Branch[h] => ChainDown(down[h], h, a)}
<1>9. ASSUME NEW h \in D, h = Genesis \/ P(h) \in S PROVE h \in S
  <2> SUFFICES ASSUME a \in Branch[h] PROVE ChainDown(down[h], h, a)
    OBVIOUS
  <2>0. h \in Branch[h] /\ H(h) \in Nat /\ H(a) \in Nat
    BY BranchDown, StoreShape
  <2>1. CASE h = a
    <3>1. down[h] = <<h>>
      BY <1>8, <2>1 DEF base
    <3> HIDE DEF D, V, S
    <3>2. <<h>> \in Seq(Branch[h]) /\ Len(<<h>>) = 1 /\ <<h>>[1] = h
      BY <2>0, Single
    <3>3. Len(<<h>>) = H(h) - H(a) + 1 /\ H(h) = H(h) + 1 - 1
      BY <2>0, <2>1, <3>2
    <3>4. \A i \in 1..Len(<<h>>) : H(<<h>>[i]) = H(h) + 1 - i
      BY <3>2, <3>3
    <3> QED BY <3>1, <3>2, <3>3, <3>4 DEF ChainDown
  <2>2. CASE h # a
    <3>1. h # Genesis
      BY <2>2, BranchDef
    <3>2. P(h) \in D /\ a \in Branch[P(h)] /\ Branch[P(h)] \subseteq Branch[h]
      BY <2>2, <3>1, BranchDef, StoreShape
    <3>3. H(P(h)) = H(h) - 1
      BY <3>1, StoreShape
    <3>4. down[h] = <<h>> \o down[P(h)]
      BY <1>8, <2>2, <3>1 DEF base
    <3> DEFINE c == down[P(h)]
    <3>5. ChainDown(c, P(h), a)
      BY <1>9, <3>1, <3>2
    <3> HIDE DEF c
    <3>6. c \in Seq(Branch[h]) /\ Len(c) \in Nat /\ Len(c) = H(h) - H(a)
      BY <2>0, <3>2, <3>3, <3>5 DEF ChainDown
    <3>7. /\ <<h>> \o c \in Seq(Branch[h]) /\ Len(<<h>> \o c) = Len(c) + 1
          /\ (<<h>> \o c)[1] = h
          /\ \A i \in 2..(Len(c) + 1) : (<<h>> \o c)[i] = c[i - 1]
      <4> DEFINE T == Branch[h]
      <4>1. h \in T /\ c \in Seq(T)
        BY <2>0, <3>6
      <4> HIDE DEF D, V, S, T
      <4>2. /\ <<h>> \o c \in Seq(T) /\ Len(<<h>> \o c) = Len(c) + 1
            /\ (<<h>> \o c)[1] = h
            /\ \A i \in 2..(Len(c) + 1) : (<<h>> \o c)[i] = c[i - 1]
        BY <4>1, Prepend
      <4> QED BY <4>2 DEF T
    <3> DEFINE e == <<h>> \o c
    <3> HIDE DEF D, V, S, e
    <3>8. ASSUME NEW i \in 1..(Len(c) + 1) PROVE H(e[i]) = H(h) + 1 - i
      <4>1. CASE i = 1
        <5>1. e[i] = h
          BY <3>7, <4>1 DEF e
        <5> QED BY <2>0, <4>1, <5>1
      <4>2. CASE i # 1
        <5>1. e[i] = c[i - 1] /\ i - 1 \in 1..Len(c)
          BY <3>6, <3>7, <4>2 DEF e
        <5>2. H(c[i - 1]) = H(P(h)) + 1 - (i - 1)
          BY <3>5, <5>1 DEF ChainDown
        <5> QED BY <2>0, <3>3, <5>1, <5>2
      <4> QED BY <4>1, <4>2
    <3>9. Len(<<h>> \o c) = H(h) - H(a) + 1
      BY <2>0, <3>6, <3>7
    <3> QED BY <3>4, <3>7, <3>8, <3>9 DEF ChainDown, c, e
  <2> QED BY <2>1, <2>2
<1>10. D \subseteq S
  <2> HIDE DEF S
  <2> QED BY <1>9, BlockInduction
<1> QED BY <1>7, <1>10

Links(c, h, a) ==
    /\ Len(c) \in Nat \ {0} /\ c[1] = h /\ c[Len(c)] = a
    /\ \A i \in 1..Len(c) : c[i] \in Branch[h] /\ c[i] \in DOMAIN blocks
    /\ \A i \in 1..(Len(c) - 1) : c[i] # Genesis /\ P(c[i]) = c[i + 1]

\* So it starts at the last block, ends at the ancestor, and goes from each block to the
\* previous one.
LEMMA ChainLinks ==
    ASSUME Store, NEW h \in DOMAIN blocks, NEW a \in Branch[h], NEW c, ChainDown(c, h, a)
    PROVE  Links(c, h, a)
<1>1. H(h) \in Nat /\ H(a) \in Nat /\ H(a) <= H(h) /\ h \in Branch[h] /\ Branch[h] \subseteq DOMAIN blocks
  BY BranchDown, StoreShape
<1>2. Len(c) = H(h) - H(a) + 1 /\ Len(c) \in Nat \ {0}
  BY <1>1 DEF ChainDown
<1>3. \A i \in 1..Len(c) : c[i] \in Branch[h] /\ H(c[i]) = H(h) + 1 - i
  BY <1>1 DEF ChainDown
<1>4. c[1] = h
  <2>1. c[1] \in Branch[h] /\ H(c[1]) = H(h)
    BY <1>1, <1>2, <1>3
  <2> QED BY <1>1, <2>1, BranchHeights
<1>5. c[Len(c)] = a
  <2>1. c[Len(c)] \in Branch[h] /\ H(c[Len(c)]) = H(a)
    BY <1>1, <1>2, <1>3
  <2> QED BY <2>1, BranchHeights
<1>6. ASSUME NEW i \in 1..(Len(c) - 1) PROVE c[i] # Genesis /\ P(c[i]) = c[i + 1]
  <2>1. i \in 1..Len(c) /\ i + 1 \in 1..Len(c)
    BY <1>2
  <2>2. c[i] \in Branch[h] /\ H(c[i]) = H(h) + 1 - i /\ c[i + 1] \in Branch[h] /\ H(c[i + 1]) = H(h) - i
    BY <1>1, <1>3, <2>1
  <2>3. H(c[i]) > 0
    BY <1>1, <1>2, <2>2
  <2>4. c[i] # Genesis
    BY <2>3, StoreShape
  <2>5. P(c[i]) \in Branch[h] /\ H(P(c[i])) = H(c[i]) - 1
    BY <1>1, <2>2, <2>4, BranchStep, StoreShape
  <2>6. H(P(c[i])) = H(c[i + 1])
    BY <1>1, <2>2, <2>5
  <2> QED BY <2>2, <2>4, <2>5, <2>6, BranchHeights
<1> QED BY <1>1, <1>2, <1>3, <1>4, <1>5, <1>6 DEF Links

\* Without its last element the chain is what the branch has above the ancestor.
LEMMA ChainFront ==
    ASSUME Store, NEW h \in DOMAIN blocks, NEW a \in Branch[h], NEW c, ChainDown(c, h, a)
    PROVE  /\ SX!Front(c) \in Seq(Branch[h]) /\ Len(SX!Front(c)) = Len(c) - 1
           /\ \A i \in 1..(Len(c) - 1) : SX!Front(c)[i] = c[i]
           /\ SX!ToSet(SX!Front(c)) = {b \in Branch[h] : H(b) > H(a)}
           /\ SX!ToSet(c) = {b \in Branch[h] : H(b) >= H(a)}
<1> DEFINE n == Len(c)
<1>1. n \in Nat \ {0} /\ c \in Seq(Branch[h]) /\ \A i \in 1..n : c[i] \in Branch[h]
  <2>1. Links(c, h, a)
    BY ChainLinks
  <2> QED BY <2>1 DEF ChainDown, Links
<1>2. SX!Front(c) = [i \in 1..(n - 1) |-> c[i]]
  BY <1>1 DEF SX!Front
<1>3. SX!Front(c) \in Seq(Branch[h]) /\ Len(SX!Front(c)) = n - 1 /\ DOMAIN SX!Front(c) = 1..(n - 1)
  BY <1>1, <1>2
<1>4. H(h) \in Nat /\ H(a) \in Nat /\ n = H(h) - H(a) + 1
      /\ \A b \in Branch[h] : H(b) \in Nat /\ H(b) <= H(h)
  BY BranchDown, StoreShape DEF ChainDown
<1>5. \A i \in 1..n : H(c[i]) = H(h) + 1 - i
  BY DEF ChainDown
<1>6. ASSUME NEW b \in Branch[h], H(b) >= H(a)
      PROVE  \E i \in 1..n : c[i] = b /\ i = H(h) + 1 - H(b)
  <2> DEFINE i == H(h) + 1 - H(b)
  <2>1. i \in 1..n
    BY <1>4, <1>6
  <2>2. H(c[i]) = H(b) /\ c[i] \in Branch[h]
    BY <1>1, <1>4, <1>5, <2>1
  <2>3. c[i] = b
    BY <2>2, BranchHeights
  <2> QED BY <2>1, <2>3
<1>7. SX!ToSet(c) = {b \in Branch[h] : H(b) >= H(a)}
  <2>1. DOMAIN c = 1..n
    BY <1>1
  <2>2. \A i \in 1..n : H(c[i]) >= H(a)
    BY <1>4, <1>5
  <2> QED BY <1>1, <1>6, <2>1, <2>2 DEF SX!ToSet
<1>8. SX!ToSet(SX!Front(c)) = {b \in Branch[h] : H(b) > H(a)}
  <2>1. \A i \in 1..(n - 1) : SX!Front(c)[i] = c[i] /\ c[i] \in Branch[h] /\ H(c[i]) > H(a)
    BY <1>1, <1>2, <1>4, <1>5
  <2>2. ASSUME NEW b \in Branch[h], H(b) > H(a)
        PROVE  \E i \in 1..(n - 1) : SX!Front(c)[i] = b
    <3>1. PICK i \in 1..n : c[i] = b /\ i = H(h) + 1 - H(b)
      BY <1>4, <1>6, <2>2
    <3>2. i \in 1..(n - 1)
      BY <1>4, <2>2, <3>1
    <3> QED BY <2>1, <3>1, <3>2
  <2>3. SX!ToSet(SX!Front(c)) = {SX!Front(c)[i] : i \in 1..(n - 1)}
    BY <1>3 DEF SX!ToSet
  <2> HIDE DEF n
  <2> QED BY <2>1, <2>2, <2>3
<1> QED BY <1>2, <1>3, <1>7, <1>8

-----------------------------------------------------------------------------
(* The loops of rollbackBlocks and applyNewBlocksReverseOrder, turn by turn. *)

UndoTurns(f, u, txs) ==
    /\ f[0] = u
    /\ \A i \in 1..Len(txs) :
          f[i] = (f[i - 1] \cup (Spends[txs[i]] \cap Created)) \ Creates[txs[i]]
    /\ UndoBlock(u, txs) = f[Len(txs)]

LEMMA UndoBlockSteps ==
    ASSUME NEW u, NEW txs \in Seq(Tx)
    PROVE  \E f \in [0..Len(txs) -> SUBSET (u \cup Created)] : UndoTurns(f, u, txs)
<1> DEFINE n == Len(txs)
           V == SUBSET (u \cup Created)
           step == [z \in (1..n) \X V |->
                        (z[2] \cup (Spends[txs[z[1]]] \cap Created)) \ Creates[txs[z[1]]]]
           Is(f) == f = [i \in 0..n |->
                            IF i = 0 THEN u
                            ELSE RemoveCreatedOutputs(RestoreSpentOutputs(f[i - 1], txs[i]), txs[i])]
           after == CHOOSE f : Is(f)
<1>1. n \in Nat /\ u \in V /\ \A i \in 1..n, v \in V : step[<<i, v>>] \in V
  OBVIOUS
<1>2. PICK f \in [0..n -> V] : Turns(f, n, u, step)
  <2> HIDE DEF n, V, step
  <2> QED BY <1>1, Loop
<1>3. \A i \in 1..n : i - 1 \in 0..n /\ i \in 0..n /\ f[i - 1] \in V
  BY <1>1, <1>2
<1>4. ASSUME NEW i \in 1..n
      PROVE  f[i] = (f[i - 1] \cup (Spends[txs[i]] \cap Created)) \ Creates[txs[i]]
  <2>1. i \in 0..n /\ i # 0 /\ f[i - 1] \in V
    BY <1>3
  <2>2. f[i] = step[<<i, f[i - 1]>>]
    <3> HIDE DEF step, V, n
    <3> QED BY <1>2, <2>1 DEF Turns
  <2> QED BY <2>1, <2>2
<1> HIDE DEF V
<1>5. Is(f)
  <2>1. ASSUME NEW i \in 0..n
        PROVE  f[i] = IF i = 0 THEN u
                      ELSE RemoveCreatedOutputs(RestoreSpentOutputs(f[i - 1], txs[i]), txs[i])
    <3>1. CASE i = 0
      BY <1>2, <3>1 DEF Turns
    <3>2. CASE i # 0
      <4>1. i \in 1..n
        BY <3>2
      <4> HIDE DEF n, step
      <4>2. f[i] = (f[i - 1] \cup (Spends[txs[i]] \cap Created)) \ Creates[txs[i]]
        BY <1>4, <4>1
      <4> QED BY <3>2, <4>2 DEF RemoveCreatedOutputs, RestoreSpentOutputs
    <3> QED BY <3>1, <3>2
  <2> HIDE DEF n
  <2> QED BY <2>1
<1> HIDE DEF n
<1>6. Is(after)
  BY <1>5
<1>7. UndoBlock(u, txs) = after[n]
  BY DEF UndoBlock, n
<1> HIDE DEF after
<1> DEFINE S == {i \in Nat : i <= n => after[i] = f[i]}
<1>8. 0 \in S
  <2>1. 0 \in 0..n
    BY <1>1
  <2> QED BY <1>5, <1>6, <2>1
<1>9. ASSUME NEW i \in Nat, i \in S PROVE i + 1 \in S
  <2> SUFFICES ASSUME i + 1 <= n PROVE after[i + 1] = f[i + 1]
    OBVIOUS
  <2>1. i + 1 \in 0..n /\ i + 1 # 0 /\ (i + 1) - 1 = i /\ after[i] = f[i]
    BY <1>1, <1>9
  <2>2. /\ f[i + 1] = RemoveCreatedOutputs(RestoreSpentOutputs(f[i], txs[i + 1]), txs[i + 1])
        /\ after[i + 1] = RemoveCreatedOutputs(RestoreSpentOutputs(after[i], txs[i + 1]), txs[i + 1])
    BY <1>5, <1>6, <2>1
  <2> QED BY <2>1, <2>2
<1>10. n \in S
  <2> HIDE DEF S
  <2> QED BY <1>1, <1>8, <1>9, Induction
<1>11. UndoBlock(u, txs) = f[n]
  BY <1>1, <1>7, <1>10
<1>12. f[0] = u
  BY <1>1, <1>2 DEF Turns
<1> QED BY <1>4, <1>11, <1>12 DEF V, n, UndoTurns

LEMMA RollbackSteps ==
    ASSUME Store, NEW u, NEW hs \in Seq(DOMAIN blocks)
    PROVE  \E f : /\ f[0] = u
                  /\ \A i \in 1..Len(hs) : f[i] = UndoBlock(f[i - 1], blocks[hs[i]].txs)
                  /\ Rollback(u, hs) = f[Len(hs)]
<1> DEFINE n == Len(hs)
           V == SUBSET (u \cup Created)
           step == [z \in (1..n) \X V |-> UndoBlock(z[2], blocks[hs[z[1]]].txs)]
           Is(f) == f = [i \in 0..n |-> IF i = 0 THEN u ELSE UndoBlock(f[i - 1], blocks[hs[i]].txs)]
           after == CHOOSE f : Is(f)
<1>1. n \in Nat /\ u \in V
  OBVIOUS
<1>2. ASSUME NEW i \in 1..n, NEW v \in V PROVE UndoBlock(v, blocks[hs[i]].txs) \in V
  <2>1. blocks[hs[i]].txs \in Seq(Tx) /\ Len(blocks[hs[i]].txs) \in Nat
    BY StoreShape
  <2>2. UndoBlock(v, blocks[hs[i]].txs) \in SUBSET (v \cup Created)
    BY <2>1, UndoBlockSteps DEF UndoTurns
  <2> QED BY <2>2
<1>3. \A i \in 1..n, v \in V : step[<<i, v>>] \in V
  BY <1>2
<1>4. PICK f \in [0..n -> V] : Turns(f, n, u, step)
  <2> HIDE DEF n, V, step
  <2> QED BY <1>1, <1>3, Loop
<1>5. ASSUME NEW i \in 0..n
      PROVE  f[i] = IF i = 0 THEN u ELSE UndoBlock(f[i - 1], blocks[hs[i]].txs)
  <2>1. CASE i = 0
    BY <1>4, <2>1 DEF Turns
  <2>2. CASE i # 0
    <3>1. i \in 1..n /\ i - 1 \in 0..n
      BY <1>1, <2>2
    <3>2. f[i - 1] \in V
      BY <1>4, <3>1
    <3> HIDE DEF V
    <3>3. f[i] = step[<<i, f[i - 1]>>]
      BY <1>4, <2>2 DEF Turns
    <3> QED BY <2>2, <3>1, <3>2, <3>3
  <2> QED BY <2>1, <2>2
<1> HIDE DEF n, V
<1>6. Is(f)
  BY <1>5
<1>7. Is(after)
  BY <1>6
<1>8. Rollback(u, hs) = after[n]
  BY DEF Rollback, n
<1> HIDE DEF after
<1>9. 0 \in 0..n /\ \A i \in 1..n : i \in 0..n /\ i # 0
  BY <1>1
<1>10. after[0] = u /\ \A i \in 1..n : after[i] = UndoBlock(after[i - 1], blocks[hs[i]].txs)
  BY <1>7, <1>9
<1> QED BY <1>8, <1>10 DEF n

LEMMA ApplySteps ==
    ASSUME Store, NEW u, NEW hs \in Seq(DOMAIN blocks)
    PROVE  \E f : /\ f[0] = u
                  /\ \A i \in 1..Len(hs) :
                        f[i] = UpdateUTXOSet(f[i - 1], blocks[hs[Len(hs) + 1 - i]].txs)
                  /\ ApplyNewBlocks(u, hs) = f[Len(hs)]
<1> DEFINE n == Len(hs)
           V == SUBSET (u \cup Created)
           step == [z \in (1..n) \X V |-> UpdateUTXOSet(z[2], blocks[hs[n + 1 - z[1]]].txs)]
           Is(f) == f = [i \in 0..n |-> IF i = 0 THEN u
                                        ELSE UpdateUTXOSet(f[i - 1], blocks[hs[n + 1 - i]].txs)]
           after == CHOOSE f : Is(f)
<1>1. n \in Nat /\ u \in V
  OBVIOUS
<1>2. ASSUME NEW i \in 1..n, NEW v \in V
      PROVE  UpdateUTXOSet(v, blocks[hs[n + 1 - i]].txs) \in V
  <2>1. n + 1 - i \in 1..n
    BY <1>1
  <2>2. hs[n + 1 - i] \in DOMAIN blocks
    BY <2>1
  <2>3. UpdateUTXOSet(v, blocks[hs[n + 1 - i]].txs) \subseteq v \cup Created
    BY <2>2, BlockCreates
  <2> QED BY <2>3
<1>3. \A i \in 1..n, v \in V : step[<<i, v>>] \in V
  BY <1>2
<1>4. PICK f \in [0..n -> V] : Turns(f, n, u, step)
  <2> HIDE DEF n, V, step
  <2> QED BY <1>1, <1>3, Loop
<1>5. ASSUME NEW i \in 0..n
      PROVE  f[i] = IF i = 0 THEN u ELSE UpdateUTXOSet(f[i - 1], blocks[hs[n + 1 - i]].txs)
  <2>1. CASE i = 0
    BY <1>4, <2>1 DEF Turns
  <2>2. CASE i # 0
    <3>1. i \in 1..n /\ i - 1 \in 0..n
      BY <1>1, <2>2
    <3>2. f[i - 1] \in V
      BY <1>4, <3>1
    <3> HIDE DEF V
    <3>3. f[i] = step[<<i, f[i - 1]>>]
      BY <1>4, <2>2 DEF Turns
    <3> QED BY <2>2, <3>1, <3>2, <3>3
  <2> QED BY <2>1, <2>2
<1> HIDE DEF n, V
<1>6. Is(f)
  BY <1>5
<1>7. Is(after)
  BY <1>6
<1>8. ApplyNewBlocks(u, hs) = after[n]
  BY DEF ApplyNewBlocks, n
<1> HIDE DEF after
<1>9. 0 \in 0..n /\ \A i \in 1..n : i \in 0..n /\ i # 0
  BY <1>1
<1>10. /\ after[0] = u
       /\ \A i \in 1..n : after[i] = UpdateUTXOSet(after[i - 1], blocks[hs[n + 1 - i]].txs)
  BY <1>7, <1>9
<1> QED BY <1>8, <1>10 DEF n

-----------------------------------------------------------------------------
(* Rollback and replay.                                                     *)

\* The inputs and the outputs of the first transactions of a block.
InputsUpTo(txs, k) == UNION {Spends[txs[i]] : i \in 1..k}
OutputsUpTo(txs, k) == UNION {Creates[txs[i]] : i \in 1..k}

LEMMA UpToNext ==
    ASSUME NEW txs, NEW k \in Nat
    PROVE  /\ InputsUpTo(txs, k + 1) = InputsUpTo(txs, k) \cup Spends[txs[k + 1]]
           /\ OutputsUpTo(txs, k + 1) = OutputsUpTo(txs, k) \cup Creates[txs[k + 1]]
<1>1. 1..(k + 1) = (1..k) \cup {k + 1}
  OBVIOUS
<1> QED BY <1>1 DEF InputsUpTo, OutputsUpTo

LEMMA UpToNone ==
    ASSUME NEW txs
    PROVE  InputsUpTo(txs, 0) = {} /\ OutputsUpTo(txs, 0) = {}
<1>1. 1..0 = {}
  OBVIOUS
<1> QED BY <1>1 DEF InputsUpTo, OutputsUpTo

\* What is left of a UTXO set when a block is taken back: no output of the block but what the
\* block spent itself, all its inputs but what it created itself, and the rest as it was.
LEMMA UndoBlockBounds ==
    ASSUME NEW u, NEW txs \in Seq(Tx)
    PROVE  /\ UndoBlock(u, txs) \subseteq (u \ OutputsOf(txs)) \cup (InputsOf(txs) \cap Created)
           /\ (u \cup (InputsOf(txs) \cap Created)) \ OutputsOf(txs) \subseteq UndoBlock(u, txs)
<1> DEFINE n == Len(txs)
<1>1. n \in Nat /\ DOMAIN txs = 1..n
  OBVIOUS
<1>2. PICK f \in [0..n -> SUBSET (u \cup Created)] : UndoTurns(f, u, txs)
  BY UndoBlockSteps
<1>3. InputsOf(txs) = InputsUpTo(txs, n) /\ OutputsOf(txs) = OutputsUpTo(txs, n)
  BY <1>1 DEF InputsOf, OutputsOf, InputsUpTo, OutputsUpTo
<1> DEFINE Done(i) ==
              /\ f[i] \subseteq (u \ OutputsUpTo(txs, i)) \cup (InputsUpTo(txs, i) \cap Created)
              /\ (u \cup (InputsUpTo(txs, i) \cap Created)) \ OutputsUpTo(txs, i) \subseteq f[i]
           S == {i \in Nat : i <= n => Done(i)}
<1>4. 0 \in S
  <2>1. Done(0)
    BY <1>2, UpToNone DEF UndoTurns
  <2> QED BY <2>1
<1>5. ASSUME NEW i \in Nat, i \in S PROVE i + 1 \in S
  <2> SUFFICES ASSUME i + 1 <= n PROVE Done(i + 1)
    OBVIOUS
  <2>1. Done(i) /\ i + 1 \in 1..n /\ (i + 1) - 1 = i
    BY <1>1, <1>5
  <2>2. f[i + 1] = (f[i] \cup (Spends[txs[i + 1]] \cap Created)) \ Creates[txs[i + 1]]
    BY <1>2, <2>1 DEF UndoTurns
  <2> DEFINE I == InputsUpTo(txs, i)
             O == OutputsUpTo(txs, i)
             s == Spends[txs[i + 1]]
             c == Creates[txs[i + 1]]
  <2>3. InputsUpTo(txs, i + 1) = I \cup s /\ OutputsUpTo(txs, i + 1) = O \cup c
    BY UpToNext
  <2>4. f[i] \subseteq (u \ O) \cup (I \cap Created) /\ (u \cup (I \cap Created)) \ O \subseteq f[i]
    BY <2>1
  <2> HIDE DEF n, I, O, s, c
  <2>5. (f[i] \cup (s \cap Created)) \ c \subseteq (u \ (O \cup c)) \cup ((I \cup s) \cap Created)
    BY <2>4
  <2>6. (u \cup ((I \cup s) \cap Created)) \ (O \cup c) \subseteq (f[i] \cup (s \cap Created)) \ c
    BY <2>4
  <2>7. f[i + 1] = (f[i] \cup (s \cap Created)) \ c
    BY <2>2 DEF s, c
  <2> QED BY <2>3, <2>5, <2>6, <2>7
<1>6. n \in S
  <2> HIDE DEF S
  <2> QED BY <1>1, <1>4, <1>5, Induction
<1> QED BY <1>1, <1>2, <1>3, <1>6 DEF UndoTurns

\* u has nothing that v has not but some of extra, and lacks nothing of v but some of missing.
Near(u, v, extra, missing) == u \subseteq v \cup extra /\ v \ missing \subseteq u

\* What block b spent without its being there is in extra, what it created although it was there
\* is in missing.
Covered(b, extra, missing) ==
    /\ InputsOf(blocks[b].txs) \ BranchUTXOs[P(b)] \subseteq extra
    /\ OutputsOf(blocks[b].txs) \cap BranchUTXOs[P(b)] \subseteq missing

\* What a block did to a UTXO set its rollback takes back, but for outpoints that it created
\* although they were there and outpoints that it spent although they were not.
LEMMA UndoUpdate ==
    ASSUME Store, NEW b \in DOMAIN blocks, b # Genesis, NEW extra, NEW missing,
           Covered(b, extra, missing), NEW u, Near(u, BranchUTXOs[b], extra, missing)
    PROVE  Near(UndoBlock(u, blocks[b].txs), BranchUTXOs[P(b)], extra, missing)
<1> DEFINE txs == blocks[b].txs
           before == BranchUTXOs[P(b)]
           I == InputsOf(txs)
           O == OutputsOf(txs)
           after == UpdateUTXOSet(before, txs)
           undone == UndoBlock(u, txs)
<1>1. txs \in Seq(Tx)
  BY StoreShape
<1>2. after \subseteq (before \ I) \cup O /\ before \ I \subseteq after
  BY DEF UpdateUTXOSet
<1>3. /\ undone \subseteq (u \ O) \cup (I \cap Created)
      /\ (u \cup (I \cap Created)) \ O \subseteq undone
  <2> HIDE DEF txs
  <2> QED BY <1>1, UndoBlockBounds
<1>4. /\ I \ before \subseteq extra /\ O \cap before \subseteq missing
      /\ u \subseteq after \cup extra /\ after \ missing \subseteq u
  BY BranchUTXOsDef DEF Covered, Near
<1>5. before \subseteq Created
  <2>1. P(b) \in DOMAIN blocks
    BY StoreShape
  <2> QED BY <2>1, BranchUTXOsDef
<1> HIDE DEF before, I, O, after, undone
<1>6. undone \subseteq before \cup extra /\ before \ missing \subseteq undone
  BY <1>2, <1>3, <1>4, <1>5
<1> QED BY <1>6 DEF undone, before, Near

LEMMA RollsBack ==
    ASSUME Store, NEW old \in DOMAIN blocks,
           NEW a \in Branch[old], NEW c, ChainDown(c, old, a), NEW extra, NEW missing,
           \A b \in Branch[old] : H(b) > H(a) => Covered(b, extra, missing)
    PROVE  Near(Rollback(BranchUTXOs[old], SX!Front(c)), BranchUTXOs[a], extra, missing)
<1> DEFINE n == Len(c)
           hs == SX!Front(c)
<1>1. /\ n \in Nat \ {0} /\ c[1] = old /\ c[n] = a
      /\ \A i \in 1..n : c[i] \in Branch[old] /\ c[i] \in DOMAIN blocks
      /\ \A i \in 1..(n - 1) : c[i] # Genesis /\ P(c[i]) = c[i + 1]
  <2>1. Links(c, old, a)
    BY ChainLinks
  <2> QED BY <2>1 DEF Links
<1>2. hs \in Seq(DOMAIN blocks) /\ Len(hs) = n - 1 /\ \A i \in 1..(n - 1) : hs[i] = c[i]
  BY ChainFront, BranchDown
<1>3. \A i \in 1..(n - 1) : H(c[i]) > H(a)
  <2>1. \A i \in 1..Len(c) : H(c[i]) = H(old) + 1 - i
    BY DEF ChainDown
  <2>2. n = H(old) - H(a) + 1 /\ H(old) \in Nat /\ H(a) \in Nat
    BY BranchDown, StoreShape DEF ChainDown
  <2> QED BY <2>1, <2>2
<1> HIDE DEF hs
<1>4. PICK f : /\ f[0] = BranchUTXOs[old]
               /\ \A i \in 1..Len(hs) : f[i] = UndoBlock(f[i - 1], blocks[hs[i]].txs)
               /\ Rollback(BranchUTXOs[old], hs) = f[Len(hs)]
  BY <1>2, RollbackSteps
<1> HIDE DEF n
<1> DEFINE Reached(i) == Near(f[i], BranchUTXOs[c[i + 1]], extra, missing)
           S == {i \in Nat : i <= n - 1 => Reached(i)}
<1>5. 0 \in S
  BY <1>1, <1>4 DEF Near
<1>6. ASSUME NEW i \in Nat, i \in S PROVE i + 1 \in S
  <2> SUFFICES ASSUME i + 1 <= n - 1 PROVE Reached(i + 1)
    OBVIOUS
  <2> DEFINE b == c[i + 1]
  <2>1. /\ i + 1 \in 1..(n - 1) /\ i + 1 \in 1..n /\ (i + 1) - 1 = i
        /\ Near(f[i], BranchUTXOs[b], extra, missing)
    BY <1>1, <1>6
  <2>2. b \in Branch[old] /\ b \in DOMAIN blocks /\ b # Genesis /\ P(b) = c[(i + 1) + 1] /\ H(b) > H(a)
    BY <1>1, <1>3, <2>1
  <2>3. hs[i + 1] = b
    BY <1>2, <2>1
  <2> HIDE DEF b
  <2>4. f[i + 1] = UndoBlock(f[i], blocks[b].txs)
    BY <1>2, <1>4, <2>1, <2>3
  <2>5. Covered(b, extra, missing)
    BY <2>2
  <2>6. Near(UndoBlock(f[i], blocks[b].txs), BranchUTXOs[P(b)], extra, missing)
    BY <2>1, <2>2, <2>5, UndoUpdate
  <2> QED BY <2>2, <2>4, <2>6
<1>7. n - 1 \in Nat /\ n - 1 \in S
  <2> HIDE DEF S
  <2>1. Nat \subseteq S
    BY <1>5, <1>6, Induction
  <2> QED BY <1>1, <2>1
<1>8. Near(f[n - 1], BranchUTXOs[c[n]], extra, missing)
  BY <1>1, <1>7
<1> QED BY <1>1, <1>2, <1>4, <1>8 DEF hs

\* A block does the same to two UTXO sets, so what is in one of them only stays all they
\* differ in.
LEMMA UpdateNear ==
    ASSUME NEW u, NEW v, NEW extra, NEW missing, NEW txs, Near(u, v, extra, missing)
    PROVE  Near(UpdateUTXOSet(u, txs), UpdateUTXOSet(v, txs), extra, missing)
<1> DEFINE I == InputsOf(txs)
           K == {o \in OutputsOf(txs) :
                    \E i \in DOMAIN txs :
                        /\ o \in Creates[txs[i]]
                        /\ \A j \in DOMAIN txs : j > i => o \notin Spends[txs[j]]}
<1>1. UpdateUTXOSet(u, txs) = (u \ I) \cup K /\ UpdateUTXOSet(v, txs) = (v \ I) \cup K
  BY DEF UpdateUTXOSet
<1>2. u \subseteq v \cup extra /\ v \ missing \subseteq u
  BY DEF Near
<1> HIDE DEF I, K
<1>3. (u \ I) \cup K \subseteq ((v \ I) \cup K) \cup extra
  BY <1>2
<1>4. ((v \ I) \cup K) \ missing \subseteq (u \ I) \cup K
  BY <1>2
<1> QED BY <1>1, <1>3, <1>4 DEF Near

LEMMA Applies ==
    ASSUME Store, NEW new \in DOMAIN blocks, NEW a \in Branch[new], NEW c, ChainDown(c, new, a),
           NEW extra, NEW missing, NEW u, Near(u, BranchUTXOs[a], extra, missing)
    PROVE  Near(ApplyNewBlocks(u, SX!Front(c)), BranchUTXOs[new], extra, missing)
<1> DEFINE n == Len(c)
           hs == SX!Front(c)
<1>1. /\ n \in Nat \ {0} /\ c[1] = new /\ c[n] = a
      /\ \A i \in 1..n : c[i] \in Branch[new] /\ c[i] \in DOMAIN blocks
      /\ \A i \in 1..(n - 1) : c[i] # Genesis /\ P(c[i]) = c[i + 1]
  <2>1. Links(c, new, a)
    BY ChainLinks
  <2> QED BY <2>1 DEF Links
<1>2. hs \in Seq(DOMAIN blocks) /\ Len(hs) = n - 1 /\ \A i \in 1..(n - 1) : hs[i] = c[i]
  BY ChainFront, BranchDown
<1> HIDE DEF hs
<1>3. PICK f : /\ f[0] = u
               /\ \A i \in 1..Len(hs) :
                    f[i] = UpdateUTXOSet(f[i - 1], blocks[hs[Len(hs) + 1 - i]].txs)
               /\ ApplyNewBlocks(u, hs) = f[Len(hs)]
  BY <1>2, ApplySteps
<1> HIDE DEF n
<1>4. \A i \in 1..(n - 1) : f[i] = UpdateUTXOSet(f[i - 1], blocks[hs[n - i]].txs)
  <2>1. \A i \in 1..(n - 1) : (n - 1) + 1 - i = n - i
    BY <1>1
  <2> QED BY <1>2, <1>3, <2>1
<1> DEFINE Reached(i) == Near(f[i], BranchUTXOs[c[n - i]], extra, missing)
           S == {i \in Nat : i <= n - 1 => Reached(i)}
<1>5. 0 \in S
  BY <1>1, <1>3
<1>6. ASSUME NEW i \in Nat, i \in S PROVE i + 1 \in S
  <2> SUFFICES ASSUME i + 1 <= n - 1 PROVE Reached(i + 1)
    OBVIOUS
  <2> DEFINE k == n - (i + 1)
             b == c[k]
  <2>1. /\ i + 1 \in 1..(n - 1) /\ (i + 1) - 1 = i /\ Reached(i)
        /\ k \in 1..(n - 1) /\ k \in 1..n /\ k + 1 = n - i
    BY <1>1, <1>6
  <2>2. b \in DOMAIN blocks /\ b # Genesis /\ P(b) = c[n - i] /\ hs[k] = b
    BY <1>1, <1>2, <2>1
  <2>3. f[i + 1] = UpdateUTXOSet(f[i], blocks[hs[k]].txs)
    BY <1>4, <2>1
  <2> HIDE DEF k, b
  <2>4. BranchUTXOs[b] = UpdateUTXOSet(BranchUTXOs[P(b)], blocks[b].txs)
    BY <2>2, BranchUTXOsDef
  <2>5. Near(UpdateUTXOSet(f[i], blocks[b].txs), BranchUTXOs[b], extra, missing)
    BY <2>1, <2>2, <2>4, UpdateNear
  <2>6. Near(f[i + 1], BranchUTXOs[b], extra, missing)
    BY <2>2, <2>3, <2>5
  <2> QED BY <2>6 DEF b, k
<1>7. n - 1 \in Nat /\ n - 1 \in S
  <2> HIDE DEF S
  <2>1. Nat \subseteq S
    BY <1>5, <1>6, Induction
  <2> QED BY <1>1, <2>1
<1>8. n - (n - 1) = 1 /\ Reached(n - 1)
  BY <1>1, <1>7
<1> QED BY <1>1, <1>2, <1>3, <1>8 DEF hs

-----------------------------------------------------------------------------
(* The height index and the payments that are handed back.                  *)

\* The index of a branch names the one block of each height.
LEMMA BranchIndexIs ==
    ASSUME Store, NEW h \in DOMAIN blocks, NEW b \in Branch[h]
    PROVE  H(b) \in 0..H(h) /\ BranchIndex(h)[H(b)] = b
<1>1. H(b) \in 0..H(h)
  BY BranchDown, StoreShape
<1> DEFINE e == CHOOSE x \in Branch[h] : H(x) = H(b)
<1>2. e \in Branch[h] /\ H(e) = H(b)
  OBVIOUS
<1>3. BranchIndex(h)[H(b)] = e
  BY <1>1 DEF BranchIndex, H
<1> HIDE DEF e
<1> QED BY <1>1, <1>2, <1>3, BranchHeights

\* The heights of the blocks of a branch above one of them.
LEMMA HeightsAbove ==
    ASSUME Store, NEW h \in DOMAIN blocks, NEW a \in Branch[h]
    PROVE  HeightsOf({b \in Branch[h] : H(b) > H(a)}) = {k \in 0..H(h) : k > H(a)}
<1>1. \A b \in Branch[h] : H(b) \in 0..H(h)
  BY BranchDown, StoreShape
<1>2. \A k \in 0..H(h) : \E b \in Branch[h] : H(b) = k
  BY BranchHeights
<1>3. HeightsOf({b \in Branch[h] : H(b) > H(a)}) = {H(b) : b \in {x \in Branch[h] : H(x) > H(a)}}
  BY DEF HeightsOf, H
<1> QED BY <1>1, <1>2, <1>3

\* The index after the reorganisation, where over is what was put in.
NewIndex(heights, goneAt, comeAt, over) ==
    [k \in (DOMAIN heights \ goneAt) \cup comeAt |->
        IF k \in comeAt THEN CHOOSE h \in over : blocks[h].height = k ELSE heights[k]]

LEMMA Reindexes ==
    ASSUME Store, NEW old \in DOMAIN blocks, NEW new \in DOMAIN blocks,
           NEW a \in Branch[old] \cap Branch[new],
           NEW gone, gone = {b \in Branch[old] : H(b) > H(a)},
           NEW come, come = {b \in Branch[new] : H(b) > H(a)}
    PROVE  NewIndex(BranchIndex(old), HeightsOf(gone), HeightsOf(come), come) = BranchIndex(new)
<1>1. H(old) \in Nat /\ H(new) \in Nat /\ H(a) \in Nat /\ H(a) <= H(old) /\ H(a) <= H(new)
      /\ a \in DOMAIN blocks
  BY BranchDown, StoreShape
<1>2. HeightsOf(gone) = {k \in 0..H(old) : k > H(a)} /\ HeightsOf(come) = {k \in 0..H(new) : k > H(a)}
  BY HeightsAbove
<1>3. DOMAIN BranchIndex(old) = 0..H(old) /\ DOMAIN BranchIndex(new) = 0..H(new)
  BY DEF BranchIndex, H
<1>4. (DOMAIN BranchIndex(old) \ HeightsOf(gone)) \cup HeightsOf(come) = 0..H(new)
  BY <1>1, <1>2, <1>3
<1>5. ASSUME NEW k \in 0..H(new)
      PROVE  BranchIndex(new)[k] = IF k \in HeightsOf(come)
                                   THEN CHOOSE h \in come : blocks[h].height = k
                                   ELSE BranchIndex(old)[k]
  <2>1. PICK b \in Branch[new] : H(b) = k
    BY BranchHeights
  <2>2. BranchIndex(new)[k] = b
    BY <2>1, BranchIndexIs
  <2>3. CASE k \in HeightsOf(come)
    <3> DEFINE e == CHOOSE h \in come : blocks[h].height = k
    <3>1. b \in come /\ blocks[b].height = k
      BY <1>2, <2>1, <2>3 DEF H
    <3>2. e \in come /\ blocks[e].height = k
      BY <3>1
    <3> HIDE DEF e
    <3>3. e \in Branch[new] /\ H(e) = H(b)
      BY <2>1, <3>2 DEF H
    <3>4. e = b
      BY <3>3, BranchHeights
    <3> QED BY <2>2, <2>3, <3>4 DEF e
  <2>4. CASE k \notin HeightsOf(come)
    <3>1. H(b) <= H(a)
      BY <1>1, <1>2, <2>1, <2>4
    <3>2. b \in Branch[a] /\ Branch[a] \subseteq Branch[old]
      BY <3>1, BranchPrefix, BranchDown
    <3>3. BranchIndex(old)[k] = b
      BY <2>1, <3>2, BranchIndexIs
    <3> QED BY <2>2, <2>4, <3>3
  <2> QED BY <2>3, <2>4
<1>6. BranchIndex(new) = [k \in 0..H(new) |-> BranchIndex(new)[k]]
  BY DEF BranchIndex, H
<1> HIDE DEF BranchIndex
<1>7. BranchIndex(new) = [k \in 0..H(new) |->
            IF k \in HeightsOf(come) THEN CHOOSE h \in come : blocks[h].height = k
            ELSE BranchIndex(old)[k]]
  BY <1>5, <1>6
<1> QED BY <1>4, <1>7 DEF NewIndex

LEMMA TxsOfUnion ==
    ASSUME NEW S, NEW t
    PROVE  t \in TxsOf(S) <=> \E b \in S : t \in TxsOf({b})
  BY DEF TxsOf

Restored(gone, newer) == {t \in TxsOf(gone) \ TxsOf(newer) : Spends[t] # {}}
PaidAgain(gone) == UNION {PaymentsOf({b}) \cap PaymentsOf(Branch[P(b)]) : b \in gone}

\* Going back from old to a and on to new hands back the payments on old only, but for those that
\* a block taken back had a second time.
LEMMA HandsBack ==
    ASSUME Store, NEW old \in DOMAIN blocks, NEW new \in DOMAIN blocks,
           NEW a \in Branch[old] \cap Branch[new],
           NEW gone, gone = {b \in Branch[old] : H(b) > H(a)},
           NEW newer, newer = {b \in Branch[new] : H(b) >= H(a)}
    PROVE  /\ PaymentsOf(Branch[old]) \ PaymentsOf(Branch[new]) \subseteq Restored(gone, newer)
           /\ Restored(gone, newer) \subseteq (PaymentsOf(Branch[old]) \ PaymentsOf(Branch[new])) \cup PaidAgain(gone)
<1>0. /\ a \in DOMAIN blocks /\ Branch[old] \subseteq DOMAIN blocks /\ Branch[new] \subseteq DOMAIN blocks
      /\ Branch[a] \subseteq Branch[old] /\ Branch[a] \subseteq Branch[new]
      /\ \A b \in DOMAIN blocks : H(b) \in Nat
  BY BranchDown, StoreShape
<1>1. ASSUME NEW t \in TxsOf(gone) \ TxsOf(newer), Spends[t] # {}, t \notin PaidAgain(gone)
      PROVE  t \in PaymentsOf(Branch[old]) \ PaymentsOf(Branch[new])
  <2>1. PICK b \in gone : t \in TxsOf({b})
    BY <1>1, TxsOfUnion
  <2>2. b \in Branch[old] /\ H(b) > H(a) /\ b # Genesis
    <3>1. b \in Branch[old] /\ H(b) > H(a)
      BY <2>1
    <3>2. H(a) >= 0 /\ H(Genesis) = 0 /\ H(a) \in Nat
      BY <1>0, StoreShape
    <3> QED BY <3>1, <3>2
  <2>3. t \in TxsOf(Branch[old])
    BY <2>1, <2>2, TxsOfUnion
  <2>4. ASSUME t \in TxsOf(Branch[new]) PROVE FALSE
    <3>1. PICK e \in Branch[new] : t \in TxsOf({e})
      BY <2>4, TxsOfUnion
    <3>2. e \notin newer
      BY <1>1, <3>1, TxsOfUnion
    <3>3. H(e) < H(a) /\ e \in DOMAIN blocks
      BY <1>0, <3>1, <3>2
    <3>4. e \in Branch[old]
      <4>1. e \in Branch[a]
        BY <1>0, <3>1, <3>3, BranchPrefix
      <4> QED BY <1>0, <4>1
    <3>5. P(b) \in Branch[old] /\ H(P(b)) = H(b) - 1
      BY <1>0, <2>2, BranchStep, StoreShape
    <3>6. H(e) <= H(P(b))
      BY <1>0, <2>2, <3>3, <3>5
    <3>7. e \in Branch[P(b)]
      BY <3>4, <3>5, <3>6, BranchPrefix
    <3>8. t \in PaymentsOf({b}) /\ t \in PaymentsOf(Branch[P(b)])
      BY <1>1, <2>1, <3>1, <3>7, TxsOfUnion DEF PaymentsOf
    <3>9. PaymentsOf({b}) \cap PaymentsOf(Branch[P(b)]) \subseteq PaidAgain(gone)
      BY <2>1 DEF PaidAgain
    <3> QED BY <1>1, <3>8, <3>9
  <2> QED BY <1>1, <2>3, <2>4 DEF PaymentsOf
<1>2. ASSUME NEW t \in PaymentsOf(Branch[old]) \ PaymentsOf(Branch[new])
      PROVE  t \in TxsOf(gone) \ TxsOf(newer) /\ Spends[t] # {}
  <2>1. t \in TxsOf(Branch[old]) /\ t \notin TxsOf(Branch[new]) /\ Spends[t] # {}
    BY <1>2 DEF PaymentsOf
  <2>2. PICK b \in Branch[old] : t \in TxsOf({b})
    BY <2>1, TxsOfUnion
  <2>3. b \notin Branch[new]
    BY <2>1, <2>2, TxsOfUnion
  <2>4. ~(H(b) <= H(a))
    BY <1>0, <2>3, BranchPrefix
  <2>5. b \in gone
    BY <1>0, <2>4
  <2>6. t \in TxsOf(gone)
    BY <2>2, <2>5, TxsOfUnion
  <2>7. ASSUME t \in TxsOf(newer) PROVE FALSE
    <3>1. PICK e \in newer : t \in TxsOf({e})
      BY <2>7, TxsOfUnion
    <3>2. e \in Branch[new]
      OBVIOUS
    <3> QED BY <2>1, <3>1, <3>2, TxsOfUnion
  <2> QED BY <2>1, <2>6, <2>7
<1> QED BY <1>1, <1>2 DEF Restored

-----------------------------------------------------------------------------
\* In every tree of blocks ReorganizeChain makes of the UTXO set and the height index of one
\* branch those of any other, however far down the two part and whether or not that is within
\* the depth limit, and hands back the payments that the other branch lacks, but for what
\* ReorgSwitches names.
LEMMA StoreReorganizes == Store => ReorgSwitches
<1> SUFFICES ASSUME Store, NEW old \in DOMAIN blocks, NEW new \in DOMAIN blocks
             PROVE  LET after == ReorganizeChain(BranchUTXOs[old], BranchIndex(old), old, new)
                        gone == Branch[old] \ Branch[FindForkPoint(old, new)]
                        unspent(b) == BranchUTXOs[blocks[b].prev]
                        earnedAgain == UNION {OutputsOf(blocks[b].txs) \cap unspent(b) : b \in gone}
                        notUnspent == UNION {InputsOf(blocks[b].txs) \ unspent(b) : b \in gone}
                        paidAgain == UNION {PaymentsOf({b}) \cap PaymentsOf(Branch[blocks[b].prev])
                                                : b \in gone}
                        oldOnly == PaymentsOf(Branch[old]) \ PaymentsOf(Branch[new])
                    IN  /\ after.index = BranchIndex(new)
                        /\ BranchUTXOs[new] \ earnedAgain \subseteq after.utxos
                        /\ after.utxos \subseteq BranchUTXOs[new] \cup notUnspent
                        /\ oldOnly \subseteq after.restored
                        /\ after.restored \subseteq oldOnly \cup paidAgain
  BY DEF ReorgSwitches
<1> DEFINE a == FindForkPoint(old, new)
           c == CollectBlocksFrom(old, a)
           d == CollectBlocksFrom(new, a)
           gone == SX!ToSet(SX!Front(c))
           come == SX!ToSet(SX!Front(d))
           over == Branch[old] \ Branch[a]
           earnedAgain == UNION {OutputsOf(blocks[b].txs) \cap BranchUTXOs[P(b)] : b \in over}
           notUnspent == UNION {InputsOf(blocks[b].txs) \ BranchUTXOs[P(b)] : b \in over}
           oldOnly == PaymentsOf(Branch[old]) \ PaymentsOf(Branch[new])
           rolled == Rollback(BranchUTXOs[old], SX!Front(c))
           applied == ApplyNewBlocks(rolled, SX!Front(d))
           restored == Restored(gone, SX!ToSet(d))
<1>1. a \in Branch[old] \cap Branch[new] /\ a \in DOMAIN blocks
  BY ForkPoint, BranchDown
<1>2. ChainDown(c, old, a) /\ ChainDown(d, new, a)
  BY <1>1, Collects
<1>3. /\ gone = {b \in Branch[old] : H(b) > H(a)} /\ come = {b \in Branch[new] : H(b) > H(a)}
      /\ SX!ToSet(d) = {b \in Branch[new] : H(b) >= H(a)}
  <2> HIDE DEF a, c, d
  <2> QED BY <1>1, <1>2, ChainFront
<1> HIDE DEF a, c, d, gone, come, rolled, applied, restored
<1>4. over = {b \in Branch[old] : H(b) > H(a)}
  <2>1. \A b \in Branch[a] : H(b) <= H(a)
    BY <1>1, BranchDown
  <2>2. \A b \in Branch[old] : H(b) <= H(a) => b \in Branch[a]
    BY <1>1, BranchPrefix
  <2>3. \A b \in Branch[old] : H(b) \in Nat /\ H(a) \in Nat
    BY <1>1, BranchDown, StoreShape
  <2> QED BY <2>1, <2>2, <2>3
<1>5. \A b \in Branch[old] : H(b) > H(a) => Covered(b, notUnspent, earnedAgain)
  <2>1. \A b \in over : Covered(b, notUnspent, earnedAgain)
    BY DEF Covered
  <2> QED BY <1>4, <2>1
<1> HIDE DEF earnedAgain, notUnspent
<1>6. Near(rolled, BranchUTXOs[a], notUnspent, earnedAgain)
  <2>1. a \in Branch[old] /\ ChainDown(c, old, a)
    BY <1>1, <1>2
  <2> QED BY <1>5, <2>1, RollsBack DEF rolled
<1>7. Near(applied, BranchUTXOs[new], notUnspent, earnedAgain)
  <2>1. a \in Branch[new] /\ ChainDown(d, new, a)
    BY <1>1, <1>2
  <2> QED BY <1>6, <2>1, Applies DEF applied
<1>8. NewIndex(BranchIndex(old), HeightsOf(gone), HeightsOf(come), come) = BranchIndex(new)
  BY <1>1, <1>3, Reindexes
<1>9. oldOnly \subseteq restored /\ restored \subseteq oldOnly \cup PaidAgain(over)
  <2>1. gone = over
    BY <1>3, <1>4
  <2> DEFINE newer == SX!ToSet(d)
  <2>2. gone = {b \in Branch[old] : H(b) > H(a)} /\ newer = {b \in Branch[new] : H(b) >= H(a)}
    BY <1>3
  <2> HIDE DEF newer, over
  <2>3. /\ PaymentsOf(Branch[old]) \ PaymentsOf(Branch[new]) \subseteq Restored(gone, newer)
        /\ Restored(gone, newer) \subseteq
                (PaymentsOf(Branch[old]) \ PaymentsOf(Branch[new])) \cup PaidAgain(gone)
    BY <1>1, <2>2, HandsBack
  <2> QED BY <2>1, <2>3 DEF restored, newer
<1> HIDE DEF over
<1>10. ReorganizeChain(BranchUTXOs[old], BranchIndex(old), old, new) =
        [utxos |-> applied,
         index |-> NewIndex(BranchIndex(old), HeightsOf(gone), HeightsOf(come), come),
         restored |-> restored]
  BY DEF ReorganizeChain, NewIndex, applied, rolled, restored, Restored, gone, come, a, c, d
<1> HIDE DEF oldOnly
<1>11. LET after == ReorganizeChain(BranchUTXOs[old], BranchIndex(old), old, new)
       IN  /\ after.index = BranchIndex(new)
           /\ BranchUTXOs[new] \ earnedAgain \subseteq after.utxos
           /\ after.utxos \subseteq BranchUTXOs[new] \cup notUnspent
           /\ oldOnly \subseteq after.restored
           /\ after.restored \subseteq oldOnly \cup PaidAgain(over)
  BY <1>7, <1>8, <1>9, <1>10 DEF Near
<1> QED BY <1>11 DEF earnedAgain, notUnspent, PaidAgain, oldOnly, over, a, P

\* In every state the node can reach, whatever its goroutines, kills and failed commits stored,
\* ReorganizeChain would turn one branch into any other but for what ReorgSwitches names, since
\* the stored blocks always form a tree.
THEOREM ReorganizesEverywhere == Spec => []ReorgSwitches
<1>1. TypeOK /\ StoreConnected => ReorgSwitches
  BY StoreReorganizes DEF Store
<1> QED BY <1>1, TypeCorrect, StoreStaysConnected, PTL

-----------------------------------------------------------------------------
(* A store without forks. Branches and their UTXO sets are compared before  *)
(* and after a step, so what was shown of them is stated of a next state.   *)

BranchesDefined ==
    /\ Branch \in [DOMAIN blocks -> SUBSET DOMAIN blocks]
    /\ \A h \in DOMAIN blocks :
            Branch[h] = IF h = Genesis THEN {h} ELSE {h} \cup Branch[P(h)]
    /\ \A h \in DOMAIN blocks :
            BranchUTXOs[h] = IF h = Genesis THEN Creates[GenesisTx]
                             ELSE UpdateUTXOSet(BranchUTXOs[P(h)], blocks[h].txs)

LEMMA DefinedNow == Store => BranchesDefined
  BY BranchDef, BranchUTXOsDef DEF BranchesDefined

LEMMA DefinedNext == Store' => BranchesDefined'
  BY DefinedNow, PTL

\* One more block: the branches of the blocks that were there and their UTXO sets stay.
LEMMA BranchesKept ==
    ASSUME Store, Store', NEW h, h \notin DOMAIN blocks, NEW b, blocks' = Put(blocks, h, b)
    PROVE  \A x \in DOMAIN blocks : Branch'[x] = Branch[x] /\ BranchUTXOs'[x] = BranchUTXOs[x]
<1>1. DOMAIN blocks' = DOMAIN blocks \cup {h} /\ \A x \in DOMAIN blocks : blocks'[x] = blocks[x]
  BY DEF Put
<1>2. BranchesDefined /\ BranchesDefined'
  BY DefinedNow, DefinedNext
<1> DEFINE S == {x \in DOMAIN blocks : Branch'[x] = Branch[x] /\ BranchUTXOs'[x] = BranchUTXOs[x]}
<1>3. ASSUME NEW x \in DOMAIN blocks, x = Genesis \/ P(x) \in S PROVE x \in S
  <2>1. x \in DOMAIN blocks' /\ blocks'[x] = blocks[x] /\ P(x)' = P(x)
    BY <1>1 DEF P
  <2>2. CASE x = Genesis
    BY <1>2, <2>1, <2>2 DEF BranchesDefined
  <2>3. CASE x # Genesis
    <3>1. /\ Branch[x] = {x} \cup Branch[P(x)]
          /\ BranchUTXOs[x] = UpdateUTXOSet(BranchUTXOs[P(x)], blocks[x].txs)
      BY <1>2, <2>3 DEF BranchesDefined
    <3>2. /\ Branch'[x] = {x} \cup Branch'[P(x)]
          /\ BranchUTXOs'[x] = UpdateUTXOSet(BranchUTXOs'[P(x)], blocks[x].txs)
      BY <1>2, <2>1, <2>3 DEF BranchesDefined
    <3>3. Branch'[P(x)] = Branch[P(x)] /\ BranchUTXOs'[P(x)] = BranchUTXOs[P(x)]
      BY <1>3, <2>3
    <3> QED BY <3>1, <3>2, <3>3
  <2> QED BY <2>2, <2>3
<1>4. DOMAIN blocks \subseteq S
  <2> HIDE DEF S
  <2> QED BY <1>3, BlockInduction
<1> QED BY <1>4

\* A block that fits on an unforked store, and leaves it unforked, is built on its last block.
LEMMA BuiltOnLast ==
    ASSUME Store, NEW t \in DOMAIN blocks, Branch[t] = DOMAIN blocks,
           NEW h, h \notin DOMAIN blocks, NEW b, blocks' = Put(blocks, h, b),
           b.prev \in DOMAIN blocks, Unforked'
    PROVE  b.prev = t
<1> SUFFICES ASSUME b.prev # t PROVE FALSE
  OBVIOUS
<1> DEFINE q == b.prev
<1>1. /\ DOMAIN blocks' = DOMAIN blocks \cup {h} /\ blocks'[h] = b
      /\ \A x \in DOMAIN blocks : blocks'[x] = blocks[x]
  BY DEF Put
<1>2. q \in Branch[t] /\ t \in Branch[t] /\ H(q) \in Nat /\ H(t) \in Nat /\ H(q) <= H(t)
  BY BranchDown, StoreShape
<1>3. H(q) # H(t)
  BY <1>2, BranchHeights
<1>4. H(q) + 1 \in 0..H(t)
  BY <1>2, <1>3
<1>5. PICK g \in Branch[t] : H(g) = H(q) + 1
  BY <1>4, BranchHeights
<1>6. g \in DOMAIN blocks /\ g # Genesis
  <2>1. H(Genesis) = 0 /\ H(g) # 0
    BY <1>2, <1>5, StoreShape
  <2> QED BY <1>5, <2>1
<1>7. P(g) \in Branch[t] /\ H(P(g)) = H(q)
  <2>1. P(g) \in Branch[t] /\ H(P(g)) = H(g) - 1
    BY <1>5, <1>6, BranchStep, StoreShape
  <2> QED BY <1>2, <1>5, <2>1
<1>8. P(g) = q
  BY <1>2, <1>7, BranchHeights
<1>9. h # Genesis
  BY StoreShape
<1>10. blocks'[g].prev = blocks'[h].prev /\ g \in DOMAIN blocks' /\ h \in DOMAIN blocks'
  BY <1>1, <1>6, <1>8 DEF P
<1>11. g = h
  BY <1>6, <1>9, <1>10 DEF Unforked
<1> QED BY <1>6, <1>11

\* So the store stays that of one branch.
LEMMA CommitCoherent ==
    ASSUME Store, Store', OneBranchCoherent, NEW w, Commit(w),
           job[w].hash \notin DOMAIN blocks, job[w].block.prev \in DOMAIN blocks
    PROVE  OneBranchCoherent'
<1> SUFFICES ASSUME Unforked'
             PROVE  Branch'[dbTip'] = DOMAIN blocks' /\ utxos' = BranchUTXOs'[dbTip']
  BY DEF OneBranchCoherent
<1> DEFINE h == job[w].hash
           b == job[w].block
<1>1. /\ blocks' = Put(blocks, h, b) /\ dbTip' = h /\ utxos' = UpdateUTXOSet(utxos, b.txs)
  BY DEF Commit
<1>2. h \notin DOMAIN blocks /\ b.prev \in DOMAIN blocks
  OBVIOUS
<1> HIDE DEF h, b
<1>3. /\ DOMAIN blocks' = DOMAIN blocks \cup {h} /\ blocks'[h] = b
      /\ \A x \in DOMAIN blocks : blocks'[x] = blocks[x]
  BY <1>1, <1>2 DEF Put
<1>4. Unforked
  BY <1>3 DEF Unforked
<1>5. dbTip \in DOMAIN blocks /\ Branch[dbTip] = DOMAIN blocks /\ utxos = BranchUTXOs[dbTip]
  BY <1>4 DEF OneBranchCoherent, Store, StoreConnected
<1>6. b.prev = dbTip
  BY <1>1, <1>2, <1>5, BuiltOnLast
<1>7. Branch'[dbTip] = DOMAIN blocks /\ BranchUTXOs'[dbTip] = utxos
  BY <1>1, <1>2, <1>5, BranchesKept
<1>8. h # Genesis
  BY <1>2, StoreShape
<1>9. Branch'[h] = {h} \cup Branch'[dbTip] /\ BranchUTXOs'[h] = UpdateUTXOSet(BranchUTXOs'[dbTip], b.txs)
  <2>1. h \in DOMAIN blocks' /\ blocks'[h].prev = dbTip /\ blocks'[h].txs = b.txs
    BY <1>3, <1>6
  <2> QED BY <1>8, <2>1, DefinedNext DEF BranchesDefined, P
<1> QED BY <1>1, <1>3, <1>7, <1>9

\* The database is written by commits alone, but for the height index.
LEMMA OnlyCommitsWrite ==
    ASSUME [Next]_vars, \A w \in Worker : ~Commit(w)
    PROVE  UNCHANGED <<blocks, dbTip, utxos>>
  BY DEF Next, Step, PeerMines, HandleBlock, StartRead, StartMining, Kill, StopProcess,
         Restart, LookupPrevious, ReadLastBlock, NoForkFound, ForkReplayRejected,
         GetUTXOsCached, MissCache, ViewUTXOs, FillCache, CheckValid, RunUpdate,
         CommitFails, AdjustDifficulty, ReadTimeSpan, ReadHeight, NewBlock, disk, vars,
         LastBlockPanics, ForkReplayPanics, IsValidPanics, TimeSpanPanics, Panic

LEMMA CoherentInit == Init => Store /\ OneBranchCoherent
<1> SUFFICES ASSUME Init PROVE Store /\ OneBranchCoherent
  OBVIOUS
<1>1. Store
  BY TypeInit, ChainInit DEF Store, TypeInv, ChainInv
<1>2. BranchesDefined
  BY <1>1, DefinedNow
<1>3. DOMAIN blocks = {Genesis} /\ dbTip = Genesis /\ utxos = Creates[GenesisTx]
  BY DEF Init
<1>4. OneBranchCoherent
  BY <1>2, <1>3 DEF BranchesDefined, OneBranchCoherent
<1> QED BY <1>1, <1>4

\* Without overlapping calls an unforked store is that of one branch: the tip is its last block
\* and the UTXO bucket what its blocks leave unspent, for any chain of any length, with kills
\* and failed commits.
THEOREM OneBranchCoherentAlone ==
    ASSUME NEW p, Worker = {p}
    PROVE  Spec => []OneBranchCoherent
<1>1. ASSUME TypeInv, ChainInv, TypeInv', ChainInv', LoneInv, OneBranchCoherent, [Next]_vars
      PROVE  OneBranchCoherent'
  <2>1. Store /\ Store'
    BY <1>1 DEF Store, TypeInv, ChainInv
  <2>2. CASE Commit(p)
    <3>1. Fits(job[p].block)
      BY <1>1, <2>2, CommitExtends DEF Commit
    <3>2. job[p].op \in {"receive", "mine"}
      BY <1>1, <2>2 DEF Commit, At, TypeInv, Shape, Consistent
    <3>3. job[p].hash \notin DOMAIN blocks
      BY <1>1, <3>2 DEF LoneInv, LoneJob
    <3> QED BY <1>1, <2>1, <2>2, <3>1, <3>3, CommitCoherent DEF Fits
  <2>3. CASE ~Commit(p)
    <3>1. blocks' = blocks /\ dbTip' = dbTip /\ utxos' = utxos
      BY <1>1, <2>3, OnlyCommitsWrite
    <3>2. Branch' = Branch /\ BranchUTXOs' = BranchUTXOs
      BY <3>1 DEF Branch, BranchUTXOs
    <3> QED BY <1>1, <3>1, <3>2 DEF OneBranchCoherent, Unforked
  <2> QED BY <2>2, <2>3
<1>2. TypeInv /\ LoneInv /\ [Next]_vars => LoneInv'
  BY LoneNext
<1>3. Init => OneBranchCoherent
  BY CoherentInit
<1> QED BY <1>1, <1>2, <1>3, LoneInit, ChainInvariant, PTL DEF Spec

-----------------------------------------------------------------------------
(* updateUTXOSet as the loop it is.                                         *)

\* The outputs of the first k transactions that none of the later ones up to k spends.
AliveUpTo(txs, k) ==
    {o \in OutputsUpTo(txs, k) :
        \E i \in 1..k : o \in Creates[txs[i]] /\ \A j \in 1..k : j > i => o \notin Spends[txs[j]]}

LEMMA AliveNext ==
    ASSUME NEW txs, NEW k \in Nat
    PROVE  AliveUpTo(txs, k + 1) = (AliveUpTo(txs, k) \ Spends[txs[k + 1]]) \cup Creates[txs[k + 1]]
<1>1. 1..(k + 1) = (1..k) \cup {k + 1} /\ \A i \in 1..k : i < k + 1
  OBVIOUS
<1>2. ASSUME NEW o \in AliveUpTo(txs, k + 1), o \notin Creates[txs[k + 1]]
      PROVE  o \in AliveUpTo(txs, k) /\ o \notin Spends[txs[k + 1]]
  <2>1. PICK i \in 1..(k + 1) : /\ o \in Creates[txs[i]]
                                /\ \A j \in 1..(k + 1) : j > i => o \notin Spends[txs[j]]
    BY DEF AliveUpTo
  <2>2. i \in 1..k /\ k + 1 > i /\ k + 1 \in 1..(k + 1)
    BY <1>1, <1>2, <2>1
  <2>3. o \in OutputsUpTo(txs, k)
    BY <2>1, <2>2 DEF OutputsUpTo
  <2>4. \A j \in 1..k : j > i => o \notin Spends[txs[j]]
    BY <1>1, <2>1
  <2> QED BY <2>1, <2>2, <2>3, <2>4 DEF AliveUpTo
<1>3. ASSUME NEW o \in AliveUpTo(txs, k), o \notin Spends[txs[k + 1]]
      PROVE  o \in AliveUpTo(txs, k + 1)
  <2>1. PICK i \in 1..k : o \in Creates[txs[i]] /\ \A j \in 1..k : j > i => o \notin Spends[txs[j]]
    BY DEF AliveUpTo
  <2>2. i \in 1..(k + 1) /\ \A j \in 1..(k + 1) : j > i => o \notin Spends[txs[j]]
    BY <1>1, <1>3, <2>1
  <2>3. o \in OutputsUpTo(txs, k + 1)
    BY <2>1, <2>2 DEF OutputsUpTo
  <2> QED BY <2>1, <2>2, <2>3 DEF AliveUpTo
<1>4. ASSUME NEW o \in Creates[txs[k + 1]] PROVE o \in AliveUpTo(txs, k + 1)
  <2>1. k + 1 \in 1..(k + 1) /\ \A j \in 1..(k + 1) : ~(j > k + 1)
    OBVIOUS
  <2>2. o \in OutputsUpTo(txs, k + 1)
    BY <2>1 DEF OutputsUpTo
  <2> QED BY <2>1, <2>2 DEF AliveUpTo
<1> QED BY <1>2, <1>3, <1>4

\* The bucket after the first k transactions of a block.
AfterUpTo(u, txs, k) == (u \ InputsUpTo(txs, k)) \cup AliveUpTo(txs, k)

LEMMA AfterNext ==
    ASSUME NEW u, NEW txs, NEW k \in Nat
    PROVE  AfterUpTo(u, txs, k + 1) = (AfterUpTo(u, txs, k) \ Spends[txs[k + 1]]) \cup Creates[txs[k + 1]]
<1>1. InputsUpTo(txs, k + 1) = InputsUpTo(txs, k) \cup Spends[txs[k + 1]]
  BY UpToNext
<1>2. AliveUpTo(txs, k + 1) = (AliveUpTo(txs, k) \ Spends[txs[k + 1]]) \cup Creates[txs[k + 1]]
  BY AliveNext
<1> QED BY <1>1, <1>2 DEF AfterUpTo

LEMMA AfterNone ==
    ASSUME NEW u, NEW txs
    PROVE  AfterUpTo(u, txs, 0) = u
  BY UpToNone DEF AfterUpTo, AliveUpTo

LEMMA AfterAll ==
    ASSUME NEW u, NEW txs \in Seq(Tx)
    PROVE  AfterUpTo(u, txs, Len(txs)) = UpdateUTXOSet(u, txs)
<1>1. DOMAIN txs = 1..Len(txs)
  OBVIOUS
<1>2. InputsOf(txs) = InputsUpTo(txs, Len(txs)) /\ OutputsOf(txs) = OutputsUpTo(txs, Len(txs))
  BY <1>1 DEF InputsOf, OutputsOf, InputsUpTo, OutputsUpTo
<1> QED BY <1>1, <1>2 DEF AfterUpTo, AliveUpTo, UpdateUTXOSet

\* What Ledger and Reorg take for the effect of updateUTXOSet on the bucket, all at once, is what
\* the loop of the code makes of it, transaction by transaction, for every block.
THEOREM UpdateIsTheLoop ==
    \A u : \A txs \in Seq(Tx) : UpdateUTXOSetLoop(u, txs) = UpdateUTXOSet(u, txs)
<1> SUFFICES ASSUME NEW u, NEW txs \in Seq(Tx)
             PROVE  UpdateUTXOSetLoop(u, txs) = UpdateUTXOSet(u, txs)
  OBVIOUS
<1> DEFINE n == Len(txs)
           f == [i \in 0..n |-> AfterUpTo(u, txs, i)]
           Is(g) == g = [i \in 0..n |-> IF i = 0 THEN u ELSE (g[i - 1] \ Spends[txs[i]]) \cup Creates[txs[i]]]
           after == CHOOSE g : Is(g)
<1>1. n \in Nat /\ 0 \in 0..n
  OBVIOUS
<1>2. ASSUME NEW i \in 0..n
      PROVE  f[i] = IF i = 0 THEN u ELSE (f[i - 1] \ Spends[txs[i]]) \cup Creates[txs[i]]
  <2>1. CASE i = 0
    BY <2>1, AfterNone
  <2>2. CASE i # 0
    <3>1. i - 1 \in Nat /\ i - 1 \in 0..n /\ (i - 1) + 1 = i
      BY <1>1, <2>2
    <3>2. AfterUpTo(u, txs, (i - 1) + 1)
            = (AfterUpTo(u, txs, i - 1) \ Spends[txs[(i - 1) + 1]]) \cup Creates[txs[(i - 1) + 1]]
      BY <3>1, AfterNext
    <3> QED BY <2>2, <3>1, <3>2
  <2> QED BY <2>1, <2>2
<1> HIDE DEF n
<1>3. Is(f)
  <2>1. f = [i \in 0..n |-> f[i]]
    OBVIOUS
  <2> HIDE DEF f
  <2> QED BY <1>2, <2>1
<1>4. Is(after)
  BY <1>3
<1>5. UpdateUTXOSetLoop(u, txs) = after[n]
  BY DEF UpdateUTXOSetLoop, n
<1> HIDE DEF after, f
<1> DEFINE S == {i \in Nat : i <= n => after[i] = f[i]}
<1>6. 0 \in S
  BY <1>1, <1>3, <1>4
<1>7. ASSUME NEW i \in Nat, i \in S PROVE i + 1 \in S
  <2> SUFFICES ASSUME i + 1 <= n PROVE after[i + 1] = f[i + 1]
    OBVIOUS
  <2>1. i + 1 \in 0..n /\ i + 1 # 0 /\ (i + 1) - 1 = i /\ after[i] = f[i]
    BY <1>1, <1>7
  <2>2. /\ f[i + 1] = (f[i] \ Spends[txs[i + 1]]) \cup Creates[txs[i + 1]]
        /\ after[i + 1] = (after[i] \ Spends[txs[i + 1]]) \cup Creates[txs[i + 1]]
    BY <1>3, <1>4, <2>1
  <2> QED BY <2>1, <2>2
<1>8. n \in S
  <2> HIDE DEF S
  <2> QED BY <1>1, <1>6, <1>7, Induction
<1>9. f[n] = AfterUpTo(u, txs, n)
  BY <1>1 DEF f
<1> QED BY <1>1, <1>5, <1>8, <1>9, AfterAll DEF n

-----------------------------------------------------------------------------
(* What is left of the promises of the chain store that forks break.        *)

\* No block of an unforked store is higher than the tip, and bc.tip is the tip of the database
\* when no commit is under way and none has failed.
LEMMA CoherentKeeps ==
    ASSUME Store, TipCoherent, OneBranchCoherent, Unforked
    PROVE  UtxosOfTipBranch /\ LongestChainKept
<1>1. dbTip \in DOMAIN blocks /\ Branch[dbTip] = DOMAIN blocks /\ utxos = BranchUTXOs[dbTip]
  BY DEF OneBranchCoherent, Store, StoreConnected
<1>2. ASSUME status = "up", InFlight = {}, failed = {}, NEW h \in DOMAIN blocks
      PROVE  blocks[h].height <= CurrentHeight
  <2>1. tip = dbTip
    BY <1>2 DEF TipCoherent
  <2>2. H(h) <= H(dbTip)
    BY <1>1, BranchDown
  <2> QED BY <1>1, <2>1, <2>2 DEF CurrentHeight, H
<1> QED BY <1>1, <1>2 DEF UtxosOfTipBranch, LongestChainKept

\* Without overlapping calls it is forks alone that part the UTXO bucket from the branch of the tip,
\* or leave the tip on a branch that is not the longest one (ReorganizeChain is never called).
THEOREM KeptUntilFork ==
    ASSUME NEW p, Worker = {p}
    PROVE  Spec => [](Unforked => UtxosOfTipBranch /\ LongestChainKept)
<1>1. TypeInv /\ ChainInv /\ OneBranchCoherent => (Unforked => UtxosOfTipBranch /\ LongestChainKept)
  BY CoherentKeeps DEF Store, TypeInv, ChainInv
<1> QED BY <1>1, OneBranchCoherentAlone, ChainInvariant, PTL

\* A node on its own: what it mines, it mines on the tip of the database.
SoloInv ==
    /\ Unforked
    /\ \A w \in Worker :
        /\ job[w].op # "receive"
        /\ job[w].op = "mine" /\ job[w].block.prev \in DOMAIN blocks => job[w].block.prev = dbTip
    /\ status = "up" /\ InFlight = {} /\ tip \in DOMAIN blocks => tip = dbTip

LEMMA SoloInit == Init => SoloInv
  BY DEF Init, SoloInv, Unforked, NoJob

\* A step of the miner that neither begins nor ends a commit.
LEMMA SoloMoves ==
    ASSUME TypeInv, SoloInv, NEW p, Worker = {p}, pc[p] # "commit", status = "up",
           UNCHANGED <<blocks, dbTip, tip>>,
           NEW l, NEW j, Moves(p, l, j),
           \/ j.op \in {"none", "create", "read"}
           \/ j.op = "mine" /\ job[p].op = "mine" /\ j.block = job[p].block
           \/ j.op = "mine" /\ j.block.prev = tip
    PROVE  SoloInv'
<1>1. job'[p] = j /\ p \in Worker
  BY DEF Moves, TypeInv, TypeOK
<1>2. InFlight = {}
  BY DEF InFlight
<1>3. j.op = "mine" /\ j.block.prev \in DOMAIN blocks => j.block.prev = dbTip
  BY <1>1, <1>2 DEF SoloInv
<1>4. Unforked'
  BY DEF SoloInv, Unforked
<1>5. j.op # "receive"
  OBVIOUS
<1> QED BY <1>1, <1>2, <1>3, <1>4, <1>5 DEF SoloInv

\* A block that is built on the last block of the one branch makes no fork.
LEMMA ExtendsOneBranch ==
    ASSUME Store, NEW t \in DOMAIN blocks, Branch[t] = DOMAIN blocks, Unforked,
           NEW h, h \notin DOMAIN blocks, NEW b, blocks' = Put(blocks, h, b), b.prev = t
    PROVE  Unforked'
<1>1. /\ DOMAIN blocks' = DOMAIN blocks \cup {h} /\ blocks'[h] = b
      /\ \A x \in DOMAIN blocks : blocks'[x] = blocks[x]
  BY DEF Put
<1>2. ASSUME NEW g \in DOMAIN blocks \ {Genesis} PROVE blocks[g].prev # t
  <2>1. H(g) <= H(t) /\ H(g) \in Nat /\ H(P(g)) = H(g) - 1
    BY BranchDown, StoreShape
  <2> QED BY <2>1 DEF P
<1> QED BY <1>1, <1>2 DEF Unforked

LEMMA SoloCommits ==
    ASSUME TypeInv, ChainInv, LoneInv, OneBranchCoherent, SoloInv, NEW p, Worker = {p}, Commit(p)
    PROVE  SoloInv'
<1>1. job \in [Worker -> Job] /\ p \in Worker /\ Store /\ dbTip \in DOMAIN blocks
  BY DEF TypeInv, TypeOK, ChainInv, Store, StoreConnected
<1>2. job[p].op = "mine"
  BY <1>1 DEF Commit, At, TypeInv, Shape, Consistent, SoloInv
<1>3. job[p].hash \notin DOMAIN blocks /\ job[p].block.prev \in DOMAIN blocks
  BY <1>1, <1>2, CommitExtends DEF Commit, LoneInv, LoneJob, Fits
<1>4. job[p].block.prev = dbTip
  BY <1>1, <1>2, <1>3 DEF SoloInv
<1>5. Branch[dbTip] = DOMAIN blocks /\ Unforked
  BY DEF OneBranchCoherent, SoloInv
<1>6. Unforked'
  BY <1>1, <1>3, <1>4, <1>5, ExtendsOneBranch DEF Commit
<1>7. job'[p] = NoJob
  BY <1>1 DEF Commit, Return
<1>8. tip = job[p].hash /\ tip' = tip /\ dbTip' = job[p].hash
  BY <1>1 DEF Commit, At, ChainInv, TipCoherent, InFlight, memory
<1> QED BY <1>6, <1>7, <1>8 DEF SoloInv, NoJob

LEMMA SoloNext ==
    ASSUME TypeInv, ChainInv, LoneInv, OneBranchCoherent, SoloInv, NEW p, Worker = {p}, Peer = {},
           [Next]_vars
    PROVE  SoloInv'
<1>1. job \in [Worker -> Job] /\ pc \in [Worker -> Labels] /\ p \in Worker
  BY DEF TypeInv, TypeOK
<1>2. CASE \E w \in Worker, o \in Queried : StartRead(w, o)
  <2>1. PICK o \in Queried : StartRead(p, o)
    BY <1>2
  <2> QED BY <1>1, <2>1, SoloMoves DEF StartRead, Moves, At, NoJob, disk, memory
<1>3. CASE \E w \in Local, h \in Hash, a \in Wallet, b \in Batch : StartMining(w, h, a, b)
  <2>1. PICK h \in Hash, a \in Wallet, b \in Batch : StartMining(p, h, a, b)
    BY <1>3 DEF Worker
  <2>2. /\ job'[p].op = "create" /\ pc[p] # "commit" /\ status = "up"
        /\ UNCHANGED <<blocks, dbTip, tip>>
    BY <1>1, <2>1 DEF StartMining, At, NoJob, disk, memory
  <2>3. Moves(p, "verify", job'[p])
    BY <1>1, <2>1 DEF StartMining, Moves
  <2> QED BY <1>1, <2>2, <2>3, SoloMoves
<1>4. ASSUME Continues(p) PROVE SoloInv'
  <2>1. PICK l \in Labels, j \in Job :
          /\ Moves(p, l, j)
          /\ \/ l = "idle" /\ j = NoJob
             \/ Keeps(p, l, j)
             \/ Assembles(p, l, j)
             \/ Mines(p, l, j)
    BY <1>4 DEF Continues
  <2>2. pc[p] # "commit" /\ status = "up" /\ UNCHANGED <<blocks, dbTip, tip>>
    BY <1>4 DEF Continues, disk
  <2>3. \/ j.op \in {"none", "create", "read"}
        \/ j.op = "mine" /\ job[p].op = "mine" /\ j.block = job[p].block
        \/ j.op = "mine" /\ j.block.prev = tip
    <3>1. job[p].op \in {"none", "create", "mine", "read"}
      BY <1>1 DEF Job, SoloInv
    <3> QED BY <2>1, <3>1 DEF Keeps, Assembles, Mines, NoJob
  <2> QED BY <2>1, <2>2, <2>3, SoloMoves
<1>5. CASE RunUpdate(p)
  <2>1. UNCHANGED <<blocks, dbTip, job>> /\ p \in InFlight'
    BY <1>1, <1>5 DEF RunUpdate, Goto, disk, InFlight
  <2> QED BY <2>1 DEF SoloInv, Unforked
<1>6. CASE Commit(p)
  BY <1>6, SoloCommits
<1>7. CASE CommitFails(p)
  <2>1. UNCHANGED <<blocks, dbTip, tip>> /\ job'[p] = NoJob /\ tip = job[p].hash
    BY <1>1, <1>7 DEF CommitFails, Return, disk, memory, At, ChainInv, TipCoherent, InFlight
  <2>2. job[p].hash \notin DOMAIN blocks
    BY <1>1, <1>7 DEF CommitFails, At, TypeInv, Shape, Consistent, LoneInv, LoneJob
  <2> QED BY <2>1, <2>2 DEF SoloInv, Unforked, NoJob
<1>8. CASE Kill \/ Panics(p)
  <2>1. UNCHANGED <<blocks, dbTip>> /\ status' # "up" /\ job'[p] = NoJob
    BY <1>1, <1>8 DEF Panics, LastBlockPanics, ForkReplayPanics, IsValidPanics, TimeSpanPanics, Panic,
                      Kill, StopProcess, disk
  <2> QED BY <2>1 DEF SoloInv, Unforked, NoJob
<1>9. CASE Restart
  <2>1. UNCHANGED <<blocks, dbTip, job>> /\ tip' = dbTip
    BY <1>9 DEF Restart
  <2> QED BY <2>1 DEF SoloInv, Unforked
<1>10. CASE UNCHANGED vars \/ \E h \in Hash, q \in Hash, a \in PeerWallet, b \in Batch : PeerMines(h, q, a, b)
  <2>1. UNCHANGED <<blocks, dbTip, tip, status, pc, job>>
    BY <1>10 DEF vars, PeerMines, disk, memory, fate
  <2> QED BY <2>1 DEF SoloInv, Unforked, InFlight
<1>11. ASSUME NEW w \in Worker, Step(w) \/ NewBlock(w) PROVE SoloInv'
  <2>1. Step(p) \/ NewBlock(p)
    BY <1>11
  <2>2. Continues(p) \/ RunUpdate(p) \/ Commit(p) \/ CommitFails(p) \/ Panics(p)
    BY <1>1, <2>1, HandlerContinues, ReaderContinues, CreatorContinues DEF Step, Panics
  <2> QED BY <1>4, <1>5, <1>6, <1>7, <1>8, <2>2
<1> QED BY <1>2, <1>3, <1>8, <1>9, <1>10, <1>11 DEF Next

\* A node that mines alone and has no peers, through kills and failed commits: it never forks, its
\* bucket is the UTXO set of the branch of the tip and the tip is its highest block.
THEOREM SoloNeverForks ==
    ASSUME NEW p, Worker = {p}, Peer = {}
    PROVE  Spec => [](Unforked /\ UtxosOfTipBranch /\ LongestChainKept)
<1>1. TypeInv /\ ChainInv /\ LoneInv /\ OneBranchCoherent /\ SoloInv /\ [Next]_vars => SoloInv'
  BY SoloNext
<1>2. TypeInv /\ LoneInv /\ [Next]_vars => LoneInv'
  BY LoneNext
<1>3. SoloInv => Unforked
  BY DEF SoloInv
<1> QED
  BY <1>1, <1>2, <1>3, SoloInit, LoneInit, OneBranchCoherentAlone, KeptUntilFork, ChainInvariant, PTL
     DEF Spec

-----------------------------------------------------------------------------
(* Double spends. SpendsBacked counts blocks; a block counts once for each *)
(* outpoint if no two of its transactions spend the same one.              *)

Apart(txs) == \A i, j \in DOMAIN txs : i # j => Spends[txs[i]] \cap Spends[txs[j]] = {}

\* The payments of a batch, and so of every block that is made of one, are apart.
ApartInv ==
    /\ \A h \in DOMAIN net : Apart(net[h].txs)
    /\ \A h \in DOMAIN blocks : Apart(blocks[h].txs)
    /\ \A w \in Worker : job[w].op \in {"receive", "create", "mine"} => Apart(job[w].block.txs)

LEMMA RewardApart ==
    ASSUME NEW a \in Miner, NEW b \in Seq(Tx), Apart(b)
    PROVE  Apart(<<CoinbaseOf[a]>> \o b)
<1> DEFINE txs == <<CoinbaseOf[a]>> \o b
<1>1. Spends[CoinbaseOf[a]] = {}
  BY TxAssumption
<1>2. DOMAIN txs = 1..(Len(b) + 1) /\ txs[1] = CoinbaseOf[a]
  OBVIOUS
<1>3. \A i \in DOMAIN txs : i # 1 => i - 1 \in DOMAIN b /\ txs[i] = b[i - 1]
  OBVIOUS
<1> HIDE DEF txs
<1>4. ASSUME NEW i \in DOMAIN txs, NEW j \in DOMAIN txs, i # j
      PROVE  Spends[txs[i]] \cap Spends[txs[j]] = {}
  <2>1. CASE i = 1 \/ j = 1
    BY <1>1, <1>2, <2>1
  <2>2. CASE i # 1 /\ j # 1
    <3>1. i - 1 \in DOMAIN b /\ j - 1 \in DOMAIN b /\ i - 1 # j - 1
      BY <1>2, <1>3, <1>4, <2>2
    <3>2. Spends[b[i - 1]] \cap Spends[b[j - 1]] = {}
      BY <3>1 DEF Apart
    <3> QED BY <1>3, <2>2, <3>2
  <2> QED BY <2>1, <2>2
<1>5. Apart(txs)
  BY <1>4 DEF Apart
<1> QED BY <1>5 DEF txs

LEMMA ApartInit == Init => ApartInv
<1> SUFFICES ASSUME Init PROVE ApartInv
  OBVIOUS
<1>1. Apart(GenesisBlock.txs)
  BY DEF Apart, GenesisBlock
<1> QED BY <1>1 DEF Init, ApartInv, NoJob

\* A step of a goroutine that leaves the blocks alone and keeps the transactions of its own.
LEMMA ApartMoves ==
    ASSUME TypeInv, ApartInv, NEW w \in Worker, UNCHANGED <<net, blocks>>,
           NEW l, NEW j, Moves(w, l, j),
           j.op \in {"receive", "create", "mine"} => Apart(j.block.txs)
    PROVE  ApartInv'
<1>1. job \in [Worker -> Job]
  BY DEF TypeInv, TypeOK
<1>2. job'[w] = j /\ \A v \in Worker : v # w => job'[v] = job[v]
  BY <1>1 DEF Moves
<1> QED BY <1>2 DEF ApartInv, Apart

LEMMA ApartCreates ==
    ASSUME TypeInv, ApartInv, NEW w \in Worker,
           AdjustDifficulty(w) \/ ReadHeight(w) \/ NewBlock(w)
    PROVE  ApartInv'
<1>1. job \in [Worker -> Job]
  BY DEF TypeInv, TypeOK
<1>2. job[w].op = "create" /\ job[w].block \in Block
  BY DEF AdjustDifficulty, Verified, ReadHeight, NewBlock, At, TypeInv, Shape, Consistent
<1>3. job'[w].block.txs = job[w].block.txs
  BY <1>1, <1>2 DEF AdjustDifficulty, ReadHeight, NewBlock, Job, Block
<1>4. \A v \in Worker : v # w => job'[v] = job[v]
  BY <1>1 DEF AdjustDifficulty, ReadHeight, NewBlock
<1>5. UNCHANGED <<net, blocks>>
  BY DEF AdjustDifficulty, ReadHeight, NewBlock, disk
<1> QED BY <1>2, <1>3, <1>4, <1>5 DEF ApartInv, Apart

LEMMA ApartContinues ==
    ASSUME TypeInv, ChainInv, ApartInv, NEW w \in Worker, Step(w) \/ NewBlock(w), ~Panics(w)
    PROVE  ApartInv'
<1>1. job \in [Worker -> Job]
  BY DEF TypeInv, TypeOK
<1>2. CASE AdjustDifficulty(w) \/ ReadHeight(w) \/ NewBlock(w)
  BY <1>2, ApartCreates
<1>3. CASE RunUpdate(w)
  <2>1. UNCHANGED <<net, blocks, job>>
    BY <1>3 DEF RunUpdate, Goto, disk
  <2> QED BY <2>1 DEF ApartInv, Apart
<1>4. CASE CommitFails(w)
  <2>1. UNCHANGED <<net, blocks>> /\ Moves(w, "idle", NoJob)
    BY <1>4 DEF CommitFails, Return, Moves, disk
  <2> QED BY <2>1, ApartMoves DEF NoJob
<1>5. CASE Commit(w)
  <2>1. /\ net' = net /\ blocks' = Put(blocks, job[w].hash, job[w].block)
        /\ job' = [job EXCEPT ![w] = NoJob]
    BY <1>5 DEF Commit, Return
  <2>2. Apart(job[w].block.txs)
    BY <1>5 DEF Commit, At, TypeInv, Shape, Consistent, ApartInv
  <2>3. \A h \in DOMAIN blocks' : Apart(blocks'[h].txs)
    BY <2>1, <2>2 DEF Put, ApartInv
  <2>4. \A v \in Worker : job'[v].op \in {"receive", "create", "mine"} => Apart(job'[v].block.txs)
    BY <1>1, <2>1 DEF NoJob, ApartInv
  <2> QED BY <2>1, <2>3, <2>4 DEF ApartInv, Apart
<1>6. CASE GetUTXOsCached(w) \/ MissCache(w) \/ ViewUTXOs(w) \/ FillCache(w)
  <2>1. UNCHANGED <<net, blocks>>
    BY <1>6 DEF GetUTXOsCached, MissCache, ViewUTXOs, FillCache, disk
  <2>2. CASE Return(w)
    <3>1. Moves(w, "idle", NoJob)
      BY <2>2 DEF Return, Moves
    <3> QED BY <2>1, <3>1, ApartMoves DEF NoJob
  <2>3. CASE ~Return(w)
    <3>1. \/ \E o : job' = [job EXCEPT ![w].input = o]
          \/ \E u : job' = [job EXCEPT ![w].seen = u]
          \/ \E o : job' = [job EXCEPT ![w].todo = @ \ {o}, ![w].input = Nil, ![w].seen = {}]
      <4>1. CASE GetUTXOsCached(w)
        BY <2>3, <4>1 DEF GetUTXOsCached, Judge
      <4>2. CASE MissCache(w)
        BY <4>2 DEF MissCache
      <4>3. CASE ViewUTXOs(w)
        BY <4>3 DEF ViewUTXOs
      <4>4. CASE FillCache(w)
        BY <2>3, <4>4 DEF FillCache, Judge
      <4> QED BY <1>6, <4>1, <4>2, <4>3, <4>4
    <3>2. job'[w].op = job[w].op /\ job'[w].block = job[w].block
      <4>1. \A o : job' = [job EXCEPT ![w].input = o] =>
              job'[w].op = job[w].op /\ job'[w].block = job[w].block
        BY <1>1 DEF Job
      <4>2. \A u : job' = [job EXCEPT ![w].seen = u] =>
              job'[w].op = job[w].op /\ job'[w].block = job[w].block
        BY <1>1 DEF Job
      <4>3. \A o : job' = [job EXCEPT ![w].todo = @ \ {o}, ![w].input = Nil, ![w].seen = {}] =>
              job'[w].op = job[w].op /\ job'[w].block = job[w].block
        BY <1>1 DEF Job
      <4> QED BY <3>1, <4>1, <4>2, <4>3
    <3>3. \A v \in Worker : v # w => job'[v] = job[v]
      BY <1>1, <3>1
    <3> QED BY <2>1, <3>2, <3>3 DEF ApartInv, Apart
  <2> QED BY <2>2, <2>3
<1>7. CASE \/ LookupPrevious(w) \/ ReadLastBlock(w) \/ NoForkFound(w) \/ ForkReplayRejected(w)
           \/ CheckValid(w) \/ ReadTimeSpan(w)
  <2>1. UNCHANGED <<net, blocks>> /\ (Return(w) \/ job' = job)
    BY <1>7 DEF LookupPrevious, ReadLastBlock, NoForkFound, ForkReplayRejected, CheckValid, ReadTimeSpan,
                Goto, disk
  <2>2. CASE Return(w)
    <3>1. Moves(w, "idle", NoJob)
      BY <2>2 DEF Return, Moves
    <3> QED BY <2>1, <3>1, ApartMoves DEF NoJob
  <2>3. CASE job' = job
    BY <2>1, <2>3 DEF ApartInv, Apart
  <2> QED BY <2>1, <2>2, <2>3
<1> QED BY <1>2, <1>3, <1>4, <1>5, <1>6, <1>7 DEF Step, Panics

LEMMA ApartNext ==
    ASSUME TypeInv, ChainInv, ApartInv, \A b \in Batch : Apart(b), [Next]_vars
    PROVE  ApartInv'
<1>1. job \in [Worker -> Job]
  BY DEF TypeInv, TypeOK
<1>2. ASSUME NEW h \in Hash, NEW q \in Hash, NEW a \in PeerWallet, NEW b \in Batch, PeerMines(h, q, a, b)
      PROVE  ApartInv'
  <2>1. a \in Miner /\ b \in Seq(Tx)
    BY LedgerAssumption
  <2>2. Apart(<<CoinbaseOf[a]>> \o b)
    BY <2>1, RewardApart
  <2>3. UNCHANGED <<blocks, job>>
    BY <1>2 DEF PeerMines, disk
  <2>4. \A g \in DOMAIN net' : Apart(net'[g].txs)
    BY <1>2, <2>2 DEF PeerMines, Put, ApartInv
  <2> QED BY <2>3, <2>4 DEF ApartInv, Apart
<1>3. ASSUME NEW w \in Worker, NEW h \in Hash, HandleBlock(w, h) PROVE ApartInv'
  <2>1. /\ UNCHANGED <<net, blocks>> /\ Apart(net[h].txs)
        /\ Moves(w, "previous", [NoJob EXCEPT !.op = "receive", !.hash = h, !.block = net[h],
                                              !.todo = InputsOf(net[h].txs)])
    BY <1>3 DEF HandleBlock, Moves, disk, ApartInv
  <2> QED BY <2>1, ApartMoves DEF NoJob
<1>4. ASSUME NEW w \in Worker, NEW o \in Queried, StartRead(w, o) PROVE ApartInv'
  <2>1. /\ UNCHANGED <<net, blocks>>
        /\ Moves(w, "verify", [NoJob EXCEPT !.op = "read", !.todo = {o}])
    BY <1>4 DEF StartRead, Moves, disk
  <2> QED BY <2>1, ApartMoves DEF NoJob
<1>5. ASSUME NEW w \in Worker, NEW h \in Hash, NEW a \in Wallet, NEW b \in Batch,
             StartMining(w, h, a, b)
      PROVE  ApartInv'
  <2>1. a \in Miner /\ b \in Seq(Tx)
    BY LedgerAssumption
  <2>2. Apart(<<CoinbaseOf[a]>> \o b)
    BY <2>1, RewardApart
  <2>3. UNCHANGED <<net, blocks>>
    BY <1>5 DEF StartMining, disk
  <2>4. job'[w].block.txs = <<CoinbaseOf[a]>> \o b /\ Moves(w, "verify", job'[w])
    BY <1>1, <1>5 DEF StartMining, Moves, NoJob
  <2> QED BY <2>2, <2>3, <2>4, ApartMoves
<1>6. ASSUME NEW w \in Worker, Step(w) \/ NewBlock(w), ~Panics(w) PROVE ApartInv'
  BY <1>6, ApartContinues
<1>7. CASE Kill \/ \E w \in Worker : Panics(w)
  <2>1. UNCHANGED <<net, blocks>> /\ job' = [v \in Worker |-> NoJob]
    BY <1>7 DEF Panics, LastBlockPanics, ForkReplayPanics, IsValidPanics, TimeSpanPanics, Panic, Kill,
                StopProcess, disk
  <2> QED BY <2>1 DEF ApartInv, Apart, NoJob
<1>8. CASE Restart \/ UNCHANGED vars
  <2>1. UNCHANGED <<net, blocks, job>>
    BY <1>8 DEF Restart, vars, disk
  <2> QED BY <2>1 DEF ApartInv, Apart
<1> QED BY <1>2, <1>3, <1>4, <1>5, <1>6, <1>7, <1>8 DEF Next, Worker

\* The transactions of a finite set of blocks are finitely many.
LEMMA PlacesFinite ==
    ASSUME IsFiniteSet(DOMAIN blocks), \A h \in DOMAIN blocks : blocks[h].txs \in Seq(Tx)
    PROVE  IsFiniteSet(UNION {{h} \X DOMAIN blocks[h].txs : h \in DOMAIN blocks})
<1> DEFINE rows == {{h} \X DOMAIN blocks[h].txs : h \in DOMAIN blocks}
           f == [h \in DOMAIN blocks |-> {h} \X DOMAIN blocks[h].txs]
<1>1. f \in Surjection(DOMAIN blocks, rows)
  BY DEF Surjection
<1>2. IsFiniteSet(rows)
  BY <1>1, FS_Surjection
<1>3. ASSUME NEW h \in DOMAIN blocks PROVE IsFiniteSet({h} \X DOMAIN blocks[h].txs)
  <2>1. DOMAIN blocks[h].txs = 1..Len(blocks[h].txs) /\ Len(blocks[h].txs) \in Int
    <3>1. blocks[h].txs \in Seq(Tx)
      OBVIOUS
    <3> QED BY <3>1
  <2>2. IsFiniteSet(1..Len(blocks[h].txs)) /\ IsFiniteSet({h})
    <3>1. 1 \in Int
      OBVIOUS
    <3> QED BY <2>1, <3>1, FS_Interval, FS_Singleton
  <2> QED BY <2>1, <2>2, FS_Product
<1> QED BY <1>2, <1>3, FS_UNION

\* No block has two transactions that spend an outpoint, so as many of them spend it as blocks do.
LEMMA CountByBlocks ==
    ASSUME IsFiniteSet(DOMAIN blocks), \A h \in DOMAIN blocks : blocks[h].txs \in Seq(Tx),
           \A h \in DOMAIN blocks : Apart(blocks[h].txs), SpendsBacked, Branch[dbTip] = DOMAIN blocks
    PROVE  NoDoubleSpend
<1> DEFINE places == UNION {{h} \X DOMAIN blocks[h].txs : h \in DOMAIN blocks}
           txAt(pl) == blocks[pl[1]].txs[pl[2]]
<1> SUFFICES ASSUME NEW o \in Outpoint
             PROVE  Cardinality({pl \in places : o \in Spends[txAt(pl)]})
                      <= Cardinality({pl \in places : o \in Creates[txAt(pl)]})
  BY DEF NoDoubleSpend
<1> DEFINE SP == {pl \in places : o \in Spends[txAt(pl)]}
           MP == {pl \in places : o \in Creates[txAt(pl)]}
           S == {h \in DOMAIN blocks : o \in InputsOf(blocks[h].txs)}
           M == {h \in DOMAIN blocks : o \in OutputsOf(blocks[h].txs)}
           f == [pl \in SP |-> pl[1]]
           g == [pl \in MP |-> pl[1]]
<1>1. \A pl \in places : pl = <<pl[1], pl[2]>> /\ pl[1] \in DOMAIN blocks /\ pl[2] \in DOMAIN blocks[pl[1]].txs
  OBVIOUS
<1>2. f \in Injection(SP, S)
  <2>1. f \in [SP -> S]
    BY <1>1 DEF InputsOf
  <2>2. ASSUME NEW a \in SP, NEW b \in SP, f[a] = f[b] PROVE a = b
    <3>1. a[1] = b[1] /\ a[1] \in DOMAIN blocks /\ {a[2], b[2]} \subseteq DOMAIN blocks[a[1]].txs
      BY <1>1, <2>2
    <3>2. o \in Spends[blocks[a[1]].txs[a[2]]] \cap Spends[blocks[a[1]].txs[b[2]]]
      BY <3>1
    <3>3. a[2] = b[2]
      BY <3>1, <3>2 DEF Apart
    <3> QED BY <1>1, <3>1, <3>3
  <2> QED BY <2>1, <2>2 DEF Injection, IsInjective
<1>3. g \in Surjection(MP, M)
  <2>1. g \in [MP -> M]
    BY <1>1 DEF OutputsOf
  <2>2. ASSUME NEW h \in M PROVE \E pl \in MP : g[pl] = h
    <3>1. PICK i \in DOMAIN blocks[h].txs : o \in Creates[blocks[h].txs[i]]
      BY DEF OutputsOf
    <3>2. <<h, i>> \in MP
      BY <3>1
    <3> QED BY <3>2
  <2> QED BY <2>1, <2>2 DEF Surjection
<1>4. IsFiniteSet(S) /\ IsFiniteSet(M) /\ IsFiniteSet(MP) /\ IsFiniteSet(SP)
  BY PlacesFinite, FS_Subset
<1>5. Cardinality(S) <= Cardinality(M)
  <2>1. Cardinality(S) + (IF o \in utxos THEN 1 ELSE 0) <= Cardinality(M)
    BY DEF SpendsBacked
  <2> HIDE DEF S, M
  <2> QED BY <1>4, <2>1, FS_CardinalityType
<1> HIDE DEF f, g, SP, MP, S, M
<1>6. Cardinality(SP) <= Cardinality(S) /\ Cardinality(M) <= Cardinality(MP)
  BY <1>2, <1>3, <1>4, FS_Injection, FS_Surjection
<1>7. Cardinality(SP) <= Cardinality(MP)
  BY <1>4, <1>5, <1>6, FS_CardinalityType
<1> QED BY <1>7 DEF SP, MP

\* Without overlapping calls, and without two payments of one batch that spend the same, nothing is
\* spent twice in a store without forks: VerifyTransaction refuses what an earlier block has spent,
\* and the counterexample to NoDoubleSpend, two payments of one flush, is the only way.
THEOREM NoDoubleSpendAlone ==
    ASSUME NEW p, Worker = {p}, \A b \in Batch : Apart(b)
    PROVE  Spec => [](Unforked => NoDoubleSpend)
<1>1. TypeInv /\ ChainInv /\ ApartInv /\ [Next]_vars => ApartInv'
  BY ApartNext
<1>2. TypeInv /\ LoneInv /\ [Next]_vars => LoneInv'
  BY LoneNext
<1>3. ASSUME TypeInv, LoneInv, ApartInv, OneBranchCoherent PROVE Unforked => NoDoubleSpend
  <2>1. \A h \in DOMAIN blocks : blocks[h].txs \in Seq(Tx)
    BY <1>3 DEF TypeInv, TypeOK, Block
  <2> QED BY <1>3, <2>1, CountByBlocks DEF LoneInv, ApartInv, OneBranchCoherent
<1> QED
  BY <1>1, <1>2, <1>3, ApartInit, LoneInit, OneBranchCoherentAlone, ChainInvariant, PTL DEF Spec
=============================================================================
