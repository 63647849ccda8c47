--------------------------- MODULE BlockTreeProofs ---------------------------
(***************************************************************************)
(* What the block tree promises follows from its specification, so that a  *)
(* refinement of BlockTree has it as well.                                 *)
(***************************************************************************)
EXTENDS BlockTree, TLAPS

LEMMA TreeInit == Init => TreeOK
  BY DEF Init, TreeOK

\* An adoption leaves what is in the tree as it is, the adopted block included if it was there.
LEMMA AdoptKeeps ==
    ASSUME NEW h, Adopt(h)
    PROVE  /\ DOMAIN tree' = DOMAIN tree \cup {h}
           /\ \A x \in DOMAIN tree : tree'[x] = tree[x]
           /\ head' = h
           /\ tree'[h].prev \in DOMAIN tree
           /\ tree'[h].height = tree[tree'[h].prev].height + 1
  BY DEF Adopt

LEMMA TreeNext == TreeOK /\ [Next]_vars => TreeOK'
  <1> SUFFICES ASSUME TreeOK, [Next]_vars PROVE TreeOK'
    OBVIOUS
  <1>1. ASSUME NEW h \in Hash, Adopt(h) PROVE TreeOK'
    <2>1. /\ DOMAIN tree' = DOMAIN tree \cup {h}
          /\ \A x \in DOMAIN tree : tree'[x] = tree[x]
          /\ head' = h
          /\ tree'[h].prev \in DOMAIN tree
          /\ tree'[h].height = tree[tree'[h].prev].height + 1
      BY <1>1, AdoptKeeps
    <2>2. ASSUME NEW x \in DOMAIN tree'
          PROVE  \/ x = Genesis /\ tree'[x].height = 0 /\ tree'[x].prev = Nil
                 \/ /\ tree'[x].prev \in DOMAIN tree'
                    /\ tree'[x].height = tree'[tree'[x].prev].height + 1
      <3>1. CASE x = h
        BY <2>1, <3>1
      <3>2. CASE x # h
        BY <2>1, <3>2 DEF TreeOK
      <3> QED
        BY <3>1, <3>2
    <2> QED
      BY <2>1, <2>2 DEF TreeOK
  <1>2. CASE UNCHANGED vars
    BY <1>2 DEF TreeOK, vars
  <1> QED
    BY <1>1, <1>2 DEF Next

\* Following the parents of any block goes down one height at a time to the genesis block, and
\* the head is in the tree (the blocks bucket and its key "l").
THEOREM TreeHangsTogether == Spec => []TreeOK
  BY TreeInit, TreeNext, PTL DEF Spec
=============================================================================
