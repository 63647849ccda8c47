------------------------------ MODULE BlockTree ------------------------------
(***************************************************************************)
(* What the stored chain promises, whatever goroutines, crashes and failed *)
(* writes do: a tree of blocks that grows by one block at a time, in       *)
(* which nothing is ever removed or altered, and a head that always is a   *)
(* block of the tree and moves only to a block that is being adopted under *)
(* a parent that is already there.                                         *)
(***************************************************************************)
EXTENDS Integers

CONSTANTS Hash, Genesis, Nil

VARIABLES
    tree,   \* the stored blocks: hash -> [height, prev]
    head    \* the block the database names as the last one

vars == <<tree, head>>

Node == [height : Nat, prev : Hash \cup {Nil}]

Init ==
    /\ tree = [h \in {Genesis} |-> [height |-> 0, prev |-> Nil]]
    /\ head = Genesis

\* Block h joins the tree, or is adopted again as it is, and becomes the head.
Adopt(h) ==
    \E p \in DOMAIN tree :
        LET node == [height |-> tree[p].height + 1, prev |-> p]
        IN  /\ h \in DOMAIN tree => tree[h] = node
            /\ tree' = [x \in DOMAIN tree \cup {h} |-> IF x = h THEN node ELSE tree[x]]
            /\ head' = h

Next == \E h \in Hash : Adopt(h)

Spec == Init /\ [][Next]_vars

\* The tree hangs together: the head is in it, and following prev from any block goes down
\* one height at a time to the genesis block.
TreeOK ==
    /\ head \in DOMAIN tree
    /\ \A h \in DOMAIN tree :
        \/ h = Genesis /\ tree[h].height = 0 /\ tree[h].prev = Nil
        \/ /\ tree[h].prev \in DOMAIN tree
           /\ tree[h].height = tree[tree[h].prev].height + 1
=============================================================================
