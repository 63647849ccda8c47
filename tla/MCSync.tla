------------------------------- MODULE MCSync -------------------------------
(***************************************************************************)
(* Two nodes for TLC. See the cfg files.                                   *)
(***************************************************************************)
EXTENDS Sync

CONSTANTS a, b

\* Both nodes, and who mines.
Both == {a, b}
OneMines == {a}

\* The hashes of new blocks are used up from the least one. Only the order of siblings matters
\* to the code (GetBlockByPreviousHash), and those come from either miner.
HashesInOrder ==
    \A h \in DOMAIN parent' \ DOMAIN parent, k \in Hash : k < h => k \in DOMAIN parent
=============================================================================
