------------------------------ MODULE MCLedger ------------------------------
(***************************************************************************)
(* Small instances of Ledger for TLC. The node mines for alice (output c0) *)
(* and its peers for carol (output d0). Alice pays bob with what she       *)
(* earned, once (tx) or twice over (tx and ty).                            *)
(***************************************************************************)
EXTENDS Reorg

CONSTANTS Nobody, alice, bob, carol, g0, c0, d0, x0, y0, tg, tc, td, tx, ty, p, q

MCAddr == {Nobody, alice, bob, carol}
MCCoinbaseOf == [a \in {alice, carol} |-> IF a = alice THEN tc ELSE td]

\* Nobody has the key of the genesis address.
MCOwner ==
    [o \in Outpoint |->
        CASE o = g0 -> Nobody [] o = c0 -> alice [] o = d0 -> carol [] OTHER -> bob]
MCSpends == [t \in Tx |-> IF t \in {tx, ty} THEN {c0} ELSE {}]
MCCreates ==
    [t \in Tx |->
        CASE t = tg -> {g0} [] t = tc -> {c0} [] t = td -> {d0} [] t = tx -> {x0} [] t = ty -> {y0}]

\* New blocks take the least hash that is free. Hashes are compared only when the index is
\* rebuilt, and two blocks of a height are still stored in either order.
HashesInOrder == \A h \in Hash \cap (Taken' \ Taken), g \in Hash \ Taken' : h < g

\* What the flushes of the mempool return.
OnePayment == {<<>>, <<tx>>}
Conflicting == {<<>>, <<tx>>, <<ty>>}
AtOnce == {<<>>, <<tx>>, <<tx, ty>>}
=============================================================================
