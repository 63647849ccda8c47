------------------------------- MODULE MCPool -------------------------------
(***************************************************************************)
(* A small instance of Pool for TLC: coins that are handed on. Carol, for  *)
(* whom the peers mine (output d0), pays alice by tv; alice, whose wallet  *)
(* the node has and mines for (output c0), pays on by tx. Alice also tries *)
(* to pay by tz, but the signature is short.                               *)
(***************************************************************************)
EXTENDS Pool

CONSTANTS Nobody, alice, carol, g0, c0, d0, v0, x0, tg, tc, td, tv, tx, tz

MCAddr == {Nobody, alice, carol}
MCCoinbaseOf == [a \in {alice, carol} |-> IF a = alice THEN tc ELSE td]
MCOwner ==
    [o \in Outpoint |->
        CASE o \in {c0, v0} -> alice [] o = g0 -> Nobody [] OTHER -> carol]
MCSpends ==
    [t \in Tx |->
        CASE t = tv -> {d0} [] t = tx -> {v0} [] t = tz -> {c0} [] OTHER -> {}]
MCCreates ==
    [t \in Tx |->
        CASE t = tg -> {g0} [] t = tc -> {c0} [] t = td -> {d0} [] t = tv -> {v0} [] t = tx -> {x0}
          [] OTHER -> {}]

\* What the blocks of the peers hold.
MCPeerBlock == {<<tv>>, <<tx>>}
MCShardOf == [t \in Payment |-> IF t = tx THEN 1 ELSE 2]
=============================================================================
