----------------------------- MODULE PaymentLife -----------------------------
(***************************************************************************)
(* What the pool of a node promises about a payment, whatever goroutines   *)
(* and shards there are: once it is pending it stays pending until a miner *)
(* takes it, a block that has it clears it, or the process ends. What is   *)
(* taken is kept for the block that is being made and enters the chain     *)
(* with it, all at once, or is given up, all at once. The chain forgets    *)
(* nothing.                                                                *)
(***************************************************************************)
CONSTANT Payment

VARIABLES
    pending,    \* the payments in the pool
    taken,      \* the payments the miner has taken out of it for a block
    confirmed   \* the payments in stored blocks

vars == <<pending, taken, confirmed>>

Init ==
    /\ pending = {}
    /\ taken = {}
    /\ confirmed = {}

Accept(t) ==
    /\ pending' = pending \cup {t}
    /\ UNCHANGED <<taken, confirmed>>

Take(S) ==
    /\ S \subseteq pending
    /\ pending' = pending \ S
    /\ taken' = taken \cup S
    /\ UNCHANGED confirmed

Confirm ==
    /\ confirmed' = confirmed \cup taken
    /\ taken' = {}
    /\ UNCHANGED pending

GiveUp ==
    /\ taken' = {}
    /\ UNCHANGED <<pending, confirmed>>

\* A block of somebody else has the payments S.
ConfirmElsewhere(S) ==
    /\ confirmed' = confirmed \cup S
    /\ UNCHANGED <<pending, taken>>

Clear(t) ==
    /\ t \in pending \cap confirmed
    /\ pending' = pending \ {t}
    /\ UNCHANGED <<taken, confirmed>>

End ==
    /\ pending' = {}
    /\ taken' = {}
    /\ UNCHANGED confirmed

Next ==
    \/ \E t \in Payment : Accept(t) \/ Clear(t)
    \/ \E S \in SUBSET Payment : Take(S) \/ ConfirmElsewhere(S)
    \/ Confirm
    \/ GiveUp
    \/ End

Spec == Init /\ [][Next]_vars
=============================================================================
