------------------------------ MODULE BlockPool -----------------------------
(***************************************************************************)
(* What a CidrSet promises its callers: a pool of node CIDRs from which    *)
(* a call takes any one that is free, fails exactly when none is, and to   *)
(* which ranges can be returned, or from which they can be withdrawn,      *)
(* whatever their state.                                                   *)
(***************************************************************************)
EXTENDS Integers

CONSTANT MaxCIDRs

VARIABLES free,   \* the node CIDRs nobody holds
          reply   \* what the last call answered

poolVars == <<free, reply>>

PoolBlocks == 0 .. MaxCIDRs - 1

Nothing == [err |-> FALSE, block |-> -1]
NoneLeft == [err |-> TRUE, block |-> -1]
Granted(b) == [err |-> FALSE, block |-> b]

PoolInit == free = PoolBlocks /\ reply = Nothing

Take == \E b \in free : free' = free \ {b} /\ reply' = Granted(b)

Exhausted == free = {} /\ reply' = NoneLeft /\ UNCHANGED free

Withdraw == \E r \in SUBSET PoolBlocks : free' = free \ r /\ reply' = Nothing

GiveBack == \E r \in SUBSET PoolBlocks : free' = free \cup r /\ reply' = Nothing

PoolNext == Take \/ Exhausted \/ Withdraw \/ GiveBack

PoolSpec == PoolInit /\ [][PoolNext]_poolVars
=============================================================================
