------------------------------ MODULE CidrSet -------------------------------
(***************************************************************************)
(* One cidrset.CidrSet under arbitrary calls of its exported methods.      *)
(* The methods hold the mutex from their first read of the shared fields   *)
(* to their return, so each is one step; the bounds of a range are         *)
(* computed before the lock, from fields that never change.                *)
(***************************************************************************)
EXTENDS CidrSetOps

CONSTANT MaxCIDRs

\* NewCIDRSet makes at least one node CIDR: its caller has checked that the
\* node mask is not shorter than the cluster mask.
ASSUME MaxCIDRsAssumption == MaxCIDRs \in Nat \ {0}

VARIABLES cs,     \* the struct
          reply,  \* what the last call answered
          waiting \* history: for each block, those that have been free ever since it was last granted

vars == <<cs, reply>>

Ranges == {b .. e : b \in Blocks(MaxCIDRs), e \in Blocks(MaxCIDRs)} \ {{}}

Nothing == [err |-> FALSE, block |-> -1]
ErrCIDRRangeNoCIDRsRemaining == [err |-> TRUE, block |-> -1]
Granted(b) == [err |-> FALSE, block |-> b]

Init == cs = NewCIDRSet(MaxCIDRs) /\ reply = Nothing

AllocateNext ==
  \/ /\ NoneRemaining(cs)
     /\ reply' = ErrCIDRRangeNoCIDRsRemaining
     /\ UNCHANGED cs
  \/ /\ ~NoneRemaining(cs)
     /\ \E tries \in 0 .. MaxCIDRs :
          /\ ScanStopsAfter(cs, tries)
          /\ cs' = AllocateAfter(cs, tries)
          /\ reply' = Granted(Candidate(cs, tries))

OccupyRange(r) == cs' = Occupy(cs, r) /\ reply' = Nothing

ReleaseRange(r) == cs' = Release(cs, r) /\ reply' = Nothing

Next == \/ AllocateNext
        \/ \E r \in Ranges : OccupyRange(r) \/ ReleaseRange(r)

Spec == Init /\ [][Next]_vars

\* The same with its history.
Observe ==
  waiting' = [b \in Blocks(MaxCIDRs) |->
                IF reply' = Granted(b) THEN Blocks(MaxCIDRs) \ cs'.used
                                       ELSE waiting[b] \ cs'.used]

ObservedInit == Init /\ waiting = [b \in Blocks(MaxCIDRs) |-> {}]
ObservedNext == Next /\ Observe
ObservedSpec == ObservedInit /\ [][ObservedNext]_<<cs, reply, waiting>>

-----------------------------------------------------------------------------
Replies == {Nothing, ErrCIDRRangeNoCIDRsRemaining}
             \cup {Granted(b) : b \in Blocks(MaxCIDRs)}

\* The fields of the struct stay within the bounds the code relies on: the
\* cursor is an index of the bitmap and the counter is neither negative nor
\* above maxCIDRs, whatever ranges are occupied or released twice.
TypeOK == cs \in CidrSets(MaxCIDRs) /\ reply \in Replies

\* allocatedCIDRs, the only thing AllocateNext looks at before it scans, is
\* the number of set bits, so that overlapping and repeated Occupy and
\* Release calls are never counted twice.
CounterMatchesBitmap == cs.allocatedCIDRs = Cardinality(cs.used)

\* The struct implements a pool: AllocateNext grants only a CIDR that is
\* free and reports exhaustion only when all of them are taken.
Pool == INSTANCE BlockPool WITH free <- Blocks(MaxCIDRs) \ cs.used

PoolImplemented == Pool!PoolSpec

\* The cursor nextCandidate makes reuse as late as it can be: AllocateNext
\* grants a block a second time only when no other block has been free
\* since it was granted before.
ReuseComesLast ==
  [][\A b \in Blocks(MaxCIDRs) : reply' = Granted(b) => waiting[b] = {}]_<<cs, reply, waiting>>
=============================================================================
