-------------------------- MODULE MCRangeAllocator --------------------------
(* TLC instances of RangeAllocator.                                        *)
EXTENDS RangeAllocator, TLC

CONSTANTS n1, n2, n3, w1, w2

EmptyCluster == [n \in Nodes |-> Absent]

\* n1 holds a block in the middle of the range when the controller starts.
OneOldNode == [EmptyCluster EXCEPT ![n1] = [live |-> TRUE, cidrs |-> <<1>>]]

\* The same with a block of each of two ranges; the first may be the one the
\* cursor starts at.
DualOld == {[EmptyCluster EXCEPT ![n1] = [live |-> TRUE, cidrs |-> <<b, 0>>]] : b \in {0, 1}}

OnlyEmpty == {EmptyCluster}
EmptyOrOld == {EmptyCluster, OneOldNode}

TwoBlocks == <<2>>
ThreeBlocks == <<3>>
FourBlocks == <<4>>
FourAndTwo == <<4, 2>>
NoneReserved == <<{}>>
LastReserved == <<{2}>>
LastReservedDual == <<{3}, {}>>

NodeSymmetry == Permutations(Nodes)
WorkerSymmetry == Permutations(Workers)

-----------------------------------------------------------------------------
(* What comments in range_allocator.go say of the program.  TLC refutes    *)
(* both.                                                                   *)

\* nodesInProcessing is there "to avoid races in CIDR allocation", and of two
\* reservations for one node the handler says "The cluster state is correct".
NoSharedCIDR == Disjoint(api)

\* updateCIDRsAllocation "may leak CIDRs here. This is safer than releasing
\* them in case when we don't know if request went through": with one attempt
\* per item, no item whose attempt timed out is released.
TimedOutNotReleased ==
  \A w \in Workers :
    workers[w].pc = "release" /\ workers[w].failed => workers[w].item \notin lingering
=============================================================================
