----------------------------- MODULE CidrSetOps -----------------------------
(***************************************************************************)
(* The operations of cidrset.CidrSet as operators on a record that holds   *)
(* the fields of the Go struct which its methods change.  A node CIDR is   *)
(* its index in the bitmap "used"; what the index stands for is the        *)
(* subject of module CidrBlocks.  Every operator is one critical section   *)
(* under the mutex of the CidrSet.                                         *)
(***************************************************************************)
EXTENDS Integers, FiniteSets

Blocks(max) == 0 .. max - 1

CidrSets(max) == [maxCIDRs       : {max},
                  used           : SUBSET Blocks(max),
                  allocatedCIDRs : 0 .. max,
                  nextCandidate  : Blocks(max)]

NewCIDRSet(max) == [maxCIDRs       |-> max,
                    used           |-> {},
                    allocatedCIDRs |-> 0,
                    nextCandidate  |-> 0]

\* Mutant: the last block is never handed out.
NoneButOneRemaining(cs) == cs.allocatedCIDRs + 1 >= cs.maxCIDRs

\* AllocateNext answers ErrCIDRRangeNoCIDRsRemaining.
NoneRemaining(cs) == cs.allocatedCIDRs = cs.maxCIDRs

Candidate(cs, tries) == (cs.nextCandidate + tries) % cs.maxCIDRs

\* The scan of AllocateNext leaves its loop after "tries" occupied bits.
ScanStopsAfter(cs, tries) ==
  /\ \A i \in 0 .. tries - 1 : Candidate(cs, i) \in cs.used
  /\ tries < cs.maxCIDRs => Candidate(cs, tries) \notin cs.used

\* Mutant: the cursor does not move.
AllocateStuckCursor(cs, tries) ==
  [cs EXCEPT !.used = @ \cup {Candidate(cs, tries)},
             !.allocatedCIDRs = @ + 1]

AllocateAfter(cs, tries) ==
  [cs EXCEPT !.used = @ \cup {Candidate(cs, tries)},
             !.allocatedCIDRs = @ + 1,
             !.nextCandidate = (Candidate(cs, tries) + 1) % cs.maxCIDRs]

\* Mutant: blocks that were already occupied are counted again.
OccupyWithoutCheck(cs, range) ==
  [cs EXCEPT !.used = @ \cup range,
             !.allocatedCIDRs = @ + Cardinality(range)]

Occupy(cs, range) ==
  [cs EXCEPT !.used = @ \cup range,
             !.allocatedCIDRs = @ + Cardinality(range \ cs.used)]

\* Mutant: blocks that were already free are counted again.
ReleaseWithoutCheck(cs, range) ==
  [cs EXCEPT !.used = @ \ range,
             !.allocatedCIDRs = @ - Cardinality(range)]

Release(cs, range) ==
  [cs EXCEPT !.used = @ \ range,
             !.allocatedCIDRs = @ - Cardinality(range \cap cs.used)]
=============================================================================
