----------------------------- MODULE CidrBlocks -----------------------------
(***************************************************************************)
(* The arithmetic between the indices of a CidrSet's bitmap and the        *)
(* addresses they stand for, in both address families, and the tests the   *)
(* two allocators make before they reserve the service range.  Addresses   *)
(* are unsigned integers of the family's width; the widths are parameters  *)
(* (32 and 2 * 64 in the code) and shifts drop what leaves the word.       *)
(***************************************************************************)
EXTENDS Integers, Bitwise

CONSTANTS V4Bits,                \* the width of an IPv4 address
          HalfV6Bits,            \* the width of one half of an IPv6 address
          ClusterSubnetMaxDiff   \* node mask minus cluster mask, IPv6 only

ASSUME WidthAssumption == /\ V4Bits \in Nat \ {0}
                          /\ HalfV6Bits \in Nat \ {0}
                          /\ ClusterSubnetMaxDiff \in 0 .. HalfV6Bits

VARIABLES set,    \* the fields of the CidrSet that NewCIDRSet computes
          call,   \* the call in progress
          range   \* the indices it works on

blockVars == <<set, call, range>>

-----------------------------------------------------------------------------
(* net.IPNet: an address with the bits outside its mask cleared.           *)

Width(v4) == IF v4 THEN V4Bits ELSE 2 * HalfV6Bits

Masked(w, ip, mask) == ip - (ip % 2^(w - mask))

IPNets(v4) == {n \in [ip : 0 .. 2^Width(v4) - 1, mask : 0 .. Width(v4)] :
                 n.ip = Masked(Width(v4), n.ip, n.mask)}

Contains(w, n, ip) == Masked(w, ip, n.mask) = n.ip

LastAddress(w, n) == n.ip | (2^(w - n.mask) - 1)

-----------------------------------------------------------------------------
NewCIDRSets ==
  UNION {{[v4           |-> v4,
           ip           |-> n.ip,
           clusterMask  |-> n.mask,
           nodeMaskSize |-> m,
           maxCIDRs     |-> 2^(m - n.mask)] :
             m \in {m \in n.mask .. Width(v4) :
                      v4 \/ m - n.mask <= ClusterSubnetMaxDiff}} :
         <<v4, n>> \in UNION {{b} \X IPNets(b) : b \in BOOLEAN}}

ClusterCIDR(s) == [ip |-> s.ip, mask |-> s.clusterMask]

SetWidth(s) == Width(s.v4)

\* x << n and x >> n on an unsigned word.
ShiftLeft(word, x, n) == (x * 2^n) % 2^word
ShiftRight(x, n) == x \div 2^n

BitLength(x) == CHOOSE n \in 0 .. 2 * HalfV6Bits :
                  x < 2^n /\ (n > 0 => x >= 2^(n - 1))

V4Block(s, index) ==
  s.ip | ShiftLeft(V4Bits, index, V4Bits - s.nodeMaskSize)

\* Mutant: the bits that reach the left half are not carried over.
V6BlockWithoutCarry(s, index) ==
  LET half  == 2^HalfV6Bits
      left  == s.ip \div half
      right == s.ip % half
      newLeft  == IF s.nodeMaskSize <= HalfV6Bits
                  THEN left | ShiftLeft(HalfV6Bits, index,
                                        HalfV6Bits - s.nodeMaskSize)
                  ELSE left
      newRight == IF s.nodeMaskSize <= HalfV6Bits
                  THEN right
                  ELSE right | ShiftLeft(HalfV6Bits, index,
                                         2 * HalfV6Bits - s.nodeMaskSize)
  IN (newLeft * half) + newRight

V6Block(s, index) ==
  LET half  == 2^HalfV6Bits
      left  == s.ip \div half
      right == s.ip % half
      btl   == s.nodeMaskSize - HalfV6Bits
      newLeft  == IF btl <= 0 THEN left | ShiftLeft(HalfV6Bits, index, -btl)
                  ELSE IF s.clusterMask < HalfV6Bits /\ BitLength(index) > btl
                  THEN left | ShiftRight(index, btl)
                  ELSE left
      newRight == IF btl <= 0 THEN right
                  ELSE right | ShiftLeft(HalfV6Bits, index, HalfV6Bits - btl)
  IN (newLeft * half) + newRight

indexToCIDRBlock(s, index) ==
  [ip   |-> IF s.v4 THEN V4Block(s, index) ELSE V6Block(s, index),
   mask |-> s.nodeMaskSize]

\* -1 stands for the error "out of the range of CIDR allocator".  maxCIDRs is
\* converted to the address's width, uint32 for IPv4, before the comparison.
getIndexForIP(s, ip) ==
  LET index == ShiftRight(s.ip ^^ ip, SetWidth(s) - s.nodeMaskSize)
      limit == IF s.v4 THEN s.maxCIDRs % 2^V4Bits ELSE s.maxCIDRs
  IN IF index >= limit THEN -1 ELSE index

Overlap(w, a, b) == \/ Contains(w, a, Masked(w, b.ip, a.mask))
                    \/ Contains(w, b, Masked(w, a.ip, b.mask))

Failed == [begin |-> -1, end |-> -1]

getBeginingAndEndIndices(s, cidr) ==
  LET w     == SetWidth(s)
      begin == getIndexForIP(s, Masked(w, cidr.ip, s.nodeMaskSize))
      end   == getIndexForIP(s, Masked(w, LastAddress(w, cidr), s.nodeMaskSize))
  IN IF ~Overlap(w, ClusterCIDR(s), cidr) THEN Failed
     ELSE IF s.clusterMask >= cidr.mask THEN [begin |-> 0, end |-> s.maxCIDRs - 1]
     ELSE IF begin = -1 \/ end = -1 THEN Failed
     ELSE [begin |-> begin, end |-> end]

\* The bits Occupy and Release change; none when they return an error.
IndicesOf(s, cidr) ==
  LET r == getBeginingAndEndIndices(s, cidr)
  IN IF r = Failed THEN {} ELSE r.begin .. r.end

-----------------------------------------------------------------------------
(* What the two allocators mark as used for the service range.  They test  *)
(* for an intersection differently.                                        *)

filterOutServiceRange(s, svc) ==
  IF Overlap(SetWidth(s), ClusterCIDR(s), svc) THEN IndicesOf(s, svc) ELSE {}

occupyServiceCIDR(s, svc) ==
  IF \/ Contains(SetWidth(s), ClusterCIDR(s), svc.ip)
     \/ Contains(SetWidth(s), svc, s.ip)
  THEN IndicesOf(s, svc) ELSE {}

-----------------------------------------------------------------------------
(* One CidrSet, created with any legal arguments, answers one call after   *)
(* another.                                                                *)

NoCall == [op |-> "none"]

BlocksInit == /\ set \in NewCIDRSets
              /\ call = NoCall
              /\ range = {}

AllocateBlock(i) == /\ call = NoCall
                    /\ call' = [op |-> "block", cidr |-> indexToCIDRBlock(set, i)]
                    /\ range' = {i}
                    /\ UNCHANGED set

OccupyOrRelease(cidr) == /\ call = NoCall
                         /\ call' = [op |-> "range", cidr |-> cidr]
                         /\ range' = IndicesOf(set, cidr)
                         /\ UNCHANGED set

FilterService(svc) == /\ call = NoCall
                      /\ call' = [op |-> "filter", cidr |-> svc]
                      /\ range' = filterOutServiceRange(set, svc)
                      /\ UNCHANGED set

OccupyService(svc) == /\ call = NoCall
                      /\ call' = [op |-> "occupy", cidr |-> svc]
                      /\ range' = occupyServiceCIDR(set, svc)
                      /\ UNCHANGED set

ReturnFromCall == /\ call # NoCall
                  /\ call' = NoCall
                  /\ range' = {}
                  /\ UNCHANGED set

BlocksNext == \/ \E i \in 0 .. set.maxCIDRs - 1 : AllocateBlock(i)
              \/ \E cidr \in IPNets(set.v4) : OccupyOrRelease(cidr)
              \/ \E svc \in IPNets(set.v4) : FilterService(svc)
              \/ \E svc \in IPNets(set.v4) : OccupyService(svc)
              \/ ReturnFromCall

BlocksSpec == BlocksInit /\ [][BlocksNext]_blockVars

-----------------------------------------------------------------------------
(* The reference: blocks are consecutive intervals of addresses.           *)

Addresses(w, n) == n.ip .. n.ip + 2^(w - n.mask) - 1

BlockAddresses(s, i) ==
  LET size == 2^(SetWidth(s) - s.nodeMaskSize)
  IN s.ip + i * size .. s.ip + (i + 1) * size - 1

BlocksMeeting(s, n) ==
  {i \in 0 .. s.maxCIDRs - 1 :
     BlockAddresses(s, i) \cap Addresses(SetWidth(s), n) # {}}

\* maxCIDRs fits the word getIndexForIP compares it in.  Only an IPv4 /0
\* cluster cut into /32 nodes does not.
WordFits(s) == s.v4 => s.maxCIDRs < 2^V4Bits

\* indexToCIDRBlock cuts the cluster CIDR into consecutive blocks, in order,
\* and getIndexForIP maps every address of a block back to its index, also
\* where an IPv6 index is split between the two halves of the address: no
\* index loses bits in a shift, so no two indices name one block.
BlocksTileTheCluster ==
  call.op = "block" =>
    \A i \in range :
      /\ Addresses(SetWidth(set), call.cidr) = BlockAddresses(set, i)
      /\ WordFits(set) =>
           \A a \in BlockAddresses(set, i) : getIndexForIP(set, a) = i

\* Occupy and Release touch exactly the blocks that share an address with
\* the range they are given: none outside it, none missed at either end, and
\* an error exactly when the range and the cluster are disjoint.
RangeIsExact ==
  call.op = "range" /\ WordFits(set) =>
    /\ range = BlocksMeeting(set, call.cidr)
    /\ (getBeginingAndEndIndices(set, call.cidr) = Failed) =
         (range = {})

\* After filterOutServiceRange (range allocator) or occupyServiceCIDR (IPAM
\* controller) no allocatable block shares an address with the service
\* range, whichever of the two contains the other.
ServiceRangeReserved ==
  call.op \in {"filter", "occupy"} /\ WordFits(set) =>
    range = BlocksMeeting(set, call.cidr)

\* The arithmetic of cidr_set.go is exact for every cluster range, node mask and
\* argument: indices and blocks, the blocks a range meets, and the blocks the
\* service range takes.
BlocksAreExact == BlocksTileTheCluster /\ RangeIsExact /\ ServiceRangeReserved
=============================================================================
