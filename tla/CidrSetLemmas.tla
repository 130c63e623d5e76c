--------------------------- MODULE CidrSetLemmas ----------------------------
(***************************************************************************)
(* What the operations of module CidrSetOps preserve and return, for every *)
(* size of the bitmap.                                                     *)
(***************************************************************************)
EXTENDS CidrSetOps, FiniteSetTheorems, TLAPS

\* The invariant of the struct: the counter is the number of set bits.
Sound(cs, max) == /\ cs \in CidrSets(max)
                  /\ cs.allocatedCIDRs = Cardinality(cs.used)

\* The index set of the bitmap is finite and has maxCIDRs elements.
LEMMA BlocksFinite ==
  ASSUME NEW max \in Nat
  PROVE  IsFiniteSet(Blocks(max)) /\ Cardinality(Blocks(max)) = max
BY FS_Interval DEF Blocks

\* A set of set bits is finite and no larger than the bitmap, and one as large
\* is the whole bitmap.
LEMMA UsedFinite ==
  ASSUME NEW max \in Nat, NEW U \in SUBSET Blocks(max)
  PROVE  /\ IsFiniteSet(U)
         /\ Cardinality(U) \in 0 .. max
         /\ Cardinality(U) = max => U = Blocks(max)
<1>1. IsFiniteSet(Blocks(max)) /\ Cardinality(Blocks(max)) = max
  BY BlocksFinite
<1>2. /\ IsFiniteSet(U)
      /\ Cardinality(U) <= Cardinality(Blocks(max))
      /\ Cardinality(Blocks(max)) = Cardinality(U) => Blocks(max) = U
  BY <1>1, FS_Subset, Zenon
<1>3. Cardinality(U) \in Nat
  BY <1>2, FS_CardinalityType
<1> QED
  BY <1>1, <1>2, <1>3

\* The remainder on the two laps of the cursor the code can see.
LEMMA ModTwoLaps ==
  ASSUME NEW m \in Nat \ {0}, NEW x \in 0 .. 2 * m - 1
  PROVE  x % m = IF x < m THEN x ELSE x - m
OBVIOUS

\* Every block is the candidate of some try of the scan.
LEMMA ScanReachesAll ==
  ASSUME NEW max \in Nat \ {0}, NEW cs \in CidrSets(max), NEW b \in Blocks(max)
  PROVE  \E i \in 0 .. max - 1 : Candidate(cs, i) = b
<1> DEFINE next == cs.nextCandidate
<1> DEFINE i == IF b >= next THEN b - next ELSE b - next + max
<1>1. next \in 0 .. max - 1 /\ b \in 0 .. max - 1 /\ cs.maxCIDRs = max
  BY DEF CidrSets, Blocks
<1>2. i \in 0 .. max - 1 /\ next + i \in 0 .. 2 * max - 1
  BY <1>1
<1>3. (next + i) % max = b
  BY <1>1, <1>2, ModTwoLaps
<1> QED
  BY <1>1, <1>2, <1>3 DEF Candidate

\* NewCIDRSet returns a sound struct.
LEMMA NewSound ==
  ASSUME NEW max \in Nat \ {0}
  PROVE  Sound(NewCIDRSet(max), max)
BY FS_EmptySet DEF Sound, NewCIDRSet, CidrSets, Blocks

\* Occupy keeps the struct sound, whatever of the range was occupied before.
LEMMA OccupySound ==
  ASSUME NEW max \in Nat \ {0}, NEW cs, Sound(cs, max),
         NEW range \in SUBSET Blocks(max)
  PROVE  Sound(Occupy(cs, range), max)
<1> DEFINE u == cs.used
<1>1. cs \in CidrSets(max) /\ u \in SUBSET Blocks(max)
      /\ cs.allocatedCIDRs = Cardinality(u)
  BY DEF Sound, CidrSets
<1>2. u \cup range \in SUBSET Blocks(max)
  BY <1>1
<1>3. IsFiniteSet(u) /\ IsFiniteSet(range \ u) /\ Cardinality(u) \in Nat
      /\ Cardinality(range \ u) \in Nat
  <2>1. range \ u \in SUBSET Blocks(max)
    OBVIOUS
  <2> QED
    BY <1>1, <2>1, UsedFinite
<1>4. Cardinality(u \cup range) = Cardinality(u) + Cardinality(range \ u)
  <2>1. u \cup range = u \cup (range \ u) /\ u \cap (range \ u) = {}
    OBVIOUS
  <2>2. Cardinality(u \cup (range \ u)) =
          Cardinality(u) + Cardinality(range \ u) - Cardinality(u \cap (range \ u))
    BY <1>3, FS_Union, Zenon
  <2>3. Cardinality(u \cap (range \ u)) = 0
    BY <2>1, FS_EmptySet, Zenon
  <2>4. Cardinality(u \cup range) = Cardinality(u \cup (range \ u))
    BY <2>1, Zenon
  <2> HIDE DEF u
  <2> QED
    BY <2>2, <2>3, <2>4, <1>3
<1>5. Cardinality(u \cup range) \in 0 .. max
  BY <1>2, UsedFinite
<1> QED
  BY <1>1, <1>2, <1>4, <1>5 DEF Sound, CidrSets, Occupy

\* Release keeps the struct sound, whatever of the range was free before.
LEMMA ReleaseSound ==
  ASSUME NEW max \in Nat \ {0}, NEW cs, Sound(cs, max),
         NEW range \in SUBSET Blocks(max)
  PROVE  Sound(Release(cs, range), max)
<1> DEFINE u == cs.used
<1>1. cs \in CidrSets(max) /\ u \in SUBSET Blocks(max)
      /\ cs.allocatedCIDRs = Cardinality(u)
  BY DEF Sound, CidrSets
<1>2. u \ range \in SUBSET Blocks(max)
  BY <1>1
<1>3. IsFiniteSet(u) /\ Cardinality(u) \in Nat /\ Cardinality(u \cap range) \in Nat
  <2>1. u \cap range \in SUBSET Blocks(max)
    BY <1>1
  <2> QED
    BY <1>1, <2>1, UsedFinite
<1>4. Cardinality(u \ range) = Cardinality(u) - Cardinality(u \cap range)
  BY <1>3, FS_Difference, Zenon
<1>5. Cardinality(u \ range) \in 0 .. max
  BY <1>2, UsedFinite
<1>6. u \cap range = range \cap u
  OBVIOUS
<1>7. Release(cs, range) = [cs EXCEPT !.used = u \ range,
                                      !.allocatedCIDRs = Cardinality(u \ range)]
  BY <1>1, <1>4, <1>6 DEF Release, CidrSets
<1> QED
  BY <1>1, <1>2, <1>5, <1>7 DEF Sound, CidrSets

\* A scan of a set that is not full stops at a free block before it has gone
\* round: the loop of AllocateNext never falls through on a used one.
LEMMA ScanFindsFree ==
  ASSUME NEW max \in Nat \ {0}, NEW cs, Sound(cs, max), ~NoneRemaining(cs),
         NEW tries \in 0 .. max, ScanStopsAfter(cs, tries)
  PROVE  /\ tries < max
         /\ Candidate(cs, tries) \in Blocks(max)
         /\ Candidate(cs, tries) \notin cs.used
<1>1. /\ cs \in CidrSets(max) /\ cs.used \in SUBSET Blocks(max)
      /\ cs.maxCIDRs = max /\ cs.nextCandidate \in 0 .. max - 1
      /\ cs.allocatedCIDRs = Cardinality(cs.used)
  BY DEF Sound, CidrSets, Blocks
<1>2. ASSUME tries = max PROVE FALSE
  <2>1. \A i \in 0 .. max - 1 : Candidate(cs, i) \in cs.used
    BY <1>2 DEF ScanStopsAfter
  <2>2. Blocks(max) \subseteq cs.used
    BY <1>1, <2>1, ScanReachesAll
  <2>3. cs.used = Blocks(max)
    BY <1>1, <2>2
  <2>4. Cardinality(cs.used) = max
    BY <2>3, BlocksFinite
  <2> QED
    BY <1>1, <2>4 DEF NoneRemaining
<1>3. tries < max
  BY <1>2
<1>4. Candidate(cs, tries) \notin cs.used
  BY <1>1, <1>3 DEF ScanStopsAfter
<1>5. Candidate(cs, tries) \in Blocks(max)
  BY <1>1 DEF Candidate, Blocks
<1> QED
  BY <1>3, <1>4, <1>5

\* Granting a free candidate keeps the struct sound.
LEMMA AllocateSound ==
  ASSUME NEW max \in Nat \ {0}, NEW cs, Sound(cs, max),
         NEW tries \in 0 .. max,
         Candidate(cs, tries) \in Blocks(max), Candidate(cs, tries) \notin cs.used
  PROVE  Sound(AllocateAfter(cs, tries), max)
<1> DEFINE c == Candidate(cs, tries)
<1>1. /\ cs \in CidrSets(max) /\ cs.used \in SUBSET Blocks(max)
      /\ cs.maxCIDRs = max
      /\ cs.allocatedCIDRs = Cardinality(cs.used)
  BY DEF Sound, CidrSets
<1>2. cs.used \cup {c} \in SUBSET Blocks(max)
  BY <1>1
<1>3. Cardinality(cs.used \cup {c}) = Cardinality(cs.used) + 1
  BY <1>1, UsedFinite, FS_AddElement
<1>4. Cardinality(cs.used \cup {c}) \in 0 .. max
  BY <1>2, UsedFinite
<1>5. (c + 1) % max \in Blocks(max)
  BY DEF Blocks
<1> HIDE DEF c
<1>6. [cs EXCEPT !.used = @ \cup {c},
                 !.allocatedCIDRs = @ + 1,
                 !.nextCandidate = (c + 1) % max] \in CidrSets(max)
  BY <1>1, <1>2, <1>3, <1>4, <1>5 DEF CidrSets
<1> QED
  BY <1>1, <1>3, <1>6 DEF Sound, AllocateAfter, c, CidrSets
=============================================================================
