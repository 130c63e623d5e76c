--------------------------- MODULE CidrSetProofs ----------------------------
(***************************************************************************)
(* A CidrSet of any size keeps its counter right and implements a pool.    *)
(***************************************************************************)
EXTENDS CidrSet, CidrSetLemmas

\* The inductive invariant: the bounds of the fields follow only from the
\* counter being the size of the bitmap's contents.
IInv == Sound(cs, MaxCIDRs) /\ reply \in Replies

\* Ranges that Occupy and Release receive lie within the bitmap.
LEMMA RangesAreBlocks ==
  ASSUME NEW r \in Ranges
  PROVE  r \in SUBSET Blocks(MaxCIDRs)
BY MaxCIDRsAssumption DEF Ranges, Blocks

\* What one granting call of AllocateNext does to a sound struct.
LEMMA GrantStep ==
  ASSUME IInv, ~NoneRemaining(cs), NEW tries \in 0 .. MaxCIDRs,
         ScanStopsAfter(cs, tries), cs' = AllocateAfter(cs, tries)
  PROVE  /\ Sound(cs', MaxCIDRs)
         /\ Candidate(cs, tries) \in Blocks(MaxCIDRs) \ cs.used
         /\ cs'.used = cs.used \cup {Candidate(cs, tries)}
<1>1. Sound(cs, MaxCIDRs) /\ cs \in CidrSets(MaxCIDRs)
  BY DEF IInv, Sound
<1>2. /\ Candidate(cs, tries) \in Blocks(MaxCIDRs)
      /\ Candidate(cs, tries) \notin cs.used
  BY <1>1, MaxCIDRsAssumption, ScanFindsFree
<1>3. Sound(cs', MaxCIDRs)
  BY <1>1, <1>2, MaxCIDRsAssumption, AllocateSound
<1>4. cs'.used = cs.used \cup {Candidate(cs, tries)}
  BY <1>1 DEF AllocateAfter, CidrSets
<1> QED
  BY <1>2, <1>3, <1>4

\* Every call keeps the invariant.
LEMMA Inductive ==
  ASSUME IInv, [Next]_vars
  PROVE  IInv'
<1> USE MaxCIDRsAssumption
<1>1. CASE AllocateNext
  <2>1. CASE NoneRemaining(cs)
    BY <1>1, <2>1 DEF AllocateNext, IInv, Replies
  <2>2. CASE ~NoneRemaining(cs)
    <3>1. PICK tries \in 0 .. MaxCIDRs :
            /\ ScanStopsAfter(cs, tries)
            /\ cs' = AllocateAfter(cs, tries)
            /\ reply' = Granted(Candidate(cs, tries))
      BY <1>1, <2>2 DEF AllocateNext
    <3>2. /\ Sound(cs', MaxCIDRs)
          /\ Candidate(cs, tries) \in Blocks(MaxCIDRs)
      BY <2>2, <3>1, GrantStep
    <3> QED
      BY <3>1, <3>2 DEF IInv, Replies
  <2> QED
    BY <2>1, <2>2
<1>2. CASE \E r \in Ranges : OccupyRange(r)
  <2>1. PICK r \in Ranges : OccupyRange(r)
    BY <1>2
  <2>2. Sound(Occupy(cs, r), MaxCIDRs)
    BY RangesAreBlocks, OccupySound DEF IInv
  <2> QED
    BY <2>1, <2>2 DEF OccupyRange, IInv, Replies
<1>3. CASE \E r \in Ranges : ReleaseRange(r)
  <2>1. PICK r \in Ranges : ReleaseRange(r)
    BY <1>3
  <2>2. Sound(Release(cs, r), MaxCIDRs)
    BY RangesAreBlocks, ReleaseSound DEF IInv
  <2> QED
    BY <2>1, <2>2 DEF ReleaseRange, IInv, Replies
<1>4. CASE UNCHANGED vars
  BY <1>4 DEF vars, IInv, Replies
<1> QED
  BY <1>1, <1>2, <1>3, <1>4 DEF Next

\* The invariant holds throughout.
LEMMA AlwaysSound == Spec => []IInv
<1>1. Init => IInv
  BY MaxCIDRsAssumption, NewSound DEF Init, IInv, Replies
<1>2. IInv /\ [Next]_vars => IInv'
  BY Inductive
<1> QED
  BY <1>1, <1>2, PTL DEF Spec

\* The struct's fields never leave their bounds, for every maxCIDRs.
THEOREM TypeCorrect == Spec => []TypeOK
<1>1. IInv => TypeOK
  BY DEF IInv, Sound, TypeOK
<1> QED
  BY <1>1, AlwaysSound, PTL

\* allocatedCIDRs is the number of set bits, for every maxCIDRs: the double
\* counting that Occupy and Release guard against cannot happen.
THEOREM CounterCorrect == Spec => []CounterMatchesBitmap
<1>1. IInv => CounterMatchesBitmap
  BY DEF IInv, Sound, CounterMatchesBitmap
<1> QED
  BY <1>1, AlwaysSound, PTL

\* A CidrSet of any size is a pool: what AllocateNext grants was free, and it
\* answers ErrCIDRRangeNoCIDRsRemaining only when nothing is.
THEOREM ImplementsPool == Spec => PoolImplemented
<1> USE MaxCIDRsAssumption
<1>1. Init => Pool!PoolInit
  BY DEF Init, Pool!PoolInit, Pool!PoolBlocks, Blocks, NewCIDRSet, Nothing, Pool!Nothing
<1>2. ASSUME IInv, [Next]_vars PROVE [Pool!PoolNext]_(Pool!poolVars)
  <2> DEFINE free == Blocks(MaxCIDRs) \ cs.used
  <2>0. /\ Sound(cs, MaxCIDRs) /\ cs \in CidrSets(MaxCIDRs)
        /\ cs.used \in SUBSET Blocks(MaxCIDRs) /\ cs.maxCIDRs = MaxCIDRs
    BY <1>2 DEF IInv, Sound, CidrSets
  <2>1. CASE AllocateNext /\ NoneRemaining(cs)
    <3>1. Cardinality(cs.used) = MaxCIDRs
      BY <2>0, <2>1 DEF NoneRemaining, Sound
    <3>2. cs.used = Blocks(MaxCIDRs)
      BY <2>0, <3>1, UsedFinite
    <3>3. Pool!Exhausted
      BY <2>1, <3>2 DEF AllocateNext, Pool!Exhausted, Pool!NoneLeft,
                        ErrCIDRRangeNoCIDRsRemaining
    <3> QED
      BY <3>3 DEF Pool!PoolNext
  <2>2. CASE AllocateNext /\ ~NoneRemaining(cs)
    <3>1. PICK tries \in 0 .. MaxCIDRs :
            /\ ScanStopsAfter(cs, tries)
            /\ cs' = AllocateAfter(cs, tries)
            /\ reply' = Granted(Candidate(cs, tries))
      BY <2>2 DEF AllocateNext
    <3>2. /\ Candidate(cs, tries) \in free
          /\ cs'.used = cs.used \cup {Candidate(cs, tries)}
      BY <1>2, <2>2, <3>1, GrantStep
    <3>3. free' = free \ {Candidate(cs, tries)}
      BY <3>2
    <3>4. Pool!Take
      BY <3>1, <3>2, <3>3 DEF Pool!Take, Pool!Granted, Granted
    <3> QED
      BY <3>4 DEF Pool!PoolNext
  <2>3. CASE \E r \in Ranges : OccupyRange(r)
    <3>1. PICK r \in Ranges : OccupyRange(r)
      BY <2>3
    <3>2. r \in SUBSET Blocks(MaxCIDRs) /\ free' = free \ r
      BY <2>0, <3>1, RangesAreBlocks DEF OccupyRange, Occupy, CidrSets
    <3>3. Pool!Withdraw
      BY <3>1, <3>2 DEF OccupyRange, Pool!Withdraw, Pool!PoolBlocks, Blocks,
                        Nothing, Pool!Nothing
    <3> QED
      BY <3>3 DEF Pool!PoolNext
  <2>4. CASE \E r \in Ranges : ReleaseRange(r)
    <3>1. PICK r \in Ranges : ReleaseRange(r)
      BY <2>4
    <3>2. r \in SUBSET Blocks(MaxCIDRs) /\ free' = free \cup r
      BY <2>0, <3>1, RangesAreBlocks DEF ReleaseRange, Release, CidrSets
    <3>3. Pool!GiveBack
      BY <3>1, <3>2 DEF ReleaseRange, Pool!GiveBack, Pool!PoolBlocks, Blocks,
                        Nothing, Pool!Nothing
    <3> QED
      BY <3>3 DEF Pool!PoolNext
  <2>5. CASE UNCHANGED vars
    BY <2>5 DEF vars, Pool!poolVars
  <2> QED
    BY <1>2, <2>1, <2>2, <2>3, <2>4, <2>5 DEF Next
<1> QED
  BY <1>1, <1>2, AlwaysSound, PTL DEF Spec, PoolImplemented, Pool!PoolSpec

-----------------------------------------------------------------------------
\* How many steps of the scan away a block is.
Distance(next, b) == IF b >= next THEN b - next ELSE b - next + MaxCIDRs

\* The block that AllocateNext tries at its i-th step is at distance i.
LEMMA CandidateAtDistance ==
  ASSUME NEW set \in CidrSets(MaxCIDRs), NEW b \in Blocks(MaxCIDRs)
  PROVE  /\ Distance(set.nextCandidate, b) \in 0 .. MaxCIDRs - 1
         /\ Candidate(set, Distance(set.nextCandidate, b)) = b
         /\ \A i \in 0 .. MaxCIDRs - 1 : Candidate(set, i) = b => Distance(set.nextCandidate, b) = i
<1> DEFINE next == set.nextCandidate
<1> USE MaxCIDRsAssumption
<1>1. next \in 0 .. MaxCIDRs - 1 /\ b \in 0 .. MaxCIDRs - 1 /\ set.maxCIDRs = MaxCIDRs
  BY DEF CidrSets, Blocks
<1>2. \A i \in 0 .. MaxCIDRs - 1 : Candidate(set, i) = IF next + i < MaxCIDRs THEN next + i ELSE next + i - MaxCIDRs
  <2>1. ASSUME NEW i \in 0 .. MaxCIDRs - 1
        PROVE  Candidate(set, i) = IF next + i < MaxCIDRs THEN next + i ELSE next + i - MaxCIDRs
    <3>1. PICK x \in 0 .. 2 * MaxCIDRs - 1 : x = next + i
      BY <1>1
    <3>2. x % MaxCIDRs = IF x < MaxCIDRs THEN x ELSE x - MaxCIDRs
      BY ModTwoLaps, Zenon
    <3> QED
      BY <1>1, <3>1, <3>2 DEF Candidate
  <2> QED
    BY <2>1
<1> HIDE DEF next
<1>3. Distance(next, b) \in 0 .. MaxCIDRs - 1
  BY <1>1 DEF Distance
<1>4. Candidate(set, Distance(next, b)) = b
  BY <1>1, <1>2, <1>3 DEF Distance
<1>5. \A i \in 0 .. MaxCIDRs - 1 : Candidate(set, i) = b => Distance(next, b) = i
  BY <1>1, <1>2 DEF Distance
<1> QED
  BY <1>3, <1>4, <1>5 DEF next

\* After a grant the block that was granted is the farthest, and those behind it are nearer
\* by as much as the cursor moved.
LEMMA CursorMoves ==
  ASSUME NEW next \in Blocks(MaxCIDRs), NEW b \in Blocks(MaxCIDRs), NEW x \in Blocks(MaxCIDRs)
  PROVE  LET after == (b + 1) % MaxCIDRs IN
         /\ Distance(after, b) = MaxCIDRs - 1
         /\ x # b => Distance(after, x) < MaxCIDRs - 1
         /\ Distance(next, x) > Distance(next, b) =>
              Distance(after, x) = Distance(next, x) - Distance(next, b) - 1
<1> USE MaxCIDRsAssumption
<1>1. PICK after : after = (b + 1) % MaxCIDRs
  OBVIOUS
<1>2. after = IF b + 1 < MaxCIDRs THEN b + 1 ELSE 0
  <2>1. PICK y \in 0 .. 2 * MaxCIDRs - 1 : y = b + 1
    BY DEF Blocks
  <2>2. y % MaxCIDRs = IF y < MaxCIDRs THEN y ELSE y - MaxCIDRs
    BY ModTwoLaps, Zenon
  <2> QED
    BY <1>1, <2>1, <2>2 DEF Blocks
<1>3. /\ Distance(after, b) = MaxCIDRs - 1
      /\ x # b => Distance(after, x) < MaxCIDRs - 1
  BY <1>2 DEF Distance, Blocks
<1>4. Distance(next, x) > Distance(next, b) =>
        Distance(after, x) = Distance(next, x) - Distance(next, b) - 1
  BY <1>2 DEF Distance, Blocks
<1> QED
  BY <1>1, <1>3, <1>4

\* The inductive invariant: a block that has been free since b was granted is nearer to the
\* cursor than b.
ReuseInv ==
  /\ IInv
  /\ waiting \in [Blocks(MaxCIDRs) -> SUBSET Blocks(MaxCIDRs)]
  /\ \A b \in Blocks(MaxCIDRs) : \A w \in waiting[b] :
       w \notin cs.used /\ Distance(cs.nextCandidate, w) < Distance(cs.nextCandidate, b)

\* Granted tells the blocks apart, and from the other replies.
LEMMA RepliesDiffer ==
  ASSUME NEW b \in Blocks(MaxCIDRs), NEW c \in Blocks(MaxCIDRs)
  PROVE  (Granted(b) = Granted(c) => b = c) /\ Granted(b) \notin {Nothing, ErrCIDRRangeNoCIDRsRemaining}
BY MaxCIDRsAssumption DEF Granted, Nothing, ErrCIDRRangeNoCIDRsRemaining, Blocks

\* A call that leaves the cursor alone, and grants nothing.
LEMMA CursorStays ==
  ASSUME ReuseInv, IInv', Observe, cs'.nextCandidate = cs.nextCandidate,
         reply' \in {Nothing, ErrCIDRRangeNoCIDRsRemaining}
  PROVE  ReuseInv' /\ \A b \in Blocks(MaxCIDRs) : reply' # Granted(b)
<1>1. \A b \in Blocks(MaxCIDRs) : reply' # Granted(b)
  BY RepliesDiffer
<1>2. waiting' = [b \in Blocks(MaxCIDRs) |-> waiting[b] \ cs'.used]
  BY <1>1 DEF Observe
<1> QED
  BY <1>1, <1>2 DEF ReuseInv

\* A call that grants a block: nothing that waited for it is free, and all that is free now waits.
LEMMA GrantComesLast ==
  ASSUME ReuseInv, IInv', Observe, ~NoneRemaining(cs), NEW tries \in 0 .. MaxCIDRs,
         ScanStopsAfter(cs, tries), cs' = AllocateAfter(cs, tries), reply' = Granted(Candidate(cs, tries))
  PROVE  ReuseInv' /\ \A b \in Blocks(MaxCIDRs) : reply' = Granted(b) => waiting[b] = {}
<1> USE MaxCIDRsAssumption
<1> DEFINE next == cs.nextCandidate
<1>1. Sound(cs, MaxCIDRs) /\ cs \in CidrSets(MaxCIDRs) /\ next \in Blocks(MaxCIDRs) /\ cs.maxCIDRs = MaxCIDRs
  BY DEF ReuseInv, IInv, Sound, CidrSets
<1>2. PICK g \in Blocks(MaxCIDRs) : g = Candidate(cs, tries) /\ g \notin cs.used /\ tries < MaxCIDRs
  BY <1>1, ScanFindsFree
<1>3. cs'.used = cs.used \cup {g} /\ cs'.nextCandidate = (g + 1) % MaxCIDRs
  BY <1>1, <1>2 DEF AllocateAfter, CidrSets
<1>4. Distance(next, g) = tries
  BY <1>1, <1>2, CandidateAtDistance
<1>5. ASSUME NEW w \in Blocks(MaxCIDRs), w \notin cs.used, w # g PROVE Distance(next, w) > Distance(next, g)
  <2>1. PICK i \in 0 .. MaxCIDRs - 1 : i = Distance(next, w) /\ Candidate(cs, i) = w
    BY <1>1, CandidateAtDistance
  <2>2. ~(i < tries)
    BY <1>5, <2>1 DEF ScanStopsAfter
  <2>3. i # tries
    BY <1>2, <1>5, <2>1
  <2> QED
    BY <1>4, <2>1, <2>2, <2>3
<1>6. \A b \in Blocks(MaxCIDRs) : reply' = Granted(b) <=> b = g
  BY <1>2, RepliesDiffer
<1>7. waiting[g] = {}
  <2> SUFFICES ASSUME NEW w \in waiting[g] PROVE FALSE
    BY DEF ReuseInv
  <2>1. w \in Blocks(MaxCIDRs) /\ w \notin cs.used /\ Distance(next, w) < Distance(next, g)
    BY DEF ReuseInv
  <2>2. Distance(next, w) \in Nat /\ Distance(next, g) \in Nat
    BY <1>1, <2>1, CandidateAtDistance
  <2>3. w = g
    BY <1>5, <2>1, <2>2
  <2> QED
    BY <2>1, <2>2, <2>3
<1>8. waiting' = [b \in Blocks(MaxCIDRs) |-> IF b = g THEN Blocks(MaxCIDRs) \ cs'.used ELSE waiting[b] \ cs'.used]
  BY <1>6 DEF Observe
<1>9. PICK after : after = (g + 1) % MaxCIDRs
  OBVIOUS
<1>10. ASSUME NEW b \in Blocks(MaxCIDRs), NEW w \in waiting'[b]
       PROVE  w \notin cs'.used /\ Distance(after, w) < Distance(after, b)
  <2>1. w \in Blocks(MaxCIDRs) /\ w \notin cs'.used /\ w # g /\ w \notin cs.used
    BY <1>3, <1>8, <1>10 DEF ReuseInv
  <2>2. CASE b = g
    BY <1>1, <1>9, <2>1, <2>2, CursorMoves
  <2>3. CASE b # g
    <3>1. w \in waiting[b]
      BY <1>8, <1>10, <2>3
    <3>2. Distance(next, w) < Distance(next, b) /\ Distance(next, w) > Distance(next, g)
      BY <1>5, <2>1, <3>1 DEF ReuseInv
    <3>3. Distance(next, w) \in Int /\ Distance(next, b) \in Int /\ Distance(next, g) \in Int
      BY <1>1, <2>1, CandidateAtDistance
    <3>4. /\ Distance(after, w) = Distance(next, w) - Distance(next, g) - 1
          /\ Distance(after, b) = Distance(next, b) - Distance(next, g) - 1
      BY <1>1, <1>9, <2>1, <3>2, <3>3, CursorMoves
    <3> QED
      BY <2>1, <3>2, <3>3, <3>4
  <2> QED
    BY <2>2, <2>3
<1>11. waiting' \in [Blocks(MaxCIDRs) -> SUBSET Blocks(MaxCIDRs)]
  BY <1>8 DEF ReuseInv
<1>12. ReuseInv'
  BY <1>3, <1>9, <1>10, <1>11 DEF ReuseInv
<1> QED
  BY <1>6, <1>7, <1>12

\* For every maxCIDRs, a block is granted again only after every other one that has been free
\* all the while, whatever is occupied and released in between.
THEOREM ReuseIsLast == ObservedSpec => ReuseComesLast
<1>1. ObservedInit => ReuseInv
  <2>1. Init => IInv
    BY MaxCIDRsAssumption, NewSound DEF Init, IInv, Replies
  <2> QED
    BY <2>1 DEF ObservedInit, ReuseInv
<1>2. ASSUME ReuseInv, ObservedNext
      PROVE  ReuseInv' /\ \A b \in Blocks(MaxCIDRs) : reply' = Granted(b) => waiting[b] = {}
  <2>1. IInv' /\ cs \in CidrSets(MaxCIDRs)
    BY <1>2, Inductive DEF ReuseInv, ObservedNext, IInv, Sound
  <2>2. CASE AllocateNext /\ NoneRemaining(cs)
    BY <1>2, <2>1, <2>2, CursorStays DEF AllocateNext, ObservedNext
  <2>3. CASE AllocateNext /\ ~NoneRemaining(cs)
    BY <1>2, <2>1, <2>3, GrantComesLast DEF AllocateNext, ObservedNext
  <2>4. ASSUME NEW r \in Ranges, OccupyRange(r) \/ ReleaseRange(r)
        PROVE  cs'.nextCandidate = cs.nextCandidate /\ reply' = Nothing
    BY <2>1, <2>4 DEF OccupyRange, ReleaseRange, Occupy, Release, CidrSets
  <2>5. CASE \E r \in Ranges : OccupyRange(r) \/ ReleaseRange(r)
    BY <1>2, <2>1, <2>4, <2>5, CursorStays DEF ObservedNext
  <2> QED
    BY <1>2, <2>2, <2>3, <2>5 DEF ObservedNext, Next
<1>3. ReuseInv /\ UNCHANGED <<cs, reply, waiting>> => ReuseInv'
  BY DEF ReuseInv, IInv, Sound, Replies
<1>4. ReuseInv /\ [ObservedNext]_<<cs, reply, waiting>> =>
        ReuseInv' /\ [\A b \in Blocks(MaxCIDRs) : reply' = Granted(b) => waiting[b] = {}]_<<cs, reply, waiting>>
  BY <1>2, <1>3
<1> QED
  BY <1>1, <1>4, PTL DEF ObservedSpec, ReuseComesLast
=============================================================================
