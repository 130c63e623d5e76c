------------------------- MODULE RangeAllocatorShape ------------------------
(***************************************************************************)
(* The shape of the range allocator's state, for every number of nodes,    *)
(* ranges, blocks and workers, every channel size and every environment    *)
(* bound.  Every list of CIDRs anywhere in the system avoids the service   *)
(* ranges, so the set of such lists takes the place of CIDRLists in the    *)
(* type invariant: that is what makes "the service range is never          *)
(* released" inductive.                                                    *)
(***************************************************************************)
EXTENDS RangeAllocator, CidrSetLemmas, SequenceTheorems

-----------------------------------------------------------------------------
CleanLists == {q \in CIDRLists : \A s \in 1 .. Len(q) : q[s] \notin Reserved[s]}

FullLists == {q \in CleanLists : Len(q) = NumSets}

CleanNodes == [live : BOOLEAN, cidrs : CleanLists]

CleanEvents == [type : {"add", "update", "delete"}, node : Nodes, cidrs : CleanLists]

CleanItems == [node : Nodes, cidrs : FullLists]

CleanHandlers ==
  {Idle}
  \cup [pc : {"alloc"}, node : Nodes, cidrs : {q \in CleanLists : Len(q) < NumSets}]
  \cup [pc : {"send"}, node : Nodes, cidrs : FullLists]

CleanWorkers ==
  {Idle} \cup [pc     : {"get", "patch", "release", "requeue"},
               item   : CleanItems,
               tries  : 0 .. Retries - 1,
               set    : Sets,
               failed : BOOLEAN]

NodesOK == /\ api \in [Nodes -> CleanNodes]
           /\ cache \in [Nodes -> CleanNodes]
           /\ \A n \in Nodes : ~api[n].live => api[n].cidrs = <<>>

EventsOK == watch \in Seq(CleanEvents) /\ notify \in Seq(CleanEvents)

SetsOK == /\ cidrSets = [s \in Sets |-> cidrSets[s]]
          /\ \A s \in Sets : /\ Sound(cidrSets[s], MaxCIDRs[s])
                             /\ Reserved[s] \subseteq cidrSets[s].used

QueueOK == /\ handler \in CleanHandlers
           /\ channel \in Seq(CleanItems)
           /\ Len(channel) <= QueueSize

WorkersOK == workers \in [Workers -> CleanWorkers] /\ lingering \subseteq CleanItems

GhostsOK ==
  /\ nodesInProcessing \subseteq Nodes
  /\ advanced \in [Sets -> Nat]
  /\ tainted \in BOOLEAN
  /\ budget \in [Spendings -> Nat]

ShapeInv == NodesOK /\ EventsOK /\ SetsOK /\ QueueOK /\ WorkersOK /\ GhostsOK

\* A list of CIDRs is a sequence indexed by ranges, each entry a block of its
\* range outside the service range.
LEMMA CleanListFacts ==
  ASSUME NEW q \in CleanLists
  PROVE  /\ q \in Seq(Nat) /\ Len(q) \in 0 .. NumSets /\ DOMAIN q = 1 .. Len(q)
         /\ \A s \in DOMAIN q : /\ s \in Sets
                                /\ q[s] \in Blocks(MaxCIDRs[s])
                                /\ q[s] \notin Reserved[s]
<1>1. /\ q \in Seq(Nat) /\ Len(q) <= NumSets
      /\ \A s \in 1 .. Len(q) : q[s] < MaxCIDRs[s] /\ q[s] \notin Reserved[s]
  BY DEF CleanLists, CIDRLists
<1>2. Len(q) \in Nat /\ DOMAIN q = 1 .. Len(q)
  BY <1>1, LenProperties
<1>3. \A s \in 1 .. Len(q) : q[s] \in Nat
  BY <1>1, ElementOfSeq
<1>4. \A s \in Sets : MaxCIDRs[s] \in Nat \ {0}
  BY ConstantsAssumption
<1>5. NumSets \in Nat
  BY ConstantsAssumption
<1> QED
  BY <1>1, <1>2, <1>3, <1>4, <1>5 DEF Sets, Blocks

\* The empty list is clean and of length zero.
LEMMA EmptyListClean == <<>> \in CleanLists /\ Len(<<>>) = 0 /\ DOMAIN <<>> = {}
BY ConstantsAssumption DEF CleanLists, CIDRLists

\* A list stays clean when a block of the next range is appended to it.
LEMMA AppendClean ==
  ASSUME NEW q \in CleanLists, Len(q) < NumSets,
         NEW c \in Blocks(MaxCIDRs[Len(q) + 1]), c \notin Reserved[Len(q) + 1]
  PROVE  /\ Append(q, c) \in CleanLists
         /\ Len(Append(q, c)) = Len(q) + 1
         /\ Append(q, c)[Len(q) + 1] = c
         /\ \A s \in DOMAIN q : Append(q, c)[s] = q[s]
<1>1. /\ q \in Seq(Nat) /\ Len(q) \in 0 .. NumSets /\ DOMAIN q = 1 .. Len(q)
      /\ \A s \in 1 .. Len(q) : q[s] < MaxCIDRs[s] /\ q[s] \notin Reserved[s]
  BY CleanListFacts DEF CleanLists, CIDRLists
<1>2. Len(q) + 1 \in Sets /\ MaxCIDRs[Len(q) + 1] \in Nat /\ NumSets \in Nat
  BY <1>1, ConstantsAssumption DEF Sets
<1>3. c \in Nat /\ c < MaxCIDRs[Len(q) + 1]
  BY <1>2 DEF Blocks
<1>4. Append(q, c) \in Seq(Nat) /\ Len(Append(q, c)) = Len(q) + 1
  BY <1>1, <1>3
<1>5. /\ Append(q, c)[Len(q) + 1] = c
      /\ \A s \in 1 .. Len(q) : Append(q, c)[s] = q[s]
  BY <1>1, <1>3
<1>6. \A s \in 1 .. Len(q) + 1 : /\ Append(q, c)[s] < MaxCIDRs[s]
                                 /\ Append(q, c)[s] \notin Reserved[s]
  <2>1. SUFFICES ASSUME NEW s \in 1 .. Len(q) + 1
                 PROVE  /\ Append(q, c)[s] < MaxCIDRs[s]
                        /\ Append(q, c)[s] \notin Reserved[s]
    OBVIOUS
  <2>2. CASE s = Len(q) + 1
    BY <1>3, <1>5, <2>2
  <2>3. CASE s \in 1 .. Len(q)
    BY <1>1, <1>5, <2>3
  <2> QED
    BY <1>1, <2>2, <2>3
<1>7. Len(q) + 1 <= NumSets
  BY <1>1, <1>2
<1> QED
  BY <1>1, <1>4, <1>5, <1>6, <1>7 DEF CleanLists, CIDRLists

-----------------------------------------------------------------------------
(* Sequences as sets of elements.                                          *)

\* Append adds one element.
LEMMA RangeAppend ==
  ASSUME NEW S, NEW q \in Seq(S), NEW e \in S
  PROVE  Append(q, e) \in Seq(S) /\ Range(Append(q, e)) = Range(q) \cup {e}
<1>1. /\ Append(q, e) \in Seq(S) /\ Len(Append(q, e)) = Len(q) + 1
      /\ Append(q, e)[Len(q) + 1] = e
      /\ \A i \in 1 .. Len(q) : Append(q, e)[i] = q[i]
  OBVIOUS
<1>2. DOMAIN q = 1 .. Len(q) /\ Len(q) \in Nat /\ DOMAIN Append(q, e) = 1 .. Len(q) + 1
  BY <1>1, LenProperties
<1> QED
  BY <1>1, <1>2 DEF Range

\* A non-empty sequence is its head and its tail.
LEMMA RangeTail ==
  ASSUME NEW S, NEW q \in Seq(S), q # <<>>
  PROVE  /\ Head(q) \in S /\ Tail(q) \in Seq(S)
         /\ Range(q) = {Head(q)} \cup Range(Tail(q))
<1>1. /\ Head(q) \in S /\ Tail(q) \in Seq(S) /\ Len(Tail(q)) = Len(q) - 1
      /\ \A i \in 1 .. Len(Tail(q)) : Tail(q)[i] = q[i + 1]
  BY HeadTailProperties
<1>2. /\ DOMAIN q = 1 .. Len(q) /\ Len(q) \in Nat \ {0}
      /\ DOMAIN Tail(q) = 1 .. Len(q) - 1 /\ Head(q) = q[1]
  BY <1>1, LenProperties, EmptySeq
<1>3. \A i \in DOMAIN q : q[i] \in {Head(q)} \cup Range(Tail(q))
  <2>1. SUFFICES ASSUME NEW i \in 1 .. Len(q), i # 1
                 PROVE  q[i] \in Range(Tail(q))
    BY <1>2
  <2>2. i - 1 \in DOMAIN Tail(q) /\ Tail(q)[i - 1] = q[i]
    BY <1>1, <1>2, <2>1
  <2> QED
    BY <2>2 DEF Range
<1>4. \A i \in DOMAIN Tail(q) : Tail(q)[i] \in Range(q)
  <2>1. SUFFICES ASSUME NEW i \in 1 .. Len(q) - 1
                 PROVE  Tail(q)[i] \in Range(q)
    BY <1>2
  <2>2. i + 1 \in DOMAIN q /\ Tail(q)[i] = q[i + 1]
    BY <1>1, <1>2
  <2> QED
    BY <2>2 DEF Range
<1>5. Head(q) \in Range(q)
  BY <1>2 DEF Range
<1> QED
  BY <1>1, <1>3, <1>4, <1>5 DEF Range

\* Concatenation adds the elements of both.
LEMMA RangeConcat ==
  ASSUME NEW S, NEW q \in Seq(S), NEW r \in Seq(S)
  PROVE  q \o r \in Seq(S) /\ Range(q \o r) \subseteq Range(q) \cup Range(r)
<1>1. /\ q \o r \in Seq(S) /\ Len(q \o r) = Len(q) + Len(r)
      /\ \A i \in 1 .. Len(q) + Len(r) :
           (q \o r)[i] = IF i <= Len(q) THEN q[i] ELSE r[i - Len(q)]
  BY ConcatProperties
<1>2. /\ DOMAIN q = 1 .. Len(q) /\ Len(q) \in Nat
      /\ DOMAIN r = 1 .. Len(r) /\ Len(r) \in Nat
      /\ DOMAIN (q \o r) = 1 .. Len(q) + Len(r)
  BY <1>1, LenProperties
<1>3. ASSUME NEW i \in 1 .. Len(q) + Len(r)
      PROVE  (q \o r)[i] \in Range(q) \cup Range(r)
  <2>1. CASE i <= Len(q)
    BY <1>1, <1>2, <2>1 DEF Range
  <2>2. CASE ~(i <= Len(q))
    <3>1. i - Len(q) \in DOMAIN r /\ (q \o r)[i] = r[i - Len(q)]
      BY <1>1, <1>2, <2>2
    <3> QED
      BY <3>1 DEF Range
  <2> QED
    BY <2>1, <2>2
<1> QED
  BY <1>1, <1>2, <1>3 DEF Range

\* A set with one element per node of some set of nodes can be put in order,
\* and every order is a sequence of exactly its elements.
LEMMA OrdersFacts ==
  ASSUME NEW N \in SUBSET Nodes, NEW f, f = [n \in N |-> f[n]],
         NEW q \in Orders(Range(f))
  PROVE  q \in Seq(Range(f)) /\ Range(q) = Range(f)
<1>1. IsFiniteSet(N)
  BY ConstantsAssumption, FS_Subset
<1>2. f \in Surjection(N, Range(f))
  BY DEF Surjection, Range
<1>3. Cardinality(Range(f)) \in Nat
  BY <1>1, <1>2, FS_Surjection, FS_CardinalityType
<1>4. /\ q \in [1 .. Cardinality(Range(f)) -> Range(f)]
      /\ \A e \in Range(f) : \E i \in 1 .. Cardinality(Range(f)) : q[i] = e
  BY DEF Orders, Bijection, Injection, Surjection
<1>5. q \in Seq(Range(f))
  BY <1>3, <1>4
<1>6. Range(q) = Range(f)
  <2> HIDE DEF Range
  <2>1. DOMAIN q = 1 .. Cardinality(Range(f))
    BY <1>4
  <2>2. Range(q) = {q[i] : i \in DOMAIN q}
    BY DEF Range
  <2> QED
    BY <1>4, <2>1, <2>2
<1> QED
  BY <1>5, <1>6

-----------------------------------------------------------------------------
(* A controller that starts.                                               *)

\* The clusters a controller may find are clean.
LEMMA LegalIsClean ==
  ASSUME NEW cluster, LegalCluster(cluster)
  PROVE  /\ cluster \in [Nodes -> CleanNodes]
         /\ \A n \in Nodes : ~cluster[n].live => cluster[n].cidrs = <<>>
<1>1. ASSUME NEW n \in Nodes
      PROVE  cluster[n] \in CleanNodes
  <2>1. /\ cluster[n] \in NodeStates
        /\ \A s \in DOMAIN cluster[n].cidrs : cluster[n].cidrs[s] \notin Reserved[s]
    BY <1>1 DEF LegalCluster
  <2>2. cluster[n].cidrs \in CIDRLists /\ cluster[n].cidrs \in Seq(Nat)
    BY <2>1 DEF NodeStates, CIDRLists
  <2>3. DOMAIN cluster[n].cidrs = 1 .. Len(cluster[n].cidrs)
    BY <2>2, LenProperties
  <2>4. cluster[n].cidrs \in CleanLists
    BY <2>1, <2>2, <2>3 DEF CleanLists
  <2> QED
    BY <2>1, <2>4 DEF NodeStates, CleanNodes
<1> QED
  BY <1>1 DEF LegalCluster

\* The add events of a start repeat what the nodes hold.
LEMMA AddsFacts ==
  ASSUME NEW cluster \in [Nodes -> CleanNodes], NEW q \in Orders(Adds(cluster))
  PROVE  /\ q \in Seq(CleanEvents)
         /\ \A e \in Range(q) : /\ e.type = "add" /\ e.node \in Nodes
                                /\ e.cidrs = cluster[e.node].cidrs
<1> DEFINE N == {n \in Nodes : cluster[n].live}
           f == [n \in N |-> Event("add", n, cluster[n].cidrs)]
<1>1. Adds(cluster) = Range(f)
  BY DEF Adds, Range
<1>2. q \in Seq(Range(f)) /\ Range(q) = Range(f)
  BY <1>1, OrdersFacts
<1>3. \A e \in Range(f) : /\ e \in CleanEvents
                          /\ e.type = "add" /\ e.node \in Nodes
                          /\ e.cidrs = cluster[e.node].cidrs
  <2>1. SUFFICES ASSUME NEW e \in Range(f)
                 PROVE  /\ e \in CleanEvents
                        /\ e.type = "add" /\ e.node \in Nodes
                        /\ e.cidrs = cluster[e.node].cidrs
    OBVIOUS
  <2>2. PICK n \in N : e = Event("add", n, cluster[n].cidrs)
    BY DEF Range
  <2>3. n \in Nodes /\ cluster[n] \in CleanNodes
    OBVIOUS
  <2>4. cluster[n].cidrs \in CleanLists
    BY <2>3 DEF CleanNodes
  <2> QED
    BY <2>2, <2>3, <2>4 DEF Event, CleanEvents
<1>4. Range(f) \subseteq CleanEvents
  BY <1>3
<1>5. q \in Seq(CleanEvents)
  BY <1>2, <1>4, SeqMonotonic
<1> QED
  BY <1>2, <1>3, <1>5

\* The bitmaps of a start are sound, hold the service ranges and everything
\* the nodes hold, and their cursors are at zero.
LEMMA NewSetsFacts ==
  ASSUME NEW cluster \in [Nodes -> CleanNodes], NEW s \in Sets
  PROVE  /\ Sound(NewCidrSets(cluster)[s], MaxCIDRs[s])
         /\ Reserved[s] \subseteq NewCidrSets(cluster)[s].used
         /\ BlocksOf(cluster, s) \subseteq NewCidrSets(cluster)[s].used
         /\ NewCidrSets(cluster)[s].nextCandidate = 0
<1> DEFINE max == MaxCIDRs[s]
           a == NewCIDRSet(max)
           b == Occupy(a, Reserved[s])
           c == Occupy(b, BlocksOf(cluster, s))
<1>1. max \in Nat \ {0} /\ Reserved[s] \in SUBSET Blocks(max)
  BY ConstantsAssumption
<1>2. BlocksOf(cluster, s) \in SUBSET Blocks(max)
  BY CleanListFacts DEF BlocksOf, CleanNodes
<1>3. Sound(a, max)
  BY <1>1, NewSound
<1>4. Sound(b, max)
  BY <1>1, <1>3, OccupySound
<1>5. Sound(c, max)
  BY <1>1, <1>2, <1>4, OccupySound
<1>6. NewCidrSets(cluster)[s] = c
  BY DEF NewCidrSets
<1>7. b.used = Reserved[s] /\ b.nextCandidate = 0
  BY DEF Occupy, NewCIDRSet
<1>8. c.used = b.used \cup BlocksOf(cluster, s) /\ c.nextCandidate = b.nextCandidate
  <2>1. b \in CidrSets(max)
    BY <1>4 DEF Sound
  <2> HIDE DEF b
  <2> QED
    BY <2>1 DEF Occupy, CidrSets
<1> HIDE DEF b, c
<1> QED
  BY <1>5, <1>6, <1>7, <1>8

\* The state in which a controller starts has the shape.
LEMMA InitShape == Init => ShapeInv
<1> SUFFICES ASSUME Init PROVE ShapeInv
  OBVIOUS
<1>1. LegalCluster(api)
  BY ConstantsAssumption DEF Init
<1>2. NodesOK
  BY <1>1, LegalIsClean DEF Init, NodesOK
<1>3. EventsOK
  BY <1>2, AddsFacts DEF Init, EventsOK, NodesOK
<1>4. SetsOK
  <2>1. cidrSets = [s \in Sets |-> cidrSets[s]]
    BY DEF Init, NewCidrSets
  <2> QED
    BY <1>2, <2>1, NewSetsFacts DEF Init, SetsOK, NodesOK
<1>5. QueueOK
  BY ConstantsAssumption DEF Init, QueueOK, CleanHandlers
<1>6. WorkersOK
  BY DEF Init, WorkersOK, CleanWorkers
<1>7. GhostsOK
  BY DEF Init, GhostsOK
<1> QED
  BY <1>2, <1>3, <1>4, <1>5, <1>6, <1>7 DEF ShapeInv

\* A restart leads to such a state.
LEMMA RestartShape ==
  ASSUME ShapeInv, Restart
  PROVE  ShapeInv'
<1>1. api \in [Nodes -> CleanNodes] /\ api' = api
  BY DEF ShapeInv, NodesOK, Restart
<1>2. NodesOK'
  BY <1>1 DEF ShapeInv, NodesOK, Restart
<1>3. EventsOK'
  <2>1. notify' \in Seq(CleanEvents)
    BY <1>1, AddsFacts DEF Restart
  <2> QED
    BY <2>1 DEF EventsOK, Restart
<1>4. SetsOK'
  <2>1. cidrSets' = NewCidrSets(api) /\ cidrSets' = [s \in Sets |-> cidrSets'[s]]
    BY DEF Restart, NewCidrSets
  <2>2. \A s \in Sets : /\ Sound(cidrSets'[s], MaxCIDRs[s])
                        /\ Reserved[s] \subseteq cidrSets'[s].used
    BY <1>1, <2>1, NewSetsFacts
  <2> QED
    BY <2>1, <2>2 DEF SetsOK
<1>5. QueueOK'
  BY ConstantsAssumption DEF Restart, QueueOK, CleanHandlers
<1>6. WorkersOK'
  <2>1. \A w \in Workers : workers[w].pc = "patch" => workers[w].item \in CleanItems
    BY DEF ShapeInv, WorkersOK, CleanWorkers, Idle
  <2>2. lingering' \subseteq CleanItems
    BY <2>1 DEF Restart, ShapeInv, WorkersOK
  <2> QED
    BY <2>2 DEF Restart, WorkersOK, CleanWorkers
<1>7. GhostsOK'
  BY DEF Restart, ShapeInv, GhostsOK, Spend, Spendings
<1> QED
  BY <1>2, <1>3, <1>4, <1>5, <1>6, <1>7 DEF ShapeInv

-----------------------------------------------------------------------------
(* The cluster and the informer.                                           *)

\* Creating, touching and deleting nodes keeps the shape.
LEMMA NodeShape ==
  ASSUME ShapeInv, NEW n \in Nodes,
         CreateNode(n) \/ TouchNode(n) \/ DeleteNode(n)
  PROVE  ShapeInv'
<1>0. UNCHANGED allocatorVars /\ UNCHANGED lingering
  BY DEF CreateNode, TouchNode, DeleteNode
<1>1. api[n] \in CleanNodes /\ api[n].cidrs \in CleanLists
  BY DEF ShapeInv, NodesOK, CleanNodes
<1>2. NodesOK'
  <2>1. [live |-> TRUE, cidrs |-> <<>>] \in CleanNodes /\ Absent \in CleanNodes
    BY EmptyListClean DEF CleanNodes, Absent
  <2>2. UNCHANGED cache
    BY <1>0 DEF allocatorVars
  <2>3. CASE CreateNode(n)
    BY <2>1, <2>2, <2>3 DEF CreateNode, ShapeInv, NodesOK
  <2>4. CASE TouchNode(n)
    BY <2>2, <2>4 DEF TouchNode, ShapeInv, NodesOK
  <2>5. CASE DeleteNode(n)
    BY <2>1, <2>2, <2>5 DEF DeleteNode, ShapeInv, NodesOK, Absent
  <2> QED
    BY <2>3, <2>4, <2>5
<1>3. EventsOK'
  <2>1. PICK e \in CleanEvents : watch' = Append(watch, e)
    BY <1>1, EmptyListClean DEF CreateNode, TouchNode, DeleteNode, Event, CleanEvents
  <2> QED
    BY <1>0, <2>1, RangeAppend DEF ShapeInv, EventsOK, allocatorVars
<1>4. SetsOK' /\ QueueOK' /\ WorkersOK'
  BY <1>0 DEF ShapeInv, SetsOK, QueueOK, WorkersOK, allocatorVars
<1>5. GhostsOK'
  BY <1>0 DEF CreateNode, TouchNode, DeleteNode, ShapeInv, GhostsOK, Spend, Spendings, allocatorVars
<1> QED
  BY <1>2, <1>3, <1>4, <1>5 DEF ShapeInv

\* An accepted patch keeps the nodes and the events in shape.
LEMMA ApplyShape ==
  ASSUME ShapeInv, NEW item \in CleanItems, Accepts(item), Apply(item)
  PROVE  /\ api' \in [Nodes -> CleanNodes]
         /\ \A n \in Nodes : ~api'[n].live => api'[n].cidrs = <<>>
         /\ watch' \in Seq(CleanEvents)
<1>1. item.node \in Nodes /\ item.cidrs \in CleanLists
  BY DEF CleanItems, FullLists
<1>2. api \in [Nodes -> CleanNodes] /\ watch \in Seq(CleanEvents)
      /\ \A n \in Nodes : ~api[n].live => api[n].cidrs = <<>>
  BY DEF ShapeInv, NodesOK, EventsOK
<1>3. CASE UNCHANGED <<api, watch>>
  BY <1>2, <1>3
<1>4. CASE /\ api' = [api EXCEPT ![item.node].cidrs = item.cidrs]
           /\ watch' = Append(watch, Event("update", item.node, item.cidrs))
  <2>1. Event("update", item.node, item.cidrs) \in CleanEvents
    BY <1>1 DEF Event, CleanEvents
  <2>2. watch' \in Seq(CleanEvents)
    BY <1>2, <1>4, <2>1, RangeAppend
  <2>3. api' \in [Nodes -> CleanNodes]
    BY <1>1, <1>2, <1>4 DEF CleanNodes
  <2>4. \A n \in Nodes : ~api'[n].live => api'[n].cidrs = <<>>
    BY <1>1, <1>2, <1>4 DEF CleanNodes, Accepts
  <2> QED
    BY <2>2, <2>3, <2>4
<1> QED
  BY <1>3, <1>4 DEF Apply

\* A late patch keeps the shape.
LEMMA LatePatchShape ==
  ASSUME ShapeInv, NEW item \in lingering, LatePatch(item)
  PROVE  ShapeInv'
<1>1. item \in CleanItems
  BY DEF ShapeInv, WorkersOK
<1>2. /\ api' \in [Nodes -> CleanNodes]
      /\ \A n \in Nodes : ~api'[n].live => api'[n].cidrs = <<>>
      /\ watch' \in Seq(CleanEvents)
  <2>1. CASE Accepts(item) /\ Apply(item)
    BY <1>1, <2>1, ApplyShape
  <2>2. CASE UNCHANGED <<api, watch>>
    BY <2>2 DEF ShapeInv, NodesOK, EventsOK
  <2> QED
    BY <2>1, <2>2 DEF LatePatch
<1>3. UNCHANGED allocatorVars /\ UNCHANGED budget /\ lingering' \subseteq lingering
  BY DEF LatePatch
<1> QED
  BY <1>2, <1>3 DEF ShapeInv, NodesOK, EventsOK, SetsOK, QueueOK, WorkersOK, GhostsOK,
                    allocatorVars

\* Delivering an event keeps the shape.
LEMMA DeliverShape ==
  ASSUME ShapeInv, InformerDeliver
  PROVE  ShapeInv'
<1> DEFINE e == Head(watch)
<1>1. e \in CleanEvents /\ Tail(watch) \in Seq(CleanEvents)
  BY RangeTail DEF ShapeInv, EventsOK, InformerDeliver
<1>2. e.node \in Nodes /\ e.cidrs \in CleanLists
  BY <1>1 DEF CleanEvents
<1>3. NodesOK'
  <2>1. Absent \in CleanNodes /\ [live |-> TRUE, cidrs |-> e.cidrs] \in CleanNodes
    BY <1>2, EmptyListClean DEF CleanNodes, Absent
  <2>2. cache' \in [Nodes -> CleanNodes]
    BY <2>1 DEF InformerDeliver, ShapeInv, NodesOK
  <2> QED
    BY <2>2 DEF InformerDeliver, ShapeInv, NodesOK, restOfInformer
<1>4. EventsOK'
  <2>1. Append(notify, e) \in Seq(CleanEvents)
    BY <1>1, RangeAppend DEF ShapeInv, EventsOK
  <2> QED
    BY <1>1, <2>1 DEF InformerDeliver, EventsOK
<1>5. UNCHANGED restOfInformer /\ UNCHANGED budget
  BY DEF InformerDeliver
<1> QED
  BY <1>3, <1>4, <1>5 DEF ShapeInv, SetsOK, QueueOK, WorkersOK, GhostsOK, restOfInformer

\* What a relist tells the handlers: the nodes as they are, or that a node the
\* informer knew is gone.
LEMMA RelistFacts ==
  ASSUME ShapeInv, InformerRelist
  PROVE  /\ notify' \in Seq(CleanEvents)
         /\ \A e \in Range(notify') :
              \/ e \in Range(notify)
              \/ e.type # "delete" /\ e.node \in Nodes /\ e.cidrs = api[e.node].cidrs
              \/ /\ e.type = "delete" /\ e.node \in Nodes
                 /\ e.cidrs = cache[e.node].cidrs /\ ~api[e.node].live
<1> DEFINE N == {n \in Nodes : api[n].live}
           f == [n \in N |-> Event(IF cache[n].live THEN "update" ELSE "add", n,
                                   api[n].cidrs)]
           M == {n \in Nodes : cache[n].live /\ ~api[n].live}
           g == [n \in M |-> Event("delete", n, cache[n].cidrs)]
<1>1. PICK here \in Orders(Range(f)), gone \in Orders(Range(g)) :
        notify' = notify \o here \o gone
  BY DEF InformerRelist, Range
<1>2. here \in Seq(Range(f)) /\ Range(here) = Range(f)
  <2>1. N \in SUBSET Nodes /\ f = [n \in N |-> f[n]]
    OBVIOUS
  <2> HIDE DEF N, f
  <2> QED
    BY <2>1, OrdersFacts
<1>3. gone \in Seq(Range(g)) /\ Range(gone) = Range(g)
  <2>1. M \in SUBSET Nodes /\ g = [n \in M |-> g[n]]
    OBVIOUS
  <2> HIDE DEF M, g
  <2> QED
    BY <2>1, OrdersFacts
<1>4. ASSUME NEW e \in Range(f)
      PROVE  /\ e \in CleanEvents
             /\ e.type # "delete" /\ e.node \in Nodes /\ e.cidrs = api[e.node].cidrs
  <2>1. PICK n \in N : e = f[n]
    BY DEF Range
  <2>2. n \in Nodes /\ api[n].cidrs \in CleanLists
    BY DEF ShapeInv, NodesOK, CleanNodes
  <2> QED
    BY <2>1, <2>2 DEF Event, CleanEvents
<1>5. ASSUME NEW e \in Range(g)
      PROVE  /\ e \in CleanEvents
             /\ e.type = "delete" /\ e.node \in Nodes
             /\ e.cidrs = cache[e.node].cidrs /\ ~api[e.node].live
  <2>1. PICK n \in M : e = g[n]
    BY DEF Range
  <2>2. n \in Nodes /\ cache[n].cidrs \in CleanLists /\ ~api[n].live
    BY DEF ShapeInv, NodesOK, CleanNodes
  <2> QED
    BY <2>1, <2>2 DEF Event, CleanEvents
<1>6. here \in Seq(CleanEvents) /\ gone \in Seq(CleanEvents) /\ notify \in Seq(CleanEvents)
  <2>1. Range(f) \subseteq CleanEvents /\ Range(g) \subseteq CleanEvents
    BY <1>4, <1>5
  <2> HIDE DEF f, g
  <2> QED
    BY <1>2, <1>3, <2>1, SeqMonotonic DEF ShapeInv, EventsOK
<1>7. notify \o here \in Seq(CleanEvents)
      /\ Range(notify \o here) \subseteq Range(notify) \cup Range(here)
  BY <1>6, RangeConcat
<1>8. notify' \in Seq(CleanEvents)
      /\ Range(notify') \subseteq Range(notify \o here) \cup Range(gone)
  BY <1>1, <1>6, <1>7, RangeConcat
<1> QED
  BY <1>2, <1>3, <1>4, <1>5, <1>7, <1>8

\* Listing again keeps the shape.
LEMMA RelistShape ==
  ASSUME ShapeInv, InformerRelist
  PROVE  ShapeInv'
<1>1. EventsOK'
  <2>1. watch' = <<>>
    BY DEF InformerRelist
  <2>2. notify' \in Seq(CleanEvents)
    BY RelistFacts
  <2> QED
    BY <2>1, <2>2 DEF EventsOK
<1>2. NodesOK'
  BY DEF InformerRelist, ShapeInv, NodesOK, restOfInformer
<1>3. GhostsOK'
  <2>1. Spend("relists", MaxRelists) /\ UNCHANGED restOfInformer
    BY DEF InformerRelist
  <2> QED
    BY <2>1 DEF ShapeInv, GhostsOK, restOfInformer, Spend, Spendings
<1>4. UNCHANGED restOfInformer
  BY DEF InformerRelist
<1> QED
  BY <1>1, <1>2, <1>3, <1>4 DEF ShapeInv, SetsOK, QueueOK, WorkersOK, restOfInformer

-----------------------------------------------------------------------------
(* The event handlers.                                                     *)

\* AllocateNext grants block c of range s to n, and the handler's list becomes list.
Grants(s, n, got, tries, c, list) ==
  /\ s \in Sets /\ tries < MaxCIDRs[s]
  /\ c = Candidate(cidrSets[s], tries)
  /\ c \notin cidrSets[s].used
  /\ Len(list) = s /\ list[s] = c
  /\ \A t \in DOMAIN got : list[t] = got[t]
  /\ Sound(AllocateAfter(cidrSets[s], tries), MaxCIDRs[s])
  /\ cidrSets' = [cidrSets EXCEPT ![s] = AllocateAfter(cidrSets[s], tries)]
  /\ AllocateAfter(cidrSets[s], tries).used = cidrSets[s].used \cup {c}
  /\ advanced' = Advance(s, tries)
  /\ handler' = Handling(n, list)

\* What a granting AllocateNext in a handler does: the block was free, so it is
\* in no service range, and the list of the handler stays clean.
LEMMA GrantFacts ==
  ASSUME ShapeInv, NEW n \in Nodes, NEW got \in CleanLists, Len(got) < NumSets,
         NEW s, s = Len(got) + 1, AllocateFrom(s, n, got)
  PROVE  \E tries \in Nat, c \in Blocks(MaxCIDRs[s]), list \in CleanLists :
           Grants(s, n, got, tries, c, list)
<1>1. s \in Sets /\ MaxCIDRs[s] \in Nat \ {0} /\ Len(got) \in Nat
  BY CleanListFacts, ConstantsAssumption DEF Sets
<1>2. PICK tries \in 0 .. MaxCIDRs[s] :
        /\ ScanStopsAfter(cidrSets[s], tries)
        /\ cidrSets' = [cidrSets EXCEPT ![s] = AllocateAfter(cidrSets[s], tries)]
        /\ advanced' = Advance(s, tries)
        /\ handler' = Handling(n, Append(got, Candidate(cidrSets[s], tries)))
  BY DEF AllocateFrom
<1> DEFINE c == Candidate(cidrSets[s], tries)
<1>3. Sound(cidrSets[s], MaxCIDRs[s]) /\ Reserved[s] \subseteq cidrSets[s].used
  BY <1>1 DEF ShapeInv, SetsOK
<1>4. tries < MaxCIDRs[s] /\ c \in Blocks(MaxCIDRs[s]) /\ c \notin cidrSets[s].used
  BY <1>1, <1>2, <1>3, ScanFindsFree DEF AllocateFrom
<1>5. Sound(AllocateAfter(cidrSets[s], tries), MaxCIDRs[s])
  BY <1>1, <1>3, <1>4, AllocateSound
<1>6. AllocateAfter(cidrSets[s], tries).used = cidrSets[s].used \cup {c}
  BY <1>3 DEF AllocateAfter, Sound, CidrSets
<1>7. /\ Append(got, c) \in CleanLists
      /\ Len(Append(got, c)) = s
      /\ Append(got, c)[s] = c
      /\ \A t \in DOMAIN got : Append(got, c)[t] = got[t]
  <2> HIDE DEF c
  <2>1. c \notin Reserved[s]
    BY <1>3, <1>4
  <2> QED
    BY <1>1, <1>4, <2>1, AppendClean
<1>8. tries \in Nat
  OBVIOUS
<1> DEFINE list == Append(got, c)
<1>9. c = Candidate(cidrSets[s], tries) /\ handler' = Handling(n, list)
  BY <1>2
<1> HIDE DEF c
<1>10. /\ list \in CleanLists /\ Len(list) = s /\ list[s] = c
       /\ \A t \in DOMAIN got : list[t] = got[t]
  BY <1>7
<1> HIDE DEF list
<1>11. Grants(s, n, got, tries, c, list)
  BY <1>1, <1>2, <1>4, <1>5, <1>6, <1>9, <1>10 DEF Grants
<1> QED
  BY <1>4, <1>8, <1>10, <1>11

\* The handler's loop body keeps its part of the shape.
LEMMA AllocateShape ==
  ASSUME ShapeInv, NEW n \in Nodes, NEW got \in CleanLists, Len(got) < NumSets,
         AllocateNextFor(n, got)
  PROVE  /\ SetsOK' /\ handler' \in CleanHandlers
         /\ nodesInProcessing' \subseteq Nodes /\ advanced' \in [Sets -> Nat]
<1> DEFINE s == Len(got) + 1
<1>1. CASE AllocateFrom(s, n, got)
  <2>0. s = Len(got) + 1 /\ AllocateFrom(s, n, got)
    BY <1>1
  <2> HIDE DEF s
  <2>1. PICK tries \in Nat, c \in Blocks(MaxCIDRs[s]), list \in CleanLists :
          Grants(s, n, got, tries, c, list)
    BY <2>0, GrantFacts
  <2>2. SetsOK'
    BY <2>1 DEF Grants, ShapeInv, SetsOK
  <2>3. handler' \in CleanHandlers
    <3>1. Len(list) \in 0 .. NumSets /\ NumSets \in Nat
      BY <2>1, ConstantsAssumption DEF Grants, Sets
    <3> QED
      BY <2>1, <3>1 DEF Grants, Handling, CleanHandlers, FullLists
  <2>4. advanced' \in [Sets -> Nat]
    <3>1. advanced \in [Sets -> Nat] /\ MaxCIDRs[s] \in Nat /\ advanced[s] \in Nat
      BY <2>1, ConstantsAssumption DEF Grants, ShapeInv, GhostsOK
    <3> DEFINE far == IF advanced[s] + tries + 1 <= MaxCIDRs[s]
                      THEN advanced[s] + tries + 1 ELSE MaxCIDRs[s] + 1
    <3>2. far \in Nat
      BY <3>1
    <3>3. advanced' = [advanced EXCEPT ![s] = far]
      BY <2>1 DEF Grants, Advance
    <3> HIDE DEF far
    <3> QED
      BY <3>1, <3>2, <3>3
  <2>5. nodesInProcessing' \subseteq Nodes
    BY <2>0 DEF AllocateFrom, ShapeInv, GhostsOK
  <2> QED
    BY <2>2, <2>3, <2>4, <2>5
<1>2. CASE GiveUp(s, n)
  BY <1>2 DEF GiveUp, ShapeInv, SetsOK, GhostsOK, CleanHandlers
<1> QED
  BY <1>1, <1>2 DEF AllocateNextFor

\* Occupying or releasing what a clean list names keeps the bitmaps sound, and
\* the service ranges marked.
LEMMA OccupyReleaseAllShape ==
  ASSUME ShapeInv, NEW cidrs \in CleanLists,
         cidrSets' = OccupyAll(cidrSets, cidrs) \/ cidrSets' = ReleaseAll(cidrSets, cidrs)
  PROVE  SetsOK'
<1>1. cidrSets' = [s \in Sets |-> cidrSets'[s]]
  BY DEF OccupyAll, ReleaseAll
<1>2. ASSUME NEW s \in Sets
      PROVE  Sound(cidrSets'[s], MaxCIDRs[s]) /\ Reserved[s] \subseteq cidrSets'[s].used
  <2>1. /\ Sound(cidrSets[s], MaxCIDRs[s]) /\ Reserved[s] \subseteq cidrSets[s].used
        /\ MaxCIDRs[s] \in Nat \ {0} /\ cidrSets[s] \in CidrSets(MaxCIDRs[s])
    BY ConstantsAssumption DEF ShapeInv, SetsOK, Sound
  <2>2. CASE s \notin DOMAIN cidrs
    BY <2>1, <2>2 DEF OccupyAll, ReleaseAll
  <2>3. CASE s \in DOMAIN cidrs
    <3>1. {cidrs[s]} \in SUBSET Blocks(MaxCIDRs[s]) /\ cidrs[s] \notin Reserved[s]
      BY <2>3, CleanListFacts
    <3>2. CASE cidrSets'[s] = Occupy(cidrSets[s], {cidrs[s]})
      <4>1. Sound(cidrSets'[s], MaxCIDRs[s])
        BY <2>1, <3>1, <3>2, OccupySound
      <4>2. Occupy(cidrSets[s], {cidrs[s]}).used = cidrSets[s].used \cup {cidrs[s]}
        BY <2>1 DEF Occupy, CidrSets
      <4> QED
        BY <2>1, <3>2, <4>1, <4>2
    <3>3. CASE cidrSets'[s] = Release(cidrSets[s], {cidrs[s]})
      <4>1. Sound(cidrSets'[s], MaxCIDRs[s])
        BY <2>1, <3>1, <3>3, ReleaseSound
      <4>2. Release(cidrSets[s], {cidrs[s]}).used = cidrSets[s].used \ {cidrs[s]}
        BY <2>1 DEF Release, CidrSets
      <4> QED
        BY <2>1, <3>1, <3>3, <4>1, <4>2
    <3> QED
      BY <2>3, <3>2, <3>3 DEF OccupyAll, ReleaseAll
  <2> QED
    BY <2>2, <2>3
<1> QED
  BY <1>1, <1>2 DEF SetsOK

\* The event a handler takes, and what is left.
LEMMA NextEventFacts ==
  ASSUME ShapeInv, NEW type, NextEvent(type)
  PROVE  /\ Head(notify).node \in Nodes /\ Head(notify).cidrs \in CleanLists
         /\ Head(notify) \in Range(notify) /\ Head(notify).type = type
         /\ notify' \in Seq(CleanEvents) /\ Range(notify') \subseteq Range(notify)
<1>1. /\ Head(notify) \in CleanEvents /\ notify' \in Seq(CleanEvents)
      /\ Range(notify) = {Head(notify)} \cup Range(notify')
  BY RangeTail DEF NextEvent, ShapeInv, EventsOK
<1> QED
  BY <1>1 DEF NextEvent, CleanEvents

\* AllocateOrOccupyCIDR keeps its part of the shape.
LEMMA AllocateOrOccupyShape ==
  ASSUME ShapeInv, NEW n \in Nodes, NEW cidrs \in CleanLists,
         AllocateOrOccupyCIDR(n, cidrs)
  PROVE  /\ SetsOK' /\ handler' \in CleanHandlers
         /\ nodesInProcessing' \subseteq Nodes /\ advanced' \in [Sets -> Nat]
<1>1. CASE UNCHANGED <<cidrSets, nodesInProcessing, handler, advanced>>
  BY <1>1 DEF ShapeInv, SetsOK, QueueOK, GhostsOK
<1>2. CASE /\ cidrSets' = OccupyAll(cidrSets, cidrs)
           /\ UNCHANGED <<nodesInProcessing, handler, advanced>>
  BY <1>2, OccupyReleaseAllShape DEF ShapeInv, QueueOK, GhostsOK
<1>3. CASE AllocateNextFor(n, <<>>)
  <2>1. <<>> \in CleanLists /\ Len(<<>>) < NumSets
    BY EmptyListClean, ConstantsAssumption
  <2> QED
    BY <1>3, <2>1, AllocateShape
<1> QED
  BY <1>1, <1>2, <1>3 DEF AllocateOrOccupyCIDR

\* Every handler step keeps the shape.
LEMMA HandlerShape ==
  ASSUME ShapeInv, HandlerStep
  PROVE  ShapeInv'
<1>1. CASE HandleAdd \/ HandleUpdate \/ HandleDelete
  <2>1. UNCHANGED restOfHandler
    BY <1>1 DEF HandleAdd, HandleUpdate, HandleDelete
  <2>2. /\ Head(notify).node \in Nodes /\ Head(notify).cidrs \in CleanLists
        /\ notify' \in Seq(CleanEvents)
    BY <1>1, NextEventFacts DEF HandleAdd, HandleUpdate, HandleDelete
  <2>3. /\ SetsOK' /\ handler' \in CleanHandlers
        /\ nodesInProcessing' \subseteq Nodes /\ advanced' \in [Sets -> Nat]
    <3>1. CASE AllocateOrOccupyCIDR(Head(notify).node, Head(notify).cidrs)
      BY <2>2, <3>1, AllocateOrOccupyShape
    <3>2. CASE UNCHANGED <<cidrSets, nodesInProcessing, handler, advanced>>
      BY <3>2 DEF ShapeInv, SetsOK, QueueOK, GhostsOK
    <3>3. CASE /\ cidrSets' = ReleaseAll(cidrSets, Head(notify).cidrs)
               /\ UNCHANGED <<nodesInProcessing, handler, advanced>>
      BY <2>2, <3>3, OccupyReleaseAllShape DEF ShapeInv, QueueOK, GhostsOK
    <3> QED
      BY <1>1, <3>1, <3>2, <3>3 DEF HandleAdd, HandleUpdate, HandleDelete
  <2> QED
    BY <2>1, <2>2, <2>3 DEF ShapeInv, NodesOK, EventsOK, QueueOK, WorkersOK, GhostsOK,
                            restOfHandler
<1>2. CASE HandlerAllocate
  <2>1. handler.node \in Nodes /\ handler.cidrs \in CleanLists /\ Len(handler.cidrs) < NumSets
    BY <1>2 DEF HandlerAllocate, ShapeInv, QueueOK, CleanHandlers, Idle
  <2>2. /\ SetsOK' /\ handler' \in CleanHandlers
        /\ nodesInProcessing' \subseteq Nodes /\ advanced' \in [Sets -> Nat]
    BY <1>2, <2>1, AllocateShape DEF HandlerAllocate
  <2> QED
    BY <1>2, <2>2 DEF HandlerAllocate, ShapeInv, NodesOK, EventsOK, QueueOK, WorkersOK,
                      GhostsOK, restOfHandler
<1>3. CASE HandlerSend
  <2>1. Item(handler.node, handler.cidrs) \in CleanItems
    BY <1>3, SMTT(30) DEF HandlerSend, ShapeInv, QueueOK, CleanHandlers, Idle, Item, CleanItems
  <2>2. channel' \in Seq(CleanItems) /\ Len(channel') <= QueueSize
    BY <1>3, <2>1, ConstantsAssumption DEF HandlerSend, ShapeInv, QueueOK
  <2> QED
    BY <1>3, <2>2 DEF HandlerSend, ShapeInv, NodesOK, EventsOK, SetsOK, QueueOK,
                      WorkersOK, GhostsOK, CleanHandlers, env
<1> QED
  BY <1>1, <1>2, <1>3 DEF HandlerStep

-----------------------------------------------------------------------------
(* The workers.                                                            *)

\* A busy worker holds a reservation for some node.
LEMMA BusyWorker ==
  ASSUME ShapeInv, NEW w \in Workers, workers[w].pc # "idle"
  PROVE  /\ workers[w].item \in CleanItems
         /\ workers[w].item.node \in Nodes
         /\ workers[w].item.cidrs \in FullLists
         /\ workers[w].tries \in 0 .. Retries - 1
         /\ workers[w].set \in Sets
         /\ workers[w].failed \in BOOLEAN
<1>1. workers[w] \in CleanWorkers
  BY DEF ShapeInv, WorkersOK
<1>2. workers[w] # Idle
  BY DEF Idle
<1> QED
  BY <1>1, <1>2 DEF CleanWorkers, CleanItems

\* Every state a worker assumes is one of its states.
LEMMA BecomeShape ==
  ASSUME ShapeInv, NEW w \in Workers, NEW state \in CleanWorkers, Become(w, state)
  PROVE  workers' \in [Workers -> CleanWorkers]
BY DEF Become, ShapeInv, WorkersOK

\* The states updateCIDRsAllocation passes through.
LEMMA WorkingShape ==
  ASSUME NEW pc \in {"get", "patch", "release", "requeue"}, NEW item \in CleanItems,
         NEW tries \in 0 .. Retries - 1, NEW s \in Sets, NEW failed \in BOOLEAN
  PROVE  Working(pc, item, tries, s, failed) \in CleanWorkers
BY DEF Working, CleanWorkers

\* Both returns of updateCIDRsAllocation.
LEMMA ReturnShape ==
  ASSUME ShapeInv, NEW w \in Workers, workers[w].pc # "idle",
         ReturnOk(w) \/ ReturnError(w)
  PROVE  workers' \in [Workers -> CleanWorkers] /\ nodesInProcessing' \subseteq Nodes
<1>1. Working("requeue", workers[w].item, 0, 1, FALSE) \in CleanWorkers
  <2>1. 0 \in 0 .. Retries - 1 /\ 1 \in Sets
    BY ConstantsAssumption DEF Sets
  <2> QED
    BY <2>1, BusyWorker, WorkingShape
<1>2. Idle \in CleanWorkers
  BY DEF CleanWorkers
<1>3. workers' \in [Workers -> CleanWorkers]
  BY <1>1, <1>2, BecomeShape DEF ReturnOk, ReturnError
<1> QED
  BY <1>3 DEF ReturnOk, ReturnError, ShapeInv, GhostsOK

\* A failed attempt at the patch.
LEMMA AttemptFailedShape ==
  ASSUME ShapeInv, NEW w \in Workers, workers[w].pc # "idle", NEW reason,
         AttemptFailed(w, reason)
  PROVE  workers' \in [Workers -> CleanWorkers] /\ nodesInProcessing' \subseteq Nodes
<1> DEFINE n == workers[w].tries + 1
<1>1. workers[w].item \in CleanItems /\ workers[w].tries \in 0 .. Retries - 1
  BY BusyWorker
<1>2. 0 \in 0 .. Retries - 1 /\ 1 \in Sets /\ Retries \in Nat
  BY ConstantsAssumption DEF Sets
<1>3. CASE /\ n < Retries
           /\ Become(w, Working("patch", workers[w].item, n, 1, FALSE))
           /\ UNCHANGED nodesInProcessing
  <2>1. n \in 0 .. Retries - 1
    BY <1>1, <1>2, <1>3
  <2> HIDE DEF n
  <2>2. Working("patch", workers[w].item, n, 1, FALSE) \in CleanWorkers
    BY <1>1, <1>2, <2>1, WorkingShape
  <2> QED
    BY <1>3, <2>2, BecomeShape DEF ShapeInv, GhostsOK
<1>4. CASE ReturnError(w)
  BY <1>4, ReturnShape
<1>5. CASE /\ Become(w, Working("release", workers[w].item, 0, 1, TRUE))
           /\ UNCHANGED nodesInProcessing
  <2>1. Working("release", workers[w].item, 0, 1, TRUE) \in CleanWorkers
    BY <1>1, <1>2, WorkingShape
  <2> QED
    BY <1>5, <2>1, BecomeShape DEF ShapeInv, GhostsOK
<1> QED
  BY <1>3, <1>4, <1>5 DEF AttemptFailed

\* A worker step that leaves the cluster, the bitmaps and the queue alone keeps
\* the shape if it keeps the workers' and the bookkeeping's.
LEMMA WorkerRest ==
  ASSUME ShapeInv, UNCHANGED <<env, cidrSets, handler, channel, advanced, tainted>>,
         workers' \in [Workers -> CleanWorkers], nodesInProcessing' \subseteq Nodes,
         lingering' \subseteq CleanItems, budget' \in [Spendings -> Nat]
  PROVE  ShapeInv'
BY DEF ShapeInv, NodesOK, EventsOK, SetsOK, QueueOK, WorkersOK, GhostsOK, env

\* updateCIDRsAllocation looks the node up.
LEMMA GetShape ==
  ASSUME ShapeInv, NEW w \in Workers, WorkerGet(w)
  PROVE  ShapeInv'
<1> DEFINE item == workers[w].item
<1>1. workers[w].pc # "idle" /\ item \in CleanItems
  BY BusyWorker DEF WorkerGet
<1>2. 0 \in 0 .. Retries - 1 /\ 1 \in Sets
  BY ConstantsAssumption DEF Sets
<1>3. /\ UNCHANGED <<env, cidrSets, handler, channel, advanced, tainted>>
      /\ lingering' \subseteq CleanItems /\ budget' \in [Spendings -> Nat]
  BY DEF WorkerGet, ShapeInv, WorkersOK, GhostsOK
<1>4. workers' \in [Workers -> CleanWorkers] /\ nodesInProcessing' \subseteq Nodes
  <2>1. CASE ReturnOk(w) \/ ReturnError(w)
    BY <1>1, <2>1, ReturnShape
  <2>2. CASE /\ \/ Become(w, Working("release", item, 0, 1, FALSE))
                \/ Become(w, Working("patch", item, 0, 1, FALSE))
             /\ UNCHANGED nodesInProcessing
    <3>1. /\ Working("release", item, 0, 1, FALSE) \in CleanWorkers
          /\ Working("patch", item, 0, 1, FALSE) \in CleanWorkers
      <4> HIDE DEF item
      <4> QED
        BY <1>1, <1>2, WorkingShape
    <3> QED
      BY <2>2, <3>1, BecomeShape DEF ShapeInv, GhostsOK
  <2> QED
    BY <2>1, <2>2 DEF WorkerGet
<1> QED
  BY <1>3, <1>4, WorkerRest

\* updateCIDRsAllocation releases, one range per step.
LEMMA ReleaseShape ==
  ASSUME ShapeInv, NEW w \in Workers, WorkerRelease(w)
  PROVE  ShapeInv'
<1> DEFINE s == workers[w].set
           item == workers[w].item
<1>1. /\ workers[w].pc # "idle" /\ item \in CleanItems /\ item.cidrs \in FullLists
      /\ s \in Sets /\ workers[w].failed \in BOOLEAN
  BY BusyWorker DEF WorkerRelease
<1>2. cidrSets' = [cidrSets EXCEPT ![s] = Release(@, {item.cidrs[s]})]
  BY DEF WorkerRelease
<1>3. UNCHANGED <<env, handler, channel, lingering, advanced, tainted, budget>>
  BY DEF WorkerRelease
<1>4. workers' \in [Workers -> CleanWorkers] /\ nodesInProcessing' \subseteq Nodes
  <2>1. CASE ReturnOk(w) \/ ReturnError(w)
    BY <1>1, <2>1, ReturnShape
  <2>2. CASE /\ s < NumSets
             /\ Become(w, Working("release", item, 0, s + 1, workers[w].failed))
             /\ UNCHANGED nodesInProcessing
    <3>1. 0 \in 0 .. Retries - 1 /\ s + 1 \in Sets
      BY <1>1, <2>2, ConstantsAssumption DEF Sets
    <3>2. Working("release", item, 0, s + 1, workers[w].failed) \in CleanWorkers
      <4> HIDE DEF item, s
      <4> QED
        BY <1>1, <3>1, WorkingShape
    <3> QED
      BY <2>2, <3>2, BecomeShape DEF ShapeInv, GhostsOK
  <2> QED
    BY <2>1, <2>2 DEF WorkerRelease
<1>5. SetsOK'
  <2>1. s \in DOMAIN item.cidrs /\ item.cidrs \in CleanLists
    BY <1>1, CleanListFacts DEF FullLists, Sets
  <2>2. {item.cidrs[s]} \in SUBSET Blocks(MaxCIDRs[s]) /\ item.cidrs[s] \notin Reserved[s]
    BY <2>1, CleanListFacts
  <2>3. /\ Sound(cidrSets[s], MaxCIDRs[s]) /\ Reserved[s] \subseteq cidrSets[s].used
        /\ MaxCIDRs[s] \in Nat \ {0} /\ cidrSets[s] \in CidrSets(MaxCIDRs[s])
    BY <1>1, ConstantsAssumption DEF ShapeInv, SetsOK, Sound
  <2>4. Sound(Release(cidrSets[s], {item.cidrs[s]}), MaxCIDRs[s])
    BY <2>2, <2>3, ReleaseSound
  <2>5. Release(cidrSets[s], {item.cidrs[s]}).used = cidrSets[s].used \ {item.cidrs[s]}
    BY <2>3 DEF Release, CidrSets
  <2>6. Reserved[s] \subseteq Release(cidrSets[s], {item.cidrs[s]}).used
    BY <2>2, <2>3, <2>5
  <2> HIDE DEF s, item
  <2> QED
    BY <1>1, <1>2, <2>4, <2>6 DEF ShapeInv, SetsOK
<1> QED
  BY <1>3, <1>4, <1>5 DEF ShapeInv, NodesOK, EventsOK, QueueOK, WorkersOK, GhostsOK, env

\* Every worker step keeps the shape.
LEMMA WorkerShape ==
  ASSUME ShapeInv, NEW w \in Workers, WorkerStep(w)
  PROVE  ShapeInv'
<1>1. CASE WorkerReceive(w)
  <2>1. Head(channel) \in CleanItems /\ channel' \in Seq(CleanItems)
        /\ Len(channel') <= QueueSize
    BY <1>1, ConstantsAssumption, HeadTailProperties DEF WorkerReceive, ShapeInv, QueueOK
  <2>2. 0 \in 0 .. Retries - 1 /\ 1 \in Sets
    BY ConstantsAssumption DEF Sets
  <2>3. Working("get", Head(channel), 0, 1, FALSE) \in CleanWorkers
    BY <2>1, <2>2, WorkingShape
  <2>4. workers' \in [Workers -> CleanWorkers]
    BY <1>1, <2>3 DEF WorkerReceive, ShapeInv, WorkersOK
  <2> QED
    BY <1>1, <2>1, <2>4 DEF WorkerReceive, ShapeInv, NodesOK, EventsOK, SetsOK, QueueOK,
                            WorkersOK, GhostsOK, env
<1>2. CASE WorkerGet(w)
  BY <1>2, GetShape
<1>3. CASE WorkerPatchOk(w)
  <2>1. workers[w].pc # "idle" /\ workers[w].item \in CleanItems
    BY <1>3, BusyWorker DEF WorkerPatchOk
  <2>2. /\ api' \in [Nodes -> CleanNodes]
        /\ \A n \in Nodes : ~api'[n].live => api'[n].cidrs = <<>>
        /\ watch' \in Seq(CleanEvents)
    BY <1>3, <2>1, ApplyShape DEF WorkerPatchOk
  <2>3. workers' \in [Workers -> CleanWorkers] /\ nodesInProcessing' \subseteq Nodes
    BY <1>3, <2>1, ReturnShape DEF WorkerPatchOk
  <2>4. UNCHANGED <<cache, notify, cidrSets, handler, channel, lingering, advanced,
                    tainted, budget>>
    BY <1>3 DEF WorkerPatchOk
  <2> QED
    BY <2>2, <2>3, <2>4 DEF ShapeInv, NodesOK, EventsOK, SetsOK, QueueOK, WorkersOK, GhostsOK
<1>4. CASE WorkerPatchRejected(w) \/ WorkerPatchLost(w) \/ WorkerPatchTimeout(w)
  <2>1. workers[w].pc # "idle" /\ workers[w].item \in CleanItems
    BY <1>4, BusyWorker DEF WorkerPatchRejected, WorkerPatchLost, WorkerPatchTimeout
  <2>2. workers' \in [Workers -> CleanWorkers] /\ nodesInProcessing' \subseteq Nodes
    BY <1>4, <2>1, AttemptFailedShape
       DEF WorkerPatchRejected, WorkerPatchLost, WorkerPatchTimeout
  <2>3. UNCHANGED <<env, cidrSets, handler, channel, advanced, tainted>>
    BY <1>4 DEF WorkerPatchRejected, WorkerPatchLost, WorkerPatchTimeout
  <2>4. lingering' \subseteq CleanItems
    BY <1>4, <2>1 DEF WorkerPatchRejected, WorkerPatchLost, WorkerPatchTimeout, ShapeInv,
                      WorkersOK
  <2>5. budget' \in [Spendings -> Nat]
    <3>1. \/ UNCHANGED budget \/ Spend("lost", MaxLost) \/ Spend("timeouts", MaxTimeouts)
      BY <1>4 DEF WorkerPatchRejected, WorkerPatchLost, WorkerPatchTimeout
    <3> QED
      BY <3>1 DEF Spend, Spendings, ShapeInv, GhostsOK
  <2> QED
    BY <2>2, <2>3, <2>4, <2>5, WorkerRest
<1>5. CASE WorkerRelease(w)
  BY <1>5, ReleaseShape
<1>6. CASE WorkerRequeue(w)
  <2>1. workers[w].item \in CleanItems
    BY <1>6, BusyWorker DEF WorkerRequeue
  <2>2. channel' \in Seq(CleanItems) /\ Len(channel') <= QueueSize
    BY <1>6, <2>1, ConstantsAssumption DEF WorkerRequeue, ShapeInv, QueueOK
  <2>3. workers' \in [Workers -> CleanWorkers]
    BY <1>6, BecomeShape DEF WorkerRequeue, CleanWorkers
  <2> QED
    BY <1>6, <2>2, <2>3 DEF WorkerRequeue, ShapeInv, NodesOK, EventsOK, SetsOK, QueueOK,
                            WorkersOK, GhostsOK, env
<1> QED
  BY <1>1, <1>2, <1>3, <1>4, <1>5, <1>6 DEF WorkerStep

\* The shape is inductive.
LEMMA ShapeStep == ShapeInv /\ [Next]_vars => ShapeInv'
<1> SUFFICES ASSUME ShapeInv, [Next]_vars PROVE ShapeInv'
  OBVIOUS
<1>1. CASE UNCHANGED vars
  BY <1>1 DEF vars, ShapeInv, NodesOK, EventsOK, SetsOK, QueueOK, WorkersOK, GhostsOK
<1>2. CASE Next
  BY <1>2, NodeShape, LatePatchShape, DeliverShape, RelistShape, HandlerShape,
     WorkerShape, RestartShape DEF Next
<1> QED
  BY <1>1, <1>2

\* The shape holds in every reachable state.
LEMMA AlwaysShape == Spec => []ShapeInv
BY InitShape, ShapeStep, PTL DEF Spec
=============================================================================
