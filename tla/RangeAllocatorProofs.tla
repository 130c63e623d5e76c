------------------------ MODULE RangeAllocatorProofs ------------------------
(***************************************************************************)
(* Safety of the range allocator for every value of the constants: its     *)
(* type, the service ranges, the nodes in processing and the first lap of  *)
(* the cursors.                                                            *)
(***************************************************************************)
EXTENDS RangeAllocatorShape

-----------------------------------------------------------------------------
(* Type correctness and the service ranges follow from the shape.          *)

\* The shape implies the type invariant.
LEMMA ShapeImpliesType == ShapeInv => TypeOK
<1> SUFFICES ASSUME ShapeInv PROVE TypeOK
  OBVIOUS
<1>1. CleanLists \subseteq CIDRLists
  BY DEF CleanLists
<1>2. CleanNodes \subseteq NodeStates /\ CleanEvents \subseteq Events
  BY <1>1 DEF CleanNodes, NodeStates, CleanEvents, Events
<1>3. CleanItems \subseteq Items
  BY <1>1 DEF CleanItems, Items, FullLists
<1>4. CleanHandlers \subseteq HandlerStates
  BY <1>1 DEF CleanHandlers, HandlerStates, FullLists
<1>5. CleanWorkers \subseteq WorkerStates
  BY <1>3 DEF CleanWorkers, WorkerStates
<1>6. api \in [Nodes -> NodeStates] /\ cache \in [Nodes -> NodeStates]
  BY <1>2 DEF ShapeInv, NodesOK
<1>7. watch \in Seq(Events) /\ notify \in Seq(Events) /\ channel \in Seq(Items)
  <2>1. watch \in Seq(CleanEvents) /\ notify \in Seq(CleanEvents) /\ channel \in Seq(CleanItems)
    BY DEF ShapeInv, EventsOK, QueueOK
  <2>2. ASSUME NEW S, NEW T, S \subseteq T, NEW q \in Seq(S) PROVE q \in Seq(T)
    <3>1. Len(q) \in Nat /\ q \in [1 .. Len(q) -> S]
      BY <2>2, LenProperties
    <3>2. q \in [1 .. Len(q) -> T]
      BY <2>2, <3>1
    <3> QED
      BY <3>1, <3>2, IsASeq
  <2> QED
    BY <1>2, <1>3, <2>1, <2>2
<1>8. /\ cidrSets \in [Sets -> UNION {CidrSets(MaxCIDRs[s]) : s \in Sets}]
      /\ \A s \in Sets : cidrSets[s] \in CidrSets(MaxCIDRs[s])
  <2>1. \A s \in Sets : cidrSets[s] \in CidrSets(MaxCIDRs[s])
    BY DEF ShapeInv, SetsOK, Sound
  <2>2. \A s \in Sets : cidrSets[s] \in UNION {CidrSets(MaxCIDRs[t]) : t \in Sets}
    BY <2>1
  <2>3. cidrSets = [s \in Sets |-> cidrSets[s]]
    BY DEF ShapeInv, SetsOK
  <2> QED
    BY <2>1, <2>2, <2>3
<1>9. handler \in HandlerStates /\ Len(channel) <= QueueSize
  BY <1>4 DEF ShapeInv, QueueOK
<1>10. workers \in [Workers -> WorkerStates] /\ lingering \subseteq Items
  BY <1>3, <1>5 DEF ShapeInv, WorkersOK
<1> QED
  BY <1>6, <1>7, <1>8, <1>9, <1>10 DEF TypeOK, ShapeInv, GhostsOK

\* Every variable keeps its type: in particular nodeCIDRUpdateChannel never
\* overflows and no bitmap's counter leaves its range.
THEOREM AllocatorTypeCorrect == Spec => []TypeOK
BY AlwaysShape, ShapeImpliesType, PTL

\* The blocks filterOutServiceRange marks stay marked, and no node is ever given
\* one of them, through every release, retry, relist and restart.
THEOREM ServiceRangeSafe == Spec => []ServiceRangeProtected
<1>1. ShapeInv => ServiceRangeProtected
  <2> SUFFICES ASSUME ShapeInv, NEW s \in Sets
               PROVE  /\ Reserved[s] \subseteq cidrSets[s].used
                      /\ \A n \in Nodes : s \in DOMAIN api[n].cidrs =>
                                             api[n].cidrs[s] \notin Reserved[s]
    BY DEF ServiceRangeProtected
  <2>1. \A n \in Nodes : api[n].cidrs \in CleanLists
    BY DEF ShapeInv, NodesOK, CleanNodes
  <2> QED
    BY <2>1, CleanListFacts DEF ShapeInv, SetsOK
<1> QED
  BY <1>1, AlwaysShape, PTL

-----------------------------------------------------------------------------
(* Nodes in processing.                                                    *)

\* Where a reservation in flight can be.
LEMMA InFlightFacts ==
  ASSUME NEW item
  PROVE  item \in InFlight <=>
           \/ item \in Range(channel)
           \/ \E w \in Workers : workers[w].pc # "idle" /\ item = workers[w].item
           \/ handler.pc # "idle" /\ item = Item(handler.node, handler.cidrs)
BY DEF InFlight

\* A worker changes its state and no other worker's; it keeps its item unless it
\* becomes idle.
LEMMA BecomeFacts ==
  ASSUME ShapeInv, NEW w \in Workers, workers[w].pc # "idle",
         \/ ReturnOk(w)
         \/ ReturnError(w)
         \/ /\ \E tries, s, failed : \E pc \in {"patch", "release"} :
                 Become(w, Working(pc, workers[w].item, tries, s, failed))
            /\ UNCHANGED nodesInProcessing
  PROVE  /\ \A v \in Workers : v # w => workers'[v] = workers[v]
         /\ \/ /\ workers'[w].pc = "idle"
               /\ nodesInProcessing' = nodesInProcessing \ {workers[w].item.node}
            \/ /\ workers'[w].pc # "idle" /\ workers'[w].item = workers[w].item
               /\ nodesInProcessing' \subseteq nodesInProcessing
<1>1. workers = [v \in Workers |-> workers[v]]
  BY DEF ShapeInv, WorkersOK
<1>2. CASE ReturnOk(w)
  BY <1>1, <1>2 DEF ReturnOk, Become, Idle
<1>3. CASE ReturnError(w)
  BY <1>1, <1>3 DEF ReturnError, Become, Working
<1>4. CASE /\ \E tries, s, failed : \E pc \in {"patch", "release"} :
                 Become(w, Working(pc, workers[w].item, tries, s, failed))
           /\ UNCHANGED nodesInProcessing
  BY <1>1, <1>4 DEF Become, Working
<1> QED
  BY <1>2, <1>3, <1>4

\* A step inside updateCIDRsAllocation creates no reservation, and drops one only
\* together with the node's mark.
LEMMA UpdateFlights ==
  ASSUME ShapeInv, NEW w \in Workers, workers[w].pc # "idle",
         UNCHANGED <<channel, handler>>,
         \A v \in Workers : v # w => workers'[v] = workers[v],
         \/ /\ workers'[w].pc = "idle"
            /\ nodesInProcessing' = nodesInProcessing \ {workers[w].item.node}
         \/ /\ workers'[w].pc # "idle" /\ workers'[w].item = workers[w].item
            /\ nodesInProcessing' \subseteq nodesInProcessing
  PROVE  /\ InFlight' \subseteq InFlight
         /\ nodesInProcessing' \subseteq nodesInProcessing
         /\ \A item \in InFlight : item \in InFlight' \/ item.node \notin nodesInProcessing'
BY DEF InFlight

\* What each worker step does to the reservations in flight.
LEMMA WorkerFlights ==
  ASSUME ShapeInv, NEW w \in Workers, WorkerStep(w)
  PROVE  /\ InFlight' \subseteq InFlight
         /\ nodesInProcessing' \subseteq nodesInProcessing
         /\ \A item \in InFlight : item \in InFlight' \/ item.node \notin nodesInProcessing'
<1>0. workers = [v \in Workers |-> workers[v]]
  BY DEF ShapeInv, WorkersOK
<1>1. CASE WorkerReceive(w)
  <2>1. Range(channel) = {Head(channel)} \cup Range(channel')
    BY <1>1, RangeTail DEF WorkerReceive, ShapeInv, QueueOK
  <2>2. /\ workers[w].pc = "idle"
        /\ workers'[w].pc # "idle" /\ workers'[w].item = Head(channel)
        /\ \A v \in Workers : v # w => workers'[v] = workers[v]
    BY <1>0, <1>1 DEF WorkerReceive, Working
  <2>3. UNCHANGED <<handler, nodesInProcessing>>
    BY <1>1 DEF WorkerReceive
  <2> QED
    BY <2>1, <2>2, <2>3 DEF InFlight
<1>2. CASE WorkerRequeue(w)
  <2>1. Range(channel') = Range(channel) \cup {workers[w].item}
    BY <1>2, RangeAppend, BusyWorker DEF WorkerRequeue, ShapeInv, QueueOK
  <2>2. /\ workers[w].pc # "idle" /\ workers'[w].pc = "idle"
        /\ \A v \in Workers : v # w => workers'[v] = workers[v]
    BY <1>0, <1>2 DEF WorkerRequeue, Become, Idle
  <2>3. UNCHANGED <<handler, nodesInProcessing>>
    BY <1>2 DEF WorkerRequeue
  <2> QED
    BY <2>1, <2>2, <2>3 DEF InFlight
<1>3. CASE \/ WorkerGet(w) \/ WorkerPatchOk(w) \/ WorkerPatchRejected(w)
           \/ WorkerPatchLost(w) \/ WorkerPatchTimeout(w) \/ WorkerRelease(w)
  <2>1. workers[w].pc # "idle"
    BY <1>3 DEF WorkerGet, WorkerPatchOk, WorkerPatchRejected, WorkerPatchLost,
                WorkerPatchTimeout, WorkerRelease
  <2>2. UNCHANGED <<channel, handler>>
    BY <1>3 DEF WorkerGet, WorkerPatchOk, WorkerPatchRejected, WorkerPatchLost,
                WorkerPatchTimeout, WorkerRelease
  <2> DEFINE Moves == \/ ReturnOk(w)
                      \/ ReturnError(w)
                      \/ /\ \E tries, s, failed : \E pc \in {"patch", "release"} :
                              Become(w, Working(pc, workers[w].item, tries, s, failed))
                         /\ UNCHANGED nodesInProcessing
  <2>3. Moves
    <3>1. CASE WorkerGet(w)
      BY <3>1 DEF WorkerGet
    <3>2. CASE WorkerPatchOk(w)
      BY <3>2 DEF WorkerPatchOk
    <3>3. ASSUME NEW reason, AttemptFailed(w, reason) PROVE Moves
      BY <3>3 DEF AttemptFailed
    <3>4. CASE WorkerPatchRejected(w) \/ WorkerPatchLost(w) \/ WorkerPatchTimeout(w)
      BY <3>3, <3>4 DEF WorkerPatchRejected, WorkerPatchLost, WorkerPatchTimeout
    <3>5. CASE WorkerRelease(w)
      BY <3>5 DEF WorkerRelease
    <3> QED
      BY <1>3, <3>1, <3>2, <3>4, <3>5
  <2>4. /\ \A v \in Workers : v # w => workers'[v] = workers[v]
        /\ \/ /\ workers'[w].pc = "idle"
              /\ nodesInProcessing' = nodesInProcessing \ {workers[w].item.node}
           \/ /\ workers'[w].pc # "idle" /\ workers'[w].item = workers[w].item
              /\ nodesInProcessing' \subseteq nodesInProcessing
    BY <2>1, <2>3, BecomeFacts
  <2> QED
    BY <2>1, <2>2, <2>4, UpdateFlights
<1> QED
  BY <1>1, <1>2, <1>3 DEF WorkerStep

\* What each handler step does to the reservations in flight: at most the one
\* the handler itself builds is new, and a node that enters the set is that
\* one's.
LEMMA HandlerFlights ==
  ASSUME ShapeInv, HandlerStep
  PROVE  /\ \A item \in InFlight' :
              \/ item \in InFlight
              \/ handler'.pc # "idle" /\ item = Item(handler'.node, handler'.cidrs)
         /\ \A item \in InFlight :
              \/ \E kept \in InFlight' : kept.node = item.node
              \/ item.node \notin nodesInProcessing'
         /\ \A n \in nodesInProcessing' :
              n \in nodesInProcessing \/ \E item \in InFlight' : item.node = n
<1>1. CASE HandlerSend
  <2>1. Item(handler.node, handler.cidrs) \in CleanItems
    BY <1>1 DEF HandlerSend, ShapeInv, QueueOK, CleanHandlers, Idle, Item, CleanItems
  <2>2. Range(channel') = Range(channel) \cup {Item(handler.node, handler.cidrs)}
    BY <1>1, <2>1, RangeAppend DEF HandlerSend, ShapeInv, QueueOK
  <2>3. handler.pc # "idle" /\ handler'.pc = "idle" /\ UNCHANGED <<workers, nodesInProcessing>>
    BY <1>1 DEF HandlerSend, Idle
  <2> QED
    BY <2>2, <2>3 DEF InFlight
<1>2. CASE UNCHANGED <<nodesInProcessing, handler, channel, workers>>
  BY <1>2 DEF InFlight
<1>3. ASSUME NEW n \in Nodes, NEW got \in CleanLists, Len(got) < NumSets,
             AllocateNextFor(n, got), UNCHANGED <<channel, workers>>,
             handler.pc = "idle" \/ handler.node = n
      PROVE  /\ \A item \in InFlight' :
                  \/ item \in InFlight
                  \/ handler'.pc # "idle" /\ item = Item(handler'.node, handler'.cidrs)
             /\ \A item \in InFlight :
                  \/ \E kept \in InFlight' : kept.node = item.node
                  \/ item.node \notin nodesInProcessing'
             /\ \A m \in nodesInProcessing' :
                  m \in nodesInProcessing \/ \E item \in InFlight' : item.node = m
  <2>1. \/ /\ handler'.pc # "idle" /\ handler'.node = n
           /\ nodesInProcessing' = nodesInProcessing \cup {n}
        \/ /\ handler'.pc = "idle" /\ nodesInProcessing' = nodesInProcessing \ {n}
    BY <1>3 DEF AllocateNextFor, AllocateFrom, GiveUp, Handling, Idle
  <2> DEFINE others == Range(channel)
                       \cup {workers[w].item : w \in {w \in Workers : workers[w].pc # "idle"}}
             old == Item(handler.node, handler.cidrs)
             new == Item(handler'.node, handler'.cidrs)
  <2>2. /\ \/ InFlight = others
           \/ InFlight = others \cup {old} /\ old.node = n
        /\ \/ handler'.pc = "idle" /\ InFlight' = others
           \/ handler'.pc # "idle" /\ InFlight' = others \cup {new}
    BY <1>3 DEF InFlight, Item
  <2>3. new.node = handler'.node
    BY DEF Item
  <2> HIDE DEF others, old, new
  <2>4. \A item \in InFlight' : item \in InFlight \/ (handler'.pc # "idle" /\ item = new)
    BY <2>2
  <2>5. CASE /\ handler'.pc # "idle" /\ handler'.node = n
             /\ nodesInProcessing' = nodesInProcessing \cup {n}
    BY <2>2, <2>3, <2>4, <2>5 DEF new
  <2>6. CASE handler'.pc = "idle" /\ nodesInProcessing' = nodesInProcessing \ {n}
    BY <2>2, <2>4, <2>6 DEF new
  <2> QED
    BY <2>1, <2>5, <2>6
<1>4. CASE HandlerAllocate
  <2>1. handler.node \in Nodes /\ handler.cidrs \in CleanLists /\ Len(handler.cidrs) < NumSets
    BY <1>4 DEF HandlerAllocate, ShapeInv, QueueOK, CleanHandlers, Idle
  <2> QED
    BY <1>3, <1>4, <2>1 DEF HandlerAllocate, restOfHandler
<1>5. CASE HandleAdd \/ HandleUpdate \/ HandleDelete
  <2>1. UNCHANGED <<channel, workers>> /\ handler.pc = "idle"
    BY <1>5 DEF HandleAdd, HandleUpdate, HandleDelete, restOfHandler, NextEvent, Idle
  <2>2. \/ UNCHANGED <<nodesInProcessing, handler>>
        \/ AllocateNextFor(Head(notify).node, <<>>)
    BY <1>5 DEF HandleAdd, HandleUpdate, HandleDelete, AllocateOrOccupyCIDR
  <2>3. Head(notify).node \in Nodes
    BY <1>5, NextEventFacts DEF HandleAdd, HandleUpdate, HandleDelete
  <2>4. <<>> \in CleanLists /\ Len(<<>>) < NumSets
    BY EmptyListClean, ConstantsAssumption
  <2> QED
    BY <1>2, <1>3, <2>1, <2>2, <2>3, <2>4
<1> QED
  BY <1>1, <1>4, <1>5 DEF HandlerStep

\* nodesInProcessing names only nodes whose reservation is still on its way: no
\* path through the handler or updateCIDRsAllocation strands a node.
THEOREM ProcessingSafe == Spec => []ProcessingHasWork
<1>1. Init => ProcessingHasWork
  BY DEF Init, ProcessingHasWork
<1>2. ShapeInv /\ ProcessingHasWork /\ [Next]_vars => ProcessingHasWork'
  <2> SUFFICES ASSUME ShapeInv, ProcessingHasWork, [Next]_vars PROVE ProcessingHasWork'
    OBVIOUS
  <2>1. CASE UNCHANGED <<nodesInProcessing, handler, channel, workers>>
    BY <2>1 DEF ProcessingHasWork, InFlight
  <2>2. ASSUME NEW w \in Workers, WorkerStep(w) PROVE ProcessingHasWork'
    BY <2>2, WorkerFlights DEF ProcessingHasWork
  <2>3. CASE HandlerStep
    BY <2>3, HandlerFlights DEF ProcessingHasWork
  <2>4. CASE Restart
    BY <2>4 DEF Restart, ProcessingHasWork
  <2>5. ASSUME NEW n \in Nodes, CreateNode(n) \/ TouchNode(n) \/ DeleteNode(n)
        PROVE  UNCHANGED <<nodesInProcessing, handler, channel, workers>>
    BY <2>5 DEF CreateNode, TouchNode, DeleteNode, allocatorVars
  <2>6. ASSUME NEW item \in lingering, LatePatch(item)
        PROVE  UNCHANGED <<nodesInProcessing, handler, channel, workers>>
    BY <2>6 DEF LatePatch, allocatorVars
  <2>7. ASSUME InformerDeliver \/ InformerRelist
        PROVE  UNCHANGED <<nodesInProcessing, handler, channel, workers>>
    BY <2>7 DEF InformerDeliver, InformerRelist, restOfInformer
  <2>8. CASE UNCHANGED vars
    BY <2>1, <2>8 DEF vars
  <2> QED
    BY <2>1, <2>2, <2>3, <2>4, <2>5, <2>6, <2>7, <2>8 DEF Next
<1> QED
  BY <1>1, <1>2, AlwaysShape, PTL DEF Spec

-----------------------------------------------------------------------------
(* The first lap.  FirstLapDisjoint is not inductive: it says nothing of   *)
(* the reservations that are about to be patched, nor of the events that   *)
(* are about to release a block.  LapInv(s) relates them to the cursor:    *)
(* blocks below it may be released early or leak, but they are not granted *)
(* again on this lap; a block at or above it that a node holds was there   *)
(* when the controller started, is marked, and stays so as long as the     *)
(* node does.                                                              *)

HoldsAt(cidrs, s, c) == s \in DOMAIN cidrs /\ cidrs[s] = c

\* A reservation for n of block c is on its way to a patch.
Flies(n, s, c) ==
  \E item \in InFlight \cup lingering : item.node = n /\ HoldsAt(item.cidrs, s, c)

Owns(n, s, c) == HoldsAt(api[n].cidrs, s, c)

\* The informer has seen, or will see, n hold c.
Told(n, s, c) ==
  \/ HoldsAt(cache[n].cidrs, s, c)
  \/ \E e \in Range(watch) \cup Range(notify) :
       e.type # "delete" /\ e.node = n /\ HoldsAt(e.cidrs, s, c)

\* The delete handler will release c for n.
ToldGone(n, s, c) ==
  \E e \in Range(watch) \cup Range(notify) :
    e.type = "delete" /\ e.node = n /\ HoldsAt(e.cidrs, s, c)

Passed(s, c) == c < advanced[s]

LapFacts(s) ==
  /\ advanced[s] < MaxCIDRs[s] => cidrSets[s].nextCandidate = advanced[s]
  /\ \A c \in Blocks(MaxCIDRs[s]) : \A m, n \in Nodes :
       /\ (Flies(m, s, c) \/ Owns(m, s, c)) /\ (Flies(n, s, c) \/ Owns(n, s, c)) => m = n
       /\ Flies(n, s, c) => Passed(s, c)
       /\ Owns(n, s, c) => Passed(s, c) \/ c \in cidrSets[s].used
       /\ Told(m, s, c) /\ Owns(n, s, c) => Passed(s, c) \/ m = n
       /\ ToldGone(m, s, c) /\ Owns(n, s, c) => Passed(s, c)

LapInv == \A s \in Sets : advanced[s] <= MaxCIDRs[s] /\ ~tainted => LapFacts(s)

\* What every step but a grant and a restart does to range s: it moves claims on
\* blocks along, and clears a bit only for a reservation or a delete event.
Quiet(s) ==
  /\ advanced'[s] = advanced[s] /\ tainted' = tainted
  /\ cidrSets'[s].nextCandidate = cidrSets[s].nextCandidate
  /\ \A c \in Blocks(MaxCIDRs[s]) :
       /\ c \in cidrSets[s].used =>
            \/ c \in cidrSets'[s].used
            \/ \E n \in Nodes : Flies(n, s, c) \/ ToldGone(n, s, c)
       /\ \A n \in Nodes :
            /\ Flies(n, s, c)' => Flies(n, s, c)
            /\ Owns(n, s, c)' => Owns(n, s, c) \/ Flies(n, s, c)
            /\ Told(n, s, c)' => Told(n, s, c) \/ Owns(n, s, c) \/ Flies(n, s, c)
            /\ ToldGone(n, s, c)' =>
                 \/ ToldGone(n, s, c)
                 \/ (Owns(n, s, c) \/ Told(n, s, c)) /\ ~Owns(n, s, c)'

\* A quiet step keeps the relation between claims and cursor.
LEMMA QuietLap ==
  ASSUME NEW s \in Sets, LapInv, Quiet(s), advanced'[s] <= MaxCIDRs[s], ~tainted'
  PROVE  LapFacts(s)'
<1>1. LapFacts(s) /\ advanced'[s] = advanced[s]
  BY DEF LapInv, Quiet
<1>2. (advanced[s] < MaxCIDRs[s] => cidrSets[s].nextCandidate = advanced[s])'
  BY <1>1 DEF LapFacts, Quiet
<1>3. ASSUME NEW c \in Blocks(MaxCIDRs[s]), NEW m \in Nodes, NEW n \in Nodes
      PROVE  (/\ (Flies(m, s, c) \/ Owns(m, s, c)) /\ (Flies(n, s, c) \/ Owns(n, s, c)) => m = n
              /\ Flies(n, s, c) => Passed(s, c)
              /\ Owns(n, s, c) => Passed(s, c) \/ c \in cidrSets[s].used
              /\ Told(m, s, c) /\ Owns(n, s, c) => Passed(s, c) \/ m = n
              /\ ToldGone(m, s, c) /\ Owns(n, s, c) => Passed(s, c))'
  <2>1. Passed(s, c)' <=> Passed(s, c)
    BY <1>1 DEF Passed
  <2>2. /\ Flies(m, s, c)' => Flies(m, s, c)
        /\ Flies(n, s, c)' => Flies(n, s, c)
        /\ Owns(m, s, c)' => Owns(m, s, c) \/ Flies(m, s, c)
        /\ Owns(n, s, c)' => Owns(n, s, c) \/ Flies(n, s, c)
        /\ Told(m, s, c)' => Told(m, s, c) \/ Owns(m, s, c) \/ Flies(m, s, c)
        /\ ToldGone(m, s, c)' =>
             ToldGone(m, s, c) \/ ((Owns(m, s, c) \/ Told(m, s, c)) /\ ~Owns(m, s, c)')
    BY DEF Quiet
  <2>3. /\ (Flies(m, s, c) \/ Owns(m, s, c)) /\ (Flies(n, s, c) \/ Owns(n, s, c)) => m = n
        /\ Flies(n, s, c) => Passed(s, c)
        /\ Owns(n, s, c) => Passed(s, c) \/ c \in cidrSets[s].used
        /\ Told(m, s, c) /\ Owns(n, s, c) => Passed(s, c) \/ m = n
        /\ ToldGone(m, s, c) /\ Owns(n, s, c) => Passed(s, c)
    BY <1>1 DEF LapFacts
  <2>4. Owns(n, s, c)' => Passed(s, c)' \/ c \in cidrSets'[s].used
    <3>1. ASSUME Owns(n, s, c), c \in cidrSets[s].used, c \notin cidrSets'[s].used
          PROVE  Passed(s, c)
      <4>1. PICK k \in Nodes : Flies(k, s, c) \/ ToldGone(k, s, c)
        BY <3>1 DEF Quiet
      <4> QED
        BY <1>1, <3>1, <4>1 DEF LapFacts
    <3> QED
      BY <2>1, <2>2, <2>3, <3>1
  <2>5. (ToldGone(m, s, c) /\ Owns(n, s, c) => Passed(s, c))'
    <3>1. CASE m = n
      BY <2>1, <2>2, <2>3, <3>1
    <3>2. CASE m # n
      BY <2>1, <2>2, <2>3, <3>2
    <3> QED
      BY <3>1, <3>2
  <2> QED
    BY <2>1, <2>2, <2>3, <2>4, <2>5
<1> QED
  BY <1>2, <1>3 DEF LapFacts

\* Reservations in flight that only move are no new claims.
LEMMA FliesFrom ==
  ASSUME InFlight' \cup lingering' \subseteq InFlight \cup lingering,
         NEW n, NEW s, NEW c, Flies(n, s, c)'
  PROVE  Flies(n, s, c)
BY DEF Flies

\* One more event in the watch tells what that event says.
LEMMA ToldFrom ==
  ASSUME ShapeInv, NEW e \in CleanEvents, watch' = Append(watch, e),
         UNCHANGED <<cache, notify>>, NEW n, NEW s, NEW c
  PROVE  /\ Told(n, s, c)' =>
              \/ Told(n, s, c)
              \/ e.type # "delete" /\ e.node = n /\ HoldsAt(e.cidrs, s, c)
         /\ ToldGone(n, s, c)' =>
              \/ ToldGone(n, s, c)
              \/ e.type = "delete" /\ e.node = n /\ HoldsAt(e.cidrs, s, c)
<1>1. Range(watch)' = Range(watch) \cup {e}
  BY RangeAppend DEF ShapeInv, EventsOK
<1> QED
  BY <1>1 DEF Told, ToldGone

\* The cluster's own steps are quiet.
LEMMA NodeQuiet ==
  ASSUME ShapeInv, NEW n \in Nodes, CreateNode(n) \/ TouchNode(n) \/ DeleteNode(n),
         NEW s \in Sets
  PROVE  Quiet(s)
<1>1. UNCHANGED allocatorVars /\ UNCHANGED lingering
  BY DEF CreateNode, TouchNode, DeleteNode
<1>2. InFlight' \cup lingering' \subseteq InFlight \cup lingering
  BY <1>1 DEF allocatorVars, InFlight
<1>3. api = [m \in Nodes |-> api[m]] /\ api[n].cidrs \in CleanLists
  BY DEF ShapeInv, NodesOK, CleanNodes
<1>4. ASSUME NEW c \in Blocks(MaxCIDRs[s]), NEW m \in Nodes
      PROVE  /\ Owns(m, s, c)' => Owns(m, s, c)
             /\ Told(m, s, c)' => Told(m, s, c) \/ Owns(m, s, c)
             /\ ToldGone(m, s, c)' => \/ ToldGone(m, s, c)
                                      \/ Owns(m, s, c) /\ ~Owns(m, s, c)'
  <2>0. UNCHANGED <<cache, notify>> /\ <<>> \in CleanLists /\ ~HoldsAt(<<>>, s, c)
    BY <1>1, EmptyListClean DEF allocatorVars, HoldsAt
  <2>1. CASE CreateNode(n)
    <3> DEFINE e == Event("add", n, <<>>)
    <3>1. e \in CleanEvents /\ e.type = "add" /\ e.cidrs = <<>>
      BY <2>0 DEF Event, CleanEvents
    <3>2. watch' = Append(watch, e)
      BY <2>1 DEF CreateNode
    <3>3. Owns(m, s, c)' => Owns(m, s, c)
      BY <1>3, <2>0, <2>1 DEF CreateNode, Owns
    <3> HIDE DEF e
    <3> QED
      BY <2>0, <3>1, <3>2, <3>3, ToldFrom
  <2>2. CASE TouchNode(n)
    <3> DEFINE e == Event("update", n, api[n].cidrs)
    <3>1. e \in CleanEvents /\ e.type = "update" /\ e.node = n /\ e.cidrs = api[n].cidrs
      BY <1>3 DEF Event, CleanEvents
    <3>2. watch' = Append(watch, e) /\ UNCHANGED api
      BY <2>2 DEF TouchNode
    <3> HIDE DEF e
    <3> QED
      BY <2>0, <3>1, <3>2, ToldFrom DEF Owns
  <2>3. CASE DeleteNode(n)
    <3> DEFINE e == Event("delete", n, api[n].cidrs)
    <3>1. e \in CleanEvents /\ e.type = "delete" /\ e.node = n /\ e.cidrs = api[n].cidrs
      BY <1>3 DEF Event, CleanEvents
    <3>2. watch' = Append(watch, e) /\ api'[n].cidrs = <<>>
          /\ \A k \in Nodes : k # n => api'[k] = api[k]
      BY <1>3, <2>3 DEF DeleteNode, Absent
    <3>3. ~Owns(n, s, c)' /\ (Owns(m, s, c)' => Owns(m, s, c))
      BY <2>0, <3>2 DEF Owns
    <3>4. HoldsAt(e.cidrs, s, c) => Owns(n, s, c)
      BY <3>1 DEF Owns
    <3> HIDE DEF e
    <3>5. /\ Told(m, s, c)' => Told(m, s, c)
          /\ ToldGone(m, s, c)' => ToldGone(m, s, c) \/ (e.node = m /\ HoldsAt(e.cidrs, s, c))
      BY <2>0, <3>1, <3>2, ToldFrom
    <3>6. CASE m = n
      BY <3>3, <3>4, <3>5, <3>6
    <3>7. CASE m # n
      <4>1. Owns(m, s, c)' => Owns(m, s, c)
        BY <3>3, <3>7, <3>2 DEF Owns
      <4> QED
        BY <3>1, <3>5, <3>7, <4>1
    <3> QED
      BY <3>6, <3>7
  <2> QED
    BY <2>1, <2>2, <2>3
<1>5. advanced'[s] = advanced[s] /\ tainted' = tainted /\ cidrSets' = cidrSets
  BY <1>1 DEF allocatorVars
<1> QED
  BY <1>2, <1>4, <1>5, FliesFrom DEF Quiet

\* An accepted patch turns a reservation into a holding and tells of it.
LEMMA ApplyClaims ==
  ASSUME ShapeInv, NEW item \in InFlight \cup lingering, item \in CleanItems,
         Apply(item) \/ UNCHANGED <<api, watch>>, UNCHANGED <<cache, notify>>,
         NEW s \in Sets, NEW c \in Blocks(MaxCIDRs[s]), NEW n \in Nodes
  PROVE  /\ Owns(n, s, c)' => Owns(n, s, c) \/ Flies(n, s, c)
         /\ Told(n, s, c)' => Told(n, s, c) \/ Flies(n, s, c)
         /\ ToldGone(n, s, c)' => ToldGone(n, s, c)
<1>1. CASE UNCHANGED <<api, watch>>
  BY <1>1 DEF Owns, Told, ToldGone
<1>2. CASE /\ api' = [api EXCEPT ![item.node].cidrs = item.cidrs]
           /\ watch' = Append(watch, Event("update", item.node, item.cidrs))
  <2> DEFINE e == Event("update", item.node, item.cidrs)
  <2>1. e \in CleanEvents /\ e.type = "update" /\ e.node = item.node /\ e.cidrs = item.cidrs
    BY DEF Event, CleanEvents, CleanItems, FullLists
  <2>2. watch' = Append(watch, e)
    BY <1>2
  <2> HIDE DEF e
  <2>3. item.node = n /\ HoldsAt(item.cidrs, s, c) => Flies(n, s, c)
    BY DEF Flies
  <2>4. Owns(n, s, c)' => Owns(n, s, c) \/ Flies(n, s, c)
    <3>1. api \in [Nodes -> CleanNodes]
      BY DEF ShapeInv, NodesOK
    <3>2. api'[n].cidrs = IF n = item.node THEN item.cidrs ELSE api[n].cidrs
      BY <1>2, <3>1 DEF CleanNodes
    <3> QED
      BY <2>3, <3>2 DEF Owns
  <2> QED
    BY <2>1, <2>2, <2>3, <2>4, ToldFrom
<1> QED
  BY <1>1, <1>2 DEF Apply

\* A late patch is quiet.
LEMMA LatePatchQuiet ==
  ASSUME ShapeInv, NEW item \in lingering, LatePatch(item), NEW s \in Sets
  PROVE  Quiet(s)
<1>1. item \in CleanItems /\ item \in InFlight \cup lingering
  BY DEF ShapeInv, WorkersOK
<1>2. UNCHANGED allocatorVars /\ lingering' \subseteq lingering
      /\ (Apply(item) \/ UNCHANGED <<api, watch>>)
  BY DEF LatePatch
<1>3. InFlight' \cup lingering' \subseteq InFlight \cup lingering
  BY <1>2 DEF allocatorVars, InFlight
<1>4. /\ advanced'[s] = advanced[s] /\ tainted' = tainted /\ cidrSets' = cidrSets
      /\ UNCHANGED <<cache, notify>>
  BY <1>2 DEF allocatorVars
<1> QED
  BY <1>1, <1>2, <1>3, <1>4, FliesFrom, ApplyClaims DEF Quiet

\* Delivering an event is quiet: what the cache learns was already told.
LEMMA DeliverQuiet ==
  ASSUME ShapeInv, InformerDeliver, NEW s \in Sets
  PROVE  Quiet(s)
<1> DEFINE e == Head(watch)
<1>1. /\ e \in CleanEvents
      /\ Range(watch) = {e} \cup Range(watch')
      /\ Range(notify') = Range(notify) \cup {e}
  BY RangeTail, RangeAppend DEF ShapeInv, EventsOK, InformerDeliver
<1>2. /\ cache' = [cache EXCEPT ![e.node] = IF e.type = "delete" THEN Absent
                                            ELSE [live |-> TRUE, cidrs |-> e.cidrs]]
      /\ cache = [n \in Nodes |-> cache[n]]
  BY DEF InformerDeliver, ShapeInv, NodesOK
<1>3. UNCHANGED restOfInformer
  BY DEF InformerDeliver
<1>4. InFlight' \cup lingering' \subseteq InFlight \cup lingering
  BY <1>3 DEF restOfInformer, InFlight
<1> HIDE DEF e
<1>5. ASSUME NEW c \in Blocks(MaxCIDRs[s]), NEW n \in Nodes
      PROVE  /\ Told(n, s, c)' => Told(n, s, c)
             /\ ToldGone(n, s, c)' => ToldGone(n, s, c)
  <2>1. ~HoldsAt(Absent.cidrs, s, c)
    BY EmptyListClean DEF HoldsAt, Absent
  <2>2. HoldsAt(cache'[n].cidrs, s, c) => Told(n, s, c)
    <3>1. CASE n = e.node /\ e.type # "delete"
      <4>1. cache'[n].cidrs = e.cidrs
        BY <1>2, <3>1
      <4> QED
        BY <1>1, <3>1, <4>1 DEF Told
    <3>2. CASE n = e.node /\ e.type = "delete"
      BY <1>2, <2>1, <3>2
    <3>3. CASE n # e.node
      BY <1>2, <3>3 DEF Told
    <3> QED
      BY <3>1, <3>2, <3>3
  <2>3. Range(watch)' \cup Range(notify)' \subseteq Range(watch) \cup Range(notify)
    BY <1>1
  <2> QED
    BY <2>2, <2>3 DEF Told, ToldGone
<1>6. advanced'[s] = advanced[s] /\ tainted' = tainted /\ cidrSets' = cidrSets /\ api' = api
  BY <1>3 DEF restOfInformer
<1>7. \A n \in Nodes : \A c : Owns(n, s, c)' => Owns(n, s, c)
  BY <1>6 DEF Owns
<1> QED
  BY <1>4, <1>5, <1>6, <1>7, FliesFrom DEF Quiet

\* Listing again is quiet: a node reported as gone holds nothing any more.
LEMMA RelistQuiet ==
  ASSUME ShapeInv, InformerRelist, NEW s \in Sets
  PROVE  Quiet(s)
<1>1. UNCHANGED restOfInformer /\ cache' = api /\ watch' = <<>>
  BY DEF InformerRelist
<1>2. Range(watch') = {}
  BY <1>1 DEF Range
<1>3. InFlight' \cup lingering' \subseteq InFlight \cup lingering
  BY <1>1 DEF restOfInformer, InFlight
<1>4. advanced'[s] = advanced[s] /\ tainted' = tainted /\ cidrSets' = cidrSets /\ api' = api
  BY <1>1 DEF restOfInformer
<1>5. \A e \in Range(notify') :
        \/ e \in Range(notify)
        \/ e.type # "delete" /\ e.node \in Nodes /\ e.cidrs = api[e.node].cidrs
        \/ /\ e.type = "delete" /\ e.node \in Nodes
           /\ e.cidrs = cache[e.node].cidrs /\ ~api[e.node].live
  BY RelistFacts
<1>6. ASSUME NEW c \in Blocks(MaxCIDRs[s]), NEW n \in Nodes
      PROVE  /\ Owns(n, s, c)' => Owns(n, s, c)
             /\ Told(n, s, c)' => Told(n, s, c) \/ Owns(n, s, c)
             /\ ToldGone(n, s, c)' => \/ ToldGone(n, s, c)
                                      \/ Told(n, s, c) /\ ~Owns(n, s, c)'
  <2>1. Owns(n, s, c)' <=> Owns(n, s, c)
    BY <1>4 DEF Owns
  <2>2. Told(n, s, c)' => Told(n, s, c) \/ Owns(n, s, c)
    BY <1>1, <1>2, <1>5 DEF Told, Owns
  <2>3. ~api[n].live => ~Owns(n, s, c)
    BY EmptyListClean DEF Owns, HoldsAt, ShapeInv, NodesOK
  <2>4. ToldGone(n, s, c)' => \/ ToldGone(n, s, c)
                              \/ Told(n, s, c) /\ ~api[n].live
    BY <1>2, <1>5 DEF Told, ToldGone
  <2> QED
    BY <2>1, <2>2, <2>3, <2>4
<1> QED
  BY <1>3, <1>4, <1>6, FliesFrom DEF Quiet

\* A handler step without a grant is quiet: only the delete handler clears bits,
\* those its event names.
LEMMA HandlerQuiet ==
  ASSUME ShapeInv, HandlerStep, handler'.pc = "idle", NEW s \in Sets
  PROVE  Quiet(s)
<1>1. UNCHANGED <<api, watch, cache, lingering, tainted>>
  BY DEF HandlerStep, HandleAdd, HandleUpdate, HandleDelete, HandlerAllocate, HandlerSend,
         restOfHandler, env
<1>2. InFlight' \cup lingering' \subseteq InFlight \cup lingering
  BY <1>1, HandlerFlights
<1>3. Range(notify') \subseteq Range(notify)
  BY NextEventFacts DEF HandlerStep, HandleAdd, HandleUpdate, HandleDelete, HandlerAllocate,
                        HandlerSend, env
<1>4. ASSUME NEW c \in Blocks(MaxCIDRs[s]), NEW n \in Nodes
      PROVE  /\ Owns(n, s, c)' => Owns(n, s, c)
             /\ Told(n, s, c)' => Told(n, s, c)
             /\ ToldGone(n, s, c)' => ToldGone(n, s, c)
  BY <1>1, <1>3 DEF Owns, Told, ToldGone
<1>5. ASSUME NEW t, NEW n, NEW got, AllocateFrom(t, n, got) PROVE FALSE
  BY <1>5 DEF AllocateFrom, Handling
<1>6. /\ UNCHANGED advanced
      /\ \/ UNCHANGED cidrSets
         \/ cidrSets' = OccupyAll(cidrSets, Head(notify).cidrs)
         \/ NextEvent("delete") /\ cidrSets' = ReleaseAll(cidrSets, Head(notify).cidrs)
  BY <1>5 DEF HandlerStep, HandleAdd, HandleUpdate, HandleDelete, HandlerAllocate,
              HandlerSend, AllocateOrOccupyCIDR, AllocateNextFor, GiveUp
<1>7. cidrSets[s] \in CidrSets(MaxCIDRs[s])
  BY DEF ShapeInv, SetsOK, Sound
<1>8. /\ cidrSets'[s].nextCandidate = cidrSets[s].nextCandidate
      /\ \A c \in Blocks(MaxCIDRs[s]) :
           c \in cidrSets[s].used =>
             c \in cidrSets'[s].used \/ \E n \in Nodes : ToldGone(n, s, c)
  <2>1. CASE UNCHANGED cidrSets
    BY <2>1
  <2>2. CASE cidrSets' = OccupyAll(cidrSets, Head(notify).cidrs)
    BY <1>7, <2>2 DEF OccupyAll, Occupy, CidrSets
  <2>3. CASE NextEvent("delete") /\ cidrSets' = ReleaseAll(cidrSets, Head(notify).cidrs)
    <3> DEFINE e == Head(notify)
    <3>1. e \in Range(notify) /\ e.type = "delete" /\ e.node \in Nodes
      BY <2>3, NextEventFacts
    <3>2. /\ cidrSets'[s].nextCandidate = cidrSets[s].nextCandidate
          /\ \A c \in cidrSets[s].used : c \in cidrSets'[s].used \/ HoldsAt(e.cidrs, s, c)
      BY <1>7, <2>3 DEF ReleaseAll, Release, CidrSets, HoldsAt
    <3> HIDE DEF e
    <3> QED
      BY <3>1, <3>2 DEF ToldGone
  <2> QED
    BY <1>6, <2>1, <2>2, <2>3
<1> QED
  BY <1>1, <1>2, <1>4, <1>6, <1>8, FliesFrom DEF Quiet

\* A worker step is quiet: it releases only what its reservation names.
LEMMA WorkerQuiet ==
  ASSUME ShapeInv, NEW w \in Workers, WorkerStep(w), NEW s \in Sets
  PROVE  Quiet(s)
<1>1. UNCHANGED <<cache, notify, advanced, tainted>>
  BY DEF WorkerStep, WorkerReceive, WorkerGet, WorkerPatchOk, WorkerPatchRejected,
         WorkerPatchLost, WorkerPatchTimeout, WorkerRelease, WorkerRequeue, env
<1>2. workers[w].pc # "idle" => workers[w].item \in CleanItems /\ workers[w].item \in InFlight
  BY BusyWorker DEF InFlight
<1>3. InFlight' \cup lingering' \subseteq InFlight \cup lingering
  <2>1. lingering' = lingering \/ (workers[w].pc = "patch" /\ lingering' = lingering \cup {workers[w].item})
    BY DEF WorkerStep, WorkerReceive, WorkerGet, WorkerPatchOk, WorkerPatchRejected,
           WorkerPatchLost, WorkerPatchTimeout, WorkerRelease, WorkerRequeue
  <2> QED
    BY <1>2, <2>1, WorkerFlights
<1>4. ASSUME NEW c \in Blocks(MaxCIDRs[s]), NEW n \in Nodes
      PROVE  /\ Owns(n, s, c)' => Owns(n, s, c) \/ Flies(n, s, c)
             /\ Told(n, s, c)' => Told(n, s, c) \/ Flies(n, s, c)
             /\ ToldGone(n, s, c)' => ToldGone(n, s, c)
  <2>1. CASE UNCHANGED <<api, watch>>
    BY <1>1, <2>1 DEF Owns, Told, ToldGone
  <2>2. CASE workers[w].pc = "patch" /\ Apply(workers[w].item)
    BY <1>1, <1>2, <2>2, ApplyClaims
  <2> QED
    BY <2>1, <2>2 DEF WorkerStep, WorkerReceive, WorkerGet, WorkerPatchOk,
         WorkerPatchRejected, WorkerPatchLost, WorkerPatchTimeout, WorkerRelease,
         WorkerRequeue, env
<1>5. /\ cidrSets'[s].nextCandidate = cidrSets[s].nextCandidate
      /\ \A c \in Blocks(MaxCIDRs[s]) :
           c \in cidrSets[s].used =>
             c \in cidrSets'[s].used \/ \E n \in Nodes : Flies(n, s, c)
  <2>1. CASE UNCHANGED cidrSets
    BY <2>1
  <2>2. CASE WorkerRelease(w)
    <3> DEFINE item == workers[w].item
               t == workers[w].set
    <3>1. item \in InFlight /\ item.node \in Nodes /\ t \in Sets /\ item.cidrs \in FullLists
      BY <1>2, <2>2, BusyWorker DEF WorkerRelease
    <3>2. t \in DOMAIN item.cidrs
      BY <3>1, CleanListFacts DEF FullLists, Sets
    <3>3. /\ cidrSets' = [cidrSets EXCEPT ![t] = Release(@, {item.cidrs[t]})]
          /\ cidrSets = [r \in Sets |-> cidrSets[r]]
          /\ cidrSets[s] \in CidrSets(MaxCIDRs[s])
      BY <2>2 DEF WorkerRelease, ShapeInv, SetsOK, Sound
    <3> HIDE DEF item, t
    <3>4. CASE s = t
      <4>1. /\ cidrSets'[s].nextCandidate = cidrSets[s].nextCandidate
            /\ \A c \in cidrSets[s].used : c \in cidrSets'[s].used \/ c = item.cidrs[s]
        BY <3>3, <3>4 DEF Release, CidrSets
      <4> QED
        BY <3>1, <3>2, <3>4, <4>1 DEF Flies, HoldsAt
    <3>5. CASE s # t
      BY <3>3, <3>5
    <3> QED
      BY <3>4, <3>5
  <2> QED
    BY <2>1, <2>2 DEF WorkerStep, WorkerReceive, WorkerGet, WorkerPatchOk,
         WorkerPatchRejected, WorkerPatchLost, WorkerPatchTimeout, WorkerRequeue
<1> QED
  BY <1>1, <1>3, <1>4, <1>5, FliesFrom DEF Quiet

\* A cursor that does not reach the end of the bitmap does not wrap.
LEMMA SmallMod ==
  ASSUME NEW a \in Nat, NEW b \in Nat, a < b
  PROVE  a % b = a
OBVIOUS

\* Where the count of a cursor's travel stands after a scan of tries steps.
Reach(old, tries, max) ==
  IF old + tries + 1 <= max THEN old + tries + 1 ELSE max + 1

\* A scan within the first lap took the count from old to new without wrapping.
Travels(old, tries, max, new) ==
  /\ new = old + tries + 1 /\ old < max /\ old <= max
  /\ (old + tries) % max = old + tries
  /\ new < max => (old + tries + 1) % max = new
  /\ \A c \in Blocks(max) :
       (c < old => c < new) /\ (c = old + tries => c < new /\ ~(c < old))

\* A cursor that moves from old past "tries" occupied blocks and the one it grants,
\* and stays on its first lap, does not wrap.
LEMMA CursorTravel ==
  ASSUME NEW old \in Nat, NEW tries \in Nat, NEW max \in Nat, NEW new, new <= max,
         new = Reach(old, tries, max)
  PROVE  Travels(old, tries, max, new)
<1>1. new = old + tries + 1 /\ old + tries + 1 <= max
  BY DEF Reach
<1>2. (old + tries) % max = old + tries
  BY <1>1, SmallMod
<1>3. new < max => (old + tries + 1) % max = new
  BY <1>1, SmallMod
<1>4. \A c \in Blocks(max) : (c < old => c < new) /\ (c = old + tries => c < new /\ ~(c < old))
  BY <1>1 DEF Blocks
<1> QED
  BY <1>1, <1>2, <1>3, <1>4 DEF Travels

\* A step that adds no claim on a block of s but one by n on c0.
OneClaim(s, n, c0) ==
  \A c \in Blocks(MaxCIDRs[s]), m \in Nodes :
    /\ Owns(m, s, c)' => Owns(m, s, c)
    /\ Told(m, s, c)' => Told(m, s, c)
    /\ ToldGone(m, s, c)' => ToldGone(m, s, c)
    /\ Flies(m, s, c)' => Flies(m, s, c) \/ (m = n /\ c = c0)

\* A grant keeps what the first lap says of its own range.
LEMMA GrantedLap ==
  ASSUME ShapeInv, LapInv, NEW s \in Sets, NEW n, NEW got, NEW tries \in Nat,
         NEW c0 \in Blocks(MaxCIDRs[s]), NEW list, Grants(s, n, got, tries, c0, list),
         OneClaim(s, n, c0), tainted' = tainted, advanced'[s] <= MaxCIDRs[s], ~tainted'
  PROVE  LapFacts(s)'
<1>g. /\ c0 = Candidate(cidrSets[s], tries) /\ c0 \notin cidrSets[s].used
      /\ cidrSets' = [cidrSets EXCEPT ![s] = AllocateAfter(cidrSets[s], tries)]
      /\ AllocateAfter(cidrSets[s], tries).used = cidrSets[s].used \cup {c0}
      /\ advanced' = Advance(s, tries)
  BY DEF Grants
<1>w. cidrSets = [t \in Sets |-> cidrSets[t]] /\ advanced \in [Sets -> Nat]
  BY DEF ShapeInv, SetsOK, GhostsOK
<1> DEFINE max == MaxCIDRs[s]
           old == advanced[s]
<1>1. max \in Nat \ {0} /\ old \in Nat /\ cidrSets[s] \in CidrSets(max)
  BY <1>w, ConstantsAssumption DEF ShapeInv, SetsOK, Sound
<1>2. advanced'[s] = Reach(old, tries, max)
  BY <1>g, <1>w DEF Advance, Reach
<1>3. /\ advanced'[s] = old + tries + 1 /\ old < max /\ old <= max
      /\ (old + tries) % max = old + tries
      /\ advanced'[s] < max => (old + tries + 1) % max = advanced'[s]
      /\ \A c \in Blocks(max) :
           (c < old => c < advanced'[s]) /\ (c = old + tries => c < advanced'[s] /\ ~(c < old))
  <2>1. max \in Nat
    BY <1>1
  <2>2. Travels(old, tries, max, advanced'[s])
    <3> HIDE DEF old
    <3> QED
      BY <1>1, <1>2, <2>1, CursorTravel
  <2> QED
    BY <2>2 DEF Travels
<1>4. LapFacts(s) /\ cidrSets[s].nextCandidate = old
  <2>1. ~tainted /\ advanced[s] <= MaxCIDRs[s] /\ advanced[s] < max
    <3>1. tainted' = tainted
      OBVIOUS
    <3> QED
      BY <1>3, <3>1
  <2>2. LapFacts(s)
    BY <2>1 DEF LapInv
  <2>3. advanced[s] < max => cidrSets[s].nextCandidate = old
    BY <2>2 DEF LapFacts
  <2> QED
    BY <2>1, <2>2, <2>3
<1>5. c0 = old + tries
  <2>1. cidrSets[s].maxCIDRs = max
    BY <1>1 DEF CidrSets
  <2> QED
    BY <1>g, <1>3, <1>4, <2>1 DEF Candidate
<1>6. cidrSets'[s] = AllocateAfter(cidrSets[s], tries) /\ cidrSets'[s].used = cidrSets[s].used \cup {c0}
  BY <1>g, <1>w
<1>7. (advanced[s] < MaxCIDRs[s] => cidrSets[s].nextCandidate = advanced[s])'
  <2>1. ASSUME advanced'[s] < max PROVE cidrSets'[s].nextCandidate = advanced'[s]
    <3>1. cidrSets'[s].nextCandidate = (c0 + 1) % max
      BY <1>g, <1>1, <1>6 DEF AllocateAfter, CidrSets
    <3> QED
      BY <1>3, <1>5, <2>1, <3>1
  <2> QED
    BY <2>1
<1>8. ASSUME NEW c \in Blocks(max), NEW k \in Nodes, NEW m \in Nodes
      PROVE  (/\ (Flies(k, s, c) \/ Owns(k, s, c)) /\ (Flies(m, s, c) \/ Owns(m, s, c)) => k = m
              /\ Flies(m, s, c) => Passed(s, c)
              /\ Owns(m, s, c) => Passed(s, c) \/ c \in cidrSets[s].used
              /\ Told(k, s, c) /\ Owns(m, s, c) => Passed(s, c) \/ k = m
              /\ ToldGone(k, s, c) /\ Owns(m, s, c) => Passed(s, c))'
  <2>1. /\ (Flies(k, s, c) \/ Owns(k, s, c)) /\ (Flies(m, s, c) \/ Owns(m, s, c)) => k = m
        /\ Flies(k, s, c) => Passed(s, c)
        /\ Flies(m, s, c) => Passed(s, c)
        /\ Owns(k, s, c) => Passed(s, c) \/ c \in cidrSets[s].used
        /\ Owns(m, s, c) => Passed(s, c) \/ c \in cidrSets[s].used
        /\ Told(k, s, c) /\ Owns(m, s, c) => Passed(s, c) \/ k = m
        /\ ToldGone(k, s, c) /\ Owns(m, s, c) => Passed(s, c)
    BY <1>4 DEF LapFacts
  <2>2. /\ Passed(s, c) => Passed(s, c)'
        /\ c = c0 => Passed(s, c)' /\ ~Passed(s, c) /\ c \notin cidrSets[s].used
    <3>1. (Passed(s, c) <=> c < old) /\ (Passed(s, c)' <=> c < advanced'[s])
      BY DEF Passed
    <3> QED
      BY <1>g, <1>3, <1>5, <3>1
  <2>3. /\ Owns(k, s, c)' => Owns(k, s, c)
        /\ Owns(m, s, c)' => Owns(m, s, c)
        /\ Told(k, s, c)' => Told(k, s, c)
        /\ ToldGone(k, s, c)' => ToldGone(k, s, c)
        /\ Flies(k, s, c)' => Flies(k, s, c) \/ (k = n /\ c = c0)
        /\ Flies(m, s, c)' => Flies(m, s, c) \/ (m = n /\ c = c0)
    BY DEF OneClaim
  <2>4. c \in cidrSets[s].used => c \in cidrSets'[s].used
    BY <1>6
  <2> QED
    BY <2>1, <2>2, <2>3, <2>4
<1> QED
  BY <1>7, <1>8 DEF LapFacts

\* A grant adds one claim, by its node on a block at or above the cursor that was
\* not marked, and moves the cursor past it.
LEMMA GrantLap ==
  ASSUME ShapeInv, LapInv, NEW n \in Nodes, NEW got \in CleanLists, Len(got) < NumSets,
         AllocateFrom(Len(got) + 1, n, got),
         got = <<>> \/ (handler.pc # "idle" /\ Item(n, got) = Item(handler.node, handler.cidrs)),
         UNCHANGED <<api, watch, cache, channel, workers, lingering, tainted>>,
         Range(notify') \subseteq Range(notify)
  PROVE  LapInv'
<1> DEFINE s == Len(got) + 1
<1>0. s = Len(got) + 1 /\ AllocateFrom(s, n, got)
  OBVIOUS
<1> HIDE DEF s
<1>g. PICK tries \in Nat, c0 \in Blocks(MaxCIDRs[s]), list \in CleanLists :
         Grants(s, n, got, tries, c0, list)
  BY <1>0, GrantFacts
<1>1. /\ s \in Sets /\ tries < MaxCIDRs[s]
      /\ c0 = Candidate(cidrSets[s], tries)
      /\ c0 \notin cidrSets[s].used
      /\ Len(list) = s /\ list[s] = c0
      /\ \A t \in DOMAIN got : list[t] = got[t]
      /\ cidrSets' = [cidrSets EXCEPT ![s] = AllocateAfter(cidrSets[s], tries)]
      /\ AllocateAfter(cidrSets[s], tries).used = cidrSets[s].used \cup {c0}
      /\ advanced' = Advance(s, tries)
      /\ handler' = Handling(n, list)
  BY <1>g DEF Grants
<1>2. DOMAIN got = 1 .. s - 1 /\ DOMAIN list = 1 .. s /\ Len(got) \in Nat
  <2>1. Len(got) \in Nat /\ DOMAIN got = 1 .. Len(got)
    BY CleanListFacts
  <2>2. DOMAIN list = 1 .. Len(list)
    BY CleanListFacts
  <2>3. Len(got) = s - 1
    BY <1>0, <2>1
  <2> QED
    BY <1>1, <2>1, <2>2, <2>3
<1>3. \A item \in InFlight' \cup lingering' :
        item \in InFlight \cup lingering \/ item = Item(n, list)
  BY <1>1 DEF InFlight, Handling
<1>4. got # <<>> => Item(n, got) \in InFlight
  BY DEF InFlight
<1>5. ASSUME NEW t \in Sets, NEW c \in Blocks(MaxCIDRs[t]), NEW m \in Nodes
      PROVE  /\ Owns(m, t, c)' => Owns(m, t, c)
             /\ Told(m, t, c)' => Told(m, t, c)
             /\ ToldGone(m, t, c)' => ToldGone(m, t, c)
             /\ Flies(m, t, c)' => Flies(m, t, c) \/ (t = s /\ m = n /\ c = c0)
  <2>1. /\ Owns(m, t, c)' => Owns(m, t, c)
        /\ Told(m, t, c)' => Told(m, t, c)
        /\ ToldGone(m, t, c)' => ToldGone(m, t, c)
    BY DEF Owns, Told, ToldGone
  <2>2. ASSUME Flies(m, t, c)', ~Flies(m, t, c)
        PROVE  t = s /\ m = n /\ c = c0
    <3>1. m = n /\ HoldsAt(list, t, c)
      <4>1. PICK item \in InFlight' \cup lingering' :
              item.node = m /\ HoldsAt(item.cidrs, t, c)
        BY <2>2 DEF Flies
      <4>2. item \notin InFlight \cup lingering
        BY <2>2, <4>1 DEF Flies
      <4>3. item = Item(n, list)
        BY <1>3, <4>2
      <4>4. item.node = n /\ item.cidrs = list
        BY <4>3 DEF Item
      <4> QED
        BY <4>1, <4>4
    <3>2. CASE t = s
      BY <1>1, <3>1, <3>2 DEF HoldsAt
    <3>3. CASE t # s
      <4>1. t \in DOMAIN got /\ got[t] = c
        <5>1. t \in 1 .. s /\ list[t] = c
          BY <1>2, <3>1 DEF HoldsAt
        <5>2. s \in Nat /\ t \in Nat
          BY <1>0, <1>2, <5>1
        <5>3. t \in 1 .. s - 1
          BY <3>3, <5>1, <5>2
        <5>4. \A u \in DOMAIN got : list[u] = got[u]
          BY <1>1
        <5> QED
          BY <1>2, <5>1, <5>3, <5>4
      <4>2. got # <<>>
        BY <4>1, EmptyListClean
      <4>3. Item(n, got) \in InFlight /\ Item(n, got).node = n /\ Item(n, got).cidrs = got
        BY <1>4, <4>2 DEF Item
      <4> QED
        BY <2>2, <3>1, <4>1, <4>3 DEF Flies, HoldsAt
    <3> QED
      BY <3>2, <3>3
  <2> QED
    BY <2>1, <2>2
<1>6. cidrSets = [t \in Sets |-> cidrSets[t]] /\ advanced \in [Sets -> Nat]
  BY DEF ShapeInv, SetsOK, GhostsOK
<1>7. ASSUME NEW t \in Sets, t # s, advanced'[t] <= MaxCIDRs[t], ~tainted'
      PROVE  LapFacts(t)'
  <2>1. advanced'[t] = advanced[t] /\ cidrSets'[t] = cidrSets[t]
    BY <1>1, <1>6, <1>7 DEF Advance
  <2>2. Quiet(t)
    BY <1>5, <1>7, <2>1 DEF Quiet
  <2> QED
    BY <1>7, <2>2, QuietLap
<1>8. ASSUME advanced'[s] <= MaxCIDRs[s], ~tainted' PROVE LapFacts(s)'
  <2>1. OneClaim(s, n, c0)
    BY <1>1, <1>5 DEF OneClaim
  <2>2. s \in Sets /\ tainted' = tainted
    BY <1>1
  <2> QED
    BY <1>8, <1>g, <2>1, <2>2, GrantedLap
<1> QED
  BY <1>7, <1>8 DEF LapInv

\* A controller that has just started.
Started ==
  /\ api \in [Nodes -> CleanNodes] /\ Disjoint(api)
  /\ cache = api /\ Range(watch) = {} /\ notify \in Orders(Adds(api))
  /\ cidrSets = NewCidrSets(api)
  /\ InFlight \cup lingering = {}
  /\ advanced = [s \in Sets |-> 0]

\* A controller that starts on a cluster without collisions, and without a patch
\* of its predecessor under way, starts a lap.
LEMMA StartLap == Started => \A s \in Sets : LapFacts(s)
<1> SUFFICES ASSUME Started, NEW s \in Sets PROVE LapFacts(s)
  OBVIOUS
<1> USE DEF Started
<1>1. \A e \in Range(notify) : /\ e.type = "add" /\ e.node \in Nodes
                               /\ e.cidrs = api[e.node].cidrs
  BY AddsFacts
<1>2. /\ cidrSets[s].nextCandidate = 0 /\ advanced[s] = 0
      /\ BlocksOf(api, s) \subseteq cidrSets[s].used
  BY NewSetsFacts
<1>3. ASSUME NEW c \in Blocks(MaxCIDRs[s]), NEW m \in Nodes, NEW n \in Nodes
      PROVE  /\ ~Flies(n, s, c) /\ ~Flies(m, s, c) /\ ~ToldGone(m, s, c)
             /\ Told(m, s, c) => Owns(m, s, c)
             /\ Owns(m, s, c) /\ Owns(n, s, c) => m = n
             /\ Owns(n, s, c) => c \in cidrSets[s].used
  <2>1. ~Flies(n, s, c) /\ ~Flies(m, s, c)
    BY DEF Flies
  <2>2. ~ToldGone(m, s, c)
    BY <1>1 DEF ToldGone
  <2>3. Told(m, s, c) => Owns(m, s, c)
    BY <1>1 DEF Told, Owns
  <2>4. Owns(m, s, c) /\ Owns(n, s, c) => m = n
    BY DEF Owns, HoldsAt, Disjoint
  <2>5. Owns(n, s, c) => c \in BlocksOf(api, s)
    BY DEF Owns, HoldsAt, BlocksOf
  <2> QED
    BY <1>2, <2>1, <2>2, <2>3, <2>4, <2>5
<1> QED
  BY <1>2, <1>3 DEF LapFacts

\* The same of the state after a restart.
LEMMA RestartLap == Started' => (\A s \in Sets : LapFacts(s))'
BY StartLap, PTL

\* Every step keeps the relation between claims and cursor.
LEMMA LapStep == ShapeInv /\ LapInv /\ [Next]_vars => LapInv'
<1> SUFFICES ASSUME ShapeInv, LapInv, [Next]_vars PROVE LapInv'
  OBVIOUS
<1>1. ASSUME \A s \in Sets : Quiet(s) PROVE LapInv'
  BY <1>1, QuietLap DEF LapInv
<1>2. ASSUME NEW n \in Nodes, CreateNode(n) \/ TouchNode(n) \/ DeleteNode(n) PROVE LapInv'
  BY <1>1, <1>2, NodeQuiet
<1>3. ASSUME NEW item \in lingering, LatePatch(item) PROVE LapInv'
  BY <1>1, <1>3, LatePatchQuiet
<1>4. CASE InformerDeliver
  BY <1>1, <1>4, DeliverQuiet
<1>5. CASE InformerRelist
  BY <1>1, <1>5, RelistQuiet
<1>6. ASSUME NEW w \in Workers, WorkerStep(w) PROVE LapInv'
  BY <1>1, <1>6, WorkerQuiet
<1>7. CASE HandlerStep
  <2>1. CASE handler'.pc = "idle"
    BY <1>1, <1>7, <2>1, HandlerQuiet
  <2>2. CASE HandlerAllocate /\ handler'.pc # "idle"
    <3>1. handler.node \in Nodes /\ handler.cidrs \in CleanLists /\ Len(handler.cidrs) < NumSets
      BY <2>2 DEF HandlerAllocate, ShapeInv, QueueOK, CleanHandlers, Idle
    <3>2. AllocateFrom(Len(handler.cidrs) + 1, handler.node, handler.cidrs)
      BY <2>2 DEF HandlerAllocate, AllocateNextFor, GiveUp, Idle
    <3>3. /\ handler.pc # "idle"
          /\ UNCHANGED <<api, watch, cache, channel, workers, lingering, tainted, notify>>
      BY <2>2 DEF HandlerAllocate, restOfHandler
    <3> QED
      BY <3>1, <3>2, <3>3, GrantLap
  <2>3. CASE (HandleAdd \/ HandleUpdate \/ HandleDelete) /\ handler'.pc # "idle"
    <3>1. AllocateFrom(1, Head(notify).node, <<>>)
      <4>1. handler.pc = "idle"
        BY <2>3 DEF HandleAdd, HandleUpdate, HandleDelete, NextEvent, Idle
      <4>2. AllocateNextFor(Head(notify).node, <<>>)
        BY <2>3, <4>1 DEF HandleAdd, HandleUpdate, HandleDelete, AllocateOrOccupyCIDR
      <4> QED
        BY <2>3, <4>2 DEF AllocateNextFor, GiveUp, Idle
    <3>2. UNCHANGED <<api, watch, cache, channel, workers, lingering, tainted>>
      BY <2>3 DEF HandleAdd, HandleUpdate, HandleDelete, restOfHandler
    <3>3. Head(notify).node \in Nodes /\ Range(notify') \subseteq Range(notify)
      BY <2>3, NextEventFacts DEF HandleAdd, HandleUpdate, HandleDelete
    <3>4. <<>> \in CleanLists /\ Len(<<>>) < NumSets /\ Len(<<>>) + 1 = 1
      BY EmptyListClean, ConstantsAssumption
    <3> DEFINE empty == <<>>
               n == Head(notify).node
    <3>5. /\ empty \in CleanLists /\ Len(empty) < NumSets /\ n \in Nodes
          /\ AllocateFrom(Len(empty) + 1, n, empty) /\ empty = <<>>
      BY <3>1, <3>3, <3>4
    <3> HIDE DEF empty, n
    <3> QED
      BY <3>2, <3>3, <3>5, GrantLap
  <2>4. HandlerSend => handler'.pc = "idle"
    BY DEF HandlerSend, Idle
  <2> QED
    BY <1>7, <2>1, <2>2, <2>3, <2>4 DEF HandlerStep
<1>8. CASE Restart
  <2>1. SUFFICES ASSUME ~tainted' PROVE (\A s \in Sets : LapFacts(s))'
    BY DEF LapInv
  <2>2. lingering' = {} /\ Disjoint(api)' /\ api' = api
    BY <1>8, <2>1 DEF Restart, Disjoint
  <2>3. InFlight' = {} /\ Range(watch)' = {}
    <3>1. /\ channel' = <<>> /\ watch' = <<>>
          /\ handler' = Idle /\ workers' = [w \in Workers |-> Idle]
      BY <1>8 DEF Restart
    <3>2. Range(channel') = {} /\ Range(watch') = {}
      BY <3>1 DEF Range
    <3>3. handler'.pc = "idle" /\ {w \in Workers : workers'[w].pc # "idle"} = {}
      BY <3>1 DEF Idle
    <3> QED
      BY <3>2, <3>3 DEF InFlight
  <2>4. /\ cache' = api' /\ (notify \in Orders(Adds(api)))' /\ (cidrSets = NewCidrSets(api))'
        /\ advanced' = [r \in Sets |-> 0]
    BY <1>8 DEF Restart
  <2>5. api' \in [Nodes -> CleanNodes]
    BY <2>2 DEF ShapeInv, NodesOK
  <2>6. Started'
    BY <2>2, <2>3, <2>4, <2>5 DEF Started
  <2> QED
    BY <2>6, RestartLap
<1>9. CASE UNCHANGED vars
  <2>1. \A s \in Sets : Quiet(s)
    <3>1. SUFFICES ASSUME NEW s \in Sets PROVE Quiet(s)
      OBVIOUS
    <3>2. InFlight' \cup lingering' \subseteq InFlight \cup lingering
      BY <1>9 DEF vars, InFlight
    <3>3. ASSUME NEW c, NEW n
          PROVE  /\ Owns(n, s, c)' => Owns(n, s, c)
                 /\ Told(n, s, c)' => Told(n, s, c)
                 /\ ToldGone(n, s, c)' => ToldGone(n, s, c)
      BY <1>9 DEF vars, Owns, Told, ToldGone
    <3>4. advanced' = advanced /\ tainted' = tainted /\ cidrSets' = cidrSets
      BY <1>9 DEF vars
    <3> QED
      BY <3>2, <3>3, <3>4, FliesFrom DEF Quiet
  <2> QED
    BY <1>1, <2>1
<1> QED
  BY <1>2, <1>3, <1>4, <1>5, <1>6, <1>7, <1>8, <1>9 DEF Next

\* Until a cursor has gone once round its bitmap, no two nodes hold the same
\* CIDR, for every number of nodes, blocks and workers and every schedule of
\* retries, timeouts, relists, deletions and name reuse.
THEOREM FirstLapSafe == Spec => []FirstLapDisjoint
<1>1. Init => LapInv
  <2> SUFFICES ASSUME Init, NEW s \in Sets PROVE LapFacts(s)
    BY DEF LapInv
  <2>1. api \in [Nodes -> CleanNodes]
    BY InitShape DEF ShapeInv, NodesOK
  <2>2. Disjoint(api) /\ Range(watch) = {} /\ InFlight \cup lingering = {}
    <3>1. /\ api \in InitialAPI /\ watch = <<>> /\ channel = <<>> /\ handler = Idle
          /\ workers = [w \in Workers |-> Idle] /\ lingering = {}
      BY DEF Init
    <3>2. Disjoint(api)
      BY <3>1, ConstantsAssumption DEF LegalCluster
    <3>3. Range(watch) = {} /\ Range(channel) = {}
      BY <3>1 DEF Range
    <3>4. handler.pc = "idle" /\ {w \in Workers : workers[w].pc # "idle"} = {}
      BY <3>1 DEF Idle
    <3> QED
      BY <3>1, <3>2, <3>3, <3>4 DEF InFlight
  <2> QED
    BY <2>1, <2>2, StartLap DEF Init, Started
<1>2. ShapeInv /\ LapInv => FirstLapDisjoint
  <2> SUFFICES ASSUME ShapeInv, LapInv, NEW s \in Sets, advanced[s] <= MaxCIDRs[s], ~tainted,
                      NEW m \in Nodes, NEW n \in Nodes,
                      s \in DOMAIN api[m].cidrs, s \in DOMAIN api[n].cidrs,
                      api[m].cidrs[s] = api[n].cidrs[s]
               PROVE  m = n
    BY DEF FirstLapDisjoint
  <2>1. api[m].cidrs[s] \in Blocks(MaxCIDRs[s])
    BY CleanListFacts DEF ShapeInv, NodesOK, CleanNodes
  <2>2. LapFacts(s)
    BY DEF LapInv
  <2>3. Owns(m, s, api[m].cidrs[s]) /\ Owns(n, s, api[m].cidrs[s])
    BY DEF Owns, HoldsAt
  <2> QED
    BY <2>1, <2>2, <2>3 DEF LapFacts
<1> QED
  BY <1>1, <1>2, LapStep, AlwaysShape, PTL DEF Spec
=============================================================================
