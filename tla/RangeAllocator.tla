--------------------------- MODULE RangeAllocator ---------------------------
(***************************************************************************)
(* The range allocator of the node IPAM controller: the informer's event   *)
(* handler reserves a CIDR per cluster range for every node without one    *)
(* and hands the reservation over a bounded channel to the workers, which  *)
(* patch the node.  Three parties run concurrently: the API server with    *)
(* its clients, the informer with the single goroutine that calls the      *)
(* handlers, and the workers.  The API server and the informer are         *)
(* external; a node's CIDR can be set once and never changed.              *)
(***************************************************************************)
EXTENDS CidrSetOps, Sequences, Functions

CONSTANTS Nodes,         \* node names
          NumSets,       \* len(clusterCIDRs): 1, or 2 for dual stack
          MaxCIDRs,      \* maxCIDRs of each CidrSet
          Reserved,      \* blocks that meet a service range, per CidrSet
          Workers,       \* cidrUpdateWorkers goroutines
          QueueSize,     \* cidrUpdateQueueSize
          Retries,       \* cidrUpdateRetries
          InitialAPI,    \* the clusters the controller may find
          MaxCreates, MaxBacklog, MaxLost, MaxTimeouts, MaxRestarts, MaxRelists

Sets == 1 .. NumSets

\* node.Spec.PodCIDRs, one block index per CidrSet, possibly fewer.
CIDRLists == {q \in Seq(Nat) : /\ Len(q) <= NumSets
                               /\ \A s \in 1 .. Len(q) : q[s] < MaxCIDRs[s]}

NodeStates == [live : BOOLEAN, cidrs : CIDRLists]

Absent == [live |-> FALSE, cidrs |-> <<>>]

\* No two nodes of a cluster hold the same block of a range.
Disjoint(cluster) ==
  \A m, n \in Nodes : \A s \in Sets :
    /\ s \in DOMAIN cluster[m].cidrs /\ s \in DOMAIN cluster[n].cidrs
    /\ cluster[m].cidrs[s] = cluster[n].cidrs[s]
    => m = n

LegalCluster(cluster) ==
  /\ cluster \in [Nodes -> NodeStates]
  /\ Disjoint(cluster)
  /\ \A n \in Nodes :
       /\ ~cluster[n].live => cluster[n].cidrs = <<>>
       /\ \A s \in DOMAIN cluster[n].cidrs : cluster[n].cidrs[s] \notin Reserved[s]

ASSUME ConstantsAssumption ==
  /\ NumSets \in Nat \ {0}
  /\ MaxCIDRs \in [Sets -> Nat \ {0}]
  /\ Reserved \in [Sets -> SUBSET Nat]
  /\ \A s \in Sets : Reserved[s] \subseteq Blocks(MaxCIDRs[s])
  /\ IsFiniteSet(Nodes)
  /\ QueueSize \in Nat \ {0}
  /\ Retries \in Nat \ {0}
  /\ \A cluster \in InitialAPI : LegalCluster(cluster)

ASSUME BoundsAssumption ==
  /\ MaxCreates \in Nat /\ MaxBacklog \in Nat /\ MaxLost \in Nat
  /\ MaxTimeouts \in Nat /\ MaxRestarts \in Nat /\ MaxRelists \in Nat

VARIABLES
  api,                 \* the nodes in the API server
  watch,               \* events the informer has not received
  cache,               \* the informer's store, read by nodeLister
  notify,              \* events the handlers have not been called with
  cidrSets,
  nodesInProcessing,
  handler,             \* the goroutine that runs the event handlers
  channel,             \* nodeCIDRUpdateChannel
  workers,
  lingering,           \* patches whose client saw a timeout, still pending
  advanced,            \* how far each cursor has moved since the start
  tainted,             \* the controller started from an unknowable cluster
  budget               \* environment steps taken, for the bounds

env == <<api, watch, cache, notify>>
vars == <<api, watch, cache, notify, cidrSets, nodesInProcessing, handler,
          channel, workers, lingering, advanced, tainted, budget>>

-----------------------------------------------------------------------------
Event(type, n, cidrs) == [type |-> type, node |-> n, cidrs |-> cidrs]

\* nodeReservedCIDRs
Item(n, cidrs) == [node |-> n, cidrs |-> cidrs]

Idle == [pc |-> "idle"]

Handling(n, cidrs) ==
  [pc    |-> IF Len(cidrs) < NumSets THEN "alloc" ELSE "send",
   node  |-> n,
   cidrs |-> cidrs]

Working(pc, item, tries, set, failed) ==
  [pc |-> pc, item |-> item, tries |-> tries, set |-> set, failed |-> failed]

\* The sequences that hold every element of S once.
Orders(S) == Bijection(1 .. Cardinality(S), S)

BlocksOf(cluster, s) ==
  {cluster[n].cidrs[s] : n \in {n \in Nodes : s \in DOMAIN cluster[n].cidrs}}

Adds(cluster) == {Event("add", n, cluster[n].cidrs) :
                    n \in {n \in Nodes : cluster[n].live}}

\* Mutant: the service ranges are not filtered out.
NewCidrSetsUnfiltered(cluster) ==
  [s \in Sets |-> Occupy(NewCIDRSet(MaxCIDRs[s]), BlocksOf(cluster, s))]

\* Mutant: the nodes that already hold CIDRs are not occupied.
NewCidrSetsForgetful(cluster) ==
  [s \in Sets |-> Occupy(NewCIDRSet(MaxCIDRs[s]), Reserved[s])]

\* NewCIDRRangeAllocator: filter out the service ranges, then occupy what the
\* listed nodes hold.
NewCidrSets(cluster) ==
  [s \in Sets |-> Occupy(Occupy(NewCIDRSet(MaxCIDRs[s]), Reserved[s]),
                         BlocksOf(cluster, s))]

\* What the environment can do only so often.
Spendings == {"creates", "lost", "timeouts", "restarts", "relists"}

Init ==
  /\ api \in InitialAPI
  /\ watch = <<>>
  /\ cache = api
  /\ notify \in Orders(Adds(api))
  /\ cidrSets = NewCidrSets(api)
  /\ nodesInProcessing = {}
  /\ handler = Idle
  /\ channel = <<>>
  /\ workers = [w \in Workers |-> Idle]
  /\ lingering = {}
  /\ advanced = [s \in Sets |-> 0]
  /\ tainted = FALSE
  /\ budget = [kind \in Spendings |-> 0]

-----------------------------------------------------------------------------
(* The cluster: nodes come, report their status and go; a late patch lands. *)

Spend(what, limit) == /\ budget[what] < limit
                      /\ budget' = [budget EXCEPT ![what] = @ + 1]

allocatorVars == <<cache, notify, cidrSets, nodesInProcessing, handler, channel,
                   workers, advanced, tainted>>

CreateNode(n) ==
  /\ ~api[n].live
  /\ Spend("creates", MaxCreates)
  /\ api' = [api EXCEPT ![n] = [live |-> TRUE, cidrs |-> <<>>]]
  /\ watch' = Append(watch, Event("add", n, <<>>))
  /\ UNCHANGED <<allocatorVars, lingering>>

TouchNode(n) ==
  /\ api[n].live
  /\ Len(watch) + Len(notify) < MaxBacklog
  /\ watch' = Append(watch, Event("update", n, api[n].cidrs))
  /\ UNCHANGED <<allocatorVars, api, lingering, budget>>

DeleteNode(n) ==
  /\ api[n].live
  /\ api' = [api EXCEPT ![n] = Absent]
  /\ watch' = Append(watch, Event("delete", n, api[n].cidrs))
  /\ UNCHANGED <<allocatorVars, lingering, budget>>

\* The API server's verdict on a patch of a node's CIDRs.
Accepts(item) == /\ api[item.node].live
                 /\ api[item.node].cidrs \in {<<>>, item.cidrs}

Apply(item) ==
  IF api[item.node].cidrs = item.cidrs
  THEN UNCHANGED <<api, watch>>
  ELSE /\ api' = [api EXCEPT ![item.node].cidrs = item.cidrs]
       /\ watch' = Append(watch, Event("update", item.node, item.cidrs))

LatePatch(item) ==
  /\ item \in lingering
  /\ lingering' = lingering \ {item}
  /\ \/ Accepts(item) /\ Apply(item)
     \/ UNCHANGED <<api, watch>>
  /\ UNCHANGED <<allocatorVars, budget>>

-----------------------------------------------------------------------------
(* The informer.                                                           *)

restOfInformer == <<api, cidrSets, nodesInProcessing, handler, channel, workers,
                    lingering, advanced, tainted>>

InformerDeliver ==
  /\ watch # <<>>
  /\ LET e == Head(watch)
     IN /\ cache' = [cache EXCEPT ![e.node] =
                       IF e.type = "delete" THEN Absent
                       ELSE [live |-> TRUE, cidrs |-> e.cidrs]]
        /\ notify' = Append(notify, e)
  /\ watch' = Tail(watch)
  /\ UNCHANGED <<restOfInformer, budget>>

\* The watch breaks and the informer lists again: whatever happened in between
\* shows as one difference per node, and a node that is gone is reported with
\* its last known state (DeletedFinalStateUnknown).
InformerRelist ==
  /\ Spend("relists", MaxRelists)
  /\ watch' = <<>>
  /\ cache' = api
  /\ \E here \in Orders({Event(IF cache[n].live THEN "update" ELSE "add", n,
                               api[n].cidrs) : n \in {n \in Nodes : api[n].live}}),
        gone \in Orders({Event("delete", n, cache[n].cidrs) :
                           n \in {n \in Nodes : cache[n].live /\ ~api[n].live}}) :
       notify' = notify \o here \o gone
  /\ UNCHANGED restOfInformer

-----------------------------------------------------------------------------
(* The event handlers, called one after another by one goroutine.          *)

OccupyAll(sets, cidrs) ==
  [s \in Sets |-> IF s \in DOMAIN cidrs THEN Occupy(sets[s], {cidrs[s]}) ELSE sets[s]]

ReleaseAll(sets, cidrs) ==
  [s \in Sets |-> IF s \in DOMAIN cidrs THEN Release(sets[s], {cidrs[s]}) ELSE sets[s]]

\* The cursor's travel is counted up to one step beyond the first lap.
Advance(s, tries) ==
  [advanced EXCEPT ![s] = IF @ + tries + 1 <= MaxCIDRs[s] THEN @ + tries + 1
                          ELSE MaxCIDRs[s] + 1]

AllocateFrom(s, n, got) ==
  /\ ~NoneRemaining(cidrSets[s])
  /\ \E tries \in 0 .. MaxCIDRs[s] :
       /\ ScanStopsAfter(cidrSets[s], tries)
       /\ cidrSets' = [cidrSets EXCEPT ![s] = AllocateAfter(@, tries)]
       /\ advanced' = Advance(s, tries)
       /\ handler' = Handling(n, Append(got, Candidate(cidrSets[s], tries)))
  /\ nodesInProcessing' = nodesInProcessing \cup {n}

\* Mutant: the node stays in processing when a range is exhausted.
GiveUpInProcessing(s, n) ==
  /\ NoneRemaining(cidrSets[s])
  /\ handler' = Idle
  /\ nodesInProcessing' = nodesInProcessing \cup {n}
  /\ UNCHANGED <<cidrSets, advanced>>

\* "failed to allocate cidr": what earlier ranges reserved stays reserved.
GiveUp(s, n) ==
  /\ NoneRemaining(cidrSets[s])
  /\ handler' = Idle
  /\ nodesInProcessing' = nodesInProcessing \ {n}
  /\ UNCHANGED <<cidrSets, advanced>>

AllocateNextFor(n, got) == \/ AllocateFrom(Len(got) + 1, n, got)
                           \/ GiveUp(Len(got) + 1, n)

AllocateOrOccupyCIDR(n, cidrs) ==
  \/ /\ n \in nodesInProcessing
     /\ UNCHANGED <<cidrSets, nodesInProcessing, handler, advanced>>
  \/ /\ n \notin nodesInProcessing
     /\ cidrs # <<>>
     /\ cidrSets' = OccupyAll(cidrSets, cidrs)
     /\ UNCHANGED <<nodesInProcessing, handler, advanced>>
  \/ /\ n \notin nodesInProcessing
     /\ cidrs = <<>>
     /\ AllocateNextFor(n, <<>>)

NextEvent(type) == /\ handler = Idle
                   /\ notify # <<>>
                   /\ Head(notify).type = type
                   /\ notify' = Tail(notify)

restOfHandler == <<api, watch, cache, channel, workers, lingering, tainted, budget>>

HandleAdd ==
  /\ NextEvent("add")
  /\ AllocateOrOccupyCIDR(Head(notify).node, Head(notify).cidrs)
  /\ UNCHANGED restOfHandler

HandleUpdate ==
  /\ NextEvent("update")
  /\ IF Head(notify).cidrs = <<>>
     THEN AllocateOrOccupyCIDR(Head(notify).node, Head(notify).cidrs)
     ELSE UNCHANGED <<cidrSets, nodesInProcessing, handler, advanced>>
  /\ UNCHANGED restOfHandler

\* Mutant: the delete handler releases nothing.
HandleDeleteKeeps ==
  /\ NextEvent("delete")
  /\ UNCHANGED <<cidrSets, nodesInProcessing, handler, advanced, restOfHandler>>

\* ReleaseCIDR
HandleDelete ==
  /\ NextEvent("delete")
  /\ cidrSets' = ReleaseAll(cidrSets, Head(notify).cidrs)
  /\ UNCHANGED <<nodesInProcessing, handler, advanced, restOfHandler>>

\* The loop over the cidrSets of a handler call in progress.
HandlerAllocate ==
  /\ handler.pc = "alloc"
  /\ AllocateNextFor(handler.node, handler.cidrs)
  /\ UNCHANGED <<notify, restOfHandler>>

HandlerSend ==
  /\ handler.pc = "send"
  /\ Len(channel) < QueueSize
  /\ channel' = Append(channel, Item(handler.node, handler.cidrs))
  /\ handler' = Idle
  /\ UNCHANGED <<env, cidrSets, nodesInProcessing, workers, lingering, advanced,
                 tainted, budget>>

-----------------------------------------------------------------------------
(* The workers: worker and updateCIDRsAllocation.                          *)

WorkerReceive(w) ==
  /\ workers[w].pc = "idle"
  /\ channel # <<>>
  /\ workers' = [workers EXCEPT ![w] = Working("get", Head(channel), 0, 1, FALSE)]
  /\ channel' = Tail(channel)
  /\ UNCHANGED <<env, cidrSets, nodesInProcessing, handler, lingering, advanced,
                 tainted, budget>>

Become(w, state) == workers' = [workers EXCEPT ![w] = state]

\* Mutant: a successful return leaves the node in processing.
ReturnOkInProcessing(w) == Become(w, Idle) /\ UNCHANGED nodesInProcessing

\* Every return of updateCIDRsAllocation runs the deferred removal; an error
\* makes the worker put the item back.
ReturnOk(w) ==
  /\ Become(w, Idle)
  /\ nodesInProcessing' = nodesInProcessing \ {workers[w].item.node}

ReturnError(w) ==
  /\ Become(w, Working("requeue", workers[w].item, 0, 1, FALSE))
  /\ nodesInProcessing' = nodesInProcessing \ {workers[w].item.node}

WorkerGet(w) ==
  /\ workers[w].pc = "get"
  /\ LET item == workers[w].item
         node == cache[item.node]
     IN \/ ~node.live /\ ReturnError(w)
        \/ node.live /\ node.cidrs = item.cidrs /\ ReturnOk(w)
        \/ /\ node.live /\ node.cidrs \notin {<<>>, item.cidrs}
           /\ Become(w, Working("release", item, 0, 1, FALSE))
           /\ UNCHANGED nodesInProcessing
        \/ /\ node.live /\ node.cidrs = <<>>
           /\ Become(w, Working("patch", item, 0, 1, FALSE))
           /\ UNCHANGED nodesInProcessing
  /\ UNCHANGED <<env, cidrSets, handler, channel, lingering, advanced, tainted, budget>>

WorkerPatchOk(w) ==
  /\ workers[w].pc = "patch"
  /\ Accepts(workers[w].item)
  /\ Apply(workers[w].item)
  /\ ReturnOk(w)
  /\ UNCHANGED <<cache, notify, cidrSets, handler, channel, lingering, advanced,
                 tainted, budget>>

\* apierrors.IsServerTimeout looks for the status that the API client's error
\* carries; PatchNodeCIDRs formats that error into a new one without it.
PatchNodeCIDRsError(reason) == "Unknown"
IsServerTimeout(reason) == reason = "ServerTimeout"

AttemptFailed(w, reason) ==
  LET item == workers[w].item
      n    == workers[w].tries + 1
  IN \/ /\ n < Retries
        /\ Become(w, Working("patch", item, n, 1, FALSE))
        /\ UNCHANGED nodesInProcessing
     \/ /\ n = Retries
        /\ IF IsServerTimeout(PatchNodeCIDRsError(reason))
           THEN ReturnError(w)
           ELSE /\ Become(w, Working("release", item, 0, 1, TRUE))
                /\ UNCHANGED nodesInProcessing

WorkerPatchRejected(w) ==
  /\ workers[w].pc = "patch"
  /\ ~Accepts(workers[w].item)
  /\ AttemptFailed(w, "Invalid")
  /\ UNCHANGED <<env, cidrSets, handler, channel, lingering, advanced, tainted, budget>>

\* The request never reaches the API server.
WorkerPatchLost(w) ==
  /\ workers[w].pc = "patch"
  /\ Spend("lost", MaxLost)
  /\ AttemptFailed(w, "InternalError")
  /\ UNCHANGED <<env, cidrSets, handler, channel, lingering, advanced, tainted>>

\* The answer does not arrive in time; the request may still take effect.
WorkerPatchTimeout(w) ==
  /\ workers[w].pc = "patch"
  /\ Spend("timeouts", MaxTimeouts)
  /\ lingering' = lingering \cup {workers[w].item}
  /\ AttemptFailed(w, "ServerTimeout")
  /\ UNCHANGED <<env, cidrSets, handler, channel, advanced, tainted>>

WorkerRelease(w) ==
  /\ workers[w].pc = "release"
  /\ LET s    == workers[w].set
         item == workers[w].item
     IN /\ cidrSets' = [cidrSets EXCEPT ![s] = Release(@, {item.cidrs[s]})]
        /\ \/ /\ s < NumSets
              /\ Become(w, Working("release", item, 0, s + 1, workers[w].failed))
              /\ UNCHANGED nodesInProcessing
           \/ s = NumSets /\ workers[w].failed /\ ReturnError(w)
           \/ s = NumSets /\ ~workers[w].failed /\ ReturnOk(w)
  /\ UNCHANGED <<env, handler, channel, lingering, advanced, tainted, budget>>

WorkerRequeue(w) ==
  /\ workers[w].pc = "requeue"
  /\ Len(channel) < QueueSize
  /\ channel' = Append(channel, workers[w].item)
  /\ Become(w, Idle)
  /\ UNCHANGED <<env, cidrSets, nodesInProcessing, handler, lingering, advanced,
                 tainted, budget>>

-----------------------------------------------------------------------------
\* The controller stops anywhere and a new one starts.  A patch that was under
\* way may still take effect, unknown to the new one.
Restart ==
  /\ Spend("restarts", MaxRestarts)
  /\ \E late \in SUBSET {workers[w].item : w \in {w \in Workers : workers[w].pc = "patch"}} :
       lingering' = lingering \cup late
  /\ watch' = <<>>
  /\ cache' = api
  /\ notify' \in Orders(Adds(api))
  /\ cidrSets' = NewCidrSets(api)
  /\ nodesInProcessing' = {}
  /\ handler' = Idle
  /\ channel' = <<>>
  /\ workers' = [w \in Workers |-> Idle]
  /\ advanced' = [s \in Sets |-> 0]
  /\ tainted' = (lingering' # {} \/ ~Disjoint(api))
  /\ UNCHANGED api

HandlerStep == HandleAdd \/ HandleUpdate \/ HandleDelete \/ HandlerAllocate \/ HandlerSend

WorkerStep(w) ==
  \/ WorkerReceive(w) \/ WorkerGet(w) \/ WorkerPatchOk(w) \/ WorkerPatchRejected(w)
  \/ WorkerPatchLost(w) \/ WorkerPatchTimeout(w) \/ WorkerRelease(w) \/ WorkerRequeue(w)

Next ==
  \/ \E n \in Nodes : CreateNode(n) \/ TouchNode(n) \/ DeleteNode(n)
  \/ \E item \in lingering : LatePatch(item)
  \/ InformerDeliver
  \/ InformerRelist
  \/ HandlerStep
  \/ \E w \in Workers : WorkerStep(w)
  \/ Restart

Spec == Init /\ [][Next]_vars

\* The informer's goroutines and the workers are always scheduled, and a
\* kubelet keeps posting its node's status.
Fairness ==
  /\ WF_vars(InformerDeliver)
  /\ WF_vars(HandlerStep)
  /\ \A w \in Workers : WF_vars(WorkerStep(w))
  /\ \A n \in Nodes : SF_vars(TouchNode(n))

FairSpec == Spec /\ Fairness

-----------------------------------------------------------------------------
(* Safety.                                                                 *)

Events == [type : {"add", "update", "delete"}, node : Nodes, cidrs : CIDRLists]

Items == [node : Nodes, cidrs : {q \in CIDRLists : Len(q) = NumSets}]

HandlerStates ==
  {Idle}
  \cup [pc : {"alloc"}, node : Nodes, cidrs : {q \in CIDRLists : Len(q) < NumSets}]
  \cup [pc : {"send"}, node : Nodes, cidrs : {q \in CIDRLists : Len(q) = NumSets}]

WorkerStates ==
  {Idle} \cup [pc     : {"get", "patch", "release", "requeue"},
               item   : Items,
               tries  : 0 .. Retries - 1,
               set    : Sets,
               failed : BOOLEAN]

\* Every variable keeps its shape: reservations name one block of every range,
\* counters stay within the bitmaps, and neither the handler nor a worker's
\* requeue ever overfills nodeCIDRUpdateChannel.
TypeOK ==
  /\ api \in [Nodes -> NodeStates]
  /\ cache \in [Nodes -> NodeStates]
  /\ watch \in Seq(Events)
  /\ notify \in Seq(Events)
  /\ cidrSets \in [Sets -> UNION {CidrSets(MaxCIDRs[s]) : s \in Sets}]
  /\ \A s \in Sets : cidrSets[s] \in CidrSets(MaxCIDRs[s])
  /\ nodesInProcessing \subseteq Nodes
  /\ handler \in HandlerStates
  /\ channel \in Seq(Items)
  /\ Len(channel) <= QueueSize
  /\ workers \in [Workers -> WorkerStates]
  /\ lingering \subseteq Items
  /\ advanced \in [Sets -> Nat]
  /\ tainted \in BOOLEAN
  /\ budget \in [Spendings -> Nat]

\* The reservations on their way from a handler to a patch.
InFlight ==
  Range(channel)
  \cup {workers[w].item : w \in {w \in Workers : workers[w].pc # "idle"}}
  \cup (IF handler.pc = "idle" THEN {} ELSE {Item(handler.node, handler.cidrs)})

\* A node is in nodesInProcessing only while a reservation for it is in flight,
\* whichever way the handler and updateCIDRsAllocation return: otherwise every
\* later event of the node would be answered with "already in a process of CIDR
\* assignment" and it would never get a CIDR.
ProcessingHasWork ==
  \A n \in nodesInProcessing : \E item \in InFlight : item.node = n

\* The blocks filterOutServiceRange marked stay marked through every release,
\* retry and restart, and no node is ever given one of them.
ServiceRangeProtected ==
  \A s \in Sets :
    /\ Reserved[s] \subseteq cidrSets[s].used
    /\ \A n \in Nodes : s \in DOMAIN api[n].cidrs => api[n].cidrs[s] \notin Reserved[s]

\* Until the cursor of some range has gone once round its bitmap, no two nodes
\* hold the same CIDR, whatever is retried, released twice, patched late or
\* deleted in between.  Only a controller that started while an earlier one's
\* patch was still under way, or on nodes that already collided, is exempt.
FirstLapDisjoint ==
  \A s \in Sets :
    advanced[s] <= MaxCIDRs[s] /\ ~tainted =>
      \A m, n \in Nodes :
        /\ s \in DOMAIN api[m].cidrs /\ s \in DOMAIN api[n].cidrs
        /\ api[m].cidrs[s] = api[n].cidrs[s]
        => m = n

PendingDeletes(s) ==
  {e.cidrs[s] : e \in {e \in Range(watch) \cup Range(notify) :
                         e.type = "delete" /\ s \in DOMAIN e.cidrs}}

\* With one cluster range and an unbroken watch no block is lost: a block is
\* marked only while a service range, a node, a reservation in flight or a
\* delete event still to be handled accounts for it.
NoLeak ==
  NumSets = 1 /\ budget["relists"] = 0 =>
    cidrSets[1].used \subseteq
      Reserved[1] \cup BlocksOf(api, 1) \cup PendingDeletes(1)
      \cup {item.cidrs[1] : item \in {item \in InFlight : item.cidrs # <<>>}}

-----------------------------------------------------------------------------
(* Liveness.                                                               *)

\* Every node that stays in the cluster gets its CIDRs, although handlers drop
\* events of nodes in processing, workers act on a stale cache, patches fail
\* and names are reused.  Blocks and channel must suffice.
EveryNodeGetsCIDRs ==
  \A n \in Nodes :
    api[n].live /\ api[n].cidrs = <<>> ~> api[n].cidrs # <<>> \/ ~api[n].live
=============================================================================
