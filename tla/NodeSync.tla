------------------------------ MODULE NodeSync ------------------------------
(***************************************************************************)
(* The IPAM controller of controller_legacyprovider.go: the informer's     *)
(* handlers feed one sync loop per node over a channel of capacity one,    *)
(* and every loop compares the node's PodCIDR with the alias range of its  *)
(* virtual machine and copies one to the other, or allocates both from a   *)
(* CidrSet that all loops share.  The API server, the watch and the cloud  *)
(* are external.  A loop's remote calls are steps of their own; what it    *)
(* does to the CidrSet between two calls belongs to the step before.       *)
(***************************************************************************)
EXTENDS CidrSetOps, Sequences

CONSTANTS Nodes,        \* node names; a virtual machine has its node's name
          MaxCIDRs,     \* maxCIDRs of the CidrSet
          Reserved,     \* blocks of the service range
          Modes,        \* modes to consider: "SyncFromCloud", "SyncFromCluster"
          OldNodes,     \* names a node may have when the controller starts, and
          InitialPods,  \* the PodCIDRs (or NoCIDR) it may have
          MaxCreates,   \* nodes registered later
          MaxFaults,    \* calls that fail and restarts
          MaxLoops

NoCIDR == -1
CIDRs == Blocks(MaxCIDRs) \cup {NoCIDR}
LoopIds == 1 .. MaxLoops

ASSUME NodeSyncAssumption ==
  /\ MaxCIDRs \in Nat \ {0}
  /\ Reserved \subseteq Blocks(MaxCIDRs) /\ Reserved # Blocks(MaxCIDRs)
  /\ Modes \subseteq {"SyncFromCloud", "SyncFromCluster"}
  /\ InitialPods \subseteq CIDRs \ Reserved
  /\ OldNodes \subseteq Nodes
  /\ MaxLoops \in Nat

VARIABLES
  mode,
  node,      \* the Node objects: PodCIDR, and whether NetworkUnavailable is false
  cloud,     \* the virtual machines and their alias range
  events,    \* node events the handlers have not been called with
  cidrSet,
  syncers,   \* the loop that serves a node name, or 0
  loops,     \* every loop started, the ones that ended included
  reused,    \* names that an earlier, deleted node had
  budget

syncVars == <<mode, node, cloud, events, cidrSet, syncers, loops, reused, budget>>

-----------------------------------------------------------------------------
NodeEvent(type, n, cidr) == [type |-> type, node |-> n, cidr |-> cidr]

AbsentNode == [live |-> FALSE, cidr |-> NoCIDR, ready |-> FALSE]

\* nodesync.New; then "idle" is the select of Loop.
New(n) == [name |-> n, opChan |-> <<>>, closed |-> FALSE,
           pc |-> "idle", seen |-> NoCIDR, cidr |-> NoCIDR, thenPatch |-> FALSE]

Unused == [New("") EXCEPT !.pc = "exited"]

Started == Cardinality({l \in LoopIds : loops[l].name # ""})

\* NewController reserves the service range, and allocates and releases one
\* block to see that any is left, which moves the cursor.
NewControllerSet ==
  LET served == Occupy(NewCIDRSet(MaxCIDRs), Reserved)
      tries == CHOOSE t \in 0 .. MaxCIDRs - 1 : ScanStopsAfter(served, t)
  IN Release(AllocateAfter(served, tries), {Candidate(served, tries)})

\* Mutant: the nodes that already have a PodCIDR are not occupied.
OccupyNothing(set, cluster) == set

OccupyNodes(set, cluster) ==
  Occupy(set, {cluster[n].cidr : n \in {m \in Nodes : cluster[m].cidr # NoCIDR}})

\* The order in which Start and the first list of the informer see the nodes.
Listings(cluster) ==
  LET live == {n \in Nodes : cluster[n].live}
  IN {order \in [1 .. Cardinality(live) -> live] :
        \A i, j \in DOMAIN order : order[i] = order[j] => i = j}

\* NewController and Start on a cluster: one loop per node, and an add event
\* for each once the informer has its list.
Start(cluster) ==
  \E order \in Listings(cluster) :
    /\ Len(order) <= MaxLoops
    /\ loops' = [l \in LoopIds |-> IF l \in DOMAIN order THEN New(order[l]) ELSE Unused]
    /\ syncers' = [n \in Nodes |-> IF cluster[n].live
                                   THEN CHOOSE l \in DOMAIN order : order[l] = n ELSE 0]
    /\ events' = [i \in DOMAIN order |-> NodeEvent("add", order[i], cluster[order[i]].cidr)]
    /\ cidrSet' = OccupyNodes(NewControllerSet, cluster)

Spent(what, limit) == /\ budget[what] < limit
                      /\ budget' = [budget EXCEPT ![what] = @ + 1]

SyncInit ==
  /\ mode \in Modes
  /\ node \in [Nodes -> {AbsentNode} \cup [live : {TRUE}, cidr : InitialPods, ready : {FALSE}]]
  /\ cloud = [n \in Nodes |-> [vm |-> node[n].live, alias |-> NoCIDR]]
  /\ LET live == {n \in Nodes : node[n].live}
     IN /\ live \subseteq OldNodes /\ Cardinality(live) <= 1
        /\ loops = [l \in LoopIds |-> IF l = 1 /\ live # {} THEN New(CHOOSE n \in live : TRUE)
                                      ELSE Unused]
        /\ syncers = [n \in Nodes |-> IF n \in live THEN 1 ELSE 0]
        /\ events = [i \in 1 .. Cardinality(live) |->
                       NodeEvent("add", CHOOSE n \in live : TRUE,
                                 node[CHOOSE n \in live : TRUE].cidr)]
  /\ cidrSet = OccupyNodes(NewControllerSet, node)
  /\ reused = {}
  /\ budget = [kind \in {"creates", "faults"} |-> 0]

-----------------------------------------------------------------------------
(* The cluster and the cloud.                                              *)

\* A node registers, on a new machine or on one that survived a previous node
\* of that name.  In SyncFromCloud mode the cloud gives new machines an alias.
CreateNode(n) ==
  /\ ~node[n].live /\ Spent("creates", MaxCreates)
  /\ node' = [node EXCEPT ![n] = [AbsentNode EXCEPT !.live = TRUE]]
  /\ \E a \in IF cloud[n].vm THEN {cloud[n].alias}
              ELSE IF mode = "SyncFromCloud"
                   THEN CIDRs \ (Reserved \cup ({cloud[m].alias : m \in Nodes} \ {NoCIDR}))
                   ELSE {NoCIDR} :
       cloud' = [cloud EXCEPT ![n] = [vm |-> TRUE, alias |-> a]]
  /\ events' = Append(events, NodeEvent("add", n, NoCIDR))
  /\ UNCHANGED <<mode, cidrSet, syncers, loops, reused>>

\* A node is deleted, and its machine with it or not.
DeleteNode(n) ==
  /\ node[n].live
  /\ node' = [node EXCEPT ![n] = AbsentNode]
  /\ \/ cloud' = [cloud EXCEPT ![n] = [vm |-> FALSE, alias |-> NoCIDR]]
     \/ UNCHANGED cloud
  /\ events' = Append(events, NodeEvent("delete", n, node[n].cidr))
  /\ reused' = reused \cup {n}
  /\ UNCHANGED <<mode, cidrSet, syncers, loops, budget>>

-----------------------------------------------------------------------------
(* The handlers.  They hold the controller's lock, which nobody else takes, *)
(* while they send; a send waits for room in the channel.                  *)

Room(l) == loops[l].opChan = <<>>

\* NodeSync.Update
Update(l, cidr) ==
  loops' = [loops EXCEPT ![l].opChan = Append(@, [type |-> "update", cidr |-> cidr])]

NextEvent(type) == /\ events # <<>> /\ Head(events).type = type
                   /\ events' = Tail(events)
                   /\ UNCHANGED <<mode, node, cloud, cidrSet, reused, budget>>

\* onAdd starts a loop for a name it does not know.
OnAdd ==
  /\ NextEvent("add")
  /\ LET e == Head(events)
         l == syncers[e.node]
     IN IF l # 0
        THEN Room(l) /\ Update(l, e.cidr) /\ UNCHANGED syncers
        ELSE LET fresh == Started + 1
             IN /\ fresh \in LoopIds
                /\ syncers' = [syncers EXCEPT ![e.node] = fresh]
                /\ loops' = [loops EXCEPT ![fresh] =
                     [New(e.node) EXCEPT !.opChan = <<[type |-> "update", cidr |-> e.cidr]>>]]

\* onUpdate: an unknown node is an error and nothing else.
OnUpdate ==
  /\ NextEvent("update")
  /\ LET e == Head(events)
         l == syncers[e.node]
     IN IF l = 0 THEN UNCHANGED loops ELSE Room(l) /\ Update(l, e.cidr)
  /\ UNCHANGED syncers

\* NodeSync.Delete sends, then closes.
Delete(l, cidr) ==
  /\ Room(l)
  /\ loops' = [loops EXCEPT ![l].opChan = Append(@, [type |-> "delete", cidr |-> cidr]),
                            ![l].closed = TRUE]

\* Mutant: the entry stays in the map.
ForgetNobody(n) == UNCHANGED syncers

Forget(n) == syncers' = [syncers EXCEPT ![n] = 0]

OnDelete ==
  /\ NextEvent("delete")
  /\ LET e == Head(events)
         l == syncers[e.node]
     IN IF l = 0 THEN UNCHANGED <<loops, syncers>> ELSE Delete(l, e.cidr) /\ Forget(e.node)

-----------------------------------------------------------------------------
(* The loops.                                                              *)

\* A loop goes on at pc; the operation that returns an error or nil goes idle.
Goto(l, pc) == loops' = [loops EXCEPT ![l].pc = pc]
Return(l) == loops' = [loops EXCEPT ![l].pc = "idle", ![l].cidr = NoCIDR,
                                    ![l].seen = NoCIDR, ![l].thenPatch = FALSE]

\* The remote call of the current operation fails, with no effect.
CallFails(l) == /\ loops[l].pc \in {"get", "alias", "addAlias", "patch", "condition"}
                /\ Spent("faults", MaxFaults)
                /\ Return(l)
                /\ UNCHANGED <<mode, node, cloud, events, cidrSet, syncers, reused>>

\* The channel of the select is ready with an update.
LoopReceivesUpdate(l) ==
  /\ loops[l].pc = "idle" /\ loops[l].opChan # <<>> /\ Head(loops[l].opChan).type = "update"
  /\ loops' = [loops EXCEPT ![l].opChan = Tail(@), ![l].pc = "alias",
                            ![l].seen = Head(loops[l].opChan).cidr]
  /\ UNCHANGED <<mode, node, cloud, events, cidrSet, syncers, reused, budget>>

\* Mutant: the released range is the one in the API server now.
DeleteOpRereads(l) ==
  LET c == node[loops[l].name].cidr
  IN IF c = NoCIDR THEN cidrSet ELSE Release(cidrSet, {c})

\* deleteOp.run releases the PodCIDR of the object in the event.
DeleteOpReleases(l) ==
  LET c == Head(loops[l].opChan).cidr
  IN IF c = NoCIDR THEN cidrSet ELSE Release(cidrSet, {c})

LoopReceivesDelete(l) ==
  /\ loops[l].pc = "idle" /\ loops[l].opChan # <<>> /\ Head(loops[l].opChan).type = "delete"
  /\ loops' = [loops EXCEPT ![l].opChan = Tail(@)]
  /\ cidrSet' = DeleteOpReleases(l)
  /\ UNCHANGED <<mode, node, cloud, events, syncers, reused, budget>>

\* The channel is closed and empty: Loop returns.
LoopStops(l) ==
  /\ loops[l].pc = "idle" /\ loops[l].opChan = <<>> /\ loops[l].closed
  /\ Goto(l, "exited")
  /\ UNCHANGED <<mode, node, cloud, events, cidrSet, syncers, reused, budget>>

\* The timer has fired; the select may prefer it to a ready channel.
LoopResyncs(l) ==
  /\ loops[l].pc = "idle"
  /\ Goto(l, "get")
  /\ UNCHANGED <<mode, node, cloud, events, cidrSet, syncers, reused, budget>>

\* kubeAPI.Node
GetNode(l) ==
  /\ loops[l].pc = "get"
  /\ IF node[loops[l].name].live
     THEN loops' = [loops EXCEPT ![l].pc = "alias", ![l].seen = node[loops[l].name].cidr]
     ELSE Return(l)
  /\ UNCHANGED <<mode, node, cloud, events, cidrSet, syncers, reused, budget>>

\* allocateRange, up to its first remote call.
AllocateRange(l) ==
  IF mode # "SyncFromCluster" \/ NoneRemaining(cidrSet)
  THEN Return(l) /\ UNCHANGED cidrSet
  ELSE LET t == CHOOSE t \in 0 .. MaxCIDRs - 1 : ScanStopsAfter(cidrSet, t)
       IN /\ cidrSet' = AllocateAfter(cidrSet, t)
          /\ loops' = [loops EXCEPT ![l].pc = "addAlias", ![l].thenPatch = TRUE,
                                    ![l].cidr = Candidate(cidrSet, t)]

\* updateNodeFromAlias, up to its first remote call.
UpdateNodeFromAlias(l, alias) ==
  IF mode # "SyncFromCloud"
  THEN Return(l) /\ UNCHANGED cidrSet
  ELSE /\ cidrSet' = Occupy(cidrSet, {alias})
       /\ loops' = [loops EXCEPT ![l].pc = "patch", ![l].cidr = alias]

\* updateAliasFromNode, up to its first remote call.
UpdateAliasFromNode(l, cidr) ==
  IF mode # "SyncFromCluster"
  THEN Return(l) /\ UNCHANGED cidrSet
  ELSE /\ cidrSet' = Occupy(cidrSet, {cidr})
       /\ loops' = [loops EXCEPT ![l].pc = "addAlias", ![l].cidr = cidr]

\* Mutant: the alias range is not looked at.
NeedsRangeByNodeOnly(seen, alias) == seen = NoCIDR

NeedsRange(seen, alias) == seen = NoCIDR /\ alias = NoCIDR

\* updateOp.run from the lookup of the alias range on.  validateRange only
\* records an event.
ReadAlias(l) ==
  LET vm == cloud[loops[l].name]
      seen == loops[l].seen
  IN /\ loops[l].pc = "alias"
     /\ \/ ~vm.vm /\ Return(l) /\ UNCHANGED cidrSet
        \/ /\ vm.vm
           /\ \/ NeedsRange(seen, vm.alias) /\ AllocateRange(l)
              \/ seen = NoCIDR /\ vm.alias # NoCIDR /\ UpdateNodeFromAlias(l, vm.alias)
              \/ seen # NoCIDR /\ vm.alias = NoCIDR /\ UpdateAliasFromNode(l, seen)
              \/ seen # NoCIDR /\ vm.alias # NoCIDR /\ Return(l) /\ UNCHANGED cidrSet
     /\ UNCHANGED <<mode, node, cloud, events, syncers, reused, budget>>

\* AddAliasToInstanceByProviderID replaces the alias ranges of the interface;
\* the fingerprint makes its read and write one step.
AddAlias(l) ==
  LET n == loops[l].name
  IN /\ loops[l].pc = "addAlias"
     /\ IF ~cloud[n].vm
        THEN Return(l) /\ UNCHANGED <<cloud, budget>>
        ELSE /\ cloud' = [cloud EXCEPT ![n].alias = loops[l].cidr]
             /\ \/ Goto(l, IF loops[l].thenPatch THEN "patch" ELSE "condition")
                   /\ UNCHANGED budget
                \/ Spent("faults", MaxFaults) /\ Return(l)   \* applied, answer lost
     /\ UNCHANGED <<mode, node, events, cidrSet, syncers, reused>>

\* The API server sets the PodCIDR of the node that has the name now, once.
PatchAccepted(l) ==
  LET n == loops[l].name
  IN /\ node[n].live /\ node[n].cidr \in {NoCIDR, loops[l].cidr}
     /\ node' = [node EXCEPT ![n].cidr = loops[l].cidr]

\* UpdateNodePodCIDR
UpdateNodePodCIDR(l) ==
  LET n == loops[l].name
  IN /\ loops[l].pc = "patch"
     /\ \/ /\ PatchAccepted(l)
           /\ events' = IF node[n].cidr = loops[l].cidr THEN events
                        ELSE Append(events, NodeEvent("update", n, loops[l].cidr))
           /\ \/ Goto(l, "condition") /\ UNCHANGED budget
              \/ Spent("faults", MaxFaults) /\ Return(l)
        \/ /\ ~(node[n].live /\ node[n].cidr \in {NoCIDR, loops[l].cidr})
           /\ Return(l) /\ UNCHANGED <<node, events, budget>>
     /\ UNCHANGED <<mode, cloud, cidrSet, syncers, reused>>

\* UpdateNodeNetworkUnavailable(name, false)
UpdateCondition(l) ==
  LET n == loops[l].name
  IN /\ loops[l].pc = "condition"
     /\ IF node[n].live /\ ~node[n].ready
        THEN /\ node' = [node EXCEPT ![n].ready = TRUE]
             /\ events' = Append(events, NodeEvent("update", n, node[n].cidr))
        ELSE UNCHANGED <<node, events>>
     /\ Return(l)
     /\ UNCHANGED <<mode, cloud, cidrSet, syncers, reused, budget>>

\* The process dies between any two steps and is started again.
Restart ==
  /\ Spent("faults", MaxFaults)
  /\ Start(node)
  /\ UNCHANGED <<mode, node, cloud, reused>>

-----------------------------------------------------------------------------
Handlers == OnAdd \/ OnUpdate \/ OnDelete

Operation(l) == \/ GetNode(l) \/ ReadAlias(l) \/ AddAlias(l) \/ UpdateNodePodCIDR(l)
                \/ UpdateCondition(l) \/ CallFails(l)

Receives(l) == LoopReceivesUpdate(l) \/ LoopReceivesDelete(l) \/ LoopStops(l)

SyncNext ==
  \/ \E n \in Nodes : CreateNode(n) \/ DeleteNode(n)
  \/ Handlers
  \/ \E l \in LoopIds : Receives(l) \/ LoopResyncs(l) \/ Operation(l)
  \/ Restart

\* The informer calls its handlers; a loop runs its operation, and its select
\* chooses a channel that stays ready again and again.
SyncFairness ==
  /\ WF_syncVars(Handlers)
  /\ \A l \in LoopIds : WF_syncVars(Operation(l)) /\ SF_syncVars(Receives(l))

SyncSpec == SyncInit /\ [][SyncNext]_syncVars /\ SyncFairness

-----------------------------------------------------------------------------
OpTypes == [type : {"update", "delete"}, cidr : CIDRs]

\* Types; and a channel never holds more than its capacity.
SyncTypeOK ==
  /\ mode \in Modes
  /\ node \in [Nodes -> [live : BOOLEAN, cidr : CIDRs, ready : BOOLEAN]]
  /\ cloud \in [Nodes -> [vm : BOOLEAN, alias : CIDRs]]
  /\ cidrSet \in CidrSets(MaxCIDRs)
  /\ syncers \in [Nodes -> LoopIds \cup {0}]
  /\ \A l \in LoopIds : /\ Len(loops[l].opChan) <= 1
                        /\ \A i \in DOMAIN loops[l].opChan : loops[l].opChan[i] \in OpTypes

\* In SyncFromCluster mode no two nodes are given the same PodCIDR, whatever
\* calls fail, loops overlap or restarts happen: a block is released only for a
\* deleted object that had it, and the object of a name can hold one for life.
NoSharedPodCIDR ==
  mode = "SyncFromCluster" =>
    \A m, n \in Nodes : m # n /\ node[m].cidr = node[n].cidr => node[m].cidr = NoCIDR

\* A PodCIDR that the API server has and the cloud contradicts needs a second
\* node of the same name (whose loop and the old one's work on one machine): in
\* SyncFromCluster mode the alias is written before the node.
AliasAgreesWithNode ==
  mode = "SyncFromCluster" =>
    \A n \in Nodes :
      node[n].live /\ n \notin reused /\ node[n].cidr # NoCIDR /\ cloud[n].alias # NoCIDR
        => cloud[n].alias = node[n].cidr

\* Every node's loop is one that still receives: no handler sends on a closed
\* channel (which panics) or to a loop that has returned (which blocks forever
\* with the controller's lock held).
SyncersReceive ==
  \A n \in Nodes : syncers[n] # 0 =>
    LET loop == loops[syncers[n]]
    IN loop.name = n /\ ~loop.closed /\ loop.pc # "exited"

\* What the handlers reach through the map of syncers is a loop with an intact
\* channel that receives.
LoopsReceive == SyncTypeOK /\ SyncersReceive

\* The block of a deleted node is released: its deletion, once on the way,
\* leads to a state in which the block is free or another node has it.
DeletedBlocksReturn ==
  \A b \in Blocks(MaxCIDRs) \ Reserved :
    (\E i \in DOMAIN events : events[i].type = "delete" /\ events[i].cidr = b)
      ~> (b \notin cidrSet.used \/ \E n \in Nodes : node[n].live /\ node[n].cidr = b)

\* The handlers, which wait for the loops with the lock held, get through all
\* events once the cluster is quiet.
InformerDrains == <>[](events = <<>>)

\* Every event is served: the handlers get through, and what a deleted node had
\* comes back.
EventsAreServed == DeletedBlocksReturn /\ InformerDrains
=============================================================================
