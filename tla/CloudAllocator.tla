---------------------------- MODULE CloudAllocator ----------------------------
(***************************************************************************)
(* cloudCIDRAllocator: the workers that copy what the cloud assigned to a   *)
(* virtual machine into its Node object: the pod ranges, the network        *)
(* condition and, in a cluster with several networks, the annotations and   *)
(* IP capacities of the additional networks.  The API server, the machines, *)
(* the informers' caches and the agents that write the other fields are     *)
(* external.  An informer skips a version that is overwritten before it is  *)
(* delivered, as a relist does.  Every patch is a step of its own.          *)
(***************************************************************************)
EXTENDS WorkQueue, SequencesExt

CONSTANTS
  Nodes,
  Networks,      \* names of Network objects; "default" is the default network
  NetworkSpec,   \* [Networks -> [type, params]]
  ParamSpec,     \* [names of GKENetworkParamSets -> [vpc, subnet, ranges]]
  Setups,        \* the machines, node labels and stack types to consider
  MaxRetries,    \* updateMaxRetries
  MaxChanges     \* changes of Networks, parameter sets and nodes, and failed calls

NoAnnotation == <<[network |-> "none"]>>

AbsentKNode == [live |-> FALSE, uid |-> 0, podCIDRs |-> <<>>, unavailable |-> "unset",
                up |-> {}, north |-> NoAnnotation, multi |-> NoAnnotation,
                capacity |-> {}]

NewKNode(uid) == [AbsentKNode EXCEPT !.live = TRUE, !.uid = uid, !.unavailable = "true"]

VARIABLES
  setup,    \* [machine: interfaces of a node's machine, labels, stack, networks]
  knode,    \* the Node objects
  kcache,   \* nodeLister: the versions the node handlers were called with
  nets,     \* networksLister: "absent", "notReady" or "ready"
  netEvents, \* changes of nets the network handlers were not called with yet
  params,   \* gnpLister
  queue,
  work,     \* what the worker that has a key is about to do
  past,     \* history: names reused, keys given up on, and nodes missed
  spent

caVars == <<setup, knode, kcache, nets, netEvents, params, queue, work, past, spent>>

-----------------------------------------------------------------------------
(* What a worker computes.  A machine is a sequence of interfaces           *)
(* [vpc, subnet, ip, alias: sequence of [range, cidr], ipv6]; a CIDR is     *)
(* [family, id, size].                                                      *)

NoCIDRs == [family |-> 0, id |-> "", size |-> 0]
IsDefaultNetwork(w) == w = "default"
HasIPv6(inf) == inf.ipv6 # NoCIDRs

\* No interface; or one that has neither an alias nor an IPv6 address.
NoRanges(machine) ==
  \/ machine = <<>>
  \/ Len(machine) = 1 /\ machine[1].alias = <<>> /\ ~HasIPv6(machine[1])

SingleNetwork(machine) ==
  Len(machine) = 1 /\ (Len(machine[1].alias) = 1 \/ HasIPv6(machine[1]))

\* The switch over the stack type; <<>> is its default case, an error.
StackCIDRs(inf, stack) ==
  LET v4 == IF inf.alias = <<>> THEN <<>> ELSE <<inf.alias[1].cidr>>
      v6 == IF HasIPv6(inf) THEN <<inf.ipv6>> ELSE <<>>
  IN CASE stack = "IPv4" -> v4
       [] stack = "IPv6" -> v6
       [] stack = "IPv4_IPv6" /\ v4 # <<>> /\ v6 # <<>> -> v4 \o v6
       [] stack = "IPv6_IPv4" /\ v4 # <<>> /\ v6 # <<>> -> v6 \o v4
       [] OTHER -> <<>>

\* The alias of an interface in the first of the ranges that it has, or <<>>.
AliasIn(inf, ranges) ==
  LET has(r) == \E i \in DOMAIN inf.alias : inf.alias[i].range = r
      r == SelectInSeq(ranges, has)
  IN IF r = 0 THEN <<>> ELSE SelectSeq(inf.alias, LAMBDA a : a.range = ranges[r])

\* Whether the loop over the networks settles network w at interface inf.
Settles(w, inf) ==
  LET gnp == ParamSpec[NetworkSpec[w].params]
  IN /\ inf.vpc = gnp.vpc /\ inf.subnet = gnp.subnet
     /\ NetworkSpec[w].type = "Device" \/ AliasIn(inf, gnp.ranges) # <<>>

\* processedNetworks: a network belongs to the first interface that settles it.
SettledAt(w, machine) == SelectInSeq(machine, LAMBDA inf : Settles(w, inf))

\* The networks settled, in the order of the loops; order is the lister's.
SettledIn(order, machine) ==
  FlattenSeq([i \in DOMAIN machine |->
                SelectSeq(order, LAMBDA w : SettledAt(w, machine) = i)])

RangeOf(w, machine) ==
  LET inf == machine[SettledAt(w, machine)]
  IN IF NetworkSpec[w].type = "Device"
     THEN [family |-> 4, id |-> inf.ip, size |-> 1]
     ELSE Last(AliasIn(inf, ParamSpec[NetworkSpec[w].params].ranges)).cidr

\* getNodeCapacity: half of the range, for overprovisioning.
GetNodeCapacity(cidr) == IF cidr.size > 1 THEN cidr.size \div 2 ELSE 1

\* allocateIPCapacity: the IP capacities are built from nothing.
AllocateIPCapacity(old, multi) ==
  {<<multi[i].network, GetNodeCapacity(multi[i].cidr)>> : i \in DOMAIN multi}

\* Networks to consider: the Ready ones and the default network.
Considered == {w \in Networks : nets[w] = "ready" \/ (nets[w] # "absent" /\ IsDefaultNetwork(w))}

\* extractDefaultNwCIDRs
ExtractDefaultNwCIDRs(machine, label) ==
  LET i == SelectInSeq(machine, LAMBDA inf : inf.subnet = label.subnet
                                             /\ AliasIn(inf, <<label.range>>) # <<>>)
  IN IF i = 0 THEN <<>>
     ELSE <<AliasIn(machine[i], <<label.range>>)[1].cidr>>
            \o (IF HasIPv6(machine[i]) THEN <<machine[i].ipv6>> ELSE <<>>)

\* The CIDRs of the default network when the node has no labels.
DefaultNwCIDRs(order, machine) ==
  LET defaults == SelectSeq(SettledIn(order, machine),
                            LAMBDA w : IsDefaultNetwork(w) /\ NetworkSpec[w].type # "Device")
      cidrs(w) == LET inf == machine[SettledAt(w, machine)]
                  IN <<RangeOf(w, machine)>> \o (IF HasIPv6(inf) THEN <<inf.ipv6>> ELSE <<>>)
  IN FlattenSeq([i \in DOMAIN defaults |-> cidrs(defaults[i])])

\* Interfaces and networks of the two annotations.
NorthInterfaces(order, machine) ==
  LET settled == SelectSeq(SettledIn(order, machine),
                           LAMBDA w : ~IsDefaultNetwork(w) \/ NetworkSpec[w].type = "Device")
  IN [i \in DOMAIN settled |->
        [network |-> settled[i], ip |-> machine[SettledAt(settled[i], machine)].ip]]

AdditionalNodeNetworks(order, machine, up) ==
  LET north == SelectSeq(NorthInterfaces(order, machine), LAMBDA e : e.network \in up)
  IN [i \in DOMAIN north |-> [network |-> north[i].network, cidr |-> RangeOf(north[i].network, machine)]]

\* What updateCIDRAllocation wants the node to be; ok is FALSE for an error.
Unwanted == [ok |-> FALSE, podCIDRs |-> <<>>, north |-> NoAnnotation,
             multi |-> NoAnnotation, capacity |-> {}]

SingleNetworkWants(old, machine, stack) ==
  [Unwanted EXCEPT !.ok = StackCIDRs(machine[1], stack) # <<>>,
     !.podCIDRs = StackCIDRs(machine[1], stack),
     !.north = old.north, !.multi = old.multi, !.capacity = old.capacity]

\* performMultiNetworkCIDRAllocation fails when a network's parameters are
\* not in the cache.
MultiNetworkWants(old, machine, label, order) ==
  LET multi == AdditionalNodeNetworks(order, machine, old.up)
  IN [ok |-> \A i \in DOMAIN order : NetworkSpec[order[i]].params \in params,
      podCIDRs |-> IF label.set THEN ExtractDefaultNwCIDRs(machine, label)
                   ELSE DefaultNwCIDRs(order, machine),
      north |-> NorthInterfaces(order, machine),
      multi |-> multi,
      capacity |-> AllocateIPCapacity(old, multi)]

\* updateNodePodCIDRWithCidrStrings: at most two, and then of two families.
Accept(wants) ==
  LET cidrs == SubSeq(wants.podCIDRs, 1, IF Len(wants.podCIDRs) > 2 THEN 2 ELSE Len(wants.podCIDRs))
  IN [wants EXCEPT !.podCIDRs = cidrs,
        !.ok = @ /\ cidrs # <<>> /\ (Len(cidrs) = 2 => cidrs[1].family # cidrs[2].family)]

UpdateCIDRAllocation(n, old, order) ==
  LET machine == setup.machine[n]
  IN IF NoRanges(machine) THEN Unwanted
     ELSE Accept(IF SingleNetwork(machine) THEN SingleNetworkWants(old, machine, setup.stack)
                 ELSE MultiNetworkWants(old, machine, setup.labels[n], order))

-----------------------------------------------------------------------------
NetworkEvent(w, old, new) == [network |-> w, old |-> old, new |-> new]

Idle == [old |-> AbsentKNode, wants |-> Unwanted, todo |-> <<>>]

Rests(n) == work[n].todo = <<>>
At(n, call) == ~Rests(n) /\ Head(work[n].todo) = call

CAInit ==
  /\ setup \in Setups
  /\ knode = [n \in Nodes |-> NewKNode(0)]
  /\ kcache = [n \in Nodes |-> AbsentKNode]
  /\ nets \in {[w \in Networks |-> IF w \in setup.networks THEN v ELSE "absent"]
                 : v \in {"absent", "ready"}}
  /\ netEvents \in IF \E w \in Networks : nets[w] = "ready"
                   THEN {[i \in DOMAIN s |-> NetworkEvent(s[i], "absent", "ready")]
                           : s \in SetToSeqs(setup.networks)}
                   ELSE {<<>>}
  /\ params \in {{}, {NetworkSpec[w].params : w \in setup.networks}}
  /\ queue = EmptyQueue(Nodes)
  /\ work = [n \in Nodes |-> Idle]
  /\ past = [reused |-> {}, dropped |-> {}, missed |-> {}, failed |-> FALSE]
  /\ spent = 0

Spend == spent < MaxChanges /\ spent' = spent + 1

-----------------------------------------------------------------------------
(* The cluster around the allocator.                                        *)

DeleteKNode(n) ==
  /\ knode[n].live
  /\ Spend
  /\ knode' = [knode EXCEPT ![n] = [AbsentKNode EXCEPT !.uid = knode[n].uid]]
  /\ UNCHANGED <<setup, kcache, nets, netEvents, params, queue, work, past>>

CreateKNode(n) ==
  /\ ~knode[n].live
  /\ knode' = [knode EXCEPT ![n] = NewKNode(knode[n].uid + 1)]
  /\ past' = [past EXCEPT !.reused = @ \cup {n}]
  /\ UNCHANGED <<setup, kcache, nets, netEvents, params, queue, work, spent>>

\* The agent on the node reports the networks that are up.
ReportUp(n) ==
  \E up \in SUBSET (setup.networks \ {"default"}) :
    /\ knode[n].live /\ up # knode[n].up
    /\ Spend
    /\ knode' = [knode EXCEPT ![n].up = up]
    /\ UNCHANGED <<setup, kcache, nets, netEvents, params, queue, work, past>>

\* A Network object is created, becomes Ready or not, or is deleted.
ChangeNetwork(w) ==
  \E v \in {"absent", "notReady", "ready"} \ {nets[w]} :
    /\ Spend
    /\ nets' = [nets EXCEPT ![w] = v]
    /\ netEvents' = Append(netEvents, NetworkEvent(w, nets[w], v))
    /\ UNCHANGED <<setup, knode, kcache, params, queue, work, past>>

CreateParams(p) ==
  /\ p \notin params
  /\ Spend
  /\ params' = params \cup {p}
  /\ UNCHANGED <<setup, knode, kcache, nets, netEvents, queue, work, past>>

-----------------------------------------------------------------------------
(* The handlers.                                                            *)

\* The add and update handlers of nodes; ReleaseCIDR does nothing.  The taint
\* is taken to come and go with the condition.
Processes(old, new) ==
  /\ new.live
  /\ \/ ~old.live \/ old.uid # new.uid
     \/ new.podCIDRs = <<>>
     \/ new.unavailable # "false"
     \/ old.up # new.up

InformNode(n) ==
  /\ kcache[n] # knode[n]
  /\ kcache' = [kcache EXCEPT ![n] = knode[n]]
  /\ queue' = IF Processes(kcache[n], knode[n]) THEN QueueAdd(queue, {n}) ELSE queue
  /\ UNCHANGED <<setup, knode, nets, netEvents, params, work, past, spent>>

CachedNodes == {n \in Nodes : kcache[n].live}

\* NetworkToNodes(network): the nodes whose annotation in the cache names it.
UsersOf(w) == {n \in CachedNodes : \E i \in DOMAIN kcache[n].north : kcache[n].north[i].network = w}

\* Mutant: a network that becomes Ready goes to its users only.
NotifiedUsersOnly(e) ==
  IF (e.new = "ready") # (e.old = "ready") THEN UsersOf(e.network) ELSE {}

\* The nodes a change of a Network puts into the queue: all when it becomes
\* Ready (NetworkToNodes(nil)), its users when it is not Ready any more or is
\* deleted, none otherwise.
Notified(e) ==
  CASE e.new = "ready" -> CachedNodes
    [] e.old = "ready" \/ e.new = "absent" -> UsersOf(e.network)
    [] OTHER -> {}

\* A node that is skipped while a write to it is undelivered, or about to be
\* made, is missed.
InformNetwork ==
  /\ netEvents # <<>>
  /\ netEvents' = Tail(netEvents)
  /\ LET notified == Notified(Head(netEvents))
     IN /\ queue' = QueueAdd(queue, notified)
        /\ past' = [past EXCEPT !.missed = @ \cup
                      {n \in Nodes \ notified : ~Rests(n) \/ kcache[n] # knode[n]}]
  /\ UNCHANGED <<setup, knode, kcache, nets, params, work, spent>>

-----------------------------------------------------------------------------
(* The workers.                                                             *)

\* processNextItem up to the first call to the cloud.  A node that reads as
\* deleted is skipped.
Take(n) ==
  /\ n \in QueueReady(queue)
  /\ IF kcache[n].live
     THEN /\ queue' = QueueGet(queue, n)
          /\ work' = [work EXCEPT ![n] = [Idle EXCEPT !.todo = <<"instance">>, !.old = kcache[n]]]
          /\ past' = IF kcache[n] = knode[n] THEN past
                     ELSE [past EXCEPT !.missed = @ \cup {n}]
     ELSE /\ queue' = HandleErr(QueueGet(queue, n), n, FALSE, MaxRetries)
          /\ UNCHANGED <<work, past>>
  /\ UNCHANGED <<setup, knode, kcache, nets, netEvents, params, spent>>

\* updateCIDRAllocation returns.
Finish(n, failed) ==
  /\ work' = [work EXCEPT ![n] = Idle]
  /\ queue' = HandleErr(queue, n, failed, MaxRetries)
  /\ past' = [past EXCEPT !.dropped = IF failed /\ GivesUp(queue, n, MaxRetries)
                                      THEN @ \cup {n} ELSE @]

\* It returns the error of a call that failed.
Fail(n) ==
  /\ work' = [work EXCEPT ![n] = Idle]
  /\ queue' = HandleErr(queue, n, TRUE, MaxRetries)
  /\ past' = [past EXCEPT !.failed = TRUE,
                          !.dropped = IF GivesUp(queue, n, MaxRetries) THEN @ \cup {n} ELSE @]

\* The patches updateCIDRAllocation makes: what it wants against what it read.
AnnotationsDiffer(old, wants) == wants.north # old.north \/ wants.multi # old.multi

\* Mutant: the condition goes first.
PatchesConditionFirst(old, wants) ==
  (IF old.unavailable # "false" THEN <<"condition">> ELSE <<>>)
    \o (IF wants.podCIDRs # old.podCIDRs THEN <<"cidrs">> ELSE <<>>)
    \o (IF AnnotationsDiffer(old, wants) THEN <<"annotations", "capacity">> ELSE <<>>)

Patches(old, wants) ==
  (IF wants.podCIDRs # old.podCIDRs THEN <<"cidrs">> ELSE <<>>)
    \o (IF old.unavailable # "false" THEN <<"condition">> ELSE <<>>)
    \o (IF AnnotationsDiffer(old, wants) THEN <<"annotations", "capacity">> ELSE <<>>)

Proceed(n, wants, todo) ==
  IF todo = <<>> THEN Finish(n, FALSE)
  ELSE /\ work' = [work EXCEPT ![n] = [Idle EXCEPT !.wants = wants, !.todo = todo]]
       /\ UNCHANGED <<queue, past>>

\* A patch was applied; its answer arrives or is lost, which is an error.
Answered(n) == \/ Proceed(n, work[n].wants, Tail(work[n].todo)) /\ UNCHANGED spent
               \/ Spend /\ Fail(n)

\* InstanceByProviderID and what follows it before the first patch.
FetchInstance(n) ==
  /\ At(n, "instance")
  /\ \E order \in SetToSeqs(Considered) :
       LET wants == UpdateCIDRAllocation(n, work[n].old, order)
       IN IF wants.ok THEN Proceed(n, wants, Patches(work[n].old, wants))
          ELSE Finish(n, TRUE)
  /\ UNCHANGED <<setup, knode, kcache, nets, netEvents, params, spent>>

\* A patch of a node by name; a node that is gone is an error.
Patch(n, new) ==
  /\ IF knode[n].live THEN knode' = [knode EXCEPT ![n] = new] /\ Answered(n)
     ELSE UNCHANGED <<knode, spent>> /\ Finish(n, TRUE)
  /\ UNCHANGED <<setup, kcache, nets, netEvents, params>>

\* PatchNodeCIDRs: the API server lets the pod ranges be set once.
PatchNodeCIDRs(n) ==
  LET new == work[n].wants.podCIDRs
  IN /\ At(n, "cidrs")
     /\ \/ knode[n].podCIDRs \in {<<>>, new} /\ Patch(n, [knode[n] EXCEPT !.podCIDRs = new])
        \/ /\ knode[n].podCIDRs \notin {<<>>, new} /\ Finish(n, TRUE)
           /\ UNCHANGED <<setup, knode, kcache, nets, netEvents, params, spent>>

SetNodeCondition(n) ==
  /\ At(n, "condition")
  /\ Patch(n, [knode[n] EXCEPT !.unavailable = "false"])

\* PatchNodeMultiNetwork: the annotations first, then the capacity.
PatchAnnotations(n) ==
  /\ At(n, "annotations")
  /\ Patch(n, [knode[n] EXCEPT !.north = work[n].wants.north, !.multi = work[n].wants.multi])

PatchCapacity(n) ==
  /\ At(n, "capacity")
  /\ Patch(n, [knode[n] EXCEPT !.capacity = work[n].wants.capacity])

\* A call fails without effect.
CallFails(n) ==
  /\ ~Rests(n)
  /\ Spend
  /\ Fail(n)
  /\ UNCHANGED <<setup, knode, kcache, nets, netEvents, params>>

DelayOver(n) ==
  /\ n \in queue.delayed
  /\ queue' = QueueDelayOver(queue, n)
  /\ UNCHANGED <<setup, knode, kcache, nets, netEvents, params, work, past, spent>>

-----------------------------------------------------------------------------
WorkerStep(n) == \/ Take(n) \/ FetchInstance(n) \/ PatchNodeCIDRs(n)
                 \/ SetNodeCondition(n) \/ PatchAnnotations(n) \/ PatchCapacity(n)

CANext ==
  \/ \E n \in Nodes : \/ DeleteKNode(n) \/ CreateKNode(n) \/ ReportUp(n)
                      \/ InformNode(n) \/ WorkerStep(n) \/ CallFails(n) \/ DelayOver(n)
  \/ \E w \in setup.networks : ChangeNetwork(w)
  \/ InformNetwork
  \/ \E w \in setup.networks : CreateParams(NetworkSpec[w].params)

CASpec == CAInit /\ [][CANext]_caVars

-----------------------------------------------------------------------------
CIDRsOf(machine) == UNION {{machine[i].ipv6} \cup {machine[i].alias[j].cidr : j \in DOMAIN machine[i].alias}
                             : i \in DOMAIN machine} \ {NoCIDRs}

\* Types; a worker has exactly the keys in progress, and a key is retried at
\* most MaxRetries times in a row.
CATypeOK ==
  /\ queue \in QueueTypes(Nodes, MaxRetries)
  /\ params \subseteq DOMAIN ParamSpec
  /\ nets \in [Networks -> {"absent", "notReady", "ready"}]
  /\ \A n \in Nodes : ~Rests(n) <=> n \in queue.processing

\* A node reports its network available only once it has its pod ranges: the
\* condition is patched after them.  (A worker that still has an earlier node of
\* the name may do it for a node that has none.)
AvailableHasPodCIDR ==
  \A n \in Nodes : knode[n].live /\ knode[n].unavailable = "false" /\ n \notin past.reused
                     => knode[n].podCIDRs # <<>>

\* Pod ranges are the machine's own, at most one of a family, and of the
\* cluster's primary family first.
PodCIDRsFit ==
  \A n \in Nodes :
    LET cidrs == knode[n].podCIDRs
    IN cidrs # <<>> =>
         /\ ToSet(cidrs) \subseteq CIDRsOf(setup.machine[n])
         /\ Len(cidrs) <= 2 /\ (Len(cidrs) = 2 => cidrs[1].family # cidrs[2].family)
         /\ SingleNetwork(setup.machine[n]) =>
              cidrs[1].family = IF setup.stack \in {"IPv6", "IPv6_IPv4"} THEN 6 ELSE 4

\* Nothing is on its way to node n.
Quiet(n) == /\ QueueIdle(queue) /\ kcache[n] = knode[n] /\ netEvents = <<>> /\ knode[n].live

Capacities(n) == IF knode[n].multi = NoAnnotation THEN {}
                 ELSE {<<knode[n].multi[i].network, GetNodeCapacity(knode[n].multi[i].cidr)>>
                         : i \in DOMAIN knode[n].multi}

\* The IP capacities are those of the networks in the annotation whenever no
\* worker has the node, as long as no call failed: both are patched or neither.
\* (A node that takes the name between the patches gets the second one only.)
CapacityMatches ==
  ~past.failed => \A n \in Nodes \ past.reused :
                    Rests(n) => knode[n].capacity = Capacities(n)

\* What a Node says of its networks is right at every moment, between the patches
\* of a worker too.
NodesAreRight == CATypeOK /\ AvailableHasPodCIDR /\ PodCIDRsFit /\ CapacityMatches

InNorth(n) == IF knode[n].north = NoAnnotation THEN {}
              ELSE {knode[n].north[i].network : i \in DOMAIN knode[n].north}

\* The networks whose interface is on the machine of n.
Present(n) == {w \in Considered \ {"default"} : SettledAt(w, setup.machine[n]) # 0}

\* When nothing is on its way, the annotations name exactly the Ready networks
\* on the machine, and those of them that are up: unless a key was given up on,
\* or the allocator looked at a node while a write to it was under way.
AnnotationsConverge ==
  \A n \in Nodes :
    /\ Quiet(n) /\ n \notin past.dropped \cup past.missed
    /\ ~NoRanges(setup.machine[n]) /\ ~SingleNetwork(setup.machine[n])
    => /\ InNorth(n) = Present(n)
       /\ {knode[n].multi[i].network : i \in DOMAIN knode[n].multi} = Present(n) \cap knode[n].up

\* No node is forgotten: when nothing is on its way a node has pod ranges, or
\* it was given up on after MaxRetries failures in a row.
NoNodeForgotten ==
  \A n \in Nodes : Quiet(n) /\ knode[n].podCIDRs = <<>> => n \in past.dropped

\* Once nothing is on its way the nodes have what their machines have.
NodesSettle == AnnotationsConverge /\ NoNodeForgotten
=============================================================================
