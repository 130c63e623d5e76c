---------------------------- MODULE IpamStartup ----------------------------
(***************************************************************************)
(* The start of the cloud controller manager's own controllers: the flags  *)
(* of the node IPAM controller (cmd/cloud-controller-manager), the choice  *)
(* of an allocator (pkg/controller/nodeipam), the polled list of nodes and *)
(* the informers, which the manager starts after all controllers.  A       *)
(* failure ends the process, and another one is started.                   *)
(*                                                                         *)
(* A range is a record of its family and its prefix; ranges of a family    *)
(* start at one address, so that the shorter prefix contains the longer.   *)
(* Unset and Malformed are what strings.Split leaves of an empty flag and  *)
(* a string that is no CIDR.                                               *)
(***************************************************************************)
EXTENDS Integers, Sequences, FiniteSets

CONSTANTS
  BootFlags,    \* the command lines
  BootNodes,    \* node names
  MaxPolls,     \* failed lists within apiserverStartupGracePeriod
  MaxBoots      \* processes started one after the other

VARIABLES
  flags,        \* the command line of all processes
  boot,         \* the process: pc, controllers still to start, failed polls, number
  ipam,         \* the node IPAM controller of the process
  params,       \* the cluster CIDRs of the GKENetworkParamSet controller, <<>> before
  nodes,        \* node -> "gone", "bare", or where its PodCIDR is: "inside", "outside"
  pending       \* nodes that the started informer has not reported yet

bootVars == <<flags, boot, ipam, params, nodes, pending>>

Net(family, bits) == [family |-> family, bits |-> bits]
Unset == Net(0, 0)
Malformed == Net(0, 1)
Legacy == {"IPAMFromCluster", "IPAMFromCloud"}

\* allocator is the kind that was made; marked are the nodes whose PodCIDR its
\* set knows, reserved the service ranges it was given.
NoIpam == [allocator |-> "", cidrs |-> <<>>, masks |-> <<>>, reserved |-> {}, stack |-> "", marked |-> {},
           running |-> FALSE]

Enabled(f) == {"nodeipam"} \cup (IF f.gnp THEN {"gkenetworkparamset"} ELSE {})
Process(f, n) == [pc |-> "validate", todo |-> Enabled(f), polls |-> 0, number |-> n]

BootInit ==
  /\ flags \in BootFlags
  /\ boot = Process(flags, 1)
  /\ ipam = NoIpam /\ params = <<>> /\ pending = {}
  /\ nodes \in [BootNodes -> {"gone", "bare", "inside", "outside"}]

-----------------------------------------------------------------------------
(* The flags.                                                              *)

Parses(range) == range.family # 0
Families(list) == {list[i].family : i \in DOMAIN list}

processCIDRs(list) ==
  [ok |-> \A i \in DOMAIN list : Parses(list[i]), cidrs |-> list, dual |-> Families(list) = {4, 6}]

ValidClusterCIDRs(list) ==
  LET p == processCIDRs(list) IN p.ok /\ (Len(p.cidrs) > 1 => p.dual) /\ Len(p.cidrs) <= 2

\* The list that the GKENetworkParamSet controller takes.
validClusterCIDR(list) == ValidClusterCIDRs(list)

\* A service range that cannot be parsed is only warned about, and is nil.
ServiceCIDR(f) == IF Parses(f.services[1]) THEN f.services[1] ELSE Unset
SecondaryServiceCIDR(f) ==
  IF Len(f.services) > 1 /\ Parses(f.services[2]) THEN f.services[2] ELSE Unset

ServicesFit(f) ==
  Parses(ServiceCIDR(f)) /\ Parses(SecondaryServiceCIDR(f))
    => {ServiceCIDR(f).family, SecondaryServiceCIDR(f).family} = {4, 6}

OrDefault(flag, default) == IF flag # 0 THEN flag ELSE default
SortedSizes(cidrs, v4, v6) == [i \in DOMAIN cidrs |-> IF cidrs[i].family = 6 THEN v6 ELSE v4]
MasksFit(f, cidrs) ==
  f.mask # 0 => Len(cidrs) <= 1 /\ f.mask4 = 0 /\ f.mask6 = 0

setNodeCIDRMaskSizes(f, cidrs) ==
  IF f.mask # 0 THEN SortedSizes(cidrs, f.mask, f.mask)
                ELSE SortedSizes(cidrs, OrDefault(f.mask4, 24), OrDefault(f.mask6, 64))

-----------------------------------------------------------------------------
(* The process.                                                            *)

Die == boot' = [boot EXCEPT !.pc = "dead"] /\ UNCHANGED <<ipam, params>>
Panic == boot' = [boot EXCEPT !.pc = "panic"] /\ UNCHANGED <<ipam, params>>

\* Validate of the options, when the initializers are constructed.
Validate ==
  /\ boot.pc = "validate"
  /\ \/ Len(flags.services) > 2 /\ Die
     \/ Len(flags.services) <= 2 /\ boot' = [boot EXCEPT !.pc = "start"] /\ UNCHANGED <<ipam, params>>
  /\ UNCHANGED <<flags, nodes, pending>>

Started(b, name) == [b EXCEPT !.pc = "start", !.todo = @ \ {name}]

\* The GKENetworkParamSet controller: it has the cluster's ranges only beside a cloud allocator.
StartGkeNetworkParams ==
  /\ boot.pc = "start" /\ "gkenetworkparamset" \in boot.todo
  /\ IF flags.type = "CloudAllocator" /\ ~validClusterCIDR(flags.clusters)
     THEN Die
     ELSE /\ boot' = Started(boot, "gkenetworkparamset")
          /\ params' = IF flags.type = "CloudAllocator" THEN processCIDRs(flags.clusters).cidrs ELSE <<>>
          /\ UNCHANGED ipam
  /\ UNCHANGED <<flags, nodes, pending>>

\* Mutant: only the first range is compared with its mask size.
FirstClusterFits(cidrs, masks) ==
  flags.type # "CloudAllocator" => cidrs # <<>> /\ cidrs[1].bits <= masks[1]

\* The checks of NewNodeIpamController; a cloud allocator needs no masks.
ClustersFit(cidrs, masks) ==
  flags.type # "CloudAllocator" =>
    /\ cidrs # <<>>
    /\ \A i \in DOMAIN cidrs : cidrs[i].bits <= masks[i]

\* NewCIDRSet fails for an IPv6 range of more than 2^16 blocks.
SetFits(range, mask) == ~(range.family = 6 /\ mask - range.bits > 16)

\* occupyServiceCIDR left no block of the first range.
NoneLeft(range, mask, service) ==
  range.family = service.family /\ (service.bits <= range.bits \/ mask = range.bits)

\* NewNodeIpamController goes on to listNodes, with the ranges that the allocator will have.
GoesOn(cidrs, masks, reserved) ==
  /\ boot' = [boot EXCEPT !.pc = "list"]
  /\ ipam' = [NoIpam EXCEPT !.cidrs = cidrs, !.masks = masks, !.reserved = reserved]
  /\ UNCHANGED params

\* The legacy controller is made before the nodes are listed, for the first range.
NewController(range, mask, service) ==
  \/ ~SetFits(range, mask) /\ Die
  \/ SetFits(range, mask) /\ ~Parses(service) /\ Panic
  \/ SetFits(range, mask) /\ Parses(service) /\ NoneLeft(range, mask, service) /\ Die
  \/ /\ SetFits(range, mask) /\ Parses(service) /\ ~NoneLeft(range, mask, service)
     /\ GoesOn(<<range>>, <<mask>>, {service})

FlagsFit(f) == f.allocate /\ ValidClusterCIDRs(f.clusters) /\ ServicesFit(f)

StartNodeIpam ==
  /\ boot.pc = "start" /\ "nodeipam" \in boot.todo
  /\ LET cidrs == processCIDRs(flags.clusters).cidrs
         masks == setNodeCIDRMaskSizes(flags, cidrs)
         fits == FlagsFit(flags) /\ cidrs # <<>> /\ MasksFit(flags, cidrs) /\ ClustersFit(cidrs, masks)
     IN  \/ /\ ~fits
            /\ boot' = [boot EXCEPT !.pc = IF FlagsFit(flags) /\ cidrs = <<>> THEN "panic" ELSE "dead"]
            /\ UNCHANGED <<ipam, params>>
         \/ fits /\ flags.type \notin Legacy /\ GoesOn(cidrs, masks, {})
         \/ fits /\ flags.type \in Legacy /\ NewController(cidrs[1], masks[1], ServiceCIDR(flags))
  /\ UNCHANGED <<flags, nodes, pending>>

\* listNodes polls until the grace period is over.
ListFails ==
  /\ boot.pc = "list"
  /\ IF boot.polls < MaxPolls THEN boot' = [boot EXCEPT !.polls = @ + 1] /\ UNCHANGED <<ipam, params>> ELSE Die
  /\ UNCHANGED <<flags, nodes, pending>>

Holding(where) == {n \in BootNodes : nodes[n] \in where}
Services(f) == {s \in {ServiceCIDR(f), SecondaryServiceCIDR(f)} : Parses(s)}

FilteredOut(f) == Services(f)

StackType(first, second) ==
  CASE first.family = 4 /\ second.family = 6 -> "IPv4_IPv6"
    [] first.family = 6 /\ second.family = 4 -> "IPv6_IPv4"
    [] first.family = 6 /\ second.family = 0 -> "IPv6"
    [] OTHER -> "IPv4"

OccupyListed == Holding({"inside"})

NewCIDRRangeAllocator ==
  /\ flags.type = "RangeAllocator"
  /\ IF (\E i \in DOMAIN ipam.cidrs : ~SetFits(ipam.cidrs[i], ipam.masks[i])) \/ Holding({"outside"}) # {}
     THEN Die
     ELSE /\ ipam' = [ipam EXCEPT !.allocator = "range", !.reserved = FilteredOut(flags), !.marked = OccupyListed]
          /\ boot' = Started(boot, "nodeipam") /\ UNCHANGED params

NewCloudCIDRAllocator ==
  /\ flags.type = "CloudAllocator"
  /\ ipam' = [ipam EXCEPT !.allocator = "cloud",
                          !.stack = StackType(ServiceCIDR(flags), SecondaryServiceCIDR(flags))]
  /\ boot' = Started(boot, "nodeipam") /\ UNCHANGED params

\* Start of the legacy controller: a PodCIDR that is not in the set is ignored.
StartLegacyIPAM ==
  /\ flags.type \in Legacy
  /\ ipam' = [ipam EXCEPT !.allocator = "legacy", !.marked = OccupyListed]
  /\ boot' = Started(boot, "nodeipam") /\ UNCHANGED params

InvalidType == flags.type \notin Legacy \cup {"RangeAllocator", "CloudAllocator"} /\ Die

ListSucceeds ==
  /\ boot.pc = "list"
  /\ NewCIDRRangeAllocator \/ NewCloudCIDRAllocator \/ StartLegacyIPAM \/ InvalidType
  /\ UNCHANGED <<flags, nodes, pending>>

\* The informers start after the controllers; the informer's list is not the one above.
StartInformers ==
  /\ boot.pc = "start" /\ boot.todo = {}
  /\ boot' = [boot EXCEPT !.pc = "serve"]
  /\ pending' = BootNodes \ Holding({"gone"})
  /\ UNCHANGED <<flags, ipam, params, nodes>>

\* The add handler of the range allocator marks the PodCIDR of a node, or assigns one.
InformerAdds(n) ==
  /\ boot.pc = "serve" /\ n \in pending
  /\ pending' = pending \ {n}
  /\ IF ipam.allocator = "range" /\ nodes[n] \in {"bare", "inside"}
     THEN ipam' = [ipam EXCEPT !.marked = @ \cup {n}] /\ nodes' = [nodes EXCEPT ![n] = "inside"]
     ELSE UNCHANGED <<ipam, nodes>>
  /\ UNCHANGED <<flags, boot, params>>

\* Run of the controller starts the allocator's workers once the cache is in sync.
RunAllocator ==
  /\ boot.pc = "serve" /\ ~ipam.running /\ ipam.allocator \in {"range", "cloud"}
  /\ ipam' = [ipam EXCEPT !.running = TRUE]
  /\ UNCHANGED <<flags, boot, params, nodes, pending>>

\* Nodes come and go until the informer watches them.
NodeComesOrGoes(n) ==
  /\ boot.pc # "serve"
  /\ nodes' = [nodes EXCEPT ![n] = IF @ = "gone" THEN "bare" ELSE "gone"]
  /\ UNCHANGED <<flags, boot, ipam, params, pending>>

\* The process ends, by itself or not, and the next one starts.
Reboot ==
  /\ boot.number < MaxBoots
  /\ boot' = Process(flags, boot.number + 1)
  /\ ipam' = NoIpam /\ params' = <<>> /\ pending' = {}
  /\ UNCHANGED <<flags, nodes>>

BootNext ==
  \/ Validate \/ StartGkeNetworkParams \/ StartNodeIpam \/ ListFails \/ ListSucceeds
  \/ StartInformers \/ RunAllocator \/ Reboot
  \/ \E n \in BootNodes : InformerAdds(n) \/ NodeComesOrGoes(n)

-----------------------------------------------------------------------------
(* Properties                                                              *)

\* NewCIDRRangeAllocator: "Caller must ensure subNetMaskSize is not less than
\* cluster CIDR mask size. ... Caller must ensure that ClusterCIDRs are
\* semantically correct e.g (1 for non DualStack, 2 for DualStack etc..)": the
\* checks spread over two packages ensure it, for the legacy controller too.
CallersKeepTheirPromise ==
  (boot.pc = "list" \/ ipam.allocator # "") /\ flags.type # "CloudAllocator" =>
    /\ Len(ipam.masks) = Len(ipam.cidrs)
    /\ Len(ipam.cidrs) = Cardinality(Families(ipam.cidrs)) /\ ipam.cidrs # <<>>
    /\ \A i \in DOMAIN ipam.cidrs : ipam.cidrs[i].bits <= ipam.masks[i]

\* No index of the list of ranges is out of range: the only panic is that of the
\* legacy controller without a service range.
OnlyNilServicePanics ==
  boot.pc = "panic" => flags.type \in Legacy /\ ~Parses(flags.services[1])

\* A range allocator keeps every service range that can be parsed free of nodes,
\* and the stack of a cloud allocator is the one of its service ranges.
ServiceRangesAreKept ==
  /\ ipam.allocator = "range" =>
       \A i \in DOMAIN flags.services : Parses(flags.services[i]) => flags.services[i] \in ipam.reserved
  /\ ipam.stack \in {"IPv4_IPv6", "IPv6_IPv4"} =>
       Len(flags.services) = 2 /\ Families(flags.services) = {4, 6}

\* Before the informer's first event can make the allocator assign a range, all
\* ranges that nodes hold are marked: also of nodes that it reports last, and
\* although the nodes were listed earlier and change.
HeldIsMarked ==
  boot.pc = "serve" /\ ipam.allocator \in {"range", "legacy"} => Holding({"inside"}) \subseteq ipam.marked

\* Whatever the flags, an allocator that starts gets the arguments it relies on and
\* keeps clear of the service ranges and of what nodes hold already.
StartIsSafe == CallersKeepTheirPromise /\ OnlyNilServicePanics /\ ServiceRangesAreKept /\ HeldIsMarked
=============================================================================
