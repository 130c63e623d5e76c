----------------------------- MODULE MCNetworks -----------------------------
(* TLC instances of CloudAllocator and ParamSets.  The two do not share      *)
(* state in these instances: a behaviour is about one of them, chosen at     *)
(* the start, and the other rests in an initial state.                       *)
EXTENDS CloudAllocator, ParamSets
CONSTANTS n1

VARIABLE part

V4(id, size) == [family |-> 4, id |-> id, size |-> size]
V6 == [family |-> 6, id |-> "six", size |-> 65536]
Alias(range, cidr) == [range |-> range, cidr |-> cidr]
Interface(vpc, subnet, ip, alias, ipv6) ==
  [vpc |-> vpc, subnet |-> subnet, ip |-> ip, alias |-> alias, ipv6 |-> ipv6]

PodRange == Alias("pods", V4("pods", 256))
RedRange == Alias("reds", V4("reds", 16))
Eth0(alias, ipv6) == Interface("vpc", "sub", "ip0", alias, ipv6)
Eth1 == Interface("dev", "devsub", "ip1", <<>>, NoCIDRs)

Setup(machine, stack, pools, networks) ==
  [machine |-> [n \in Nodes |-> machine], stack |-> stack, labels |-> [n \in Nodes |-> pools],
   networks |-> networks]
NoLabel == [set |-> FALSE, subnet |-> "", range |-> ""]
PodLabel == [set |-> TRUE, subnet |-> "sub", range |-> "pods"]

MCSetups ==
  {Setup(<<>>, "IPv4", NoLabel, {}),
   Setup(<<Eth0(<<PodRange>>, NoCIDRs)>>, "IPv4", NoLabel, {}),
   Setup(<<Eth0(<<PodRange>>, V6)>>, "IPv6_IPv4", NoLabel, {}),
   Setup(<<Eth0(<<>>, V6)>>, "IPv4_IPv6", NoLabel, {}),
   Setup(<<Eth0(<<RedRange, PodRange>>, NoCIDRs), Eth1>>, "IPv4", NoLabel, {"default", "red"}),
   Setup(<<Eth0(<<RedRange, PodRange>>, V6), Eth1>>, "IPv4_IPv6", PodLabel, {"dev"})}

MCNetworkNames == {"default", "red", "dev"}
MCNetworkSpec == [w \in MCNetworkNames |->
  [type |-> IF w = "dev" THEN "Device" ELSE "L3",
   params |-> IF w = "dev" THEN "devParams" ELSE IF w = "red" THEN "redParams" ELSE "defaultParams"]]
MCParamSpec == [p \in {"defaultParams", "redParams", "devParams"} |->
  [vpc |-> IF p = "devParams" THEN "dev" ELSE "vpc",
   subnet |-> IF p = "devParams" THEN "devsub" ELSE "sub",
   ranges |-> CASE p = "defaultParams" -> <<"none", "pods">>
                [] p = "redParams" -> <<"reds">>
                [] OTHER -> <<>>]]

MCNetNames == {"default", "w"}
MCNetTypes == [w \in MCNetNames |-> IF w = "w" THEN "Device" ELSE "L3"]
Spec(vpc, subnet, ranges, device) ==
  [vpc |-> vpc, subnet |-> subnet, ranges |-> ranges, device |-> device]
MCDefaultSpec == Spec("vpc", "sub", {"pods"}, FALSE)
MCSpecs == {Spec("dev", "devsub", {}, TRUE), Spec("vpc", "sub", {"pods"}, FALSE),
            Spec("vpc", "none", {}, FALSE)}
MCSubnets == [s \in {"sub", "devsub"} |-> IF s = "sub" THEN {"pods", "more"} ELSE {}]
Given(s) == [AbsentGnp EXCEPT !.exists = TRUE, !.spec = s]
NetTo(p, used) == [AbsentNet EXCEPT !.exists = TRUE, !.ref = p, !.inUse = used]
NoGnps == [p \in ParamNames |-> AbsentGnp]
NoNets == [w \in NetNames |-> AbsentNet]
Scene(gnps, refs, sets, networks, labels) ==
  [gnp |-> gnps @@ NoGnps, net |-> refs @@ NoNets,
   params |-> sets, networks |-> networks, labels |-> labels]
Dev == Spec("dev", "devsub", {}, TRUE)
Settled(g, cidrs, w, born) ==
  [g EXCEPT !.finalizer = TRUE, !.born = born,
            !.status = [ready |-> "GNPReady", podCIDRs |-> cidrs, network |-> w]]

\* The default set and its nodes; a set and its Network; two sets that may clash;
\* and a Network that moves between two sets.
MCScenes ==
  {Scene("default" :> Given(NoSpec), "default" :> NetTo("default", FALSE),
         {"default"}, {}, {"more"}),
   Scene("p" :> Given(Dev), "w" :> NetTo("p", TRUE), {"p"}, {"w"}, {}),
   Scene("p" :> Settled(Given(Dev), {"devsub"}, "", 0), <<>>, {"q"}, {}, {}),
   Scene("p" :> Settled(Given(Dev), {"devsub"}, "w", 0)
           @@ "q" :> Settled(Given(MCDefaultSpec), {"pods"}, "", 1),
         "w" :> [NetTo("p", TRUE) EXCEPT !.paramsReady = "GNPParamsReady"], {}, {"w"}, {})}

Init == \/ part = "cloud" /\ CAInit /\ scene = (CHOOSE s \in Scenes : TRUE) /\ GnpInit
        \/ part = "gnp" /\ GnpInit /\ setup = (CHOOSE s \in Setups : s.networks = {}) /\ CAInit
Next == /\ UNCHANGED part
        /\ \/ part = "cloud" /\ CANext /\ UNCHANGED gnpVars
           \/ part = "gnp" /\ GnpNext /\ UNCHANGED caVars
NetworksSpec == Init /\ [][Next]_<<part, caVars, gnpVars>>
=============================================================================
