--------------------------- MODULE MCLoadBalancers ---------------------------
(* TLC instances of LoadBalancer. *)
EXTENDS LoadBalancer, TLC

MCZone == [n \in {"n1", "n2"} |-> IF n = "n1" THEN "z1" ELSE "z2"]
MCStaticIPs == 8 :> [scheme |-> "external", tier |-> "premium"]
               @@ 9 :> [scheme |-> "internal", tier |-> ""]

Ext == NoSpec
Inn == [NoSpec EXCEPT !.scheme = "internal"]
None == [s \in Services |-> {}]

One == {"n1"}
Two == {"n1", "n2"}

Scene(first, specs, before, later, faults) ==
  [first |-> first @@ None, specs |-> specs @@ None, nodes |-> before, later |-> later,
   legacy |-> {}, faults |-> faults]

Legacy(scene) == [scene EXCEPT !.legacy = {"a"}]

With(spec, field, value) == [spec EXCEPT ![field] = value]
Local(spec) == With(spec, "local", TRUE)
Shared(spec) == With(spec, "share", TRUE)
Same(specs) == [s \in Services |-> specs]

\* An external service whose address, port, affinity and tier change.
ExternalChanges ==
  Scene("a" :> {Ext}, "a" :> {With(Ext, "ip", 8), With(With(Ext, "port", 2), "affinity", "ClientIP"),
                             With(Ext, "tier", "standard")}, One, One, 1)
\* It asks for local traffic.
LocalTraffic == Scene("a" :> {Local(Ext), Ext}, "a" :> {Local(Ext)}, One, One, 1)
\* Two external services share the nodes check.
ExternalPair == Scene(Same({Ext}), "a" :> {Local(Ext)}, One, One, 1)
\* The nodes change.
ExternalNodes == Scene("a" :> {Ext}, "a" :> {With(Ext, "affinity", "ClientIP")}, Two, One, 1)
\* An internal service whose address, port, subnet and traffic policy change.
InternalChanges == Legacy(
  Scene("a" :> {Inn}, "a" :> {With(Inn, "ip", 9), With(Inn, "port", 2), With(Inn, "subnet", "other"),
                             Local(Inn)}, One, One, 1))
\* Two internal services share a backend service, or part.
InternalPair ==
  Scene(Same({Shared(Inn)}), "a" :> {With(Shared(Inn), "affinity", "ClientIP"), Local(Inn)}, One, One, 1)
InternalNodes == Scene("a" :> {Inn}, None, Two, One, 1)
\* A service that changes between the schemes, or goes to another controller.
Switch == Scene("a" :> {Ext, Inn}, "a" :> {Ext, Inn}, One, One, 0)
Elsewhere ==
  Scene("a" :> {Inn, With(Inn, "elsewhere", TRUE), With(Ext, "elsewhere", TRUE)},
        "a" :> {With(Inn, "elsewhere", TRUE), With(Inn, "mixed", TRUE)}, One, Two, 0)

MCScenes == {ExternalChanges, LocalTraffic, ExternalPair, ExternalNodes, InternalChanges, InternalPair,
             InternalNodes, Switch, Elsewhere}

\* A call fails while the scheme changes.
SwitchScenes == {[Switch EXCEPT !.faults = 1]}
=============================================================================
