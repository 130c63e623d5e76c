---------------------------- MODULE GceResources ----------------------------
(***************************************************************************)
(* The GCE resources load balancers are made of, and the job that works on  *)
(* them.  The compute API is external: a resource is a member of a partial  *)
(* function from its name, a call is refused when it would break a          *)
(* reference between resources or take an address that is taken.            *)
(*                                                                          *)
(* A job is one call of the load balancer interface: the API calls it has   *)
(* still to make, in order, and the calls other goroutines of it make at    *)
(* the same time.  "outcomes" are what a call may lead to: the resources    *)
(* and the job after it.  A call with no outcome is refused.                *)
(***************************************************************************)
EXTENDS Naturals, Sequences, FiniteSets

CONSTANTS
  Services,
  Zone,          \* [nodes of the cluster -> zones]
  ExternalIPs,   \* addresses GCE hands out
  InternalIPs,
  StaticIPs      \* [addresses users reserved -> [scheme, tier]]

NoIP == 0
NodesCheck == "nodes"     \* MakeNodesHealthCheckName: the check all services share
Zones == {Zone[n] : n \in DOMAIN Zone}

Put(f, k, v) == [x \in DOMAIN f \cup {k} |-> IF x = k THEN v ELSE f[x]]
Del(f, k) == [x \in DOMAIN f \ {k} |-> f[x]]

NoResources ==
  [rule |-> <<>>,       \* service -> [scheme, ip, port, tier, subnet, target]
   address |-> <<>>,    \* service -> [ip, scheme, tier]
   pool |-> <<>>,       \* service -> [hosts, affinity, check]
   check |-> <<>>,      \* HTTP health checks: name -> the service described
   backend |-> <<>>,    \* backend services: name -> [check, groups, affinity, of]
   health |-> <<>>,     \* health checks of backend services
   group |-> <<>>,      \* zone -> instances of the instance group
   firewall |-> <<>>,   \* <<kind, name>> -> what it admits
   finalizer |-> {}]    \* Services that carry ILBFinalizerV1

Has(f, k) == k \in DOMAIN f

InUse(g, ip, s) == \E t \in DOMAIN g.rule \ {s} : g.rule[t].ip = ip
ReservedBy(g, ip) == {s \in DOMAIN g.address : g.address[s].ip = ip}
Reserved(g, ip) == ip \in DOMAIN StaticIPs \/ ReservedBy(g, ip) # {}
Free(g, scheme) ==
  {ip \in (IF scheme = "internal" THEN InternalIPs ELSE ExternalIPs) :
     ~Reserved(g, ip) /\ \A s \in DOMAIN g.rule : g.rule[s].ip # ip}

\* ReserveRegionAddress: the addresses it may reserve under the name of s.
Reservable(g, s, ip, scheme, tier) ==
  IF Has(g.address, s) THEN {}
  ELSE IF ip = NoIP THEN Free(g, scheme)
  ELSE IF Reserved(g, ip) \/ InUse(g, ip, s) THEN {}
  ELSE IF Has(g.rule, s) /\ g.rule[s].ip = ip
          /\ (g.rule[s].scheme # scheme \/ g.rule[s].tier # tier) THEN {}
  ELSE {ip}

Reserve(g, s, ip, scheme, tier) ==
  [g EXCEPT !.address = Put(@, s, [ip |-> ip, scheme |-> scheme, tier |-> tier])]

\* CreateRegionForwardingRule
RuleCreatable(g, s, rule) ==
  /\ ~Has(g.rule, s)
  /\ ~InUse(g, rule.ip, s)
  /\ ReservedBy(g, rule.ip) \subseteq {s}
  /\ IF rule.scheme = "internal" THEN Has(g.backend, rule.target) ELSE Has(g.pool, s)

\* References between resources, which the API protects.
PoolInUse(g, s) == Has(g.rule, s) /\ g.rule[s].scheme = "external"
CheckInUse(g, h) == \E s \in DOMAIN g.pool : g.pool[s].check = h
BackendInUse(g, b) == \E s \in DOMAIN g.rule : g.rule[s].target = b
HealthInUse(g, h) == \E b \in DOMAIN g.backend : g.backend[b].check = h
GroupInUse(g, z) == \E b \in DOMAIN g.backend : z \in g.backend[b].groups

-----------------------------------------------------------------------------
(* Jobs. *)

Call(op, arg) == [op |-> op, arg |-> arg, locked |-> FALSE]
Locked(calls) == [i \in DOMAIN calls |-> [calls[i] EXCEPT !.locked = TRUE]]

NoSpec == [scheme |-> "external", ip |-> NoIP, port |-> 1, affinity |-> "None", local |-> FALSE,
           tier |-> "unset", share |-> FALSE, subnet |-> "", elsewhere |-> FALSE,
           mixed |-> FALSE]

NoJob == [kind |-> "idle", service |-> "", spec |-> NoSpec, hosts |-> {}, todo |-> <<>>, also |-> {},
          ip |-> NoIP, owned |-> FALSE, release |-> FALSE, previous |-> <<>>, err |-> FALSE]

\* The deferred release of the address, when the job is to make it.
ReleaseCall(j) ==
  IF ~j.release THEN <<>>
  ELSE IF j.spec.scheme = "internal" THEN Locked(<<Call("release", "")>>)
  ELSE <<Call("release", "")>>

\* The job after k of its calls; a job that has made them all defers to the release.
After(j, k) ==
  LET rest == SubSeq(j.todo, k + 1, Len(j.todo))
  IN IF rest = <<>> THEN [j EXCEPT !.todo = ReleaseCall(j), !.release = FALSE]
     ELSE [j EXCEPT !.todo = rest]

Then(g, j) == {[g |-> g, j |-> After(j, 1)]}
ThenSkip(g, j) == {[g |-> g, j |-> After(j, 2)]}
ThenDo(g, j, calls) == {[g |-> g, j |-> After([j EXCEPT !.todo = <<Head(@)>> \o calls \o Tail(@)], 1)]}

\* The calls that delete: a resource that is not there is no error.
DeleteForwardingRule(g, j) == Then([g EXCEPT !.rule = Del(@, j.service)], j)
DeleteRegionAddress(g, j) == Then([g EXCEPT !.address = Del(@, j.service)], j)
DeleteFirewall(g, j, name) == Then([g EXCEPT !.firewall = Del(@, name)], j)
DeleteTargetPool(g, j) ==
  IF PoolInUse(g, j.service) THEN {} ELSE Then([g EXCEPT !.pool = Del(@, j.service)], j)

\* An error ends the job, but for what it defers.
Failed(j) == [j EXCEPT !.todo = ReleaseCall(j), !.release = FALSE, !.err = TRUE]
=============================================================================
