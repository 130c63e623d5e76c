----------------------------- MODULE InternalLB -----------------------------
(***************************************************************************)
(* The internal load balancer: instance groups by zone, a backend service   *)
(* with a health check, a forwarding rule held at its address while it is   *)
(* remade, two firewalls, and the finalizer that says this controller has   *)
(* resources to clean up.  Instance groups, the nodes health check and,     *)
(* for services that ask for it, the backend service are shared.  All but   *)
(* the finalizer and, in an ensure, the instance groups is done under       *)
(* sharedResourceLock.  The network is not a legacy one, the alpha features *)
(* that leave instance groups to others are off, and a zone has fewer nodes *)
(* than maxInstancesPerInstanceGroup.                                       *)
(***************************************************************************)
EXTENDS GceResources, SequencesExt

ShareBackendService(spec) == spec.share /\ ~spec.local

\* makeBackendServiceName: the affinity stands for the protocol too.
BackendName(s, spec) == IF ShareBackendService(spec) THEN <<"shared", spec.affinity>> ELSE <<"own", s>>
HealthName(s, spec) == IF spec.local THEN s ELSE NodesCheck

GroupCalls(hosts) == <<Call("groups", {Zone[n] : n \in hosts})>>

\* The part of ensureInternalLoadBalancer before the lock.
EnsureInternalLoadBalancer(g, j) ==
  IF j.spec.elsewhere /\ ~Has(g.rule, j.service) /\ j.service \notin g.finalizer THEN Then(g, j)
  ELSE ThenDo(g, j, <<Call("addFinalizer", "")>> \o GroupCalls(j.hosts)
                      \o Locked(<<Call("internal", "")>>))

\* ensureInternalInstanceGroups: the zones in any order; ensureInternalInstanceGroup
\* of each: what to create, to remove and to add.
EnsureInternalInstanceGroups(g, j, zones) ==
  LET wanted(z) == {n \in j.hosts : Zone[n] = z}
      has(z) == IF Has(g.group, z) THEN g.group[z] ELSE {}
      calls(op, z, nodes) == IF nodes = {} THEN <<>> ELSE <<Call(op, [zone |-> z, nodes |-> nodes])>>
      zone(z) == (IF Has(g.group, z) THEN <<>> ELSE <<Call("createGroup", z)>>)
                   \o calls("removeFromGroup", z, has(z) \ wanted(z))
                   \o calls("addToGroup", z, wanted(z) \ has(z))
      same(cs) == IF Head(j.todo).locked THEN Locked(cs) ELSE cs
  IN IF zones = {} THEN Then(g, j)
     ELSE UNION {ThenDo(g, j, same(zone(z) \o <<Call("groups", zones \ {z})>>)) : z \in zones}

ChangeGroup(g, j, c) ==
  LET z == c.arg.zone
  IN IF Has(g.group, z)
     THEN Then([g EXCEPT !.group[z] = IF c.op = "addToGroup" THEN @ \cup c.arg.nodes
                                       ELSE @ \ c.arg.nodes], j)
     ELSE IF c.op = "addToGroup" THEN {} ELSE Then(g, j)

\* ilbIPToUse
IlbIPToUse(g, s, spec) ==
  IF spec.ip # NoIP THEN spec.ip
  ELSE IF ~Has(g.rule, s) THEN NoIP
  ELSE IF spec.subnet # g.rule[s].subnet THEN NoIP ELSE g.rule[s].ip

\* addressManager.validateAddress
ValidAddress(address, ip) == (ip = NoIP \/ ip = address.ip) /\ address.scheme = "internal"

\* Once locked: the backend service the rule has now, the health check, the address.
PlanInternal(g, j) ==
  LET s == j.service
      ip == IlbIPToUse(g, s, j.spec)
      old == IF Has(g.rule, s) THEN <<g.rule[s].target>> ELSE <<>>
      previous == [i \in DOMAIN old |-> [name |-> old[i], check |-> g.backend[old[i]].check]]
  IN ThenDo(g, [j EXCEPT !.previous = previous],
       Locked(<<Call("health", HealthName(s, j.spec))>>
                \o (IF Has(g.address, s) /\ ~ValidAddress(g.address[s], ip)
                    THEN <<Call("deleteAddress", "")>> ELSE <<>>)
                \o <<Call("hold", ip), Call("internalRule", "")>>))

\* addressManager.HoldAddress and ensureAddressReservation: an address somebody
\* else has reserved is used, and not released.
HoldAddress(g, j, ip) ==
  LET s == j.service
      ips == Reservable(g, s, ip, "internal", "")
      theirs == IF ip \in DOMAIN StaticIPs THEN StaticIPs[ip].scheme = "internal"
                ELSE ReservedBy(g, ip) # {}
  IN IF Has(g.address, s) THEN Then(g, [j EXCEPT !.ip = g.address[s].ip, !.release = TRUE])
     ELSE IF ips # {}
     THEN UNION {Then(Reserve(g, s, i, "internal", ""), [j EXCEPT !.ip = i, !.release = TRUE]) : i \in ips}
     ELSE IF ip = NoIP \/ ~theirs THEN {}
     ELSE Then(g, [j EXCEPT !.ip = ip])

NewInternalRule(j) ==
  [scheme |-> "internal", ip |-> j.ip, port |-> j.spec.port, tier |-> "", subnet |-> j.spec.subnet,
   target |-> BackendName(j.service, j.spec)]

\* clearPreviousInternalResources
ClearPrevious(j) ==
  LET s == j.service
      clear(p) == (IF p.name = BackendName(s, j.spec) THEN <<>> ELSE <<Call("oldBackend", p.name)>>)
               \o (IF p.check = HealthName(s, j.spec) THEN <<>>
                   ELSE <<Call("oldHealth", p.check), Call("oldHealthFirewall", p.check)>>)
  IN IF j.previous = <<>> THEN <<>> ELSE clear(j.previous[1])

\* Mutant: the ports are not compared.
OtherTarget(g, j) == Has(g.rule, j.service) /\ g.rule[j.service].target # NewInternalRule(j).target

\* forwardingRulesEqual, and the rule that is there has to go.
RuleIsRemade(g, j) == Has(g.rule, j.service) /\ g.rule[j.service] # NewInternalRule(j)

\* The rest of ensureInternalLoadBalancer.
PlanInternalRule(g, j) ==
  LET s == j.service
      remade == RuleIsRemade(g, j)
      legacy == Has(g.firewall, <<"legacy", s>>) /\ Has(g.firewall, <<"traffic", s>>)
  IN ThenDo(g, j,
       Locked((IF remade THEN <<Call("deleteRule", "")>> ELSE <<>>)
                \o <<Call("backend", "")>>
                \o (IF remade \/ ~Has(g.rule, s) THEN <<Call("createRule", "")>> ELSE <<>>)
                \o <<Call("firewall", "")>>
                \o (IF legacy THEN <<Call("legacyFirewall", "legacy")>> ELSE <<>>)
                \o <<Call("healthFirewall", HealthName(s, j.spec))>>
                \o ClearPrevious(j)))

\* ensureInternalBackendService
EnsureInternalBackendService(g, j) ==
  LET s == j.service
      h == HealthName(s, j.spec)
      groups == {Zone[n] : n \in j.hosts}
  IN IF ~Has(g.health, h) \/ ~groups \subseteq DOMAIN g.group THEN {}
     ELSE Then([g EXCEPT !.backend = Put(@, BackendName(s, j.spec),
                  [check |-> h, groups |-> groups, affinity |-> j.spec.affinity,
                   of |-> IF ShareBackendService(j.spec) THEN "" ELSE s])], j)

\* ensureInternalBackendServiceGroups
EnsureInternalBackendServiceGroups(g, j) ==
  LET b == BackendName(j.service, j.spec)
      groups == {Zone[n] : n \in j.hosts}
  IN IF ~Has(g.backend, b) \/ ~groups \subseteq DOMAIN g.group THEN {}
     ELSE Then([g EXCEPT !.backend[b].groups = groups], j)

\* teardownInternalBackendService
TeardownBackend(g, j, b) ==
  IF BackendInUse(g, b) THEN Then(g, j) ELSE Then([g EXCEPT !.backend = Del(@, b)], j)

\* Mutant: the firewall of a check that is in use goes.
TeardownFirewall(g, j, h) ==
  IF HealthInUse(g, h) THEN Then(g, j) ELSE Then([g EXCEPT !.health = Del(@, h)], j)

\* teardownInternalHealthCheckAndFirewall: a check in use keeps its firewall.
TeardownHealth(g, j, h) ==
  IF HealthInUse(g, h) THEN ThenSkip(g, j) ELSE Then([g EXCEPT !.health = Del(@, h)], j)

\* ensureInternalLoadBalancerDeleted
EnsureInternalLoadBalancerDeleted(j) ==
  LET s == j.service  h == HealthName(s, j.spec)
      groups == SetToSeq(Zones)
  IN Locked(<<Call("forgetAddress", ""), Call("deleteRule", ""),
              Call("deleteBackend", BackendName(s, j.spec)),
              Call("deleteFirewall", "traffic"), Call("deleteFirewall", "legacy"),
              Call("deleteHealth", h), Call("deleteHealthFirewall", h)>>
              \o [i \in DOMAIN groups |-> Call("deleteGroup", groups[i])]
              \o <<Call("removeFinalizer", "")>>)

\* updateInternalLoadBalancer
UpdateInternalLoadBalancer(g, j) ==
  IF j.spec.elsewhere /\ j.service \notin g.finalizer THEN <<>>
  ELSE Locked(GroupCalls(j.hosts) \o <<Call("backendGroups", "")>>)

\* addFinalizer and removeFinalizer of ILBFinalizerV1
AddFinalizer(g, j) == Then([g EXCEPT !.finalizer = @ \cup {j.service}], j)
RemoveFinalizer(g, j) == Then([g EXCEPT !.finalizer = @ \ {j.service}], j)

CreateInstanceGroup(g, j, z) ==
  IF Has(g.group, z) THEN {} ELSE Then([g EXCEPT !.group = Put(@, z, {})], j)

\* ensureInternalInstanceGroupsDeleted, one zone: a group in use stays.
DeleteInstanceGroup(g, j, z) ==
  IF GroupInUse(g, z) THEN Then(g, j) ELSE Then([g EXCEPT !.group = Del(@, z)], j)

\* ensureInternalHealthCheck: needToUpdateHealthChecks brings one that is there up to date.
EnsureInternalHealthCheck(g, j, h) == Then([g EXCEPT !.health = Put(@, h, h)], j)

\* ensureInternalForwardingRule
EnsureInternalForwardingRule(g, j) ==
  IF RuleCreatable(g, j.service, NewInternalRule(j))
  THEN Then([g EXCEPT !.rule = Put(@, j.service, NewInternalRule(j))], j) ELSE {}

\* ensureInternalFirewall: created, or patched when firewallRuleEqual says so.
EnsureInternalFirewall(g, j, name, admits) == Then([g EXCEPT !.firewall = Put(@, name, admits)], j)

InternalCall(g, j, c) ==
  CASE c.op = "addFinalizer" -> AddFinalizer(g, j)
    [] c.op = "removeFinalizer" -> RemoveFinalizer(g, j)
    [] c.op = "groups" -> EnsureInternalInstanceGroups(g, j, c.arg)
    [] c.op = "createGroup" -> CreateInstanceGroup(g, j, c.arg)
    [] c.op \in {"addToGroup", "removeFromGroup"} -> ChangeGroup(g, j, c)
    [] c.op = "deleteGroup" -> DeleteInstanceGroup(g, j, c.arg)
    [] c.op = "internal" -> PlanInternal(g, j)
    [] c.op = "health" -> EnsureInternalHealthCheck(g, j, c.arg)
    [] c.op = "hold" -> HoldAddress(g, j, c.arg)
    [] c.op = "internalRule" -> PlanInternalRule(g, j)
    [] c.op \in {"deleteAddress", "forgetAddress", "release"} -> DeleteRegionAddress(g, j)
    [] c.op = "deleteRule" -> DeleteForwardingRule(g, j)
    [] c.op = "backend" -> EnsureInternalBackendService(g, j)
    [] c.op = "backendGroups" -> EnsureInternalBackendServiceGroups(g, j)
    [] c.op = "createRule" -> EnsureInternalForwardingRule(g, j)
    [] c.op = "firewall" ->
         EnsureInternalFirewall(g, j, <<"traffic", j.service>>, [ip |-> j.ip, port |-> j.spec.port])
    [] c.op \in {"deleteFirewall", "legacyFirewall"} -> DeleteFirewall(g, j, <<c.arg, j.service>>)
    [] c.op = "healthFirewall" ->
         EnsureInternalFirewall(g, j, <<"health", c.arg>>, [ip |-> NoIP, port |-> 0])
    [] c.op \in {"deleteBackend", "oldBackend"} -> TeardownBackend(g, j, c.arg)
    [] c.op \in {"deleteHealth", "oldHealth"} -> TeardownHealth(g, j, c.arg)
    [] c.op \in {"deleteHealthFirewall", "oldHealthFirewall"} -> DeleteFirewall(g, j, <<"health", c.arg>>)
=============================================================================
