----------------------------- MODULE ExternalLB -----------------------------
(***************************************************************************)
(* The external load balancer: a static address while it is being put       *)
(* together, a firewall, a target pool with an HTTP health check, and a     *)
(* forwarding rule.  A service has a check of its own when it asks for      *)
(* local traffic and shares the nodes check otherwise; what touches the     *)
(* nodes check is done under sharedResourceLock.                            *)
(*                                                                          *)
(* What only the job of a service changes is read when the calls are laid   *)
(* out; what services share is read by the call itself.  The port stands    *)
(* for the ports, protocol and source ranges of the service.                *)
(***************************************************************************)
EXTENDS GceResources, FiniteSetsExt

CONSTANTS
  MaxCreate,   \* maxTargetPoolCreateInstances
  MaxUpdate    \* maxInstancesPerTargetPoolUpdate

NetTier(spec) == IF spec.tier = "unset" THEN "premium" ELSE spec.tier

\* The tier of a reserved address.
TierOf(g, ip) == IF ip \in DOMAIN StaticIPs THEN StaticIPs[ip].tier
                 ELSE g.address[CHOOSE s \in ReservedBy(g, ip) : TRUE].tier

\* The calls that need the lock are the ones on the nodes check.
Guarded(h, calls) == IF h = NodesCheck THEN Locked(calls) ELSE calls

\* deleteWrongNetworkTieredResources, when the annotation is set.
TierCalls(g, j) ==
  LET s == j.service  wrong(r) == r.tier # NetTier(j.spec)
  IN IF j.spec.tier = "unset" THEN <<>>
     ELSE (IF Has(g.rule, s) /\ wrong(g.rule[s]) THEN <<Call("tierRule", "")>> ELSE <<>>)
       \o (IF Has(g.address, s) /\ wrong(g.address[s]) THEN <<Call("tierAddress", "")>> ELSE <<>>)

\* The steps of ensureExternalLoadBalancer before anything is read; an existing
\* rule to a backend service belongs to another controller.
EnsureExternalLoadBalancer(g, j) ==
  IF j.spec.elsewhere THEN Then(g, j)
  ELSE IF j.hosts = {} THEN {}
  ELSE ThenDo(g, j, TierCalls(g, j) \o <<Call("external", "")>>)

\* forwardingRuleNeedsUpdate
RuleNeedsUpdate(g, s, spec) ==
  \/ ~Has(g.rule, s)
  \/ spec.ip # NoIP /\ spec.ip # g.rule[s].ip
  \/ spec.port # g.rule[s].port

RuleIP(g, s) == IF Has(g.rule, s) THEN g.rule[s].ip ELSE NoIP

\* verifyUserRequestedIP: whether the requested address can be used, and whether
\* it is the user's to release.
UserOwned(g, spec) == spec.ip # NoIP /\ Reserved(g, spec.ip)
Usable(g, s, spec) ==
  \/ spec.ip = NoIP
  \/ UserOwned(g, spec) /\ TierOf(g, spec.ip) = NetTier(spec)
  \/ ~UserOwned(g, spec) /\ spec.ip = RuleIP(g, s)

\* The health check a service needs, and the one its target pool is leaving.
CheckFor(s, spec) == IF spec.local THEN s ELSE NodesCheck
CheckToDelete(g, s, spec) ==
  IF spec.local THEN IF Has(g.check, s) THEN <<>> ELSE <<NodesCheck>>
  ELSE IF Has(g.check, s) THEN <<s>> ELSE <<>>

\* targetPoolNeedsRecreation, or a change of health check.
PoolNeedsRecreation(g, s, spec) ==
  \/ ~Has(g.pool, s)
  \/ g.pool[s].affinity # spec.affinity
  \/ CheckToDelete(g, s, spec) # <<>>

DeleteCheckCalls(h) == Guarded(h, <<Call("deleteCheck", h), Call("deleteCheckFirewall", h)>>)
\* Mutant: only one check is deleted.
DeletesOneCheck(hs) ==
  <<Call("deletePool", "")>> \o (IF hs = <<>> THEN <<>> ELSE DeleteCheckCalls(hs[1]))

\* DeleteExternalTargetPoolAndChecks
DeletePoolAndChecks(hs) ==
  <<Call("deletePool", "")>>
    \o (IF hs = <<>> THEN <<>> ELSE DeleteCheckCalls(hs[1]))
    \o (IF Len(hs) < 2 THEN <<>> ELSE DeleteCheckCalls(hs[2]))

\* createTargetPoolAndHealthCheck
CreatePoolAndCheck(h) ==
  Guarded(h, <<Call("checkFirewall", h), Call("check", h), Call("createPool", h)>>)

\* ensureTargetPoolAndHealthCheck
EnsurePoolAndCheck(g, j) ==
  LET s == j.service  h == CheckFor(s, j.spec)  hosts == <<Call("poolHosts", "")>>
  IN IF PoolNeedsRecreation(g, s, j.spec)
     THEN (IF Has(g.pool, s) THEN DeletePoolAndChecks(CheckToDelete(g, s, j.spec)) ELSE <<>>)
            \o CreatePoolAndCheck(h)
            \o (IF Cardinality(j.hosts) > MaxCreate THEN hosts ELSE <<>>)
     ELSE hosts \o <<Call("check", h)>>

\* The rest of ensureExternalLoadBalancer: the address, the firewall, the rule
\* out of the way, the pool and its check, the rule.
PlanExternal(g, j) ==
  LET s == j.service
      owned == UserOwned(g, j.spec)
      remake == RuleNeedsUpdate(g, s, j.spec) \/ PoolNeedsRecreation(g, s, j.spec)
  IN IF ~Usable(g, s, j.spec) THEN {}
     ELSE ThenDo(g, [j EXCEPT !.owned = owned, !.ip = j.spec.ip],
            (IF owned THEN <<>> ELSE <<Call("staticIP", RuleIP(g, s))>>)
              \o <<Call("firewall", "")>>
              \o (IF Has(g.rule, s) /\ remake THEN <<Call("replaceRule", "")>> ELSE <<>>)
              \o EnsurePoolAndCheck(g, j)
              \o (IF remake THEN <<Call("createRule", "")>> ELSE <<>>))

\* ensureStaticIP: reserve the address, or find who has reserved it.
EnsureStaticIP(g, j, ip) ==
  LET s == j.service
      ips == Reservable(g, s, ip, "external", NetTier(j.spec))
      found == IF ip = NoIP THEN Has(g.address, s) ELSE Reserved(g, ip)
  IN IF ips # {}
     THEN UNION {Then(Reserve(g, s, i, "external", NetTier(j.spec)),
                      [j EXCEPT !.ip = i, !.release = TRUE]) : i \in ips}
     ELSE IF ~found THEN {}
     ELSE Then(g, [j EXCEPT !.ip = IF ip = NoIP THEN g.address[s].ip ELSE ip])

\* firewallObject, and createFirewall or updateFirewall
FirewallObject(ip, port) == [ip |-> ip, port |-> port]
WriteFirewall(g, j, name, f) == Then([g EXCEPT !.firewall = Put(@, name, f)], j)

\* firewallNeedsUpdate
EnsureFirewall(g, j) ==
  LET name == <<"traffic", j.service>>  new == FirewallObject(j.ip, j.spec.port)
  IN IF Has(g.firewall, name) /\ g.firewall[name] = new THEN Then(g, j)
     ELSE WriteFirewall(g, j, name, new)

\* ensureHTTPHealthCheckFirewall: that of a service's own check names its address.
EnsureCheckFirewall(g, j, h) ==
  WriteFirewall(g, j, <<"check", h>>, FirewallObject(IF h = NodesCheck THEN NoIP ELSE j.ip, 0))

\* ensureHTTPHealthCheck
EnsureCheck(g, j, h) == Then([g EXCEPT !.check = Put(@, h, h)], j)

\* CreateTargetPool with the first of the hosts; a pool that is there is kept.
CreatePool(g, j, h) ==
  LET size == Min({MaxCreate, Cardinality(j.hosts)})
  IN IF Has(g.pool, j.service) THEN Then(g, j)
     ELSE IF ~Has(g.check, h) THEN {}
     ELSE UNION {Then([g EXCEPT !.pool = Put(@, j.service,
                         [hosts |-> hosts, affinity |-> j.spec.affinity, check |-> h])], j) :
                   hosts \in kSubset(size, j.hosts)}

\* Deleting the nodes check fails while another pool uses it, and its firewall stays.
DeleteCheck(g, j, h) ==
  IF CheckInUse(g, h) THEN ThenSkip(g, j) ELSE Then([g EXCEPT !.check = Del(@, h)], j)

\* updateTargetPool: what to add and to remove, in calls of at most MaxUpdate
\* instances, and a count at the end.
UpdateTargetPool(g, j) ==
  LET pool == g.pool[j.service].hosts
      calls(op, hosts) == IF hosts = {} THEN <<>> ELSE <<Call(op, hosts)>>
  IN IF ~Has(g.pool, j.service) THEN {}
     ELSE ThenDo(g, j, calls("addHosts", j.hosts \ pool) \o calls("removeHosts", pool \ j.hosts)
                         \o <<Call("countHosts", "")>>)

ChangeHosts(g, j, hosts, adding) ==
  LET some == kSubset(Min({MaxUpdate, Cardinality(hosts)}), hosts)
      op == Head(j.todo).op
  IN IF ~Has(g.pool, j.service) THEN {}
     ELSE UNION {ThenDo([g EXCEPT !.pool[j.service].hosts = IF adding THEN @ \cup c ELSE @ \ c], j,
                        IF c = hosts THEN <<>> ELSE <<Call(op, hosts \ c)>>) : c \in some}

CountHosts(g, j) ==
  IF Has(g.pool, j.service) /\ Cardinality(g.pool[j.service].hosts) = Cardinality(j.hosts)
  THEN Then(g, j) ELSE {}

\* createForwardingRule; a rule that is there is kept, and the address can go.
CreateExternalRule(g, j) ==
  LET s == j.service
      rule == [scheme |-> "external", ip |-> j.ip, port |-> j.spec.port, tier |-> NetTier(j.spec),
               subnet |-> "", target |-> <<"pool", s>>]
      done == [j EXCEPT !.release = ~j.owned]
  IN IF Has(g.rule, s) THEN Then(g, done)
     ELSE IF ~RuleCreatable(g, s, rule) THEN {}
     ELSE Then([g EXCEPT !.rule = Put(@, s, rule)], done)

\* ensureExternalLoadBalancerDeleted: three goroutines; the first two make one
\* call each.
EnsureExternalLoadBalancerDeleted(g, j) ==
  LET s == j.service
      hs == IF ~j.spec.local THEN <<s, NodesCheck>> ELSE IF Has(g.check, s) THEN <<s>> ELSE <<>>
  IN IF j.spec.elsewhere THEN [todo |-> <<>>, also |-> {}]
     ELSE [todo |-> <<Call("deleteRule", "")>> \o DeletePoolAndChecks(hs),
           also |-> {Call("deleteFirewall", "traffic"), Call("deleteAddress", "")}]

\* updateExternalLoadBalancer
UpdateExternalLoadBalancer(j) == IF j.spec.elsewhere THEN <<>> ELSE <<Call("poolHosts", "")>>

\* Mutant: the address may be released although the rule is gone.
ReplacesUnsafely(g, j) == Then([g EXCEPT !.rule = Del(@, j.service)], j)

\* The critical section of ensureExternalLoadBalancer: until the rule is made
\* again the address is not released.
ReplaceRule(g, j) == Then([g EXCEPT !.rule = Del(@, j.service)], [j EXCEPT !.release = FALSE])

ExternalCall(g, j, c) ==
  CASE c.op \in {"tierRule", "deleteRule"} -> DeleteForwardingRule(g, j)
    [] c.op = "replaceRule" -> ReplaceRule(g, j)
    [] c.op \in {"tierAddress", "deleteAddress", "release"} -> DeleteRegionAddress(g, j)
    [] c.op = "external" -> PlanExternal(g, j)
    [] c.op = "staticIP" -> EnsureStaticIP(g, j, c.arg)
    [] c.op = "firewall" -> EnsureFirewall(g, j)
    [] c.op = "deleteFirewall" -> DeleteFirewall(g, j, <<c.arg, j.service>>)
    [] c.op = "deletePool" -> DeleteTargetPool(g, j)
    [] c.op = "deleteCheck" -> DeleteCheck(g, j, c.arg)
    [] c.op = "deleteCheckFirewall" -> DeleteFirewall(g, j, <<"check", c.arg>>)
    [] c.op = "checkFirewall" -> EnsureCheckFirewall(g, j, c.arg)
    [] c.op = "check" -> EnsureCheck(g, j, c.arg)
    [] c.op = "createPool" -> CreatePool(g, j, c.arg)
    [] c.op = "poolHosts" -> UpdateTargetPool(g, j)
    [] c.op = "addHosts" -> ChangeHosts(g, j, c.arg, TRUE)
    [] c.op = "removeHosts" -> ChangeHosts(g, j, c.arg, FALSE)
    [] c.op = "countHosts" -> CountHosts(g, j)
    [] c.op = "createRule" -> CreateExternalRule(g, j)
=============================================================================
