---------------------------- MODULE LoadBalancer ----------------------------
(***************************************************************************)
(* The load balancer interface of the cloud provider, called by the service *)
(* controller.  The service controller is external: it syncs a service when *)
(* it changes and again after an error, one sync of a service at a time,    *)
(* and when the nodes change it calls UpdateLoadBalancer, which may overlap *)
(* with a sync.  Any call may fail, before or after it took effect.         *)
(***************************************************************************)
EXTENDS ExternalLB, InternalLB

CONSTANTS
  LbScenes,       \* [first, specs: the specs services may be given, nodes, later, legacy, faults: calls that fail]
  LbMaxChanges    \* changes users make

NodeSync == "node sync"
Workers == Services \cup {NodeSync}

VARIABLES
  lbScene,
  svc,       \* service -> [exists, deleting, spec, finalizer, status, moved, portsError]
  nodes,     \* the nodes the node lister has
  gce,       \* the resources
  job,       \* worker -> the call of the interface it is making
  lock,      \* sharedResourceLock: the worker that holds it, or ""
  pending,   \* services to sync
  unsynced,  \* services whose hosts are to be updated
  metrics,   \* l4ILBServiceMap: service -> [InSuccess, EnabledCustomSubnet]
  lbSpent    \* [changes, faults, overlap: syncs and node syncs, rough: a call refused, or a
             \* service deleted before its last change was synced]: history

lbVars == <<lbScene, svc, nodes, gce, job, lock, pending, unsynced, metrics, lbSpent>>

NoService == [exists |-> FALSE, deleting |-> FALSE, spec |-> NoSpec, finalizer |-> FALSE,
              status |-> NoIP, moved |-> FALSE, portsError |-> FALSE]

LbInit ==
  /\ lbScene \in LbScenes
  /\ svc = [s \in Services |-> IF s \in lbScene.legacy
                                THEN [NoService EXCEPT !.exists = TRUE, !.spec = CHOOSE v \in lbScene.first[s] : TRUE]
                                ELSE NoService]
  /\ nodes = lbScene.nodes
  /\ gce = [NoResources EXCEPT !.firewall = [f \in {"legacy"} \X lbScene.legacy |-> [ip |-> NoIP, port |-> 1]]]
  /\ job = [w \in Workers |-> NoJob]
  /\ lock = ""
  /\ pending = lbScene.legacy /\ unsynced = {} /\ metrics = <<>>
  /\ lbSpent = [changes |-> 0, faults |-> 0, overlap |-> FALSE, rough |-> FALSE]

Idle(w) == job[w] = NoJob
Finished(w) == job[w].kind # "idle" /\ job[w].todo = <<>> /\ job[w].also = {}

-----------------------------------------------------------------------------
(* Users. *)

UserChanges(s, v, rough) ==
  /\ lbSpent.changes < LbMaxChanges
  /\ lbSpent' = [lbSpent EXCEPT !.changes = @ + 1, !.rough = @ \/ rough]
  /\ svc' = [svc EXCEPT ![s] = v]
  /\ pending' = pending \cup {s}
  /\ UNCHANGED <<lbScene, nodes, gce, job, lock, unsynced, metrics>>

CreateService(s) ==
  /\ ~svc[s].exists
  /\ \E spec \in lbScene.first[s] : UserChanges(s, [NoService EXCEPT !.exists = TRUE, !.spec = spec], FALSE)

\* A change of address, tier, scheme or subnet moves the service.
ChangeService(s) ==
  /\ svc[s].exists /\ ~svc[s].deleting
  /\ \E spec \in lbScene.specs[s] \ {svc[s].spec} :
       UserChanges(s, [svc[s] EXCEPT !.spec = spec,
         !.moved = @ \/ \E f \in {"ip", "tier", "scheme", "subnet"} : spec[f] # svc[s].spec[f]], FALSE)

DeleteService(s) ==
  /\ svc[s].exists /\ ~svc[s].deleting
  /\ UserChanges(s, IF svc[s].finalizer \/ s \in gce.finalizer
                    THEN [svc[s] EXCEPT !.deleting = TRUE] ELSE NoService,
                 s \in pending \/ ~Idle(s))

ChangeNodes ==
  /\ nodes # lbScene.later
  /\ nodes' = lbScene.later
  /\ unsynced' = {s \in Services : svc[s].exists}
  /\ UNCHANGED <<lbScene, svc, gce, job, lock, pending, lbSpent, metrics>>

-----------------------------------------------------------------------------
(* The interface. *)

\* GetLoadBalancer: whether there is something to delete.
GetLoadBalancer(s) == Has(gce.rule, s) \/ s \in gce.finalizer

\* checkMixedProtocol: such a service is told so, in its condition LoadBalancerPortsError.
CheckMixedProtocol(s) == [svc[s] EXCEPT !.portsError = @ \/ svc[s].spec.mixed]

\* EnsureLoadBalancer: a load balancer of the other scheme is deleted first.
EnsureLoadBalancer(j) ==
  LET s == j.service
      rest == <<Call("ensure", "")>>
      deleted == EnsureExternalLoadBalancerDeleted(gce, j)
  IN IF j.spec.mixed THEN [j EXCEPT !.err = TRUE]
     ELSE IF ~Has(gce.rule, s) \/ gce.rule[s].scheme = j.spec.scheme THEN [j EXCEPT !.todo = rest]
     ELSE IF gce.rule[s].scheme = "internal"
     THEN [j EXCEPT !.todo = EnsureInternalLoadBalancerDeleted(j) \o rest]
     ELSE [j EXCEPT !.todo = deleted.todo \o rest, !.also = deleted.also]

\* UpdateLoadBalancer
UpdateLoadBalancer(j) ==
  [j EXCEPT !.todo = IF j.spec.scheme = "internal" THEN UpdateInternalLoadBalancer(gce, j)
                     ELSE UpdateExternalLoadBalancer(j)]

\* EnsureLoadBalancerDeleted
EnsureLoadBalancerDeleted(j) ==
  LET deleted == EnsureExternalLoadBalancerDeleted(gce, j)
  IN IF j.spec.scheme = "internal" THEN [j EXCEPT !.todo = EnsureInternalLoadBalancerDeleted(j)]
     ELSE [j EXCEPT !.todo = deleted.todo, !.also = deleted.also]

InternalOps ==
  {"addFinalizer", "removeFinalizer", "groups", "createGroup", "addToGroup", "removeFromGroup", "deleteGroup",
   "internal", "health", "hold", "internalRule", "forgetAddress", "backend", "backendGroups",
   "legacyFirewall", "healthFirewall", "deleteBackend", "oldBackend", "deleteHealth", "oldHealth",
   "deleteHealthFirewall", "oldHealthFirewall"}

\* What the next call of a job may lead to.
Outcomes(j, c) ==
  CASE c.op = "ensure" -> IF j.spec.scheme = "internal" THEN EnsureInternalLoadBalancer(gce, j)
                          ELSE EnsureExternalLoadBalancer(gce, j)
    [] c.op \in InternalOps -> InternalCall(gce, j, c)
    [] c.op \in {"createRule", "firewall"} /\ j.spec.scheme = "internal" -> InternalCall(gce, j, c)
    [] OTHER -> ExternalCall(gce, j, c)

\* Calls whose errors are only logged; some make the next call pointless.
Soft == {"tierRule", "tierAddress", "release", "forgetAddress", "legacyFirewall",
         "oldBackend", "oldHealth", "oldHealthFirewall"}

\* The job after an error of its next call.
AfterError(j) ==
  LET op == Head(j.todo).op
      pair == Len(j.todo) > 1 /\ <<op, j.todo[2].op>> \in
                {<<"tierRule", "tierAddress">>, <<"oldHealth", "oldHealthFirewall">>}
  IN CASE op \in Soft /\ pair -> After(j, 2)
       [] op \in Soft /\ ~pair -> After(j, 1)
       [] op = "replaceRule" -> Failed([j EXCEPT !.release = FALSE])
       [] OTHER -> Failed(j)

\* sharedResourceLock is held from the first to the last of the calls that need it.
LockAfter(w, j) ==
  IF Head(job[w].todo).locked /\ j.todo # <<>> /\ Head(j.todo).locked THEN w
  ELSE IF lock = w THEN "" ELSE lock

\* SetL4ILBService, with the state ensureInternalLoadBalancer ends in.
SetL4ILBService(j) ==
  Put(metrics, j.service, [InSuccess |-> ~j.err, EnabledCustomSubnet |-> ~j.err /\ j.spec.subnet # ""])

\* Mutant: the state of a service stays when its load balancer is deleted.
StaysForgotten(s) == metrics

DeleteL4ILBService(s) == Del(metrics, s)

\* ensureInternalLoadBalancer defers SetL4ILBService once it knows the service is
\* its own; the deletion of the load balancer ends with DeleteL4ILBService.
MetricsAfter(w, j, ok) ==
  LET before == job[w]
      deferred == /\ before.kind = "ensure" /\ before.spec.scheme = "internal"
                  /\ \A i \in DOMAIN before.todo : before.todo[i].op # "ensure"
  IN IF deferred /\ j.todo = <<>> THEN SetL4ILBService(j)
     ELSE IF ok /\ Head(before.todo).op = "removeFinalizer" THEN DeleteL4ILBService(before.service)
     ELSE metrics

\* computeL4ILBMetrics: other features of a service in error are not counted.
ComputeL4ILBMetrics ==
  LET count(P(_)) == Cardinality({s \in DOMAIN metrics : P(metrics[s])})
  IN [L4ILBService |-> Cardinality(DOMAIN metrics),
      L4ILBInError |-> count(LAMBDA m : ~m.InSuccess),
      L4ILBInSuccess |-> count(LAMBDA m : m.InSuccess),
      L4ILBCustomSubnet |-> count(LAMBDA m : m.InSuccess /\ m.EnabledCustomSubnet)]

CanCall(w) ==
  /\ job[w].todo # <<>>
  /\ Head(job[w].todo).locked => lock \in {"", w}
  /\ Head(job[w].todo).op = "ensure" => job[w].also = {}

Goes(w, j, ok) ==
  /\ job' = [job EXCEPT ![w] = j]
  /\ metrics' = MetricsAfter(w, j, ok)
  /\ lock' = LockAfter(w, j)
  /\ UNCHANGED <<lbScene, svc, nodes, pending, unsynced>>

CallReturns(w) ==
  /\ CanCall(w)
  /\ Head(job[w].todo).op = "ensure" => ~job[w].err
  /\ \E o \in Outcomes(job[w], Head(job[w].todo)) : gce' = o.g /\ Goes(w, o.j, TRUE)
  /\ UNCHANGED lbSpent

CallRefused(w) ==
  /\ CanCall(w)
  /\ Outcomes(job[w], Head(job[w].todo)) = {} \/ (Head(job[w].todo).op = "ensure" /\ job[w].err)
  /\ Goes(w, AfterError(job[w]), FALSE)
  /\ lbSpent' = [lbSpent EXCEPT !.rough = TRUE]
  /\ UNCHANGED gce

Fault == /\ lbSpent.faults < lbScene.faults
         /\ lbSpent' = [lbSpent EXCEPT !.faults = @ + 1]

CallFails(w) ==
  /\ CanCall(w) /\ Fault
  /\ \/ gce' = gce
     \/ \E o \in Outcomes(job[w], Head(job[w].todo)) : gce' = o.g
  /\ Goes(w, AfterError(job[w]), FALSE)

\* The other goroutines of a deletion; all of them are waited for.
GoroutineCalls(w) ==
  \E c \in job[w].also :
    LET j == [job[w] EXCEPT !.also = @ \ {c}]
        done == {o.g : o \in ExternalCall(gce, j, c)}
    IN /\ \/ gce' \in done /\ job' = [job EXCEPT ![w] = j] /\ UNCHANGED lbSpent
          \/ Fault /\ gce' \in done \cup {gce} /\ job' = [job EXCEPT ![w] = [j EXCEPT !.err = TRUE]]
       /\ UNCHANGED <<lbScene, svc, nodes, lock, pending, unsynced, metrics>>

-----------------------------------------------------------------------------
(* The service controller. *)

NewJob(kind, s) == [NoJob EXCEPT !.kind = kind, !.service = s, !.spec = svc[s].spec, !.hosts = nodes]

\* What remains of a service when the service controller is done with it.
Cleaned(s) == IF s \in gce.finalizer THEN [svc[s] EXCEPT !.finalizer = FALSE, !.status = NoIP]
              ELSE NoService

\* syncLoadBalancerIfNeeded
SyncEnsure(s) ==
  /\ s \in pending /\ Idle(s) /\ svc[s].exists /\ ~svc[s].deleting
  /\ svc' = [svc EXCEPT ![s] = [CheckMixedProtocol(s) EXCEPT !.finalizer = TRUE]]
  /\ job' = [job EXCEPT ![s] = EnsureLoadBalancer(NewJob("ensure", s))]
  /\ lbSpent' = [lbSpent EXCEPT !.overlap = @ \/ ~Idle(NodeSync)]
  /\ pending' = pending \ {s}
  /\ unsynced' = unsynced \ {s}
  /\ UNCHANGED <<lbScene, nodes, gce, lock, metrics>>

SyncDelete(s) ==
  /\ s \in pending /\ Idle(s) /\ svc[s].deleting /\ svc[s].finalizer
  /\ IF GetLoadBalancer(s)
     THEN job' = [job EXCEPT ![s] = EnsureLoadBalancerDeleted(NewJob("delete", s))] /\ UNCHANGED svc
     ELSE svc' = [svc EXCEPT ![s] = Cleaned(s)] /\ UNCHANGED job
  /\ pending' = pending \ {s}
  /\ UNCHANGED <<lbScene, nodes, gce, lock, unsynced, lbSpent, metrics>>

\* A service that is gone, or that the service controller has no finalizer on.
SyncNothing(s) ==
  /\ s \in pending /\ Idle(s)
  /\ ~svc[s].exists \/ (svc[s].deleting /\ ~svc[s].finalizer)
  /\ pending' = pending \ {s}
  /\ UNCHANGED <<lbScene, svc, nodes, gce, job, lock, unsynced, lbSpent, metrics>>

SyncDone(s) ==
  /\ Finished(s)
  /\ IF job[s].err THEN pending' = pending \cup {s} /\ UNCHANGED svc
     ELSE /\ UNCHANGED pending
          /\ svc' = [svc EXCEPT ![s] =
               IF job[s].kind = "delete" THEN Cleaned(s)
               ELSE [@ EXCEPT !.status = IF job[s].ip = NoIP THEN @ ELSE job[s].ip, !.moved = @ /\ job[s].spec # svc[s].spec]]
  /\ job' = [job EXCEPT ![s] = NoJob]
  /\ UNCHANGED <<lbScene, nodes, gce, lock, unsynced, lbSpent, metrics>>

\* nodeSyncService; an error sends the service back to be synced.
NodeSyncService(s) ==
  /\ Idle(NodeSync) /\ s \in unsynced
  /\ unsynced' = unsynced \ {s}
  /\ job' = [job EXCEPT ![NodeSync] = UpdateLoadBalancer(NewJob("update", s))]
  /\ svc' = [svc EXCEPT ![s] = CheckMixedProtocol(s)]
  /\ lbSpent' = [lbSpent EXCEPT !.overlap = @ \/ \E t \in Services : ~Idle(t)]
  /\ UNCHANGED <<lbScene, nodes, gce, lock, pending, metrics>>

NodeSyncDone ==
  /\ Finished(NodeSync)
  /\ pending' = IF job[NodeSync].err /\ GetLoadBalancer(job[NodeSync].service)
                THEN pending \cup {job[NodeSync].service} ELSE pending
  /\ job' = [job EXCEPT ![NodeSync] = NoJob]
  /\ UNCHANGED <<lbScene, svc, nodes, gce, lock, unsynced, lbSpent, metrics>>

LbNext ==
  \/ \E s \in Services : \/ CreateService(s) \/ ChangeService(s) \/ DeleteService(s)
                         \/ SyncEnsure(s) \/ SyncDelete(s) \/ SyncNothing(s) \/ SyncDone(s)
                         \/ NodeSyncService(s)
  \/ \E w \in Workers : CallReturns(w) \/ CallRefused(w) \/ CallFails(w) \/ GoroutineCalls(w)
  \/ ChangeNodes \/ NodeSyncDone

LbSpec == LbInit /\ [][LbNext]_lbVars

-----------------------------------------------------------------------------
(* Properties. *)

\* The lock has one holder, who has calls to make that need it, and the
\* services, jobs and resources are of their types.
LbTypeOK ==
  /\ lock \in Workers \cup {""}
  /\ \A w \in Workers : /\ job[w].kind \in {"idle", "ensure", "delete", "update"}
                        /\ lock = w => job[w].todo # <<>> /\ Head(job[w].todo).locked
  /\ pending \subseteq Services /\ unsynced \subseteq Services
  /\ \A s \in Services : svc[s].spec.scheme \in {"internal", "external"}
  /\ DOMAIN gce.rule \subseteq Services /\ DOMAIN gce.pool \subseteq Services

Quiet == pending = {} /\ unsynced = {} /\ \A w \in Workers : Idle(w)

Wanted(s) == svc[s].exists /\ ~svc[s].deleting /\ ~svc[s].spec.elsewhere

\* Every target pool is checked: its health check exists, and the firewall that
\* lets the check through.  Services delete the nodes check and its firewall
\* while others create them; sharedResourceLock keeps each pair together.
PoolsAreChecked ==
  \A s \in DOMAIN gce.pool : /\ Has(gce.check, gce.pool[s].check)
                             /\ Has(gce.firewall, <<"check", gce.pool[s].check>>)

\* A service that is in sync has the firewall of its health check, even after
\* other services that shared it went away.
BackendsAreChecked ==
  Quiet => \A s \in DOMAIN gce.rule : gce.rule[s].scheme = "internal" =>
             LET h == gce.backend[gce.rule[s].target].check
             IN Has(gce.health, h) /\ Has(gce.firewall, <<"health", h>>)

\* The address a service was told is the address of its rule until the user
\* moves the service, whatever fails while its rule is remade: the static
\* address is kept through the critical section.  (An address users reserved
\* and no longer ask for is not kept this way.)
AddressIsKept ==
  \A s \in Services :
    (/\ svc[s].spec.scheme = "external" /\ ~svc[s].moved
     /\ svc[s].status \notin {NoIP} \cup DOMAIN StaticIPs /\ Has(gce.rule, s))
      => gce.rule[s].ip = svc[s].status

\* "if the forwarding rule exists, the LB has been fully created": a rule has its
\* target pool and its firewall, also while a sync or a node sync is at work.
RuleMeansComplete ==
  \A s \in Services : Wanted(s) /\ ~svc[s].moved /\ Has(gce.rule, s) /\ gce.rule[s].scheme = "external" =>
    Has(gce.pool, s) /\ Has(gce.firewall, <<"traffic", s>>)

\* Where there is a part of a load balancer, what it depends on is there: pools and
\* backends have their checks, checks their firewalls, and rules their pools,
\* while services and node syncs that share them come and go.
LoadBalancersAreWhole == LbTypeOK /\ PoolsAreChecked /\ BackendsAreChecked /\ RuleMeansComplete

\* When everything is in sync a load balancer is what its service asks for.
ExternalConverges ==
  Quiet => \A s \in Services : Wanted(s) /\ svc[s].spec.scheme = "external" =>
    LET spec == svc[s].spec
    IN /\ Has(gce.rule, s) /\ Has(gce.pool, s)
       /\ gce.rule[s].scheme = "external" /\ gce.rule[s].port = spec.port
       /\ spec.ip # NoIP => gce.rule[s].ip = spec.ip
       /\ svc[s].status = gce.rule[s].ip
       /\ gce.pool[s].affinity = spec.affinity
       /\ lbSpent.overlap \/ gce.pool[s].hosts = nodes
       /\ Has(gce.firewall, <<"traffic", s>>)
       /\ gce.firewall[<<"traffic", s>>] = [ip |-> gce.rule[s].ip, port |-> spec.port]

InternalConverges ==
  Quiet => \A s \in Services : Wanted(s) /\ svc[s].spec.scheme = "internal" =>
    LET spec == svc[s].spec
        b == gce.backend[gce.rule[s].target]
    IN /\ Has(gce.rule, s)
       /\ gce.rule[s].scheme = "internal" /\ gce.rule[s].port = spec.port
       /\ gce.rule[s].subnet = spec.subnet
       /\ spec.ip # NoIP => gce.rule[s].ip = spec.ip
       /\ svc[s].status = gce.rule[s].ip
       /\ gce.rule[s].target = BackendName(s, spec)
       /\ b.check = HealthName(s, spec) /\ b.affinity = spec.affinity
       /\ lbSpent.overlap \/ /\ b.groups = {Zone[n] : n \in nodes}
                             /\ \A z \in b.groups : gce.group[z] = {n \in nodes : Zone[n] = z}
       /\ s \in gce.finalizer
       /\ gce.firewall[<<"traffic", s>>] = [ip |-> gce.rule[s].ip, port |-> spec.port]

\* When everything is in sync the load balancers of both schemes are what their
\* services ask for, whatever failed on the way.
LoadBalancersConverge == ExternalConverges /\ InternalConverges

\* What a service leaves behind: anything under its name.
Remains(s) ==
  \/ Has(gce.rule, s) \/ Has(gce.address, s) \/ Has(gce.pool, s) \/ Has(gce.check, s)
  \/ Has(gce.backend, <<"own", s>>) \/ Has(gce.health, s)
  \/ \E f \in DOMAIN gce.firewall : f[2] = s

\* When no call fails, a service that was in sync when it was deleted leaves
\* nothing behind, and the last one to go takes what it shared with others.
NothingIsLeft ==
  Quiet /\ lbSpent.faults = 0 /\ ~lbSpent.rough =>
    /\ \A s \in Services : ~svc[s].exists => ~Remains(s)
    /\ (\A s \in Services : ~svc[s].exists) => gce = NoResources

\* A service that is being deleted goes away: no finalizer keeps it.  (Unless
\* the user changed its scheme and deleted it before the change was synced:
\* then the deletion is that of the new scheme.)
DeletedServicesGo == Quiet => \A s \in Services : svc[s].deleting => svc[s].moved

\* A deleted service goes, and takes with it what was made for it.
DeletionIsComplete == NothingIsLeft /\ DeletedServicesGo

\* When everything is in sync the exported counts are those of the services: each
\* internal load balancer is counted, as a success and with its subnet, also when
\* an earlier sync of it failed, and unless a call failed nothing else is.
MetricsAgree ==
  LET internal == {s \in Services : Wanted(s) /\ svc[s].spec.scheme = "internal"}
      counts == ComputeL4ILBMetrics
  IN Quiet =>
       /\ counts.L4ILBInSuccess >= Cardinality(internal)
       /\ \A s \in internal : Has(metrics, s) /\ metrics[s].EnabledCustomSubnet = (svc[s].spec.subnet # "")
       /\ lbSpent.faults = 0 =>
            /\ counts.L4ILBInError = 0
            /\ counts.L4ILBService = Cardinality(gce.finalizer)

\* "If the loadbalancer type changes between INTERNAL and EXTERNAL, the old load
\* balancer should be deleted": an external service in sync has no backend
\* service and no finalizer of an internal load balancer.
OldSchemeIsDeleted ==
  Quiet => \A s \in Services : Wanted(s) /\ svc[s].spec.scheme = "external" =>
             ~Has(gce.backend, <<"own", s>>) /\ s \notin gce.finalizer

=============================================================================
