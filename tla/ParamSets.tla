------------------------------ MODULE ParamSets ------------------------------
(***************************************************************************)
(* The GKENetworkParamSet controller: it validates parameter sets, tells    *)
(* the Network that refers to one whether its parameters are ready, keeps   *)
(* a finalizer on a set while that Network is in use, and keeps the pod     *)
(* ranges of the "default" set equal to those of the nodes.  The API        *)
(* server, the informers' caches and the cloud are external.  The API       *)
(* server refuses an update of an object that changed since it was read.    *)
(***************************************************************************)
EXTENDS WorkQueue, SequencesExt

CONSTANTS
  ParamNames, NetNames,  \* "default" is a member of both
  NetTypes,              \* [NetNames -> {"L3", "L2", "Device"}]
  Specs,                 \* specs a user may write: [vpc, subnet, ranges, device]
  Subnets,               \* [subnets of the cloud -> their secondary ranges]
  VPCs,
  DefaultSpec,           \* VPC, subnet and pod range of the cluster
  Scenes,                \* the objects there are at the start (gnp, net), and those
                         \* that users change (params, networks, labels)
  GnpMaxRetries,         \* 5 in handleErr
  GnpMaxChanges          \* changes by others, and calls that fail

NoStatus == [ready |-> "unset", podCIDRs |-> {}, network |-> ""]
NoSpec == [vpc |-> "", subnet |-> "", ranges |-> {}, device |-> FALSE]
AbsentGnp == [exists |-> FALSE, rv |-> 0, deleting |-> FALSE, born |-> 0, mode |-> "", spec |-> NoSpec,
              finalizer |-> FALSE, status |-> NoStatus]
AbsentNet == [exists |-> FALSE, rv |-> 0, ref |-> "", paramsReady |-> "unset", inUse |-> FALSE]

VARIABLES
  scene,
  gnp, gnpCache,        \* parameter sets: the API server's and the lister's
  net, netCache,        \* Networks
  label, labelCache,    \* pod range labels of the nodes that exist
  gqueue, gwork,
  gpast,                \* history: sets given up on, and networks always in use
  gspent                \* and the sets whose unreachable cloud left no trace

gnpVars == <<scene, gnp, gnpCache, net, netCache, label, labelCache, gqueue, gwork, gpast, gspent>>

-----------------------------------------------------------------------------
(* Validation.                                                              *)

HasRangeNames(spec) == spec.ranges # {}

GetAndValidateSubnet(spec, reachable) ==
  reachable /\ spec.subnet # "" /\ spec.subnet \in DOMAIN Subnets

\* validateGKENetworkParamSet, in its order; other sets are read from the API
\* server, and of two that clash the one created later is refused.
ValidateGKENetworkParamSet(p, g) ==
  LET s == g.spec
      older(q) == q # p /\ gnp[q].exists /\ gnp[q].born < g.born
  IN CASE s.vpc = "" \/ s.vpc \notin VPCs -> "VPCNotFound"
       [] ~HasRangeNames(s) /\ ~s.device -> "SecondaryRangeAndDeviceModeUnspecified"
       [] HasRangeNames(s) /\ ~s.device /\ ~(s.ranges \subseteq Subnets[s.subnet])
            -> "SecondaryRangeNotFound"
       [] HasRangeNames(s) /\ s.device -> "DeviceModeCantBeUsedWithSecondaryRange"
       [] s.device /\ s.vpc = DefaultSpec.vpc -> "DeviceModeCantUseDefaultVPC"
       [] s.device /\ \E q \in ParamNames : older(q) /\ gnp[q].spec.vpc = s.vpc
            -> "DeviceModeVPCAlreadyInUse"
       [] s.device /\ \E q \in ParamNames : older(q) /\ gnp[q].spec.subnet = s.subnet
            -> "DeviceModeSubnetAlreadyInUse"
       [] OTHER -> "GNPReady"

CrossValidateNetworkAndGnp(w, spec) ==
  CASE NetTypes[w] = "L3" /\ ~HasRangeNames(spec) -> "L3SecondaryMissing"
    [] NetTypes[w] = "Device" /\ ~spec.device -> "DeviceModeMissing"
    [] OTHER -> "GNPParamsReady"

\* extractRelevantCidrs: a range stands for its CIDR, a subnet for its own.
ExtractRelevantCidrs(spec) ==
  IF HasRangeNames(spec) THEN Subnets[spec.subnet] \cap spec.ranges ELSE {spec.subnet}

-----------------------------------------------------------------------------
GnpIdle == [pc |-> "idle", orig |-> AbsentGnp, copy |-> AbsentGnp, net |-> "",
            seen |-> AbsentNet, verdict |-> "", err |-> FALSE]

GnpInit ==
  /\ scene \in Scenes
  /\ gnp = scene.gnp /\ gnpCache = gnp
  /\ net = scene.net /\ netCache = net
  /\ label = {} /\ labelCache = {}
  /\ gqueue = QueueAdd(EmptyQueue(ParamNames), {p \in ParamNames : gnp[p].exists})
  /\ gwork = [p \in ParamNames |-> GnpIdle]
  /\ gpast = [dropped |-> {}, held |-> {}]
  /\ gspent = [changes |-> 0, unheard |-> {}]

GSpend == gspent.changes < GnpMaxChanges /\ gspent' = [gspent EXCEPT !.changes = @ + 1]

\* A write that changes an object gives it a version that nobody has seen: the
\* least one that no cache and no worker holds, since only equality matters.
Versioned(old, new, held) ==
  IF [new EXCEPT !.rv = old.rv] = old THEN old
  ELSE [new EXCEPT !.rv = CHOOSE n \in 0..Cardinality(held) : n \notin held]
WriteGnp(p, v) == [gnp EXCEPT ![p] = Versioned(@, v, {@.rv, gnpCache[p].rv, gwork[p].orig.rv})]
WriteNet(w, v) ==
  [net EXCEPT ![w] = Versioned(@, v, {@.rv, netCache[w].rv} \cup {gwork[p].seen.rv : p \in ParamNames})]

\* Whether the Network a deleted set names refers to it and is in use.
InUseFor(p, g, networks) ==
  /\ g.exists /\ g.deleting /\ g.status.network # ""
  /\ LET w == networks[g.status.network] IN w.exists /\ w.ref = p /\ w.inUse

\* held: the sets for which this has been so ever since they were deleted.
HeldAfter(g, networks) ==
  {p \in gpast.held : InUseFor(p, g[p], networks)}
    \cup {p \in ParamNames : ~gnp[p].deleting /\ InUseFor(p, g[p], networks)}

-----------------------------------------------------------------------------
(* Users, other controllers and nodes.                                      *)

UserWritesGnp(p, v) ==
  /\ GSpend
  /\ gnp' = WriteGnp(p, v)
  /\ gpast' = [gpast EXCEPT !.held = HeldAfter([gnp EXCEPT ![p] = v], net)]
  /\ UNCHANGED <<scene, gnpCache, net, netCache, label, labelCache, gqueue, gwork>>

CreateGnp(p) ==
  \E s \in Specs :
    /\ ~gnp[p].exists
    /\ UserWritesGnp(p, [AbsentGnp EXCEPT !.exists = TRUE, !.spec = s, !.born = gspent.changes + 2])

EditGnp(p) ==
  \E s \in Specs :
    /\ gnp[p].exists /\ s # gnp[p].spec
    /\ UserWritesGnp(p, [gnp[p] EXCEPT !.spec = s])

DeleteGnp(p) ==
  /\ gnp[p].exists /\ ~gnp[p].deleting
  /\ UserWritesGnp(p, IF gnp[p].finalizer THEN [gnp[p] EXCEPT !.deleting = TRUE] ELSE AbsentGnp)

UserWritesNet(w, v) ==
  /\ GSpend
  /\ net' = WriteNet(w, v)
  /\ gpast' = [gpast EXCEPT !.held = HeldAfter(gnp, [net EXCEPT ![w] = v])]
  /\ UNCHANGED <<scene, gnp, gnpCache, netCache, label, labelCache, gqueue, gwork>>

\* The sets a Network may be made to refer to.
Refs == scene.params \cup {p \in ParamNames : gnp[p].exists}

CreateNet(w) ==
  /\ ~net[w].exists
  /\ \E p \in Refs : UserWritesNet(w, [AbsentNet EXCEPT !.exists = TRUE, !.ref = p])

\* The reference goes to another set, or to none of this kind.
EditNetRef(w) ==
  /\ net[w].exists
  /\ \E p \in (Refs \cup {""}) \ {net[w].ref} : UserWritesNet(w, [net[w] EXCEPT !.ref = p])

UseNet(w) == net[w].exists /\ UserWritesNet(w, [net[w] EXCEPT !.inUse = ~@])

DeleteNet(w) == net[w].exists /\ UserWritesNet(w, AbsentNet)

NodesChange ==
  \E labels \in SUBSET scene.labels :
    /\ labels # label
    /\ GSpend
    /\ label' = labels
    /\ UNCHANGED <<scene, gnp, gnpCache, net, netCache, labelCache, gqueue, gwork, gpast>>

-----------------------------------------------------------------------------
(* The informers.                                                           *)

InformGnp(p) ==
  /\ gnpCache[p] # gnp[p]
  /\ gnpCache' = [gnpCache EXCEPT ![p] = gnp[p]]
  /\ gqueue' = QueueAdd(gqueue, {p})
  /\ UNCHANGED <<scene, gnp, net, netCache, label, labelCache, gwork, gpast, gspent>>

\* Both the set a Network refers to and the one it referred to before.
NetworkKeys(old, new) == {old.ref, new.ref} \ {""}

InformNet(w) ==
  /\ netCache[w] # net[w]
  /\ netCache' = [netCache EXCEPT ![w] = net[w]]
  /\ gqueue' = QueueAdd(gqueue, NetworkKeys(netCache[w], net[w]))
  /\ UNCHANGED <<scene, gnp, gnpCache, net, label, labelCache, gwork, gpast, gspent>>

\* A new node counts when the default set is known, has ranges, and lacks the
\* node's; a deleted one always does.
NodeKeys(added, removed) ==
  IF \/ removed # {}
     \/ /\ gnpCache["default"].exists /\ HasRangeNames(gnpCache["default"].spec)
        /\ ~(added \subseteq gnpCache["default"].spec.ranges)
  THEN {"default"} ELSE {}

InformNodes ==
  /\ labelCache # label
  /\ labelCache' = label
  /\ gqueue' = QueueAdd(gqueue, NodeKeys(label \ labelCache, labelCache \ label))
  /\ UNCHANGED <<scene, gnp, gnpCache, net, netCache, label, gwork, gpast, gspent>>

-----------------------------------------------------------------------------
(* reconcile.                                                               *)

\* getNetworkReferringToGNP: one of the cached Networks that refer to p.
Referring(p) == {w \in NetNames : netCache[w].exists /\ netCache[w].ref = p}

GnpTake(p) ==
  /\ p \in QueueReady(gqueue)
  /\ gqueue' = QueueGet(gqueue, p)
  /\ gwork' = [gwork EXCEPT ![p] = [GnpIdle EXCEPT !.pc = "reconcile",
                                      !.orig = gnpCache[p], !.copy = gnpCache[p]]]
  /\ UNCHANGED <<scene, gnp, gnpCache, net, netCache, label, labelCache, gpast, gspent>>

\* dropped: the sets whose last reconcile failed and is not tried again.
Dropped(p, failed) ==
  IF failed /\ GivesUp(gqueue, p, GnpMaxRetries) THEN gpast.dropped \cup {p}
  ELSE gpast.dropped \ {p}

\* reconcile returns, and the key is retried or not.
GnpFinish(p, failed) ==
  /\ gwork' = [gwork EXCEPT ![p] = GnpIdle]
  /\ gqueue' = HandleErr(gqueue, p, failed, GnpMaxRetries)
  /\ gpast' = [gpast EXCEPT !.dropped = Dropped(p, failed)]

GnpGoto(p, w) == gwork' = [gwork EXCEPT ![p] = w] /\ UNCHANGED <<gqueue, gpast>>

\* After syncGNP and the mark on the Network: which updates the set needs.
Save(p, w) ==
  CASE w.copy.status # w.orig.status -> GnpGoto(p, [w EXCEPT !.pc = "status", !.net = "", !.seen = AbsentNet])
    [] w.copy.status = w.orig.status /\ w.copy # w.orig ->
         GnpGoto(p, [w EXCEPT !.pc = "update", !.net = "", !.seen = AbsentNet])
    [] OTHER -> GnpFinish(p, w.err)

\* After syncGNP: the default set's ranges changed, and its Network is marked.
\* The error of syncGNP is replaced by that of the mark.
MarkRanges(p, w) ==
  IF p # "default" \/ w.copy.spec.ranges = w.orig.spec.ranges THEN Save(p, w)
  ELSE \/ Referring(p) = {} /\ Save(p, [w EXCEPT !.err = TRUE])
       \/ \E m \in Referring(p) : GnpGoto(p, [w EXCEPT !.pc = "mark", !.net = m, !.seen = netCache[m]])

\* populateDesiredDefaultParamSet
Populate(p, g) ==
  IF p = "default" /\ g.mode # "Reconcile" THEN [g EXCEPT !.spec = DefaultSpec, !.mode = "EnsureExists"]
  ELSE g

\* syncPodRanges
SyncPodRanges(p, g) ==
  IF p = "default" /\ g.mode = "EnsureExists" THEN [g EXCEPT !.spec.ranges = @ \cup labelCache] ELSE g

\* syncGNP of a set that is not deleted, up to the update of its Network.
SyncGNP(p, w, reachable) ==
  LET g == [w.copy EXCEPT !.finalizer = TRUE]
      verdict == IF GetAndValidateSubnet(g.spec, reachable)
                 THEN ValidateGKENetworkParamSet(p, g) ELSE "SubnetNotFound"
      valid == SyncPodRanges(p, [g EXCEPT !.status.ready = verdict])
      full == [valid EXCEPT !.status.podCIDRs = ExtractRelevantCidrs(valid.spec)]
  IN IF verdict # "GNPReady"
     THEN MarkRanges(p, [w EXCEPT !.copy = [g EXCEPT !.status.ready = verdict]])
     ELSE \/ Referring(p) = {} /\ MarkRanges(p, [w EXCEPT !.copy = full])
          \/ \E m \in Referring(p) :
               LET cross == CrossValidateNetworkAndGnp(m, full.spec)
                   named == IF cross = "GNPParamsReady" THEN [full EXCEPT !.status.network = m] ELSE full
               IN IF cross = netCache[m].paramsReady
                  THEN MarkRanges(p, [w EXCEPT !.copy = named])
                  ELSE GnpGoto(p, [w EXCEPT !.pc = "network", !.copy = full, !.net = m,
                                            !.seen = netCache[m], !.verdict = cross])

\* Mutant: a deleted set is released at once.
ReleasedByAnyone(p, g) == TRUE

\* handleGNPDelete reads the Network from the API server.
ReleasedBy(p, g) ==
  \/ g.status.network = ""
  \/ LET w == net[g.status.network] IN ~w.exists \/ w.ref # p \/ ~w.inUse

HandleGNPDelete(p, w) ==
  MarkRanges(p, [w EXCEPT !.copy = IF ReleasedBy(p, w.orig) THEN [@ EXCEPT !.finalizer = FALSE] ELSE @])

\* cleanupGNPDeletion
CleanupGNPDeletion(p, w) ==
  \/ Referring(p) = {} /\ GnpFinish(p, FALSE)
  \/ \E m \in Referring(p) : GnpGoto(p, [w EXCEPT !.pc = "cleanup", !.net = m, !.seen = netCache[m]])

\* reconcile with the answers of the cloud, or without them.
Reconcile(p, reachable) ==
  LET w == gwork[p]
      populated == [w EXCEPT !.copy = Populate(p, w.copy)]
  IN CASE ~w.orig.exists -> CleanupGNPDeletion(p, w)
       [] w.orig.exists /\ p = "default" /\ w.orig.mode # "Reconcile" /\ ~reachable -> GnpFinish(p, TRUE)
       [] w.orig.exists /\ w.orig.deleting -> HandleGNPDelete(p, populated)
       [] OTHER -> SyncGNP(p, populated, reachable)

ReconcileStep(p) ==
  /\ gwork[p].pc = "reconcile"
  /\ \/ Reconcile(p, TRUE) /\ UNCHANGED gspent
     \/ /\ gwork[p].orig.exists /\ Reconcile(p, FALSE)
        /\ gspent.changes < GnpMaxChanges
        /\ gspent' = [gspent EXCEPT !.changes = @ + 1,
                        !.unheard = IF gwork[p].orig.status.ready = "SubnetNotFound"
                                    THEN @ \cup {p} ELSE @]
  /\ UNCHANGED <<scene, gnp, gnpCache, net, netCache, label, labelCache>>

\* UpdateStatus of the Network that was read as seen; refused when it changed.
WriteParamsReady(p, value, ok, failed) ==
  LET w == gwork[p]
  IN /\ \/ net[w.net] = w.seen /\ ok
           /\ net' = WriteNet(w.net, [w.seen EXCEPT !.paramsReady = value])
           /\ UNCHANGED gspent
        \/ net[w.net] # w.seen /\ UNCHANGED <<net, gspent>> /\ failed
        \/ GSpend /\ UNCHANGED net /\ failed
     /\ UNCHANGED <<scene, gnp, gnpCache, netCache, label, labelCache>>

\* syncNetworkWithGNP
SyncNetworkWithGNP(p) ==
  LET w == gwork[p]
      valid == w.verdict = "GNPParamsReady"
  IN /\ w.pc = "network"
     /\ WriteParamsReady(p, w.verdict,
          MarkRanges(p, IF valid THEN [w EXCEPT !.copy.status.network = w.net, !.verdict = ""]
                        ELSE [w EXCEPT !.verdict = ""]),
          MarkRanges(p, [w EXCEPT !.err = TRUE, !.verdict = ""]))

\* updateNetworkConditionForPodRanges
UpdateNetworkConditionForPodRanges(p) ==
  /\ gwork[p].pc = "mark"
  /\ WriteParamsReady(p, "GNPParamsNotReady", Save(p, [gwork[p] EXCEPT !.err = FALSE]),
                      Save(p, [gwork[p] EXCEPT !.err = TRUE]))

\* Mutant: nothing is said to the Network of a set that is gone.
CleanupSilent(p) ==
  /\ gwork[p].pc = "cleanup"
  /\ GnpFinish(p, FALSE)
  /\ UNCHANGED <<scene, gnp, gnpCache, net, netCache, label, labelCache, gspent>>

Cleanup(p) ==
  /\ gwork[p].pc = "cleanup"
  /\ WriteParamsReady(p, "GNPDeleted", GnpFinish(p, FALSE), GnpFinish(p, TRUE))

\* updateGKENetworkParamSetStatus; the update that follows carries the version
\* from before it.
UpdateStatus(p) ==
  LET w == gwork[p]
  IN /\ w.pc = "status"
     /\ \/ /\ gnp[p] = w.orig /\ UNCHANGED gspent
           /\ gnp' = WriteGnp(p, [w.orig EXCEPT !.status = w.copy.status])
           /\ GnpGoto(p, [w EXCEPT !.pc = "update"])
        \/ /\ UNCHANGED gnp /\ GnpGoto(p, [w EXCEPT !.pc = "update", !.err = TRUE])
           /\ IF gnp[p] = w.orig THEN GSpend ELSE UNCHANGED gspent
     /\ UNCHANGED <<scene, gnpCache, net, netCache, label, labelCache>>

\* What an accepted update leaves: a deleted set without finalizer is gone.
Updated(now, copy) ==
  IF now.deleting /\ ~copy.finalizer THEN AbsentGnp
  ELSE [now EXCEPT !.spec = copy.spec, !.mode = copy.mode, !.finalizer = copy.finalizer]

\* updateGKENetworkParamSet
UpdateGnp(p) ==
  LET w == gwork[p]
      g == WriteGnp(p, Updated(gnp[p], w.copy))
  IN /\ w.pc = "update"
     /\ \/ /\ gnp[p] = w.orig /\ UNCHANGED gspent
           /\ gnp' = g
           /\ gwork' = [gwork EXCEPT ![p] = GnpIdle]
           /\ gqueue' = HandleErr(gqueue, p, w.err, GnpMaxRetries)
           /\ gpast' = [gpast EXCEPT !.held = HeldAfter(g, net),
                          !.dropped = Dropped(p, w.err)]
        \/ /\ UNCHANGED gnp /\ GnpFinish(p, TRUE)
           /\ IF gnp[p] = w.orig THEN GSpend ELSE UNCHANGED gspent
     /\ UNCHANGED <<scene, gnpCache, net, netCache, label, labelCache>>

GnpDelayOver(p) ==
  /\ p \in gqueue.delayed
  /\ gqueue' = QueueDelayOver(gqueue, p)
  /\ UNCHANGED <<scene, gnp, gnpCache, net, netCache, label, labelCache, gwork, gpast, gspent>>

-----------------------------------------------------------------------------
GnpNext ==
  \/ \E p \in scene.params : CreateGnp(p) \/ EditGnp(p) \/ DeleteGnp(p)
  \/ \E w \in scene.networks : CreateNet(w) \/ EditNetRef(w) \/ UseNet(w) \/ DeleteNet(w)
  \/ \E p \in ParamNames :
       \/ InformGnp(p) \/ GnpTake(p) \/ ReconcileStep(p) \/ SyncNetworkWithGNP(p)
       \/ UpdateNetworkConditionForPodRanges(p) \/ Cleanup(p) \/ UpdateStatus(p) \/ UpdateGnp(p)
       \/ GnpDelayOver(p)
  \/ \E w \in NetNames : InformNet(w)
  \/ NodesChange \/ InformNodes

GnpSpec == GnpInit /\ [][GnpNext]_gnpVars

-----------------------------------------------------------------------------
\* Types; a worker has exactly the keys in progress.
GnpTypeOK ==
  /\ gqueue \in QueueTypes(ParamNames, GnpMaxRetries)
  /\ \A p \in ParamNames : gwork[p].pc # "idle" <=> p \in gqueue.processing

\* A deleted set disappears only after its Network was seen not to use it: a set
\* whose Network has been in use ever since the deletion stays.
HeldSetsStay == [][\A p \in gpast.held : gnp'[p].exists]_gnpVars

\* Nothing is on its way.
GnpQuiet == /\ QueueIdle(gqueue) /\ gnpCache = gnp /\ netCache = net /\ labelCache = label

\* The one Network that refers to p.
OnlyReferrer(w, p) == net[w].exists /\ \A m \in NetNames : net[m].exists /\ net[m].ref = p <=> m = w

\* When nothing is on its way, a Network hears the truth about its parameters:
\* whether they fit it if the set is ready, and that they are not if there is no
\* set (unless the controller gave up on the set).
ParamsReadyConverges ==
  GnpQuiet =>
    \A p \in ParamNames \ gpast.dropped, w \in NetNames : OnlyReferrer(w, p) =>
      /\ gnp[p].exists /\ ~gnp[p].deleting /\ gnp[p].status.ready = "GNPReady" =>
           /\ net[w].paramsReady = CrossValidateNetworkAndGnp(w, gnp[p].spec)
           /\ net[w].paramsReady = "GNPParamsReady" => gnp[p].status.network = w
      /\ ~gnp[p].exists => net[w].paramsReady # "GNPParamsReady"

\* When nothing is on its way, the status of a set is that of its spec.  A cloud
\* that cannot be reached counts as a missing subnet and is not retried; it is
\* forgotten because the status it leaves is an event, except when the set had
\* that status already.
ReadyConverges ==
  GnpQuiet =>
    \A p \in ParamNames \ (gpast.dropped \cup gspent.unheard) :
      gnp[p].exists /\ ~gnp[p].deleting /\ ~gnp[p].spec.device =>
        gnp[p].status.ready = IF GetAndValidateSubnet(gnp[p].spec, TRUE)
                              THEN ValidateGKENetworkParamSet(p, gnp[p]) ELSE "SubnetNotFound"

\* When nothing is on its way, the default set has the cluster's pod range and
\* those of the nodes that exist, however nodes and updates overlapped.
DefaultRangesConverge ==
  GnpQuiet /\ "default" \notin gpast.dropped
    /\ gnp["default"].exists /\ ~gnp["default"].deleting =>
    gnp["default"].spec.ranges = DefaultSpec.ranges \cup label

\* Once nothing is on its way parameter sets, Networks and nodes agree.
SetsConverge == GnpTypeOK /\ ParamsReadyConverges /\ ReadyConverges /\ DefaultRangesConverge
=============================================================================
