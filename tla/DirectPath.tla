----------------------------- MODULE DirectPath -----------------------------
(***************************************************************************)
(* DirectPath with workload identity, in the GCP controller manager: the    *)
(* verifier remembers which Kubernetes service account (KSA) may act as     *)
(* which Google service account (GSA); four event handlers keep the         *)
(* ConfigMap of verified pairs, and the accounts the Auth service knows of   *)
(* each node, in step with it.  The API server, the informers' caches, IAM  *)
(* and the Auth service are external.  Every key of the handlers' four      *)
(* queues is a worker, since no key is processed twice at once.             *)
(***************************************************************************)
EXTENDS WorkQueue, FiniteSets

CONSTANTS
  Ksas, Gsas, DpNodes,
  DpPods,               \* [names of pods -> [ksa, node]]
  DpScenes              \* the start [running, sa, grants, pods, nodes], the kinds of changes
                        \* made then, and the most changes and faults there are

NoGsa == "none"
Absent == "absent"      \* of a KSA: no such object

SaKey(k) == <<"sa", k>>
PodKey(p) == <<"pod", p>>
NodeKey(n) == <<"node", n>>
CmKey == <<"cm", "verified-ksa-to-gsa">>
DpKeys == {SaKey(k) : k \in Ksas} \cup {PodKey(p) : p \in DOMAIN DpPods}
            \cup {NodeKey(n) : n \in DpNodes} \cup {CmKey}

VARIABLES
  dpScene,
  api,          \* [sa: GSA annotated on each KSA, pods: those that exist, zone: label of each node]
  seen,         \* what the informers' caches hold of it
  grants,       \* <<KSA, GSA>> pairs that IAM permits
  cm, cmCache,  \* the ConfigMap; the cached object, and whether it is current
  verified,     \* verifiedSAs
  flight,       \* loadGroup: the verification of each KSA under way
  nodeGSAs,     \* nodeMap: accounts last sent, and how long ago
  synced,       \* accounts the Auth service was told of each node
  dpQueue, dpWork,
  dpPast        \* history, and the budgets

outside == <<dpScene, api, seen, grants, cm, cmCache>>
inside == <<verified, flight, nodeGSAs, synced, dpWork>>
dpVars == <<outside, inside, dpQueue, dpPast>>

NoCm == [exists |-> FALSE, text |-> {}]
NoFlight == [on |-> FALSE, pre |-> NoGsa, gsa |-> NoGsa, waiters |-> {}]
NewEntry == [gsas |-> {}, age |-> "old"]
DpIdle == [pc |-> "idle", todo |-> {}, got |-> {}, obj |-> NoCm, cached |-> FALSE]

\* The keys of the objects in the caches, and in their first lists.
SeenKeys ==
  {SaKey(k) : k \in {k \in Ksas : seen.sa[k] # Absent}} \cup {PodKey(p) : p \in seen.pods}
    \cup {NodeKey(n) : n \in {n \in DpNodes : seen.zone[n] # Absent}} \cup {w \in {CmKey} : cmCache.obj.exists}

\* At a start nothing is verified and the first lists are in the queues; or the
\* handlers have been running for a while, and agree.
DpInit ==
  /\ dpScene \in DpScenes
  /\ api = [sa |-> dpScene.sa, pods |-> dpScene.pods, zone |-> dpScene.zone]
  /\ seen = api
  /\ grants = dpScene.grants
  /\ flight = [k \in Ksas |-> NoFlight]
  /\ verified = [k \in Ksas |-> IF dpScene.running /\ <<k, api.sa[k]>> \in grants THEN api.sa[k] ELSE NoGsa]
  /\ cm = [exists |-> dpScene.running, text |-> {<<k, verified[k]>> : k \in {k \in Ksas : verified[k] # NoGsa}}]
  /\ cmCache = [obj |-> cm, current |-> TRUE]
  /\ synced = [n \in DpNodes |-> {verified[DpPods[p].ksa] : p \in {p \in api.pods : DpPods[p].node = n}} \ {NoGsa}]
  /\ nodeGSAs = [n \in DpNodes |-> [gsas |-> synced[n], age |-> IF synced[n] = {} THEN "old" ELSE "recent"]]
  /\ dpQueue = IF dpScene.running THEN EmptyQueue({}) ELSE QueueAdd(EmptyQueue({}), SeenKeys)
  /\ dpWork = [w \in DpKeys |-> DpIdle]
  /\ dpPast = [changes |-> 0, faults |-> 0, granted |-> grants, calm |-> TRUE,
               joined |-> {}, unheard |-> {}, lost |-> {}, stuck |-> FALSE]

-----------------------------------------------------------------------------
(* What others do, and what the informers deliver.                          *)

DpChange(kind) ==
  /\ kind \in dpScene.changes
  /\ dpPast.changes < dpScene.most
  /\ dpPast' = [dpPast EXCEPT !.changes = @ + 1, !.granted = @ \cup grants',
                             !.calm = @ /\ grants' = grants]

DpFault ==
  /\ dpPast.faults < dpScene.faults
  /\ dpPast' = [dpPast EXCEPT !.faults = @ + 1, !.calm = FALSE]

Toggle(S, x) == IF x \in S THEN S \ {x} ELSE S \cup {x}

ChangeObject ==
  /\ \/ \E k \in Ksas, g \in Gsas \cup {NoGsa, Absent} :
          g # api.sa[k] /\ api' = [api EXCEPT !.sa[k] = g] /\ UNCHANGED grants /\ DpChange("sa")
     \/ \E p \in DOMAIN DpPods :
          api' = [api EXCEPT !.pods = Toggle(@, p)] /\ UNCHANGED grants /\ DpChange("pod")
     \/ \E n \in DpNodes, z \in {"unset", "zone", Absent} :
          z # api.zone[n] /\ api' = [api EXCEPT !.zone[n] = z] /\ UNCHANGED grants /\ DpChange("node")
  /\ UNCHANGED <<dpScene, seen, cm, cmCache, inside, dpQueue>>

\* An administrator grants or revokes; nothing tells the controller.
ChangeGrants ==
  /\ \E k \in Ksas, g \in Gsas : grants' = Toggle(grants, <<k, g>>)
  /\ DpChange("grant")
  /\ UNCHANGED <<dpScene, api, seen, cm, cmCache, inside, dpQueue>>

ChangeConfigMap ==
  /\ cm.exists
  /\ cm' \in {NoCm, [cm EXCEPT !.text = {<<"edited", "edited">>}]} \ {cm}
  /\ cmCache' = [cmCache EXCEPT !.current = FALSE]
  /\ UNCHANGED grants /\ DpChange("configmap")
  /\ UNCHANGED <<dpScene, api, seen, inside, dpQueue>>

\* ResourceEventHandler: an event of any kind enqueues the key of its object.
Inform ==
  /\ \/ \E k \in Ksas : /\ seen.sa[k] # api.sa[k]
                       /\ seen' = [seen EXCEPT !.sa[k] = api.sa[k]]
                       /\ dpQueue' = QueueAdd(dpQueue, {SaKey(k)})
                       /\ dpPast' = [dpPast EXCEPT !.unheard = IF api.sa[k] = Absent THEN @ \cup {k} ELSE @]
     \/ \E p \in DOMAIN DpPods : /\ (p \in seen.pods) # (p \in api.pods)
                                /\ seen' = [seen EXCEPT !.pods = Toggle(@, p)]
                                /\ dpQueue' = QueueAdd(dpQueue, {PodKey(p)})
                                /\ UNCHANGED dpPast
     \/ \E n \in DpNodes : /\ seen.zone[n] # api.zone[n]
                          /\ seen' = [seen EXCEPT !.zone[n] = api.zone[n]]
                          /\ dpQueue' = QueueAdd(dpQueue, {NodeKey(n)})
                          /\ UNCHANGED dpPast
  /\ UNCHANGED <<dpScene, api, grants, cm, cmCache, inside>>

\* A new object replaces the cached one; a worker that holds the old one keeps it.
InformConfigMap ==
  /\ ~cmCache.current
  /\ cmCache' = [obj |-> cm, current |-> TRUE]
  /\ dpQueue' = QueueAdd(dpQueue, {CmKey})
  /\ dpWork' = [dpWork EXCEPT ![CmKey].cached = FALSE]
  /\ UNCHANGED <<dpScene, api, seen, grants, cm, verified, flight, nodeGSAs, synced, dpPast>>

\* Half an hour: the informers repeat an update event for every cached object, and
\* what was sent to the nodes counts as old.
Resync ==
  /\ UNCHANGED grants /\ DpChange("resync")
  /\ dpQueue' = QueueAdd(dpQueue, SeenKeys)
  /\ nodeGSAs' = [n \in DpNodes |-> [nodeGSAs[n] EXCEPT !.age = "old"]]
  /\ UNCHANGED <<dpScene, api, seen, cm, cmCache, verified, flight, synced, dpWork>>

\* Ten seconds after accounts were last sent.
TimePasses(n) ==
  /\ nodeGSAs[n].age = "now"
  /\ nodeGSAs' = [nodeGSAs EXCEPT ![n].age = "recent"]
  /\ UNCHANGED <<outside, verified, flight, synced, dpWork, dpQueue, dpPast>>

-----------------------------------------------------------------------------
(* The verifier.                                                            *)

\* getGSA, where a missing object and a missing annotation count alike.
GetGSA(k) == IF seen.sa[k] = Absent THEN NoGsa ELSE seen.sa[k]

\* ForceVerify: worker w starts the verification of k, or joins the one under way.
ForceVerify(w, k) ==
  flight' = [flight EXCEPT ![k] =
    IF @.on THEN [@ EXCEPT !.waiters = @ \cup {w}]
    ELSE [on |-> TRUE, pre |-> verified[k], gsa |-> GetGSA(k), waiters |-> {w}]]

\* What worker w learns of k.  Only the handler of service accounts looks at
\* more than the account: it is told of a denial and of the account before.
Told(w, k, res) ==
  [dpWork[w] EXCEPT !.pc = "gather", !.todo = @ \ {k},
    !.got = @ \cup (IF w = SaKey(k) THEN {res}
                   ELSE IF res.cur = NoGsa THEN {} ELSE {<<k, res.cur>>})]

Land(k, res) ==
  /\ flight[k].on
  /\ dpWork' = [w \in DpKeys |-> IF w \in flight[k].waiters THEN Told(w, k, res) ELSE dpWork[w]]
  /\ flight' = [flight EXCEPT ![k] = NoFlight]
  /\ UNCHANGED <<outside, nodeGSAs, synced, dpQueue>>

\* Authorize
Permitted(k) == flight[k].gsa # NoGsa /\ <<k, flight[k].gsa>> \in grants

\* addOrUpdate and remove
Remembered(k, cur) == cur

\* verify, to its end.  An account that is not annotated need not be asked about.
Verify(k) ==
  LET f == flight[k]
      permitted == Permitted(k)
      cur == IF permitted THEN f.gsa ELSE NoGsa
  IN /\ Land(k, [pre |-> f.pre, cur |-> cur, denied |-> f.gsa # NoGsa /\ ~permitted])
     /\ verified' = [verified EXCEPT ![k] = Remembered(k, cur)]
     /\ dpPast' = [dpPast EXCEPT !.unheard =
          IF cur = f.pre THEN @
          ELSE IF SaKey(k) \in f.waiters /\ (permitted \/ f.gsa = NoGsa) THEN @ \ {k} ELSE @ \cup {k}]

\* The Auth service cannot be asked.  ForceVerify drops the error: what remains
\* is a result without an account, and nothing is remembered or forgotten.
VerifyFails(k) ==
  /\ flight[k].gsa # NoGsa
  /\ DpFault
  /\ Land(k, [pre |-> flight[k].pre, cur |-> NoGsa, denied |-> FALSE])
  /\ UNCHANGED verified

\* VerifiedGSA, for the next account that worker w asks about.
VerifiedGSA(w) ==
  /\ dpWork[w].pc = "gather"
  /\ \E k \in dpWork[w].todo :
       \/ /\ verified[k] # NoGsa
          /\ dpWork' = [dpWork EXCEPT ![w] = Told(w, k, [cur |-> verified[k]])]
          /\ UNCHANGED flight
       \/ /\ verified[k] = NoGsa
          /\ ForceVerify(w, k)
          /\ dpWork' = [dpWork EXCEPT ![w].pc = "waiting"]
  /\ UNCHANGED <<outside, verified, nodeGSAs, synced, dpQueue, dpPast>>

-----------------------------------------------------------------------------
(* The four handlers.                                                       *)

DpDone(w, more) ==
  /\ dpQueue' = QueueDone(QueueAdd(dpQueue, more), w)
  /\ dpWork' = [dpWork EXCEPT ![w] = DpIdle]

\* processNext, where process failed.
DpRequeue(w) ==
  /\ dpQueue' = QueueDone([dpQueue EXCEPT !.delayed = @ \cup {w}], w)
  /\ dpWork' = [dpWork EXCEPT ![w] = DpIdle]

DpDelayOver(w) ==
  /\ w \in dpQueue.delayed
  /\ dpQueue' = QueueDelayOver(dpQueue, w)
  /\ UNCHANGED <<outside, inside, dpPast>>

DpStart(w, task) ==
  /\ dpQueue' = QueueGet(dpQueue, w)
  /\ dpWork' = [dpWork EXCEPT ![w] = task]

\* serviceaccounts: process
ProcessSa(k) ==
  LET w == SaKey(k) IN
  /\ w \in QueueReady(dpQueue)
  /\ ForceVerify(w, k)
  /\ DpStart(w, [DpIdle EXCEPT !.pc = "waiting"])
  /\ dpPast' = [dpPast EXCEPT !.joined =
       IF flight[k].on /\ flight[k].gsa # GetGSA(k) THEN @ \cup {k} ELSE @ \ {k}]
  /\ UNCHANGED <<outside, verified, nodeGSAs, synced>>

\* notifyAffectedNodes: the pods of the index by KSA, and the nodes they are on.
AffectedNodes(k) == {NodeKey(DpPods[p].node) : p \in {p \in seen.pods : DpPods[p].ksa = k}}

\* notifyConfigmapHandler and notifyAffectedNodes
Notified(k) == {CmKey} \cup AffectedNodes(k)

SaVerified(k) ==
  LET w == SaKey(k) IN
  /\ dpWork[w].pc = "gather"
  /\ \E res \in dpWork[w].got :
       \/ res.denied /\ DpRequeue(w)
       \/ ~res.denied /\ res.cur = res.pre /\ DpDone(w, {})
       \/ ~res.denied /\ res.cur # res.pre /\ DpDone(w, Notified(k))
  /\ UNCHANGED <<outside, verified, flight, nodeGSAs, synced, dpPast>>

\* pods: process.  The removal of a pod is left to the next event.
ProcessPod(p) ==
  LET w == PodKey(p) IN
  /\ w \in QueueReady(dpQueue)
  /\ DpStart(w, [DpIdle EXCEPT !.pc = "gather", !.todo = IF p \in seen.pods THEN {DpPods[p].ksa} ELSE {}])
  /\ UNCHANGED <<outside, verified, flight, nodeGSAs, synced, dpPast>>

PodVerified(p) ==
  LET w == PodKey(p) IN
  /\ dpWork[w].pc = "gather" /\ dpWork[w].todo = {}
  /\ DpDone(w, IF dpWork[w].got = {} THEN {} ELSE {NodeKey(DpPods[p].node)})
  /\ UNCHANGED <<outside, verified, flight, nodeGSAs, synced, dpPast>>

\* nodesyncer: process
ProcessNode(n) ==
  LET w == NodeKey(n) IN
  /\ w \in QueueReady(dpQueue)
  /\ \/ /\ seen.zone[n] = Absent
        /\ nodeGSAs' = [nodeGSAs EXCEPT ![n] = NewEntry]
        /\ dpQueue' = QueueDone(QueueGet(dpQueue, w), w)
        /\ UNCHANGED dpWork
     \/ /\ seen.zone[n] = "unset"
        /\ dpQueue' = [dpQueue EXCEPT !.dirty = @ \ {w}, !.delayed = @ \cup {w}]
        /\ UNCHANGED <<nodeGSAs, dpWork>>
     \/ /\ seen.zone[n] = "zone"
        /\ DpStart(w, [DpIdle EXCEPT !.pc = "gather",
                         !.todo = {DpPods[p].ksa : p \in {p \in seen.pods : DpPods[p].node = n}}])
        /\ UNCHANGED nodeGSAs
  /\ UNCHANGED <<outside, verified, flight, synced, dpPast>>

\* A call that fails after the Auth service acted, or before.
SyncFails(n, gsas) ==
  /\ dpPast.faults < dpScene.faults
  /\ synced' \in {synced, [synced EXCEPT ![n] = gsas]}
  /\ dpPast' = [dpPast EXCEPT !.faults = @ + 1, !.calm = FALSE,
                             !.lost = IF synced' = synced THEN @ ELSE @ \cup {n}]

\* Mutant: the accounts are noted before they are sent.
SyncNoted(n, gsas) ==
  \/ /\ synced' = [synced EXCEPT ![n] = gsas]
     /\ nodeGSAs' = [nodeGSAs EXCEPT ![n] = [gsas |-> gsas, age |-> "now"]]
     /\ DpDone(NodeKey(n), {})
     /\ dpPast' = [dpPast EXCEPT !.lost = @ \ {n}]
  \/ /\ SyncFails(n, gsas)
     /\ DpRequeue(NodeKey(n))
     /\ nodeGSAs' = [nodeGSAs EXCEPT ![n] = [gsas |-> gsas, age |-> "now"]]

\* The call that sync makes, and what it notes of it.
Sync(n, gsas) ==
  \/ /\ synced' = [synced EXCEPT ![n] = gsas]
     /\ nodeGSAs' = [nodeGSAs EXCEPT ![n] = [gsas |-> gsas, age |-> "now"]]
     /\ DpDone(NodeKey(n), {})
     /\ dpPast' = [dpPast EXCEPT !.lost = @ \ {n}]
  \/ /\ SyncFails(n, gsas)
     /\ DpRequeue(NodeKey(n))
     /\ UNCHANGED nodeGSAs

\* The rest of process, and nodeGSAs.sync: accounts are sent when they changed
\* or are half an hour old, but not twice within ten seconds.
NodeVerified(n) ==
  LET w == NodeKey(n)
      gsas == {pair[2] : pair \in dpWork[w].got}
      entry == nodeGSAs[n]
      skip == gsas = {} \/ (entry.gsas = gsas /\ entry.age # "old")
  IN
  /\ dpWork[w].pc = "gather" /\ dpWork[w].todo = {}
  /\ \/ skip /\ DpDone(w, {}) /\ UNCHANGED <<nodeGSAs, synced, dpPast>>
     \/ ~skip /\ entry.age = "now" /\ DpRequeue(w) /\ UNCHANGED <<nodeGSAs, synced, dpPast>>
     \/ ~skip /\ entry.age # "now" /\ Sync(n, gsas)
  /\ UNCHANGED <<outside, verified, flight>>

\* AllVerified asks about every cached service account.
AllVerified == {k \in Ksas : seen.sa[k] # Absent}

\* configmap: persist
Persist ==
  /\ CmKey \in QueueReady(dpQueue)
  /\ DpStart(CmKey, [pc |-> "gather", todo |-> AllVerified, got |-> {},
                     obj |-> cmCache.obj, cached |-> TRUE])
  /\ UNCHANGED <<outside, verified, flight, nodeGSAs, synced, dpPast>>

\* A write of the ConfigMap reaches the cache with the next event.
WriteCm(new) ==
  /\ cm' = new
  /\ cmCache' = [cmCache EXCEPT !.current = FALSE]

\* The rest of persist.  The object that is changed is the cached one, unless an
\* event has replaced it since; the API server refuses it if it is not current.
CmVerified ==
  LET w == CmKey
      t == dpWork[w]
      outdated == ~(t.cached /\ cmCache.current)
  IN
  /\ t.pc = "gather" /\ t.todo = {}
  /\ \/ /\ t.obj.exists /\ t.obj.text = t.got
        /\ DpDone(w, {})
        /\ UNCHANGED <<cm, cmCache, dpPast>>
     \/ /\ ~t.obj.exists /\ ~cm.exists
        /\ WriteCm([exists |-> TRUE, text |-> t.got])
        /\ DpDone(w, {})
        /\ UNCHANGED dpPast
     \/ /\ ~t.obj.exists
        /\ (cm.exists /\ UNCHANGED dpPast) \/ DpFault
        /\ DpRequeue(w)
        /\ UNCHANGED <<cm, cmCache>>
     \/ /\ t.obj.exists /\ t.obj.text # t.got /\ ~outdated
        /\ WriteCm([exists |-> TRUE, text |-> t.got])
        /\ DpDone(w, {})
        /\ UNCHANGED dpPast
     \/ /\ t.obj.exists /\ t.obj.text # t.got
        /\ (outdated /\ UNCHANGED dpPast) \/ DpFault
        /\ cmCache' = IF t.cached THEN [cmCache EXCEPT !.obj.text = t.got] ELSE cmCache
        /\ dpWork' = [dpWork EXCEPT ![w].pc = "delete"]
        /\ UNCHANGED <<cm, dpQueue>>
  /\ UNCHANGED <<dpScene, api, seen, grants, verified, flight, nodeGSAs, synced>>

\* After an update that failed the ConfigMap is deleted, and persist retried.
DeleteConfigMap ==
  /\ dpWork[CmKey].pc = "delete"
  /\ \/ cm.exists /\ WriteCm(NoCm) /\ UNCHANGED dpPast
     \/ ~cm.exists /\ UNCHANGED <<cm, cmCache, dpPast>>
     \/ /\ cm.exists /\ dpPast.faults < dpScene.faults
        /\ dpPast' = [dpPast EXCEPT !.faults = @ + 1, !.calm = FALSE, !.stuck = TRUE]
        /\ UNCHANGED <<cm, cmCache>>
  /\ DpRequeue(CmKey)
  /\ UNCHANGED <<dpScene, api, seen, grants, verified, flight, nodeGSAs, synced>>

DpNext ==
  \/ ChangeObject \/ ChangeGrants \/ ChangeConfigMap
  \/ Inform \/ InformConfigMap \/ Resync
  \/ \E k \in Ksas : Verify(k) \/ VerifyFails(k) \/ ProcessSa(k) \/ SaVerified(k)
  \/ \E p \in DOMAIN DpPods : ProcessPod(p) \/ PodVerified(p)
  \/ \E n \in DpNodes : TimePasses(n) \/ ProcessNode(n) \/ NodeVerified(n)
  \/ \E w \in DpKeys : VerifiedGSA(w) \/ DpDelayOver(w)
  \/ Persist \/ CmVerified \/ DeleteConfigMap

-----------------------------------------------------------------------------
(* Properties.                                                              *)

DpTypeOK ==
  /\ verified \in [Ksas -> Gsas \cup {NoGsa}]
  /\ \A n \in DpNodes : nodeGSAs[n].gsas \subseteq Gsas /\ nodeGSAs[n].age \in {"now", "recent", "old"}
  /\ \A w \in DpKeys : dpWork[w].pc = "idle" <=> w \notin dpQueue.processing
  /\ \A k \in Ksas : flight[k].waiters = {w \in DpKeys : dpWork[w].pc = "waiting" /\ w \in flight[k].waiters}

\* Whether a KSA should be verified, as things stand.
Should(k) == IF <<k, api.sa[k]>> \in grants THEN api.sa[k] ELSE NoGsa

DpQuiet ==
  /\ seen = api /\ cmCache.current
  /\ dpQueue.dirty = {} /\ dpQueue.processing = {}
  /\ dpQueue.delayed \subseteq {SaKey(k) : k \in Ksas}

VerifiedPairs == {<<k, verified[k]>> : k \in {k \in Ksas : verified[k] # NoGsa}}
Wanted(n) == {verified[DpPods[p].ksa] : p \in {p \in api.pods : DpPods[p].node = n}} \ {NoGsa}

\* The verifier remembers an account for a KSA only if IAM permitted the pair when
\* it was asked.
VerifiedWasPermitted == VerifiedPairs \subseteq dpPast.granted

\* Once the events about service accounts are handled the verifier agrees with
\* their annotations, if IAM did not change, every question was answered and no
\* handler joined a verification that had begun before its event.
EventsAreVerified ==
  DpQuiet /\ dpPast.calm => \A k \in Ksas \ dpPast.joined : verified[k] = Should(k)

\* The accounts remembered as last sent are the ones the Auth service has, unless
\* an answer of it was lost: only then may a node be skipped wrongly.
SentIsSynced ==
  \A n \in DpNodes \ dpPast.lost : nodeGSAs[n].gsas # {} => synced[n] = nodeGSAs[n].gsas

\* Once nothing is on its way the ConfigMap holds the verified pairs, unless the
\* last change of one was found by another handler than that of service accounts,
\* was a denial, or an update and the deletion after it both failed.
ConfigMapConverges ==
  DpQuiet /\ dpPast.unheard = {} /\ ~dpPast.stuck =>
    cm.text = {pair \in VerifiedPairs : api.sa[pair[1]] # Absent}

\* Likewise every node has the accounts that its pods may use.
NodesConverge ==
  DpQuiet /\ dpPast.unheard = {} =>
    \A n \in DpNodes \ dpPast.lost : api.zone[n] = "zone" => Wanted(n) \subseteq synced[n]

\* The verifier, the ConfigMap and the Auth service agree with the service accounts,
\* pods and nodes of the cluster.
DirectPathAgrees ==
  /\ DpTypeOK /\ VerifiedWasPermitted /\ EventsAreVerified
  /\ SentIsSynced /\ ConfigMapConverges /\ NodesConverge
=============================================================================
