---------------------------- MODULE NodeAnnotator ----------------------------
(***************************************************************************)
(* The node annotator of the GCP controller manager: it copies the id, the  *)
(* labels, the resize request, the termination time and the taints of a VM  *)
(* to its Node.  It changes the object of the informer's cache itself.      *)
(* The API server, the cache, the VM and its kubelet are external.  Nodes   *)
(* do not interact, so there is one; a VM that is replaced keeps its name   *)
(* and gets a new id.                                                       *)
(***************************************************************************)
EXTENDS WorkQueue, TLC

CONSTANTS
  Metas,           \* metadata a VM may have: [labels, request, termination, taints]
  OwnedKubeLabels,
  UserLabels,      \* labels that users write: [keys -> values]
  AnnMaxVms

Unset == "unset"
Malformed == "malformed"
NoLabels == [k \in {} |-> ""]
LabelText(state, labels) == [state |-> state, labels |-> labels]  \* Unset, Malformed or "parsed"

VARIABLES
  vm,              \* [id, up, meta]: the VM of that name there is, or was last
  knode,           \* the Node, as the API server has it
  knodeCache,      \* the cached object, and whether it is current
  annQueue, annWork,
  annSpent         \* faults and edits so far; whether an update was refused

annVars == <<vm, knode, knodeCache, annQueue, annWork, annSpent>>

NoNode == [exists |-> FALSE, uid |-> 0, boot |-> 0, id |-> 0, labels |-> NoLabels, lastLabels |-> LabelText(Unset, NoLabels),
           termination |-> Unset, lastTaints |-> Unset]
AnnIdle == [pc |-> "idle", inst |-> 0, cached |-> FALSE, obj |-> NoNode]
AnnKey == "node"

AnnInit(meta, faults) ==
  /\ vm = [id |-> 1, up |-> TRUE, meta |-> meta]
  /\ knode = NoNode
  /\ knodeCache = [obj |-> NoNode, current |-> TRUE]
  /\ annQueue = EmptyQueue({})
  /\ annWork = AnnIdle
  /\ annSpent = [faults |-> faults, edits |-> 0, refused |-> FALSE]

-----------------------------------------------------------------------------
(* The VM, its kubelet, users and the informer.                             *)

\* Every write of the Node makes the cached object outdated.
WriteNode(new) ==
  /\ knode' = new
  /\ knodeCache' = [knodeCache EXCEPT !.current = FALSE]

\* A VM is preempted, and its group starts another under the same name.
PreemptVm ==
  /\ vm.up /\ vm.id < AnnMaxVms
  /\ vm' = [vm EXCEPT !.up = FALSE]
  /\ UNCHANGED <<knode, knodeCache, annQueue, annWork, annSpent>>

StartVm ==
  /\ ~vm.up
  /\ \E meta \in Metas : vm' = [id |-> vm.id + 1, up |-> TRUE, meta |-> meta]
  /\ UNCHANGED <<knode, knodeCache, annQueue, annWork, annSpent>>

\* The node lifecycle controller deletes the Node of a VM that is gone.
RemoveNode ==
  /\ knode.exists /\ ~vm.up
  /\ WriteNode([NoNode EXCEPT !.uid = knode.uid])
  /\ UNCHANGED <<vm, annQueue, annWork, annSpent>>

\* The kubelet of the VM registers: it creates the Node, or takes the old one over.
Register ==
  /\ vm.up /\ knode.boot # vm.id
  /\ WriteNode(IF knode.exists THEN [knode EXCEPT !.boot = vm.id]
               ELSE [NoNode EXCEPT !.exists = TRUE, !.uid = knode.uid + 1, !.boot = vm.id])
  /\ UNCHANGED <<vm, annQueue, annWork, annSpent>>

EditLabels ==
  /\ knode.exists /\ annSpent.edits = 0
  /\ WriteNode([knode EXCEPT !.labels = UserLabels @@ @])
  /\ annSpent' = [annSpent EXCEPT !.edits = 1]
  /\ UNCHANGED <<vm, annQueue, annWork>>

\* add and update: a new Node is enqueued, and one that was booted again.
AnnInform ==
  /\ ~knodeCache.current
  /\ knodeCache' = [obj |-> knode, current |-> TRUE]
  /\ annQueue' = IF knode.exists /\ (knode.uid # knodeCache.obj.uid \/ knode.boot # knodeCache.obj.boot)
               THEN QueueAdd(annQueue, {AnnKey}) ELSE annQueue
  /\ annWork' = [annWork EXCEPT !.cached = FALSE]
  /\ UNCHANGED <<vm, knode, annSpent>>

-----------------------------------------------------------------------------
(* What the annotators write.                                               *)

Without(labels, keys) == [k \in DOMAIN labels \ keys |-> labels[k]]

\* extractKubeLabels: no metadata, or labels that cannot be parsed, change nothing.
HasKubeLabels(meta) == meta.labels.state = "parsed"

\* extractLastAppliedLabels; an annotation that cannot be parsed counts as not set.
LastApplied(obj) == IF obj.lastLabels.state = "parsed" THEN DOMAIN obj.lastLabels.labels ELSE {}

\* Mutant: the labels that were applied last stay.
MergeOntoLast(obj, desired) ==
  [obj EXCEPT !.labels = desired @@ Without(@, OwnedKubeLabels), !.lastLabels = LabelText("parsed", desired)]

\* mergeManagedLabels, after the labels that GKE owns were dropped.
MergeManagedLabels(obj, desired) ==
  [obj EXCEPT !.labels = desired @@ Without(@, OwnedKubeLabels \cup LastApplied(obj)),
              !.lastLabels = LabelText("parsed", desired)]

LabelsReconciler(obj, meta) ==
  IF HasKubeLabels(meta) THEN MergeManagedLabels(obj, meta.labels.labels) ELSE obj

RequestReconciler(obj, meta) ==
  IF meta.request = Unset THEN obj
  ELSE [obj EXCEPT !.labels = ("provisioning-request" :> meta.request) @@ @]

AnnotateMachineTermination(obj, meta) ==
  IF meta.termination = Unset THEN obj ELSE [obj EXCEPT !.termination = meta.termination]

TaintsReconciler(obj, meta) ==
  IF meta.taints \in {Unset, Malformed} THEN obj ELSE [obj EXCEPT !.lastTaints = meta.taints]

\* The annotators, in their order.
Annotated(obj, inst) ==
  TaintsReconciler(AnnotateMachineTermination(RequestReconciler(LabelsReconciler(
    [obj EXCEPT !.id = inst.id], inst.meta), inst.meta), inst.meta), inst.meta)

\* Whether one of them says that it changed something.
Modified(obj, inst) ==
  \/ obj.id # inst.id
  \/ HasKubeLabels(inst.meta)
  \/ inst.meta.request # Unset
  \/ inst.meta.termination # Unset
  \/ inst.meta.taints \notin {Unset, Malformed}

-----------------------------------------------------------------------------
(* sync                                                                     *)

AnnFault ==
  /\ annSpent.faults = 0
  /\ annSpent' = [annSpent EXCEPT !.faults = 1]

AnnEnd(failed) ==
  /\ annQueue' = QueueDone(IF failed THEN [annQueue EXCEPT !.delayed = {AnnKey}] ELSE annQueue, AnnKey)
  /\ annWork' = AnnIdle

AnnDelayOver ==
  /\ AnnKey \in annQueue.delayed
  /\ annQueue' = QueueDelayOver(annQueue, AnnKey)
  /\ UNCHANGED <<vm, knode, knodeCache, annWork, annSpent>>

\* A Node that is gone is dropped from the queue.
AnnTake ==
  /\ AnnKey \in QueueReady(annQueue)
  /\ IF knodeCache.obj.exists
     THEN /\ annQueue' = QueueGet(annQueue, AnnKey)
          /\ annWork' = [AnnIdle EXCEPT !.pc = "get", !.cached = TRUE, !.obj = knodeCache.obj]
     ELSE /\ annQueue' = QueueDone(QueueGet(annQueue, AnnKey), AnnKey)
          /\ UNCHANGED annWork
  /\ UNCHANGED <<vm, knode, knodeCache, annSpent>>

\* getInstance, which fails while there is no VM, and the annotators.  The object they change is the cached one,
\* unless an event replaced it since.
AnnGet ==
  /\ annWork.pc = "get"
  /\ \/ /\ IF vm.up THEN AnnFault ELSE UNCHANGED annSpent
        /\ AnnEnd(TRUE)
        /\ UNCHANGED knodeCache
     \/ /\ vm.up
        /\ LET new == Annotated(annWork.obj, vm) IN
           /\ knodeCache' = IF annWork.cached THEN [knodeCache EXCEPT !.obj = new] ELSE knodeCache
           /\ IF Modified(annWork.obj, vm)
              THEN annWork' = [annWork EXCEPT !.pc = "update", !.obj = new] /\ UNCHANGED annQueue
              ELSE AnnEnd(FALSE)
        /\ UNCHANGED annSpent
  /\ UNCHANGED <<vm, knode>>

\* The API server refuses an object that is not current.
AnnUpdate ==
  /\ annWork.pc = "update"
  /\ \/ /\ annWork.cached /\ knodeCache.current
        /\ WriteNode(annWork.obj)
        /\ AnnEnd(FALSE)
        /\ UNCHANGED annSpent
     \/ /\ ~(annWork.cached /\ knodeCache.current) \/ annSpent.faults = 0
        /\ annSpent' = [annSpent EXCEPT !.refused = TRUE,
                          !.faults = IF annWork.cached /\ knodeCache.current THEN 1 ELSE @]
        /\ AnnEnd(TRUE)
        /\ UNCHANGED <<knode, knodeCache>>
  /\ UNCHANGED vm

AnnNext == AnnInform \/ AnnDelayOver \/ AnnTake \/ AnnGet \/ AnnUpdate

-----------------------------------------------------------------------------
(* Properties.                                                              *)

AnnQuiet == knodeCache.current /\ QueueIdle(annQueue)

AnnTypeOK ==
  /\ vm.id \in 0 .. AnnMaxVms /\ vm.meta \in Metas
  /\ knode.boot \in 0 .. AnnMaxVms /\ knode.id \in 0 .. AnnMaxVms
  /\ (annWork.pc = "idle") <=> (AnnKey \notin annQueue.processing)
  /\ annWork.pc \in {"get", "update"} => annWork.obj.exists

\* Once the annotator rests a Node that was booted by a VM has the id of that VM,
\* or of a later one, unless an update of the annotator was refused.
IdIsWritten ==
  AnnQuiet /\ knode.exists /\ ~annSpent.refused => knode.id >= knode.boot

\* Once the annotator rests, and the Node has the id of the VM there is, it has the
\* labels, termination time and taints of the metadata of that VM, and no label of
\* an earlier one, whatever was refused or failed on the way.
MetadataConverges ==
  AnnQuiet /\ knode.exists /\ knode.id = vm.id /\ HasKubeLabels(vm.meta) =>
    LET desired == vm.meta.labels.labels IN
    /\ \A k \in DOMAIN desired : k \in DOMAIN knode.labels /\ knode.labels[k] = desired[k]
    /\ DOMAIN knode.labels \subseteq DOMAIN desired \cup DOMAIN UserLabels \cup {"provisioning-request"}
    /\ vm.meta.request # Unset => knode.labels["provisioning-request"] = vm.meta.request
    /\ vm.meta.termination # Unset => knode.termination = vm.meta.termination
    /\ vm.meta.taints \notin {Unset, Malformed} => knode.lastTaints = vm.meta.taints

\* Once the annotator rests a Node tells what its VM tells.
AnnotationsAreWritten == AnnTypeOK /\ IdIsWritten /\ MetadataConverges

=============================================================================
