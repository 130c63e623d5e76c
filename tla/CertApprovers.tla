---------------------------- MODULE CertApprovers ----------------------------
(***************************************************************************)
(* The certificate loops of the GCP controller manager: the approvers of     *)
(* nodes, istiod, the OIDC service and readers of the kubelet API, the       *)
(* signer, and the approver of package csrapproval.  Each is a work queue    *)
(* over one informer (certificates.NewCertificateController).  Before a      *)
(* node gets its client certificate the node approver removes the Node and   *)
(* the pods that an earlier VM of that name left.                            *)
(*                                                                         *)
(* The API server, the cloud, kubelets and the signing service are external. *)
(* VMs and Nodes are those of NodeAnnotator: one name, used by one VM after  *)
(* another.                                                                  *)
(***************************************************************************)
EXTENDS NodeAnnotator, CsrForms

CONSTANTS
  Csrs,
  CsrScenes        \* [specs, loops, flags, happens, faults, groups, hint, referrers]

ASSUME CsrAssumption ==
  \A s \in CsrScenes : s.loops \subseteq {"node", "istiod", "oidc", "readonly", "signer", "library"}

VARIABLES
  csrScene,
  csr,             \* the requests, as the API server has them
  csrCache,        \* ... and the informer
  csrQueue, csrWork,
  bound,           \* for each VM, a pod that was bound to the Node of its time
  granted,         \* whether the subject access review allows
  readers,         \* of the pods that requests name: "reader", "plain" or "absent"
  csrPast

csrVars == <<csrScene, csr, csrCache, csrQueue, csrWork, bound, granted, readers, csrPast>>
certVars == <<annVars, csrVars>>

Spec(c) == csrScene.specs[c]
Flag(f) == f \in csrScene.flags
Happens(what) == what \in csrScene.happens
Jobs == csrScene.loops \X Csrs

NoCsr == [exists |-> FALSE, rv |-> 0, conds |-> <<>>, cert |-> FALSE, by |-> ""]
CsrIdle == [pc |-> "idle", rv |-> 0, verdict |-> "", key |-> 0, uid |-> 0, inst |-> 0, pods |-> {}, failed |-> FALSE]

CsrInit ==
  /\ csrScene \in CsrScenes
  /\ csr = [c \in Csrs |-> NoCsr]
  /\ csrCache = csr
  /\ csrQueue = EmptyQueue({})
  /\ csrWork = [j \in csrScene.loops \X Csrs |-> CsrIdle]
  /\ bound = [i \in 1 .. AnnMaxVms |-> "none"]
  /\ granted = ~("grant" \in csrScene.happens)
  /\ readers = [p \in {"p", "q"} |-> IF p = "p" THEN "reader" ELSE "plain"]
  /\ csrPast = [faults |-> 0, asked |-> {}, early |-> FALSE, granted |-> granted, hurt |-> {}]

CsrUnchanged == UNCHANGED <<csrScene, granted, readers>>

-----------------------------------------------------------------------------
(* What happens around the loops.                                           *)

HasClientCert(i) == \E c \in Csrs : csr[c].cert /\ Spec(c).made = i /\ IsNodeClientCert(Spec(c))

\* A VM that asks again while it has no Node of its own, or one with the id of another.
AsksEarly(c) ==
  /\ \E d \in csrPast.asked : Spec(d).made = Spec(c).made
  /\ ~(knode.exists /\ knode.boot = vm.id /\ knode.id \in {0, vm.id})

\* A client asks; a VM asks while it is there, for the server only once it is known.
CreateCsr(c) ==
  /\ ~csr[c].exists /\ c \notin csrPast.asked
  /\ Spec(c).made # 0 => vm.up /\ vm.id = Spec(c).made
  /\ IsNodeServerCert(Spec(c)) /\ Happens("vm") => HasClientCert(vm.id)
  /\ csr' = [csr EXCEPT ![c] = [NoCsr EXCEPT !.exists = TRUE, !.rv = 1]]
  /\ csrPast' = [csrPast EXCEPT !.asked = @ \cup {c}, !.early = @ \/ AsksEarly(c)]
  /\ UNCHANGED <<annVars, csrCache, csrQueue, csrWork, bound>> /\ CsrUnchanged

\* The cleaner of requests takes one away.
DeleteCsr(c) ==
  /\ Happens("clean") /\ csr[c].exists
  /\ csr' = [csr EXCEPT ![c] = [@ EXCEPT !.exists = FALSE]]
  /\ UNCHANGED <<annVars, csrCache, csrQueue, csrWork, bound, csrPast>> /\ CsrUnchanged

\* Roles are set up some time after the cluster starts.
Grant ==
  /\ ~granted
  /\ granted' = TRUE
  /\ csrPast' = [csrPast EXCEPT !.granted = TRUE]
  /\ UNCHANGED <<annVars, csrScene, csr, csrCache, csrQueue, csrWork, bound, readers>>

ChangeReader ==
  /\ Happens("reader") /\ readers.p = "reader"
  /\ \E s \in {"plain", "absent"} : readers' = [readers EXCEPT !.p = s]
  /\ UNCHANGED <<annVars, csrScene, csr, csrCache, csrQueue, csrWork, bound, granted, csrPast>>

\* A pod is bound to the Node of the VM that booted it last.
BindPod ==
  /\ Happens("vm") /\ knode.exists /\ bound[knode.boot] = "none" /\ knode.boot \notin csrPast.hurt
  /\ bound' = [bound EXCEPT ![knode.boot] = "running"]
  /\ UNCHANGED <<annVars, csr, csrCache, csrQueue, csrWork, csrPast>> /\ CsrUnchanged

\* The kubelet registers once it has a certificate; the first VM has one already, if it does not ask.
RegisterWithCert ==
  /\ Happens("vm")
  /\ \/ vm.id = 1 /\ \A c \in Csrs : Spec(c).made # 1
     \/ HasClientCert(vm.id)
  /\ Register
  /\ UNCHANGED csrVars

MachineSteps ==
  /\ Happens("vm")
  /\ (Happens("preempt") /\ PreemptVm) \/ StartVm \/ RemoveNode \/ (Happens("annotate") /\ AnnNext)
  /\ UNCHANGED csrVars

\* The event handlers enqueue whatever happened.
InformCsr(c) ==
  /\ csrCache[c] # csr[c]
  /\ csrCache' = [csrCache EXCEPT ![c] = csr[c]]
  /\ csrQueue' = QueueAdd(csrQueue, csrScene.loops \X {c})
  /\ UNCHANGED <<annVars, csr, csrWork, bound, csrPast>> /\ CsrUnchanged

-----------------------------------------------------------------------------
(* Steps of a handler.                                                      *)

\* The handler of job j goes on at pc with its record changed, or returns.
CsrGoto(j, new) == csrWork' = [csrWork EXCEPT ![j] = new] /\ UNCHANGED csrQueue

CsrReturn(j) ==
  /\ csrQueue' = QueueDone(csrQueue, j)
  /\ csrWork' = [csrWork EXCEPT ![j] = CsrIdle]

\* Mutant: a key that failed is not tried again.
CsrFailOnce(j) == CsrReturn(j)

\* An error, an IgnorableError too, brings the key back after a delay.
CsrFail(j) ==
  /\ csrQueue' = QueueDone([csrQueue EXCEPT !.delayed = @ \cup {j}], j)
  /\ csrWork' = [csrWork EXCEPT ![j] = CsrIdle]

CsrDelayOver(j) ==
  /\ j \in csrQueue.delayed
  /\ csrQueue' = QueueDelayOver(csrQueue, j)
  /\ UNCHANGED <<annVars, csr, csrCache, csrWork, bound, csrPast>> /\ CsrUnchanged

CsrFault ==
  /\ csrPast.faults < csrScene.faults
  /\ csrPast' = [csrPast EXCEPT !.faults = @ + 1]

Decided(obj) == obj.conds # <<>>
Approved(obj) == \E i \in DOMAIN obj.conds : obj.conds[i] = "approved"
Denied(obj) == \E i \in DOMAIN obj.conds : obj.conds[i] = "denied"
Verdict(allowed) == IF allowed THEN "approved" ELSE "denied"

At(work, pc) == [work EXCEPT !.pc = pc]
Decides(work, allowed) == [work EXCEPT !.pc = "update", !.verdict = Verdict(allowed)]

\* Mutant: a request that has been decided is looked at again.
NodeHandleAgain(spec, obj, work) ==
  LET match == Matching(spec, Flag("legacy")) IN
  IF ~ParseCSR(spec) THEN At(work, "fail")
  ELSE IF match = <<>> THEN At(work, "return")
  ELSE At(work, CASE match[1] = "tpm" -> "identity" [] match[1] = "server" -> "server" [] OTHER -> "sar")

\* nodeApprover.handle up to its first call, as the record it goes on with; pc is
\* "return" or "fail" where it ends here.
NodeHandle(spec, obj, work) ==
  LET match == Matching(spec, Flag("legacy")) IN
  IF Decided(obj) THEN At(work, "return")
  ELSE IF ~ParseCSR(spec) THEN At(work, "fail")
  ELSE IF match = <<>> THEN At(work, "return")
  ELSE At(work, CASE match[1] = "tpm" -> "identity" [] match[1] = "server" -> "server" [] OTHER -> "sar")

IstiodHandle(spec, obj, work) ==
  IF spec.signer # "istiod" \/ Decided(obj) THEN At(work, "return") ELSE Decides(work, IstiodAllows(spec))

OidcHandle(spec, obj, work) ==
  IF spec.signer # "oidc" \/ Decided(obj) THEN At(work, "return") ELSE Decides(work, OidcAllows(spec))

ReadonlyHandle(spec, obj, work) ==
  IF spec.signer # "kubelet-readonly" \/ Decided(obj) THEN At(work, "return")
  ELSE IF ~ParseCSR(spec) THEN At(work, "fail")
  ELSE IF ~ValidateCSRUsage(spec) THEN Decides(work, FALSE)
  ELSE At(work, IF Flag("autopilot") THEN "pods of reader" ELSE "rbac")

\* Mutant: what was not approved is signed too.
SignerHandleAll(spec, obj, work) ==
  IF spec.signer \notin SignedSigners THEN At(work, "return")
  ELSE IF ~ParseCSR(spec) THEN At(work, "fail") ELSE At(work, "sign")

\* IsCertificateRequestApproved: approved and not denied.
SignerHandle(spec, obj, work) ==
  IF ~Approved(obj) \/ Denied(obj) \/ spec.signer \notin SignedSigners THEN At(work, "return")
  ELSE IF ~ParseCSR(spec) THEN At(work, "fail") ELSE At(work, "sign")

\* HandleCSR of package csrapproval, with the recognizers it offers.
LibraryHandle(spec, obj, work) ==
  IF Decided(obj) THEN At(work, "return")
  ELSE IF ~ParseCSR(spec) THEN At(work, "fail")
  ELSE IF LibIsNodeClientCert(spec) \/ LibIsNodeServerCert(spec) THEN At(work, "validate") ELSE At(work, "return")

Handle(loop, spec, obj, work) ==
  CASE loop = "node" -> NodeHandle(spec, obj, work)
    [] loop = "istiod" -> IstiodHandle(spec, obj, work)
    [] loop = "oidc" -> OidcHandle(spec, obj, work)
    [] loop = "readonly" -> ReadonlyHandle(spec, obj, work)
    [] loop = "signer" -> SignerHandle(spec, obj, work)
    [] loop = "library" -> LibraryHandle(spec, obj, work)

\* syncFunc: a request that is gone, or has its certificate, needs nothing.  The
\* handler gets a copy of the cached one.
CsrTake(j) ==
  /\ j \in QueueReady(csrQueue)
  /\ LET obj == csrCache[j[2]]
         work == IF ~obj.exists \/ obj.cert THEN At(CsrIdle, "return")
                 ELSE Handle(j[1], Spec(j[2]), obj, [CsrIdle EXCEPT !.rv = obj.rv])
         got == QueueGet(csrQueue, j)
     IN  /\ csrWork' = [csrWork EXCEPT ![j] = IF work.pc \in {"return", "fail"} THEN CsrIdle ELSE work]
         /\ csrQueue' = CASE work.pc = "return" -> QueueDone(got, j)
                          [] work.pc = "fail" -> QueueDone([got EXCEPT !.delayed = @ \cup {j}], j)
                          [] OTHER -> got
  /\ UNCHANGED <<annVars, csr, csrCache, bound, csrPast>> /\ CsrUnchanged

\* A call that changes nothing but the handler: it fails, or what follows is next.
CsrCall(j, pc, next) ==
  /\ csrWork[j].pc = pc
  /\ \/ CsrFault /\ CsrFail(j)
     \/ next /\ UNCHANGED csrPast
  /\ UNCHANGED <<annVars, csr, csrCache, bound>> /\ CsrUnchanged

Decide(j, allowed) == CsrGoto(j, Decides(csrWork[j], allowed))

-----------------------------------------------------------------------------
(* The node approver: validateTPMAttestation, validateNodeServerCert and      *)
(* authorizeSAR.                                                             *)

VmName == "node"

\* ekPubAndIDFromAPI, and the comparison of the identity it read.  The key is that
\* of the VM there is now.
EkPubAndIDFromAPI(j) ==
  LET spec == Spec(j[2]) IN
  CsrCall(j, "identity",
    IF /\ spec.identity.json /\ spec.identity.name = VmName /\ vm.up /\ ~Flag("no key")
       /\ spec.identity.name = spec.cn.rest /\ spec.identity.project = ProjectParts
    THEN CsrGoto(j, [csrWork[j] EXCEPT !.pc = "instance", !.key = vm.id])
    ELSE Decide(j, FALSE))

Member == IF Flag("membership") THEN ClusterHasInstance(vm.id, csrScene.groups, csrScene.hint, csrScene.referrers) ELSE "yes"

\* The signature is by the key that was read, and the data is about the key asked for.
Attested(spec, key) == spec.attested = "yes" /\ spec.made = key

GetInstance(j) ==
  CsrCall(j, "instance",
    IF ~vm.up \/ Member = "no" THEN Decide(j, FALSE)
    ELSE IF Member = "error" THEN CsrFail(j)
    ELSE IF Attested(Spec(j[2]), csrWork[j].key) THEN CsrGoto(j, At(csrWork[j], "sar"))
    ELSE Decide(j, FALSE))

VmIp(id) == 10 + id
VmNatIp(id) == 20 + id
VmIfaces(id) == {[ip |-> VmIp(id), ipv6 |-> NoIp, nat |-> VmNatIp(id), external6 |-> NoIp]}

ServerAnswers(name) ==
  <<[zone |-> "z0", is |-> "not found", ifaces |-> {}],
    [zone |-> "z1", is |-> IF vm.up /\ name = VmName THEN "found" ELSE "not found", ifaces |-> VmIfaces(vm.id)]>>

CheckServer(j) ==
  CsrCall(j, "server",
    IF ValidateNodeServerCert(Spec(j[2]), ServerAnswers(Spec(j[2]).user.rest)) = "ok"
    THEN CsrGoto(j, At(csrWork[j], "sar")) ELSE Decide(j, FALSE))

\* A review that does not allow is an error.  The hook does nothing for an empty name.
AuthorizeSAR(j) ==
  CsrCall(j, "sar",
    IF ~granted THEN CsrFail(j)
    ELSE IF IsNodeClientCert(Spec(j[2])) /\ Spec(j[2]).cn.rest # "" THEN CsrGoto(j, At(csrWork[j], "node"))
    ELSE Decide(j, TRUE))

-----------------------------------------------------------------------------
(* ensureNodeMatchesMetadataOrDelete                                         *)

HookNode(j) ==
  CsrCall(j, "node",
    IF knode.exists
    THEN CsrGoto(j, [csrWork[j] EXCEPT !.pc = "vm", !.uid = knode.uid, !.inst = knode.id])
    ELSE IF Flag("clear") THEN CsrGoto(j, At(csrWork[j], "list")) ELSE Decide(j, TRUE))

\* Mutant: a Node of another VM is kept.
KeepsNode(inst) == ~vm.up

ShouldDeleteNode(inst) == ~vm.up \/ (Flag("clear") /\ inst # 0 /\ inst # vm.id)

HookVm(j) ==
  CsrCall(j, "vm",
    IF ShouldDeleteNode(csrWork[j].inst) THEN CsrGoto(j, At(csrWork[j], "delete")) ELSE Decide(j, TRUE))

\* What follows the deletion of the Node, and after it that of the pods.
HookEnds(j, failed) == IF failed THEN CsrFail(j) ELSE Decide(j, TRUE)

DeletePods(j, failed) ==
  IF Flag("clear") THEN CsrGoto(j, [csrWork[j] EXCEPT !.pc = "list", !.failed = failed]) ELSE HookEnds(j, failed)

\* Nodes().Delete, with the UID as a precondition; a reply may be lost.
HookDelete(j) ==
  LET gone == [NoNode EXCEPT !.uid = knode.uid] IN
  /\ csrWork[j].pc = "delete"
  /\ \/ /\ knode.exists /\ knode.uid = csrWork[j].uid
        /\ WriteNode(gone)
        /\ \/ DeletePods(j, FALSE) /\ UNCHANGED csrPast
           \/ DeletePods(j, TRUE) /\ CsrFault
     \/ /\ ~knode.exists
        /\ DeletePods(j, FALSE) /\ UNCHANGED <<knode, knodeCache, csrPast>>
     \/ /\ DeletePods(j, TRUE) /\ UNCHANGED <<knode, knodeCache>>
        /\ IF knode.exists /\ knode.uid # csrWork[j].uid THEN UNCHANGED csrPast ELSE CsrFault
  /\ UNCHANGED <<vm, annQueue, annWork, annSpent, csr, csrCache, bound>> /\ CsrUnchanged

\* deleteAllPodsBoundToNode lists the pods; an error ends it, and is only logged.
ListPods(j) ==
  LET pods == {i \in DOMAIN bound : bound[i] # "none"} IN
  /\ csrWork[j].pc = "list"
  /\ \/ /\ IF pods = {} THEN HookEnds(j, csrWork[j].failed)
           ELSE CsrGoto(j, [csrWork[j] EXCEPT !.pc = "clear", !.pods = pods])
        /\ UNCHANGED csrPast
     \/ CsrFault /\ HookEnds(j, csrWork[j].failed)
  /\ UNCHANGED <<annVars, csr, csrCache, bound>> /\ CsrUnchanged

NextPod(j, rest) ==
  IF rest = {} THEN HookEnds(j, csrWork[j].failed) ELSE CsrGoto(j, [csrWork[j] EXCEPT !.pods = rest])

\* markFailedAndDeletePodWithCondition: the status first, then the pod; either may fail.
MarkFailedAndDeletePod(j, i) ==
  /\ csrWork[j].pc = "clear" /\ i \in csrWork[j].pods
  /\ \/ /\ bound' = [bound EXCEPT ![i] = "none"]
        /\ csrPast' = [csrPast EXCEPT !.hurt = IF vm.up /\ i = vm.id THEN @ \cup {i} ELSE @]
     \/ bound' = bound /\ CsrFault
     \/ bound' = [bound EXCEPT ![i] = "failed"] /\ CsrFault
  /\ NextPod(j, csrWork[j].pods \ {i})
  /\ UNCHANGED <<annVars, csr, csrCache>> /\ CsrUnchanged

-----------------------------------------------------------------------------
(* The approver of readers, the approver of the library, and the signer.     *)

CheckReaders(j) ==
  LET is == ValidatePodAnnotation(Spec(j[2]), readers) IN
  CsrCall(j, "pods of reader",
    CASE is = "error" -> CsrFail(j) [] is = "deny" -> Decide(j, FALSE) [] is = "ok" -> CsrGoto(j, At(csrWork[j], "rbac")))

\* validateRbac, which denies what the review does not allow, and validateCommonName.
ValidateRbac(j) == CsrCall(j, "rbac", Decide(j, granted /\ ValidateCommonName(Spec(j[2]))))

\* The validators of the library that recognize a request, after the i-th.
LibraryTurns(spec, i) ==
  {v \in {1, 2} : v > i /\ IF v = 1 THEN LibIsNodeClientCert(spec) ELSE LibIsNodeServerCert(spec)}

\* Validate of the turn's validator, whose answer is its own.
LibraryValidate(j) ==
  CsrCall(j, "validate",
    \/ Decide(j, FALSE)
    \/ CsrGoto(j, [csrWork[j] EXCEPT !.pc = "review", !.key = CHOOSE v \in LibraryTurns(Spec(j[2]), @) :
                                                               \A w \in LibraryTurns(Spec(j[2]), @) : v <= w]))

\* A review that does not allow passes the request on; with no validator left it is an error.
LibraryReview(j) ==
  CsrCall(j, "review",
    IF granted \/ (csrWork[j].key = 2 /\ Flag("server role")) THEN CsrGoto(j, At(csrWork[j], "hook"))
    ELSE IF LibraryTurns(Spec(j[2]), csrWork[j].key) = {} THEN CsrFail(j)
    ELSE CsrGoto(j, At(csrWork[j], "validate")))

LibraryHook(j) == CsrCall(j, "hook", Decide(j, TRUE))

\* sign calls the service, again and again within its backoff.
Sign(j) == CsrCall(j, "sign", CsrGoto(j, At(csrWork[j], "status")))

Current(j) == csr[j[2]].exists /\ csr[j[2]].rv = csrWork[j].rv

\* A write of the request of j; a reply may be lost, and an outdated copy is refused.
CsrWrite(j, new) ==
  /\ \/ /\ Current(j)
        /\ csr' = [csr EXCEPT ![j[2]] = [new EXCEPT !.rv = @ + 1]]
        /\ \/ CsrReturn(j) /\ UNCHANGED csrPast
           \/ CsrFail(j) /\ CsrFault
     \/ /\ CsrFail(j) /\ UNCHANGED csr
        /\ IF Current(j) THEN CsrFault ELSE UNCHANGED csrPast
  /\ UNCHANGED <<annVars, csrCache, bound>> /\ CsrUnchanged

\* updateCSR, approve and deny: one more condition.
UpdateApproval(j) ==
  /\ csrWork[j].pc = "update"
  /\ CsrWrite(j, [csr[j[2]] EXCEPT !.conds = Append(@, csrWork[j].verdict), !.by = j[1]])

UpdateStatus(j) ==
  /\ csrWork[j].pc = "status"
  /\ CsrWrite(j, [csr[j[2]] EXCEPT !.cert = TRUE])

CertNext ==
  \/ Grant \/ ChangeReader \/ BindPod \/ RegisterWithCert \/ MachineSteps
  \/ \E c \in Csrs : CreateCsr(c) \/ DeleteCsr(c) \/ InformCsr(c)
  \/ \E j \in Jobs :
       \/ CsrDelayOver(j) \/ CsrTake(j) \/ EkPubAndIDFromAPI(j) \/ GetInstance(j) \/ CheckServer(j)
       \/ AuthorizeSAR(j) \/ HookNode(j) \/ HookVm(j) \/ HookDelete(j) \/ ListPods(j)
       \/ CheckReaders(j) \/ ValidateRbac(j) \/ LibraryValidate(j) \/ LibraryReview(j) \/ LibraryHook(j)
       \/ Sign(j) \/ UpdateApproval(j) \/ UpdateStatus(j)
       \/ \E i \in DOMAIN bound : MarkFailedAndDeletePod(j, i)

CertSpec == (\E meta \in Metas, faults \in {0, 1} : AnnInit(meta, faults)) /\ CsrInit /\ [][CertNext]_certVars

-----------------------------------------------------------------------------
(* Properties.                                                              *)

CertQuiet == csrCache = csr /\ QueueIdle(csrQueue)

CsrTypeOK ==
  \A j \in Jobs :
    /\ (csrWork[j].pc = "idle") <=> (j \notin csrQueue.processing)
    /\ csrWork[j].rv <= csr[j[2]].rv
    /\ csrWork[j].pc = "update" <=> csrWork[j].verdict # ""

\* A decision is never changed, and neither is a certificate taken back, though
\* approvers work on outdated copies and retry what succeeded.
DecisionIsFinal ==
  [][\A c \in Csrs : /\ Decided(csr[c]) => csr'[c].conds = csr[c].conds
                     /\ csr[c].cert => csr'[c].cert]_csr

\* Only what was approved, and nothing that was denied, gets a certificate.
SignedWasApproved == \A c \in Csrs : csr[c].cert => csr[c].conds = <<"approved">>

\* What an approver may approve, whatever validators say in whatever order: the
\* names are those of the one who asks, or of the VM that attests.
ApprovedAsAsked ==
  \A c \in Csrs : Approved(csr[c]) =>
    LET spec == Spec(c)
        uses == Range(spec.usages)
    IN  CASE csr[c].by = "node" ->
               /\ csrPast.granted /\ spec.cn.prefix = "system:node:" /\ spec.others = {}
               /\ \/ /\ spec.signer = "kubelet-client" /\ uses \subseteq KubeletClientUsages
                     /\ spec.dns = {} /\ spec.ips = {}
                     /\ \/ spec.user.rest = "kubelet" /\ Flag("legacy")
                        \/ /\ spec.identity.name = spec.cn.rest /\ spec.attested = "yes"
                           /\ Flag("membership") => \E g \in Range(csrScene.groups) : spec.made \in g.members \/ g.url \in csrScene.referrers
                  \/ /\ spec.signer = "kubelet-serving" /\ uses \subseteq KubeletServerUsages
                     /\ spec.user = spec.cn /\ spec.ips # {}
                     /\ \E i \in 1 .. vm.id : spec.ips \subseteq {VmIp(i), VmNatIp(i)}
          [] csr[c].by = "istiod" ->
               spec.signer = "istiod" /\ \A n \in spec.dns : Len(n) = 3 /\ n[2] = "istio-system"
          [] csr[c].by = "oidc" -> spec.signer = "oidc" /\ uses \subseteq {"client", "server"}
          [] csr[c].by = "readonly" ->
               csrPast.granted /\ spec.signer = "kubelet-readonly" /\ "server" \notin uses
          [] OTHER -> csrPast.granted \/ Flag("server role")

\* Who, of the loops, is to decide a request.
Responsible(c) ==
  LET spec == Spec(c) IN
  \/ "node" \in csrScene.loops /\ Matching(spec, Flag("legacy")) # <<>>
  \/ spec.signer \in {"istiod", "oidc"} \cap csrScene.loops
  \/ spec.signer = "kubelet-readonly" /\ "readonly" \in csrScene.loops
  \/ "library" \in csrScene.loops /\ LibraryTurns(spec, 0) # {}

\* Once the loops rest, every request that is there and that one of them is to decide
\* is decided, and what was approved for a signer they serve has its certificate.
CsrsSettle ==
  CertQuiet => \A c \in Csrs : csr[c].exists =>
    /\ Responsible(c) => Decided(csr[c])
    /\ Approved(csr[c]) /\ Spec(c).signer \in SignedSigners /\ "signer" \in csrScene.loops => csr[c].cert

\* When the client certificate of a VM is approved, the Node that the approver saw
\* and that has the id of an earlier VM is gone.
StaleNodesGo ==
  [][\A c \in Csrs :
       /\ ~Approved(csr[c]) /\ Approved(csr'[c]) /\ csr'[c].by = "node"
       /\ IsNodeClientCert(Spec(c)) /\ Flag("clear") /\ csrWork[<<"node", c>>].inst # 0
       => ~(knode.exists /\ knode.uid = csrWork[<<"node", c>>].uid /\ knode.id < Spec(c).made)]_csr

\* A request never costs a pod of the VM that is there, unless a VM asked again
\* before it had a Node of its own, or a reply was lost.
NewPodsStay == csrPast.hurt = {} \/ csrPast.early \/ csrPast.faults > 0

\* Requests are decided, the right ones are approved, and none costs a VM its pods.
RequestsSettle == CsrTypeOK /\ ApprovedAsAsked /\ CsrsSettle /\ NewPodsStay
=============================================================================
