------------------------ MODULE MCControllerManager ------------------------
(* TLC instances of the loops of the GCP controller manager: direct path     *)
(* with workload identity, the annotator, the certificate loops and the CA   *)
(* cache.  A behaviour is about one of them, chosen at the start; the others *)
(* rest in an initial state.                                                 *)
EXTENDS DirectPath, CertApprovers, CaCache

CONSTANT Parts
VARIABLE part

\* Direct path.  Scenes that start at rest, and one that starts with the process.
MCDpPods == [p \in {"p1", "p2"} |-> [ksa |-> "k", node |-> IF p = "p1" THEN "n1" ELSE "n2"]]
DpScene(running, pods, nodes, changes, most, faults) ==
  [running |-> running, sa |-> [k \in Ksas |-> "g1"], grants |-> {"k"} \X Gsas, pods |-> pods, changes |-> changes,
   zone |-> [n \in DpNodes |-> IF n \in nodes THEN "zone" ELSE Absent], most |-> most, faults |-> faults]
MCDpScenes ==
  {DpScene(TRUE, {"p1"}, {"n1", "n2"}, {"sa", "pod"}, 2, 0), DpScene(TRUE, {"p1"}, {"n1"}, {"grant", "resync"}, 2, 1),
   DpScene(TRUE, {}, {}, {"configmap", "sa"}, 2, 2), DpScene(TRUE, {"p1"}, {"n1"}, {"node"}, 2, 1),
   [DpScene(FALSE, {"p1"}, {"n1"}, {"sa"}, 1, 1) EXCEPT !.grants = {<<"k", "g1">>}],
   DpScene(TRUE, {"p1"}, {"n1"}, {"sa", "resync"}, 2, 0)}

\* The annotator: no metadata, metadata that cannot be parsed, labels of two VMs.
Meta(labels, request, termination, taints) ==
  [labels |-> labels, request |-> request, termination |-> termination, taints |-> taints]
EmptyMeta == Meta(LabelText(Unset, NoLabels), Unset, Unset, Unset)
MCMetas == {EmptyMeta, Meta(LabelText(Malformed, NoLabels), "r", Unset, Malformed),
            Meta(LabelText("parsed", ("pool" :> "a") @@ ("m" :> "1")), Unset, "soon", "t1"),
            Meta(LabelText("parsed", "pool" :> "b"), "r", Unset, Unset)}
MCUserLabels == "mine" :> "x"

\* Certificates.  Plain is a request that nobody is to decide.
MCProject == <<"proj">>
Attestation == <<"CERTIFICATE REQUEST", "VM IDENTITY", "ATTESTATION DATA", "ATTESTATION SIGNATURE">>
Plain ==
  [signer |-> "other", user |-> PlainUser("kubelet"), usages |-> <<"signature", "client">>,
   pem |-> <<"CERTIFICATE REQUEST">>, der |-> TRUE, org |-> <<"system:nodes">>, cn |-> NodeUser("node"),
   others |-> {}, dns |-> {}, ips |-> {}, attested |-> "yes", made |-> 0,
   identity |-> [json |-> TRUE, name |-> "node", project |-> MCProject],
   pods |-> [given |-> FALSE, names |-> <<>>, uids |-> <<>>]]
Legacy(i) == [Plain EXCEPT !.signer = "kubelet-client", !.made = i]
Tpm(i) == [Legacy(i) EXCEPT !.user = PlainUser("kubelet-bootstrap"), !.pem = Attestation]
Server(i) ==
  [Plain EXCEPT !.signer = "kubelet-serving", !.made = i, !.user = NodeUser("node"), !.usages = <<"signature", "server">>,
                !.ips = {VmIp(i), VmNatIp(i)}, !.dns = {<<"node", "c", "proj", "internal">>}]
Istiod ==
  [Plain EXCEPT !.signer = "istiod", !.user = IstiodUser(""), !.cn = PlainUser(""),
                !.usages = <<"signature", "server", "encipherment">>, !.dns = {<<"istiod", "istio-system", "svc">>}]
Oidc ==
  [Plain EXCEPT !.signer = "oidc", !.user = OidcUser("x"), !.cn = PlainUser("x"), !.usages = <<"client", "server">>,
                !.dns = {<<"gke-oidc-x", "kube-system", "svc">>}]
Reader ==
  [Plain EXCEPT !.signer = "kubelet-readonly", !.user = ReaderUser("ns"), !.cn = Name("kubelet-ro-client:", "x"),
                !.pods = [given |-> TRUE, names |-> <<"p">>, uids |-> <<"u">>]]
BothUses == [Server(0) EXCEPT !.usages = <<"signature", "signature">>, !.ips = {}, !.dns = {}]
Group(name, location, members) ==
  [url |-> name, parses |-> TRUE, name |-> name, location |-> location, members |-> members, fails |-> FALSE]
CsrScene(a, b, loops, flags, happens, faults) ==
  [specs |-> ("c1" :> a) @@ ("c2" :> b), loops |-> loops, flags |-> flags, happens |-> happens, faults |-> faults,
   groups |-> <<Group("g1", "z1", {1, 2}), Group("g2", "us", {})>>, hint |-> Group("g2", "us", {}), referrers |-> {}]

\* A VM that replaces another; one that asks twice; the older kubelet, and roles that
\* come late; the other approvers; and the approver of the library.
LongScenes ==
  {CsrScene(Tpm(2), Plain, {"node", "signer"}, {"clear"}, {"vm", "preempt", "annotate"}, 1),
   CsrScene(Tpm(1), Tpm(1), {"node", "signer"}, {"clear"}, {"vm", "annotate"}, 0),
   CsrScene(Legacy(1), Server(1), {"node", "signer"}, {"legacy", "clear"}, {"vm", "grant"}, 0),
   CsrScene(Istiod, [Oidc EXCEPT !.dns = {<<"web">>}], {"istiod", "oidc", "signer"}, {}, {"clean"}, 0),
   CsrScene([Istiod EXCEPT !.ips = {1}], Oidc, {"istiod", "oidc", "signer"}, {}, {}, 1),
   CsrScene(Reader, [Reader EXCEPT !.cn = NodeUser("x")], {"readonly", "signer"}, {"autopilot"}, {"reader"}, 1),
   CsrScene(BothUses, Legacy(0), {"library"}, {"server role"}, {"grant"}, 1)}

\* Requests that differ from a good one in one respect, and groups that do.
Faulty ==
  {[Tpm(1) EXCEPT !.identity.json = FALSE], [Tpm(1) EXCEPT !.attested = "data"], [Tpm(1) EXCEPT !.der = FALSE],
   [Tpm(1) EXCEPT !.pem = Append(@, "junk")], [Tpm(1) EXCEPT !.cn = NodeUser("other")], [Legacy(1) EXCEPT !.cn = NodeUser("")],
   [Server(1) EXCEPT !.ips = {VmIp(2)}], [Server(1) EXCEPT !.dns = {<<"web">>}], [Server(1) EXCEPT !.ips = {}]}
MCGroups ==
  {<<Group("g2", "us", {2})>>, <<Group("g1", "eu", {1}), Group("g2", "us", {})>>,
   <<[Group("g2", "us", {1}) EXCEPT !.parses = FALSE]>>, <<[Group("g2", "us", {1}) EXCEPT !.fails = TRUE], Group("g3", "z1", {1})>>}
ShortScenes ==
  {CsrScene(Tpm(1), b, {"node"}, {"membership", "legacy"}, {}, 0) : b \in Faulty}
  \cup {[CsrScene(Tpm(1), Plain, {"node", "signer"}, {"membership"}, {}, 0) EXCEPT !.groups = g, !.referrers = r] :
          r \in {{}, {"g2"}}, g \in MCGroups}
MCCsrScenes == LongScenes \cup ShortScenes

\* The CA cache: a good certificate, and one of another CA.
Leaf(issuers, chains, lists) == [issuers |-> issuers, chains |-> chains, lists |-> lists]
MCLeaves == {Leaf(<<"x", "inter">>, TRUE, <<"leafcrl">>), Leaf(<<"x">>, TRUE, <<"leafcrl">>)}
MCInterLists == <<"intercrl">>

dpRest == dpScene = (CHOOSE s \in DpScenes : TRUE) /\ DpInit
csrRest == csrScene = (CHOOSE s \in CsrScenes : TRUE) /\ CsrInit

Init ==
  /\ part \in Parts
  /\ IF part = "direct path" THEN DpInit ELSE dpRest
  /\ IF part = "annotator" THEN \E m \in Metas : AnnInit(m, 0) ELSE AnnInit(EmptyMeta, 1)
  /\ IF part = "certificates" THEN CsrInit ELSE csrRest
  /\ CaInit

\* With certificates the VMs have no metadata.
Next ==
  /\ UNCHANGED part
  /\ \/ part = "direct path" /\ DpNext /\ UNCHANGED <<annVars, csrVars, caVars>>
     \/ part = "annotator" /\ (PreemptVm \/ StartVm \/ RemoveNode \/ Register \/ EditLabels \/ AnnNext) /\ UNCHANGED <<dpVars, csrVars, caVars>>
     \/ part = "certificates" /\ CertNext /\ vm'.meta = EmptyMeta /\ UNCHANGED <<dpVars, caVars>>
     \/ part = "cache" /\ CaNext /\ UNCHANGED <<dpVars, annVars, csrVars>>
MCSpec == Init /\ [][Next]_<<part, dpVars, annVars, csrVars, caVars>>
=============================================================================
