------------------------------ MODULE CsrForms ------------------------------
(***************************************************************************)
(* What the approvers of the GCP controller manager read in a certificate   *)
(* signing request.  A request is a record:                                  *)
(*   signer, user, usages (a sequence), pem (the pieces of Spec.Request),    *)
(*   der (whether the x509 request in it parses), org, cn, others (other     *)
(*   kinds of subject names), dns (a set of names, each a sequence of        *)
(*   labels), ips, identity, attested, pods and made (the VM that made it).  *)
(* A user or common name is [prefix, rest], cut where the code compares it.  *)
(***************************************************************************)
EXTENDS Naturals, Sequences, FiniteSets, Functions

CONSTANTS
  ProjectParts,    \* the project id, cut at its colons
  ZonePrefixes     \* the locations whose names are prefixes of the zone of a VM

Name(prefix, rest) == [prefix |-> prefix, rest |-> rest]
NodeUser(node) == Name("system:node:", node)
IstiodUser(rest) == Name(IF rest = "" THEN "istio:istiod" ELSE "istio:istiod-", rest)
OidcUser(rest) == Name("anthos:gke-oidc", rest)
ReaderUser(rest) == Name("sa:", rest)
PlainUser(rest) == Name("", rest)
IsServiceAccount(user) == user.prefix \in {"istio:istiod", "istio:istiod-", "anthos:gke-oidc", "sa:"}

\* certutil.ParseCSR reads the first PEM block.
ParseCSR(spec) ==
  LET blocks == SelectSeq(spec.pem, LAMBDA b : b # "junk") IN
  blocks # <<>> /\ Head(blocks) = "CERTIFICATE REQUEST" /\ spec.der

\* pem.Decode skips what is before a block, so only what follows the last one is an error.
ParsePEMBlocks(pem) ==
  LET blocks == Range(pem) \ {"junk"} IN
  [ok |-> blocks # {} /\ pem[Len(pem)] # "junk", blocks |-> blocks]

\* As many usages as asked for, and none of them another; a repeated usage may stand
\* in the place of one that is missing.
HasExactUsages(spec, usages) ==
  Len(spec.usages) = Cardinality(usages) /\ \A i \in DOMAIN spec.usages : spec.usages[i] \in usages

KubeletClientUsages == {"encipherment", "signature", "client"}
KubeletClientUsagesNoEncipherment == {"signature", "client"}
KubeletServerUsages == {"encipherment", "signature", "server"}
KubeletServerUsagesNoEncipherment == {"signature", "server"}

-----------------------------------------------------------------------------
(* The validators of the node approver.                                     *)

IsNodeCert(spec) == spec.org = <<"system:nodes">> /\ spec.others = {} /\ spec.cn.prefix = "system:node:"

IsNodeClientCert(spec) ==
  /\ IsNodeCert(spec)
  /\ spec.signer = "kubelet-client"
  /\ spec.dns = {} /\ spec.ips = {}
  /\ HasExactUsages(spec, KubeletClientUsagesNoEncipherment) \/ HasExactUsages(spec, KubeletClientUsages)

IsLegacyNodeClientCert(spec) == IsNodeClientCert(spec) /\ spec.user = PlainUser("kubelet")

IsNodeServerCert(spec) ==
  /\ IsNodeCert(spec)
  /\ spec.signer = "kubelet-serving"
  /\ HasExactUsages(spec, KubeletServerUsagesNoEncipherment) \/ HasExactUsages(spec, KubeletServerUsages)
  /\ spec.user = spec.cn

TpmAttestationBlocks == {"CERTIFICATE REQUEST", "VM IDENTITY", "ATTESTATION DATA", "ATTESTATION SIGNATURE"}

IsNodeClientCertWithAttestation(spec) ==
  LET parsed == ParsePEMBlocks(spec.pem) IN
  /\ IsNodeClientCert(spec)
  /\ spec.user = PlainUser("kubelet-bootstrap")
  /\ parsed.ok /\ TpmAttestationBlocks \subseteq parsed.blocks

CsrValidators(allowLegacy) == <<"tpm", "server">> \o (IF allowLegacy THEN <<"legacy">> ELSE <<>>)

Recognize(validator, spec) ==
  CASE validator = "tpm" -> IsNodeClientCertWithAttestation(spec)
    [] validator = "server" -> IsNodeServerCert(spec)
    [] validator = "legacy" -> IsLegacyNodeClientCert(spec)

\* The first validator that recognizes a request, if any: <<>> or <<validator>>.
Matching(spec, allowLegacy) ==
  LET those == SelectSeq(CsrValidators(allowLegacy), LAMBDA v : Recognize(v, spec)) IN
  SubSeq(those, 1, IF those = <<>> THEN 0 ELSE 1)

\* getInstanceIps: an interface is [ip, ipv6, nat, external6], NoIp where there is none.
NoIp == 0

GetInstanceIps(ifaces) ==
  {i.ip : i \in ifaces} \cup ((UNION {{i.ipv6, i.nat, i.external6} : i \in ifaces}) \ {NoIp})

\* The project as it stands in DNS names: a domain-scoped project is turned around.
ProjectDns == IF Len(ProjectParts) = 1 THEN ProjectParts ELSE <<ProjectParts[2], ProjectParts[1]>>

InstanceNames(instance, zone) ==
  {<<instance>>, <<instance, "c">> \o ProjectDns \o <<"internal">>,
   <<instance, zone, "c">> \o ProjectDns \o <<"internal">>}

\* validateNodeServerCert.  answers is what the API says of the VM, zone by zone:
\* [zone, is ("found", "not found" or "error"), ifaces].  The first zone that does
\* not say "not found" decides.
ValidateNodeServerCert(spec, answers) ==
  LET told == SelectSeq(answers, LAMBDA a : a.is # "not found") IN
  IF spec.ips = {} \/ spec.others # {} \/ told = <<>> THEN "deny"
  ELSE IF Head(told).is = "error" THEN "error"
  ELSE IF /\ Len(ProjectParts) <= 2
          /\ spec.dns \subseteq InstanceNames(spec.user.rest, Head(told).zone)
          /\ spec.ips \subseteq GetInstanceIps(Head(told).ifaces) THEN "ok"
  ELSE "deny"

-----------------------------------------------------------------------------
(* Whether a VM is part of the cluster.  A group is [url, parses, name,      *)
(* location, members, fails]: whether its URL can be parsed, the ids of its  *)
(* VMs and whether the call that lists them fails.                           *)

\* validateInstanceGroupHint: the last group that the hint names; no group when the
\* hint is empty or any URL cannot be parsed.
ValidateInstanceGroupHint(groups, hint) ==
  IF hint.parses /\ \A i \in DOMAIN groups : groups[i].parses
  THEN LET named == SelectSeq(groups, LAMBDA g : g.name = hint.name /\ g.location = hint.location)
       IN SubSeq(named, Len(named), Len(named))
  ELSE <<>>

\* checkInstanceReferrers, tried again until it finds one: is one of the groups, as
\* manager or as instance group, in the list?
CheckInstanceReferrers(referrers, groups) == {g.url : g \in Range(groups)} \cap referrers # {}

GroupErrs(g) == ~g.parses \/ (g.location \in ZonePrefixes /\ g.fails)
GroupHasInstance(g, id) == g.parses /\ g.location \in ZonePrefixes /\ ~g.fails /\ id \in g.members

\* clusterHasInstance: a group that has the VM settles it, whatever failed before.
ClusterHasInstance(id, groups, hint, referrers) ==
  LET tried == ValidateInstanceGroupHint(groups, hint) \o groups IN
  IF CheckInstanceReferrers(referrers, groups) \/ \E i \in DOMAIN tried : GroupHasInstance(tried[i], id) THEN "yes"
  ELSE IF \E i \in DOMAIN tried : GroupErrs(tried[i]) THEN "error" ELSE "no"

-----------------------------------------------------------------------------
(* The approvers of istiod, of the OIDC service and of the readers of the    *)
(* kubelet API; and the signer.                                              *)

IsDNS1035Label(part) == part # "Bad_Label"

DomainNames(names, hosts, namespaces) ==
  \A n \in names : /\ \A i \in DOMAIN n : IsDNS1035Label(n[i])
                   /\ Len(n) = 3 /\ n[3] = "svc" /\ n[2] \in namespaces /\ n[1] \in hosts

IstiodDomainNames(names) ==
  DomainNames(names, {"istiod", "istiod-remote", "istio-pilot", "istiod-x"}, {"istio-system"})

OidcDomainNames(names) ==
  DomainNames(names, {"gke-oidc-envoy", "gke-oidc-x"}, {"anthos-identity-service", "kube-system"})

\* The checks of istiodApprover.handle, any of which denies.
IstiodAllows(spec) ==
  /\ HasExactUsages(spec, {"encipherment", "signature", "server"})
  /\ ParseCSR(spec)
  /\ spec.others = {} /\ spec.ips = {}
  /\ spec.cn \in {PlainUser(""), spec.user}
  /\ spec.user.prefix \in {"istio:istiod", "istio:istiod-"}
  /\ spec.user.prefix = "istio:istiod" => spec.user.rest = ""
  /\ IstiodDomainNames(spec.dns)

OidcAllows(spec) ==
  /\ HasExactUsages(spec, {"client", "server"})
  /\ ParseCSR(spec)
  /\ spec.others = {}
  /\ spec.user.prefix = "anthos:gke-oidc"
  /\ OidcDomainNames(spec.dns)

ValidateCSRUsage(spec) ==
  spec.usages # <<>> /\ \A i \in DOMAIN spec.usages : spec.usages[i] \in KubeletClientUsages

\* validatePodAnnotation up to its look at the pods.  A user that is not a service
\* account is an error, not a denial.
PodNamesGiven(spec) == spec.pods.given /\ Len(spec.pods.names) = Len(spec.pods.uids) /\ spec.user # PlainUser("")

\* ... and on them: pods says "reader", "plain" or "absent" of each; the first that is
\* not a reader decides.
ValidatePodAnnotation(spec, pods) ==
  LET others == SelectSeq(spec.pods.names, LAMBDA p : pods[p] # "reader") IN
  IF ~PodNamesGiven(spec) THEN "deny"
  ELSE IF ~IsServiceAccount(spec.user) THEN "error"
  ELSE IF others = <<>> THEN "ok"
  ELSE IF pods[Head(others)] = "absent" THEN "error" ELSE "deny"

ValidateCommonName(spec) == spec.cn.prefix = "kubelet-ro-client:"

SignedSigners == {"", "api-client", "kubelet-client", "kubelet-serving", "legacy-unknown", "istiod", "oidc", "kubelet-readonly"}

-----------------------------------------------------------------------------
(* The recognizers that package csrapproval offers: they ask for no signer   *)
(* and let URIs pass.                                                        *)

LibIsNodeCert(spec) == spec.org = <<"system:nodes">> /\ "email" \notin spec.others /\ spec.cn.prefix = "system:node:"

LibIsNodeClientCert(spec) ==
  /\ LibIsNodeCert(spec)
  /\ spec.dns = {} /\ spec.ips = {}
  /\ HasExactUsages(spec, KubeletClientUsagesNoEncipherment) \/ HasExactUsages(spec, KubeletClientUsages)

LibIsNodeServerCert(spec) ==
  /\ LibIsNodeCert(spec)
  /\ HasExactUsages(spec, KubeletServerUsagesNoEncipherment) \/ HasExactUsages(spec, KubeletServerUsages)
  /\ spec.user = spec.cn
=============================================================================
