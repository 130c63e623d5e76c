---------------------------- MODULE NodeAddresses ----------------------------
(***************************************************************************)
(* The addresses of a node, as the provider reads them from the VM (for     *)
(* other nodes) or from the metadata server (for its own), and their order. *)
(* An address is [type, family, text]; what is not an IP address, such as a *)
(* host name or the empty text, has family 0.  The metadata server and the  *)
(* cloud are external and describe the same interfaces.                     *)
(***************************************************************************)
EXTENDS Integers, SequencesExt

CONSTANTS
  Nics,            \* interfaces: [v4, nats, v6, access, ext]; nats and ext are sequences of texts
  MaxNics,
  MetaRequests     \* the kinds of requests to the metadata server: "nics", "v4", "v6", "configs", "nat", "hostname"

VARIABLES
  nics,            \* the interfaces of the VM
  stackV6,         \* whether the cluster has IPv6 only
  metaFails,       \* requests that the metadata server does not answer
  addresses        \* [api, meta]: [ok, list]

addrVars == <<nics, stackV6, metaFails, addresses>>

Address(type, family, text) == [type |-> type, family |-> family, text |-> text]
Failed == [ok |-> FALSE, list |-> <<>>]
Texts(type, family, texts) == [i \in DOMAIN texts |-> Address(type, IF texts[i] = "" THEN 0 ELSE family, texts[i])]
NonEmpty(text) == text # ""
Opt(type, family, text) == Texts(type, family, SelectSeq(<<text>>, NonEmpty))

AddrInit ==
  /\ nics \in BoundedSeq(Nics, MaxNics)
  /\ stackV6 \in BOOLEAN
  /\ \E f \in MetaRequests : metaFails \in {{}, {f}}
  /\ addresses = [api |-> Failed, meta |-> Failed]

\* Mutant: addresses of the other family come first.
OrderOthers(list) ==
  LET preferred(a) == a.family = 0 \/ (a.family = 6) = stackV6
      other(a) == ~preferred(a)
  IN  SelectSeq(list, other) \o SelectSeq(list, preferred)

\* orderAddresses
OrderAddresses(list) ==
  LET preferred(a) == a.family = 0 \/ (a.family = 6) = stackV6
      other(a) == ~preferred(a)
  IN  SelectSeq(list, preferred) \o SelectSeq(list, other)

\* getIPV6AddressFromInterface: the last external address, if there is no internal one.
Ipv6Of(nic) == IF nic.v6 = "" /\ nic.access = "EXTERNAL" /\ nic.ext # <<>> THEN Last(nic.ext) ELSE nic.v6

\* nodeAddressesFromInstance: an access configuration without an address counts too.
FromInstance(vm) ==
  LET ofNic(nic) == Opt("internal", 4, nic.v4) \o Texts("external", 4, nic.nats) \o Opt("internal", 6, Ipv6Of(nic))
  IN  IF vm = <<>> THEN Failed
      ELSE [ok |-> TRUE, list |-> OrderAddresses(FlattenSeq([i \in DOMAIN vm |-> ofNic(vm[i])]))]

\* The IPv6 addresses of an interface, as the metadata server lists them.
MetaIpv6s(nic) == SelectSeq(<<nic.v6>> \o (IF nic.access = "EXTERNAL" THEN nic.ext ELSE <<>>), NonEmpty)

\* The requests without an answer to which NodeAddresses returns an error, of those it makes.
MetaFatal(vm) ==
  {"nics"} \cup {r \in {"v4", "configs"} : vm # <<>>} \cup {r \in {"nat"} : \E i \in DOMAIN vm : vm[i].nats # <<>>}

\* NodeAddresses of the node itself; only the IPv6 addresses and the host name may be missing.
FromMetadata(vm) ==
  LET v6(nic) == IF "v6" \in metaFails \/ MetaIpv6s(nic) = <<>> THEN <<>> ELSE Opt("internal", 6, Head(MetaIpv6s(nic)))
      ofNic(nic) == Opt("internal", 4, nic.v4) \o v6(nic) \o Texts("external", 4, SelectSeq(nic.nats, NonEmpty))
      name == IF "hostname" \in metaFails THEN <<>> ELSE <<Address("dns", 0, "host"), Address("hostname", 0, "host")>>
  IN  IF MetaFatal(vm) \cap metaFails # {} THEN Failed
      ELSE [ok |-> TRUE, list |-> OrderAddresses(FlattenSeq([i \in DOMAIN vm |-> ofNic(vm[i])]) \o name)]

AskAddresses ==
  /\ addresses' = [api |-> FromInstance(nics), meta |-> FromMetadata(nics)]
  /\ UNCHANGED <<nics, stackV6, metaFails>>

AddrNext == AskAddresses

-----------------------------------------------------------------------------
(* Properties                                                               *)

IsIp(a) == a.family # 0

\* Both ways give the same IP addresses in the same order, for interfaces with at most one IPv6 address, when the
\* metadata server answers.
AddressesAgree ==
  addresses.api.ok /\ addresses.meta.ok /\ "v6" \notin metaFails /\ (\A i \in DOMAIN nics : Len(MetaIpv6s(nics[i])) <= 1) =>
    SelectSeq(addresses.api.list, IsIp) = SelectSeq(addresses.meta.list, IsIp)

\* The first IP address, which becomes the node's, is of the preferred family if the node has one of that family.
PreferredIsFirst ==
  \A way \in {"api", "meta"} :
    LET ips == SelectSeq(addresses[way].list, IsIp)
        preferred == IF stackV6 THEN 6 ELSE 4
    IN  (\E i \in DOMAIN ips : ips[i].family = preferred) => Head(ips).family = preferred

\* A node's addresses do not depend on whom the provider asks, and come in the order of the families.
AddressesAreRight == AddressesAgree /\ PreferredIsFirst
=============================================================================
