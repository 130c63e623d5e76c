----------------------------- MODULE MCProvider -----------------------------
(* TLC instances of the GCE provider.  A behaviour is about one part of it,  *)
(* chosen at the start.                                                      *)
EXTENDS Volumes, ClusterId, CloudSetup, TpuOps, NodeAddresses

CONSTANT Parts
VARIABLE part

MCManagedZones == <<"z1", "z2">>
MCVmTags ==
  [n \in VmNames |-> {[tag |-> "all", len |-> 2, prefix |-> n = "a"], [tag |-> n, len |-> 1, prefix |-> TRUE],
                      [tag |-> "http", len |-> 4, prefix |-> FALSE]}]

\* Calls of two callers, the VMs and disks there are at the start, and what else may happen.
Of(op) == [NoJob EXCEPT !.op = op, !.vm = "a"]
On(op) == [Of(op) EXCEPT !.disk = "d", !.kind = "zonal"]
About(op) == [NoJob EXCEPT !.op = op, !.disk = "d", !.kind = "zonal"]
Disk(kind, zones, id) == [kind |-> kind, name |-> "d", zones |-> zones, size |-> 1, id |-> id]
Scene(vms, first, second, changes, faults) ==
  [vms |-> vms, todo |-> ("c1" :> first) @@ ("c2" :> second), changes |-> changes, faults |-> faults,
   disks |-> {}, labels |-> [n \in Nodes |-> NoNode], relabels |-> 0]
A1 == {<<"z1", "a">>}
A2 == {<<"z2", "a">>}
Ssh(key) == [NoJob EXCEPT !.op = "ssh", !.key = key]
Tags(hosts) == [NoJob EXCEPT !.op = "tags", !.hosts = hosts]
Route(op, cluster, hint) == [Of(op) EXCEPT !.cluster = cluster, !.hint = hint, !.dest = "cidr"]
Long == <<"my", "long", "name">>
InstScenes ==
  {Scene(A2, <<Of("exists")>>, <<Of("metadata")>>, 2, 1),
   Scene(A2, <<[Of("exists") EXCEPT !.pid = "z2"]>>, <<[Of("metadata") EXCEPT !.pid = "z2"], Of("zone")>>, 2, 1),
   Scene(A1 \cup {<<"z2", "b">>}, <<Tags({"a", "b"}), Tags({"a", "b"})>>, <<Tags({"a"}), Tags({"a", "b"})>>, 1, 1),
   Scene({}, <<Ssh("k1")>>, <<Ssh("k2"), Ssh("k1")>>, 0, 2),
   Scene(A2, <<Route("route", Long, "h"), Route("routes", Long, "")>>,
         <<Route("route", Long, "h"), Route("route", <<"my">>, "h"), Route("routes", <<"my">>, ""), Route("unroute", Long, "h")>>, 1, 1)}
VolScenes ==
  {[Scene(A1 \cup {<<"z2", "b">>}, <<On("attach"), On("detach"), On("attached")>>,
          <<[On("bulk") EXCEPT !.vm = "", !.hosts = {"a", "b"}], About("delete")>>, 1, 1) EXCEPT !.disks = {Disk("zonal", {"z1"}, 1)}],
   [Scene(A2, <<On("attach"), On("detach")>>, <<[On("attach") EXCEPT !.kind = "regional", !.ro = TRUE], On("attached")>>, 1, 1)
      EXCEPT !.disks = {Disk("zonal", {"z2"}, 1), Disk("regional", Zones, 2)}]}
  \cup {[Scene({}, <<About("delete"), About("delete")>>,
              <<[About("create") EXCEPT !.zones = {"z1"}, !.size = 2], [About("resize") EXCEPT !.size = 3]>>, 0, 1)
          EXCEPT !.disks = ds, !.labels = [n \in Nodes |-> [topology |-> "z1", beta |-> "z2"]], !.relabels = 1] :
          ds \in {{}, {Disk("zonal", {"z2"}, 1)}, {Disk("zonal", {"z1"}, 1), Disk("zonal", {"z2"}, 2)},
                  {Disk("regional", Zones, 1), Disk("zonal", {"z2"}, 2)}}}
  \cup {[Scene({}, <<[About("create") EXCEPT !.kind = "regional", !.zones = Zones, !.size = 2, !.type = "pd-ssd"], About("resize")>>,
              <<[About("labels") EXCEPT !.zones = hint], [About("create") EXCEPT !.zones = {"z2"}, !.type = "other"], About("delete")>>, 0, 1)
          EXCEPT !.labels = [n \in Nodes |-> [topology |-> NoLabel, beta |-> IF n = "n1" THEN "z1" ELSE "z2"]], !.disks = {Disk("zonal", {"z2"}, 1)}] :
          hint \in {{}, {"z2"}, Zones}}

MCIdThreads == ("t1" :> "p1") @@ ("t2" :> "p2")

\* Configurations: none, projects by name and by number, one project or two, URLs and names of networks.
Meta == [project |-> Project("p", "name"), zone |-> "z1", network |-> "net"]
Files ==
  {NoFile,
   [NoFile EXCEPT !.project = Project("p", "number"), !.regional = TRUE, !.subnet = Url(NoProject, "", "sub")],
   [NoFile EXCEPT !.project = Project("p", "number"), !.netProject = Project("p", "name"), !.zone = "z2", !.multizone = TRUE],
   [NoFile EXCEPT !.project = Project("p", "number"), !.netProject = Project("host", "number"), !.zone = "z2",
                  !.network = Url(NoProject, "", "shared")],
   [NoFile EXCEPT !.netProject = Project("host", "number"), !.network = Url(Project("host", "name"), "", "shared"),
                  !.subnet = Url(Project("host", "name"), "r", "sub")]}
Subnet(name, auto) == [name |-> name, auto |-> auto]
MCSetupScenes ==
  [file : Files, meta : {Meta}, zones : {("z1" :> "r") @@ ("z2" :> "r") @@ ("z3" :> "s")}, network : {[range |-> "10/8", auto |-> FALSE], [range |-> "", auto |-> TRUE], [range |-> "", auto |-> FALSE]},
   subnets : {{Subnet("a", TRUE), Subnet("b", FALSE)}, {Subnet("a", TRUE), Subnet("b", TRUE)}}, faults : {2}]

\* Interfaces with and without addresses of each kind, and with an access configuration that has no address.
MCNics ==
  {[v4 |-> v4, nats |-> nats, v6 |-> v6, access |-> IF ext = <<>> THEN "INTERNAL" ELSE "EXTERNAL", ext |-> ext] :
     v4 \in {"", "10.0.0.1"}, nats \in {<<>>, <<"34.0.0.1", "">>}, v6 \in {"", "fd00::1"}, ext \in {<<>>, <<"2600::1">>}}

\* One part moves; the others rest in one of their initial states.
RestScene == Scene({}, <<>>, <<>>, 0, 0)
RestSetup == CHOOSE s \in SetupScenes : TRUE
MCInit ==
  /\ part \in Parts
  /\ IF part = "instances" THEN \E s \in InstScenes : VolInit(s)
     ELSE IF part = "volumes" THEN \E s \in VolScenes : VolInit(s) ELSE VolInit(RestScene)
  /\ IdInit
  /\ IF part = "setup" THEN \E s \in SetupScenes : SetupInit(s) ELSE SetupInit(RestSetup)
  /\ TpuInit /\ (part = "tpu" \/ tpu)
  /\ AddrInit /\ (part = "addresses" \/ (nics = <<>> /\ ~stackV6 /\ metaFails = {}))
MCNext ==
  /\ UNCHANGED part
  /\ \/ part \in {"instances", "volumes"} /\ VolNext /\ UNCHANGED <<idVars, setupVars, tpuVars, addrVars>>
     \/ part = "cluster id" /\ IdNext /\ UNCHANGED <<volVars, setupVars, tpuVars, addrVars>>
     \/ part = "setup" /\ SetupNext /\ UNCHANGED <<volVars, idVars, tpuVars, addrVars>>
     \/ part = "tpu" /\ TpuNext /\ UNCHANGED <<volVars, idVars, setupVars, addrVars>>
     \/ part = "addresses" /\ AddrNext /\ UNCHANGED <<volVars, idVars, setupVars, tpuVars>>
MCSpec == MCInit /\ [][MCNext]_<<volVars, idVars, setupVars, tpuVars, addrVars, part>>

\* What a call of the provider answered, about VMs, tags, routes, keys or TPUs, was true at some moment of the call.
AnswersAreTrue == CallsAreTrue /\ TpuAnswersAreTrue
=============================================================================
