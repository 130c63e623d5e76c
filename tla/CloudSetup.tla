------------------------------ MODULE CloudSetup ------------------------------
(***************************************************************************)
(* Setting up the GCE provider from its configuration, the metadata server  *)
(* and the cloud, and the subnetwork and the type of the network, which are *)
(* looked up once, when the first thread asks for them.  A project is given *)
(* by name or by number; URLs are records.  The metadata server and the     *)
(* cloud are external, and any request to them may fail.                    *)
(***************************************************************************)
EXTENDS Integers, FiniteSets

CONSTANTS
  SetupScenes,     \* [file, meta, zones, network, subnets, faults]
  SetupThreads,
  TokenTries       \* the steps of the backoff of newOauthClient

VARIABLES
  setup,           \* [pc, tries, config, cloud]
  once,            \* the sync.Once: "new", the thread that runs it, or "done"
  asks,            \* [SetupThreads -> [pc, subnet, legacy]]
  world            \* the scene, with the faults left, and the lookups that failed

setupVars == <<setup, once, asks, world>>

Project(name, form) == [name |-> name, form |-> form]       \* form is "name" or "number"
NoProject == Project("", "name")
Url(project, region, name) == [project |-> project, region |-> region, name |-> name]
NoUrl == Url(NoProject, "", "")
\* The file, or what stands for it when there is none.
NoFile == [project |-> NoProject, netProject |-> NoProject, zone |-> "", network |-> NoUrl, subnet |-> NoUrl,
           multizone |-> FALSE, regional |-> FALSE]
NoConfig == [project |-> NoProject, netProject |-> NoProject, zone |-> "", all |-> FALSE, network |-> NoUrl, subnet |-> NoUrl]
NoCloud == [project |-> NoProject, netProject |-> NoProject, network |-> NoUrl, subnet |-> NoUrl, legacy |-> FALSE, zones |-> {}]
NoAsk == [pc |-> "idle", subnet |-> NoUrl, legacy |-> FALSE]

SetupInit(scene) ==
  /\ setup = [pc |-> "generate", tries |-> 0, config |-> NoConfig, cloud |-> NoCloud]
  /\ once = "new"
  /\ asks = [t \in SetupThreads |-> NoAsk]
  /\ world = [scene |-> scene, faults |-> scene.faults, failed |-> {}]

-----------------------------------------------------------------------------
(* generateCloudConfig and CreateGCECloud.                                  *)

SetupFails(what) == world.faults > 0 /\ world' = [world EXCEPT !.faults = @ - 1, !.failed = @ \cup {what}]
Region(zone) == world.scene.zones[zone]

\* A network or subnetwork without a slash is a name, and its URL is put together from the project and the region.
IsName(url) == url.project = NoProject /\ url.name # ""

Configured(file, meta) ==
  [project |-> IF file.project = NoProject THEN meta.project ELSE file.project,
   netProject |-> IF file.netProject # NoProject THEN file.netProject
                  ELSE IF file.project = NoProject THEN meta.project ELSE file.project,
   zone |-> IF file.zone = "" THEN meta.zone ELSE file.zone,
   all |-> file.multizone \/ file.regional,
   network |-> IF file.network = NoUrl THEN Url(NoProject, "", meta.network) ELSE file.network,
   subnet |-> file.subnet]

GenerateCloudConfig ==
  LET file == world.scene.file
      asksMeta == file.project = NoProject \/ file.zone = "" \/ file.network = NoUrl
  IN  /\ setup.pc = "generate"
      /\ \/ setup' = [setup EXCEPT !.pc = "token", !.config = Configured(file, world.scene.meta)] /\ UNCHANGED world
         \/ asksMeta /\ SetupFails("metadata") /\ setup' = [setup EXCEPT !.pc = "failed"]
      /\ UNCHANGED <<once, asks>>

\* newOauthClient waits for a first token, with a backoff.
FirstToken ==
  /\ setup.pc = "token"
  /\ \/ setup' = [setup EXCEPT !.pc = "project"] /\ UNCHANGED world
     \/ /\ SetupFails("token")
        /\ setup' = [setup EXCEPT !.tries = @ + 1, !.pc = IF setup.tries + 1 = TokenTries THEN "failed" ELSE @]
  /\ UNCHANGED <<once, asks>>

\* tryConvertToProjectNames: a number that cannot be looked up stays.
ConvertProject ==
  LET given == setup.config.project IN
  /\ setup.pc = "project"
  /\ \/ /\ setup' = [setup EXCEPT !.pc = "network project", !.cloud.project = Project(given.name, "name")]
        /\ UNCHANGED world
     \/ /\ given.form = "number" /\ SetupFails("project")
        /\ setup' = [setup EXCEPT !.pc = "network project", !.cloud.project = given]
  /\ UNCHANGED <<once, asks>>

ConvertNetworkProject ==
  LET given == IF setup.config.netProject = setup.config.project THEN setup.cloud.project ELSE setup.config.netProject IN
  /\ setup.pc = "network project"
  /\ \/ /\ setup' = [setup EXCEPT !.pc = "zones", !.cloud.netProject = Project(given.name, "name")]
        /\ UNCHANGED world
     \/ /\ given.form = "number" /\ SetupFails("network project")
        /\ setup' = [setup EXCEPT !.pc = "zones", !.cloud.netProject = given]
  /\ UNCHANGED <<once, asks>>

FullUrl(url, project, region) == IF IsName(url) THEN Url(project, region, url.name) ELSE url

Created(zones) ==
  [setup.cloud EXCEPT !.network = FullUrl(setup.config.network, setup.cloud.netProject, ""), !.zones = zones,
                      !.subnet = FullUrl(setup.config.subnet, setup.cloud.netProject, Region(setup.config.zone))]

GetZonesForRegion(region) == {z \in DOMAIN world.scene.zones : Region(z) = region}

\* The zones of the region, or the one of the configuration; then the provider is complete.
CreateGCECloud ==
  LET zone == setup.config.zone
      zones == IF setup.config.all THEN GetZonesForRegion(Region(zone)) ELSE {zone}
  IN  /\ setup.pc = "zones"
      /\ \/ setup' = [setup EXCEPT !.pc = "ready", !.cloud = Created(zones)] /\ UNCHANGED world
         \/ setup.config.all /\ SetupFails("zones") /\ setup' = [setup EXCEPT !.pc = "failed"]
      /\ UNCHANGED <<once, asks>>

-----------------------------------------------------------------------------
(* SubnetworkURL and IsLegacyNetwork, with their sync.Once.                 *)

Read(t) == asks' = [asks EXCEPT ![t] = [pc |-> "done", subnet |-> setup.cloud.subnet, legacy |-> setup.cloud.legacy]]

\* Mutant: a thread that finds the lookup under way does not wait.
AskUnsynced(t) ==
  /\ setup.pc = "ready" /\ asks[t].pc = "idle"
  /\ \/ once # "new" /\ Read(t) /\ UNCHANGED once
     \/ once = "new" /\ once' = t /\ asks' = [asks EXCEPT ![t].pc = "network"]
  /\ UNCHANGED <<setup, world>>

AskNetwork(t) ==
  /\ setup.pc = "ready" /\ asks[t].pc = "idle"
  /\ \/ once = "done" /\ Read(t) /\ UNCHANGED once
     \/ once = "new" /\ once' = t /\ asks' = [asks EXCEPT ![t].pc = "network"]
  /\ UNCHANGED <<setup, world>>

\* The once is over, with what was found; the thread then reads it.
OnceDone(t, subnet, legacy) ==
  /\ setup' = [setup EXCEPT !.cloud.subnet = subnet, !.cloud.legacy = legacy]
  /\ once' = "done"
  /\ asks' = [asks EXCEPT ![t] = NoAsk]

TypeOfNetwork(net) == IF net.range # "" THEN "legacy" ELSE IF net.auto THEN "auto" ELSE "custom"

\* initializeSubnetworkURLAndIsLegacyNetwork; errors are only logged.
InitializeNetwork(t) ==
  LET net == TypeOfNetwork(world.scene.network) IN
  /\ asks[t].pc = "network"
  /\ \/ setup.cloud.subnet # NoUrl /\ OnceDone(t, setup.cloud.subnet, setup.cloud.legacy) /\ UNCHANGED world
     \/ setup.cloud.subnet = NoUrl /\ net # "auto" /\ OnceDone(t, NoUrl, net = "legacy") /\ UNCHANGED world
     \/ /\ setup.cloud.subnet = NoUrl /\ net = "auto" /\ asks' = [asks EXCEPT ![t].pc = "subnets"]
        /\ UNCHANGED <<setup, once, world>>
     \/ setup.cloud.subnet = NoUrl /\ SetupFails("network") /\ OnceDone(t, NoUrl, FALSE)

\* The links of the subnetworks of the network in the region that are in the range of automatic ones.
AutoSubnets ==
  {Url(Project(setup.config.netProject.name, "name"), Region(setup.config.zone), s.name) :
     s \in {r \in world.scene.subnets : r.auto}}

\* determineSubnetURL: the only automatic subnetwork.
DetermineSubnetURL(t) ==
  /\ asks[t].pc = "subnets"
  /\ \/ OnceDone(t, IF Cardinality(AutoSubnets) = 1 THEN CHOOSE url \in AutoSubnets : TRUE ELSE NoUrl, FALSE) /\ UNCHANGED world
     \/ SetupFails("subnets") /\ OnceDone(t, NoUrl, FALSE)

SetupNext ==
  \/ GenerateCloudConfig \/ FirstToken \/ ConvertProject \/ ConvertNetworkProject \/ CreateGCECloud
  \/ \E t \in SetupThreads : AskNetwork(t) \/ InitializeNetwork(t) \/ DetermineSubnetURL(t)

-----------------------------------------------------------------------------
(* Properties                                                               *)

OnXPN == setup.cloud.project # setup.cloud.netProject

\* OnXPN is true just if the network is in another project, however the projects are given, unless a number could
\* not be looked up.
XpnIsTrue ==
  setup.pc = "ready" /\ world.failed \cap {"project", "network project"} = {} =>
    (OnXPN <=> setup.config.project.name # setup.config.netProject.name)

\* The URLs of the network and of the subnetwork name the project of the network, also where the configuration has
\* only a name.
NetworkIsInItsProject ==
  setup.pc = "ready" =>
    \A url \in {setup.cloud.network, setup.cloud.subnet} \ {NoUrl} : url.project.name = setup.config.netProject.name

\* All threads are told the same of the network, and, unless a lookup failed, what is true: a failed lookup is not
\* repeated.
NetworkIsTrue ==
  LET told == {asks[t] : t \in {u \in SetupThreads : asks[u].pc = "done"}}
  IN  /\ Cardinality(told) <= 1
      /\ world.failed \cap {"network", "subnets"} = {} => \A a \in told :
           /\ a.legacy <=> (world.scene.network.range # "" /\ setup.config.subnet = NoUrl)
           /\ setup.config.subnet = NoUrl /\ world.scene.network = [range |-> "", auto |-> TRUE] /\ Cardinality(AutoSubnets) = 1 => a.subnet \in AutoSubnets

\* What the provider knows of its projects and its network is true, however it came to know it.
SetupIsTrue == XpnIsTrue /\ NetworkIsInItsProject /\ NetworkIsTrue
=============================================================================
