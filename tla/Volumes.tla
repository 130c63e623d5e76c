------------------------------- MODULE Volumes -------------------------------
(***************************************************************************)
(* Persistent disks of the GCE provider: creating, deleting, resizing,      *)
(* attaching and detaching them, and the zones that have nodes.  The name   *)
(* of a zonal disk is unique in its zone only, and a regional disk may have *)
(* the same name, so that the provider has to look for a disk.  Sizes that  *)
(* are asked for are in units of 1/SizeUnit GiB.                            *)
(***************************************************************************)
EXTENDS Instances

CONSTANTS
  Nodes,
  NoLabel,         \* the value of a label that is not set
  SizeUnit,
  MaxDiskId

VARIABLES
  disks,           \* set of [kind, name, zones, size, id]
  labels,          \* the labels of the nodes: [Nodes -> [topology, beta]], or NoNode
  nodeCache,       \* the same, as the node informer has it
  nodeZones,       \* [Zones -> SUBSET Nodes]
  diskIds          \* the last id, and how often labels may still change

diskVars == <<disks, labels, nodeCache, nodeZones, diskIds>>
volVars == <<instVars, diskVars>>

NoNode == [topology |-> NoLabel, beta |-> NoLabel]

\* getZone; a node without a zone is like no node.
GetZone(node) == IF node.topology # NoLabel THEN node.topology ELSE node.beta

VolInit(scene) ==
  /\ InstInit(scene)
  /\ disks = scene.disks
  /\ labels = scene.labels
  /\ nodeCache = [n \in Nodes |-> NoNode]
  /\ nodeZones = [z \in Zones |-> {}]
  /\ diskIds = [last |-> Cardinality(scene.disks), labels |-> scene.relabels]

DiskFacts(job) ==
  {[disk |-> d] : d \in {e \in disks : e.name = job.disk}}
    \cup {[without |-> i] : i \in IF job.op = "delete" THEN 1..MaxDiskId \ {d.id : d \in disks} ELSE {}}
    \cup {[usable |-> z] : z \in IF job.op = "create" THEN {GetZone(nodeCache[n]) : n \in Nodes} ELSE {}}

Facts(job) == InstFacts(job) \cup DiskFacts(job)

-----------------------------------------------------------------------------
(* SetInformers, updateNodeZones: the informer passes on the latest state.  *)

ChangeLabels ==
  /\ diskIds.labels > 0
  /\ \E n \in Nodes, t, b \in Zones \cup {NoLabel} : labels' = [labels EXCEPT ![n] = [topology |-> t, beta |-> b]]
  /\ diskIds' = [diskIds EXCEPT !.labels = @ - 1]
  /\ UNCHANGED <<instState, disks, nodeCache, nodeZones>>

UpdateNodeZones(n, prev, new) ==
  [z \in Zones |-> (nodeZones[z] \ {m \in {n} : GetZone(prev) = z}) \cup {m \in {n} : GetZone(new) = z}]

InformNode(n) ==
  /\ nodeCache[n] # labels[n]
  /\ nodeCache' = [nodeCache EXCEPT ![n] = labels[n]]
  /\ nodeZones' = UpdateNodeZones(n, nodeCache[n], labels[n])
  /\ UNCHANGED <<instState, disks, labels, diskIds>>

GetAllCurrentZones == {z \in Zones : nodeZones[z] # {}}

-----------------------------------------------------------------------------
(* Requests to the cloud.                                                   *)

Stored(kind, zones, name) ==
  {d \in disks : d.name = name /\ d.kind = kind /\ (kind = "regional" \/ d.zones = zones)}
FindDiskByName(name, zone) == Stored("zonal", {zone}, name)
Only(set) == CHOOSE d \in set : TRUE
InUse(id) == \E z \in Zones, n \in VmNames : \E a \in machine[z, n].disks : a.id = id
OnlyDisks == UNCHANGED <<machine, routes, sshKeys, tagCache, tagLock, todo, labels, nodeCache, nodeZones>>
Ask == OnlyDisks /\ UNCHANGED <<disks, diskIds>>
AnswerDisk(call, d) == Answer(call, [NoAnswer EXCEPT !.ok = TRUE, !.disk = d])

\* getDiskType: an empty type stands for the default.
ValidType(type) == type \in {"", "pd-ssd", "pd-standard"}

\* CreateDisk and CreateRegionalDisk: the zones must have nodes.
CreateDisk(c) ==
  LET call == calls[c] IN
  /\ call.pc = "create"
  /\ Become(c, IF call.job.zones \subseteq GetAllCurrentZones /\ ValidType(call.job.type)
               THEN [call EXCEPT !.pc = "insert disk"] ELSE Fail(call))
  /\ NoFault /\ Ask

\* The disk that is asked for, and the answer, which does not depend on what the cloud made of it; that of a zonal disk
\* lacks its name.
Asked(job) == [kind |-> job.kind, name |-> job.disk, zones |-> job.zones, size |-> job.size, id |-> 0]
AnswerNew(call) == AnswerDisk(call, [Asked(call.job) EXCEPT !.name = IF call.job.kind = "regional" THEN @ ELSE ""])

\* Insert; a disk that exists is used again, and a reply may be lost.
InsertDisk(c) ==
  LET call == calls[c]
      new == disks \cup {[Asked(call.job) EXCEPT !.id = diskIds.last + 1]}
      exists == Stored(call.job.kind, call.job.zones, call.job.disk) # {}
  IN  /\ call.pc = "insert disk"
      /\ \/ ~exists /\ disks' = new /\ Become(c, AnswerNew(call)) /\ NoFault
         \/ exists /\ Become(c, [call EXCEPT !.pc = "reuse"]) /\ UNCHANGED disks /\ NoFault
         \/ Fault /\ disks' \in {disks, IF exists THEN disks ELSE new} /\ Become(c, Fail(call))
      /\ diskIds' = [diskIds EXCEPT !.last = @ + Cardinality(disks') - Cardinality(disks)]
      /\ OnlyDisks

ReuseDisk(c) ==
  LET call == calls[c]
      there == Stored(call.job.kind, call.job.zones, call.job.disk)
  IN  /\ call.pc = "reuse"
      /\ \/ Become(c, IF there # {} THEN AnswerDisk(call, Only(there)) ELSE Fail(call)) /\ NoFault
         \/ Fault /\ Become(c, Fail(call))
      /\ Ask

-----------------------------------------------------------------------------
(* Looking for a disk: what the calls do with it, and without it.           *)

RoundUpToGiB(size) == (size + SizeUnit - 1) \div SizeUnit

\* The labels of a volume tell its zones.
GetAutoLabels(call, d) == AnswerDisk(call, [NoDisk EXCEPT !.zones = d.zones])

WhenDisk(call, d) ==
  CASE call.job.op = "delete" -> [call EXCEPT !.pc = "delete disk", !.disk = d]
    [] call.job.op = "resize" ->
         IF d.size >= RoundUpToGiB(call.job.size)
         THEN Answer(call, [NoAnswer EXCEPT !.ok = TRUE, !.size = RoundUpToGiB(call.job.size)])
         ELSE [call EXCEPT !.pc = "resize disk", !.disk = d]
    [] call.job.op = "labels" -> GetAutoLabels(call, d)

WhenNoDisk(call) == IF call.job.op = "delete" THEN Succeed(call) ELSE Fail(call)

\* GetDiskByNameUnknownZone first asks for a regional disk; an error counts as none.  A volume with a zone label
\* names its zones instead.
FindRegionalDisk(c) ==
  LET call == calls[c]
      there == Stored("regional", {}, call.job.disk)
  IN  /\ call.pc = "find" /\ call.job.zones = {}
      /\ \/ Become(c, IF there # {} THEN WhenDisk(call, Only(there)) ELSE [call EXCEPT !.pc = "scan"]) /\ NoFault
         \/ Fault /\ Become(c, [call EXCEPT !.pc = "scan", !.blind = TRUE])
      /\ Ask

\* getDiskByNameAndOptionalLabelZones with labels.
FindLabelledDisk(c) ==
  LET call == calls[c]
      there == Stored(IF Cardinality(call.job.zones) > 1 THEN "regional" ELSE "zonal", call.job.zones, call.job.disk)
  IN  /\ call.pc = "find" /\ call.job.zones # {}
      /\ \/ Become(c, IF there # {} THEN WhenDisk(call, Only(there)) ELSE Fail(call)) /\ NoFault
         \/ Fault /\ Become(c, Fail(call))
      /\ Ask

\* Mutant: the first disk that is found is taken.
ScanToFirst(c) ==
  LET call == calls[c]
      there == FindDiskByName(call.job.disk, Head(call.zones))
  IN  /\ call.pc = "scan"
      /\ IF call.zones = <<>> THEN Become(c, WhenNoDisk(call)) /\ NoFault
         ELSE \/ Become(c, IF there # {} THEN WhenDisk(call, Only(there)) ELSE [call EXCEPT !.zones = Tail(@)]) /\ NoFault
              \/ Fault /\ Become(c, Fail(call))
      /\ Ask

\* Then it asks in all zones, and a disk in two of them is an error.
ScanZones(c) ==
  LET call == calls[c]
      there == FindDiskByName(call.job.disk, Head(call.zones))
  IN  /\ call.pc = "scan"
      /\ IF call.zones = <<>>
         THEN Become(c, IF call.disk.id # 0 THEN WhenDisk(call, call.disk) ELSE WhenNoDisk(call)) /\ NoFault
         ELSE \/ /\ Become(c, IF there = {} THEN [call EXCEPT !.zones = Tail(@)]
                              ELSE IF call.disk.id # 0 THEN Fail(call)
                              ELSE [call EXCEPT !.zones = Tail(@), !.disk = Only(there)])
                 /\ NoFault
              \/ Fault /\ Become(c, Fail(call))
      /\ Ask

\* What deleting and resizing ask for is the disk's name and where it was found, not its id.
Target(call) == Stored(call.disk.kind, call.disk.zones, call.job.disk)

\* DeleteDisk: the cloud refuses to delete a disk in use.
DeleteDisk(c) ==
  LET call == calls[c]
      can == Target(call) # {} /\ \A d \in Target(call) : ~InUse(d.id)
  IN  /\ call.pc = "delete disk"
      /\ \/ can /\ disks' = disks \ Target(call) /\ Become(c, Answer(call, [NoAnswer EXCEPT !.ok = TRUE, !.disk = call.disk]))
           /\ NoFault
         \/ ~can /\ UNCHANGED disks /\ Become(c, Fail(call)) /\ NoFault
         \/ Fault /\ disks' \in {disks, IF can THEN disks \ Target(call) ELSE disks} /\ Become(c, Fail(call))
      /\ UNCHANGED diskIds /\ OnlyDisks

\* ResizeDisk: the cloud refuses to make a disk smaller.
ResizeDisk(c) ==
  LET call == calls[c]
      size == RoundUpToGiB(call.job.size)
      can == \E d \in Target(call) : d.size < size
      new == (disks \ Target(call)) \cup {[d EXCEPT !.size = size] : d \in Target(call)}
  IN  /\ call.pc = "resize disk"
      /\ \/ can /\ disks' = new /\ Become(c, Answer(call, [NoAnswer EXCEPT !.ok = TRUE, !.size = size])) /\ NoFault
         \/ ~can /\ UNCHANGED disks /\ Become(c, Fail(call)) /\ NoFault
         \/ Fault /\ disks' \in {disks, IF can THEN new ELSE disks} /\ Become(c, Fail(call))
      /\ UNCHANGED diskIds /\ OnlyDisks

-----------------------------------------------------------------------------
(* Attaching and detaching.                                                 *)

OnlyMachine == UNCHANGED <<routes, sshKeys, tagCache, tagLock, todo, diskVars>>

\* AttachDisk asks for the disk, a zonal one in the zone of the VM.
FindDiskToAttach(c) ==
  LET call == calls[c]
      there == IF call.job.kind = "regional" THEN Stored("regional", {}, call.job.disk)
               ELSE FindDiskByName(call.job.disk, call.inst.zone)
  IN  /\ call.pc = "attach"
      /\ \/ Become(c, IF there # {} THEN [call EXCEPT !.pc = "attach disk", !.disk = Only(there)] ELSE Fail(call)) /\ NoFault
         \/ Fault /\ Become(c, Fail(call))
      /\ Ask

\* The cloud refuses a second device of the name, and to share a disk that one VM may write.
Attachable(call, d) ==
  /\ Exists(call.inst.zone, call.job.vm)
  /\ ~Has(machine[call.inst.zone, call.job.vm].disks, call.job.disk)
  /\ \A z \in Zones, n \in VmNames : \A a \in machine[z, n].disks : a.id = d.id => a.ro /\ call.job.ro

AttachDisk(c) ==
  LET call == calls[c]
      can == \E d \in Target(call) : Attachable(call, d)
      device == [name |-> call.job.disk, id |-> Only(Target(call)).id, ro |-> call.job.ro]
      new == [machine EXCEPT ![call.inst.zone, call.job.vm].disks = @ \cup {device}]
  IN  /\ call.pc = "attach disk"
      /\ \/ can /\ machine' = new /\ Become(c, Succeed(call)) /\ NoFault
         \/ ~can /\ UNCHANGED machine /\ Become(c, Fail(call)) /\ NoFault
         \/ Fault /\ machine' \in {machine, IF can THEN new ELSE machine} /\ Become(c, Fail(call))
      /\ OnlyMachine

DetachDisk(c) ==
  LET call == calls[c]
      can == Has(machine[call.inst.zone, call.job.vm].disks, call.job.disk)
      new == [machine EXCEPT ![call.inst.zone, call.job.vm].disks = {d \in @ : d.name # call.job.disk}]
  IN  /\ call.pc = "detach"
      /\ \/ machine' = new /\ Become(c, IF can THEN Succeed(call) ELSE Fail(call)) /\ NoFault
         \/ Fault /\ machine' \in {machine, new} /\ Become(c, Fail(call))
      /\ OnlyMachine

-----------------------------------------------------------------------------
VolNext ==
  /\ \/ InstStep /\ UNCHANGED diskVars
     \/ ChangeLabels
     \/ \E n \in Nodes : InformNode(n)
     \/ \E c \in Callers :
          \/ CreateDisk(c) \/ InsertDisk(c) \/ ReuseDisk(c)
          \/ FindRegionalDisk(c) \/ FindLabelledDisk(c) \/ ScanZones(c) \/ DeleteDisk(c) \/ ResizeDisk(c)
          \/ FindDiskToAttach(c) \/ AttachDisk(c) \/ DetachDisk(c)
  /\ Watch(Facts)

-----------------------------------------------------------------------------
(* Properties                                                               *)

\* A DeleteDisk that succeeded leaves no disk of the name that was there all the time, except a zonal disk that a
\* regional one of the same name hid, or when the regional disk could not be looked up.
DeletedDiskIsGone ==
  \A c \in Callers : Succeeded(c, "delete") =>
    \A f \in past[c] : "disk" \in DOMAIN f =>
      \/ [without |-> f.disk.id] \in past[c] \/ calls[c].blind
      \/ calls[c].ans.disk.kind = "regional" /\ f.disk.kind = "zonal"

\* The size that ResizeDisk answers is as large as asked for, and the disk had that size at some moment.
ResizeIsTrue ==
  \A c \in Callers : Succeeded(c, "resize") =>
    /\ calls[c].ans.size * SizeUnit >= calls[c].job.size
    /\ \E f \in past[c] : "disk" \in DOMAIN f /\ f.disk.size >= calls[c].ans.size

\* What CreateDisk and the labels of a volume say of the disk was true of a disk of that name at some moment, though
\* the disk may be one that was there before, with another size.
DiskAnswersAreTrue ==
  \A c \in Callers :
    LET said == calls[c].ans.disk
        seen == {f \in past[c] : "disk" \in DOMAIN f}
    IN  /\ Succeeded(c, "create") => \E f \in seen : [f.disk EXCEPT !.id = 0, !.name = ""] = [said EXCEPT !.id = 0, !.name = ""]
        /\ Succeeded(c, "labels") => \E f \in seen : f.disk.zones = said.zones

\* A disk is created only in zones in which the node informer knew of a node at some moment of the call.
DisksAreUsable ==
  \A c \in Callers : Succeeded(c, "create") => \A z \in calls[c].job.zones : [usable |-> z] \in past[c]

\* nodeZones has every node in its zone and in no other, however the labels of nodes come and go.
NodeZonesAgree == \A z \in Zones : nodeZones[z] = {n \in Nodes : GetZone(nodeCache[n]) = z}

\* What the provider says of an attachment (also by succeeding in detaching) was true at some moment, unless VMs of
\* the same name were in two zones.
AttachmentAnswersAreTrue ==
  \A c \in Callers :
    LET call == calls[c]
        free(n) == Saw(c, "free", n, "", 0) \/ Saw(c, "doubled", n, "", 0)
        held(n) == Saw(c, "held", n, "", 0)
    IN  /\ Succeeded(c, "detach") => free(call.job.vm)
        /\ Succeeded(c, "attached") => IF call.ans.is THEN held(call.job.vm) ELSE free(call.job.vm)
        /\ Succeeded(c, "bulk") => \A h \in call.job.hosts : IF h \in call.ans.on THEN held(h) ELSE free(h)

\* What a call said of disks was true at some moment of it, and nodeZones follows the nodes.
DisksAreTrue ==
  /\ DeletedDiskIsGone /\ ResizeIsTrue /\ DiskAnswersAreTrue /\ AttachmentAnswersAreTrue
  /\ DisksAreUsable /\ NodeZonesAgree
=============================================================================
