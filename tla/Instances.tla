------------------------------ MODULE Instances ------------------------------
(***************************************************************************)
(* What the GCE provider says of VMs and routes: callers (the controllers   *)
(* of the cloud controller manager) run their calls against the cloud, one  *)
(* request to the cloud a step, while VMs come and go.  A name is unique in *)
(* a zone only, and the provider looks through its zones one by one.  The   *)
(* cloud, the VMs and the callers are external.  Node tags are not given in *)
(* the configuration.                                                       *)
(***************************************************************************)
EXTENDS Integers, FiniteSets, SequencesExt, TLC

CONSTANTS
  ManagedZones,    \* a sequence of zones
  VmNames,
  VmTags,          \* [VmNames -> set of [tag, len, prefix]]: whether the tag is a prefix of the name
  Callers,
  MaxClusterName   \* clusters are sequences of words; how many words truncateClusterName leaves

VARIABLES
  machine,         \* [zone, name -> [id, disks]]; the id is 0 where there is no VM, disks are [name, id, ro]
  routes,          \* set of [name, dest, zone, vm, by]; by is the cluster that made it
  sshKeys,         \* the project's metadata: [keys, print]
  tagCache,        \* lastKnownNodeNames, lastComputedNodeTags; whether a host was missing then
  tagLock,         \* the caller that holds computeNodeTagLock, or Nobody
  calls, todo,     \* the call of every caller, and the jobs it has yet to do
  past,            \* facts that held at some moment of the call
  instLeft         \* faults and changes of VMs that may still happen; the next id

instState == <<machine, routes, sshKeys, tagCache, tagLock, calls, todo, instLeft>>
instVars == <<instState, past>>

Nobody == "nobody"
Zones == ToSet(ManagedZones)
NoVm == [id |-> 0, disks |-> {}]
NoDisk == [kind |-> "none", name |-> "", zones |-> {}, size |-> 0, id |-> 0]
NoInst == [zone |-> "", id |-> 0, disks |-> {}]

\* pid is the zone in the node's provider id, if it has one.
NoJob == [op |-> "", vm |-> "", pid |-> "", hosts |-> {}, cluster |-> <<>>, hint |-> "", dest |-> "", key |-> "",
          disk |-> "", ro |-> FALSE, kind |-> "", zones |-> {}, type |-> "", size |-> 0]
NoAnswer == [ok |-> FALSE, is |-> FALSE, zone |-> "", id |-> 0, tags |-> {}, on |-> {}, routes |-> {}, size |-> 0,
             disk |-> NoDisk]
Idle == [job |-> NoJob, pc |-> "idle", zones |-> <<>>, inst |-> NoInst, found |-> <<>>, left |-> {},
         partial |-> FALSE, seen |-> [keys |-> {}, print |-> 0], disk |-> NoDisk, blind |-> FALSE, ans |-> NoAnswer]

VmAt(z, n) == [zone |-> z, id |-> machine[z, n].id, disks |-> machine[z, n].disks]
Exists(z, n) == machine[z, n].id # 0

\* Where a call starts; the calls about disks are those of module Volumes.
FirstPc(job) ==
  CASE job.op \in {"exists", "metadata"} /\ job.pid # "" -> "by id"
    [] job.op \in {"exists", "metadata", "zone", "route", "attach", "detach", "attached"} -> "by name"
    [] job.op \in {"tags"} -> "tags"
    [] job.op \in {"bulk"} -> "list"
    [] job.op \in {"ssh"} -> "get keys"
    [] job.op \in {"delete", "resize", "labels"} -> "find"
    [] OTHER -> job.op

NewCall(job) ==
  [Idle EXCEPT !.job = job, !.pc = FirstPc(job), !.zones = ManagedZones, !.inst.zone = job.pid,
               !.found = [h \in job.hosts |-> NoInst]]

InstInit(scene) ==
  /\ machine = [zn \in Zones \X VmNames |-> IF zn \in scene.vms THEN [id |-> 1, disks |-> {}] ELSE NoVm]
  /\ routes = {}
  /\ sshKeys = [keys |-> {"old"}, print |-> 0]
  /\ tagCache = [hosts |-> {}, tags |-> {}, partial |-> FALSE]
  /\ tagLock = Nobody
  /\ calls = [c \in Callers |-> Idle]
  /\ todo = scene.todo
  /\ past = [c \in Callers |-> {}]
  /\ instLeft = [faults |-> scene.faults, changes |-> scene.changes, id |-> 2]

-----------------------------------------------------------------------------
(* Facts about the cloud, collected while a call runs.                      *)

Fact(f, n, z, i) == [f |-> f, n |-> n, z |-> z, i |-> i]
In(n) == {z \in Zones : Exists(z, n)}
Has(devices, disk) == \E d \in devices : d.name = disk
Holds(n, disk) == \E z \in Zones : Has(machine[z, n].disks, disk)
RouteName(job) == SubSeq(job.cluster, 1, IF Len(job.cluster) > MaxClusterName THEN MaxClusterName ELSE Len(job.cluster))
                  \o <<job.hint>>

InstFacts(job) ==
  LET names == job.hosts \cup ({job.vm} \ {""})
  IN  {Fact("absent", n, "", 0) : n \in {m \in names : In(m) = {}}}
        \cup {Fact("doubled", n, "", 0) : n \in {m \in names : Cardinality(In(m)) > 1}}
        \cup {Fact("at", n, z, machine[z, n].id) : n \in {m \in names : job.op \in {"exists", "metadata", "zone"}}, z \in Zones}
        \cup {Fact(IF Holds(n, job.disk) THEN "held" ELSE "free", n, "", 0) : n \in {m \in names : job.disk # ""}}
        \cup {Fact("routed", r.vm, "", 0) : r \in {s \in routes : s.name = RouteName(job) /\ s.dest = job.dest}}

Saw(c, f, n, z, i) == Fact(f, n, z, i) \in past[c]
Over(c, op) == calls[c].pc = "done" /\ calls[c].job.op = op
Succeeded(c, op) == Over(c, op) /\ calls[c].ans.ok

-----------------------------------------------------------------------------
(* Steps of a call.                                                         *)

Become(c, call) == calls' = [calls EXCEPT ![c] = call]
Answer(call, ans) == [call EXCEPT !.pc = "done", !.ans = ans]
Fail(call) == Answer(call, NoAnswer)
Succeed(call) == Answer(call, [NoAnswer EXCEPT !.ok = TRUE])
Fault == instLeft.faults > 0 /\ instLeft' = [instLeft EXCEPT !.faults = @ - 1]
NoFault == UNCHANGED instLeft
OnlyAsk == UNCHANGED <<machine, routes, sshKeys, tagCache, tagLock, todo>>

Begin(c) ==
  /\ calls[c].pc = "idle" /\ todo[c] # <<>>
  /\ Become(c, NewCall(Head(todo[c])))
  /\ todo' = [todo EXCEPT ![c] = Tail(@)]
  /\ UNCHANGED <<machine, routes, sshKeys, tagCache, tagLock, instLeft>>

End(c) ==
  /\ calls[c].pc = "done"
  /\ Become(c, Idle)
  /\ UNCHANGED <<machine, routes, sshKeys, tagCache, tagLock, todo, instLeft>>

\* A VM is created or deleted; its disks are detached with it.
ChangeVm ==
  /\ instLeft.changes > 0
  /\ \E z \in Zones, n \in VmNames :
       machine' = [machine EXCEPT ![z, n] = IF @.id = 0 THEN [id |-> instLeft.id, disks |-> {}] ELSE NoVm]
  /\ instLeft' = [instLeft EXCEPT !.changes = @ - 1, !.id = @ + 1]
  /\ UNCHANGED <<routes, sshKeys, tagCache, tagLock, calls, todo>>

-----------------------------------------------------------------------------
(* getInstanceByName: what the calls do when it found the VM, and when not. *)

\* GetZoneByNodeName
AnswerZone(call, inst) == Answer(call, [NoAnswer EXCEPT !.ok = TRUE, !.zone = inst.zone, !.id = inst.id])

\* InstanceID gives the provider id with which InstanceExists and InstanceMetadata go on.
WhenFound(call, inst) ==
  CASE call.job.op \in {"exists", "metadata"} -> [call EXCEPT !.pc = "by id", !.inst = inst]
    [] call.job.op = "zone" -> AnswerZone(call, inst)
    [] call.job.op = "route" -> [call EXCEPT !.pc = "insert", !.inst = inst]
    [] call.job.op = "attach" -> [call EXCEPT !.pc = "attach", !.inst = inst]
    [] call.job.op = "detach" -> [call EXCEPT !.pc = "detach", !.inst = inst]
    [] call.job.op = "attached" -> Answer(call, [NoAnswer EXCEPT !.ok = TRUE, !.is = Has(inst.disks, call.job.disk)])

\* Only these calls take a VM that is not there for an answer.
WhenNotFound(call) == IF call.job.op \in {"exists", "detach", "attached"} THEN Succeed(call) ELSE Fail(call)

\* Mutant: a zone that cannot be asked is passed over.
ByNameSkipping(c) ==
  LET call == calls[c] IN
  /\ call.pc = "by name"
  /\ IF call.zones = <<>> THEN Become(c, WhenNotFound(call)) /\ NoFault
     ELSE LET z == Head(call.zones) IN
          \/ /\ IF Exists(z, call.job.vm) THEN Become(c, WhenFound(call, VmAt(z, call.job.vm)))
                ELSE Become(c, [call EXCEPT !.zones = Tail(@)])
             /\ NoFault
          \/ Fault /\ Become(c, [call EXCEPT !.zones = Tail(@)])
  /\ OnlyAsk

GetInstanceByName(c) ==
  LET call == calls[c] IN
  /\ call.pc = "by name"
  /\ IF call.zones = <<>> THEN Become(c, WhenNotFound(call)) /\ NoFault
     ELSE LET z == Head(call.zones) IN
          \/ /\ IF Exists(z, call.job.vm) THEN Become(c, WhenFound(call, VmAt(z, call.job.vm)))
                ELSE Become(c, [call EXCEPT !.zones = Tail(@)])
             /\ NoFault
          \/ Fault /\ Become(c, Fail(call))
  /\ OnlyAsk

InstanceByProviderId(call) == VmAt(call.inst.zone, call.job.vm)

\* InstanceExistsByProviderID, and the last request of InstanceMetadata.
GetByProviderId(c) ==
  LET call == calls[c]
      inst == InstanceByProviderId(call)
      known == [NoAnswer EXCEPT !.ok = TRUE, !.is = TRUE, !.zone = inst.zone, !.id = inst.id]
  IN  /\ call.pc = "by id"
      /\ \/ /\ Become(c, IF inst.id # 0 THEN Answer(call, known)
                         ELSE IF call.job.op = "exists" THEN Succeed(call) ELSE Fail(call))
            /\ NoFault
         \/ Fault /\ Become(c, Fail(call))
      /\ OnlyAsk

-----------------------------------------------------------------------------
(* getFoundInstanceByNames and the node tags.                               *)

Missing(call) == {h \in call.job.hosts : call.found[h].id = 0}

BulkDisksAreAttached(call) ==
  Answer(call, [NoAnswer EXCEPT !.ok = TRUE, !.on = {h \in call.job.hosts : Has(call.found[h].disks, call.job.disk)}])

\* getInstancesByNames: an error only if no host was found.
WhenListed(call) ==
  LET found == call.job.hosts \ Missing(call) IN
  IF call.job.op = "bulk" THEN BulkDisksAreAttached(call)
  ELSE IF found = {} THEN Fail(call)
  ELSE [call EXCEPT !.pc = "host tags", !.left = {call.found[h].zone : h \in found}, !.partial = Missing(call) # {}]

\* computeNodeTagLock is given back when GetNodeTags returns.
Unlock(c, call) == tagLock' = IF call.pc = "done" /\ tagLock = c THEN Nobody ELSE tagLock
Proceed(c, call) == Become(c, call) /\ Unlock(c, call)

\* What the instances of one more zone add to those found.
ListZone(call, z) ==
  [h \in call.job.hosts |-> IF call.found[h].id = 0 /\ Exists(z, h) THEN VmAt(z, h) ELSE call.found[h]]

GetFoundInstanceByNames(c) ==
  LET call == calls[c] IN
  /\ call.pc = "list"
  /\ IF call.zones = <<>> \/ Missing(call) = {} THEN Proceed(c, WhenListed(call)) /\ NoFault
     ELSE \/ /\ Become(c, [call EXCEPT !.zones = Tail(@), !.found = ListZone(call, Head(call.zones))])
             /\ NoFault /\ UNCHANGED tagLock
          \/ Fault /\ Proceed(c, Fail(call))
  /\ UNCHANGED <<machine, routes, sshKeys, tagCache, todo>>

\* GetNodeTags: the tags that were computed last, if the hosts are the same.
GetNodeTags(c) ==
  LET call == calls[c] IN
  /\ call.pc = "tags" /\ tagLock = Nobody
  /\ IF call.job.hosts = tagCache.hosts
     THEN /\ Become(c, Answer([call EXCEPT !.partial = tagCache.partial],
                              [NoAnswer EXCEPT !.ok = TRUE, !.tags = tagCache.tags]))
          /\ UNCHANGED tagLock
     ELSE Become(c, [call EXCEPT !.pc = "list"]) /\ tagLock' = c
  /\ UNCHANGED <<machine, routes, sshKeys, tagCache, todo, instLeft>>

PrefixTags(h) == {t \in VmTags[h] : t.prefix}
LongestTag(h) == (CHOOSE t \in PrefixTags(h) : \A o \in PrefixTags(h) : o.len <= t.len).tag

\* computeHostTags, one zone a step; the hosts that were found there may be gone by now.
ComputeHostTags(c) ==
  LET call == calls[c] IN
  /\ call.pc = "host tags"
  /\ \/ \E z \in call.left :
          LET hosts == {h \in call.job.hosts : call.found[h].zone = z /\ Exists(z, h)}
              tags == call.ans.tags \cup {LongestTag(h) : h \in hosts}
              last == call.left = {z}
              tagless == \E h \in hosts : PrefixTags(h) = {}
              after == IF tagless \/ (last /\ tags = {}) THEN Fail(call)
                       ELSE IF last THEN Answer(call, [NoAnswer EXCEPT !.ok = TRUE, !.tags = tags])
                       ELSE [call EXCEPT !.left = @ \ {z}, !.ans.tags = tags]
          IN  /\ Proceed(c, [after EXCEPT !.partial = @ \/ \E h \in call.job.hosts : call.found[h].zone = z /\ ~Exists(z, h)])
              /\ tagCache' = IF after.ans.ok THEN [hosts |-> call.job.hosts, tags |-> tags, partial |-> calls'[c].partial]
                             ELSE tagCache
              /\ NoFault
     \/ Fault /\ Proceed(c, Fail(call)) /\ UNCHANGED tagCache
  /\ UNCHANGED <<machine, routes, sshKeys, todo>>

-----------------------------------------------------------------------------
(* Routes and keys.                                                         *)

Insert(call) == [name |-> RouteName(call.job), dest |-> call.job.dest, zone |-> call.inst.zone, vm |-> call.job.vm,
                 by |-> call.job.cluster]
Conflicts(call) == \E r \in routes : r.name = RouteName(call.job)

\* The last request of CreateRoute; a conflict counts as success, and a reply may be lost.
InsertRoute(c) ==
  LET call == calls[c] IN
  /\ call.pc = "insert"
  /\ \/ /\ routes' = IF Conflicts(call) THEN routes ELSE routes \cup {Insert(call)}
        /\ Become(c, Succeed(call)) /\ NoFault
     \/ Fault /\ routes' \in {routes, IF Conflicts(call) THEN routes ELSE routes \cup {Insert(call)}} /\ Become(c, Fail(call))
  /\ UNCHANGED <<machine, sshKeys, tagCache, tagLock, todo>>

DeleteRoute(c) ==
  LET call == calls[c] IN
  /\ call.pc = "unroute"
  /\ \/ /\ routes' = {r \in routes : r.name # RouteName(call.job)}
        /\ Become(c, IF Conflicts(call) THEN Succeed(call) ELSE Fail(call)) /\ NoFault
     \/ Fault /\ Become(c, Fail(call)) /\ UNCHANGED routes
  /\ UNCHANGED <<machine, sshKeys, tagCache, tagLock, todo>>

\* The filter of ListRoutes: the shortened name of the cluster, and a dash.
Listed(job) == {r \in routes : IsStrictPrefix(Front(RouteName(job)), r.name)}

ListRoutes(c) ==
  LET call == calls[c] IN
  /\ call.pc = "routes"
  /\ \/ Become(c, Answer(call, [NoAnswer EXCEPT !.ok = TRUE, !.routes = Listed(call.job)])) /\ NoFault
     \/ Fault /\ Become(c, Fail(call))
  /\ OnlyAsk

\* AddSSHKeyToAllInstances polls: it reads the metadata, which may already have the key.
GetKeys(c) ==
  LET call == calls[c] IN
  /\ call.pc = "get keys"
  /\ \/ /\ Become(c, IF call.job.key \in sshKeys.keys THEN Succeed(call)
                     ELSE [call EXCEPT !.pc = "set keys", !.seen = sshKeys])
        /\ NoFault
     \/ Fault /\ Become(c, Fail(call))          \* thirty seconds are over
     \/ Fault /\ UNCHANGED calls
  /\ OnlyAsk

WithKey(call) == [keys |-> call.seen.keys \cup {call.job.key}, print |-> sshKeys.print + 1]

\* It writes them back, which the cloud refuses if they changed since; the reply may be lost.
SetKeys(c) ==
  LET call == calls[c]
      current == call.seen.print = sshKeys.print
  IN  /\ call.pc = "set keys"
      /\ \/ /\ sshKeys' = IF current THEN WithKey(call) ELSE sshKeys
            /\ Become(c, IF current THEN Succeed(call) ELSE [call EXCEPT !.pc = "get keys"]) /\ NoFault
         \/ /\ Fault /\ Become(c, [call EXCEPT !.pc = "get keys"])
            /\ sshKeys' \in {sshKeys, IF current THEN WithKey(call) ELSE sshKeys}
      /\ UNCHANGED <<machine, routes, tagCache, tagLock, todo>>

-----------------------------------------------------------------------------
InstStep ==
  \/ ChangeVm
  \/ \E c \in Callers :
       \/ Begin(c) \/ End(c)
       \/ GetInstanceByName(c) \/ GetByProviderId(c)
       \/ GetFoundInstanceByNames(c) \/ GetNodeTags(c) \/ ComputeHostTags(c)
       \/ InsertRoute(c) \/ DeleteRoute(c) \/ ListRoutes(c)
       \/ GetKeys(c) \/ SetKeys(c)

\* Facts are collected from the first to the last moment of a call.
JobOf(c) == IF calls[c].pc = "idle" /\ todo[c] # <<>> THEN Head(todo[c]) ELSE calls[c].job
Watch(facts(_)) ==
  past' = [c \in Callers |->
             IF calls'[c].pc = "idle" THEN {}
             ELSE IF calls[c].pc = "done" THEN past[c]
             ELSE past[c] \cup UNION {facts(job)' : job \in {JobOf(c)}}]

InstNext == InstStep /\ Watch(InstFacts)

-----------------------------------------------------------------------------
(* Properties                                                               *)

\* InstanceExists says that a VM is gone (its Node is then deleted) only if there was a moment of the call
\* without it, or names were doubled; what it, InstanceMetadata and GetZoneByNodeName say of a VM was true once.
InstanceAnswersAreTrue ==
  \A c \in Callers :
    LET job == calls[c].job
        ans == calls[c].ans
    IN  /\ Succeeded(c, "exists") /\ ~ans.is =>
             IF job.pid = "" THEN Saw(c, "absent", job.vm, "", 0) \/ Saw(c, "doubled", job.vm, "", 0)
             ELSE Saw(c, "at", job.vm, job.pid, 0)
        /\ Succeeded(c, "metadata") \/ Succeeded(c, "zone") \/ (Succeeded(c, "exists") /\ ans.is) =>
             ans.id # 0 /\ Saw(c, "at", job.vm, ans.zone, ans.id)

\* The tags that GetNodeTags answers are tags of the hosts, and none is missing of a host that was there all the
\* time, unless the tags were computed and kept when one of the hosts was not there.
TagsAreTrue ==
  \A c \in Callers : Succeeded(c, "tags") =>
    /\ calls[c].ans.tags \subseteq {LongestTag(h) : h \in {g \in calls[c].job.hosts : PrefixTags(g) # {}}}
    /\ \A h \in calls[c].job.hosts :
         Saw(c, "absent", h, "", 0) \/ calls[c].partial \/ LongestTag(h) \in calls[c].ans.tags

\* After a CreateRoute that succeeded, also on a conflict, there was a route of the cluster to the node.
RouteIsTrue == \A c \in Callers : Succeeded(c, "route") => Saw(c, "routed", calls[c].job.vm, "", 0)

\* ListRoutes returns all routes that CreateRoute made for the cluster, whatever the length of its name.
OwnRoutesAreListed ==
  \A c \in Callers : calls[c].pc = "routes" => \A r \in routes : r.by = calls[c].job.cluster => r \in Listed(calls[c].job)

\* AddSSHKeyToAllInstances that succeeded has added the key, although replies are lost and others add keys too.
KeyIsAdded == \A c \in Callers : Succeeded(c, "ssh") => calls[c].job.key \in sshKeys.keys

\* computeNodeTagLock is held only by a call of GetNodeTags that is under way.
TagLockIsHeld == tagLock # Nobody => calls[tagLock].job.op = "tags" /\ calls[tagLock].pc \in {"list", "host tags"}

\* What a call said of VMs, tags, routes and keys was true at some moment of it.
CallsAreTrue ==
  InstanceAnswersAreTrue /\ TagsAreTrue /\ RouteIsTrue /\ OwnRoutesAreListed /\ KeyIsAdded /\ TagLockIsHeld
=============================================================================
