------------------------------ MODULE ClusterId ------------------------------
(***************************************************************************)
(* The id of the cluster, kept in a ConfigMap that the first process to need *)
(* it creates: every process caches the ids, from its informer and from what *)
(* it created itself, and several threads ask for them.  clusterID is read   *)
(* without the lock before it is read with it; a pointer is read whole, so   *)
(* these are two reads.  The API server, users and restarts are external.    *)
(***************************************************************************)
EXTENDS Integers, FiniteSets

CONSTANTS
  IdThreads,       \* [threads -> processes]
  FederatedId,     \* an id that a federation writes into the ConfigMap
  MaxIdChanges,    \* changes by users, restarts and lost replies
  MaxUid

ASSUME IdAssumption == FederatedId \in Nat \ {0} /\ MaxUid \in Nat

VARIABLES
  uidMap,          \* the ConfigMap: [exists, cluster, provider]; 0 stands for a key that is not set
  idState,         \* [processes -> [ready, cluster, provider, store, due]]: the informer's copy, and what its handler has yet to apply
  idCalls,         \* [threads -> [pc, obj, ids]]
  idPast           \* ConfigMaps there were, ids given, changes and ids so far, whether an older copy was applied

idVars == <<uidMap, idState, idCalls, idPast>>

Processes == {IdThreads[t] : t \in DOMAIN IdThreads}
NoMap == [exists |-> FALSE, cluster |-> 0, provider |-> 0]
IdMap(cluster, provider) == [exists |-> TRUE, cluster |-> cluster, provider |-> provider]
FreshIds == [ready |-> FALSE, cluster |-> 0, provider |-> 0, store |-> NoMap, due |-> NoMap]
IdCall(pc, obj) == [pc |-> pc, obj |-> obj, ids |-> [cluster |-> 0, provider |-> 0]]

IdInit ==
  /\ uidMap = NoMap
  /\ idState = [p \in Processes |-> FreshIds]
  /\ idCalls = [t \in DOMAIN IdThreads |-> IdCall("idle", NoMap)]
  /\ idPast = [maps |-> {}, given |-> {}, changes |-> 0, edited |-> FALSE, uid |-> 0, raced |-> {}]

-----------------------------------------------------------------------------
(* The ConfigMap and its informer.                                          *)

WriteMap(m, edited) ==
  /\ uidMap' = m
  /\ idPast' = [idPast EXCEPT !.maps = @ \cup {m}, !.changes = @ + 1, !.edited = @ \/ edited]

\* A federation sets its own id, drops the provider's, or the ConfigMap is deleted.
EditMap ==
  /\ uidMap.exists /\ idPast.changes < MaxIdChanges
  /\ \E m \in {NoMap, IdMap(FederatedId, uidMap.provider), IdMap(uidMap.cluster, 0)} : m # uidMap /\ WriteMap(m, TRUE)
  /\ UNCHANGED <<idState, idCalls>>

\* ClusterID.update: keys that are not set leave the old values.
UpdateIds(st, m) ==
  [st EXCEPT !.cluster = IF m.cluster # 0 THEN m.cluster ELSE @, !.provider = IF m.provider # 0 THEN m.provider ELSE @]

\* watchClusterID: the store is set, then the informer runs.
WatchClusterId(p) ==
  /\ ~idState[p].ready
  /\ idState' = [idState EXCEPT ![p].ready = TRUE]
  /\ UNCHANGED <<uidMap, idCalls, idPast>>

\* The informer stores the latest ConfigMap before it calls the handler; nothing is done when it is deleted.
StoreMap(p) ==
  /\ idState[p].ready /\ ~idState[p].due.exists /\ idState[p].store # uidMap
  /\ idState' = [idState EXCEPT ![p].store = uidMap, ![p].due = uidMap]
  /\ UNCHANGED <<uidMap, idCalls, idPast>>

\* The handlers AddFunc and UpdateFunc.
HandleIds(p) ==
  /\ idState[p].due.exists
  /\ idState' = [idState EXCEPT ![p] = [UpdateIds(@, @.due) EXCEPT !.due = NoMap]]
  /\ idPast' = [idPast EXCEPT !.raced = @ \ {p}]
  /\ UNCHANGED <<uidMap, idCalls>>

RestartProcess(p) ==
  /\ idPast.changes < MaxIdChanges
  /\ idState' = [idState EXCEPT ![p] = FreshIds]
  /\ idCalls' = [t \in DOMAIN IdThreads |-> IF IdThreads[t] = p THEN IdCall("idle", NoMap) ELSE idCalls[t]]
  /\ idPast' = [idPast EXCEPT !.changes = @ + 1, !.raced = @ \ {p}]
  /\ UNCHANGED uidMap

-----------------------------------------------------------------------------
(* GetID and GetFederationID.                                               *)

StepIds(t, call) == idCalls' = [idCalls EXCEPT ![t] = call]

\* getOrInitialize: the ids are known, or the store has the ConfigMap, or one is created.
GetOrInitialize(t) ==
  LET st == idState[IdThreads[t]] IN
  /\ idCalls[t].pc = "idle" /\ st.ready
  /\ \/ st.cluster # 0 /\ StepIds(t, IdCall("read", NoMap)) /\ UNCHANGED idPast
     \/ st.cluster = 0 /\ st.store.exists /\ StepIds(t, IdCall("update", st.store)) /\ UNCHANGED idPast
     \/ /\ st.cluster = 0 /\ ~st.store.exists /\ idPast.uid < MaxUid
        /\ idPast' = [idPast EXCEPT !.uid = @ + 1]
        /\ StepIds(t, IdCall("create", IdMap(idPast.uid + 1, idPast.uid + 1)))
  /\ UNCHANGED <<uidMap, idState>>

\* Mutant: the ConfigMap is written whether there is one or not.
CreateOver(t) ==
  LET call == idCalls[t] IN
  /\ call.pc = "create"
  /\ uidMap' = call.obj /\ idPast' = [idPast EXCEPT !.maps = @ \cup {call.obj}]
  /\ StepIds(t, IdCall("update", call.obj))
  /\ UNCHANGED idState

\* Create fails when another was first; the reply may be lost.
CreateMap(t) ==
  LET call == idCalls[t] IN
  /\ call.pc = "create"
  /\ \/ /\ ~uidMap.exists /\ uidMap' = call.obj /\ idPast' = [idPast EXCEPT !.maps = @ \cup {call.obj}]
        /\ StepIds(t, IdCall("update", call.obj))
     \/ uidMap.exists /\ StepIds(t, IdCall("idle", NoMap)) /\ UNCHANGED <<uidMap, idPast>>
     \/ /\ ~uidMap.exists /\ idPast.changes < MaxIdChanges /\ WriteMap(call.obj, FALSE)
        /\ StepIds(t, IdCall("idle", NoMap))
  /\ UNCHANGED idState

\* update with the copy of the store, or with what was created; by now the informer may have applied a later one.
ApplyCopy(t) ==
  LET p == IdThreads[t]
      st == idState[p]
  IN
  /\ idCalls[t].pc = "update"
  /\ idState' = [idState EXCEPT ![p] = UpdateIds(@, idCalls[t].obj)]
  /\ idPast' = IF st.store.exists /\ ~st.due.exists /\ st.store # idCalls[t].obj THEN [idPast EXCEPT !.raced = @ \cup {p}] ELSE idPast
  /\ StepIds(t, IdCall("read", NoMap))
  /\ UNCHANGED uidMap

\* Mutant: the ids are read one after the other, without the lock.
ReadTorn(t) ==
  LET st == idState[IdThreads[t]]
      seen == idCalls[t].ids
  IN  /\ idCalls[t].pc = "read"
      /\ StepIds(t, IF seen.cluster = 0 THEN [idCalls[t] EXCEPT !.ids.cluster = st.cluster]
                    ELSE [IdCall("done", NoMap) EXCEPT !.ids = [seen EXCEPT !.provider = st.provider]])
      /\ UNCHANGED <<uidMap, idState, idPast>>

\* The ids are read together, under the lock.
ReadIds(t) ==
  LET st == idState[IdThreads[t]]
      ids == [cluster |-> st.cluster, provider |-> st.provider]
  IN  /\ idCalls[t].pc = "read"
      /\ StepIds(t, [IdCall("done", NoMap) EXCEPT !.ids = ids])
      /\ idPast' = IF st.cluster = 0 THEN idPast
                   ELSE [idPast EXCEPT !.given = @ \cup {IF st.provider # 0 THEN st.provider ELSE st.cluster}]
      /\ UNCHANGED <<uidMap, idState>>

ReturnIds(t) ==
  /\ idCalls[t].pc = "done"
  /\ StepIds(t, IdCall("idle", NoMap))
  /\ UNCHANGED <<uidMap, idState, idPast>>

IdNext ==
  \/ EditMap
  \/ \E p \in Processes : WatchClusterId(p) \/ StoreMap(p) \/ HandleIds(p) \/ RestartProcess(p)
  \/ \E t \in DOMAIN IdThreads : GetOrInitialize(t) \/ CreateMap(t) \/ ApplyCopy(t) \/ ReadIds(t) \/ ReturnIds(t)

IdSpec == IdInit /\ [][IdNext]_idVars

-----------------------------------------------------------------------------
(* Properties                                                               *)

\* GetID gives the same id to all threads of all processes, across restarts and lost replies, unless a user or a
\* federation changed the ConfigMap.
OneClusterId == ~idPast.edited => Cardinality(idPast.given) <= 1

\* When the informer is up to date, the ids are those of the ConfigMap, for the keys it has, unless a call applied
\* an older copy after the informer had applied the current one.
IdsConverge ==
  \A p \in Processes :
    LET st == idState[p] IN
    st.ready /\ uidMap.exists /\ st.store = uidMap /\ ~st.due.exists /\ p \notin idPast.raced =>
      /\ uidMap.cluster # 0 => st.cluster = uidMap.cluster
      /\ uidMap.provider # 0 => st.provider = uidMap.provider

\* The ids that GetFederationID compares were in one ConfigMap together, as long as no key was dropped.
FederationIsTrue ==
  \A t \in DOMAIN IdThreads :
    idCalls[t].pc = "done" /\ idCalls[t].ids.cluster # 0 /\ (\A m \in idPast.maps : m.exists => m.provider # 0) =>
      IdMap(idCalls[t].ids.cluster, idCalls[t].ids.provider) \in idPast.maps

\* The ids of a process are those of one ConfigMap, in the end the current one.
IdsAreTrue == IdsConverge /\ FederationIsTrue
=============================================================================
