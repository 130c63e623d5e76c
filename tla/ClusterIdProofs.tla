--------------------------- MODULE ClusterIdProofs ---------------------------
(***************************************************************************)
(* The id of the cluster for any number of processes, threads, restarts and *)
(* changes of the ConfigMap.                                                *)
(***************************************************************************)
EXTENDS ClusterId, TLAPS, FiniteSetTheorems

Maps == [exists : BOOLEAN, cluster : Nat, provider : Nat]
ProcessStates == [ready : BOOLEAN, cluster : Nat, provider : Nat, store : Maps, due : Maps]
CallStates ==
  [pc : {"idle", "read", "update", "create", "done"}, obj : Maps, ids : [cluster : Nat, provider : Nat]]

IdTypeOK ==
  /\ uidMap \in Maps
  /\ idState \in [Processes -> ProcessStates]
  /\ idCalls \in [DOMAIN IdThreads -> CallStates]
  /\ idPast \in [maps : SUBSET Maps, given : SUBSET Nat, changes : Nat, edited : BOOLEAN, uid : Nat, raced : SUBSET Processes]

AllProviders == \A m \in idPast.maps : m.exists => m.provider # 0

\* Every ConfigMap has a cluster's id; the first one, until it is edited, is the only one.
MapOK ==
  /\ uidMap.exists => uidMap \in idPast.maps
  /\ ~uidMap.exists => uidMap = NoMap
  /\ \A m \in idPast.maps : m.exists => m.cluster # 0
  /\ ~idPast.edited => uidMap.provider = uidMap.cluster /\ idPast.given \subseteq {uidMap.cluster} \ {0}

\* A process: the handler has the copy of the store to apply; the copy and the ids are
\* those of a ConfigMap there was; once the copy is applied, the ids are the copy's.
StateOK(p, st) ==
  /\ st.due.exists => st.due = st.store
  /\ st.store.exists => st.store \in idPast.maps
  /\ AllProviders => st.cluster = 0 \/ IdMap(st.cluster, st.provider) \in idPast.maps
  /\ st.store.exists /\ ~st.due.exists /\ p \notin idPast.raced =>
       /\ st.store.cluster # 0 => st.cluster = st.store.cluster
       /\ st.store.provider # 0 => st.provider = st.store.provider
  /\ ~idPast.edited => /\ st.store \in {NoMap, uidMap}
                       /\ st.cluster \in {0, uidMap.cluster} /\ st.provider \in {0, uidMap.cluster}

\* A call: what it applies was in the cluster, what it creates has one new id twice.
CallOK(call) ==
  /\ call.pc = "update" => call.obj.exists /\ call.obj \in idPast.maps /\ (~idPast.edited => call.obj = uidMap)
  /\ call.pc = "create" => call.obj.exists /\ call.obj.provider = call.obj.cluster /\ call.obj.cluster # 0
  /\ call.pc = "done" /\ call.ids.cluster # 0 /\ AllProviders => IdMap(call.ids.cluster, call.ids.provider) \in idPast.maps

\* The inductive invariant.
IdInv ==
  /\ IdTypeOK /\ MapOK
  /\ \A p \in Processes : StateOK(p, idState[p])
  /\ \A t \in DOMAIN IdThreads : CallOK(idCalls[t])

\* The ConfigMaps that there may be, and the processes that calls belong to.
LEMMA Records ==
  /\ NoMap \in Maps /\ ~NoMap.exists /\ NoMap.cluster = 0 /\ NoMap.provider = 0
  /\ \A c, p \in Nat : IdMap(c, p) \in Maps /\ IdMap(c, p).exists /\ IdMap(c, p).cluster = c /\ IdMap(c, p).provider = p
  /\ \A m \in Maps : m.exists => m = IdMap(m.cluster, m.provider)
  /\ \A t \in DOMAIN IdThreads : IdThreads[t] \in Processes
BY DEF NoMap, IdMap, Maps, Processes

\* A process that has just started knows no id.
LEMMA FreshState ==
  /\ FreshIds \in ProcessStates
  /\ \A p \in Processes : StateOK(p, FreshIds)
<1>1. /\ FreshIds \in ProcessStates /\ FreshIds.store = NoMap /\ FreshIds.due = NoMap
      /\ FreshIds.cluster = 0 /\ FreshIds.provider = 0
  BY Records DEF FreshIds, ProcessStates
<1> QED
  BY <1>1, Records DEF StateOK

\* A call that starts, or starts again, has promised nothing.
LEMMA NewCall ==
  ASSUME NEW pc \in {"idle", "read", "update", "create", "done"}, NEW obj \in Maps
  PROVE  /\ IdCall(pc, obj) \in CallStates /\ IdCall(pc, obj).pc = pc /\ IdCall(pc, obj).obj = obj
         /\ pc \in {"idle", "read"} => CallOK(IdCall(pc, obj))
<1>1. IdCall(pc, obj) \in CallStates /\ IdCall(pc, obj).pc = pc /\ IdCall(pc, obj).obj = obj
  BY DEF IdCall, CallStates
<1> QED
  BY <1>1 DEF CallOK

\* Before any process runs there is no ConfigMap, and no id is known.
LEMMA IdInitHolds == IdInit => IdInv
<1> SUFFICES ASSUME IdInit PROVE IdInv
  OBVIOUS
<1>1. IdTypeOK
  BY Records, FreshState, NewCall DEF IdInit, IdTypeOK
<1>2. MapOK
  BY Records DEF IdInit, MapOK
<1> QED
  BY <1>1, <1>2, Records, FreshState, NewCall DEF IdInit, IdInv

\* As long as the ConfigMap is the same, what is true of a process and a call stays true.
LEMMA SameState ==
  ASSUME uidMap' = uidMap, idPast'.maps = idPast.maps, idPast'.edited = idPast.edited,
         NEW p, NEW st, StateOK(p, st), p \in idPast'.raced <=> p \in idPast.raced
  PROVE  StateOK(p, st)'
BY DEF StateOK, AllProviders

\* What a call holds stays right while the ConfigMap does.
LEMMA SameCall ==
  ASSUME uidMap' = uidMap, idPast'.maps = idPast.maps, idPast'.edited = idPast.edited, NEW call, CallOK(call)
  PROVE  CallOK(call)'
BY DEF CallOK, AllProviders

\* The step of one call that changes neither the ConfigMap nor a process.
LEMMA CallMoves ==
  ASSUME IdInv, NEW t \in DOMAIN IdThreads, NEW new \in CallStates, CallOK(new),
         idCalls' = [idCalls EXCEPT ![t] = new], UNCHANGED <<uidMap, idState>>,
         idPast' \in [maps : SUBSET Maps, given : SUBSET Nat, changes : Nat, edited : BOOLEAN, uid : Nat, raced : SUBSET Processes],
         idPast'.maps = idPast.maps, idPast'.edited = idPast.edited, idPast'.raced = idPast.raced,
         ~idPast.edited => idPast'.given \subseteq {uidMap.cluster} \ {0}
  PROVE  IdInv'
<1>1. IdTypeOK'
  BY DEF IdInv, IdTypeOK
<1>2. MapOK'
  BY DEF IdInv, MapOK
<1>3. ASSUME NEW p \in Processes PROVE StateOK(p, idState[p])'
  <2>1. PICK st : st = idState[p]
    OBVIOUS
  <2>2. StateOK(p, st)'
    BY <2>1, SameState DEF IdInv
  <2> QED
    BY <2>1, <2>2 DEF StateOK
<1>4. ASSUME NEW s \in DOMAIN IdThreads PROVE CallOK(idCalls[s])'
  <2>1. PICK call : call = idCalls'[s] /\ CallOK(call)
    BY DEF IdInv, IdTypeOK
  <2>2. CallOK(call)'
    BY <2>1, SameCall
  <2> QED
    BY <2>1, <2>2 DEF CallOK
<1> QED
  BY <1>1, <1>2, <1>3, <1>4 DEF IdInv

\* The step of one process.
LEMMA StateMoves ==
  ASSUME IdInv, NEW p \in Processes, NEW new \in ProcessStates, StateOK(p, new)',
         idState' = [idState EXCEPT ![p] = new], uidMap' = uidMap,
         idCalls' \in [DOMAIN IdThreads -> CallStates], \A t \in DOMAIN IdThreads : CallOK(idCalls'[t]),
         idPast' \in [maps : SUBSET Maps, given : SUBSET Nat, changes : Nat, edited : BOOLEAN, uid : Nat, raced : SUBSET Processes],
         idPast'.maps = idPast.maps, idPast'.edited = idPast.edited, idPast'.given = idPast.given,
         idPast'.raced \ {p} = idPast.raced \ {p}
  PROVE  IdInv'
<1>1. IdTypeOK'
  BY DEF IdInv, IdTypeOK
<1>2. MapOK'
  BY DEF IdInv, MapOK
<1>3. ASSUME NEW q \in Processes PROVE StateOK(q, idState[q])'
  <2>1. CASE q = p
    <3>1. idState'[q] = new
      BY <2>1 DEF IdInv, IdTypeOK
    <3> QED
      BY <2>1, <3>1 DEF StateOK
  <2>2. CASE q # p
    <3>1. PICK st : st = idState[q]
      OBVIOUS
    <3>2. idState'[q] = st /\ (q \in idPast'.raced <=> q \in idPast.raced)
      BY <2>2, <3>1 DEF IdInv, IdTypeOK
    <3>3. StateOK(q, st)'
      BY <3>1, <3>2, SameState DEF IdInv
    <3> QED
      BY <3>2, <3>3 DEF StateOK
  <2> QED
    BY <2>1, <2>2
<1>4. ASSUME NEW s \in DOMAIN IdThreads PROVE CallOK(idCalls[s])'
  <2>1. PICK call : call = idCalls'[s] /\ CallOK(call)
    OBVIOUS
  <2>2. CallOK(call)'
    BY <2>1, SameCall
  <2> QED
    BY <2>1, <2>2 DEF CallOK
<1> QED
  BY <1>1, <1>2, <1>3, <1>4 DEF IdInv

\* What update makes of a ConfigMap there was.
LEMMA Updated ==
  ASSUME IdInv, NEW p \in Processes, NEW m \in idPast.maps, m.exists
  PROVE  LET new == UpdateIds(idState[p], m) IN
         /\ new \in ProcessStates /\ new.cluster = m.cluster /\ m.cluster # 0
         /\ new.provider = (IF m.provider # 0 THEN m.provider ELSE idState[p].provider)
         /\ new.store = idState[p].store /\ new.due = idState[p].due /\ new.ready = idState[p].ready
         /\ AllProviders => IdMap(new.cluster, new.provider) \in idPast.maps
<1> DEFINE st == idState[p]
<1>1. st \in ProcessStates /\ m \in Maps /\ m.cluster # 0
  BY DEF IdInv, IdTypeOK, MapOK
<1>2. PICK c \in Nat : c = m.cluster
  BY <1>1 DEF Maps
<1>3. PICK q \in Nat : q = IF m.provider # 0 THEN m.provider ELSE st.provider
  BY <1>1 DEF Maps, ProcessStates
<1>4. UpdateIds(st, m) = [st EXCEPT !.cluster = c, !.provider = q]
  BY <1>1, <1>2, <1>3 DEF UpdateIds
<1>5. PICK new : new = [st EXCEPT !.cluster = c, !.provider = q]
  OBVIOUS
<1> HIDE DEF st
<1>6. new \in ProcessStates /\ new.cluster = c /\ new.provider = q /\ new.store = st.store /\ new.due = st.due /\ new.ready = st.ready
  BY <1>1, <1>5 DEF ProcessStates
<1>7. AllProviders => IdMap(c, q) = m
  BY <1>1, <1>2, <1>3, Records DEF AllProviders
<1> QED
  BY <1>1, <1>2, <1>3, <1>4, <1>5, <1>6, <1>7 DEF st

\* The informer of a process starts.
LEMMA WatchHolds == ASSUME IdInv, NEW p \in Processes, WatchClusterId(p) PROVE IdInv'
<1>1. PICK st \in ProcessStates : st = idState[p] /\ StateOK(p, st)
  BY DEF IdInv, IdTypeOK
<1>2. PICK new : new = [st EXCEPT !.ready = TRUE]
  OBVIOUS
<1>3. new \in ProcessStates /\ new.cluster = st.cluster /\ new.provider = st.provider /\ new.store = st.store /\ new.due = st.due
  BY <1>1, <1>2 DEF ProcessStates
<1>4. idState' = [idState EXCEPT ![p] = new] /\ uidMap' = uidMap /\ idCalls' = idCalls /\ idPast' = idPast
  BY <1>1, <1>2 DEF WatchClusterId
<1>5. StateOK(p, new)'
  BY <1>1, <1>3, <1>4 DEF StateOK, AllProviders
<1> QED
  BY <1>3, <1>4, <1>5, StateMoves DEF IdInv, IdTypeOK

\* The store of a process gets the ConfigMap as it is now, and an event is due.
LEMMA StoreHolds == ASSUME IdInv, NEW p \in Processes, StoreMap(p) PROVE IdInv'
<1>1. PICK st \in ProcessStates : st = idState[p] /\ StateOK(p, st)
  BY DEF IdInv, IdTypeOK
<1>2. PICK new : new = [st EXCEPT !.store = uidMap, !.due = uidMap]
  OBVIOUS
<1>3. new \in ProcessStates /\ new.cluster = st.cluster /\ new.provider = st.provider /\ new.store = uidMap /\ new.due = uidMap
  BY <1>1, <1>2 DEF ProcessStates, IdInv, IdTypeOK
<1>4. idState' = [idState EXCEPT ![p] = new] /\ uidMap' = uidMap /\ idCalls' = idCalls /\ idPast' = idPast
  BY <1>1, <1>2 DEF StoreMap
<1>5. StateOK(p, new)'
  BY <1>1, <1>3, <1>4 DEF StateOK, AllProviders, IdInv, MapOK
<1> QED
  BY <1>3, <1>4, <1>5, StateMoves DEF IdInv, IdTypeOK

\* The handler of the informer takes the ids over from the event.
LEMMA HandleHolds == ASSUME IdInv, NEW p \in Processes, HandleIds(p) PROVE IdInv'
<1>1. PICK st \in ProcessStates : st = idState[p] /\ StateOK(p, st)
  BY DEF IdInv, IdTypeOK
<1>2. st.due.exists /\ st.due = st.store /\ st.due \in idPast.maps
  BY <1>1 DEF HandleIds, StateOK
<1>3. PICK mid : mid = UpdateIds(st, st.due)
  OBVIOUS
<1>4. /\ mid \in ProcessStates /\ mid.cluster = st.due.cluster /\ mid.cluster # 0
      /\ mid.provider = (IF st.due.provider # 0 THEN st.due.provider ELSE st.provider)
      /\ mid.store = st.store
      /\ AllProviders => IdMap(mid.cluster, mid.provider) \in idPast.maps
  BY <1>1, <1>2, <1>3, Updated
<1>5. PICK new : new = [mid EXCEPT !.due = NoMap]
  OBVIOUS
<1>6. /\ new \in ProcessStates /\ new.cluster = mid.cluster /\ new.provider = mid.provider /\ new.store = mid.store /\ new.due = NoMap
  BY <1>4, <1>5, Records DEF ProcessStates
<1>7. idState' = [idState EXCEPT ![p] = new] /\ uidMap' = uidMap /\ idCalls' = idCalls /\ idPast' = [idPast EXCEPT !.raced = @ \ {p}]
  BY <1>1, <1>3, <1>5 DEF HandleIds
<1>8. /\ idPast'.maps = idPast.maps /\ idPast'.edited = idPast.edited /\ idPast'.given = idPast.given
      /\ idPast'.raced = idPast.raced \ {p}
      /\ idPast' \in [maps : SUBSET Maps, given : SUBSET Nat, changes : Nat, edited : BOOLEAN, uid : Nat, raced : SUBSET Processes]
  BY <1>7 DEF IdInv, IdTypeOK
<1>9. ~idPast.edited => /\ st.due \in {NoMap, uidMap} /\ st.provider \in {0, uidMap.cluster}
                        /\ uidMap.provider = uidMap.cluster
  BY <1>1, <1>2 DEF StateOK, IdInv, MapOK
<1>10. StateOK(p, new)'
  BY <1>1, <1>2, <1>4, <1>6, <1>7, <1>8, <1>9, Records DEF StateOK, AllProviders
<1>11. idPast'.raced \ {p} = idPast.raced \ {p}
  BY <1>8
<1> QED
  BY <1>6, <1>7, <1>8, <1>10, <1>11, StateMoves DEF IdInv, IdTypeOK

\* A process starts again and forgets its ids.
LEMMA RestartHolds == ASSUME IdInv, NEW p \in Processes, RestartProcess(p) PROVE IdInv'
<1>1. /\ uidMap' = uidMap /\ idState' = [idState EXCEPT ![p] = FreshIds]
      /\ idPast' = [idPast EXCEPT !.changes = @ + 1, !.raced = @ \ {p}]
  BY DEF RestartProcess
<1>2. /\ idPast'.maps = idPast.maps /\ idPast'.edited = idPast.edited /\ idPast'.given = idPast.given
      /\ idPast'.raced = idPast.raced \ {p}
      /\ idPast' \in [maps : SUBSET Maps, given : SUBSET Nat, changes : Nat, edited : BOOLEAN, uid : Nat, raced : SUBSET Processes]
  <2>1. PICK c \in Nat : c = idPast.changes + 1
    BY DEF IdInv, IdTypeOK
  <2>2. PICK w \in SUBSET Processes : w = idPast.raced \ {p}
    BY DEF IdInv, IdTypeOK
  <2>3. idPast' = [idPast EXCEPT !.changes = c, !.raced = w]
    BY <1>1, <2>1, <2>2
  <2> QED
    BY <2>2, <2>3 DEF IdInv, IdTypeOK
<1>3. PICK call : call = IdCall("idle", NoMap) /\ call \in CallStates /\ CallOK(call)
  BY Records, NewCall
<1>4. idCalls' \in [DOMAIN IdThreads -> CallStates] /\ \A t \in DOMAIN IdThreads : CallOK(idCalls'[t])
  <2>1. idCalls' = [t \in DOMAIN IdThreads |-> IF IdThreads[t] = p THEN call ELSE idCalls[t]]
    BY <1>3 DEF RestartProcess
  <2>2. idCalls \in [DOMAIN IdThreads -> CallStates] /\ \A t \in DOMAIN IdThreads : CallOK(idCalls[t])
    BY DEF IdInv, IdTypeOK
  <2>3. \A t \in DOMAIN IdThreads : idCalls'[t] = call \/ idCalls'[t] = idCalls[t]
    BY <2>1
  <2> QED
    BY <1>3, <2>1, <2>2, <2>3
<1>5. PICK new : new = FreshIds /\ new \in ProcessStates /\ new.store = NoMap /\ new.due = NoMap
                 /\ new.cluster = 0 /\ new.provider = 0
  BY FreshState DEF FreshIds
<1>6. StateOK(p, new)'
  BY <1>1, <1>5, Records DEF StateOK
<1>7. idPast'.raced \ {p} = idPast.raced \ {p} /\ idState' = [idState EXCEPT ![p] = new]
  BY <1>1, <1>2, <1>5
<1> QED
  BY <1>1, <1>2, <1>4, <1>5, <1>6, <1>7, StateMoves

\* update with the copy that a call holds.
LEMMA ApplyHolds == ASSUME IdInv, NEW t \in DOMAIN IdThreads, ApplyCopy(t) PROVE IdInv'
<1>1. PICK p \in Processes : p = IdThreads[t]
  BY Records
<1>2. PICK st \in ProcessStates : st = idState[p] /\ StateOK(p, st)
  BY DEF IdInv, IdTypeOK
<1>3. PICK m : m = idCalls[t].obj
  OBVIOUS
<1>4. m.exists /\ m \in idPast.maps /\ (~idPast.edited => m = uidMap)
  BY <1>3 DEF IdInv, CallOK, ApplyCopy
<1>5. PICK new : new = UpdateIds(st, m)
  OBVIOUS
<1>6. /\ new \in ProcessStates /\ new.cluster = m.cluster /\ m.cluster # 0
      /\ new.provider = (IF m.provider # 0 THEN m.provider ELSE st.provider)
      /\ new.store = st.store /\ new.due = st.due
      /\ AllProviders => IdMap(new.cluster, new.provider) \in idPast.maps
  BY <1>2, <1>4, <1>5, Updated
<1>7. /\ idState' = [idState EXCEPT ![p] = new] /\ uidMap' = uidMap
      /\ idCalls' = [idCalls EXCEPT ![t] = IdCall("read", NoMap)]
      /\ idPast' = IF st.store.exists /\ ~st.due.exists /\ st.store # m THEN [idPast EXCEPT !.raced = @ \cup {p}] ELSE idPast
  BY <1>1, <1>2, <1>3, <1>5 DEF ApplyCopy, StepIds
<1>8. /\ idPast'.maps = idPast.maps /\ idPast'.edited = idPast.edited /\ idPast'.given = idPast.given
      /\ idPast'.raced = IF st.store.exists /\ ~st.due.exists /\ st.store # m THEN idPast.raced \cup {p} ELSE idPast.raced
      /\ idPast' \in [maps : SUBSET Maps, given : SUBSET Nat, changes : Nat, edited : BOOLEAN, uid : Nat, raced : SUBSET Processes]
  BY <1>7 DEF IdInv, IdTypeOK
<1>9. ~idPast.edited => st.provider \in {0, uidMap.cluster} /\ uidMap.provider = uidMap.cluster
  BY <1>2 DEF StateOK, IdInv, MapOK
<1>10. StateOK(p, new)'
  <2>1. CASE st.store.exists /\ ~st.due.exists /\ st.store # m
    BY <1>2, <1>4, <1>6, <1>7, <1>8, <1>9, <2>1 DEF StateOK, AllProviders
  <2>2. CASE ~(st.store.exists /\ ~st.due.exists /\ st.store # m)
    BY <1>2, <1>4, <1>6, <1>7, <1>8, <1>9, <2>2 DEF StateOK, AllProviders
  <2> QED
    BY <2>1, <2>2
<1>11. idPast'.raced \ {p} = idPast.raced \ {p}
  BY <1>8
<1>12. PICK call : call = IdCall("read", NoMap) /\ call \in CallStates /\ CallOK(call)
  BY Records, NewCall
<1>13. idCalls' \in [DOMAIN IdThreads -> CallStates] /\ \A s \in DOMAIN IdThreads : CallOK(idCalls'[s])
  BY <1>7, <1>12 DEF IdInv, IdTypeOK
<1> QED
  BY <1>6, <1>7, <1>8, <1>10, <1>11, <1>13, StateMoves

\* A call that goes back, or on to read the ids.
LEMMA GoesTo ==
  ASSUME IdInv, NEW t \in DOMAIN IdThreads, NEW pc \in {"idle", "read"},
         idCalls' = [idCalls EXCEPT ![t] = IdCall(pc, NoMap)], UNCHANGED <<uidMap, idState, idPast>>
  PROVE  IdInv'
<1>1. PICK new \in CallStates : new = IdCall(pc, NoMap) /\ CallOK(new)
  BY Records, NewCall
<1>2. idCalls' = [idCalls EXCEPT ![t] = new]
  BY <1>1
<1>3. /\ idPast' \in [maps : SUBSET Maps, given : SUBSET Nat, changes : Nat, edited : BOOLEAN, uid : Nat, raced : SUBSET Processes]
      /\ ~idPast.edited => idPast'.given \subseteq {uidMap.cluster} \ {0}
  BY DEF IdInv, IdTypeOK, MapOK
<1> QED
  BY <1>1, <1>2, <1>3, CallMoves

\* The calls that leave the processes alone.
LEMMA GetHolds == ASSUME IdInv, NEW t \in DOMAIN IdThreads, GetOrInitialize(t) PROVE IdInv'
<1> DEFINE st == idState[IdThreads[t]]
<1>1. UNCHANGED <<uidMap, idState>> /\ st \in ProcessStates /\ StateOK(IdThreads[t], st)
  BY Records DEF GetOrInitialize, IdInv, IdTypeOK
<1>2. CASE idPast' = idPast /\ idCalls' = [idCalls EXCEPT ![t] = IdCall("read", NoMap)]
  BY <1>1, <1>2, GoesTo
<1>3. CASE idPast' = idPast /\ st.store.exists /\ idCalls' = [idCalls EXCEPT ![t] = IdCall("update", st.store)]
  <2>1. PICK m \in Maps : m = st.store
    BY <1>1 DEF ProcessStates
  <2>2. PICK new \in CallStates : new = IdCall("update", m) /\ new.pc = "update" /\ new.obj = m
    BY NewCall
  <2>3. CallOK(new)
    BY <1>1, <1>3, <2>1, <2>2, Records DEF CallOK, StateOK
  <2>4. idCalls' = [idCalls EXCEPT ![t] = new]
    BY <1>3, <2>1, <2>2
  <2> QED
    BY <1>1, <1>3, <2>2, <2>3, <2>4, CallMoves DEF IdInv, IdTypeOK, MapOK
<1>4. CASE /\ idPast' = [idPast EXCEPT !.uid = @ + 1]
           /\ idCalls' = [idCalls EXCEPT ![t] = IdCall("create", IdMap(idPast.uid + 1, idPast.uid + 1))]
  <2>1. PICK n \in Nat : n = idPast.uid + 1 /\ n # 0
    BY DEF IdInv, IdTypeOK
  <2>2. PICK m \in Maps : m = IdMap(n, n) /\ m.exists /\ m.cluster = n /\ m.provider = n
    BY Records
  <2>3. PICK new \in CallStates : new = IdCall("create", m) /\ new.pc = "create" /\ new.obj = m
    BY NewCall
  <2>4. CallOK(new)
    BY <2>1, <2>2, <2>3 DEF CallOK
  <2>5. idCalls' = [idCalls EXCEPT ![t] = new]
    BY <1>4, <2>1, <2>2, <2>3
  <2>6. idPast' = [idPast EXCEPT !.uid = n]
    BY <1>4, <2>1
  <2>7. /\ idPast'.maps = idPast.maps /\ idPast'.edited = idPast.edited /\ idPast'.given = idPast.given /\ idPast'.raced = idPast.raced
        /\ idPast' \in [maps : SUBSET Maps, given : SUBSET Nat, changes : Nat, edited : BOOLEAN, uid : Nat, raced : SUBSET Processes]
    BY <2>6 DEF IdInv, IdTypeOK
  <2>8. ~idPast.edited => idPast'.given \subseteq {uidMap.cluster} \ {0}
    BY <2>7 DEF IdInv, MapOK
  <2> QED
    BY <1>1, <2>3, <2>4, <2>5, <2>7, <2>8, CallMoves
<1> QED
  BY <1>2, <1>3, <1>4 DEF GetOrInitialize, StepIds

\* A call reads both ids of its process together, under the lock.
LEMMA ReadHolds == ASSUME IdInv, NEW t \in DOMAIN IdThreads, ReadIds(t) PROVE IdInv'
<1>1. PICK st \in ProcessStates : st = idState[IdThreads[t]] /\ StateOK(IdThreads[t], st)
  BY Records DEF IdInv, IdTypeOK
<1>2. PICK ids \in [cluster : Nat, provider : Nat] :
        ids = [cluster |-> st.cluster, provider |-> st.provider] /\ ids.cluster = st.cluster /\ ids.provider = st.provider
  <2>1. st.cluster \in Nat /\ st.provider \in Nat
    BY <1>1 DEF ProcessStates
  <2>2. [cluster |-> st.cluster, provider |-> st.provider] \in [cluster : Nat, provider : Nat]
    BY <2>1
  <2> QED
    BY <2>2
<1>3. PICK new : new = [IdCall("done", NoMap) EXCEPT !.ids = ids]
  OBVIOUS
<1>4. new \in CallStates /\ new.pc = "done" /\ new.ids = ids
  <2>1. PICK call \in CallStates : call = IdCall("done", NoMap) /\ call.pc = "done"
    BY Records, NewCall
  <2>2. new = [call EXCEPT !.ids = ids]
    BY <1>3, <2>1
  <2> QED
    BY <1>2, <2>1, <2>2 DEF CallStates
<1>5. CallOK(new)
  BY <1>1, <1>2, <1>4 DEF CallOK, StateOK
<1>6. /\ idCalls' = [idCalls EXCEPT ![t] = new] /\ UNCHANGED <<uidMap, idState>>
      /\ idPast' = IF st.cluster = 0 THEN idPast
                   ELSE [idPast EXCEPT !.given = @ \cup {IF st.provider # 0 THEN st.provider ELSE st.cluster}]
  BY <1>1, <1>2, <1>3 DEF ReadIds, StepIds
<1>7. PICK id \in Nat : id = IF st.provider # 0 THEN st.provider ELSE st.cluster
  BY <1>1 DEF ProcessStates
<1>8. ~idPast.edited /\ st.cluster # 0 => id = uidMap.cluster /\ id # 0
  BY <1>1, <1>7 DEF StateOK
<1>9. CASE st.cluster = 0
  BY <1>4, <1>5, <1>6, <1>9, CallMoves DEF IdInv, IdTypeOK, MapOK
<1>10. CASE st.cluster # 0
  <2>1. PICK given \in SUBSET Nat : given = idPast.given \cup {id}
    BY DEF IdInv, IdTypeOK
  <2>2. idPast' = [idPast EXCEPT !.given = given]
    BY <1>6, <1>7, <1>10, <2>1
  <2>3. /\ idPast'.maps = idPast.maps /\ idPast'.edited = idPast.edited /\ idPast'.given = given /\ idPast'.raced = idPast.raced
        /\ idPast' \in [maps : SUBSET Maps, given : SUBSET Nat, changes : Nat, edited : BOOLEAN, uid : Nat, raced : SUBSET Processes]
    BY <2>2 DEF IdInv, IdTypeOK
  <2>4. ~idPast.edited => idPast'.given \subseteq {uidMap.cluster} \ {0}
    BY <1>8, <1>10, <2>1, <2>3 DEF IdInv, MapOK
  <2> QED
    BY <1>4, <1>5, <1>6, <2>3, <2>4, CallMoves
<1> QED
  BY <1>9, <1>10

\* A call returns what it read.
LEMMA ReturnHolds == ASSUME IdInv, NEW t \in DOMAIN IdThreads, ReturnIds(t) PROVE IdInv'
BY GoesTo DEF ReturnIds, StepIds

\* A new ConfigMap: everything that is in use was in an earlier one.
LEMMA NewMap ==
  ASSUME IdInv, NEW m \in Maps, uidMap' = m, idState' = idState,
         idCalls' \in [DOMAIN IdThreads -> CallStates],
         \A t \in DOMAIN IdThreads : idCalls'[t] = idCalls[t] \/ CallOK(idCalls[t])',
         idPast' \in [maps : SUBSET Maps, given : SUBSET Nat, changes : Nat, edited : BOOLEAN, uid : Nat, raced : SUBSET Processes],
         idPast'.maps = idPast.maps \cup {m}, idPast'.given = idPast.given, idPast'.raced = idPast.raced,
         m = NoMap \/ (m.exists /\ m.cluster # 0),
         \/ idPast'.edited
         \/ ~uidMap.exists /\ m.exists /\ m.provider = m.cluster /\ idPast'.edited = idPast.edited
  PROVE  IdInv'
<1>1. IdTypeOK'
  BY DEF IdInv, IdTypeOK
<1>2. MapOK'
  <2>1. ~idPast'.edited => uidMap'.provider = uidMap'.cluster /\ idPast'.given \subseteq {uidMap'.cluster} \ {0}
    BY Records DEF IdInv, MapOK
  <2> QED
    BY <2>1, Records DEF IdInv, MapOK
<1>3. AllProviders' => AllProviders
  BY DEF AllProviders
<1>4. ASSUME NEW p \in Processes PROVE StateOK(p, idState[p])'
  <2>1. PICK st \in ProcessStates : st = idState[p] /\ StateOK(p, st)
    BY DEF IdInv, IdTypeOK
  <2>2. ~idPast'.edited => uidMap = NoMap /\ ~idPast.edited
    BY DEF IdInv, MapOK
  <2>3. ~idPast'.edited => st.store \in {NoMap, uidMap'} /\ st.cluster \in {0, uidMap'.cluster} /\ st.provider \in {0, uidMap'.cluster}
    BY <2>1, <2>2, Records DEF StateOK
  <2>4. StateOK(p, st)'
    BY <1>3, <2>1, <2>3 DEF StateOK
  <2> QED
    BY <2>1, <2>4 DEF StateOK
<1>5. ASSUME NEW t \in DOMAIN IdThreads PROVE CallOK(idCalls[t])'
  <2>1. CASE idCalls'[t] = idCalls[t]
    <3>1. PICK call : call = idCalls[t] /\ CallOK(call)
      BY DEF IdInv
    <3>2. ~idPast'.edited => uidMap = NoMap /\ ~idPast.edited
      BY DEF IdInv, MapOK
    <3>3. CallOK(call)'
      BY <1>3, <3>1, <3>2, Records DEF CallOK
    <3> QED
      BY <2>1, <3>1, <3>3 DEF CallOK
  <2> QED
    BY <2>1
<1> QED
  BY <1>1, <1>2, <1>4, <1>5 DEF IdInv

\* Somebody edits the ConfigMap, which is noted.
LEMMA EditHolds == ASSUME IdInv, EditMap PROVE IdInv'
<1>1. PICK m \in {NoMap, IdMap(FederatedId, uidMap.provider), IdMap(uidMap.cluster, 0)} : WriteMap(m, TRUE)
  BY DEF EditMap
<1>2. uidMap.exists /\ uidMap \in Maps /\ uidMap.cluster \in Nat \ {0} /\ uidMap.provider \in Nat
  BY DEF EditMap, IdInv, IdTypeOK, MapOK, Maps
<1>3. m \in Maps /\ (m = NoMap \/ (m.exists /\ m.cluster # 0))
  BY <1>2, Records, IdAssumption
<1>4. PICK maps \in SUBSET Maps : maps = idPast.maps \cup {m}
  BY <1>3 DEF IdInv, IdTypeOK
<1>5. PICK c \in Nat : c = idPast.changes + 1
  BY DEF IdInv, IdTypeOK
<1>6. idPast' = [idPast EXCEPT !.maps = maps, !.changes = c, !.edited = TRUE]
  <2>1. idPast' = [idPast EXCEPT !.maps = maps, !.changes = c, !.edited = idPast.edited \/ TRUE]
    BY <1>1, <1>4, <1>5 DEF WriteMap
  <2>2. (idPast.edited \/ TRUE) = TRUE
    OBVIOUS
  <2> QED
    BY <2>1, <2>2, Zenon
<1>7. /\ idPast'.maps = maps /\ idPast'.given = idPast.given /\ idPast'.raced = idPast.raced /\ idPast'.edited
      /\ idPast' \in [maps : SUBSET Maps, given : SUBSET Nat, changes : Nat, edited : BOOLEAN, uid : Nat, raced : SUBSET Processes]
  BY <1>6 DEF IdInv, IdTypeOK
<1>8. uidMap' = m /\ idState' = idState /\ idCalls' = idCalls
  BY <1>1 DEF EditMap, WriteMap
<1> QED
  BY <1>3, <1>4, <1>7, <1>8, NewMap DEF IdInv, IdTypeOK

\* A call creates the ConfigMap with a new id, or finds that another one was faster.
LEMMA CreateHolds == ASSUME IdInv, NEW t \in DOMAIN IdThreads, CreateMap(t) PROVE IdInv'
<1>1. PICK m \in Maps : m = idCalls[t].obj /\ m.exists /\ m.provider = m.cluster /\ m.cluster # 0
  BY DEF IdInv, IdTypeOK, CallOK, CallStates, CreateMap
<1>2. idState' = idState
  BY DEF CreateMap
<1>3. CASE uidMap.exists /\ idCalls' = [idCalls EXCEPT ![t] = IdCall("idle", NoMap)] /\ UNCHANGED <<uidMap, idPast>>
  BY <1>2, <1>3, GoesTo
<1>4. PICK maps \in SUBSET Maps : maps = idPast.maps \cup {m}
  BY <1>1 DEF IdInv, IdTypeOK
<1>5. CASE /\ ~uidMap.exists /\ uidMap' = m /\ idPast' = [idPast EXCEPT !.maps = maps]
           /\ idCalls' = [idCalls EXCEPT ![t] = IdCall("update", m)]
  <2>1. /\ idPast'.maps = maps /\ idPast'.given = idPast.given /\ idPast'.raced = idPast.raced /\ idPast'.edited = idPast.edited
        /\ idPast' \in [maps : SUBSET Maps, given : SUBSET Nat, changes : Nat, edited : BOOLEAN, uid : Nat, raced : SUBSET Processes]
    BY <1>4, <1>5 DEF IdInv, IdTypeOK
  <2>2. PICK new \in CallStates : new = IdCall("update", m) /\ new.pc = "update" /\ new.obj = m
    BY NewCall
  <2>3. CallOK(new)'
    BY <1>1, <1>4, <1>5, <2>1, <2>2 DEF CallOK
  <2>4. idCalls' = [idCalls EXCEPT ![t] = new]
    BY <1>5, <2>2
  <2>5. idCalls' \in [DOMAIN IdThreads -> CallStates] /\ idCalls'[t] = new
    BY <2>4 DEF IdInv, IdTypeOK
  <2>6. CallOK(idCalls[t])'
    BY <2>3, <2>5 DEF CallOK
  <2>7. \A s \in DOMAIN IdThreads : idCalls'[s] = idCalls[s] \/ CallOK(idCalls[s])'
    BY <2>4, <2>6 DEF IdInv, IdTypeOK
  <2> QED
    BY <1>1, <1>2, <1>4, <1>5, <2>1, <2>5, <2>7, NewMap
<1>6. CASE ~uidMap.exists /\ WriteMap(m, FALSE) /\ idCalls' = [idCalls EXCEPT ![t] = IdCall("idle", NoMap)]
  <2>1. PICK c \in Nat : c = idPast.changes + 1
    BY DEF IdInv, IdTypeOK
  <2>2. idPast' = [idPast EXCEPT !.maps = maps, !.changes = c, !.edited = idPast.edited \/ FALSE] /\ uidMap' = m
    BY <1>4, <1>6, <2>1 DEF WriteMap
  <2>3. PICK e \in BOOLEAN : e = idPast.edited
    BY DEF IdInv, IdTypeOK
  <2>4. idPast' = [idPast EXCEPT !.maps = maps, !.changes = c, !.edited = e]
    <3>1. (idPast.edited \/ FALSE) = e
      BY <2>3
    <3> QED
      BY <2>2, <3>1, Zenon
  <2>5. /\ idPast'.maps = maps /\ idPast'.given = idPast.given /\ idPast'.raced = idPast.raced /\ idPast'.edited = idPast.edited
        /\ idPast' \in [maps : SUBSET Maps, given : SUBSET Nat, changes : Nat, edited : BOOLEAN, uid : Nat, raced : SUBSET Processes]
    BY <2>3, <2>4 DEF IdInv, IdTypeOK
  <2>6. PICK new \in CallStates : new = IdCall("idle", NoMap) /\ new.pc = "idle"
    BY Records, NewCall
  <2>7. CallOK(new)'
    BY <2>6 DEF CallOK
  <2>8. idCalls' = [idCalls EXCEPT ![t] = new]
    BY <1>6, <2>6
  <2>9. idCalls' \in [DOMAIN IdThreads -> CallStates] /\ idCalls'[t] = new
    BY <2>8 DEF IdInv, IdTypeOK
  <2>10. CallOK(idCalls[t])'
    BY <2>7, <2>9 DEF CallOK
  <2>11. \A s \in DOMAIN IdThreads : idCalls'[s] = idCalls[s] \/ CallOK(idCalls[s])'
    BY <2>8, <2>10 DEF IdInv, IdTypeOK
  <2> QED
    BY <1>1, <1>2, <1>4, <1>6, <2>2, <2>5, <2>9, <2>11, NewMap
<1> QED
  BY <1>1, <1>3, <1>4, <1>5, <1>6 DEF CreateMap, StepIds

\* Every behaviour keeps the invariant.
LEMMA IdInvHolds == IdSpec => []IdInv
<1>1. IdInv /\ [IdNext]_idVars => IdInv'
  <2> SUFFICES ASSUME IdInv, [IdNext]_idVars PROVE IdInv'
    OBVIOUS
  <2>1. ASSUME NEW p \in Processes, WatchClusterId(p) \/ StoreMap(p) \/ HandleIds(p) \/ RestartProcess(p) PROVE IdInv'
    BY <2>1, WatchHolds, StoreHolds, HandleHolds, RestartHolds
  <2>2. ASSUME NEW t \in DOMAIN IdThreads,
               GetOrInitialize(t) \/ CreateMap(t) \/ ApplyCopy(t) \/ ReadIds(t) \/ ReturnIds(t)
        PROVE  IdInv'
    BY <2>2, GetHolds, CreateHolds, ApplyHolds, ReadHolds, ReturnHolds
  <2>3. CASE UNCHANGED idVars
    BY <2>3 DEF IdInv, IdTypeOK, MapOK, StateOK, CallOK, AllProviders, idVars
  <2> QED
    BY <2>1, <2>2, <2>3, EditHolds DEF IdNext
<1> QED
  BY <1>1, IdInitHolds, PTL DEF IdSpec

\* For any processes, threads and restarts: until the ConfigMap is edited, GetID gives
\* one id.
THEOREM OneId == IdSpec => []OneClusterId
<1>1. IdInv => OneClusterId
  <2> SUFFICES ASSUME IdInv, ~idPast.edited PROVE Cardinality(idPast.given) <= 1
    BY DEF OneClusterId
  <2>1. idPast.given \subseteq {uidMap.cluster}
    BY DEF IdInv, MapOK
  <2>2. IsFiniteSet({uidMap.cluster}) /\ Cardinality({uidMap.cluster}) = 1
    BY FS_Singleton
  <2>3. Cardinality(idPast.given) <= Cardinality({uidMap.cluster})
    BY <2>1, <2>2, FS_Subset
  <2> QED
    BY <2>2, <2>3
<1> QED
  BY <1>1, IdInvHolds, PTL

\* For any processes, threads and changes: a process whose informer is up to date has
\* the ids of the ConfigMap, and the two ids that are compared were in one ConfigMap.
THEOREM IdsTrue == IdSpec => []IdsAreTrue
<1>1. IdInv => IdsConverge
  BY DEF IdInv, StateOK, IdsConverge
<1>2. IdInv => FederationIsTrue
  BY DEF IdInv, CallOK, FederationIsTrue, AllProviders
<1> QED
  BY <1>1, <1>2, IdInvHolds, PTL DEF IdsAreTrue
=============================================================================
