----------------------------- MODULE CertProofs -----------------------------
(***************************************************************************)
(* The certificate loops for any requests, scenes, faults and VMs: though   *)
(* every loop works on a copy of its informer's and retries, a request is   *)
(* decided once, and signed only when that decision was to approve it.      *)
(***************************************************************************)
EXTENDS CertApprovers, TLAPS

Loops == {"node", "istiod", "oidc", "readonly", "signer", "library"}
CsrStates == [exists : BOOLEAN, rv : Nat, conds : Seq({"approved", "denied"}), cert : BOOLEAN, by : Loops \cup {""}]

\* A record with these fields, whatever is in them.
HasFields(r, fields) == r = [f \in fields |-> r[f]]
WorkFields == {"pc", "rv", "verdict", "key", "uid", "inst", "pods", "failed"}
PastFields == {"faults", "asked", "early", "granted", "hurt"}

CertTypeOK ==
  /\ csrScene \in CsrScenes
  /\ csr \in [Csrs -> CsrStates]
  /\ csrCache \in [Csrs -> CsrStates]
  /\ HasFields(csrWork, Jobs)
  /\ HasFields(csrPast, PastFields)

\* What a request and its cached copy may be.
RequestOK(c, now, copy) ==
  /\ c \notin csrPast.asked => now = NoCsr
  /\ now.conds \in {<<>>, <<"approved">>, <<"denied">>}
  /\ now.cert => now.conds = <<"approved">>
  /\ copy.rv <= now.rv
  /\ copy.rv = now.rv => copy.conds = now.conds
  /\ Decided(copy) => copy.conds = now.conds

\* What a handler may be doing about a request: an approver that could still write has seen it
\* undecided, and what is being signed is approved.
Signing == {"sign", "status"}
WorkOK(work, now) ==
  /\ HasFields(work, WorkFields)
  /\ work.rv \in Nat /\ work.rv <= now.rv
  /\ work.pc \notin Signing \cup {"idle"} /\ work.rv = now.rv => ~Decided(now)
  /\ work.pc \in Signing => now.conds = <<"approved">>
  /\ work.pc = "update" => work.verdict \in {"approved", "denied"}

\* The inductive invariant.
CertInv ==
  /\ CertTypeOK
  /\ \A c \in Csrs : RequestOK(c, csr[c], csrCache[c])
  /\ \A j \in Jobs : WorkOK(csrWork[j], csr[j[2]])

\* A handler that does nothing is right about every request.
LEMMA IdleWork ==
  /\ HasFields(CsrIdle, WorkFields) /\ CsrIdle.pc = "idle" /\ CsrIdle.rv = 0
  /\ \A now \in CsrStates : WorkOK(CsrIdle, now)
<1>1. HasFields(CsrIdle, WorkFields) /\ CsrIdle.pc = "idle" /\ CsrIdle.rv = 0
  BY DEF HasFields, CsrIdle, WorkFields
<1>2. \A now \in CsrStates : now.rv \in Nat
  BY DEF CsrStates
<1> QED
  BY <1>1, <1>2 DEF WorkOK, Signing

\* A request that nobody made yet.
LEMMA NewRequest == NoCsr \in CsrStates /\ NoCsr.conds = <<>> /\ NoCsr.rv = 0 /\ ~NoCsr.cert
<1>1. <<>> \in Seq({"approved", "denied"})
  OBVIOUS
<1>2. NoCsr \in CsrStates
  BY <1>1 DEF NoCsr, CsrStates
<1>3. NoCsr.conds = <<>> /\ NoCsr.rv = 0 /\ ~NoCsr.cert
  BY DEF NoCsr
<1> QED
  BY <1>2, <1>3

\* Nobody has asked for anything, and every handler is idle.
LEMMA CertInitHolds == CsrInit => CertInv
<1> SUFFICES ASSUME CsrInit PROVE CertInv
  OBVIOUS
<1>1. CertTypeOK
  <2>1. HasFields(csrWork, Jobs)
    BY DEF CsrInit, HasFields, Jobs
  <2>2. HasFields(csrPast, PastFields)
    BY DEF CsrInit, HasFields, PastFields
  <2> QED
    BY <2>1, <2>2, NewRequest DEF CsrInit, CertTypeOK
<1>2. \A c \in Csrs : csr[c] = NoCsr /\ csrCache[c] = NoCsr
  BY DEF CsrInit
<1>3. \A c \in Csrs : RequestOK(c, NoCsr, NoCsr)
  BY NewRequest DEF RequestOK, Decided
<1>4. \A j \in Jobs : csrWork[j] = CsrIdle /\ j[2] \in Csrs
  BY DEF CsrInit, Jobs
<1> QED
  BY <1>1, <1>2, <1>3, <1>4, NewRequest, IdleWork DEF CertInv

\* A step of one handler that writes no request.
LEMMA JobMoves ==
  ASSUME CertInv, NEW j \in Jobs, NEW new,
         csrWork' = [csrWork EXCEPT ![j] = new],
         UNCHANGED <<csrScene, csr, csrCache>>, csrPast'.asked = csrPast.asked, HasFields(csrPast', PastFields),
         WorkOK(new, csr[j[2]])
  PROVE  CertInv'
<1>1. Jobs' = Jobs /\ csrWork'[j] = new /\ \A k \in Jobs \ {j} : csrWork'[k] = csrWork[k]
  BY DEF CertInv, CertTypeOK, Jobs, HasFields
<1>2. HasFields(csrWork, Jobs)'
  BY <1>1 DEF CertInv, CertTypeOK, HasFields
<1>3. CertTypeOK'
  BY <1>2 DEF CertInv, CertTypeOK, HasFields
<1>4. \A c \in Csrs : RequestOK(c, csr[c], csrCache[c])'
  BY DEF CertInv, RequestOK, Decided
<1>5. \A k \in Jobs : WorkOK(csrWork[k], csr[k[2]])'
  BY <1>1 DEF CertInv, WorkOK, HasFields, Decided
<1> QED
  BY <1>1, <1>3, <1>4, <1>5 DEF CertInv

\* Faults leave the past as it is, but for their number.
LEMMA FaultKeeps ==
  ASSUME CertInv, CsrFault \/ UNCHANGED csrPast
  PROVE  csrPast'.asked = csrPast.asked /\ HasFields(csrPast', PastFields)
BY DEF CertInv, CertTypeOK, CsrFault, HasFields, PastFields

\* A handler that fails, or goes on towards its decision.
LEMMA Continues ==
  ASSUME CertInv, NEW j \in Jobs, csrWork[j].pc \notin Signing \cup {"idle"},
         UNCHANGED <<csrScene, csr, csrCache>>, csrPast'.asked = csrPast.asked, HasFields(csrPast', PastFields),
         \/ csrWork' = [csrWork EXCEPT ![j] = CsrIdle]
         \/ \E new : /\ csrWork' = [csrWork EXCEPT ![j] = new] /\ HasFields(new, WorkFields)
                     /\ new.rv = csrWork[j].rv /\ new.pc \notin Signing \cup {"idle"}
                     /\ new.pc = "update" => new.verdict \in {"approved", "denied"}
  PROVE  CertInv'
<1>1. j[2] \in Csrs /\ csr[j[2]] \in CsrStates
  BY DEF Jobs, CertInv, CertTypeOK
<1>2. CASE csrWork' = [csrWork EXCEPT ![j] = CsrIdle]
  <2>1. PICK new : new = CsrIdle /\ WorkOK(new, csr[j[2]])
    BY <1>1, IdleWork
  <2> QED
    BY <1>2, <2>1, JobMoves
<1>3. ASSUME NEW new, csrWork' = [csrWork EXCEPT ![j] = new], HasFields(new, WorkFields),
             new.rv = csrWork[j].rv, new.pc \notin Signing \cup {"idle"},
             new.pc = "update" => new.verdict \in {"approved", "denied"}
      PROVE  CertInv'
  <2>1. WorkOK(csrWork[j], csr[j[2]])
    BY DEF CertInv
  <2>2. WorkOK(new, csr[j[2]])
    BY <1>3, <2>1 DEF WorkOK
  <2> QED
    BY <1>3, <2>2, JobMoves
<1> QED
  BY <1>2, <1>3

\* The records that handlers go on with.
LEMMA Goes ==
  ASSUME NEW work, HasFields(work, WorkFields)
  PROVE  /\ \A pc : HasFields(At(work, pc), WorkFields) /\ At(work, pc).pc = pc /\ At(work, pc).rv = work.rv
         /\ \A allowed \in BOOLEAN : /\ HasFields(Decides(work, allowed), WorkFields) /\ Decides(work, allowed).pc = "update"
                                     /\ Decides(work, allowed).rv = work.rv
                                     /\ Decides(work, allowed).verdict \in {"approved", "denied"}
<1>1. \A pc : HasFields(At(work, pc), WorkFields) /\ At(work, pc).pc = pc /\ At(work, pc).rv = work.rv
  BY DEF HasFields, WorkFields, At
<1>2. ASSUME NEW v
      PROVE  LET new == [work EXCEPT !.pc = "update", !.verdict = v]
             IN  HasFields(new, WorkFields) /\ new.pc = "update" /\ new.rv = work.rv /\ new.verdict = v
  BY DEF HasFields, WorkFields
<1> QED
  BY <1>1, <1>2 DEF Decides, Verdict

\* What a step of a handler that does not write may do.
Undecided == {"identity", "server", "sar", "instance", "node", "vm", "delete", "list", "clear", "pods of reader", "rbac",
              "validate", "review", "hook"}
GoesOn(j, new) ==
  /\ csrWork' = [csrWork EXCEPT ![j] = new] /\ HasFields(new, WorkFields) /\ new.rv = csrWork[j].rv
  /\ \/ new.pc \in Undecided
     \/ new.pc = "update" /\ new.verdict \in {"approved", "denied"}
HandlerStep(j) ==
  /\ UNCHANGED <<csrScene, csr, csrCache>> /\ (CsrFault \/ UNCHANGED csrPast)
  /\ csrWork[j].pc \in Undecided
  /\ csrWork' = [csrWork EXCEPT ![j] = CsrIdle] \/ \E new : GoesOn(j, new)

\* A handler on its way to a decision keeps the invariant: it keeps the version it read.
LEMMA HandlerHolds == ASSUME CertInv, NEW j \in Jobs, HandlerStep(j) PROVE CertInv'
<1>1. csrPast'.asked = csrPast.asked /\ HasFields(csrPast', PastFields) /\ UNCHANGED <<csrScene, csr, csrCache>>
  BY FaultKeeps DEF HandlerStep
<1>2. csrWork[j].pc \notin Signing \cup {"idle"}
  BY DEF HandlerStep, Undecided, Signing
<1>3. CASE csrWork' = [csrWork EXCEPT ![j] = CsrIdle]
  BY <1>1, <1>2, <1>3, Continues
<1>4. ASSUME NEW new, GoesOn(j, new) PROVE CertInv'
  <2>1. /\ csrWork' = [csrWork EXCEPT ![j] = new] /\ HasFields(new, WorkFields) /\ new.rv = csrWork[j].rv
        /\ new.pc \notin Signing \cup {"idle"} /\ (new.pc = "update" => new.verdict \in {"approved", "denied"})
    BY <1>4 DEF GoesOn, Signing, Undecided
  <2> QED
    BY <1>1, <1>2, <2>1, Continues
<1> QED
  BY <1>3, <1>4 DEF HandlerStep

\* What CsrFail, Decide and CsrGoto do to the record of a handler.
LEMMA Moves ==
  ASSUME CertInv, NEW j \in Jobs
  PROVE  /\ CsrFail(j) => csrWork' = [csrWork EXCEPT ![j] = CsrIdle]
         /\ \A allowed \in BOOLEAN : Decide(j, allowed) => \E new : GoesOn(j, new)
         /\ \A pc \in Undecided : CsrGoto(j, At(csrWork[j], pc)) => \E new : GoesOn(j, new)
<1>1. HasFields(csrWork[j], WorkFields)
  BY DEF CertInv, WorkOK
<1>2. CsrFail(j) => csrWork' = [csrWork EXCEPT ![j] = CsrIdle]
  BY DEF CsrFail
<1>3. ASSUME NEW allowed \in BOOLEAN, Decide(j, allowed) PROVE \E new : GoesOn(j, new)
  <2>1. GoesOn(j, Decides(csrWork[j], allowed))
    BY <1>1, <1>3, Goes DEF Decide, CsrGoto, GoesOn
  <2> QED
    BY <2>1
<1>4. ASSUME NEW pc \in Undecided, CsrGoto(j, At(csrWork[j], pc)) PROVE \E new : GoesOn(j, new)
  <2>1. GoesOn(j, At(csrWork[j], pc))
    BY <1>1, <1>4, Goes DEF CsrGoto, GoesOn
  <2> QED
    BY <2>1
<1> QED
  BY <1>2, <1>3, <1>4

\* A call either fails, or is followed by what the handler does next.
LEMMA Calls ==
  ASSUME CertInv, NEW j \in Jobs, NEW pc \in Undecided, csrWork[j].pc = pc,
         UNCHANGED <<csrScene, csr, csrCache>>, CsrFault \/ UNCHANGED csrPast,
         \/ CsrFail(j)
         \/ Decide(j, TRUE) \/ Decide(j, FALSE)
         \/ \E to \in Undecided : CsrGoto(j, At(csrWork[j], to))
         \/ \E new : GoesOn(j, new)
  PROVE  CertInv'
<1>1. HandlerStep(j)
  BY Moves DEF HandlerStep
<1> QED
  BY <1>1, HandlerHolds

\* The calls of the node approver up to the deletion of a Node.
LEMMA NodeCallsHold ==
  ASSUME CertInv, NEW j \in Jobs,
         EkPubAndIDFromAPI(j) \/ GetInstance(j) \/ CheckServer(j) \/ AuthorizeSAR(j) \/ HookNode(j) \/ HookVm(j)
  PROVE  CertInv'
<1>1. HasFields(csrWork[j], WorkFields)
  BY DEF CertInv, WorkOK
<1>3. CASE EkPubAndIDFromAPI(j)
  <2>1. ASSUME CsrGoto(j, [csrWork[j] EXCEPT !.pc = "instance", !.key = vm.id]) PROVE \E new : GoesOn(j, new)
    <3>1. PICK new : new = [csrWork[j] EXCEPT !.pc = "instance", !.key = vm.id]
      OBVIOUS
    <3>2. HasFields(new, WorkFields) /\ new.pc = "instance" /\ new.rv = csrWork[j].rv
      BY <1>1, <3>1 DEF HasFields, WorkFields
    <3>3. GoesOn(j, new)
      BY <2>1, <3>1, <3>2 DEF CsrGoto, GoesOn, Undecided
    <3> QED
      BY <3>3
  <2>2. /\ csrWork[j].pc = "identity" /\ UNCHANGED <<csrScene, csr, csrCache>> /\ (CsrFault \/ UNCHANGED csrPast)
        /\ \/ CsrFail(j) \/ Decide(j, FALSE)
           \/ CsrGoto(j, [csrWork[j] EXCEPT !.pc = "instance", !.key = vm.id])
    BY <1>3 DEF EkPubAndIDFromAPI, CsrCall, CsrUnchanged
  <2> QED
    BY <2>1, <2>2, Calls DEF Undecided
<1>4. CASE GetInstance(j)
  <2>1. /\ csrWork[j].pc = "instance" /\ UNCHANGED <<csrScene, csr, csrCache>> /\ (CsrFault \/ UNCHANGED csrPast)
        /\ CsrFail(j) \/ Decide(j, FALSE) \/ CsrGoto(j, At(csrWork[j], "sar"))
    BY <1>4 DEF GetInstance, CsrCall, CsrUnchanged
  <2> QED
    BY <2>1, Calls DEF Undecided
<1>5. CASE CheckServer(j)
  <2>1. /\ csrWork[j].pc = "server" /\ UNCHANGED <<csrScene, csr, csrCache>> /\ (CsrFault \/ UNCHANGED csrPast)
        /\ CsrFail(j) \/ Decide(j, FALSE) \/ CsrGoto(j, At(csrWork[j], "sar"))
    BY <1>5 DEF CheckServer, CsrCall, CsrUnchanged
  <2> QED
    BY <2>1, Calls DEF Undecided
<1>6. CASE AuthorizeSAR(j)
  <2>1. /\ csrWork[j].pc = "sar" /\ UNCHANGED <<csrScene, csr, csrCache>> /\ (CsrFault \/ UNCHANGED csrPast)
        /\ CsrFail(j) \/ Decide(j, TRUE) \/ CsrGoto(j, At(csrWork[j], "node"))
    BY <1>6 DEF AuthorizeSAR, CsrCall, CsrUnchanged
  <2> QED
    BY <2>1, Calls DEF Undecided
<1>7. CASE HookNode(j)
  <2>1. ASSUME CsrGoto(j, [csrWork[j] EXCEPT !.pc = "vm", !.uid = knode.uid, !.inst = knode.id]) PROVE \E new : GoesOn(j, new)
    <3>1. PICK new : new = [csrWork[j] EXCEPT !.pc = "vm", !.uid = knode.uid, !.inst = knode.id]
      OBVIOUS
    <3>2. HasFields(new, WorkFields) /\ new.pc = "vm" /\ new.rv = csrWork[j].rv
      BY <1>1, <3>1 DEF HasFields, WorkFields
    <3>3. GoesOn(j, new)
      BY <2>1, <3>1, <3>2 DEF CsrGoto, GoesOn, Undecided
    <3> QED
      BY <3>3
  <2>2. /\ csrWork[j].pc = "node" /\ UNCHANGED <<csrScene, csr, csrCache>> /\ (CsrFault \/ UNCHANGED csrPast)
        /\ \/ CsrFail(j) \/ Decide(j, TRUE) \/ CsrGoto(j, At(csrWork[j], "list"))
           \/ CsrGoto(j, [csrWork[j] EXCEPT !.pc = "vm", !.uid = knode.uid, !.inst = knode.id])
    BY <1>7 DEF HookNode, CsrCall, CsrUnchanged
  <2> QED
    BY <2>1, <2>2, Calls DEF Undecided
<1>8. CASE HookVm(j)
  <2>1. /\ csrWork[j].pc = "vm" /\ UNCHANGED <<csrScene, csr, csrCache>> /\ (CsrFault \/ UNCHANGED csrPast)
        /\ CsrFail(j) \/ Decide(j, TRUE) \/ CsrGoto(j, At(csrWork[j], "delete"))
    BY <1>8 DEF HookVm, CsrCall, CsrUnchanged
  <2> QED
    BY <2>1, Calls DEF Undecided
<1> QED
  BY <1>3, <1>4, <1>5, <1>6, <1>7, <1>8

\* What follows a deletion: the pods, a failure, or the decision.
LEMMA EndsOfHook ==
  ASSUME CertInv, NEW j \in Jobs, NEW failed,
         \/ HookEnds(j, failed) \/ DeletePods(j, failed)
         \/ \E pods : \/ csrWork[j].pc \in Undecided /\ CsrGoto(j, [csrWork[j] EXCEPT !.pods = pods])
                      \/ CsrGoto(j, [csrWork[j] EXCEPT !.pc = "clear", !.pods = pods])
  PROVE  CsrFail(j) \/ Decide(j, TRUE) \/ \E new : GoesOn(j, new)
<1>1. HasFields(csrWork[j], WorkFields)
  BY DEF CertInv, WorkOK
<1>2. CASE HookEnds(j, failed)
  BY <1>2 DEF HookEnds
<1>3. ASSUME CsrGoto(j, [csrWork[j] EXCEPT !.pc = "list", !.failed = failed]) PROVE \E new : GoesOn(j, new)
  <2>1. PICK new : new = [csrWork[j] EXCEPT !.pc = "list", !.failed = failed]
    OBVIOUS
  <2>2. HasFields(new, WorkFields) /\ new.pc = "list" /\ new.rv = csrWork[j].rv
    BY <1>1, <2>1 DEF HasFields, WorkFields
  <2>3. GoesOn(j, new)
    BY <1>3, <2>1, <2>2 DEF CsrGoto, GoesOn, Undecided
  <2> QED
    BY <2>3
<1>4. CASE DeletePods(j, failed)
  BY <1>2, <1>3, <1>4 DEF DeletePods
<1>5. ASSUME NEW pods, csrWork[j].pc \in Undecided, CsrGoto(j, [csrWork[j] EXCEPT !.pods = pods]) PROVE \E new : GoesOn(j, new)
  <2>1. PICK new : new = [csrWork[j] EXCEPT !.pods = pods]
    OBVIOUS
  <2>2. HasFields(new, WorkFields) /\ new.pc = csrWork[j].pc /\ new.rv = csrWork[j].rv
    BY <1>1, <2>1 DEF HasFields, WorkFields
  <2>3. GoesOn(j, new)
    BY <1>5, <2>1, <2>2 DEF CsrGoto, GoesOn
  <2> QED
    BY <2>3
<1>6. ASSUME NEW pods, CsrGoto(j, [csrWork[j] EXCEPT !.pc = "clear", !.pods = pods]) PROVE \E new : GoesOn(j, new)
  <2>1. PICK new : new = [csrWork[j] EXCEPT !.pc = "clear", !.pods = pods]
    OBVIOUS
  <2>2. HasFields(new, WorkFields) /\ new.pc = "clear" /\ new.rv = csrWork[j].rv
    BY <1>1, <2>1 DEF HasFields, WorkFields
  <2>3. GoesOn(j, new)
    BY <1>6, <2>1, <2>2 DEF CsrGoto, GoesOn, Undecided
  <2> QED
    BY <2>3
<1> QED
  BY <1>2, <1>4, <1>5, <1>6

\* The deletion of a Node that an earlier VM left.
LEMMA HookDeleteHolds == ASSUME CertInv, NEW j \in Jobs, HookDelete(j) PROVE CertInv'
<1>1. csrWork[j].pc = "delete" /\ UNCHANGED <<csrScene, csr, csrCache>> /\ (CsrFault \/ UNCHANGED csrPast)
  BY DEF HookDelete, CsrUnchanged
<1>2. DeletePods(j, TRUE) \/ DeletePods(j, FALSE)
  BY DEF HookDelete
<1>3. CsrFail(j) \/ Decide(j, TRUE) \/ \E new : GoesOn(j, new)
  BY <1>2, EndsOfHook
<1> QED
  BY <1>1, <1>3, Calls DEF Undecided

\* The list of the pods that are bound to it.
LEMMA ListHolds == ASSUME CertInv, NEW j \in Jobs, ListPods(j) PROVE CertInv'
<1>1. csrWork[j].pc = "list" /\ UNCHANGED <<csrScene, csr, csrCache>> /\ (CsrFault \/ UNCHANGED csrPast)
  BY DEF ListPods, CsrUnchanged
<1>2. PICK failed : failed = csrWork[j].failed
  OBVIOUS
<1>3. HookEnds(j, failed) \/ \E pods : CsrGoto(j, [csrWork[j] EXCEPT !.pc = "clear", !.pods = pods])
  BY <1>2 DEF ListPods
<1>4. CsrFail(j) \/ Decide(j, TRUE) \/ \E new : GoesOn(j, new)
  BY <1>3, EndsOfHook
<1> QED
  BY <1>1, <1>4, Calls DEF Undecided

\* Their deletion, one by one.
LEMMA MarkHolds == ASSUME CertInv, NEW j \in Jobs, NEW i, MarkFailedAndDeletePod(j, i) PROVE CertInv'
<1>1. csrWork[j].pc = "clear" /\ csrWork[j].pc \in Undecided /\ UNCHANGED <<csrScene, csr, csrCache>>
  BY DEF MarkFailedAndDeletePod, CsrUnchanged, Undecided
<1>2. csrPast'.asked = csrPast.asked /\ HasFields(csrPast', PastFields)
  <2>1. CASE CsrFault
    BY <2>1, FaultKeeps
  <2>2. CASE csrPast' = [csrPast EXCEPT !.hurt = IF vm.up /\ i = vm.id THEN @ \cup {i} ELSE @]
    <3>1. PICK hurt : csrPast' = [csrPast EXCEPT !.hurt = hurt]
      BY <2>2
    <3> QED
      BY <3>1 DEF CertInv, CertTypeOK, HasFields, PastFields
  <2> QED
    BY <2>1, <2>2 DEF MarkFailedAndDeletePod
<1>3. PICK failed, rest : failed = csrWork[j].failed /\ rest = csrWork[j].pods \ {i}
  OBVIOUS
<1>4. HookEnds(j, failed) \/ CsrGoto(j, [csrWork[j] EXCEPT !.pods = rest])
  BY <1>3 DEF MarkFailedAndDeletePod, NextPod
<1>5. CsrFail(j) \/ Decide(j, TRUE) \/ \E new : GoesOn(j, new)
  BY <1>1, <1>4, EndsOfHook
<1>6. csrWork' = [csrWork EXCEPT ![j] = CsrIdle] \/ \E new : GoesOn(j, new)
  BY <1>5, Moves
<1>7. ASSUME NEW new, GoesOn(j, new)
      PROVE  /\ csrWork' = [csrWork EXCEPT ![j] = new] /\ HasFields(new, WorkFields) /\ new.rv = csrWork[j].rv
             /\ new.pc \notin Signing \cup {"idle"} /\ (new.pc = "update" => new.verdict \in {"approved", "denied"})
  BY <1>7 DEF GoesOn, Signing, Undecided
<1>8. csrWork[j].pc \notin Signing \cup {"idle"}
  BY <1>1 DEF Signing
<1>9. CASE csrWork' = [csrWork EXCEPT ![j] = CsrIdle]
  BY <1>1, <1>2, <1>8, <1>9, Continues
<1>10. CASE \E new : GoesOn(j, new)
  BY <1>1, <1>2, <1>7, <1>8, <1>10, Continues
<1> QED
  BY <1>6, <1>9, <1>10

\* The calls of the approver of readers and of the library.
LEMMA OtherCallsHold ==
  ASSUME CertInv, NEW j \in Jobs,
         CheckReaders(j) \/ ValidateRbac(j) \/ LibraryValidate(j) \/ LibraryReview(j) \/ LibraryHook(j)
  PROVE  CertInv'
<1>1. HasFields(csrWork[j], WorkFields)
  BY DEF CertInv, WorkOK
<1>2. CASE CheckReaders(j)
  <2>1. PICK is : is = ValidatePodAnnotation(Spec(j[2]), readers)
    OBVIOUS
  <2>2. /\ csrWork[j].pc = "pods of reader" /\ UNCHANGED <<csrScene, csr, csrCache>> /\ (CsrFault \/ UNCHANGED csrPast)
        /\ \/ CsrFail(j)
           \/ CASE is = "error" -> CsrFail(j) [] is = "deny" -> Decide(j, FALSE) [] is = "ok" -> CsrGoto(j, At(csrWork[j], "rbac"))
    BY <1>2, <2>1 DEF CheckReaders, CsrCall, CsrUnchanged
  <2>3. is \in {"error", "deny", "ok"}
    BY <2>1 DEF ValidatePodAnnotation
  <2>4. CsrFail(j) \/ Decide(j, FALSE) \/ CsrGoto(j, At(csrWork[j], "rbac"))
    BY <2>2, <2>3
  <2> QED
    BY <2>2, <2>4, Calls DEF Undecided
<1>3. CASE ValidateRbac(j)
  <2>1. PICK allowed : allowed = (granted /\ ValidateCommonName(Spec(j[2])))
    OBVIOUS
  <2>2. allowed \in BOOLEAN
    BY <2>1
  <2>3. /\ csrWork[j].pc = "rbac" /\ UNCHANGED <<csrScene, csr, csrCache>> /\ (CsrFault \/ UNCHANGED csrPast)
        /\ CsrFail(j) \/ Decide(j, allowed)
    BY <1>3, <2>1 DEF ValidateRbac, CsrCall, CsrUnchanged
  <2> QED
    BY <2>2, <2>3, Calls DEF Undecided
<1>4. CASE LibraryValidate(j)
  <2>1. PICK new : new = [csrWork[j] EXCEPT !.pc = "review", !.key = CHOOSE v \in LibraryTurns(Spec(j[2]), @) :
                                                               \A w \in LibraryTurns(Spec(j[2]), @) : v <= w]
    OBVIOUS
  <2>2. PICK key : new = [csrWork[j] EXCEPT !.pc = "review", !.key = key]
    BY <2>1
  <2>3. HasFields(new, WorkFields) /\ new.pc = "review" /\ new.rv = csrWork[j].rv
    BY <1>1, <2>2 DEF HasFields, WorkFields
  <2>4. CsrGoto(j, new) => GoesOn(j, new)
    BY <2>3 DEF CsrGoto, GoesOn, Undecided
  <2>5. /\ csrWork[j].pc = "validate" /\ UNCHANGED <<csrScene, csr, csrCache>> /\ (CsrFault \/ UNCHANGED csrPast)
        /\ CsrFail(j) \/ Decide(j, FALSE) \/ CsrGoto(j, new)
    BY <1>4, <2>1 DEF LibraryValidate, CsrCall, CsrUnchanged
  <2> QED
    BY <2>4, <2>5, Calls DEF Undecided
<1>5. CASE LibraryReview(j)
  <2>1. /\ csrWork[j].pc = "review" /\ UNCHANGED <<csrScene, csr, csrCache>> /\ (CsrFault \/ UNCHANGED csrPast)
        /\ CsrFail(j) \/ CsrGoto(j, At(csrWork[j], "hook")) \/ CsrGoto(j, At(csrWork[j], "validate"))
    BY <1>5 DEF LibraryReview, CsrCall, CsrUnchanged
  <2> QED
    BY <2>1, Calls DEF Undecided
<1>6. CASE LibraryHook(j)
  <2>1. /\ csrWork[j].pc = "hook" /\ UNCHANGED <<csrScene, csr, csrCache>> /\ (CsrFault \/ UNCHANGED csrPast)
        /\ CsrFail(j) \/ Decide(j, TRUE)
    BY <1>6 DEF LibraryHook, CsrCall, CsrUnchanged
  <2> QED
    BY <2>1, Calls DEF Undecided
<1> QED
  BY <1>2, <1>3, <1>4, <1>5, <1>6

\* A request that is being signed stays approved.
LEMMA SignHolds == ASSUME CertInv, NEW j \in Jobs, Sign(j) PROVE CertInv'
<1>1. /\ csrWork[j].pc = "sign" /\ UNCHANGED <<csrScene, csr, csrCache>> /\ (CsrFault \/ UNCHANGED csrPast)
      /\ CsrFail(j) \/ CsrGoto(j, At(csrWork[j], "status"))
  BY DEF Sign, CsrCall, CsrUnchanged
<1>2. csrPast'.asked = csrPast.asked /\ HasFields(csrPast', PastFields)
  BY <1>1, FaultKeeps
<1>3. WorkOK(csrWork[j], csr[j[2]]) /\ j[2] \in Csrs /\ csr[j[2]] \in CsrStates
  BY DEF CertInv, CertTypeOK, Jobs
<1>4. PICK idle, status : idle = CsrIdle /\ status = At(csrWork[j], "status")
  OBVIOUS
<1>5. HasFields(status, WorkFields) /\ status.pc = "status" /\ status.rv = csrWork[j].rv
  BY <1>3, <1>4, Goes DEF WorkOK
<1>6. WorkOK(status, csr[j[2]])
  BY <1>1, <1>3, <1>5 DEF WorkOK, Signing
<1>7. WorkOK(idle, csr[j[2]])
  BY <1>3, <1>4, IdleWork
<1>8. csrWork' = [csrWork EXCEPT ![j] = idle] \/ csrWork' = [csrWork EXCEPT ![j] = status]
  BY <1>1, <1>4 DEF CsrFail, CsrGoto
<1> QED
  BY <1>1, <1>2, <1>6, <1>7, <1>8, JobMoves

\* Where a handler starts with a copy of a request: it ends at once, it is to decide one that the
\* copy shows undecided, or to sign one that the copy shows approved.
Starts(new, obj, work) ==
  \/ new.pc \in {"return", "fail"}
  \/ /\ HasFields(new, WorkFields) /\ new.rv = work.rv
     /\ \/ ~Decided(obj) /\ new.pc \in Undecided
        \/ ~Decided(obj) /\ new.pc = "update" /\ new.verdict \in {"approved", "denied"}
        \/ Approved(obj) /\ ~Denied(obj) /\ new.pc = "sign"

\* Every handler starts in one of these ways.
LEMMA HandlersStart ==
  ASSUME NEW loop \in Loops, NEW spec, NEW obj, NEW work, HasFields(work, WorkFields)
  PROVE  Starts(Handle(loop, spec, obj, work), obj, work)
<1>1. \A pc \in {"return", "fail"} : Starts(At(work, pc), obj, work)
  BY Goes DEF Starts
<1>2. ~Decided(obj) => \A pc \in Undecided : Starts(At(work, pc), obj, work)
  BY Goes DEF Starts
<1>3. ~Decided(obj) => \A allowed \in BOOLEAN : Starts(Decides(work, allowed), obj, work)
  BY Goes DEF Starts
<1>4. Approved(obj) /\ ~Denied(obj) => Starts(At(work, "sign"), obj, work)
  BY Goes DEF Starts
<1>5. Starts(NodeHandle(spec, obj, work), obj, work)
  <2>1. PICK match : match = Matching(spec, Flag("legacy"))
    OBVIOUS
  <2>2. PICK pc : pc = CASE match[1] = "tpm" -> "identity" [] match[1] = "server" -> "server" [] OTHER -> "sar"
    OBVIOUS
  <2>3. pc \in Undecided
    BY <2>2 DEF Undecided
  <2> QED
    BY <1>1, <1>2, <2>1, <2>2, <2>3 DEF NodeHandle
<1>6. Starts(IstiodHandle(spec, obj, work), obj, work)
  <2>1. PICK allowed : allowed = IstiodAllows(spec)
    OBVIOUS
  <2>2. allowed \in BOOLEAN
    BY <2>1 DEF IstiodAllows
  <2> QED
    BY <1>1, <1>3, <2>1, <2>2 DEF IstiodHandle
<1>7. Starts(OidcHandle(spec, obj, work), obj, work)
  <2>1. PICK allowed : allowed = OidcAllows(spec)
    OBVIOUS
  <2>2. allowed \in BOOLEAN
    BY <2>1 DEF OidcAllows
  <2> QED
    BY <1>1, <1>3, <2>1, <2>2 DEF OidcHandle
<1>8. Starts(ReadonlyHandle(spec, obj, work), obj, work)
  BY <1>1, <1>2, <1>3 DEF ReadonlyHandle, Undecided
<1>9. Starts(SignerHandle(spec, obj, work), obj, work)
  BY <1>1, <1>4 DEF SignerHandle
<1>10. Starts(LibraryHandle(spec, obj, work), obj, work)
  BY <1>1, <1>2 DEF LibraryHandle, Undecided
<1>11. PICK new : new = Handle(loop, spec, obj, work)
  OBVIOUS
<1>12. \/ new = NodeHandle(spec, obj, work) \/ new = IstiodHandle(spec, obj, work) \/ new = OidcHandle(spec, obj, work)
       \/ new = ReadonlyHandle(spec, obj, work) \/ new = SignerHandle(spec, obj, work) \/ new = LibraryHandle(spec, obj, work)
  BY <1>11 DEF Handle, Loops
<1> QED
  BY <1>5, <1>6, <1>7, <1>8, <1>9, <1>10, <1>11, <1>12

\* What the copy shows is enough: an undecided copy is of an undecided request, or an older one.
LEMMA TakeHolds == ASSUME CertInv, NEW j \in Jobs, CsrTake(j) PROVE CertInv'
<1>1. UNCHANGED <<csrScene, csr, csrCache, csrPast>> /\ HasFields(csrPast', PastFields)
  BY DEF CsrTake, CsrUnchanged, CertInv, CertTypeOK, HasFields
<1>2. j[1] \in Loops /\ j[2] \in Csrs /\ csr[j[2]] \in CsrStates /\ csrCache[j[2]] \in CsrStates
  BY CsrAssumption DEF Jobs, CertInv, CertTypeOK, Loops
<1>3. PICK obj, now : obj = csrCache[j[2]] /\ now = csr[j[2]]
  OBVIOUS
<1>4. /\ obj \in CsrStates /\ now \in CsrStates /\ obj.rv <= now.rv /\ (Decided(obj) => obj.conds = now.conds)
      /\ (obj.rv = now.rv => obj.conds = now.conds) /\ now.conds \in {<<>>, <<"approved">>, <<"denied">>}
  BY <1>2, <1>3 DEF CertInv, RequestOK
<1>5. PICK first : first = [CsrIdle EXCEPT !.rv = obj.rv]
  OBVIOUS
<1>6. HasFields(first, WorkFields) /\ first.rv = obj.rv
  BY <1>5 DEF CsrIdle, HasFields, WorkFields
<1>7. PICK new : new = IF ~obj.exists \/ obj.cert THEN At(CsrIdle, "return") ELSE Handle(j[1], Spec(j[2]), obj, first)
  OBVIOUS
<1>8. Starts(new, obj, first)
  <2>1. At(CsrIdle, "return").pc = "return"
    BY IdleWork, Goes
  <2>2. Starts(At(CsrIdle, "return"), obj, first)
    BY <2>1 DEF Starts
  <2>3. Starts(Handle(j[1], Spec(j[2]), obj, first), obj, first)
    BY <1>2, <1>6, HandlersStart
  <2> QED
    BY <1>7, <2>2, <2>3
<1>9. csrWork' = [csrWork EXCEPT ![j] = IF new.pc \in {"return", "fail"} THEN CsrIdle ELSE new]
  BY <1>3, <1>5, <1>7 DEF CsrTake
<1>10. CASE new.pc \in {"return", "fail"}
  <2>1. PICK idle : idle = CsrIdle
    OBVIOUS
  <2>2. WorkOK(idle, csr[j[2]])
    BY <1>2, <2>1, IdleWork
  <2>3. csrWork' = [csrWork EXCEPT ![j] = idle]
    BY <1>9, <1>10, <2>1
  <2> QED
    BY <1>1, <2>2, <2>3, JobMoves
<1>11. CASE new.pc \notin {"return", "fail"}
  <2>1. /\ HasFields(new, WorkFields) /\ new.rv = obj.rv /\ obj.rv \in Nat
        /\ \/ ~Decided(obj) /\ new.pc \in Undecided
           \/ ~Decided(obj) /\ new.pc = "update" /\ new.verdict \in {"approved", "denied"}
           \/ Approved(obj) /\ ~Denied(obj) /\ new.pc = "sign"
    BY <1>4, <1>6, <1>8, <1>11 DEF Starts, CsrStates
  <2>2. Approved(obj) /\ ~Denied(obj) => now.conds = <<"approved">>
    <3>1. Approved(obj) => obj.conds = now.conds
      BY <1>4 DEF Approved, Decided
    <3> QED
      BY <1>4, <3>1 DEF Approved, Denied
  <2>3. ~Decided(obj) /\ obj.rv = now.rv => ~Decided(now)
    BY <1>4 DEF Decided
  <2>4. WorkOK(new, now)
    <3>1. CASE new.pc = "sign"
      BY <1>4, <2>1, <2>2, <3>1 DEF WorkOK, Signing, Undecided
    <3>2. CASE new.pc \in Undecided \cup {"update"} /\ ~Decided(obj)
      BY <1>4, <2>1, <2>3, <3>2 DEF WorkOK, Signing, Undecided
    <3> QED
      BY <2>1, <3>1, <3>2
  <2>5. csrWork' = [csrWork EXCEPT ![j] = new]
    BY <1>9, <1>11
  <2> QED
    BY <1>1, <1>3, <2>4, <2>5, JobMoves
<1> QED
  BY <1>10, <1>11

\* Steps of clients, of machines and of delays.
LEMMA QuietHolds ==
  ASSUME CertInv, UNCHANGED <<csrScene, csr, csrCache, csrWork>>,
         csrPast'.asked = csrPast.asked, HasFields(csrPast', PastFields)
  PROVE  CertInv'
<1>1. Jobs' = Jobs
  BY DEF Jobs
<1> QED
  BY <1>1 DEF CertInv, CertTypeOK, RequestOK, WorkOK, Decided, HasFields

\* Roles, pods, machines and the end of a delay.
LEMMA AroundHolds ==
  ASSUME CertInv,
         \/ Grant \/ ChangeReader \/ BindPod \/ RegisterWithCert \/ MachineSteps
         \/ \E j \in Jobs : CsrDelayOver(j)
  PROVE  CertInv'
<1>1. UNCHANGED <<csrScene, csr, csrCache, csrWork>>
  <2>1. CASE RegisterWithCert \/ MachineSteps
    BY <2>1 DEF RegisterWithCert, MachineSteps, csrVars
  <2> QED
    BY <2>1 DEF Grant, ChangeReader, BindPod, CsrDelayOver, CsrUnchanged
<1>2. csrPast' = csrPast \/ csrPast' = [csrPast EXCEPT !.granted = TRUE]
  <2>1. CASE RegisterWithCert \/ MachineSteps
    BY <2>1 DEF RegisterWithCert, MachineSteps, csrVars
  <2> QED
    BY <2>1 DEF Grant, ChangeReader, BindPod, CsrDelayOver
<1>3. csrPast'.asked = csrPast.asked /\ HasFields(csrPast', PastFields)
  BY <1>2 DEF CertInv, CertTypeOK, HasFields, PastFields
<1> QED
  BY <1>1, <1>3, QuietHolds

\* The informer gets the request as it is now.
LEMMA InformHolds == ASSUME CertInv, NEW c \in Csrs, InformCsr(c) PROVE CertInv'
<1>1. csrCache' = [csrCache EXCEPT ![c] = csr[c]] /\ UNCHANGED <<csrScene, csr, csrWork, csrPast>>
  BY DEF InformCsr, CsrUnchanged
<1>2. csrCache \in [Csrs -> CsrStates] /\ csr[c] \in CsrStates /\ csr[c].rv \in Nat
  BY DEF CertInv, CertTypeOK, CsrStates
<1>3. csrCache'[c] = csr[c] /\ \A d \in Csrs \ {c} : csrCache'[d] = csrCache[d]
  BY <1>1, <1>2
<1>4. Jobs' = Jobs
  BY <1>1 DEF Jobs
<1>5. CertTypeOK'
  BY <1>1, <1>2, <1>4 DEF CertInv, CertTypeOK, HasFields
<1>6. \A d \in Csrs : RequestOK(d, csr[d], csrCache[d])'
  BY <1>1, <1>2, <1>3 DEF CertInv, RequestOK, Decided
<1>7. \A j \in Jobs : WorkOK(csrWork[j], csr[j[2]])'
  BY <1>1 DEF CertInv, WorkOK, HasFields, Decided
<1> QED
  BY <1>4, <1>5, <1>6, <1>7 DEF CertInv

\* A request is written: the version goes up whenever the conditions change, and they
\* change only while there are none.
LEMMA WriteHolds ==
  ASSUME CertInv, NEW c \in Csrs, NEW new \in CsrStates, csr' = [csr EXCEPT ![c] = new], UNCHANGED <<csrScene, csrCache>>,
         HasFields(csrWork', Jobs), \A k \in Jobs : csrWork'[k] \in {csrWork[k], CsrIdle},
         HasFields(csrPast', PastFields), csrPast.asked \subseteq csrPast'.asked, c \in csrPast'.asked,
         new.rv = csr[c].rv + 1 \/ (new.rv = csr[c].rv /\ new.conds = csr[c].conds),
         Decided(csr[c]) => new.conds = csr[c].conds,
         new.conds \in {<<>>, <<"approved">>, <<"denied">>}, new.cert => new.conds = <<"approved">>
  PROVE  CertInv'
<1>1. Jobs' = Jobs /\ \A j \in Jobs : j[2] \in Csrs
  BY DEF Jobs
<1>2. csr'[c] = new /\ \A d \in Csrs \ {c} : csr'[d] = csr[d]
  BY DEF CertInv, CertTypeOK
<1>3. CertTypeOK'
  BY <1>1 DEF CertInv, CertTypeOK
<1>4. \A d \in Csrs : csr[d].rv \in Nat /\ csrCache[d].rv \in Nat
  BY DEF CertInv, CertTypeOK, CsrStates
<1>5. \A d \in Csrs : RequestOK(d, csr[d], csrCache[d])'
  <2>1. ASSUME NEW d \in Csrs \ {c} PROVE RequestOK(d, csr[d], csrCache[d])'
    BY <1>2 DEF CertInv, RequestOK, Decided
  <2>2. RequestOK(c, csr[c], csrCache[c])'
    <3>1. RequestOK(c, csr[c], csrCache[c])
      BY DEF CertInv
    <3> QED
      BY <1>2, <1>4, <3>1 DEF RequestOK, Decided
  <2> QED
    BY <2>1, <2>2
<1>6. \A j \in Jobs : WorkOK(csrWork[j], csr[j[2]])'
  <2>1. ASSUME NEW j \in Jobs PROVE WorkOK(csrWork'[j], csr'[j[2]])
    <3>1. csr'[j[2]] \in CsrStates
      BY <1>1, <1>3 DEF CertTypeOK
    <3>2. CASE csrWork'[j] = CsrIdle
      BY <3>1, <3>2, IdleWork
    <3>3. CASE csrWork'[j] = csrWork[j]
      <4>1. WorkOK(csrWork[j], csr[j[2]])
        BY DEF CertInv
      <4>2. CASE j[2] # c
        BY <1>1, <1>2, <3>3, <4>1, <4>2
      <4>3. CASE j[2] = c
        <5>1. WorkOK(csrWork[j], new)
          BY <1>4, <4>1, <4>3 DEF WorkOK, Decided
        <5> QED
          BY <1>2, <3>3, <4>3, <5>1
      <4> QED
        BY <4>2, <4>3
    <3> QED
      BY <3>2, <3>3
  <2> QED
    BY <2>1 DEF WorkOK, HasFields, Decided
<1> QED
  BY <1>1, <1>3, <1>5, <1>6 DEF CertInv

\* What a write may do to requests.
Final == \A c \in Csrs : /\ Decided(csr[c]) => csr'[c].conds = csr[c].conds
                         /\ csr[c].cert => csr'[c].cert

\* A write that keeps the conditions and the certificate of the request it writes.
LEMMA FinalWrite ==
  ASSUME CertInv, NEW c \in Csrs, NEW new, csr' = [csr EXCEPT ![c] = new],
         Decided(csr[c]) => new.conds = csr[c].conds, csr[c].cert => new.cert
  PROVE  Final
<1>1. csr'[c] = new /\ \A d \in Csrs \ {c} : csr'[d] = csr[d]
  BY DEF CertInv, CertTypeOK
<1> QED
  BY <1>1 DEF Final

\* A request that is there was asked for.
LEMMA Exists == ASSUME CertInv, NEW c \in Csrs, csr[c].exists PROVE c \in csrPast.asked
<1>1. ~NoCsr.exists
  BY DEF NoCsr
<1> QED
  BY <1>1 DEF CertInv, RequestOK

\* A client asks: nobody decided, or copied, the request before.
LEMMA CreateHolds == ASSUME CertInv, NEW c \in Csrs, CreateCsr(c) PROVE CertInv' /\ Final
<1>1. csr[c] = NoCsr
  BY DEF CreateCsr, CertInv, RequestOK
<1>2. PICK new : new = [NoCsr EXCEPT !.exists = TRUE, !.rv = 1]
  OBVIOUS
<1>3. new \in CsrStates /\ new.conds = <<>> /\ new.rv = 1 /\ ~new.cert
  BY <1>2, NewRequest DEF CsrStates, NoCsr
<1>4. csr' = [csr EXCEPT ![c] = new] /\ UNCHANGED <<csrScene, csrCache, csrWork>>
  BY <1>2 DEF CreateCsr, CsrUnchanged
<1>5. PICK asked, early : /\ csrPast' = [csrPast EXCEPT !.asked = asked, !.early = early]
                          /\ asked = csrPast.asked \cup {c}
  BY DEF CreateCsr
<1>6. csrPast'.asked = csrPast.asked \cup {c} /\ HasFields(csrPast', PastFields)
  BY <1>5 DEF CertInv, CertTypeOK, HasFields, PastFields
<1>7. HasFields(csrWork', Jobs) /\ \A k \in Jobs : csrWork'[k] \in {csrWork[k], CsrIdle}
  BY <1>4 DEF CertInv, CertTypeOK, HasFields
<1>8. CertInv'
  <2>1. new.rv = csr[c].rv + 1 /\ ~Decided(csr[c])
    BY <1>1, <1>3, NewRequest DEF Decided
  <2> QED
    BY <1>3, <1>4, <1>6, <1>7, <2>1, WriteHolds
<1>9. ~Decided(csr[c]) /\ ~csr[c].cert
  BY <1>1, NewRequest DEF Decided
<1> QED
  BY <1>4, <1>8, <1>9, FinalWrite

\* The cleaner takes a request away; its last state stays with it.
LEMMA DeleteHolds == ASSUME CertInv, NEW c \in Csrs, DeleteCsr(c) PROVE CertInv' /\ Final
<1>1. PICK new : new = [csr[c] EXCEPT !.exists = FALSE]
  OBVIOUS
<1>2. csr[c] \in CsrStates /\ c \in csrPast.asked
  BY Exists DEF CertInv, CertTypeOK, DeleteCsr
<1>3. new \in CsrStates /\ new.rv = csr[c].rv /\ new.conds = csr[c].conds /\ new.cert = csr[c].cert
  BY <1>1, <1>2 DEF CsrStates
<1>4. csr' = [csr EXCEPT ![c] = new] /\ UNCHANGED <<csrScene, csrCache, csrWork, csrPast>>
  BY <1>1 DEF DeleteCsr, CsrUnchanged
<1>5. /\ HasFields(csrWork', Jobs) /\ (\A k \in Jobs : csrWork'[k] \in {csrWork[k], CsrIdle})
      /\ HasFields(csrPast', PastFields)
  BY <1>4 DEF CertInv, CertTypeOK, HasFields
<1>6. new.conds \in {<<>>, <<"approved">>, <<"denied">>} /\ (new.cert => new.conds = <<"approved">>)
  BY <1>3 DEF CertInv, RequestOK
<1>7. CertInv'
  BY <1>2, <1>3, <1>4, <1>5, <1>6, WriteHolds
<1> QED
  BY <1>3, <1>4, <1>7, FinalWrite

\* The two writes of handlers: of a record that has a decision more, or a certificate.
LEMMA CsrWriteHolds ==
  ASSUME CertInv, NEW j \in Jobs, NEW new \in CsrStates, CsrWrite(j, new),
         Current(j) => /\ new.rv = csr[j[2]].rv
                       /\ Decided(csr[j[2]]) => new.conds = csr[j[2]].conds
                       /\ csr[j[2]].cert => new.cert
                       /\ new.conds \in {<<>>, <<"approved">>, <<"denied">>}
                       /\ new.cert => new.conds = <<"approved">>
  PROVE  CertInv' /\ (UNCHANGED csr \/ Final)
<1>1. j[2] \in Csrs /\ csr[j[2]] \in CsrStates /\ csr[j[2]].rv \in Nat /\ new.rv \in Nat
  BY DEF Jobs, CertInv, CertTypeOK, CsrStates
<1>2. /\ csrWork' = [csrWork EXCEPT ![j] = CsrIdle] /\ (CsrFault \/ UNCHANGED csrPast)
      /\ UNCHANGED <<csrScene, csrCache>>
  BY DEF CsrWrite, CsrReturn, CsrFail, CsrUnchanged
<1>3. csrPast'.asked = csrPast.asked /\ HasFields(csrPast', PastFields)
  BY <1>2, FaultKeeps
<1>4. HasFields(csrWork', Jobs) /\ \A k \in Jobs : csrWork'[k] \in {csrWork[k], CsrIdle}
  BY <1>2 DEF CertInv, CertTypeOK, HasFields
<1>5. CASE UNCHANGED csr
  <2>1. PICK idle : idle = CsrIdle /\ WorkOK(idle, csr[j[2]])
    BY <1>1, IdleWork
  <2>2. csrWork' = [csrWork EXCEPT ![j] = idle]
    BY <1>2, <2>1
  <2> QED
    BY <1>2, <1>3, <1>5, <2>1, <2>2, JobMoves
<1>6. CASE Current(j) /\ csr' = [csr EXCEPT ![j[2]] = [new EXCEPT !.rv = @ + 1]]
  <2>1. PICK rv \in Nat : rv = new.rv + 1
    BY <1>1
  <2>2. PICK next : next = [new EXCEPT !.rv = rv]
    OBVIOUS
  <2>3. next \in CsrStates /\ next.rv = rv /\ next.conds = new.conds /\ next.cert = new.cert
    BY <2>2 DEF CsrStates
  <2>4. csr' = [csr EXCEPT ![j[2]] = next]
    BY <1>6, <2>1, <2>2
  <2>5. j[2] \in csrPast'.asked /\ csrPast.asked \subseteq csrPast'.asked
    BY <1>1, <1>3, <1>6, Exists DEF Current
  <2>6. PICK c \in Csrs : c = j[2]
    BY <1>1
  <2>7. /\ csr' = [csr EXCEPT ![c] = next] /\ c \in csrPast'.asked /\ next.rv = csr[c].rv + 1
        /\ (Decided(csr[c]) => next.conds = csr[c].conds) /\ (csr[c].cert => next.cert)
        /\ next.conds \in {<<>>, <<"approved">>, <<"denied">>} /\ (next.cert => next.conds = <<"approved">>)
    BY <1>6, <2>1, <2>3, <2>4, <2>5, <2>6
  <2>8. CertInv'
    BY <1>2, <1>3, <1>4, <2>3, <2>5, <2>7, WriteHolds
  <2>9. Final
    BY <2>7, FinalWrite
  <2> QED
    BY <2>8, <2>9
<1> QED
  BY <1>5, <1>6 DEF CsrWrite

\* The conditions after one more.
LEMMA Appended ==
  ASSUME NEW S, NEW s \in Seq(S), NEW e \in S
  PROVE  Append(s, e) \in Seq(S) /\ Append(<<>>, e) = <<e>>
<1>1. Append(s, e) \in Seq(S)
  OBVIOUS
<1>2. Append(<<>>, e) = <<e>>
  OBVIOUS
<1> QED
  BY <1>1, <1>2

\* An approver writes only if the request is still as it was copied, that is, undecided.
LEMMA ApprovalHolds == ASSUME CertInv, NEW j \in Jobs, UpdateApproval(j) PROVE CertInv' /\ (UNCHANGED csr \/ Final)
<1>1. j[1] \in Loops /\ j[2] \in Csrs /\ csr[j[2]] \in CsrStates
  BY CsrAssumption DEF Jobs, CertInv, CertTypeOK, Loops
<1>2. PICK now, decision : now = csr[j[2]] /\ decision = csrWork[j].verdict
  OBVIOUS
<1>3. csrWork[j].pc = "update" /\ decision \in {"approved", "denied"} /\ (csrWork[j].rv = now.rv => ~Decided(now))
  BY <1>2 DEF CertInv, WorkOK, UpdateApproval, Signing
<1>4. now \in CsrStates /\ now.conds \in Seq({"approved", "denied"}) /\ (now.cert => now.conds = <<"approved">>)
  BY <1>1, <1>2 DEF CsrStates, CertInv, RequestOK
<1>5. PICK conds \in Seq({"approved", "denied"}) : conds = Append(now.conds, decision)
  BY <1>3, <1>4, Appended
<1>6. PICK new : new = [now EXCEPT !.conds = conds, !.by = j[1]]
  OBVIOUS
<1>7. new \in CsrStates /\ new.rv = now.rv /\ new.conds = conds /\ new.cert = now.cert
  BY <1>1, <1>4, <1>6 DEF CsrStates
<1>8. CsrWrite(j, new)
  BY <1>2, <1>5, <1>6 DEF UpdateApproval
<1>9. ASSUME Current(j) PROVE ~Decided(now) /\ ~now.cert /\ conds \in {<<"approved">>, <<"denied">>}
  <2>1. ~Decided(now)
    BY <1>2, <1>3, <1>9 DEF Current
  <2>2. now.conds = <<>> /\ ~now.cert
    <3>1. now.conds = <<>>
      BY <2>1 DEF Decided
    <3>2. <<"approved">> # <<>>
      OBVIOUS
    <3> QED
      BY <1>4, <3>1, <3>2, Zenon
  <2>3. Append(<<>>, decision) = <<decision>>
    BY <1>3, <1>4, Appended
  <2>4. conds = <<decision>>
    BY <1>5, <2>2, <2>3, Zenon
  <2> QED
    BY <1>3, <2>1, <2>2, <2>4
<1>10. Current(j) => /\ new.rv = csr[j[2]].rv
                     /\ Decided(csr[j[2]]) => new.conds = csr[j[2]].conds
                     /\ csr[j[2]].cert => new.cert
                     /\ new.conds \in {<<>>, <<"approved">>, <<"denied">>}
                     /\ new.cert => new.conds = <<"approved">>
  BY <1>2, <1>7, <1>9
<1> QED
  BY <1>7, <1>8, <1>10, CsrWriteHolds

\* The signer writes the certificate, and the request is approved whatever happened since it was read.
LEMMA StatusHolds == ASSUME CertInv, NEW j \in Jobs, UpdateStatus(j) PROVE CertInv' /\ (UNCHANGED csr \/ Final)
<1>1. j[2] \in Csrs /\ csr[j[2]] \in CsrStates
  BY DEF Jobs, CertInv, CertTypeOK
<1>2. PICK new : new = [csr[j[2]] EXCEPT !.cert = TRUE]
  OBVIOUS
<1>3. new \in CsrStates /\ new.rv = csr[j[2]].rv /\ new.conds = csr[j[2]].conds /\ new.cert
  BY <1>1, <1>2 DEF CsrStates
<1>4. CsrWrite(j, new) /\ csr[j[2]].conds = <<"approved">>
  BY <1>2 DEF UpdateStatus, CertInv, WorkOK, Signing
<1> QED
  BY <1>3, <1>4, CsrWriteHolds

\* The steps that leave the requests alone.
LEMMA OthersKeep ==
  ASSUME \/ Grant \/ ChangeReader \/ BindPod \/ RegisterWithCert \/ MachineSteps
         \/ \E c \in Csrs : InformCsr(c)
         \/ \E j \in Jobs :
              \/ CsrDelayOver(j) \/ CsrTake(j) \/ EkPubAndIDFromAPI(j) \/ GetInstance(j) \/ CheckServer(j)
              \/ AuthorizeSAR(j) \/ HookNode(j) \/ HookVm(j) \/ HookDelete(j) \/ ListPods(j)
              \/ CheckReaders(j) \/ ValidateRbac(j) \/ LibraryValidate(j) \/ LibraryReview(j) \/ LibraryHook(j)
              \/ Sign(j) \/ \E i \in DOMAIN bound : MarkFailedAndDeletePod(j, i)
  PROVE  UNCHANGED csr
<1>1. CASE Grant \/ ChangeReader \/ BindPod \/ RegisterWithCert \/ MachineSteps
  BY <1>1 DEF Grant, ChangeReader, BindPod, RegisterWithCert, MachineSteps, csrVars
<1>2. ASSUME NEW j \in Jobs, EkPubAndIDFromAPI(j) \/ GetInstance(j) \/ CheckServer(j) \/ AuthorizeSAR(j) \/ HookNode(j)
      PROVE  UNCHANGED csr
  BY <1>2 DEF EkPubAndIDFromAPI, GetInstance, CheckServer, AuthorizeSAR, HookNode, CsrCall
<1>3. ASSUME NEW j \in Jobs, HookVm(j) \/ CheckReaders(j) \/ ValidateRbac(j) \/ LibraryValidate(j)
      PROVE  UNCHANGED csr
  BY <1>3 DEF HookVm, CheckReaders, ValidateRbac, LibraryValidate, CsrCall
<1>4. ASSUME NEW j \in Jobs, LibraryReview(j) \/ LibraryHook(j) \/ Sign(j)
      PROVE  UNCHANGED csr
  BY <1>4 DEF LibraryReview, LibraryHook, Sign, CsrCall
<1>5. ASSUME NEW j \in Jobs, NEW i, CsrDelayOver(j) \/ CsrTake(j) \/ HookDelete(j) \/ ListPods(j) \/ MarkFailedAndDeletePod(j, i)
      PROVE  UNCHANGED csr
  BY <1>5 DEF CsrDelayOver, CsrTake, HookDelete, ListPods, MarkFailedAndDeletePod
<1>6. CASE \E c \in Csrs : InformCsr(c)
  BY <1>6 DEF InformCsr
<1> QED
  BY <1>1, <1>2, <1>3, <1>4, <1>5, <1>6

\* Every step keeps the invariant, and leaves decisions and certificates as they are.
LEMMA CertStepHolds == ASSUME CertInv, [CertNext]_certVars PROVE CertInv' /\ (UNCHANGED csr \/ Final)
<1>1. CASE UNCHANGED certVars
  <2>1. UNCHANGED <<csrScene, csr, csrCache, csrWork, csrPast>>
    BY <1>1 DEF certVars, csrVars
  <2>2. csrPast'.asked = csrPast.asked /\ HasFields(csrPast', PastFields)
    BY <2>1 DEF CertInv, CertTypeOK, HasFields
  <2> QED
    BY <2>1, <2>2, QuietHolds
<1>2. CASE Grant \/ ChangeReader \/ BindPod \/ RegisterWithCert \/ MachineSteps \/ \E j \in Jobs : CsrDelayOver(j)
  BY <1>2, AroundHolds, OthersKeep
<1>3. ASSUME NEW c \in Csrs, CreateCsr(c) \/ DeleteCsr(c) \/ InformCsr(c) PROVE CertInv' /\ (UNCHANGED csr \/ Final)
  BY <1>3, CreateHolds, DeleteHolds, InformHolds, OthersKeep
<1>4. ASSUME NEW j \in Jobs, UpdateApproval(j) \/ UpdateStatus(j) PROVE CertInv' /\ (UNCHANGED csr \/ Final)
  BY <1>4, ApprovalHolds, StatusHolds
<1>5. ASSUME NEW j \in Jobs,
             \/ CsrTake(j) \/ EkPubAndIDFromAPI(j) \/ GetInstance(j) \/ CheckServer(j)
             \/ AuthorizeSAR(j) \/ HookNode(j) \/ HookVm(j)
             \/ CheckReaders(j) \/ ValidateRbac(j) \/ LibraryValidate(j) \/ LibraryReview(j) \/ LibraryHook(j)
      PROVE  CertInv' /\ UNCHANGED csr
  BY <1>5, TakeHolds, NodeCallsHold, OtherCallsHold, OthersKeep
<1>6. ASSUME NEW j \in Jobs,
             HookDelete(j) \/ ListPods(j) \/ Sign(j) \/ \E i \in DOMAIN bound : MarkFailedAndDeletePod(j, i)
      PROVE  CertInv' /\ UNCHANGED csr
  BY <1>6, HookDeleteHolds, ListHolds, MarkHolds, SignHolds, OthersKeep
<1> QED
  BY <1>1, <1>2, <1>3, <1>4, <1>5, <1>6 DEF CertNext

\* Whatever loops run, with whatever faults, and however old the copies that they work on,
\* only a request that was approved, and never one that was denied, has a certificate.
THEOREM SignedApproved == CertSpec => []SignedWasApproved
<1>1. CertSpec => CertInv
  BY CertInitHolds DEF CertSpec
<1>2. CertInv /\ [CertNext]_certVars => CertInv'
  BY CertStepHolds
<1>3. CertInv => SignedWasApproved
  BY DEF CertInv, RequestOK, SignedWasApproved
<1> QED
  BY <1>1, <1>2, <1>3, PTL DEF CertSpec

\* ... and no step takes a decision or a certificate back, or decides a second time.
THEOREM DecidedOnce == CertSpec => DecisionIsFinal
<1>1. CertSpec => CertInv
  BY CertInitHolds DEF CertSpec
<1>2. CertInv /\ [CertNext]_certVars => CertInv'
  BY CertStepHolds
<1>3. CertInv /\ [CertNext]_certVars =>
        [\A c \in Csrs : /\ Decided(csr[c]) => csr'[c].conds = csr[c].conds
                         /\ csr[c].cert => csr'[c].cert]_csr
  BY CertStepHolds DEF Final
<1> QED
  BY <1>1, <1>2, <1>3, PTL DEF CertSpec, DecisionIsFinal
=============================================================================
