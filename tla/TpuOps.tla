-------------------------------- MODULE TpuOps --------------------------------
(***************************************************************************)
(* Cloud TPUs: creating and deleting one starts an operation, and the call  *)
(* polls it until it is done, an error occurs or the caller gives up.  The  *)
(* TPU service is external: an operation may fail, and it goes on although  *)
(* nobody waits for it.                                                     *)
(***************************************************************************)
EXTENDS Integers, FiniteSets

CONSTANTS
  TpuCallers,
  TpuMaxFaults

VARIABLES
  tpu,             \* whether there is a TPU of the name
  tpuOps,          \* [TpuCallers -> [kind, state]]: the operation of the last call
  tpuCalls,        \* [TpuCallers -> [pc, kind, failed]]
  tpuPast          \* faults; [TpuCallers -> whether there was, and was not, a TPU]

tpuVars == <<tpu, tpuOps, tpuCalls, tpuPast>>

TpuIdle == [pc |-> "idle", kind |-> "", failed |-> FALSE]
NoOp == [kind |-> "", state |-> "none"]

TpuInit ==
  /\ tpu \in BOOLEAN
  /\ tpuOps = [c \in TpuCallers |-> NoOp]
  /\ tpuCalls = [c \in TpuCallers |-> TpuIdle]
  /\ tpuPast = [faults |-> 0, seen |-> [c \in TpuCallers |-> {}]]

\* What was true of the TPU while a call was under way.
SeeTpu(past) ==
  tpuPast' = [past EXCEPT !.seen = [c \in TpuCallers |->
                IF tpuCalls'[c].pc = "idle" THEN {} ELSE IF tpuCalls[c].pc = "done" THEN @[c] ELSE @[c] \cup {tpu'}]]
TpuFault == tpuPast.faults < TpuMaxFaults
Faulted == [tpuPast EXCEPT !.faults = @ + 1]

StepTpu(c, call) == tpuCalls' = [tpuCalls EXCEPT ![c] = call]

\* The service starts and ends operations, in any order.
RunOp(c) ==
  LET op == tpuOps[c] IN
  /\ op.state = "running"
  /\ \/ tpu' = (op.kind = "create") /\ tpu # tpu' /\ tpuOps' = [tpuOps EXCEPT ![c].state = "succeeded"]
     \/ UNCHANGED tpu /\ tpuOps' = [tpuOps EXCEPT ![c].state = "failed"]
  /\ UNCHANGED tpuCalls /\ SeeTpu(tpuPast)

\* CreateTPU and DeleteTPU.
StartTpuOp(c, kind) ==
  /\ tpuCalls[c].pc = "idle" /\ tpuOps[c].state # "running"
  /\ \/ tpuOps' = [tpuOps EXCEPT ![c] = [kind |-> kind, state |-> "running"]]
       /\ StepTpu(c, [pc |-> "wait", kind |-> kind, failed |-> FALSE]) /\ UNCHANGED tpu /\ SeeTpu(tpuPast)
     \/ TpuFault /\ UNCHANGED <<tpuOps, tpu>> /\ StepTpu(c, [pc |-> "done", kind |-> kind, failed |-> TRUE]) /\ SeeTpu(Faulted)

\* waitForTPUOp and getErrorFromTPUOp: when the operation cannot be read, the call panics, for it names an
\* operation it no longer has.
WaitForTpuOp(c) ==
  /\ tpuCalls[c].pc = "wait" /\ UNCHANGED <<tpu, tpuOps>>
  /\ \/ tpuOps[c].state \in {"succeeded", "failed"}
       /\ StepTpu(c, [tpuCalls[c] EXCEPT !.pc = "done", !.failed = tpuOps[c].state = "failed"]) /\ SeeTpu(tpuPast)
     \/ TpuFault /\ StepTpu(c, [tpuCalls[c] EXCEPT !.pc = "panicked", !.failed = TRUE]) /\ SeeTpu(Faulted)
     \/ TpuFault /\ StepTpu(c, [tpuCalls[c] EXCEPT !.pc = "done", !.failed = TRUE]) /\ SeeTpu(Faulted)  \* cancelled

EndTpuCall(c) ==
  /\ tpuCalls[c].pc = "done"
  /\ StepTpu(c, TpuIdle)
  /\ UNCHANGED <<tpu, tpuOps>> /\ SeeTpu(tpuPast)

TpuNext ==
  \E c \in TpuCallers :
    RunOp(c) \/ WaitForTpuOp(c) \/ EndTpuCall(c) \/ \E kind \in {"create", "delete"} : StartTpuOp(c, kind)

-----------------------------------------------------------------------------
(* Properties                                                               *)

\* A CreateTPU or DeleteTPU that succeeded was followed by a moment with, or without, the TPU.
TpuAnswersAreTrue ==
  \A c \in TpuCallers : tpuCalls[c].pc = "done" /\ ~tpuCalls[c].failed => (tpuCalls[c].kind = "create") \in tpuPast.seen[c]
=============================================================================
