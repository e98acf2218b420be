------------------------------ MODULE CallData ------------------------------
(***************************************************************************)
(* One streaming call: rpcClientCallData with the classes derived from it, *)
(* as the rest of the client sees it.  A call is a record; each operator   *)
(* below is what one method, or one branch of Proceed, does to it.         *)
(*                                                                         *)
(* A call never has more than one read outstanding, so its tag is in one   *)
(* place at a time, the field op: "pending" while gRPC owns it, "ok" or    *)
(* "fail" while it lies in the completion queue, "none" while the          *)
(* completion-queue thread holds it (or the call does not exist).          *)
(* listener_active is cancelled negated: the constructor sets it before    *)
(* the pointer is handed out, and CancelCall is the only other writer.     *)
(***************************************************************************)
EXTENDS Naturals

CONSTANTS Devices,   \* devices the service may report
          Managers,  \* DataManager objects the application may request
          NoManager, \* the manager of a call that was never opened
          MaxCalls   \* bound: calls opened in one behaviour

ASSUME CallAssumption == MaxCalls \in Nat /\ NoManager \notin Managers

Calls == 1..MaxCalls
NoCall == 0          \* the null rpcClientCallData*

Record ==
    [life : {"unused", "live", "freed"},
     status : {"CONNECTING", "PROCESSING", "FINISH"},
     op : {"none", "pending", "ok", "fail"},
     cancelled : BOOLEAN,
     mgr : Managers \cup {NoManager},  \* the manager bound to cb_handler_ and association_
     covers : SUBSET Devices,          \* the devices named in the request
     by : {"user", "cq", "monitor"}]   \* the thread that opened it

NeverOpened == [life |-> "unused", status |-> "CONNECTING", op |-> "none",
                cancelled |-> FALSE, mgr |-> NoManager, covers |-> {}, by |-> "user"]

\* The constructor: StartCall puts the read tag in gRPC's hands.
StartCall(m, devs, thread) ==
    [life |-> "live", status |-> "CONNECTING", op |-> "pending",
     cancelled |-> FALSE, mgr |-> m, covers |-> devs, by |-> thread]

\* Slips: the call is deleted by whoever cancels it; Stop leaves the call WAITING.
CancelCallDeletes(call) ==
    IF call.life = "live" THEN [call EXCEPT !.cancelled = TRUE, !.life = "freed"] ELSE call
StopWaiting(call) == [call EXCEPT !.status = "WAITING", !.op = "none"]

\* CancelCall: listener_active = false and TryCancel.  Through a pointer to a
\* deleted call the outcome is undefined; the one modelled is that nothing happens.
CancelCall(call) ==
    IF call.life = "live" THEN [call EXCEPT !.cancelled = TRUE] ELSE call

\* Stop, after which Proceed returns false and the tag is not re-armed.
Stop(call) == [call EXCEPT !.status = "FINISH", !.op = "none"]

\* The completion-queue thread takes the tag of a finished read.
TakeTag(call) == [call EXCEPT !.op = "none"]

\* The tail of Proceed in CONNECTING and PROCESSING: another Read.
ReadAgain(call) == [call EXCEPT !.status = "PROCESSING", !.op = "pending"]

\* delete, the destructor's ClearAssociation being the caller's part.
Delete(call) == [call EXCEPT !.life = "freed"]

\* gRPC finishes an operation: its tag enters the completion queue.
Complete(call, result) == [call EXCEPT !.op = result]
=============================================================================
