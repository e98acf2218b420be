------------------------- MODULE WirelessManagement -------------------------
(***************************************************************************)
(* One WirelessManager and its streams: the only bidirectional stream of   *)
(* the client, with a read and a write outstanding at the same time.       *)
(* Four kinds of thread meet here:                                         *)
(*                                                                         *)
(*   - the owner, in CreateWirelessManager and DeleteWirelessManager;      *)
(*   - senders, application threads in the request methods;                *)
(*   - the channel monitor, which opens a new stream for a listed manager  *)
(*     that has none when the channel becomes ready;                       *)
(*   - the completion-queue thread (CQ), in Proceed and the destructor.    *)
(*                                                                         *)
(* impl::cdata is read and written by all of them without a lock.  Use of  *)
(* a deleted call is undefined; the outcomes modelled are that a test of   *)
(* its members says anything and that nothing else happens.                *)
(***************************************************************************)
EXTENDS Naturals

CONSTANTS Senders,   \* application threads that send requests
          MaxCalls   \* bound: streams opened

ASSUME WirelessAssumption == MaxCalls \in Nat

VARIABLES
    calls,       \* RpcWirelessManagementStreamClientCallData objects
    nextCall,    \* the next unused one
    cdata,       \* impl::cdata
    owner,       \* the place of the owner, which is the life of the manager
    sender,      \* sender[s]: the pointer it found not null, NoCall when idle
    monitor,     \* the call the monitor has opened and not stored yet, or NoCall
    cqPc, cqCall \* the place of the completion-queue thread

vars == <<calls, nextCall, cdata, owner, sender, monitor, cqPc, cqCall>>

Calls == 1..MaxCalls
NoCall == 0
Ops == {"read", "write"}

Record ==
    [life : {"unused", "live", "freed"},
     status : {"CONNECTING", "WAITING", "PROCESSING", "FINISH"},
     active : BOOLEAN,                              \* listener_active
     tag : [Ops -> {"none", "pending", "ok", "fail"}]]

TypeOK ==
    /\ calls \in [Calls -> Record]
    /\ nextCall \in 1..(MaxCalls + 1)
    /\ cdata \in Calls \cup {NoCall}
    /\ owner \in {"none", "opened", "recorded", "listed", "cancelled", "gone"}
    /\ sender \in [Senders -> Calls \cup {NoCall}]
    /\ monitor \in Calls \cup {NoCall}
    /\ cqPc \in {"next", "callback", "delete"}
    /\ cqCall \in Calls \cup {NoCall}

NoTags == [op \in Ops |-> "none"]
NeverOpened == [life |-> "unused", status |-> "CONNECTING", active |-> FALSE, tag |-> NoTags]

Init ==
    /\ calls = [c \in Calls |-> NeverOpened]
    /\ nextCall = 1
    /\ cdata = NoCall
    /\ owner = "none"
    /\ sender = [s \in Senders |-> NoCall]
    /\ monitor = NoCall
    /\ cqPc = "next" /\ cqCall = NoCall

-----------------------------------------------------------------------------
\* wireless_manager_list_mutex_: the monitor keeps it while it reopens streams.
ListMtxFree == monitor = NoCall

Listed == owner \in {"listed", "cancelled"}

\* statusLock of c: Proceed keeps it during the callback.
StatusLockFree(c) == ~(cqPc = "callback" /\ cqCall = c)

\* The constructor: StartCall's tag is the read tag.
OpenWirelessManagementStream ==
    /\ nextCall \in Calls
    /\ calls' = [calls EXCEPT ![nextCall] =
          [life |-> "live", status |-> "CONNECTING", active |-> TRUE,
           tag |-> [NoTags EXCEPT !["read"] = "pending"]]]
    /\ nextCall' = nextCall + 1

\* impl::CancelStream, through cdata.
CancelStream ==
    calls' = IF cdata # NoCall /\ calls[cdata].life = "live"
             THEN [calls EXCEPT ![cdata].active = FALSE] ELSE calls

\* A slip, used by no behaviour of Spec: a stream is never found active.
AlwaysInactive == {FALSE}

\* What impl::IsStreamActive may answer.
IsStreamActive ==
    CASE cdata = NoCall               -> {FALSE}
      [] calls[cdata].life = "freed"  -> BOOLEAN
      [] OTHER                        -> {calls[cdata].active}

Read(c) == calls' = [calls EXCEPT ![c].tag["read"] = "pending"]

-----------------------------------------------------------------------------
(* Slips, used by no behaviour of Spec.                                    *)

\* A request is written and the call is not marked as writing.
WriteUnmarked(c) ==
    calls' = IF calls[c].life = "live" /\ calls[c].status \in {"CONNECTING", "WAITING"}
             THEN [calls EXCEPT ![c].tag["write"] = "pending"] ELSE calls

\* After a write the call is in a state that no branch of Proceed knows.
TakeWriteDone(c) ==
    /\ cqPc = "next" /\ calls[c].life = "live" /\ calls[c].tag["write"] = "ok"
    /\ calls' = [calls EXCEPT ![c].status = "DONE", ![c].tag["write"] = "none"]
    /\ UNCHANGED <<nextCall, cdata, owner, sender, monitor, cqPc, cqCall>>

\* The end of a write is not noticed.
TakeWriteIgnored(c) ==
    /\ cqPc = "next" /\ calls[c].life = "live" /\ calls[c].tag["write"] = "ok"
    /\ calls' = [calls EXCEPT ![c].tag["write"] = "none"]
    /\ UNCHANGED <<nextCall, cdata, owner, sender, monitor, cqPc, cqCall>>

\* After a cancelled read no read follows.
TakeReadNoRead(c) ==
    /\ cqPc = "next" /\ calls[c].life = "live" /\ calls[c].tag["read"] = "ok"
    /\ calls[c].status \in {"WAITING", "PROCESSING"} /\ ~calls[c].active
    /\ calls' = [calls EXCEPT ![c].tag["read"] = "none"]
    /\ UNCHANGED <<nextCall, cdata, owner, sender, monitor, cqPc, cqCall>>

-----------------------------------------------------------------------------
(* The owner: CreateWirelessManager, DeleteWirelessManager.                *)

Create ==
    /\ owner = "none"
    /\ OpenWirelessManagementStream
    /\ owner' = "opened"
    /\ UNCHANGED <<cdata, sender, monitor, cqPc, cqCall>>

SetCallData ==
    /\ owner = "opened"
    /\ cdata' = 1 /\ owner' = "recorded"
    /\ UNCHANGED <<calls, nextCall, sender, monitor, cqPc, cqCall>>

List ==
    /\ owner = "recorded" /\ ListMtxFree
    /\ owner' = "listed"
    /\ UNCHANGED <<calls, nextCall, cdata, sender, monitor, cqPc, cqCall>>

\* DeleteWirelessManager, which the application calls when no sender uses the manager.
Cancel ==
    /\ owner = "listed" /\ \A s \in Senders : sender[s] = NoCall
    /\ CancelStream
    /\ owner' = "cancelled"
    /\ UNCHANGED <<nextCall, cdata, sender, monitor, cqPc, cqCall>>

\* The erase destroys the wrapper, and with it the manager: ~WirelessManager cancels again.
Erase ==
    /\ owner = "cancelled" /\ ListMtxFree
    /\ CancelStream
    /\ cdata' = NoCall /\ owner' = "gone"
    /\ UNCHANGED <<nextCall, sender, monitor, cqPc, cqCall>>

(* Senders: each request method tests cdata and sends through it.          *)

Check(s) ==
    /\ owner = "listed" /\ sender[s] = NoCall /\ cdata # NoCall
    /\ sender' = [sender EXCEPT ![s] = cdata]
    /\ UNCHANGED <<calls, nextCall, cdata, owner, monitor, cqPc, cqCall>>

\* SendWirelessManagementRequest, under statusLock.
Write(c) ==
    calls' = IF calls[c].life = "live" /\ calls[c].status \in {"CONNECTING", "WAITING"}
             THEN [calls EXCEPT ![c].status = "PROCESSING", ![c].tag["write"] = "pending"]
             ELSE calls

Send(s) ==
    /\ sender[s] # NoCall /\ StatusLockFree(sender[s])
    /\ Write(sender[s])
    /\ sender' = [sender EXCEPT ![s] = NoCall]
    /\ UNCHANGED <<nextCall, cdata, owner, monitor, cqPc, cqCall>>

(* The channel monitor, when the channel has become ready.                 *)

MonitorOpen ==
    /\ Listed /\ monitor = NoCall /\ FALSE \in IsStreamActive
    /\ OpenWirelessManagementStream
    /\ monitor' = nextCall
    /\ UNCHANGED <<cdata, owner, sender, cqPc, cqCall>>

MonitorRecord ==
    /\ monitor # NoCall
    /\ cdata' = monitor /\ monitor' = NoCall
    /\ UNCHANGED <<calls, nextCall, owner, sender, cqPc, cqCall>>

-----------------------------------------------------------------------------
(* The completion-queue thread.                                            *)

\* Proceed in CONNECTING, whatever the tag was for.
TakeConnected(c, op) ==
    /\ cqPc = "next" /\ calls[c].life = "live" /\ calls[c].tag[op] = "ok"
    /\ calls[c].status = "CONNECTING"
    /\ calls' = [calls EXCEPT ![c].status = "WAITING",
                              ![c].tag = [@ EXCEPT ![op] = "none", !["read"] = "pending"]]
    /\ UNCHANGED <<nextCall, cdata, owner, sender, monitor, cqPc, cqCall>>

\* A finished read in WAITING or PROCESSING is delivered.
TakeRead(c) ==
    /\ cqPc = "next" /\ calls[c].life = "live" /\ calls[c].tag["read"] = "ok"
    /\ calls[c].status \in {"WAITING", "PROCESSING"} /\ calls[c].active
    /\ calls' = [calls EXCEPT ![c].tag["read"] = "none"]
    /\ cqPc' = "callback" /\ cqCall' = c
    /\ UNCHANGED <<nextCall, cdata, owner, sender, monitor>>

EndCallback ==
    /\ cqPc = "callback"
    /\ Read(cqCall)
    /\ cqPc' = "next" /\ cqCall' = NoCall
    /\ UNCHANGED <<nextCall, cdata, owner, sender, monitor>>

TakeReadInactive(c) ==
    /\ cqPc = "next" /\ calls[c].life = "live" /\ calls[c].tag["read"] = "ok"
    /\ calls[c].status \in {"WAITING", "PROCESSING"} /\ ~calls[c].active
    /\ Read(c)
    /\ UNCHANGED <<nextCall, cdata, owner, sender, monitor, cqPc, cqCall>>

TakeWrite(c) ==
    /\ cqPc = "next" /\ calls[c].life = "live" /\ calls[c].tag["write"] = "ok"
    /\ calls[c].status \in {"WAITING", "PROCESSING"}
    /\ calls' = [calls EXCEPT ![c].status = "WAITING", ![c].tag["write"] = "none"]
    /\ UNCHANGED <<nextCall, cdata, owner, sender, monitor, cqPc, cqCall>>

\* ok is false: Stop, and Proceed asks for the deletion whatever else is outstanding.
TakeFailed(c, op) ==
    /\ cqPc = "next" /\ calls[c].life = "live" /\ calls[c].tag[op] = "fail"
    /\ calls' = [calls EXCEPT ![c].status = "FINISH", ![c].tag[op] = "none"]
    /\ cqPc' = "delete" /\ cqCall' = c
    /\ UNCHANGED <<nextCall, cdata, owner, sender, monitor>>

\* A tag that points into a deleted call: undefined, nothing happens.
TakeDangling(c, op) ==
    /\ cqPc = "next" /\ calls[c].life = "freed" /\ calls[c].tag[op] \in {"ok", "fail"}
    /\ calls' = [calls EXCEPT ![c].tag[op] = "none"]
    /\ UNCHANGED <<nextCall, cdata, owner, sender, monitor, cqPc, cqCall>>

\* The destructor's ClearAssociation empties cdata, whichever call it points to.
DeleteCall ==
    /\ cqPc = "delete"
    /\ calls' = [calls EXCEPT ![cqCall].life = "freed"]
    /\ cdata' = NoCall
    /\ cqPc' = "next" /\ cqCall' = NoCall
    /\ UNCHANGED <<nextCall, owner, sender, monitor>>

(* gRPC.  An operation of a cancelled call does not succeed any more.      *)

Complete(c, op, result) ==
    /\ calls[c].tag[op] = "pending" /\ (result = "ok" => calls[c].active)
    /\ calls' = [calls EXCEPT ![c].tag[op] = result]
    /\ UNCHANGED <<nextCall, cdata, owner, sender, monitor, cqPc, cqCall>>

-----------------------------------------------------------------------------
OwnerStep == Create \/ SetCallData \/ List \/ Cancel \/ Erase

\* One turn of CompletionQueueProcessor, with the tag of this operation.
Proceed(c, op) ==
    \/ TakeConnected(c, op)
    \/ TakeFailed(c, op)
    \/ TakeDangling(c, op)
    \/ op = "read" /\ (TakeRead(c) \/ TakeReadInactive(c))
    \/ op = "write" /\ TakeWrite(c)

\* The application has deleted the manager and nothing is left to do.
Idle == owner = "gone" /\ cqPc = "next" /\ UNCHANGED vars

Next ==
    \/ OwnerStep
    \/ \E s \in Senders : Check(s) \/ Send(s)
    \/ MonitorOpen \/ MonitorRecord
    \/ \E c \in Calls, op \in Ops : Proceed(c, op)
    \/ EndCallback \/ DeleteCall
    \/ \E c \in Calls, op \in Ops, result \in {"ok", "fail"} : Complete(c, op, result)
    \/ Idle

Spec == Init /\ [][Next]_vars

\* CQ goes on, and the queue being first in, first out, takes every tag; gRPC finishes
\* writes, and the operations of a cancelled call.
Fairness ==
    /\ WF_vars(EndCallback \/ DeleteCall)
    /\ \A c \in Calls :
         /\ \A op \in Ops : SF_vars(Proceed(c, op))
         /\ WF_vars(\E result \in {"ok", "fail"} : Complete(c, "write", result))
         /\ WF_vars(~calls[c].active /\ Complete(c, "read", "fail"))

FairSpec == Spec /\ Fairness

-----------------------------------------------------------------------------
(* Properties.                                                             *)

\* gRPC allows one write at a time: a call in a state in which
\* SendWirelessManagementRequest writes has no write outstanding, whatever the order in
\* which the connection, reads, writes and requests of several threads come.
OneWrite ==
    \A c \in Calls : calls[c].life = "live" /\ calls[c].status \in {"CONNECTING", "WAITING"} =>
        calls[c].tag["write"] = "none"

\* A manager that is not being deleted has one event stream at most, however often the
\* channel comes and goes and calls fail: no event is delivered twice.
OneStream ==
    owner \notin {"cancelled", "gone"} =>
        \A b, c \in Calls : calls[b].life = "live" /\ calls[c].life = "live" => b = c

\* A request can be sent again: no call stays PROCESSING, where every request is
\* refused.
WriteEnds == \A c \in Calls : calls[c].status = "PROCESSING" ~> calls[c].status # "PROCESSING"

\* "The Completion Queue will delete the call data" of a cancelled call
\* (client_manager.cpp:741).
CancelledDeleted ==
    \A c \in Calls :
        calls[c].life = "live" /\ ~calls[c].active ~> calls[c].life = "freed"

\* The tag "is the memory address of a CallData instance" (client_manager.cpp:251-252):
\* never that of a deleted one.
TagsLive == \A c \in Calls, op \in Ops : calls[c].tag[op] # "none" => calls[c].life = "live"
=============================================================================
