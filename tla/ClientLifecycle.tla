-------------------------- MODULE ClientLifecycle --------------------------
(***************************************************************************)
(* Start, Shutdown and what the channel monitor keeps open: the device     *)
(* event stream and the stream of the base station, whose storage all      *)
(* base-station requests of a ClientContext share.  The threads:           *)
(*                                                                         *)
(*   - the owner of the ClientContext, in Start and Shutdown;              *)
(*   - a requester, in RequestBaseStationData and                          *)
(*     CloseBaseStationDataRequest: base_station_request_list_mutex_ lets  *)
(*     one application thread at a time through either;                    *)
(*   - the channel monitor;                                                *)
(*   - the completion-queue thread (CQ).                                   *)
(*                                                                         *)
(* The streams of data managers and of wireless managers are one flag,     *)
(* uncancelled: one is open that Shutdown does not cancel.  It matters     *)
(* only to a queue that is being shut down, so it is decided when the      *)
(* monitor has been joined, after which nothing opens a stream.            *)
(*                                                                         *)
(* Flags and mutexes are not variables: what they are follows from the     *)
(* place of the thread that sets them.  An operation started on a queue    *)
(* that has been shut down is undefined; the outcome modelled is that it   *)
(* is outstanding like any other.                                          *)
(***************************************************************************)
EXTENDS Naturals

CONSTANTS MaxCalls,   \* bound: streams opened
          MaxTags,    \* bound: base-station requests
          MaxChanges  \* bound: changes of the channel's state

ASSUME LifecycleAssumption == MaxCalls \in Nat /\ MaxTags \in Nat /\ MaxChanges \in Nat

Kinds == {"event", "base"}

INSTANCE CallData WITH Devices <- {}, Managers <- Kinds, NoManager <- "none"

VARIABLES
    calls, nextCall,
    tags,                \* base_station_request_list_
    tagSource,           \* data_managers_tag_source_
    made,                \* base_station_data_storage_ # nullptr
    listed,              \* it is in base_station_data_storage_list_
    stream,              \* its base_station_stream_
    req, reqCall,        \* the requester
    owner,               \* the owner
    uncancelled,         \* Shutdown leaves a data or wireless stream open
    channel, changes,    \* the gRPC channel
    previous,            \* previous_channel_state_
    eventStream,         \* device_event_stream_ptr_
    monPc, monCall,      \* the channel monitor
    cqPc, cqCall         \* the completion-queue thread

requests == <<tags, tagSource, made, listed, stream, req, reqCall>>
monitor == <<previous, eventStream, monPc, monCall>>
shutdown == <<owner, uncancelled>>
vars == <<calls, nextCall, requests, shutdown, channel, changes, monitor, cqPc, cqCall>>

Tags == 1..MaxTags
Pointers == Calls \cup {NoCall}

TypeOK ==
    /\ calls \in [Calls -> Record]
    /\ nextCall \in 1..(MaxCalls + 1)
    /\ tags \in SUBSET Tags /\ tagSource \in 1..(MaxTags + 1)
    /\ made \in BOOLEAN /\ listed \in BOOLEAN /\ stream \in Pointers
    /\ req \in {"idle", "opened", "recorded", "closing"} /\ reqCall \in Pointers
    /\ uncancelled \in BOOLEAN
    /\ owner \in {"new", "running", "cancelled", "stopped", "joined", "shut", "stopping", "down"}
    /\ channel \in {"READY", "DOWN"} /\ changes \in 0..MaxChanges
    /\ previous \in {"none", "READY", "DOWN"} /\ eventStream \in Pointers
    /\ monPc \in {"off", "check", "base", "setBase", "save", "ended"} /\ monCall \in Pointers
    /\ cqPc \in {"off", "loop", "next", "delete", "ended"} /\ cqCall \in Pointers

Init ==
    /\ calls = [c \in Calls |-> NeverOpened] /\ nextCall = 1
    /\ tags = {} /\ tagSource = 1
    /\ made = FALSE /\ listed = FALSE /\ stream = NoCall
    /\ req = "idle" /\ reqCall = NoCall
    /\ owner = "new" /\ uncancelled = FALSE
    /\ channel = "DOWN" /\ changes = 0
    /\ previous = "none" /\ eventStream = NoCall
    /\ monPc = "off" /\ monCall = NoCall
    /\ cqPc = "off" /\ cqCall = NoCall

-----------------------------------------------------------------------------
\* The application makes no request once it has called Shutdown, nor calls it during one.
ShuttingDown == owner \notin {"new", "running"}

\* The flags of Shutdown.
StopChannelMonitor == owner \in {"stopped", "joined", "shut", "stopping", "down"}
QueueShutdown == owner \in {"shut", "stopping", "down"}
StopHandlingCq == owner \in {"stopping", "down"}

\* Slips, used by no behaviour of Spec: the list is not locked; a storage is never found to
\* have a stream.
ListUnlocked == TRUE
NeverExists == FALSE

\* base_station_data_storage_list_mutex_: Shutdown keeps it to its end, the monitor until
\* it has stored the stream it opened.
ListMtxFree ==
    /\ owner \notin {"cancelled", "stopped", "joined", "shut", "stopping"}
    /\ monPc # "setBase"

OpenStream(kind, thread) ==
    /\ nextCall \in Calls
    /\ calls' = [calls EXCEPT ![nextCall] = StartCall(kind, {}, thread)]
    /\ nextCall' = nextCall + 1

Cancelled(c) == IF c = NoCall THEN calls ELSE [calls EXCEPT ![c] = CancelCall(@)]

DataStreamExists == stream # NoCall

-----------------------------------------------------------------------------
(* Slips, used by no behaviour of Spec.                                    *)

\* The base station is forgotten when the channel becomes ready.
MonitorReadyEventOnly ==
    /\ monPc = "check" /\ ~StopChannelMonitor /\ channel = "READY" /\ previous # "READY"
    /\ OpenStream("event", "monitor")
    /\ eventStream' = nextCall /\ monPc' = "save"
    /\ UNCHANGED <<requests, shutdown, channel, changes, previous, monCall, cqPc, cqCall>>

\* The event stream is forgotten and not cancelled.
MonitorLostNoCancel ==
    /\ monPc = "check" /\ ~StopChannelMonitor /\ channel = "DOWN" /\ previous # "DOWN"
    /\ eventStream' = NoCall /\ previous' = "DOWN"
    /\ UNCHANGED <<calls, nextCall, requests, shutdown, channel, changes, monPc, monCall, cqPc,
                   cqCall>>

\* The monitor leaves the event stream as it is when it ends.
MonitorEndNoCancel ==
    /\ monPc = "check" /\ StopChannelMonitor
    /\ monPc' = "ended"
    /\ UNCHANGED <<calls, nextCall, requests, shutdown, channel, changes, previous, eventStream,
                   monCall, cqPc, cqCall>>

\* The list stays locked after the stream is stored.
MonitorSetBaseLocked ==
    /\ monPc = "setBase"
    /\ stream' = monCall
    /\ UNCHANGED <<calls, nextCall, tags, tagSource, made, listed, req, reqCall, shutdown, channel,
                   changes, previous, eventStream, monPc, monCall, cqPc, cqCall>>

\* A failed call is not deleted.
TakeFailedKept(c) ==
    /\ cqPc = "next" /\ calls[c].op = "fail"
    /\ calls' = [calls EXCEPT ![c] = Stop(@)]
    /\ cqPc' = "loop"
    /\ UNCHANGED <<nextCall, requests, shutdown, channel, changes, monitor, cqCall>>

-----------------------------------------------------------------------------
(* The requester.                                                          *)

\* ClientContext::impl::RequestBaseStationData with a storage made before.
RequestShared ==
    /\ req = "idle" /\ ~ShuttingDown /\ made /\ tagSource \in Tags
    /\ tags' = tags \cup {tagSource} /\ tagSource' = tagSource + 1
    /\ UNCHANGED <<calls, nextCall, made, listed, stream, req, reqCall, shutdown, channel, changes,
                   monitor, cqPc, cqCall>>

\* The first request makes the storage: the stream is opened, then recorded, then listed.
RequestOpen ==
    /\ req = "idle" /\ ~ShuttingDown /\ ~made /\ tagSource \in Tags
    /\ OpenStream("base", "user")
    /\ req' = "opened" /\ reqCall' = nextCall
    /\ UNCHANGED <<tags, tagSource, made, listed, stream, shutdown, channel, changes, monitor, cqPc,
                   cqCall>>

RequestRecord ==
    /\ req = "opened"
    /\ stream' = reqCall /\ req' = "recorded" /\ reqCall' = NoCall
    /\ UNCHANGED <<calls, nextCall, tags, tagSource, made, listed, shutdown, channel, changes,
                   monitor, cqPc, cqCall>>

RequestList ==
    /\ req = "recorded" /\ ListMtxFree
    /\ listed' = TRUE /\ made' = TRUE
    /\ tags' = tags \cup {tagSource} /\ tagSource' = tagSource + 1
    /\ req' = "idle"
    /\ UNCHANGED <<calls, nextCall, stream, reqCall, shutdown, channel, changes, monitor, cqPc,
                   cqCall>>

\* CloseBaseStationDataRequest of any tag; with the last one the storage is closed.
Close(t) ==
    /\ req = "idle" /\ ~ShuttingDown
    /\ tags' = tags \ {t}
    /\ req' = IF tags' = {} THEN "closing" ELSE "idle"
    /\ UNCHANGED <<calls, nextCall, tagSource, made, listed, stream, reqCall, shutdown, channel,
                   changes, monitor, cqPc, cqCall>>

\* The stream is cancelled and the storage leaves the list; base_station_data_storage_ keeps it.
CloseStorage ==
    /\ req = "closing" /\ ListMtxFree
    /\ calls' = IF listed THEN Cancelled(stream) ELSE calls
    /\ listed' = FALSE /\ req' = "idle"
    /\ UNCHANGED <<nextCall, tags, tagSource, made, stream, reqCall, shutdown, channel, changes,
                   monitor, cqPc, cqCall>>

-----------------------------------------------------------------------------
(* The owner: Start and the steps of Shutdown.                             *)

Start ==
    /\ owner = "new"
    /\ owner' = "running" /\ monPc' = "check" /\ cqPc' = "loop"
    /\ UNCHANGED <<calls, nextCall, requests, uncancelled, channel, changes, previous,
                   eventStream, monCall, cqCall>>

\* The base-station streams are cancelled and forgotten; the list stays locked.
ShutdownCancel ==
    /\ owner \in {"new", "running"} /\ req = "idle" /\ ListMtxFree
    /\ IF listed THEN calls' = Cancelled(stream) /\ stream' = NoCall ELSE UNCHANGED <<calls, stream>>
    /\ owner' = "cancelled"
    /\ UNCHANGED <<nextCall, tags, tagSource, made, listed, req, reqCall, uncancelled, channel,
                   changes, monitor, cqPc, cqCall>>

\* The monitor is joined.  A wireless stream may be open, which nothing cancels, or a data
\* stream: those open at the start of Shutdown were cancelled then, but a device event that
\* came later has opened another.
ShutdownJoin ==
    /\ owner = "stopped" /\ monPc \in {"off", "ended"}
    /\ owner' = "joined" /\ uncancelled' \in BOOLEAN
    /\ UNCHANGED <<calls, nextCall, requests, channel, changes, monitor, cqPc, cqCall>>

\* Otherwise Shutdown goes from one place to the next, the last being the join of CQ.
ShutdownStep ==
    /\ \/ owner = "cancelled" /\ owner' = "stopped"
       \/ owner = "joined" /\ owner' = "shut"
       \/ owner = "shut" /\ owner' = "stopping"
       \/ owner = "stopping" /\ cqPc \in {"off", "ended"} /\ owner' = "down"
    /\ UNCHANGED <<calls, nextCall, requests, uncancelled, channel, changes, monitor, cqPc, cqCall>>

-----------------------------------------------------------------------------
(* The channel monitor.                                                    *)

\* The channel has become ready: a device event stream is opened first.
MonitorReady ==
    /\ monPc = "check" /\ ~StopChannelMonitor /\ channel = "READY" /\ previous # "READY"
    /\ OpenStream("event", "monitor")
    /\ eventStream' = nextCall /\ monPc' = "base"
    /\ UNCHANGED <<requests, shutdown, channel, changes, previous, monCall, cqPc, cqCall>>

\* Then, with the list locked, the stream of a listed storage that has none.
MonitorOpenBase ==
    /\ monPc = "base" /\ ListMtxFree /\ listed /\ ~DataStreamExists
    /\ OpenStream("base", "monitor")
    /\ monCall' = nextCall /\ monPc' = "setBase"
    /\ UNCHANGED <<requests, shutdown, channel, changes, previous, eventStream, cqPc, cqCall>>

MonitorSetBase ==
    /\ monPc = "setBase"
    /\ stream' = monCall /\ monCall' = NoCall /\ monPc' = "save"
    /\ UNCHANGED <<calls, nextCall, tags, tagSource, made, listed, req, reqCall, shutdown, channel,
                   changes, previous, eventStream, cqPc, cqCall>>

MonitorSkipBase ==
    /\ monPc = "base" /\ ListMtxFree /\ ~(listed /\ ~DataStreamExists)
    /\ monPc' = "save"
    /\ UNCHANGED <<calls, nextCall, requests, shutdown, channel, changes, previous, eventStream,
                   monCall, cqPc, cqCall>>

MonitorSave ==
    /\ monPc = "save"
    /\ previous' = "READY" /\ monPc' = "check"
    /\ UNCHANGED <<calls, nextCall, requests, shutdown, channel, changes, eventStream, monCall, cqPc,
                   cqCall>>

\* The channel is not ready any more: the event stream is cancelled and forgotten.
MonitorLost ==
    /\ monPc = "check" /\ ~StopChannelMonitor /\ channel = "DOWN" /\ previous # "DOWN"
    /\ calls' = Cancelled(eventStream) /\ eventStream' = NoCall
    /\ previous' = "DOWN"
    /\ UNCHANGED <<nextCall, requests, shutdown, channel, changes, monPc, monCall, cqPc, cqCall>>

MonitorEnd ==
    /\ monPc = "check" /\ StopChannelMonitor
    /\ calls' = Cancelled(eventStream) /\ eventStream' = NoCall
    /\ monPc' = "ended"
    /\ UNCHANGED <<nextCall, requests, shutdown, channel, changes, previous, monCall, cqPc, cqCall>>

-----------------------------------------------------------------------------
(* The completion-queue thread.                                            *)

\* The condition of the loop, then Next.
CqLoop ==
    /\ cqPc = "loop"
    /\ cqPc' = IF StopHandlingCq THEN "ended" ELSE "next"
    /\ UNCHANGED <<calls, nextCall, requests, shutdown, channel, changes, monitor, cqCall>>

\* Next returns false: the queue is shut down and nothing is outstanding.
CqDrained ==
    /\ cqPc = "next" /\ QueueShutdown /\ ~uncancelled /\ \A c \in Calls : calls[c].op = "none"
    /\ cqPc' = "ended"
    /\ UNCHANGED <<calls, nextCall, requests, shutdown, channel, changes, monitor, cqCall>>

\* A read, or the connection: Proceed reads again.  What the callback does is not this
\* module's concern.
TakeOk(c) ==
    /\ cqPc = "next" /\ calls[c].op = "ok"
    /\ calls' = [calls EXCEPT ![c] = ReadAgain(TakeTag(@))]
    /\ cqPc' = "loop"
    /\ UNCHANGED <<nextCall, requests, shutdown, channel, changes, monitor, cqCall>>

\* The service may send something on a stream that is left open, or end it.
TakeUncancelled ==
    /\ cqPc = "next" /\ uncancelled
    /\ cqPc' = "loop" /\ uncancelled' \in BOOLEAN
    /\ UNCHANGED <<calls, nextCall, requests, owner, channel, changes, monitor, cqCall>>

TakeFailed(c) ==
    /\ cqPc = "next" /\ calls[c].op = "fail"
    /\ calls' = [calls EXCEPT ![c] = Stop(@)]
    /\ cqPc' = "delete" /\ cqCall' = c
    /\ UNCHANGED <<nextCall, requests, shutdown, channel, changes, monitor>>

\* The destructor: the storage forgets the call if it is the one it points to.  The event
\* stream has no association, and device_event_stream_ptr_ stays as it is.
ClearAssociation(c) == stream' = IF stream = c THEN NoCall ELSE stream

DeleteCall ==
    /\ cqPc = "delete"
    /\ calls' = [calls EXCEPT ![cqCall] = Delete(@)]
    /\ ClearAssociation(cqCall)
    /\ cqPc' = "loop" /\ cqCall' = NoCall
    /\ UNCHANGED <<nextCall, tags, tagSource, made, listed, req, reqCall, shutdown, channel, changes,
                   monitor>>

(* gRPC.                                                                   *)

CompleteOk(c) ==
    /\ calls[c].op = "pending" /\ ~calls[c].cancelled
    /\ calls' = [calls EXCEPT ![c] = Complete(@, "ok")]
    /\ UNCHANGED <<nextCall, requests, shutdown, channel, changes, monitor, cqPc, cqCall>>

CompleteFail(c) ==
    /\ calls[c].op = "pending"
    /\ calls' = [calls EXCEPT ![c] = Complete(@, "fail")]
    /\ UNCHANGED <<nextCall, requests, shutdown, channel, changes, monitor, cqPc, cqCall>>

ChannelChange ==
    /\ changes < MaxChanges
    /\ channel' = IF channel = "READY" THEN "DOWN" ELSE "READY"
    /\ changes' = changes + 1
    /\ UNCHANGED <<calls, nextCall, requests, shutdown, monitor, cqPc, cqCall>>

-----------------------------------------------------------------------------
RequestStep == RequestShared \/ RequestOpen \/ RequestRecord \/ RequestList \/ CloseStorage
MonitorStep ==
    \/ MonitorReady \/ MonitorOpenBase \/ MonitorSetBase \/ MonitorSkipBase \/ MonitorSave
    \/ MonitorLost \/ MonitorEnd
CqStep == CqLoop \/ CqDrained \/ DeleteCall
TagStep(c) == TakeOk(c) \/ TakeFailed(c)

Next ==
    \/ RequestStep \/ \E t \in Tags : Close(t)
    \/ Start \/ ShutdownCancel \/ ShutdownJoin \/ ShutdownStep
    \/ MonitorStep
    \/ CqStep \/ (\E c \in Calls : TagStep(c)) \/ TakeUncancelled
    \/ \E c \in Calls : CompleteOk(c) \/ CompleteFail(c)
    \/ ChannelChange

Spec == Init /\ [][Next]_vars

\* A thread inside the client goes on, the monitor looks again and again, the completion
\* queue is first in, first out, and gRPC finishes the operations of a cancelled call.
Fairness ==
    /\ WF_vars(RequestRecord \/ RequestList \/ CloseStorage)
    /\ WF_vars(ShutdownJoin \/ ShutdownStep)
    /\ WF_vars(MonitorStep)
    /\ WF_vars(CqStep)
    /\ \A c \in Calls : SF_vars(TagStep(c)) /\ WF_vars(calls[c].cancelled /\ CompleteFail(c))

FairSpec == Spec /\ Fairness

-----------------------------------------------------------------------------
(* Properties.                                                             *)

Delivers(c, kind) == calls[c].life = "live" /\ ~calls[c].cancelled /\ calls[c].mgr = kind

\* The storage is filled by one stream at most: a request and the monitor never both open
\* one, and no packet is stored twice.
OneBaseStream == \A b, c \in Calls : Delivers(b, "base") /\ Delivers(c, "base") => b = c

\* "After this call, the BaseStationDataStorage will no longer receive new data packets"
\* (client_manager.h:137): nor does the monitor open its stream again later.
ClosedIsSilent == made /\ ~listed /\ req = "idle" => \A c \in Calls : ~Delivers(c, "base")

\* A device event stream that delivers is the one the monitor can cancel, however often the
\* channel comes and goes, and none is left when the monitor has ended.
EventStreamRecorded ==
    \A c \in Calls : Delivers(c, "event") => c = eventStream /\ monPc # "ended"

\* "Completion queue processor will delete the call data after cancel call."
\* (client_manager.cpp:209), once the client runs and until it is shut down.
CancelledDeleted ==
    \A c \in Calls :
        owner = "running" /\ calls[c].life = "live" /\ calls[c].cancelled
            ~> calls[c].life = "freed" \/ ShuttingDown

\* "Re-open base station stream if they are previously requested"
\* (client_manager.cpp:172): a monitor that finds the channel ready opens it.
Reopened ==
    monPc = "check" /\ previous # "READY" /\ channel = "READY" /\ listed /\ ~DataStreamExists
        ~> DataStreamExists \/ ~listed \/ channel # "READY" \/ ShuttingDown

\* A request and a close return, though the monitor locks the list at any time.
RequestReturns == req # "idle" ~> req = "idle" \/ ShuttingDown

\* Once Shutdown has joined the monitor it returns, the queue being shut down under the
\* completion-queue thread: nothing is outstanding that has not been cancelled, but for the
\* streams that Shutdown leaves open.
ShutdownEnds == owner = "joined" ~> owner = "down" \/ uncancelled

\* "Shutdown the client context" (client_context.h:61): it returns, the same excepted.
ShutdownReturns == owner = "cancelled" ~> owner = "down" \/ uncancelled
=============================================================================
