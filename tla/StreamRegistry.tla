--------------------------- MODULE StreamRegistry ---------------------------
(***************************************************************************)
(* How ClientManager keeps, for every DataManager the application asked    *)
(* for, the storages and the gRPC streams of the devices that are          *)
(* connected.  Three kinds of thread change this state:                    *)
(*                                                                         *)
(*   - an application thread per manager m, whose place in                 *)
(*     RequestDeviceData / RequestDataFrame / CloseRequest is upc[m];      *)
(*   - the completion-queue thread (CQ), whose place in                    *)
(*     CompletionQueueProcessor, DeviceEventProcessor and the destructor   *)
(*     of a call is cqPc;                                                  *)
(*   - the channel monitor, which forgets every device when the channel    *)
(*     goes down (ChannelLost).                                            *)
(*                                                                         *)
(* A step is what a thread does between two points where another thread    *)
(* can interfere with it.  Mutexes are not variables: who holds one        *)
(* follows from the program counters (ConnectedMtxFree, ListMtxFree,       *)
(* StreamMapFree, DataMapFree).                                            *)
(***************************************************************************)
EXTENDS CallData, FiniteSets

CONSTANTS Kind,       \* [Managers -> {"device", "frame"}]: stream_type_
          Requested,  \* [Managers -> SUBSET Devices]: request_.requested_devices
          MaxEvents,  \* bound: device events received
          MaxDrops    \* bound: times the channel goes down

ASSUME RegistryAssumption ==
    /\ Kind \in [Managers -> {"device", "frame"}]
    /\ Requested \in [Managers -> SUBSET Devices]
    /\ MaxEvents \in Nat /\ MaxDrops \in Nat
    /\ Devices # {}

VARIABLES
    connected,   \* connected_devices_
    list,        \* data_manager_list_
    storage,     \* storage[m]: keys of device_data_map_
    streams,     \* streams[m][d]: device_data_streams_, NoCall when absent
    frame,       \* frame[m]: dataframe_stream_
    calls,       \* the call objects
    nextCall,    \* the next unused call
    upc, utodo, ucall, udev,                    \* application threads
    cqPc, cqCall, cqDev, cqConn, cqMgr, cqTodo, \* completion-queue thread
    events, drops,                              \* counters of the bounds
    overlapped   \* auxiliary: overlapped[m] once CQ was replacing a stream of m while
                 \* the thread of m was opening or closing

registry == <<connected, list, storage, streams, frame>>
user == <<upc, utodo, ucall, udev>>
cq == <<cqPc, cqCall, cqDev, cqConn, cqMgr, cqTodo>>
vars == <<registry, calls, nextCall, user, cq, events, drops, overlapped>>

-----------------------------------------------------------------------------
UserPcs == {"none", "registered", "opening", "recordDevice", "recordFrame", "open",
            "cancelled", "cleared", "closed", "destroyed"}
CqPcs == {"next", "callback", "delete", "spin", "lockList", "update",
          "recordDevice", "removeFrame", "openFrame", "recordFrame"}
\* The places of the CQ thread between lk(data_manager_list_mutex_) and lk.unlock().
UpdatePcs == {"update", "recordDevice", "removeFrame", "openFrame", "recordFrame"}

TypeOK ==
    /\ connected \in SUBSET Devices
    /\ list \in SUBSET Managers
    /\ storage \in [Managers -> SUBSET Devices]
    /\ streams \in [Managers -> [Devices -> Calls \cup {NoCall}]]
    /\ frame \in [Managers -> Calls \cup {NoCall}]
    /\ calls \in [Calls -> Record]
    /\ nextCall \in 1..(MaxCalls + 1)
    /\ upc \in [Managers -> UserPcs]
    /\ utodo \in [Managers -> SUBSET Devices]
    /\ ucall \in [Managers -> Calls \cup {NoCall}]
    /\ udev \in [Managers -> Devices]
    /\ cqPc \in CqPcs
    /\ cqCall \in Calls \cup {NoCall}
    /\ cqDev \in Devices
    /\ cqConn \in BOOLEAN
    /\ cqMgr \in Managers \cup {NoManager}
    /\ cqTodo \in SUBSET Managers
    /\ events \in 0..MaxEvents
    /\ drops \in 0..MaxDrops
    /\ overlapped \in [Managers -> BOOLEAN]

\* The value of a local variable that is out of scope.
AnyDevice == CHOOSE d \in Devices : TRUE

Init ==
    /\ connected = {} /\ list = {}
    /\ storage = [m \in Managers |-> {}]
    /\ streams = [m \in Managers |-> [d \in Devices |-> NoCall]]
    /\ frame = [m \in Managers |-> NoCall]
    /\ calls = [c \in Calls |-> NeverOpened]
    /\ nextCall = 1
    /\ upc = [m \in Managers |-> "none"]
    /\ utodo = [m \in Managers |-> {}]
    /\ ucall = [m \in Managers |-> NoCall]
    /\ udev = [m \in Managers |-> AnyDevice]
    /\ cqPc = "next" /\ cqCall = NoCall
    /\ cqDev = AnyDevice
    /\ cqConn = FALSE /\ cqMgr = NoManager /\ cqTodo = {}
    /\ events = 0 /\ drops = 0
    /\ overlapped = [m \in Managers |-> FALSE]

-----------------------------------------------------------------------------
(* Locks, and helpers shared by the threads.                               *)

\* A slip: no lock at all around connected_devices_.
ConnectedUnlocked == TRUE

\* connected_devices_mtx_ is kept for the whole of OpenDeviceDataStream.
ConnectedMtxFree == \A m \in Managers : upc[m] \notin {"opening", "recordDevice"}

\* data_manager_list_mutex_ is kept while DeviceEventProcessor updates managers.
ListMtxFree == cqPc \notin UpdatePcs

\* data_stream_map_mtx_ of m, never released once RemoveStream loops forever.
StreamMapFree(m) == ~(cqPc = "spin" /\ calls[cqCall].mgr = m)

\* device_data_map_mtx_ of m, held shared while UpdateDeviceData/UpdateDataFrame run.
DataMapFree(m) == ~(cqPc = "callback" /\ calls[cqCall].mgr = m)

IsDeviceDataRequested(m, d) == Requested[m] = {} \/ d \in Requested[m]

RecordedIn(m) == {streams[m][d] : d \in Devices} \ {NoCall}

CancelAll(cs) == [c \in Calls |-> IF c \in cs THEN CancelCall(calls[c]) ELSE calls[c]]

\* Open*Stream: the call is running before its pointer is recorded anywhere.
OpenStream(m, devs, thread) ==
    /\ nextCall \in Calls
    /\ calls' = [calls EXCEPT ![nextCall] = StartCall(m, devs, thread)]
    /\ nextCall' = nextCall + 1

\* AddDataStream keeps the first pointer; its callers ignore that it returned false.
AddDataStream(m, d, c) ==
    streams' = IF streams[m][d] = NoCall THEN [streams EXCEPT ![m][d] = c] ELSE streams

\* The storages of ds that are missing are added; IsStorageAvailable is asked first.
AddDeviceStorage(m, ds) == storage' = [storage EXCEPT ![m] = @ \cup ds]

RemoveDeviceStorage(m, d) == storage' = [storage EXCEPT ![m] = @ \ {d}]

\* CQ is replacing a stream of m while the thread of m is opening or closing; no lock
\* of the code excludes it.  A registered frame request counts as opening: it will
\* record its stream without looking for another, where a device request looks first.
Overlap(m) ==
    /\ cqMgr = m /\ cqPc \in {"recordDevice", "removeFrame", "openFrame", "recordFrame"}
    /\ \/ upc[m] \in {"recordDevice", "recordFrame", "cancelled", "cleared"}
       \/ upc[m] = "registered" /\ Kind[m] = "frame"

\* Conjunct of the steps that can begin an overlap.
NoteOverlap == overlapped' = [m \in Managers |-> overlapped[m] \/ Overlap(m)']

-----------------------------------------------------------------------------
(* Slips: what some actions below would be if the code had the named bug.   *)
(* No behaviour of Spec uses them; each shows that a property can fail.      *)

\* The loop of OpenDeviceDataStream is left early.
EndOpenDevicesEarly(m) ==
    /\ upc[m] = "opening"
    /\ upc' = [upc EXCEPT ![m] = "open"] /\ utodo' = [utodo EXCEPT ![m] = {}]
    /\ UNCHANGED <<registry, calls, nextCall, ucall, udev, cq, events, drops, overlapped>>

\* A cancelled call's read is not re-armed, so its failure is never seen.
ProceedSkipNoRead(c) ==
    /\ cqPc = "next" /\ calls[c].op = "ok" /\ calls[c].status = "PROCESSING"
    /\ calls[c].cancelled
    /\ calls' = [calls EXCEPT ![c] = TakeTag(@)]
    /\ UNCHANGED <<registry, nextCall, user, cq, events, drops, overlapped>>

\* ClearAssociation does not erase the entry.
DeleteDeviceKeepEntry(d) ==
    LET m == calls[cqCall].mgr IN
    /\ cqPc = "delete" /\ upc[m] # "destroyed" /\ frame[m] # cqCall
    /\ streams[m][d] = cqCall
    /\ calls' = [calls EXCEPT ![cqCall] = Delete(@)]
    /\ cqPc' = "next" /\ cqCall' = NoCall
    /\ UNCHANGED <<registry, nextCall, user, cqDev, cqConn, cqMgr, cqTodo, events, drops,
                   overlapped>>

\* The stream of a device that is gone is dropped without being cancelled.
UpdateDeviceGoneNoCancel(m) ==
    /\ cqPc = "update" /\ m \in cqTodo /\ IsDeviceDataRequested(m, cqDev)
    /\ Kind[m] = "device" /\ ~cqConn
    /\ streams' = [streams EXCEPT ![m][cqDev] = NoCall]
    /\ storage' = [storage EXCEPT ![m] = @ \ {cqDev}]
    /\ cqTodo' = cqTodo \ {m}
    /\ UNCHANGED <<connected, list, frame, calls, nextCall, user, cqPc, cqCall, cqDev, cqConn,
                   cqMgr, events, drops, overlapped>>

\* The frame stream is replaced for a new device only.
UpdateFrameIfPresent(m) ==
    /\ cqPc = "update" /\ m \in cqTodo /\ IsDeviceDataRequested(m, cqDev)
    /\ Kind[m] = "frame"
    /\ IF cqConn
       THEN /\ calls' = CancelAll({frame[m]})
            /\ cqPc' = "removeFrame" /\ cqMgr' = m
            /\ UNCHANGED <<storage, cqTodo>>
       ELSE /\ storage' = [storage EXCEPT ![m] = @ \ {cqDev}]
            /\ cqTodo' = cqTodo \ {m}
            /\ UNCHANGED <<calls, cqPc, cqMgr>>
    /\ UNCHANGED <<connected, list, streams, frame, nextCall, user, cqCall, cqDev, cqConn,
                   events, drops>>
    /\ NoteOverlap

\* lk.unlock() is missing: the list stays locked.
EndEventLocked == cqPc = "update" /\ cqTodo = {} /\ UNCHANGED vars

-----------------------------------------------------------------------------
(* Application threads: RequestDeviceData, RequestDataFrame.               *)

RegisterRequest(m) ==
    /\ upc[m] = "none" /\ ListMtxFree
    /\ list' = list \cup {m}
    /\ upc' = [upc EXCEPT ![m] = "registered"]
    /\ UNCHANGED <<connected, storage, streams, frame, calls, nextCall,
                   utodo, ucall, udev, cq, events, drops, overlapped>>

\* OpenDeviceDataStream takes connected_devices_mtx_ and starts to iterate.
BeginOpenDevices(m) ==
    /\ Kind[m] = "device" /\ upc[m] = "registered" /\ ConnectedMtxFree
    /\ upc' = [upc EXCEPT ![m] = "opening"]
    /\ utodo' = [utodo EXCEPT ![m] = connected]
    /\ UNCHANGED <<registry, calls, nextCall, ucall, udev, cq, events, drops, overlapped>>

\* UpdateDeviceDataStream(m, d, true) up to the call's StartCall, or all of it
\* when d is not requested or has a stream.
OpenNextDevice(m, d) ==
    /\ upc[m] = "opening" /\ d \in utodo[m]
    /\ IF IsDeviceDataRequested(m, d)
       THEN /\ d \in storage[m] \/ DataMapFree(m)
            /\ StreamMapFree(m)
            /\ AddDeviceStorage(m, {d})
       ELSE UNCHANGED storage
    /\ IF IsDeviceDataRequested(m, d) /\ streams[m][d] = NoCall
       THEN /\ OpenStream(m, {d}, "user")
            /\ ucall' = [ucall EXCEPT ![m] = nextCall]
            /\ udev' = [udev EXCEPT ![m] = d]
            /\ upc' = [upc EXCEPT ![m] = "recordDevice"]
            /\ UNCHANGED utodo
       ELSE /\ utodo' = [utodo EXCEPT ![m] = @ \ {d}]
            /\ UNCHANGED <<calls, nextCall, upc, ucall, udev>>
    /\ UNCHANGED <<connected, list, streams, frame, cq, events, drops>>
    /\ NoteOverlap

RecordDevice(m) ==
    /\ upc[m] = "recordDevice" /\ StreamMapFree(m)
    /\ AddDataStream(m, udev[m], ucall[m])
    /\ upc' = [upc EXCEPT ![m] = "opening"]
    /\ utodo' = [utodo EXCEPT ![m] = @ \ {udev[m]}]
    /\ ucall' = [ucall EXCEPT ![m] = NoCall]
    /\ udev' = [udev EXCEPT ![m] = AnyDevice]
    /\ UNCHANGED <<connected, list, storage, frame, calls, nextCall, cq, events, drops,
                   overlapped>>

EndOpenDevices(m) ==
    /\ upc[m] = "opening" /\ utodo[m] = {}
    /\ upc' = [upc EXCEPT ![m] = "open"]
    /\ UNCHANGED <<registry, calls, nextCall, utodo, ucall, udev, cq, events, drops, overlapped>>

\* OpenDataFrame up to StartCall: under connected_devices_mtx_ it adds the
\* missing storages and lists the connected requested devices in the request.
OpenFrame(m) ==
    LET snapshot == {d \in connected : IsDeviceDataRequested(m, d)} IN
    /\ Kind[m] = "frame" /\ upc[m] = "registered" /\ ConnectedMtxFree
    /\ snapshot \subseteq storage[m] \/ DataMapFree(m)
    /\ AddDeviceStorage(m, snapshot)
    /\ OpenStream(m, snapshot, "user")
    /\ ucall' = [ucall EXCEPT ![m] = nextCall]
    /\ upc' = [upc EXCEPT ![m] = "recordFrame"]
    /\ UNCHANGED <<connected, list, streams, frame, utodo, udev, cq, events, drops>>
    /\ NoteOverlap

RecordFrame(m) ==
    /\ upc[m] = "recordFrame"
    /\ frame' = [frame EXCEPT ![m] = ucall[m]]
    /\ ucall' = [ucall EXCEPT ![m] = NoCall]
    /\ upc' = [upc EXCEPT ![m] = "open"]
    /\ UNCHANGED <<connected, list, storage, streams, calls, nextCall,
                   utodo, udev, cq, events, drops, overlapped>>

(* CloseRequest, and the release of the application's last reference.      *)

\* CancelAllDataStreams, or CancelDataFrameStream.
CancelStreams(m) ==
    /\ upc[m] = "open"
    /\ IF Kind[m] = "device"
       THEN StreamMapFree(m) /\ calls' = CancelAll(RecordedIn(m))
       ELSE calls' = CancelAll({frame[m]})
    /\ upc' = [upc EXCEPT ![m] = "cancelled"]
    /\ UNCHANGED <<registry, nextCall, utodo, ucall, udev, cq, events, drops>>
    /\ NoteOverlap

\* ClearDataStreams, or RemoveDataFrameStream.
ClearStreams(m) ==
    /\ upc[m] = "cancelled"
    /\ IF Kind[m] = "device"
       THEN /\ StreamMapFree(m)
            /\ streams' = [streams EXCEPT ![m] = [d \in Devices |-> NoCall]]
            /\ UNCHANGED frame
       ELSE /\ frame' = [frame EXCEPT ![m] = NoCall]
            /\ UNCHANGED streams
    /\ upc' = [upc EXCEPT ![m] = "cleared"]
    /\ UNCHANGED <<connected, list, storage, calls, nextCall,
                   utodo, ucall, udev, cq, events, drops, overlapped>>

Deregister(m) ==
    /\ upc[m] = "cleared" /\ ListMtxFree
    /\ list' = list \ {m}
    /\ upc' = [upc EXCEPT ![m] = "closed"]
    /\ UNCHANGED <<connected, storage, streams, frame, calls, nextCall,
                   utodo, ucall, udev, cq, events, drops, overlapped>>

\* ~DataManager, when neither the application nor ~rpcClientCallData holds a
\* shared_ptr.  The maps die with it; nothing is cancelled.
Destroy(m) ==
    /\ upc[m] = "closed" /\ StreamMapFree(m)
    /\ storage' = [storage EXCEPT ![m] = {}]
    /\ streams' = [streams EXCEPT ![m] = [d \in Devices |-> NoCall]]
    /\ frame' = [frame EXCEPT ![m] = NoCall]
    /\ upc' = [upc EXCEPT ![m] = "destroyed"]
    /\ UNCHANGED <<connected, list, calls, nextCall, utodo, ucall, udev, cq, events, drops,
                   overlapped>>

-----------------------------------------------------------------------------
(* The completion-queue thread: one tag per turn of CompletionQueueProcessor. *)

\* StartCall's tag: Proceed in CONNECTING starts the first read.
ProceedConnecting(c) ==
    /\ cqPc = "next" /\ calls[c].op = "ok" /\ calls[c].status = "CONNECTING"
    /\ calls' = [calls EXCEPT ![c] = ReadAgain(@)]
    /\ UNCHANGED <<registry, nextCall, user, cq, events, drops, overlapped>>

\* Proceed in PROCESSING: cb_handler_ runs unless the call was cancelled.
ProceedDeliver(c) ==
    /\ cqPc = "next" /\ calls[c].op = "ok" /\ calls[c].status = "PROCESSING"
    /\ ~calls[c].cancelled
    /\ calls' = [calls EXCEPT ![c] = TakeTag(@)]
    /\ cqPc' = "callback" /\ cqCall' = c
    /\ UNCHANGED <<registry, nextCall, user, cqDev, cqConn, cqMgr, cqTodo, events, drops,
                   overlapped>>

EndCallback ==
    /\ cqPc = "callback"
    /\ calls' = [calls EXCEPT ![cqCall] = ReadAgain(@)]
    /\ cqPc' = "next" /\ cqCall' = NoCall
    /\ UNCHANGED <<registry, nextCall, user, cqDev, cqConn, cqMgr, cqTodo, events, drops,
                   overlapped>>

ProceedSkip(c) ==
    /\ cqPc = "next" /\ calls[c].op = "ok" /\ calls[c].status = "PROCESSING"
    /\ calls[c].cancelled
    /\ calls' = [calls EXCEPT ![c] = ReadAgain(@)]
    /\ UNCHANGED <<registry, nextCall, user, cq, events, drops, overlapped>>

\* ok is false: Stop, then Proceed in FINISH asks for the deletion.
TakeFailed(c) ==
    /\ cqPc = "next" /\ calls[c].op = "fail"
    /\ calls' = [calls EXCEPT ![c] = Stop(@)]
    /\ cqPc' = "delete" /\ cqCall' = c
    /\ UNCHANGED <<registry, nextCall, user, cqDev, cqConn, cqMgr, cqTodo, events, drops,
                   overlapped>>

(* delete returned_call_data: ~rpcClientCallData and DataManager::RemoveStream. *)

Deleted(c) ==
    /\ calls' = [calls EXCEPT ![c] = Delete(@)]
    /\ cqPc' = "next" /\ cqCall' = NoCall
    /\ UNCHANGED <<connected, list, storage, nextCall, user,
                   cqDev, cqConn, cqMgr, cqTodo, events, drops, overlapped>>

\* association_.lock() is null: the manager is gone.
DeleteUnassociated ==
    /\ cqPc = "delete" /\ upc[calls[cqCall].mgr] = "destroyed"
    /\ Deleted(cqCall) /\ UNCHANGED <<streams, frame>>

DeleteFrame ==
    LET m == calls[cqCall].mgr IN
    /\ cqPc = "delete" /\ upc[m] # "destroyed" /\ frame[m] = cqCall
    /\ frame' = [frame EXCEPT ![m] = NoCall]
    /\ Deleted(cqCall) /\ UNCHANGED streams

\* The first entry of the unordered_map is the call's.
DeleteDevice(d) ==
    LET m == calls[cqCall].mgr IN
    /\ cqPc = "delete" /\ upc[m] # "destroyed" /\ frame[m] # cqCall
    /\ streams[m][d] = cqCall
    /\ streams' = [streams EXCEPT ![m][d] = NoCall]
    /\ Deleted(cqCall) /\ UNCHANGED frame

\* The map is empty: the loop body never runs.
DeleteUnlisted ==
    LET m == calls[cqCall].mgr IN
    /\ cqPc = "delete" /\ upc[m] # "destroyed" /\ frame[m] # cqCall
    /\ RecordedIn(m) = {}
    /\ Deleted(cqCall) /\ UNCHANGED <<streams, frame>>

\* The first entry is another call's: the loop has no ++it, so it compares the
\* same entry again, for ever, with data_stream_map_mtx_ held.
BeginSpin ==
    LET m == calls[cqCall].mgr IN
    /\ cqPc = "delete" /\ upc[m] # "destroyed" /\ frame[m] # cqCall
    /\ \E d \in Devices : streams[m][d] \notin {NoCall, cqCall}
    /\ cqPc' = "spin"
    /\ UNCHANGED <<registry, calls, nextCall, user, cqCall, cqDev, cqConn, cqMgr, cqTodo,
                   events, drops, overlapped>>

Spin == cqPc = "spin" /\ UNCHANGED vars

(* DeviceEventProcessor, the callback of the device event stream.          *)

\* The first part, under connected_devices_mtx_.
ReceiveEvent(d, conn) ==
    /\ cqPc = "next" /\ ConnectedMtxFree /\ events < MaxEvents
    /\ connected' = IF conn THEN connected \cup {d} ELSE connected \ {d}
    /\ cqPc' = "lockList" /\ cqDev' = d /\ cqConn' = conn
    /\ events' = events + 1
    /\ UNCHANGED <<list, storage, streams, frame, calls, nextCall, user,
                   cqCall, cqMgr, cqTodo, drops, overlapped>>

\* data_manager_list_mutex_: no manager joins or leaves until EndEvent.
LockList ==
    /\ cqPc = "lockList"
    /\ cqPc' = "update" /\ cqTodo' = list
    /\ UNCHANGED <<registry, calls, nextCall, user, cqCall, cqDev, cqConn, cqMgr, events,
                   drops, overlapped>>

UpdateSkip(m) ==
    /\ cqPc = "update" /\ m \in cqTodo /\ ~IsDeviceDataRequested(m, cqDev)
    /\ cqTodo' = cqTodo \ {m}
    /\ UNCHANGED <<registry, calls, nextCall, user, cqPc, cqCall, cqDev, cqConn, cqMgr,
                   events, drops, overlapped>>

\* UpdateDeviceDataStream, disconnected: CancelDataStream, RemoveDataStream,
\* RemoveDeviceStorage.
UpdateDeviceGone(m) ==
    /\ cqPc = "update" /\ m \in cqTodo /\ IsDeviceDataRequested(m, cqDev)
    /\ Kind[m] = "device" /\ ~cqConn
    /\ calls' = CancelAll({streams[m][cqDev]})
    /\ streams' = [streams EXCEPT ![m][cqDev] = NoCall]
    /\ RemoveDeviceStorage(m, cqDev)
    /\ cqTodo' = cqTodo \ {m}
    /\ UNCHANGED <<connected, list, frame, nextCall, user, cqPc, cqCall, cqDev, cqConn, cqMgr,
                   events, drops, overlapped>>

\* UpdateDeviceDataStream, connected: up to StartCall when there is no stream.
UpdateDevicePresent(m) ==
    /\ cqPc = "update" /\ m \in cqTodo /\ IsDeviceDataRequested(m, cqDev)
    /\ Kind[m] = "device" /\ cqConn
    /\ AddDeviceStorage(m, {cqDev})
    /\ IF streams[m][cqDev] = NoCall
       THEN /\ OpenStream(m, {cqDev}, "cq")
            /\ cqPc' = "recordDevice" /\ cqMgr' = m /\ cqCall' = nextCall
            /\ UNCHANGED cqTodo
       ELSE /\ cqTodo' = cqTodo \ {m}
            /\ UNCHANGED <<calls, nextCall, cqPc, cqMgr, cqCall>>
    /\ UNCHANGED <<connected, list, streams, frame, user, cqDev, cqConn, events, drops>>
    /\ NoteOverlap

CqRecordDevice ==
    /\ cqPc = "recordDevice"
    /\ AddDataStream(cqMgr, cqDev, cqCall)
    /\ cqPc' = "update" /\ cqTodo' = cqTodo \ {cqMgr}
    /\ cqMgr' = NoManager /\ cqCall' = NoCall
    /\ UNCHANGED <<connected, list, storage, frame, calls, nextCall, user, cqDev, cqConn,
                   events, drops, overlapped>>

\* UpdateDataFrameStream up to CancelDataFrameStream.
UpdateFrame(m) ==
    /\ cqPc = "update" /\ m \in cqTodo /\ IsDeviceDataRequested(m, cqDev)
    /\ Kind[m] = "frame"
    /\ IF cqConn THEN storage' = storage ELSE RemoveDeviceStorage(m, cqDev)
    /\ calls' = CancelAll({frame[m]})
    /\ cqPc' = "removeFrame" /\ cqMgr' = m
    /\ UNCHANGED <<connected, list, streams, frame, nextCall, user, cqCall, cqDev, cqConn, cqTodo,
                   events, drops>>
    /\ NoteOverlap

CqRemoveFrame ==
    /\ cqPc = "removeFrame"
    /\ frame' = [frame EXCEPT ![cqMgr] = NoCall]
    /\ cqPc' = "openFrame"
    /\ UNCHANGED <<connected, list, storage, streams, calls, nextCall, user,
                   cqCall, cqDev, cqConn, cqMgr, cqTodo, events, drops, overlapped>>

\* OpenDataFrame, called with data_manager_list_mutex_ held.
CqOpenFrame ==
    LET snapshot == {d \in connected : IsDeviceDataRequested(cqMgr, d)} IN
    /\ cqPc = "openFrame" /\ ConnectedMtxFree
    /\ AddDeviceStorage(cqMgr, snapshot)
    /\ OpenStream(cqMgr, snapshot, "cq")
    /\ cqPc' = "recordFrame" /\ cqCall' = nextCall
    /\ UNCHANGED <<connected, list, streams, frame, user, cqDev, cqConn, cqMgr, cqTodo,
                   events, drops, overlapped>>

CqRecordFrame ==
    /\ cqPc = "recordFrame"
    /\ frame' = [frame EXCEPT ![cqMgr] = cqCall]
    /\ cqPc' = "update" /\ cqTodo' = cqTodo \ {cqMgr}
    /\ cqMgr' = NoManager /\ cqCall' = NoCall
    /\ UNCHANGED <<connected, list, storage, streams, calls, nextCall, user, cqDev, cqConn,
                   events, drops, overlapped>>

\* lk.unlock(), the user's event callback, and the next read of the event stream.
EndEvent ==
    /\ cqPc = "update" /\ cqTodo = {}
    /\ cqPc' = "next" /\ cqDev' = AnyDevice /\ cqConn' = FALSE
    /\ UNCHANGED <<registry, calls, nextCall, user, cqCall, cqMgr, cqTodo, events, drops,
                   overlapped>>

-----------------------------------------------------------------------------
(* The environment: gRPC and the channel monitor.                          *)

\* A cancelled operation does not succeed any more.
CompleteOk(c) ==
    /\ calls[c].op = "pending" /\ ~calls[c].cancelled
    /\ calls' = [calls EXCEPT ![c] = Complete(@, "ok")]
    /\ UNCHANGED <<registry, nextCall, user, cq, events, drops, overlapped>>

\* The stream was cancelled, or it broke.
CompleteFail(c) ==
    /\ calls[c].op = "pending"
    /\ calls' = [calls EXCEPT ![c] = Complete(@, "fail")]
    /\ UNCHANGED <<registry, nextCall, user, cq, events, drops, overlapped>>

\* ChannelMonitor sees READY turn into another state (with nothing to forget, it
\* changes nothing here).
ChannelLost ==
    /\ ConnectedMtxFree /\ connected # {} /\ drops < MaxDrops
    /\ connected' = {} /\ drops' = drops + 1
    /\ UNCHANGED <<list, storage, streams, frame, calls, nextCall, user, cq, events, overlapped>>

\* The application has finished and the CQ thread waits in Next.
Idle == cqPc = "next" /\ (\A m \in Managers : upc[m] = "destroyed") /\ UNCHANGED vars

-----------------------------------------------------------------------------
UserStep(m) ==
    \/ RegisterRequest(m)
    \/ BeginOpenDevices(m)
    \/ \E d \in Devices : OpenNextDevice(m, d)
    \/ RecordDevice(m)
    \/ EndOpenDevices(m)
    \/ OpenFrame(m)
    \/ RecordFrame(m)
    \/ CancelStreams(m)
    \/ ClearStreams(m)
    \/ Deregister(m)
    \/ Destroy(m)

\* One turn of CompletionQueueProcessor, as far as the callback or the delete.
Proceed(c) ==
    \/ ProceedConnecting(c)
    \/ ProceedDeliver(c)
    \/ ProceedSkip(c)
    \/ TakeFailed(c)

TagStep ==
    \/ \E c \in Calls : Proceed(c)
    \/ EndCallback
    \/ DeleteUnassociated
    \/ DeleteFrame
    \/ \E d \in Devices : DeleteDevice(d)
    \/ DeleteUnlisted
    \/ BeginSpin
    \/ Spin

EventStep ==
    \/ LockList
    \/ \E m \in Managers : \/ UpdateSkip(m) \/ UpdateDeviceGone(m)
                           \/ UpdateDevicePresent(m) \/ UpdateFrame(m)
    \/ CqRecordDevice
    \/ CqRemoveFrame
    \/ CqOpenFrame
    \/ CqRecordFrame
    \/ EndEvent

Environment ==
    \/ \E d \in Devices, conn \in BOOLEAN : ReceiveEvent(d, conn)
    \/ \E c \in Calls : CompleteOk(c) \/ CompleteFail(c)
    \/ ChannelLost

Next ==
    \/ \E m \in Managers : UserStep(m)
    \/ TagStep
    \/ EventStep
    \/ Environment
    \/ Idle

Spec == Init /\ [][Next]_vars

(* Fairness.  A thread inside a call of the client goes on; the completion  *)
(* queue is first in, first out, so no tag stays in it for ever; gRPC      *)
(* completes the pending operation of a cancelled call.                    *)
Fairness ==
    /\ \A m \in Managers :
         WF_vars(UserStep(m) /\ upc[m] \notin {"none", "open", "closed"})
    /\ WF_vars(TagStep) /\ WF_vars(EventStep)
    /\ \A c \in Calls : /\ SF_vars(Proceed(c))
                        /\ WF_vars(calls[c].cancelled /\ CompleteFail(c))

FairSpec == Spec /\ Fairness

-----------------------------------------------------------------------------
(* Properties.                                                             *)

\* A call object exists as long as anything can still reach it through the
\* completion queue: a tag that gRPC or the queue holds, or the call the CQ thread is
\* working on, is never that of a deleted call; and no call in use is a future one.
TagsLive ==
    /\ \A c \in Calls : calls[c].op # "none" => calls[c].life = "live"
    /\ cqPc \in {"callback", "delete", "spin"} =>
         /\ cqCall \in Calls
         /\ calls[cqCall].life = "live"
         /\ calls[cqCall].op = "none"

\* The thread of m still has the connected device d ahead of it.
UserWillServe(m, d) ==
    \/ upc[m] = "registered"
    \/ upc[m] \in {"opening", "recordDevice"} /\ d \in utodo[m]

\* The CQ thread has taken the event that connects d, and m is ahead of it.
CqWillServe(m, d) ==
    \/ cqPc = "lockList" /\ cqConn /\ d = cqDev
    \/ cqPc \in UpdatePcs /\ m \in cqTodo /\ cqConn /\ d = cqDev

\* No connected device is missed: whatever the order of a request and the events of
\* a device, every registered manager that asked for a connected device has a storage
\* for it, or one of the two threads is still going to create it.  It rests on the
\* request joining the list before it reads connected_devices_, and on the event
\* entering connected_devices_ before it reads the list.
StorageCoverage ==
    \A m \in list, d \in connected :
        IsDeviceDataRequested(m, d) =>
            d \in storage[m] \/ UserWillServe(m, d) \/ CqWillServe(m, d)

\* No storage outlives its device: as long as the channel has not gone down, a registered
\* manager keeps the storage of a device that is gone only until the CQ thread has shown
\* it the event.  (A channel that goes down empties connected_devices_ and shows no event.)
StorageExact ==
    drops = 0 => \A m \in list : \A d \in storage[m] :
        \/ d \in connected
        \/ cqPc = "lockList" /\ ~cqConn /\ d = cqDev
        \/ cqPc \in UpdatePcs /\ m \in cqTodo /\ ~cqConn /\ d = cqDev

Recorded(c) == c \in RecordedIn(calls[c].mgr) \/ c = frame[calls[c].mgr]

\* A pointer that the CQ thread itself recorded is never dangling: the thread that
\* deletes calls is the thread that recorded it, and the destructor takes it out.
CqRecordedLive ==
    \A c \in Calls : calls[c].by = "cq" /\ calls[c].life = "freed" => ~Recorded(c)

\* A thread has opened the call and is about to record it.
AboutToBeRecorded(c) ==
    \/ ucall[calls[c].mgr] = c
    \/ cqPc \in {"recordDevice", "recordFrame"} /\ cqCall = c

\* The call can still deliver data to its manager.
Delivering(c) ==
    /\ calls[c].life = "live" /\ ~calls[c].cancelled
    /\ calls[c].status # "FINISH" /\ calls[c].op # "fail"

\* Every stream that can still deliver is reachable from its manager, so that a
\* disconnection, CloseRequest or Shutdown can cancel it; an unreachable one would
\* deliver for ever.  It holds as long as the two threads have not overlapped.
NoOrphan ==
    \A c \in Calls :
        Delivering(c) /\ ~overlapped[calls[c].mgr] => Recorded(c) \/ AboutToBeRecorded(c)

\* The recorded data frame stream asks for exactly the requested devices that are
\* connected, once the events have been worked off and unless the channel went down:
\* "Always replace the old data stream with the new one" (client_manager.cpp:462).  It
\* holds as long as the two threads have not overlapped.
FrameCurrent ==
    cqPc = "next" /\ drops = 0 =>
        \A m \in list : Kind[m] = "frame" /\ ~overlapped[m] /\ frame[m] # NoCall =>
            calls[frame[m]].covers = {d \in connected : IsDeviceDataRequested(m, d)}

\* CloseRequest terminates "the open request stream" (client_manager.h:122): when it has
\* returned, no stream of the manager can deliver any more.
ClosedRequestStopped ==
    \A c \in Calls : Delivering(c) => upc[calls[c].mgr] \notin {"closed", "destroyed"}

\* "Completion queue processor will delete the call data after cancel call"
\* (client_manager.cpp:209, data_manager.h:78).
CancelledCallsDeleted ==
    \A c \in Calls : calls[c].cancelled ~> calls[c].life = "freed"

\* RequestDeviceData, RequestDataFrame and CloseRequest return.
RequestsReturn ==
    \A m \in Managers : /\ upc[m] = "registered" ~> upc[m] = "open"
                        /\ upc[m] = "cancelled" ~> upc[m] = "closed"
=============================================================================
