# TLA+ specifications of the Ommo SDK client

The Ommo SDK client (`src/`) subscribes to the tracking devices of an Ommo
service over gRPC and keeps their latest packets in memory, where application
threads query them. This directory specifies the parts of it where threads meet:
the registry of requests, streams and storages; the double buffers that a lock-free
writer shares with querying threads; the wireless stream with its two operations at
once; Start, Shutdown and the channel monitor; the tags an application holds; and the
memory of the API's structs, which the threads pass to each other by raw pointer.
Modules are checked with TLC on small instances; the central invariants are proved
with TLAPS for every value of the constants.

Paths below are those of the repository; `client_manager.cpp` and the like are in
`src/src/`, headers in `src/include/`.

## 1. The system

### Threads

| thread | runs | created by |
| --- | --- | --- |
| application threads | every public method: requests, closes, queries | the application |
| completion-queue thread (CQ) | `CompletionQueueProcessor`: all callbacks of all streams, deletion of calls | `ClientManager::Start` |
| channel monitor | `ChannelMonitor`: polls the gRPC channel, reopens streams | `ClientManager::Start` |

### Components

| component | state | operations | interacts with |
| --- | --- | --- | --- |
| Stream registry (`ClientManager`, `DataManager`) | `connected_devices_`, `data_manager_list_`; per manager `device_data_map_`, `device_data_streams_`, `dataframe_stream_` | `RequestDeviceData`, `RequestDataFrame`, `CloseRequest`, `DeviceEventProcessor`, `UpdateDeviceDataStream`, `UpdateDataFrameStream`, `OpenDataFrame`, `RemoveStream` | creates and cancels calls; its callbacks run on CQ; four mutexes |
| Streaming calls (`rpcClientCallData` and subclasses) | `status`, `listener_active`, the gRPC context, `association_` | constructor, `Proceed`, `Stop`, `CancelCall`, destructor | tags in the completion queue are pointers into the call; the destructor calls `ClearAssociation` of the manager |
| Device event stream | `device_event_stream_ptr_` | opened by the monitor, delivers to `DeviceEventProcessor` | registry |
| `DeviceDataStorage` | two packet buffers, two `data_num`, `packet_received_num_` | `PushData` (CQ), `GetLatestData`, `GetLatestData(count)`, `GetDataSinceIndex` (application) | `switch_mutex_` |
| `BaseStationDataStorage` | the same, and `base_station_stream_` | the same, and the stream pointer's four methods | its own stream |
| Base-station requests (`ClientManager`) | `base_station_data_storage_list_` | `RequestBaseStationData`, `CloseBaseStationDataRequest` | monitor, Shutdown |
| Channel monitor | `previous_channel_state_`, `device_event_stream_ptr_` | one turn per second | clears `connected_devices_`; reopens event, base-station and wireless streams |
| Start and Shutdown | the two threads, `stop_*` flags | `Start`, `Shutdown` | joins both threads |
| Request tags (`ClientContext::impl`) | `data_managers_`, `base_station_request_list_`, `base_station_data_storage_`, `data_managers_tag_source_` | one method per request, close and query | forwards to `ClientManager` |
| Wireless management (`WirelessManager`, its wrapper, its bidirectional call) | `cdata`; the call's `status` | 18 request methods, `HandleEvent`, `CancelStream` | writes and reads on one stream at once |
| Tracking-group streams | as any stream | no request of the client opens them | - |
| Unary requests | none | one blocking RPC each | - |
| API types and conversions (`sdk_types`, `protobuf_converters`) | the arrays each struct points to | `ProtoTo...`, `Copy...`, `Move...`, `Destroy...` | `connected_devices_`, the storages, callbacks, answers |
| Hash, logging, `rwlock.h` | none of their own | pure functions | used everywhere |

### What is hard, and what makes each component correct

* **Registry.** A request, a close and a device event of the same manager run on
  two threads and take four locks one after the other, never together with the
  step that follows. A call is started before its pointer is stored anywhere, and
  CQ deletes it as soon as it fails. Correct means: no tag reaches a deleted call
  (`TagsLive`); no connected device is missed (`StorageCoverage`); storages of
  devices that are gone go (`StorageExact`); stored pointers are not dangling
  (`CqRecordedLive`); live streams can be cancelled (`NoOrphan`) and ask for the
  right devices (`FrameCurrent`); a cancelled call is deleted and calls of the API
  return (`CancelledCallsDeleted`, `RequestsReturn`).
* **Storages.** The writer takes the lock only to exchange the buffers. Readers
  hold it shared while they copy. Correct means: the writer touches nothing a
  reader may copy (`NoRace`), no packet among the last `buffer_size_` is lost or
  reordered (`RetainedConsecutive`), each query answers what its comment says
  (`LatestAnswers`, `CountAnswers`, `SinceAnswers`, `BaseStationAnswers`), and the whole
  is a log of which a query sees one suffix (`ImplementsLog`).
* **Wireless call.** The only stream with two operations outstanding, and a pointer to
  it that four kinds of thread use without a lock. Correct means: one write at a time
  (`OneWrite`), one stream at a time (`OneStream`), a write is possible again after one
  finishes (`WriteEnds`), a cancelled call is deleted (`CancelledDeleted`), and not
  while a tag is out (`TagsLive`, which fails).
* **Monitor, base-station requests, Shutdown.** Request, close, monitor and the end of a
  call all change one stream pointer. Correct means: one stream fills the storage
  (`OneBaseStream`), a closed request stays silent (`ClosedIsSilent`), the monitor keeps
  hold of its event stream (`EventStreamRecorded`) and reopens what was lost
  (`Reopened`), requests and Shutdown return (`RequestReturns`, `ShutdownEnds`,
  `ShutdownReturns`; the last fails).
* **Request tags.** Two maps under two mutexes take tags from one counter. Correct means:
  a query meets an open request only (`QueryServed`, `StorageKept`), an open request
  keeps its tag (`Reachable`), no tag gets a second meaning (`TagsFresh`).
* **Ownership.** Structs are copied deeply, moved out of `unique_ptr`s as raw pointers and
  destroyed by hand, by two threads of the library and by the application. Correct
  means: every block has one owner and is allocated as long as it has (`OneOwner`), and
  none is left without one (`NothingLost`).

The hazards are listed one by one, each at its line, in `PROJECT.json`.

## 2. Modules

    CallData            one streaming call, as operators on a record
      StreamRegistry    requests, events, the CQ thread, channel losses
        StreamRegistryProofs   inductive invariant and theorems: tags, pointers, coverage
          RegistryStreamsProofs  a second invariant on it: streams, frames, storages
        MCStreamRegistry       instances for TLC
      ClientLifecycle   Start, Shutdown, channel monitor, base-station requests
        ClientLifecycleProofs  inductive invariant and theorems
        MCClientLifecycle      instance for TLC
    PacketLog           abstract: a log, queries that see a suffix of it
    DoubleBuffer        implements it: PushData step by step, queries as shared-lock sections
      DeviceDataStorage        the three queries of DeviceDataStorage
      BaseStationDataStorage   the three queries of BaseStationDataStorage
      DoubleBufferProofs       inductive invariant and theorems
      PacketStorage            the queries of both storages on one pair of buffers
        StorageQueryProofs     theorems about what the queries answer
        MCPacketStorage        instance for TLC
    WirelessManagement  a manager, its bidirectional calls, the monitor's reopening
      WirelessManagementProofs, MCWirelessManagement
    RequestTags         the tags of ClientContext, any number of threads
      RequestTagsProofs, MCRequestTags
    ApiTypes            the structs of the API, as operators on the blocks they point to
      Ownership         who owns the blocks: CQ, a manager and its storages, the application
        OwnershipProofs        inductive invariant and theorems
        MCOwnership            instance for TLC

Modules meet where one leaves a decision to another: what `StreamRegistry` takes as an
event that may come at any time is the stream `ClientLifecycle` opens and cancels; what
`RequestTags` takes as "open" and "closed" is what `StreamRegistry` and
`ClientLifecycle` do inside; the storage `ClientLifecycle` shares between requests is
`BaseStationDataStorage`; what `StreamRegistry` and `DoubleBuffer` take as a value (a
descriptor, a packet) is memory in `Ownership`. The monitor is in three modules, each with the part of a turn
that concerns it: the parts touch disjoint state, except for the mutex of the
base-station list, which is in `ClientLifecycle` with all its users.

### CallData

A record per call object. `StartCall`, `CancelCall`, `Stop`, `TakeTag`,
`ReadAgain`, `Delete` are what the constructor, the methods and the branches of
`Proceed` do to it; `Complete` is gRPC's part (external). A read-only call has one
tag, which is always in exactly one place, the field `op`. `cancelled` is the
negation of `listener_active`; the constructors of the device-data, data-frame and
event streams are the same code, and so are their `Proceed`. A `Proceed` with
`status = CONNECTING` and `ok` reads; with `PROCESSING` it calls back unless
cancelled, and reads; after `Stop` it asks for the deletion. The lock of `status`
is not modelled: `Stop` and `Proceed` run on CQ alone.

### StreamRegistry

The variables `connected`, `list`, `storage`, `streams`, `frame` are the members
of the same purpose; devices stand for their hashes. `upc`, `utodo`, `ucall`,
`udev` are the program counter and locals of one application thread per manager,
`cqPc`, `cqCall`, `cqDev`, `cqConn`, `cqMgr`, `cqTodo` those of CQ.

*Grain.* One action is the code between two points where another thread can
interfere.

* `RequestDeviceData` is `RegisterRequest`, `BeginOpenDevices`, then per device
  `OpenNextDevice` (storage, existence test, construction of the call) and
  `RecordDevice` (`AddDataStream`), then `EndOpenDevices`. The existence test and
  the construction may be one step: between them the call is in nobody's hands, and
  CQ's own recording cannot come between in a way that a later step would not show,
  since the recording is a separate action.
* `RequestDataFrame` is `RegisterRequest`, `OpenFrame`, `RecordFrame`.
* `CloseRequest` is `CancelStreams`, `ClearStreams`, `Deregister`. Cancelling all
  entries is one step: the loop holds `data_stream_map_mtx_`.
* An event is `ReceiveEvent` (under `connected_devices_mtx_`), `LockList`, and per
  manager `UpdateSkip`, `UpdateDeviceGone`, `UpdateDevicePresent` with
  `CqRecordDevice`, or `UpdateFrame`, `CqRemoveFrame`, `CqOpenFrame`,
  `CqRecordFrame`; then `EndEvent`. `UpdateDeviceGone` joins three short critical
  sections (`CancelDataStream`, `RemoveDataStream`, `RemoveDeviceStorage`): the only
  other thread that touches the same entries is one in `OpenDeviceDataStream`, whose
  effect on them is the same before or after each of the three, or one in
  `CloseRequest`, which cancels and forgets as well. The order in which managers are
  updated is left open.
* A failed call is `TakeFailed` and one of `DeleteUnassociated`, `DeleteFrame`,
  `DeleteDevice`, `DeleteUnlisted`, `BeginSpin`. The last is `RemoveStream` as it is
  written: the loop at `data_manager.cpp:336` has no `++it`, so that meeting another
  call's entry first it never ends. Which entry an `unordered_map` yields first is a
  choice.

*Locks* are predicates on the program counters. `connected_devices_mtx_` is kept by
an application thread from `BeginOpenDevices` to `EndOpenDevices`,
`data_manager_list_mutex_` by CQ from `LockList` to `EndEvent`,
`device_data_map_mtx_` (shared) by CQ during a user callback, and
`data_stream_map_mtx_` is lost in the endless loop. `AddDeviceStorage` needs
`device_data_map_mtx_` exclusively, hence `DataMapFree`.

*Undefined behaviour.* `CancelCall` through a dangling pointer has the outcome that
nothing happens. It is the mildest the build can produce; every property that
fails, fails without a worse one.

*Environment.* Any event may arrive when CQ is free (`ReceiveEvent`); the service
may repeat one. A pending read may succeed while the call is not cancelled
(`CompleteOk`) or fail at any time (`CompleteFail`). `ChannelLost` is the channel
monitor's `connected_devices_.clear()`. A user callback ends by itself.

*Life of a manager.* `Destroy` is `~DataManager` after the application dropped its
reference: calls hold a `weak_ptr`, so nothing else keeps it.

*What the code leaves open.* `overlapped[m]`, an auxiliary variable, becomes true when
CQ replaces a stream of `m` while the thread of `m` is opening or closing. No lock
excludes that. What follows when it happens: a stream opened by CQ during `CloseRequest`
survives it (the run `registry_closed`), and a frame request that joined the list before
its stream is recorded gets a second one from an event, the first of which nothing can
cancel. `NoOrphan` and `FrameCurrent` are what holds as long as it did not happen.

### DoubleBuffer, DeviceDataStorage, BaseStationDataStorage

`buf`, `write`, `read` are the two arrays and the two `BufferInfo`; `received` counts
packets without wrapping, `packet_idx` is taken modulo `IndexLimit` (2^32 in the
code). `PushData` is `Destroy` (lines 71-75), `Fill` (77-79), `Publish` (81-83),
`Switch` (`SwitchBufferPointer`, 288-299) and `Reset` (88, after the lock is
released). Its branch for a full buffer (91-103) is not an action: `WriteInRange`,
checked and proved, says it is never reached. `Fill` joins the writes of
`packet_idx` and `device_data`: a query that sampled consistent counts does not look
at the slot. A packet of another device makes `PushData` return at once.

A query is `BeginQuery` (shared lock, both `data_num` sampled) and `EndQuery`; what
it copies in between is a function of the state and its samples (`View`), and the
properties are asked in every state in between, so that wherever the writer is the
answer must already be right. That what a query copies does not depend on when it copies
is `ImplementsLog`: `PacketLog` has a `length` and a `window` per query, fixed at its
beginning, and the mapping takes the window to the suffix of the log that the two
buffers hold. Its `BeginTorn` is the one way in which a query may see something else,
possible only at the moments the buffers are exchanged. `seen` (what had been published at the sample) and
`stale` (the sample fell between `Switch` and `Reset`) are auxiliary. `Current` are
the queries that are not stale; the run `packet_storage_stale` is about the others.

The two classes have the same `PushData` and the same `GetLatestData(count)`, so
`PacketStorage` puts the queries of both on one pair of buffers, those of the base station
as an instance of `BaseStationDataStorage`;
they differ in `GetLatestData` and `GetDataSinceIndex`, where the base station has
the slip of line 100 and no comparison with the read buffer's last packet. A base
station packet has no members to destroy, so `Destroy` and `Fill` are the two ends
of the assignment to the slot.

### WirelessManagement

`calls[c].status` and `calls[c].tag` are a call's state and the places of its two
operations; all tags of a call are the same pointer, so `Proceed` finds out from the
state and the response what has finished (`TakeConnected` ... `TakeFailed`). `cdata` is
`impl::cdata`. The owner is `CreateWirelessManager` and `DeleteWirelessManager`, each
in the steps between which others can come; `sender[s]` is the pointer a request method
has tested and is about to write through; `monitor` the call the monitor has opened and
not stored. The eighteen request methods differ in the message alone and are one pair
of actions, `Check` and `Send`. `statusLock` is kept during the callback and no longer.
`IsStreamActive` of a deleted call is undefined and answers either; a write through a
deleted call does nothing, the mildest outcome. `DeleteWirelessManager` is called when
no sender uses the manager: the reverse is a use of a deleted object.

### ClientLifecycle

The variables are the members of `ClientManager`, of `ClientContext::impl` and of the
base-station storage that these operations share. One requester stands for all
application threads, since `base_station_request_list_mutex_` is held through the whole
of either method. The flags and the list's mutex are predicates on places: Shutdown
has set `stop_channel_monitor_` from "stopped" on, and keeps the list's mutex from
"cancelled" to its end. A turn of the monitor is `MonitorReady`, `MonitorOpenBase` and
`MonitorSetBase` or `MonitorSkipBase`, `MonitorSave`; or `MonitorLost`; or
`MonitorEnd`. CQ looks at its flag (`CqLoop`), waits for a tag, and ends when its flag
is set or the queue is drained (`CqDrained`).

The other streams of the client, of data managers and of wireless managers, are one flag:
`uncancelled` says that one is open which Shutdown does not cancel. Shutdown cancels the
data managers' streams first, and a device event that CQ handles after that may open
another; of wireless streams it knows nothing. Nothing opens a stream once the monitor
has been joined and the application is silent but CQ itself, so the flag is set then
(`ShutdownJoin`), and the service may end such a stream (`TakeUncancelled`). While it
stays open the queue is not drained and Shutdown may not return: `ShutdownEnds` and
`ShutdownReturns` except that, and it is the first of the two that holds.

The application calls neither a request nor a close once it has called Shutdown
(`ShuttingDown`); the class promises nothing about that. An operation started on a queue
that has been shut down is taken to run as usual. Deadlock is not checked in its
configurations, since the system stops after a Shutdown, and also inside one:
that is the run `lifecycle_shutdown`.

### RequestTags

`managers` is `data_managers_`, from tag to request; `baseTags` is
`base_station_request_list_`. `data_managers_tag_source_` is read and then written while
its tag is stored, and the two kinds of request do so under different mutexes: a data
race, here its outcomes as an interleaving of a load and a store. `raced` remembers
that it happened; `TagsFresh` and `Reachable` are what holds as long as it did not.
Queries, and the registration of callbacks, hold the map's lock shared through their
work (`BeginQuery`, `EndQuery`); base-station queries leave theirs before they use the
storage. The one number `MaxRequests` bounds requests and tags.

### ApiTypes, Ownership

A block is one allocation, named by the place and time it was made for, its type and its
path in the struct: the struct itself when it came from `new`, an array, or an array of
an element of an array. An object is a type, a count of elements and the blocks its
pointers lead to. `Struct` lists the pointer fields of every struct of `sdk_types.h`;
`ProtoTo...`, `Copy`, `Moved`, `WithoutMembers` and `Deleted` say what the functions of
`protobuf_converters.cpp` and `sdk_types.cpp` allocate, pass on and delete. Functions are
joined with `++`, defined in `ApiTypes`, and `At(p, o)` is a function of one place: TLC's
`@@` and `:>` mean the same, but have no definition that a proof could use.

`at` is what every place that can hold a struct holds: `event_ptr` and the packet for a
callback, which CQ has on its stack; `connected_devices_`; the manager's `request_`; each
storage's `device_` and packet slots; and the application's variables, the `Handles`. The
actions are `EventArrives`, `EventManagers`, `EventDone` (`DeviceEventProcessor`),
`UpdateDeviceData`, `UpdateDataFrame`, `UpdateDone` (`PushData` and the callback),
`ChannelLost`, `MakeManager`, `Open`, `DestroyManager`, and what an application does with
what it got: `GetData`, `Receive`, `CopyTo`, `CopyDevice`, `Move`, `DestroyMembers`,
`Destroy`. Which devices a manager opened storages for is left open, `StreamRegistry`
decides it; the manager is destroyed when no callback of its runs, the reverse being a
hazard of the registry. The application destroys what it was given as the header says:
a pointer once, a moved struct through its `Destroy...Members`, after which the struct
owns nothing (`GivenUp`). Temporaries that a conversion allocates and deletes before it
returns, and values without pointers, are left out.

What the code does not free is in the model, and is the exception `KnownLeak`:
`DestroyTrackingGroupMembers` and `DestroyTrackingGroupEvent` delete the array of
descriptors and not what these point to (`sdk_types.cpp:242`, `435`, against the comment at
`sdk_types.h:491`), and a manager never destroys `request_.requested_devices`
(`data_manager.cpp:20`). Two more observations are not about ownership and have no
property: `DestroyWirelessManagementEventMembers` leaves `device_pairing_information`
pointing at what it deleted (`sdk_types.cpp:254`), so that a second call, safe with every
other struct, deletes twice; and `CopyWirelessManagementEvent` (`sdk_types.cpp:155`) does
not copy `client_request_type` and `request_error`.

## 3. Runs

| run | module, cfg | instance | shows |
| --- | --- | --- | --- |
| `registry` | MCStreamRegistry, MCRegistry | 2 devices, a device request or a frame request, 2 events, 7 calls | `TypeOK`, `TagsLive`, `StorageCoverage`, `StorageExact`, `CqRecordedLive`, `NoOrphan`, `FrameCurrent` |
| `registry_liveness` | MCStreamRegistry, MCRegistryLiveness | 2 devices of which 1 is requested, 1 frame request, 1 event, 1 loss | `CancelledCallsDeleted`, `RequestsReturn` |
| `packet_storage` | MCPacketStorage, MCPacketStorage | buffer of 3, 13 packets, index wraps at 10, 2 readers | `TypeOK`, `WriteInRange`, `NoRace`, `RetainedConsecutive`, `LatestAnswers`, `CountAnswers`, `SinceAnswers`, `BaseStationAnswers`, `BaseStationLatest`, `ImplementsLog` |
| `wireless` | MCWirelessManagement, MCWireless | 2 senders, 3 streams | `TypeOK`, `OneWrite`, `OneStream`, `WriteEnds`, `CancelledDeleted` |
| `lifecycle` | MCClientLifecycle, MCLifecycle | 2 requests, 2 channel changes, 3 calls | `TypeOK`, `OneBaseStream`, `ClosedIsSilent`, `EventStreamRecorded`, `CancelledDeleted`, `Reopened`, `RequestReturns`, `ShutdownEnds` |
| `request_tags` | MCRequestTags, MCRequestTags | 3 threads, 4 requests | `TypeOK`, `QueryServed`, `Reachable`, `StorageKept`, `TagsFresh` |
| `ownership` | MCOwnership, MCOwnership | 1 device, 1 slot, 2 variables of the application, arrays of 0 and 1 elements | `TypeOK`, `OneOwner`, `NothingLost` |
| `registry_spin` | MCStreamRegistry, MCRegistrySpin | 2 devices, 1 device request, 2 events | violation of `CancelledCallsDeleted` |
| `registry_closed` | MCStreamRegistry, MCRegistryClosed | 1 device, 1 device request | violation of `ClosedRequestStopped` |
| `packet_storage_stale` | MCPacketStorage, MCPacketStorageStale | as `packet_storage` | violation of `LatestIsMostRecent` |
| `wireless_tags` | MCWirelessManagement, MCWirelessTags | 2 senders, 2 streams | violation of `TagsLive` |
| `lifecycle_shutdown` | MCClientLifecycle, MCLifecycleShutdown | as `lifecycle` | violation of `ShutdownReturns` |

*Bounds.* In the registry, two events connect two devices or connect and disconnect
one, which is all that a manager distinguishes; a third repeats. `MaxCalls` never stops
a thread there: `EnoughCalls`, an assumption TLC evaluates, computes what requests and
events can open at most. Managers meet only in the list, the locks and CQ's attention,
so TLC has one at a time (the constraint `OneRequest` of `registry`); the
proved invariants hold for any number. In the storages, `BoundsReached` requires that
both buffers have been overwritten twice, once before the index wraps. The answers of
the queries depend on the position in the two buffers, of which 13 packets visit all.
In `wireless`, the monitor replaces the first stream twice; the fourth it would open is
cut off. In `lifecycle`, the channel becomes ready and is lost, with as many calls as
that and a request can open (`BoundsReached`); of two tags that share the
storage, closing one leaves it open and closing the other closes it. In `request_tags`, three threads can hold the
map, wait for it and change the other list, and four requests are one more, so that a
tag can be closed and given out wrongly again. In `ownership`, a place can allocate twice
before the first allocation is deleted, and two objects of the application meet; the
constraint `OneAtATime` lets only one of them exist beside objects of the library, since
a copy or an answer has one source, and follows at most two leaked blocks. Slots and
devices never meet in one block, so one of each is enough.

*Fairness.* In all modules a thread that is inside a call of the client goes on (weak
fairness of its steps, never of the application's decision to call), CQ goes on, and,
the completion queue being first in, first out, every tag in it is taken: strong
fairness of the step that takes a given tag, since it is disabled while CQ works on
another. gRPC finishes the pending operation of a cancelled call
(`WF(cancelled /\ CompleteFail(c))`), which is what `TryCancel` promises, and in
`WirelessManagement` a write, well or badly. In `ClientLifecycle` the monitor looks at
the channel again and again (`WF(MonitorStep)`), and Shutdown goes on where it is not
waiting (`WF(ShutdownJoin \/ ShutdownStep)`). No stream that was not cancelled is assumed
to end. A mutex is fair in no stronger sense than this. No fairness is assumed of
events, of the channel, of data, of requests, or of `Start` and `Shutdown` being called.
In the registry liveness is checked for a frame request only: with device streams
`CancelledCallsDeleted` is false (`registry_spin`), by the endless loop.

*Disagreements of code and documentation.*

1. `registry_spin`: `data_manager.cpp:336` never advances its iterator. Two device
   streams, one cancelled and forgotten after its device disconnected: its deletion
   finds the other's entry and loops for ever holding `data_stream_map_mtx_`.
2. `registry_closed`: `CloseRequest` leaves `data_manager_list_` last, so an event
   reopens a stream of the manager that is being closed, and it is never cancelled.
3. `packet_storage_stale`: `data_num` is reset after the exchange's lock is released;
   a query in between answers with a packet `buffer_size_` too old.
4. `wireless_tags`: the first failed tag of a wireless stream deletes the call, whose
   other tag is outstanding.
5. `lifecycle_shutdown`: `Shutdown` keeps the base-station list locked while it joins a
   monitor that waits for that lock.

The passing runs state what holds beside these, and five more slips of the code are
exceptions built into a property rather than runs of their own: the query at
`basestation_data_storage.cpp:100`, which reads the write buffer at the read buffer's
index (`BaseStationLatest` speaks of the other cases); the second stream of a
frame request (`overlapped`); what is never freed (`KnownLeak`); the tag source's race of `RequestTags`; and the
base-station storage that is shared, without a stream, by a request made after the last
one was closed (`client_context.cpp:348`).

## 4. Proofs

`StreamRegistryProofs`, for arbitrary sets of devices and managers and arbitrary
bounds, from `CallAssumption` and `RegistryAssumption` alone:

* `TypeCorrect`, `TagsAlwaysLive`, `StorageAlwaysCovered`, `CqRecordsAlwaysLive`,
  all from `Invariance == Spec => []IInv`.
* `IInv` is `TypeOK`, `CallsOK`, `PhaseOK`, `HandsOK`, `RecordsOK`, `CqRecordedLive`
  and `CoverageOK`. `TagsLive` alone is not inductive: that a call's deletion leaves
  no tag behind needs that CQ is holding it with its tag taken (`HandsOK`), that a
  call has one status per stage of its life (`CallsOK`), and that calls not yet
  opened are unknown to everybody (`RecordsOK`). `StorageCoverage` needs that the
  list an event works through is still the list, i.e. that no manager joins while CQ
  has the list locked, and that a thread that iterates over the connected devices
  keeps them from changing, which is what its mutex is for (`PhaseOK`, `CoverageOK`).
* Each conjunct is preserved by a lemma with one step per action.

`RegistryStreamsProofs`, for the same constants, adds what is about streams and storages:

* `StorageAlwaysExact`, `StreamsNeverLost`, `FrameAlwaysCurrent`, `ClosedAloneAlwaysStopped`,
  from `StreamInvariance == Spec => []SInv`. The last states what `CloseRequest` promises
  and `registry_closed` refutes, of the managers at which the two threads did not meet
  (`overlapped`): the race is the only way in which the promise is broken.
* `SInv` is `IInv`, `OverlapNoted`, `HoldOK`, `AloneOK`, `NoOrphan`, `FrameOK` and
  `ExactOK`. `NoOrphan` is not inductive: a call that is recorded may overwrite another,
  which nothing could cancel any more. `FreePlace` (in `AloneOK`) says that the place is
  free whenever a thread comes to record, and `Stopped` that from `CancelStreams` on no
  stream delivers, so that `ClearStreams` forgets none that does; both hold as long as the
  threads have not overlapped, which `OverlapNoted` ties to what the threads do. `HoldOK`
  says for which manager a thread holds a call.
* `FrameOK` is `FrameCurrent` at every point of an event: the frame covers what is connected
  (`Present`), or the event that changed that is still to be shown to the manager
  (`Pending`). `ExactOK` does the same for storages; a thread that opens storages works on
  devices that are connected, because it has `connected_devices_` locked.

`DoubleBufferProofs`, for any `BufferSize > 0`, any readers, any `IndexLimit > 0`:

* `TypeCorrect`, `WriterInRange`, `RaceFree`, `TailRetained`, from
  `Invariance == Spec => []IInv`.
* `Refinement == Spec => ImplementsLog`: the initial state maps to the empty log, and every
  step to a step of `PacketLog` or a stutter. `LogStep` has one step per action; the log
  grows where `Publish` counts the packet. A query's window stays what it was because the
  slots it sampled are not written while it lasts (`WindowSampled`, from the sample
  clauses of `IInv`); that a torn sample falls on a multiple of `BufferSize` needs
  `ExchangeOK`, which is part of `IInv`: between `Switch` and `Reset` what has been
  received is a whole number of buffers.
* The invariant says what each buffer holds at each place of the writer: the write
  buffer a run of consecutive packets ending at `received`, the read buffer the full
  run before it (or nothing before the first exchange), between `Switch` and `Reset`
  the two just exchanged; and that a reader's samples are those counts, the writer
  having only added packets since, because the exchange waits for readers.

`StorageQueryProofs`, for any `BufferSize > 0`, readers and `IndexLimit > 0`:

* `LatestAnswered`, `CountAnswered`, `SinceAnswered` for the queries of a device,
  `BaseStationAnswered` and `BaseStationLatestAnswered` for those of the base station.
* No invariant of its own: `ViewSees` takes from that of `DoubleBufferProofs` that what a
  query with consistent samples works on `Sees` the last packets of those published at the
  sample, the read buffer's before the write buffer's, whatever the writer has done since.
  The rest is about the copying code: the slots that it copies from one buffer or from
  both are a `Stretch` of the stream of packets (`CopyRead`, `CopyWrite`, `CopyBoth`), and
  the start indices and lengths it computes are those of the stretch that was asked
  (`LatestAnswer`, `CountAnswer`, `SinceAnswer`). `Indices` gives the comparison of
  `packet_idx` a meaning, below the wrap.
* The base station's queries are reduced to those of a device where the code is the same
  (`SameCount`), and where it lacks a test, the test would be false for a packet that
  exists (`BaseStationSinceAnswer`).

`WirelessManagementProofs`, for any senders and any number of streams:

* `TypeCorrect`, `OneWriteAlways`, `OneStreamAlways`, from `Invariance == Spec => []IInv`.
* `IInv` is `TypeOK`, `FutureOK`, `HandOK`, `OneWrite` and `PlaceOK`. `OneWrite` needs
  little beside the types: each way into CONNECTING and WAITING leaves no write
  outstanding. `OneStream` is not inductive; `PlaceOK` says why two streams never live
  at once: while the manager is used, a live call is active and is the one call that
  its opener has in hand or `cdata` points to, so that the monitor, which finds
  `IsStreamActive` false, finds that there is none.

`RequestTagsProofs`, for any threads and any number of requests:

* `TypeCorrect`, `QueriesServed`, `OpenReachable`, `StorageAlwaysKept`, `TagsAlwaysFresh`;
  the last is an action property, proved of every step from the invariant.
* `IInv` is `TypeOK`, `LockOK`, `HandOK`, `MapOK`, `SourceOK`, `StorageKept` and
  `Reachable`. `LockOK` is what the two mutexes exclude; `HandOK` and `MapOK` say that
  a request is in one place (a thread's hands, one tag, closed); `SourceOK` that,
  without a race, no tag from the source on has been used.

`ClientLifecycleProofs`, for any number of streams, tags and changes of the channel:

* `TypeCorrect`, `OneBaseStreamAlways`, `ClosedAlwaysSilent`, `EventStreamAlwaysRecorded`,
  from `Invariance == Spec => []IInv`.
* `IInv` is `TypeOK`, `StorageOK`, `BasePlace`, `MonitorOK` and `EventStreamRecorded`.
  `OneBaseStream` and `ClosedIsSilent` follow from `BasePlace`: a base stream that delivers
  is in one of three places, recorded in a storage that is listed, or in the hands of the
  requester or of the monitor, and two of these never hold one at once. That the monitor
  still finds `stream` null when it stores what it opened needs the list's mutex, which is
  `StorageOK` (`monPc = "setBase"` excludes a request, a close and Shutdown).

`OwnershipProofs`, for any devices, slots, variables of the application, sizes of arrays and
generations:

* `TypeCorrect`, `AlwaysOneOwner`, `NeverLost`, from `Invariance == Spec => []IInv`.
* `IInv` is `MemoryOK`, `CqOK` and `StoragesOK`. What an object points to was allocated for
  the place it is at, and is what its type and count say (`Fits`): `OneOwner` follows, and
  every function that makes, copies or moves an object is shown to return one that fits
  where it is put (`NewMade`, `MovedMade`, `PushMade`, `AddStorage`). A shallow copy would
  not. What is owned is allocated and what is allocated has an owner, or is a known leak,
  because each step deletes just what it overwrites: `Replaces` says so once, `ReplaceStep`
  that it keeps `MemoryOK`, and each action is shown to be such a step. That nothing is
  overwritten without being deleted needs to know where nothing is: on CQ's stack when it
  is idle (`CqOK`), and in the slots of a device without storage (`StoragesOK`, which also
  says that packets are held by value: what `~DeviceDataStorage` deletes is then all).

The assumptions are the named ones of the modules (`CallAssumption`,
`RegistryAssumption`, `BufferAssumption`, `WirelessAssumption`, `TagsAssumption`,
`LifecycleAssumption`, `OwnershipAssumption`): bounds are natural numbers, and what the
constructor's arguments are; of the memory, that devices and slots are finitely many, and
that the application's variables are none of the library's. TLC evaluates them in every run.

Every invariant and the action properties `TagsFresh` and `ImplementsLog` that the runs
check are stated by a theorem. Only model-checked: liveness (`CancelledCallsDeleted`,
`RequestsReturn`, `WriteEnds`, `CancelledDeleted`, `Reopened`, `RequestReturns`,
`ShutdownEnds`), since fairness is out of the prover's reach, and the five violations.

## 5. Not modelled, and the plan

Done: the registry, the storages and the log they implement, the wireless stream, the
lifecycle with base-station requests, the request tags, the ownership of memory, and
theorems about the invariants of all of them. Next, in this order:

1. An abstract registry (per manager, the set of devices served) and the proof that
   `StreamRegistry` implements it, from `SInv`.
2. The same for the tags: a map from tags to requests, of which `RequestTags` is the
   implementation by two threads and one counter, as long as the counter was not raced.

Not modelled:

* Callbacks of the application that call the client. `StreamRegistry` and
  `WirelessManagement` keep the locks that are held around a callback
  (`device_data_map_mtx_` shared, `statusLock`), so that a callback that takes time is
  there; one that requests, closes or writes on the same thread would wait for its own
  lock, and an action for it would be a deadlock by construction.
* `Start` after `Shutdown`, and requests during it: the class says nothing about either.
* `DeviceHash`: one line of arithmetic on values that the models keep abstract.
* Unary RPCs (no client state; what they return is `Receive` in `Ownership`), logging, the
  `rwlock.h` wrapper, tracking-group streams (no request opens them), the protocol files,
  the rest of the forwarding in `ClientContext`, the values that conversions copy.

Hazards that no property covers carry a note in `PROJECT.json`. Three of them were
met while modelling and are worth a reader's attention: a call that fails before its
pointer is stored leaves a dangling pointer (`client_manager.cpp:396`); a callback
bound to `data_manager_ptr.get()` can outlive the manager; a lost channel leaves the
storages of forgotten devices behind (`client_manager.cpp:217`).

## 6. Running

    tlc -workers 2 -config MCRegistry.cfg MCStreamRegistry
    tlapm StreamRegistryProofs.tla

The definitions headed *slips* (`WriteUnmarked`, `NoReset`, ...) are plausible
mistakes: put in place of the definition named in `PROJECT.json`, each makes TLC
find the property violated. No behaviour of a `Spec` uses them.
