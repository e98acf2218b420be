----------------------------- MODULE Ownership -----------------------------
(***************************************************************************)
(* Who owns the memory of the API's structs: the completion-queue thread   *)
(* (CQ), which converts what the service sends, ClientManager's            *)
(* connected_devices_, one DataManager with its storages, and the          *)
(* application, which holds answers, copies and events and destroys them.  *)
(* The library passes memory on by moving raw pointers out of unique_ptrs  *)
(* and by deep copies; nothing but that discipline keeps a block from      *)
(* being deleted twice or never.                                           *)
(*                                                                         *)
(* at says what is at every place that can hold a struct, heap which       *)
(* blocks are allocated.  An action is what a thread does to memory under  *)
(* one lock.  What a conversion or a copy allocates and deletes again      *)
(* before it returns is left out, and so are the two arrays of slots,      *)
(* which live as long as their storage.                                    *)
(***************************************************************************)
EXTENDS ApiTypes, FiniteSets

CONSTANTS Devices,     \* devices the service may report
          Slots,       \* slots of both packet buffers of a storage
          Handles,     \* variables of the application
          Counts,      \* bound: elements in an array of structs
          Generations  \* bound: allocations one place makes that are not deleted

VARIABLES
    at,          \* the object at every place
    heap,        \* the blocks that are allocated
    streamType,  \* stream_type_ of the manager
    cq           \* what CQ is doing, with which device and event_ptr's connected

vars == <<at, heap, streamType, cq>>

Event == <<"event_ptr">>                \* in DeviceEventProcessor
Packet == <<"cb_packet">>               \* in UpdateDeviceData and UpdateDataFrame
Request == <<"request_">>               \* of the manager
Connected(d) == <<"connected_devices_", d>>
Device(d) == <<"device_", d>>           \* of the storage of d
Slot(d, s) == <<"packet_buffer", d, s>>
LibraryPlaces ==
    {Event, Packet, Request} \cup {Connected(d) : d \in Devices}
        \cup {Device(d) : d \in Devices} \cup {Slot(d, s) : d \in Devices, s \in Slots}
Places == LibraryPlaces \cup Handles

\* The application's variables are its own.
ASSUME OwnershipAssumption ==
    /\ Counts \subseteq Nat /\ 0 \in Counts
    /\ IsFiniteSet(Devices) /\ IsFiniteSet(Slots)
    /\ Handles \cap LibraryPlaces = {}

Nothing == [type |-> "none", n |-> 0, ptrs |-> {}]
EmptyPacket == [type |-> "DevicePacket", n |-> 0, ptrs |-> {}]
Idle == [pc |-> "idle"]

TypeOK ==
    /\ \A p \in Places :
           at[p] = Nothing \/
           /\ at[p].type \in DOMAIN Struct /\ at[p].n \in Nat
           /\ {b[3] : b \in at[p].ptrs} \subseteq Members(at[p].type, at[p].n) \cup {Shell}
    /\ \A b \in heap : b[1] \in Places \X Generations /\ b[2] \in DOMAIN Struct
    /\ streamType \in {"kDeviceData", "kDataFrame"}
    /\ cq.pc \in {"idle", "managers", "callback", "packet"}

Init ==
    /\ at = [p \in Places |-> Nothing] /\ heap = {}
    /\ streamType = "kDeviceData"
    /\ cq = Idle

-----------------------------------------------------------------------------
Unused(p) == {k \in Generations : \A b \in heap : b[1] # <<p, k>>}
Id(p) == <<p, CHOOSE k \in Generations : k \in Unused(p) \/ Unused(p) = {}>>

HasStorage(d) == at[Device(d)] # Nothing
HasManager == at[Request] # Nothing
Destroyed(o) == IF o = Nothing THEN {} ELSE Deleted(o)

\* DeviceDataStorage: device_ is a copy of the descriptor, and every packet is empty.
Storage(d) == {Device(d)} \cup {Slot(d, s) : s \in Slots}
AddDeviceStorage(d, descriptor) ==
    [p \in Storage(d) |->
        IF p = Device(d) THEN Copy(Id(p), [descriptor EXCEPT !.type = "DeviceDescriptor"])
        ELSE EmptyPacket]

\* ~DeviceDataStorage: device_ is a unique_ptr, the packets are destroyed one by one.
RemoveDeviceStorage(d) == [p \in Storage(d) |-> Nothing]
StorageDeleted(d) ==
    Destroyed(at[Device(d)]) \cup UNION {MembersDeleted(at[Slot(d, s)]) : s \in Slots}

\* PushData: what the slot holds is destroyed, and a converted packet moved in.
PushDeletesNothing(d, s) == {}   \* slip: the packet is written over it
PushDeletes(d, s) == MembersDeleted(at[Slot(d, s)])
PushData(d, s) ==
    [Moved(ProtoToTrackingDeviceData(Id(Slot(d, s)))) EXCEPT !.type = "DevicePacket"]

At(p, o) == [q \in {p} |-> o]
Becomes(new) == at' = new ++ at

\* What is at some places now, all of it newly allocated, and which blocks are deleted.
Put(new, deleted) ==
    /\ \A p \in DOMAIN new : new[p] = Nothing \/ Unused(p) # {}
    /\ Becomes(new)
    /\ heap' = (heap \ deleted) \cup UNION {new[p].ptrs : p \in DOMAIN new}
Union(fs) == [p \in UNION {DOMAIN f : f \in fs} |-> (CHOOSE f \in fs : p \in DOMAIN f)[p]]

-----------------------------------------------------------------------------
(* The completion-queue thread.                                            *)

\* DeviceEventProcessor: the event is converted, and with connected_devices_mtx_ held its
\* device is converted again for connected_devices_, or erased from it.
EventArrives(d, conn) ==
    LET new == At(Event, ProtoToTrackingDeviceEvent(Id(Event))) ++
               At(Connected(d), IF conn THEN ProtoToDeviceDescriptor(Id(Connected(d)))
                                ELSE Nothing)
    IN  /\ cq = Idle /\ Put(new, Destroyed(at[Connected(d)]))
        /\ cq' = [pc |-> "managers", dev |-> d, conn |-> conn]
        /\ UNCHANGED streamType

\* OpenDeviceDataStream and OpenDataFrame: a storage for every connected device that was
\* requested and has none.  Which devices were is left open.
OpenStorages ==
    {Union({AddDeviceStorage(d, at[Connected(d)]) : d \in ds}) :
        ds \in SUBSET {d \in Devices : at[Connected(d)] # Nothing /\ ~HasStorage(d)}}

\* The manager is updated, under the list's mutex: a device that went loses its storage, one
\* that came gets one, from the event or, for data frames, with all that are connected.  The
\* first disjunct is for a device that the manager did not request.
EventManagers ==
    /\ cq.pc = "managers"
    /\ \/ UNCHANGED <<at, heap>>
       \/ /\ HasManager /\ streamType = "kDeviceData" /\ cq.conn /\ ~HasStorage(cq.dev)
          /\ Put(AddDeviceStorage(cq.dev, at[Event]), {})
       \/ /\ HasManager /\ streamType = "kDeviceData" /\ ~cq.conn
          /\ Put(RemoveDeviceStorage(cq.dev), StorageDeleted(cq.dev))
       \/ /\ HasManager /\ streamType = "kDataFrame" /\ cq.conn
          /\ \E new \in OpenStorages : Put(new, {})
       \/ /\ HasManager /\ streamType = "kDataFrame" /\ ~cq.conn
          /\ \E new \in OpenStorages :
                 Put(RemoveDeviceStorage(cq.dev) ++ new, StorageDeleted(cq.dev))
    /\ cq' = [cq EXCEPT !.pc = "callback"]
    /\ UNCHANGED streamType

\* The user's callback has returned, and event_ptr goes out of scope.
EventDone ==
    /\ cq.pc = "callback"
    /\ Becomes(At(Event, Nothing)) /\ heap' = heap \ Destroyed(at[Event])
    /\ cq' = Idle
    /\ UNCHANGED streamType

\* The packets of ds go into slot s of their storages, and a callback gets one of its own.
Update(ds, s, packet) ==
    LET pushed == {d \in ds : HasStorage(d)}
        new == At(Packet, packet) ++ Union({At(Slot(d, s), PushData(d, s)) : d \in pushed})
    IN  /\ cq = Idle /\ HasManager /\ Put(new, UNION {PushDeletes(d, s) : d \in pushed})
        /\ cq' = [pc |-> "packet"]
        /\ UNCHANGED streamType

UpdateDeviceData(d, s, callback) ==
    /\ streamType = "kDeviceData"
    /\ Update({d}, s, IF callback THEN ProtoToTrackingDeviceData(Id(Packet)) ELSE Nothing)

UpdateDataFrame(ds, s, callback) ==
    /\ streamType = "kDataFrame"
    /\ Update(ds, s, IF callback THEN ProtoToDataFrame(Id(Packet), Cardinality(ds)) ELSE Nothing)

\* The callback has returned, and cb_packet goes out of scope.
UpdateDone ==
    /\ cq.pc = "packet"
    /\ Becomes(At(Packet, Nothing)) /\ heap' = heap \ Destroyed(at[Packet])
    /\ cq' = Idle
    /\ UNCHANGED streamType

\* The channel monitor: every device is considered disconnected.
ChannelLost ==
    /\ Becomes([p \in {Connected(d) : d \in Devices} |-> Nothing])
    /\ heap' = heap \ UNION {Destroyed(at[Connected(d)]) : d \in Devices}
    /\ UNCHANGED <<streamType, cq>>

-----------------------------------------------------------------------------
(* The application.                                                        *)

Give(h, object) ==
    /\ at[h] = Nothing /\ Put(At(h, object), {})
    /\ UNCHANGED <<streamType, cq>>

\* RequestDeviceData and RequestDataFrame: the constructor moves a copy of the request in.
MakeManager(h, type) ==
    LET copy == Copy(Id(Request), at[h])
    IN  /\ ~HasManager /\ at[h].type = "DataRequest" /\ Unused(Request) # {}
        /\ Becomes(At(Request, Moved(copy))) /\ heap' = (heap \cup copy.ptrs) \ MoveDeletes(copy)
        /\ streamType' = type
        /\ UNCHANGED cq

\* Once the manager is in the list: the storages of the devices that are connected.
Open ==
    /\ HasManager /\ \E new \in OpenStorages : Put(new, {})
    /\ UNCHANGED <<streamType, cq>>

\* The last reference goes: ~DataManager deletes the storages, and request_ is forgotten with
\* its requested_devices.  A callback that still runs is left out.
DestroyManager ==
    /\ HasManager /\ cq.pc # "packet"
    /\ Becomes(Union({RemoveDeviceStorage(d) : d \in Devices} \cup {At(Request, Nothing)}))
    /\ heap' = heap \ UNION {StorageDeleted(d) : d \in Devices}
    /\ UNCHANGED <<streamType, cq>>

\* A query copies packets out of the storage of d.
GetData(h, d, n) ==
    /\ HasStorage(d) /\ n <= Cardinality({s \in Slots : at[Slot(d, s)].ptrs # {}})
    /\ Give(h, New(Id(h), "DataResponse", n))

\* The answers of the other queries, wireless events, and what the application makes itself.
Receive(h, n) ==
    \E object \in {ProtoToTrackingDevices(Id(h), n), ProtoToHardwareStates(Id(h), n),
                   ProtoToWirelessManagementEvent(Id(h), n), ProtoToTrackingGroupEvent(Id(h), n),
                   New(Id(h), "TrackingGroup", n), New(Id(h), "BaseStationDataResponse", n),
                   New(Id(h), "DeviceIDList", 0), New(Id(h), "DataRequest", n)} :
        Give(h, object)

\* A copy of another object of its own, or of what a callback lends.
CopyTo(h, p) == at[p].type \in Copyable /\ Give(h, Copy(Id(h), at[p]))
CopyDevice(h) ==
    /\ cq.pc = "callback"
    /\ Give(h, Copy(Id(h), [at[Event] EXCEPT !.type = "DeviceDescriptor"]))

\* The application moves a struct out of the pointer it got.
Move(h) ==
    /\ at[h].type \in HasDestroyMembers /\ MoveDeletes(at[h]) # {}
    /\ Becomes(At(h, Moved(at[h]))) /\ heap' = heap \ MoveDeletes(at[h])
    /\ UNCHANGED <<streamType, cq>>

\* Such a struct has given up what it owned.
GivenUp(o) == MoveDeletes(o) = {} /\ o.type \in HasDestroyMembers /\ o = WithoutMembers(o)

\* Destroy...Members, of a struct that was moved.  Twice is safe but for a wireless event.
DestroyMembers(h) ==
    /\ at[h].type \in HasDestroyMembers /\ MoveDeletes(at[h]) = {} /\ ~GivenUp(at[h])
    /\ Becomes(At(h, WithoutMembers(at[h]))) /\ heap' = heap \ MembersDeleted(at[h])
    /\ UNCHANGED <<streamType, cq>>

\* Destroy... of a pointer; a struct whose members are destroyed goes out of scope.
Destroy(h) ==
    /\ MoveDeletes(at[h]) # {} \/ GivenUp(at[h])
    /\ Becomes(At(h, Nothing))
    /\ heap' = IF GivenUp(at[h]) THEN heap ELSE heap \ Deleted(at[h])
    /\ UNCHANGED <<streamType, cq>>

-----------------------------------------------------------------------------
CqStep ==
    \/ \E d \in Devices, conn \in BOOLEAN : EventArrives(d, conn)
    \/ EventManagers \/ EventDone
    \/ \E d \in Devices, s \in Slots, callback \in BOOLEAN : UpdateDeviceData(d, s, callback)
    \/ \E ds \in SUBSET Devices, s \in Slots, callback \in BOOLEAN :
           UpdateDataFrame(ds, s, callback)
    \/ UpdateDone

ApplicationStep ==
    \E h \in Handles :
        \/ \E type \in {"kDeviceData", "kDataFrame"} : MakeManager(h, type)
        \/ \E d \in Devices, n \in Counts : GetData(h, d, n)
        \/ \E n \in Counts : Receive(h, n)
        \/ \E p \in Handles \cup {Packet} : CopyTo(h, p)
        \/ CopyDevice(h) \/ Move(h) \/ DestroyMembers(h) \/ Destroy(h)

Next == CqStep \/ ChannelLost \/ ApplicationStep \/ Open \/ DestroyManager

Spec == Init /\ [][Next]_vars

-----------------------------------------------------------------------------
(* Properties.                                                             *)

Owned(p) == IF GivenUp(at[p]) THEN {} ELSE at[p].ptrs

\* "Dereference to copy and release the pointer so ... now owns the memory"
\* (protobuf_converters.cpp:93): whatever events, packets, queries and copies have passed it
\* on, a block is owned at one place only and is still allocated, so that no owner reads or
\* deletes what another has deleted.
OneOwner ==
    /\ \A p \in Places : Owned(p) \subseteq heap
    /\ \A p, q \in Places : p = q \/ Owned(p) \cap Owned(q) = {}

\* The two leaks of the code: the members of the descriptors of a tracking group destroyed
\* through DestroyTrackingGroupMembers, and the requested_devices of a manager.
KnownLeak(b) ==
    \/ b[2] \in {"TrackingGroup", "TrackingGroupEvent"} /\ Len(b[3]) = 3
    \/ b[1][1] = Request

\* "api UPtr type to be automaitcally destroyed" (data_manager.cpp:135), "Important to delete
\* previously allocated packets" (device_data_storage.cpp:74): nothing else is ever lost.
NothingLost == \A b \in heap : KnownLeak(b) \/ \E p \in Places : b \in Owned(p)
=============================================================================
