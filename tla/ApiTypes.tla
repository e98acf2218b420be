------------------------------ MODULE ApiTypes ------------------------------
(***************************************************************************)
(* The structs of the API that point to memory of their own, and the       *)
(* functions that make, copy, move and destroy them.  Only the memory is   *)
(* modelled.  A block is one allocation, <<id, type, path>>: path <<>> is  *)
(* the struct itself (its shell) when it was made with new, <<f>> the      *)
(* array its field f points to, and <<f, i, g>> the array that field g of  *)
(* element i of that array points to.  An object is the struct as the      *)
(* program holds it: its type, the number n of elements it counts, and     *)
(* ptrs, the blocks its pointers lead to.                                  *)
(***************************************************************************)
EXTENDS Naturals, Sequences

\* f where it is defined and g elsewhere (the ++ of TLC, which has no definition in TLAPS).
f ++ g == [x \in DOMAIN f \cup DOMAIN g |-> IF x \in DOMAIN f THEN f[x] ELSE g[x]]

\* The pointer fields of each struct and what they point to an array of: plain data, or
\* another struct with pointers of its own.  A struct held by value lends its fields.
DeviceStructs ==
    LET Descriptor == [sensor_unit_descriptors |-> "plain", supported_fusion_modes |-> "plain"]
    IN  [DeviceDescriptor |-> Descriptor,
         TrackingDeviceEvent |-> Descriptor,
         TrackingDevices |-> [devices |-> "DeviceDescriptor"]]

HardwareStructs ==
    LET Common == [serial_number |-> "plain", usb_port_name |-> "plain"]
    IN  [CommonHardwareState |-> Common,
         BasestationHardwareState |-> Common,
         SIUHardwareState |-> Common ++ [sensor_device_states |-> "plain"],
         WirelessReceiverHardwareState |-> Common ++ [connected_sius |-> "plain"],
         HardwareStates |-> [basestation_states |-> "BasestationHardwareState",
                             siu_states |-> "SIUHardwareState",
                             wireless_receiver_states |-> "WirelessReceiverHardwareState"]]

DataStructs ==
    LET Data == [raw_sensor_data |-> "plain", poses |-> "plain", buttons |-> "plain",
                 latency_timestamps |-> "plain"]
    IN  [TrackingDeviceData |-> Data,
         DevicePacket |-> Data,
         DataFrame |-> [device_data |-> "TrackingDeviceData"],
         DataResponse |-> [packets |-> "DevicePacket"],
         DeviceIDList |-> [devices |-> "plain"],
         DataRequest |-> [requested_devices |-> "plain"]]

GroupStructs ==
    LET Group == [devices |-> "DeviceDescriptor"]
    IN  [TrackingGroup |-> Group, TrackingGroupEvent |-> Group]

EventStructs ==
    [BaseStationDataResponse |-> [packets |-> "plain"],
     DevicePairingInformation |-> [device_part_nums |-> "plain"],
     WirelessManagementEvent |-> [siu_uuids |-> "plain",
                                  device_pairing_information |-> "DevicePairingInformation"]]

Struct == DeviceStructs ++ HardwareStructs ++ DataStructs ++ GroupStructs ++ EventStructs

Shell == <<>>
Arrays(T) == {<<f>> : f \in DOMAIN Struct[T]}
Nested(T) == {f \in DOMAIN Struct[T] : Struct[T][f] # "plain"}
Elements(T, n) ==
    UNION {{<<f, i, g>> : i \in 1..n, g \in DOMAIN Struct[Struct[T][f]]} : f \in Nested(T)}
Members(T, n) == Arrays(T) \cup Elements(T, n)

\* The functions that leave the pointer null instead of allocating an empty array.
NullWhenEmpty == {"DataRequest", "DataResponse", "BaseStationDataResponse"}

\* A struct made with new, its members allocated.
New(id, T, n) ==
    LET paths == IF n = 0 /\ T \in NullWhenEmpty THEN {} ELSE Members(T, n)
    IN  [type |-> T, n |-> n, ptrs |-> {<<id, T, p>> : p \in paths \cup {Shell}}]

-----------------------------------------------------------------------------
(* protobuf_converters: each allocates every array of what it returns.     *)

ProtoToDeviceDescriptor(id) == New(id, "DeviceDescriptor", 0)
ProtoToTrackingDeviceEvent(id) == New(id, "TrackingDeviceEvent", 0)
ProtoToTrackingDevices(id, n) == New(id, "TrackingDevices", n)
ProtoToHardwareStates(id, n) == New(id, "HardwareStates", n)
ProtoToTrackingDeviceData(id) == New(id, "TrackingDeviceData", 0)
ProtoToDataFrame(id, n) == New(id, "DataFrame", n)
ProtoToTrackingGroupEvent(id, n) == New(id, "TrackingGroupEvent", n)
ProtoToWirelessManagementEvent(id, n) == New(id, "WirelessManagementEvent", n)

\* "Copy functions will allocate new memory and perform a deep copy" (sdk_types.h:473).
Copyable == {"DeviceDescriptor", "DevicePacket", "TrackingDeviceData", "DataRequest",
             "TrackingGroup", "TrackingGroupEvent", "WirelessManagementEvent"}
\* Slip: the pointers are copied and not what they point to.
CopyShallow(id, source) ==
    [source EXCEPT !.ptrs = {b \in @ : b[3] # Shell} \cup {<<id, source.type, Shell>>}]
Copy(id, source) == New(id, source.type, source.n)

-----------------------------------------------------------------------------
(* Moving and destroying.  Each operator pair says what is deleted and     *)
(* what the object is afterwards.                                          *)

Pointers(o, paths) == {b \in o.ptrs : b[3] \in paths}

\* MoveUniquePtr and MoveAndDeletePtr: the members change owner, the shell is deleted.
MoveDeletes(o) == Pointers(o, {Shell})
Moved(o) == [o EXCEPT !.ptrs = @ \ MoveDeletes(o)]

\* Destroy...Members of the structs that have one.  DestroyTrackingGroupMembers deletes the
\* array of descriptors and not what these point to; DestroyWirelessManagementEventMembers
\* leaves device_pairing_information as it is.
HasDestroyMembers ==
    {"DeviceDescriptor", "CommonHardwareState", "BasestationHardwareState", "SIUHardwareState",
     "WirelessReceiverHardwareState", "TrackingDeviceData", "DevicePacket", "TrackingGroup",
     "TrackingGroupEvent", "WirelessManagementEvent"}
FreedByMembers(T, n) ==
    IF T \in {"TrackingGroup", "TrackingGroupEvent"} THEN Arrays(T) ELSE Members(T, n)
Kept(T) ==
    {Shell} \cup IF T = "WirelessManagementEvent" THEN {<<"device_pairing_information">>} ELSE {}

MembersDeleted(o) == Pointers(o, FreedByMembers(o.type, o.n))
\* Slip: the pointers are not set to null.
WithoutMembersDangling(o) == [o EXCEPT !.n = 0]
WithoutMembers(o) == [type |-> o.type, n |-> 0, ptrs |-> Pointers(o, Kept(o.type))]

\* Destroy... of an object made with new: DestroyTrackingGroupEvent goes through the function
\* above, DestroyTrackingGroup and DestroyWirelessManagementEvent do not.
FreedByDestroy(T, n) ==
    IF T = "TrackingGroupEvent" THEN FreedByMembers(T, n) ELSE Members(T, n)
Deleted(o) == Pointers(o, FreedByDestroy(o.type, o.n) \cup {Shell})
=============================================================================
