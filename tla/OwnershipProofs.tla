-------------------------- MODULE OwnershipProofs --------------------------
(***************************************************************************)
(* Theorems about Ownership, for any devices, slots, handles and sizes of  *)
(* arrays: whatever passes memory on, no block has two owners, none is     *)
(* used after its deletion and none is lost but for the known leaks.       *)
(***************************************************************************)
EXTENDS Ownership, FiniteSetTheorems, TLAPS

-----------------------------------------------------------------------------
(* The inductive invariant.                                                *)

Groups == {"TrackingGroup", "TrackingGroupEvent"}
IsObject(o) == o = [type |-> o.type, n |-> o.n, ptrs |-> o.ptrs] /\ o.n \in Nat

\* The object o, at place p, points to blocks that were allocated for p and that are what
\* its type and its number of elements say; a wireless event has its first array as long as
\* its members are not destroyed.
Fits(o, p) ==
    /\ IsObject(o)
    /\ o = Nothing \/
         /\ o.type \in DOMAIN Struct
         /\ \A b \in o.ptrs :
              /\ b[1] \in {p} \X Generations /\ b[2] \in DOMAIN Struct
              /\ b[3] \in Members(o.type, o.n) \cup {Shell}
              /\ o.type \in Groups => b[2] = o.type
         /\ o.type = "WirelessManagementEvent" /\ ~GivenUp(o) =>
              \E b \in o.ptrs : b[3] = <<"siu_uuids">>

\* OneOwner and NothingLost, with what they rest on.
MemoryOK ==
    /\ DOMAIN at = Places
    /\ \A p \in Places : Fits(at[p], p)
    /\ \A b \in heap : b[1] \in Places \X Generations /\ b[2] \in DOMAIN Struct
    /\ \A p \in Places : Owned(p) \subseteq heap
    /\ NothingLost

\* Only while the CQ thread is there do event_ptr and cb_packet hold something, and a device
\* that went is in connected_devices_ no more; where there is no storage there are no packets;
\* the packets in a storage are held by value.
Handling == {"managers", "callback"}
CqOK ==
    /\ \/ cq = Idle
       \/ cq \in [pc : Handling, dev : Devices, conn : BOOLEAN]
       \/ cq = [pc |-> "packet"]
    /\ cq.pc \notin Handling => at[Event] = Nothing
    /\ cq.pc # "packet" => at[Packet] = Nothing
    /\ cq.pc = "managers" /\ ~cq.conn => at[Connected(cq.dev)] = Nothing
    /\ streamType \in {"kDeviceData", "kDataFrame"}
StoragesOK ==
    \A d \in Devices, s \in Slots :
        /\ MoveDeletes(at[Slot(d, s)]) = {}
        /\ ~HasStorage(d) => at[Slot(d, s)] = Nothing

IInv == MemoryOK /\ CqOK /\ StoragesOK

-----------------------------------------------------------------------------
(* The structs of the API.                                                 *)

\* Struct describes the types that are made somewhere, and a packet as what it is made from.
LEMMA StructFacts ==
    /\ {"DeviceDescriptor", "TrackingDeviceEvent", "TrackingDevices", "HardwareStates",
        "TrackingDeviceData", "DevicePacket", "DataFrame", "DataResponse", "DeviceIDList",
        "DataRequest", "TrackingGroup", "TrackingGroupEvent", "BaseStationDataResponse",
        "WirelessManagementEvent"} \subseteq DOMAIN Struct
    /\ "none" \notin DOMAIN Struct
    /\ Struct["DevicePacket"] = Struct["TrackingDeviceData"]
    /\ "siu_uuids" \in DOMAIN Struct["WirelessManagementEvent"]
<1>1. DOMAIN DeviceStructs = {"DeviceDescriptor", "TrackingDeviceEvent", "TrackingDevices"}
  BY DEF DeviceStructs
<1>2. DOMAIN HardwareStructs = {"CommonHardwareState", "BasestationHardwareState",
        "SIUHardwareState", "WirelessReceiverHardwareState", "HardwareStates"}
  BY DEF HardwareStructs
<1>3. /\ DOMAIN DataStructs = {"TrackingDeviceData", "DevicePacket", "DataFrame", "DataResponse",
                               "DeviceIDList", "DataRequest"}
      /\ DataStructs["DevicePacket"] = DataStructs["TrackingDeviceData"]
  BY DEF DataStructs
<1>4. DOMAIN GroupStructs = {"TrackingGroup", "TrackingGroupEvent"}
  BY DEF GroupStructs
<1>5. /\ DOMAIN EventStructs = {"BaseStationDataResponse", "DevicePairingInformation",
                                "WirelessManagementEvent"}
      /\ "siu_uuids" \in DOMAIN EventStructs["WirelessManagementEvent"]
  BY DEF EventStructs
<1>6. DOMAIN Struct = DOMAIN DeviceStructs \cup DOMAIN HardwareStructs \cup DOMAIN DataStructs
                        \cup DOMAIN GroupStructs \cup DOMAIN EventStructs
  BY DEF Struct, ++
<1>7. /\ Struct["DevicePacket"] = DataStructs["DevicePacket"]
      /\ Struct["TrackingDeviceData"] = DataStructs["TrackingDeviceData"]
  BY <1>1, <1>2, <1>3, <1>4, <1>5 DEF Struct, ++
<1>8. Struct["WirelessManagementEvent"] = EventStructs["WirelessManagementEvent"]
  BY <1>1, <1>2, <1>3, <1>4, <1>5 DEF Struct, ++
<1>9. QED
  BY <1>1, <1>2, <1>3, <1>4, <1>5, <1>6, <1>7, <1>8

\* The path of an array of a struct is one step, that of an array of an element three, and
\* the struct itself is none of its members.
LEMMA PathFacts ==
    ASSUME NEW T, NEW n
    PROVE  /\ Shell \notin Members(T, n)
           /\ \A q \in Members(T, n) : q \in Arrays(T) \/ Len(q) = 3
           /\ \A f : <<f>> \in Members(T, n) => <<f>> \in Arrays(T)
           /\ Arrays(T) \subseteq Members(T, n)
<1>1. \A q \in Elements(T, n) : \E f, i, g : q = <<f, i, g>>
  BY DEF Elements
<1>2. \A q \in Arrays(T) : \E f : q = <<f>>
  BY DEF Arrays
<1>3. QED
  BY <1>1, <1>2 DEF Members, Shell

-----------------------------------------------------------------------------
(* What is made, moved and destroyed.                                      *)

\* What an operation puts at a place: it fits there, and if it counts as given up it points
\* to nothing.
Made(o, p) == Fits(o, p) /\ (GivenUp(o) => o.ptrs = {})

\* Nothing is put where a pointer is reset or a place is left empty.
LEMMA NothingMade ==
    ASSUME NEW p
    PROVE  Made(Nothing, p) /\ ~GivenUp(Nothing) /\ MoveDeletes(Nothing) = {}
  BY DEF Made, Fits, IsObject, Nothing, GivenUp, HasDestroyMembers, MoveDeletes, Pointers

\* An empty packet points to nothing.
LEMMA EmptyMade ==
    ASSUME NEW p
    PROVE  Made(EmptyPacket, p) /\ MoveDeletes(EmptyPacket) = {}
<1>1. EmptyPacket.type \in DOMAIN Struct
  BY StructFacts DEF EmptyPacket
<1>2. QED
  BY <1>1 DEF Made, Fits, IsObject, EmptyPacket, MoveDeletes, Pointers, Groups

\* The identity of a new block is one of the place.
LEMMA IdOf ==
    ASSUME NEW p, Unused(p) # {}
    PROVE  Id(p) \in {p} \X Generations
  BY DEF Id, Unused

\* A struct made with new has a shell and all its arrays.
LEMMA NewMade ==
    ASSUME NEW p, Unused(p) # {}, NEW T \in DOMAIN Struct, NEW n \in Nat
    PROVE  /\ Made(New(Id(p), T, n), p) /\ New(Id(p), T, n) # Nothing
           /\ MoveDeletes(New(Id(p), T, n)) # {}
           /\ New(Id(p), T, n).type = T
<1> DEFINE o == New(Id(p), T, n)
<1>1. /\ o = [type |-> T, n |-> n, ptrs |-> o.ptrs]
      /\ \A b \in o.ptrs : b[1] = Id(p) /\ b[2] = T /\ b[3] \in Members(T, n) \cup {Shell}
      /\ <<Id(p), T, Shell>> \in o.ptrs
  BY DEF New
<1>2. T # "none"
  BY StructFacts
<1>3. MoveDeletes(o) # {}
  BY <1>1 DEF MoveDeletes, Pointers
<1>4. T = "WirelessManagementEvent" => \E b \in o.ptrs : b[3] = <<"siu_uuids">>
  <2> SUFFICES ASSUME T = "WirelessManagementEvent"
               PROVE  \E b \in o.ptrs : b[3] = <<"siu_uuids">>
    OBVIOUS
  <2>1. <<"siu_uuids">> \in Members(T, n)
    BY StructFacts DEF Members, Arrays
  <2>2. T \notin NullWhenEmpty
    BY DEF NullWhenEmpty
  <2>3. <<Id(p), T, <<"siu_uuids">>>> \in o.ptrs
    BY <2>1, <2>2 DEF New
  <2>4. QED
    BY <2>3
<1>5. Fits(o, p)
  BY <1>1, <1>4, IdOf DEF Fits, IsObject
<1>6. QED
  BY <1>1, <1>2, <1>3, <1>5 DEF Made, GivenUp, Nothing

\* A block deleted with an object is one it points to.
LEMMA DeletedOwn ==
    ASSUME NEW o, NEW p, Fits(o, p)
    PROVE  Destroyed(o) \subseteq o.ptrs /\ MembersDeleted(o) \subseteq o.ptrs
  BY DEF Destroyed, Deleted, MembersDeleted, Pointers

\* Only the arrays inside a tracking group survive Destroy... and Destroy...Members.
LEMMA DeletedAll ==
    ASSUME NEW o, NEW p, Fits(o, p), NEW b \in o.ptrs
    PROVE  /\ b \in Destroyed(o) \/ KnownLeak(b)
           /\ b \in MembersDeleted(o) \/ KnownLeak(b) \/ MoveDeletes(o) # {}
<1>n. o # Nothing
  BY DEF Nothing
<1>1. b[3] \in Members(o.type, o.n) \cup {Shell} /\ (o.type \in Groups => b[2] = o.type)
  BY <1>n DEF Fits
<1>2. o.type \in Groups /\ b[3] \in Members(o.type, o.n) => b[3] \in Arrays(o.type) \/ KnownLeak(b)
  BY <1>1, PathFacts DEF KnownLeak, Groups
<1>3. b[3] = Shell => b \in MoveDeletes(o)
  BY DEF MoveDeletes, Pointers
<1>4. b \in Destroyed(o) \/ KnownLeak(b)
  BY <1>n, <1>1, <1>2 DEF Destroyed, Deleted, Pointers, FreedByDestroy, FreedByMembers, Groups
<1>5. b \in MembersDeleted(o) \/ KnownLeak(b) \/ MoveDeletes(o) # {}
  BY <1>1, <1>2, <1>3 DEF MembersDeleted, Pointers, FreedByMembers, Groups
<1>6. QED
  BY <1>4, <1>5

\* A struct moved out of its pointer keeps what it owns but for the shell.
LEMMA MovedMade ==
    ASSUME NEW o, NEW p, Fits(o, p), MoveDeletes(o) # {}
    PROVE  /\ Made(Moved(o), p) /\ MoveDeletes(Moved(o)) = {}
           /\ Moved(o).ptrs = o.ptrs \ MoveDeletes(o)
           /\ Moved(o).type = o.type /\ Moved(o).n = o.n
<1> DEFINE v == Moved(o)
<1>n. o # Nothing
  BY DEF Nothing, MoveDeletes, Pointers
<1>1. v = [type |-> o.type, n |-> o.n, ptrs |-> o.ptrs \ MoveDeletes(o)]
  BY DEF Moved, Fits, IsObject
<1>2. \A b \in v.ptrs : b \in o.ptrs /\ b[3] # Shell
  BY <1>1 DEF MoveDeletes, Pointers
<1>3. MoveDeletes(v) = {}
  BY <1>2 DEF MoveDeletes, Pointers
<1>4. o.type = "WirelessManagementEvent" => \E b \in v.ptrs : b[3] = <<"siu_uuids">>
  <2> SUFFICES ASSUME o.type = "WirelessManagementEvent"
               PROVE  \E b \in v.ptrs : b[3] = <<"siu_uuids">>
    OBVIOUS
  <2>1. ~GivenUp(o)
    BY DEF GivenUp
  <2>2. PICK b \in o.ptrs : b[3] = <<"siu_uuids">>
    BY <1>n, <2>1 DEF Fits
  <2>3. b[3] # Shell
    BY <2>2 DEF Shell
  <2>4. QED
    BY <1>1, <2>2, <2>3 DEF MoveDeletes, Pointers
<1>5. Fits(v, p)
  BY <1>n, <1>1, <1>2, <1>4 DEF Fits, IsObject
<1>6. ASSUME GivenUp(v), NEW b \in v.ptrs
      PROVE  FALSE
  <2>1. v.ptrs = Pointers(v, Kept(o.type))
    <3>1. v = WithoutMembers(v)
      BY <1>6 DEF GivenUp
    <3>2. WithoutMembers(v).ptrs = Pointers(v, Kept(v.type))
      BY <1>1 DEF WithoutMembers
    <3>3. QED
      BY <1>1, <3>1, <3>2
  <2>2. \A c \in v.ptrs : c[3] \in Kept(o.type)
    BY <2>1 DEF Pointers
  <2>3. CASE o.type = "WirelessManagementEvent"
    <3>1. PICK c \in v.ptrs : c[3] = <<"siu_uuids">>
      BY <1>4, <2>3
    <3>2. <<"siu_uuids">> # <<"device_pairing_information">> /\ <<"siu_uuids">> # Shell
      BY DEF Shell
    <3>3. QED
      BY <2>2, <2>3, <3>1, <3>2 DEF Kept
  <2>4. CASE o.type # "WirelessManagementEvent"
    BY <1>2, <1>6, <2>2, <2>4 DEF Kept
  <2>5. QED
    BY <2>3, <2>4
<1>7. QED
  BY <1>1, <1>3, <1>5, <1>6 DEF Made

\* After Destroy...Members, a struct counts as given up.
LEMMA WithoutFits ==
    ASSUME NEW o, NEW p, Fits(o, p), MoveDeletes(o) = {}, o.type \in HasDestroyMembers
    PROVE  Fits(WithoutMembers(o), p) /\ GivenUp(WithoutMembers(o))
<1> DEFINE w == WithoutMembers(o)
<1>n. o # Nothing
  BY DEF Nothing, HasDestroyMembers
<1>1. w = [type |-> o.type, n |-> 0, ptrs |-> Pointers(o, Kept(o.type))]
  BY DEF WithoutMembers
<1>2. MoveDeletes(w) = {}
  BY <1>1 DEF MoveDeletes, Pointers
<1>3. GivenUp(w)
  <2>1. Pointers(w, Kept(w.type)) = w.ptrs
    BY <1>1 DEF Pointers
  <2>2. WithoutMembers(w) = w
    BY <1>1, <2>1 DEF WithoutMembers
  <2>3. QED
    BY <1>1, <1>2, <2>2 DEF GivenUp
<1>4. ASSUME NEW b \in w.ptrs
      PROVE  b \in o.ptrs /\ b[3] \in Members(o.type, 0) \cup {Shell}
  <2>1. b \in o.ptrs /\ b[3] \in Kept(o.type)
    BY <1>1, <1>4 DEF Pointers
  <2>2. b[3] \in Members(o.type, o.n) \cup {Shell}
    BY <1>n, <2>1 DEF Fits
  <2>3. b[3] = Shell \/ \E f : b[3] = <<f>>
    BY <2>1 DEF Kept
  <2>4. QED
    BY <2>1, <2>2, <2>3, PathFacts
<1>5. Fits(w, p)
  BY <1>n, <1>1, <1>3, <1>4 DEF Fits, IsObject
<1>6. QED
  BY <1>3, <1>5

-----------------------------------------------------------------------------
(* Places.                                                                 *)

\* The places are distinct, and those of the application are none of the library's.
LEMMA PlaceFacts ==
    /\ {Event, Packet, Request} \subseteq LibraryPlaces
    /\ Event # Packet /\ Event # Request /\ Packet # Request
    /\ \A d \in Devices : /\ {Connected(d), Device(d)} \subseteq LibraryPlaces
                          /\ {Event, Packet, Request} \cap {Connected(d), Device(d)} = {}
    /\ \A d, e \in Devices : Connected(d) # Device(e) /\ (Device(d) = Device(e) => d = e)
    /\ \A d \in Devices, s \in Slots :
         /\ Slot(d, s) \in LibraryPlaces
         /\ Slot(d, s) \notin {Event, Packet, Request}
         /\ \A e \in Devices : Slot(d, s) # Connected(e) /\ Slot(d, s) # Device(e)
         /\ \A e \in Devices, t \in Slots : Slot(d, s) = Slot(e, t) => d = e /\ s = t
    /\ \A h \in Handles : h \in Places /\ h \notin LibraryPlaces
    /\ LibraryPlaces \subseteq Places
<1>1. {Event, Packet, Request} \subseteq LibraryPlaces
  BY DEF LibraryPlaces
<1>2. Event # Packet /\ Event # Request /\ Packet # Request
  BY DEF Event, Packet, Request
<1>3. \A d \in Devices : /\ {Connected(d), Device(d)} \subseteq LibraryPlaces
                         /\ {Event, Packet, Request} \cap {Connected(d), Device(d)} = {}
  <2>1. \A d \in Devices : Connected(d) \in LibraryPlaces /\ Device(d) \in LibraryPlaces
    BY DEF LibraryPlaces
  <2>2. \A d \in Devices : {Event, Packet, Request} \cap {Connected(d), Device(d)} = {}
    BY DEF Event, Packet, Request, Connected, Device
  <2>3. QED
    BY <2>1, <2>2
<1>4. \A d, e \in Devices : Connected(d) # Device(e) /\ (Device(d) = Device(e) => d = e)
  BY DEF Connected, Device
<1>5. ASSUME NEW d \in Devices, NEW s \in Slots
      PROVE  /\ Slot(d, s) \in LibraryPlaces
             /\ Slot(d, s) \notin {Event, Packet, Request}
             /\ \A e \in Devices : Slot(d, s) # Connected(e) /\ Slot(d, s) # Device(e)
             /\ \A e \in Devices, t \in Slots : Slot(d, s) = Slot(e, t) => d = e /\ s = t
  <2>1. Slot(d, s) \in LibraryPlaces
    BY DEF LibraryPlaces
  <2>2. Slot(d, s) \notin {Event, Packet, Request}
    BY DEF Slot, Event, Packet, Request
  <2>3. \A e \in Devices : Slot(d, s) # Connected(e) /\ Slot(d, s) # Device(e)
    BY DEF Slot, Connected, Device
  <2>4. \A e \in Devices, t \in Slots : Slot(d, s) = Slot(e, t) => d = e /\ s = t
    BY DEF Slot
  <2>5. QED
    BY <2>1, <2>2, <2>3, <2>4
<1>6. (\A h \in Handles : h \in Places /\ h \notin LibraryPlaces) /\ LibraryPlaces \subseteq Places
  BY OwnershipAssumption DEF Places
<1>7. QED
  BY <1>1, <1>2, <1>3, <1>4, <1>5, <1>6

\* Two functions joined: the left one counts where both are defined.
LEMMA JoinFacts ==
    ASSUME NEW f, NEW g
    PROVE  /\ DOMAIN (f ++ g) = DOMAIN f \cup DOMAIN g
           /\ \A x \in DOMAIN f : (f ++ g)[x] = f[x]
           /\ \A x \in DOMAIN g \ DOMAIN f : (f ++ g)[x] = g[x]
  BY DEF ++

\* One place.
LEMMA AtFacts ==
    ASSUME NEW p, NEW o
    PROVE  DOMAIN At(p, o) = {p} /\ At(p, o)[p] = o
  BY DEF At

\* The union of functions has the value of one of them wherever one is defined.
LEMMA UnionFacts ==
    ASSUME NEW fs
    PROVE  /\ DOMAIN Union(fs) = UNION {DOMAIN f : f \in fs}
           /\ \A p \in DOMAIN Union(fs) :
                \E f \in fs : p \in DOMAIN f /\ Union(fs)[p] = f[p]
<1>1. DOMAIN Union(fs) = UNION {DOMAIN f : f \in fs}
  BY DEF Union
<1>2. ASSUME NEW p \in DOMAIN Union(fs)
      PROVE  \E f \in fs : p \in DOMAIN f /\ Union(fs)[p] = f[p]
  <2>1. \E f \in fs : p \in DOMAIN f
    BY <1>1, <1>2
  <2>2. (CHOOSE f \in fs : p \in DOMAIN f) \in fs /\ p \in DOMAIN (CHOOSE f \in fs : p \in DOMAIN f)
    BY <2>1
  <2>3. Union(fs)[p] = (CHOOSE f \in fs : p \in DOMAIN f)[p]
    BY <1>1 DEF Union
  <2>4. QED
    BY <2>2, <2>3
<1>3. QED
  BY <1>1, <1>2

-----------------------------------------------------------------------------
(* What every step does to memory.                                         *)

\* The objects of new replace those at its places, the blocks of gone are deleted and those
\* of made allocated: blocks that are deleted belong to those places, and what was owned
\* there is deleted, kept there or known to leak.
Replaces(new, gone, made) ==
    /\ DOMAIN new \subseteq Places
    /\ Becomes(new) /\ heap' = (heap \cup made) \ gone
    /\ \A p \in DOMAIN new : Fits(new[p], p)
    /\ \A b \in gone : \E p \in DOMAIN new : b[1] \in {p} \X Generations
    /\ \A b \in made : /\ b[1] \in Places \X Generations /\ b[2] \in DOMAIN Struct
                       /\ KnownLeak(b) \/ b \in gone
                            \/ \E p \in DOMAIN new : b \in new[p].ptrs /\ ~GivenUp(new[p])
    /\ \A p \in DOMAIN new : \A b \in new[p].ptrs : GivenUp(new[p]) \/ b \in heap'
    /\ \A p \in DOMAIN new : \A b \in at[p].ptrs :
         GivenUp(at[p]) \/ b \in gone \/ KnownLeak(b) \/ (b \in new[p].ptrs /\ ~GivenUp(new[p]))

\* What becomes of each place.
LEMMA BecomesFacts ==
    ASSUME DOMAIN at = Places, NEW new, DOMAIN new \subseteq Places, Becomes(new)
    PROVE  /\ DOMAIN at' = Places
           /\ \A p \in DOMAIN new : at'[p] = new[p]
           /\ \A p \in Places \ DOMAIN new : at'[p] = at[p]
  BY JoinFacts DEF Becomes

\* Such a step keeps one owner for each block and loses none.
LEMMA ReplaceStep ==
    ASSUME MemoryOK, NEW new, NEW gone, NEW made, Replaces(new, gone, made)
    PROVE  MemoryOK'
<1>b. /\ DOMAIN at' = Places
      /\ \A p \in DOMAIN new : at'[p] = new[p]
      /\ \A p \in Places \ DOMAIN new : at'[p] = at[p]
  BY BecomesFacts DEF MemoryOK, Replaces
<1>1. \A p \in Places : Fits(at'[p], p)
  BY <1>b DEF MemoryOK, Replaces
<1>2. \A b \in heap' : b[1] \in Places \X Generations /\ b[2] \in DOMAIN Struct
  BY DEF MemoryOK, Replaces
<1>i. \A p \in Places : \A b \in at[p].ptrs : b[1] \in {p} \X Generations
  BY DEF MemoryOK, Fits, Nothing
<1>3. ASSUME NEW p \in Places, NEW b \in at'[p].ptrs, ~GivenUp(at'[p])
      PROVE  b \in heap'
  <2>1. CASE p \in DOMAIN new
    BY <1>b, <1>3, <2>1 DEF Replaces
  <2>2. CASE p \notin DOMAIN new
    <3>1. at'[p] = at[p]
      BY <1>b, <2>2
    <3>2. b \in heap
      BY <1>3, <3>1 DEF MemoryOK, Owned
    <3>3. b \notin gone
      BY <1>i, <1>3, <2>2, <3>1 DEF Replaces
    <3>4. QED
      BY <3>2, <3>3 DEF Replaces
  <2>3. QED
    BY <2>1, <2>2
<1>4. ASSUME NEW b \in heap', ~KnownLeak(b)
      PROVE  \E p \in Places : b \in at'[p].ptrs /\ ~GivenUp(at'[p])
  <2>1. b \notin gone /\ b \in heap \cup made
    BY DEF Replaces
  <2>2. CASE b \in made
    BY <1>b, <1>4, <2>1, <2>2 DEF Replaces
  <2>3. CASE b \in heap
    <3>1. PICK p \in Places : b \in at[p].ptrs /\ ~GivenUp(at[p])
      BY <1>4, <2>3 DEF MemoryOK, NothingLost, Owned
    <3>2. p \in DOMAIN new => b \in new[p].ptrs /\ ~GivenUp(new[p])
      BY <1>4, <2>1, <3>1 DEF Replaces
    <3>3. QED
      BY <1>b, <3>1, <3>2
  <2>4. QED
    BY <2>1, <2>2, <2>3
<1>5. \A p \in Places : Owned(p)' \subseteq heap'
  BY <1>3 DEF Owned
<1>6. NothingLost'
  BY <1>4 DEF NothingLost, Owned, KnownLeak
<1>7. QED
  <2>1. \A p \in Places : Fits(at[p], p)'
    BY <1>1 DEF Fits
  <2>2. QED
    BY <1>b, <1>2, <1>5, <1>6, <2>1 DEF MemoryOK

\* Put: what is new is allocated, what it replaces deleted.
LEMMA PutStep ==
    ASSUME MemoryOK, NEW new, NEW gone, Put(new, gone), DOMAIN new \subseteq Places,
           \A p \in DOMAIN new : Made(new[p], p),
           \A b \in gone : \E p \in DOMAIN new : b[1] \in {p} \X Generations,
           \A p \in DOMAIN new : \A b \in at[p].ptrs : GivenUp(at[p]) \/ b \in gone \/ KnownLeak(b)
    PROVE  MemoryOK' /\ Becomes(new)
<1> DEFINE made == UNION {new[p].ptrs : p \in DOMAIN new}
<1> HIDE DEF made
<1>0. Becomes(new) /\ heap' = (heap \ gone) \cup made
  BY DEF Put, made
<1>1. heap' = (heap \cup made) \ (gone \ made)
  BY <1>0
<1>m. \A b \in made : \E p \in DOMAIN new : b \in new[p].ptrs
  BY DEF made
<1>i. \A p \in DOMAIN new : \A b \in new[p].ptrs :
        /\ b[1] \in {p} \X Generations /\ b[2] \in DOMAIN Struct /\ b \in made /\ ~GivenUp(new[p])
  BY DEF Made, Fits, Nothing, made
<1>j. \A p \in DOMAIN new : \A b \in at[p].ptrs : b[1] \in {p} \X Generations
  BY DEF MemoryOK, Fits, Nothing
<1>2. ASSUME NEW b \in made
      PROVE  /\ b[1] \in Places \X Generations /\ b[2] \in DOMAIN Struct
             /\ \E p \in DOMAIN new : b \in new[p].ptrs /\ ~GivenUp(new[p])
  BY <1>i, <1>m
<1>3. ASSUME NEW p \in DOMAIN new, NEW b \in at[p].ptrs, ~GivenUp(at[p]), ~KnownLeak(b),
             b \notin gone \ made
      PROVE  b \in new[p].ptrs /\ ~GivenUp(new[p])
  <2>1. b \in made
    BY <1>3
  <2>2. PICK q \in DOMAIN new : b \in new[q].ptrs
    BY <1>m, <2>1
  <2>3. p = q
    BY <1>i, <1>j, <2>2
  <2>4. QED
    BY <1>i, <2>2, <2>3
<1>4. \A p \in DOMAIN new : Fits(new[p], p) /\ \A b \in new[p].ptrs : b \in heap'
  BY <1>0, <1>i DEF Made
<1>5. Replaces(new, gone \ made, made)
  BY <1>0, <1>1, <1>2, <1>3, <1>4 DEF Replaces
<1>6. QED
  BY <1>0, <1>5, ReplaceStep

\* A storage that is added holds a copy of the descriptor and empty packets.
LEMMA AddStorage ==
    ASSUME NEW d \in Devices, NEW descriptor, IsObject(descriptor),
           \A p \in Storage(d) : AddDeviceStorage(d, descriptor)[p] = Nothing \/ Unused(p) # {}
    PROVE  /\ DOMAIN AddDeviceStorage(d, descriptor) = Storage(d)
           /\ \A p \in Storage(d) : Made(AddDeviceStorage(d, descriptor)[p], p)
           /\ AddDeviceStorage(d, descriptor)[Device(d)] # Nothing
           /\ \A s \in Slots : MoveDeletes(AddDeviceStorage(d, descriptor)[Slot(d, s)]) = {}
<1> DEFINE new == AddDeviceStorage(d, descriptor)
           o == New(Id(Device(d)), "DeviceDescriptor", descriptor.n)
<1>1. Device(d) \in Storage(d) /\ \A s \in Slots : Slot(d, s) \in Storage(d)
  BY DEF Storage
<1>2. [descriptor EXCEPT !.type = "DeviceDescriptor"].type = "DeviceDescriptor"
      /\ [descriptor EXCEPT !.type = "DeviceDescriptor"].n = descriptor.n
  BY DEF IsObject
<1>3. DOMAIN new = Storage(d) /\ new[Device(d)] = o
  BY <1>1, <1>2 DEF AddDeviceStorage, Copy
<1>4. \A p \in Storage(d) \ {Device(d)} : new[p] = EmptyPacket
  BY DEF AddDeviceStorage
<1>5. o.type = "DeviceDescriptor"
  BY DEF New
<1>6. Unused(Device(d)) # {}
  BY <1>1, <1>3, <1>5 DEF Nothing
<1>7. Made(o, Device(d)) /\ o # Nothing
  BY <1>6, NewMade, StructFacts DEF IsObject
<1>8. \A p \in Storage(d) : Made(new[p], p)
  BY <1>3, <1>4, <1>7, EmptyMade
<1>9. \A s \in Slots : MoveDeletes(new[Slot(d, s)]) = {}
  BY <1>1, <1>4, EmptyMade, PlaceFacts
<1>10. QED
  BY <1>3, <1>7, <1>8, <1>9

\* What a storage holds before it is added, and what goes with it when it is removed.
LEMMA StorageFacts ==
    ASSUME MemoryOK, StoragesOK, NEW d \in Devices
    PROVE  /\ Storage(d) \subseteq LibraryPlaces
           /\ Storage(d) \cap {Event, Packet, Request} = {}
           /\ \A e \in Devices : Connected(e) \notin Storage(d)
           /\ \A e \in Devices : e # d => Storage(d) \cap Storage(e) = {}
           /\ ~HasStorage(d) => \A p \in Storage(d) : at[p] = Nothing
           /\ \A b \in StorageDeleted(d) : \E p \in Storage(d) : b[1] \in {p} \X Generations
           /\ \A p \in Storage(d) : \A b \in at[p].ptrs : b \in StorageDeleted(d) \/ KnownLeak(b)
<1>1. \A p \in Storage(d) : p = Device(d) \/ \E s \in Slots : p = Slot(d, s)
  BY DEF Storage
<1>2. /\ Storage(d) \subseteq LibraryPlaces
      /\ Storage(d) \cap {Event, Packet, Request} = {}
      /\ \A e \in Devices : Connected(e) \notin Storage(d)
  <2>1. ASSUME NEW p \in Storage(d)
        PROVE  /\ p \in LibraryPlaces /\ p \notin {Event, Packet, Request}
               /\ \A e \in Devices : p # Connected(e)
    <3>1. CASE p = Device(d)
      BY <3>1, PlaceFacts
    <3>2. CASE \E s \in Slots : p = Slot(d, s)
      BY <3>2, PlaceFacts
    <3>3. QED
      BY <1>1, <3>1, <3>2
  <2>2. QED
    BY <2>1
<1>3. ASSUME NEW e \in Devices, e # d
      PROVE  Storage(d) \cap Storage(e) = {}
  <2>1. \A p \in Storage(e) : p = Device(e) \/ \E s \in Slots : p = Slot(e, s)
    BY DEF Storage
  <2>2. QED
    BY <1>1, <1>3, <2>1, PlaceFacts
<1>4. ~HasStorage(d) => \A p \in Storage(d) : at[p] = Nothing
  BY <1>1 DEF StoragesOK, HasStorage
<1>f. \A p \in Storage(d) : Fits(at[p], p)
  BY <1>2, PlaceFacts DEF MemoryOK
<1>i. \A p \in Storage(d) : \A b \in at[p].ptrs : b[1] \in {p} \X Generations
  BY <1>f DEF Fits, Nothing
<1>s. Device(d) \in Storage(d) /\ \A s \in Slots : Slot(d, s) \in Storage(d)
  BY DEF Storage
<1>5. ASSUME NEW b \in StorageDeleted(d)
      PROVE  \E p \in Storage(d) : b[1] \in {p} \X Generations
  <2>1. b \in Destroyed(at[Device(d)]) \/ \E s \in Slots : b \in MembersDeleted(at[Slot(d, s)])
    BY DEF StorageDeleted
  <2>2. QED
    BY <1>f, <1>i, <1>s, <2>1, DeletedOwn
<1>6. ASSUME NEW p \in Storage(d), NEW b \in at[p].ptrs
      PROVE  b \in StorageDeleted(d) \/ KnownLeak(b)
  <2>1. CASE p = Device(d)
    BY <1>f, <1>6, <2>1, DeletedAll DEF StorageDeleted
  <2>2. ASSUME NEW s \in Slots, p = Slot(d, s)
        PROVE  b \in StorageDeleted(d) \/ KnownLeak(b)
    <3>1. MoveDeletes(at[p]) = {}
      BY <2>2 DEF StoragesOK
    <3>2. b \in MembersDeleted(at[p]) \/ KnownLeak(b)
      BY <1>f, <1>6, <3>1, DeletedAll
    <3>3. QED
      BY <2>2, <3>2 DEF StorageDeleted
  <2>3. QED
    BY <1>1, <2>1, <2>2
<1>7. QED
  BY <1>2, <1>3, <1>4, <1>5, <1>6

\* Storages come and go as a whole, and a packet enters one that is there.
LEMMA StoragesStep ==
    ASSUME MemoryOK, StoragesOK, NEW new, DOMAIN new \subseteq Places, Becomes(new),
           \A d \in Devices : Device(d) \in DOMAIN new =>
               /\ Storage(d) \subseteq DOMAIN new
               /\ new[Device(d)] = Nothing => \A s \in Slots : new[Slot(d, s)] = Nothing,
           \A d \in Devices, s \in Slots : Slot(d, s) \in DOMAIN new =>
               /\ MoveDeletes(new[Slot(d, s)]) = {}
               /\ Device(d) \in DOMAIN new \/ HasStorage(d)
    PROVE  StoragesOK'
<1>b. /\ \A p \in DOMAIN new : at'[p] = new[p]
      /\ \A p \in Places \ DOMAIN new : at'[p] = at[p]
  BY BecomesFacts DEF MemoryOK
<1> SUFFICES ASSUME NEW d \in Devices, NEW s \in Slots
             PROVE  /\ MoveDeletes(at'[Slot(d, s)]) = {}
                    /\ at'[Device(d)] = Nothing => at'[Slot(d, s)] = Nothing
  BY DEF StoragesOK, HasStorage, MoveDeletes, Pointers
<1>p. Device(d) \in Places /\ Slot(d, s) \in Places /\ Slot(d, s) \in Storage(d)
  BY PlaceFacts DEF Storage
<1>1. MoveDeletes(at'[Slot(d, s)]) = {}
  BY <1>b, <1>p DEF StoragesOK
<1>2. at'[Device(d)] = Nothing => at'[Slot(d, s)] = Nothing
  BY <1>b, <1>p DEF StoragesOK, HasStorage
<1>3. QED
  BY <1>1, <1>2

-----------------------------------------------------------------------------
(* The completion-queue thread.                                            *)

\* A step that touches no storage leaves the storages well formed.
LEMMA StoragesKept ==
    ASSUME MemoryOK, StoragesOK, NEW new, DOMAIN new \subseteq Places, Becomes(new),
           \A d \in Devices : DOMAIN new \cap Storage(d) = {}
    PROVE  StoragesOK'
<1>1. \A d \in Devices : Device(d) \in Storage(d) /\ \A s \in Slots : Slot(d, s) \in Storage(d)
  BY DEF Storage
<1>2. QED
  BY <1>1, StoragesStep

LEMMA EventArrivesStep ==
    ASSUME IInv, NEW d \in Devices, NEW conn \in BOOLEAN, EventArrives(d, conn)
    PROVE  IInv'
<1> USE DEF IInv
<1> DEFINE e == ProtoToTrackingDeviceEvent(Id(Event))
           c == IF conn THEN ProtoToDeviceDescriptor(Id(Connected(d))) ELSE Nothing
           new == At(Event, e) ++ At(Connected(d), c)
           gone == Destroyed(at[Connected(d)])
<1>0. /\ Put(new, gone) /\ cq = Idle /\ streamType' = streamType
      /\ cq' = [pc |-> "managers", dev |-> d, conn |-> conn]
  BY DEF EventArrives
<1>p. Event \in Places /\ Connected(d) \in Places /\ Event # Connected(d) /\ Packet # Connected(d)
      /\ Packet \in Places /\ Packet # Event
  BY PlaceFacts
<1>n. DOMAIN new = {Event, Connected(d)} /\ new[Event] = e /\ new[Connected(d)] = c
  <2> HIDE DEF e, c
  <2>1. QED
    BY <1>p DEF At, ++
<1> HIDE DEF new
<1>1. Made(e, Event)
  <2>1. e # Nothing
    BY DEF ProtoToTrackingDeviceEvent, New, Nothing
  <2>2. Unused(Event) # {}
    BY <1>0, <1>n, <2>1 DEF Put
  <2>3. QED
    BY <2>2, NewMade, StructFacts DEF ProtoToTrackingDeviceEvent
<1>2. Made(c, Connected(d))
  <2>1. CASE c = Nothing
    BY <2>1, NothingMade
  <2>2. CASE c # Nothing
    <3>1. Unused(Connected(d)) # {} /\ conn
      BY <1>0, <1>n, <2>2 DEF Put
    <3>2. QED
      BY <3>1, NewMade, StructFacts DEF ProtoToDeviceDescriptor
  <2>3. QED
    BY <2>1, <2>2
<1>3. at[Event] = Nothing /\ at[Packet] = Nothing
  BY <1>0 DEF CqOK, Handling, Idle
<1>4. Fits(at[Connected(d)], Connected(d))
  BY <1>p DEF MemoryOK
<1>5. \A b \in gone : b[1] \in {Connected(d)} \X Generations
  BY <1>4, DeletedOwn DEF Fits, Nothing
<1>6. \A p \in DOMAIN new : \A b \in at[p].ptrs : b \in gone \/ KnownLeak(b)
  BY <1>3, <1>4, <1>n, DeletedAll DEF Nothing
<1>7. MemoryOK' /\ Becomes(new)
  <2>1. \A p \in DOMAIN new : Made(new[p], p)
    BY <1>n, <1>1, <1>2
  <2>2. \A b \in gone : \E p \in DOMAIN new : b[1] \in {p} \X Generations
    BY <1>5, <1>n
  <2>3. DOMAIN new \subseteq Places
    BY <1>p, <1>n
  <2>4. QED
    BY <1>0, <1>6, <2>1, <2>2, <2>3, PutStep
<1>8. StoragesOK'
  <2>1. \A f \in Devices : DOMAIN new \cap Storage(f) = {}
    BY <1>n, StorageFacts
  <2>2. QED
    BY <1>7, <1>n, <1>p, <2>1, StoragesKept
<1>9. CqOK'
  <2>1. at'[Packet] = Nothing
    BY <1>7, <1>n, <1>p, <1>3, BecomesFacts DEF MemoryOK
  <2>2. ~conn => at'[Connected(d)] = Nothing
    BY <1>7, <1>n, <1>p, BecomesFacts DEF MemoryOK
  <2>3. Connected(d)' = Connected(d) /\ Event' = Event /\ Packet' = Packet
    BY DEF Connected, Event, Packet
  <2>4. QED
    BY <1>0, <2>1, <2>2, <2>3 DEF CqOK, Handling
<1>10. QED
  BY <1>7, <1>8, <1>9

\* Only devices that are connected get a storage.
LEMMA OpenStoragesPlaces ==
    ASSUME NEW new \in OpenStorages
    PROVE  \A p \in DOMAIN new : \E d \in Devices : at[Connected(d)] # Nothing /\ p \in Storage(d)
<1>1. PICK ds \in SUBSET {d \in Devices : at[Connected(d)] # Nothing /\ ~HasStorage(d)} :
          new = Union({AddDeviceStorage(d, at[Connected(d)]) : d \in ds})
  BY DEF OpenStorages
<1> DEFINE fs == {AddDeviceStorage(d, at[Connected(d)]) : d \in ds}
<1>2. \A f \in fs : \E d \in ds : DOMAIN f = Storage(d)
  BY DEF AddDeviceStorage
<1>3. DOMAIN new = UNION {DOMAIN f : f \in fs}
  BY <1>1, UnionFacts
<1>4. QED
  BY <1>2, <1>3

\* The storages that OpenStorages may add have their places free.
LEMMA OpenStoragesFacts ==
    ASSUME MemoryOK, StoragesOK, NEW new \in OpenStorages,
           \A p \in DOMAIN new : new[p] = Nothing \/ Unused(p) # {}
    PROVE  /\ DOMAIN new \subseteq LibraryPlaces
           /\ DOMAIN new \cap {Event, Packet, Request} = {}
           /\ \A p \in DOMAIN new : Made(new[p], p) /\ at[p] = Nothing
           /\ \A d \in Devices : Device(d) \in DOMAIN new =>
                Storage(d) \subseteq DOMAIN new /\ new[Device(d)] # Nothing
           /\ \A d \in Devices, s \in Slots : Slot(d, s) \in DOMAIN new =>
                MoveDeletes(new[Slot(d, s)]) = {} /\ Device(d) \in DOMAIN new
<1>1. PICK ds \in SUBSET {d \in Devices : at[Connected(d)] # Nothing /\ ~HasStorage(d)} :
          new = Union({AddDeviceStorage(d, at[Connected(d)]) : d \in ds})
  BY DEF OpenStorages
<1> DEFINE fs == {AddDeviceStorage(d, at[Connected(d)]) : d \in ds}
<1>d. \A d \in Devices : DOMAIN AddDeviceStorage(d, at[Connected(d)]) = Storage(d)
  BY DEF AddDeviceStorage
<1>f. /\ \A f \in fs : \E d \in ds : f = AddDeviceStorage(d, at[Connected(d)])
      /\ \A d \in ds : AddDeviceStorage(d, at[Connected(d)]) \in fs
      /\ new = Union(fs)
  BY <1>1
<1> HIDE DEF fs
<1>u. /\ DOMAIN new = UNION {DOMAIN f : f \in fs}
      /\ \A p \in DOMAIN new : \E f \in fs : p \in DOMAIN f /\ new[p] = f[p]
  BY <1>f, UnionFacts
<1>2. /\ \A p \in DOMAIN new : \E d \in ds : p \in Storage(d)
      /\ \A d \in ds : Storage(d) \subseteq DOMAIN new
  BY <1>d, <1>f, <1>u
<1>3. ASSUME NEW d \in ds, NEW p \in Storage(d)
      PROVE  p \in DOMAIN new /\ new[p] = AddDeviceStorage(d, at[Connected(d)])[p]
  <2>1. p \in DOMAIN new
    BY <1>2, <1>3
  <2>2. PICK e \in ds : /\ p \in DOMAIN AddDeviceStorage(e, at[Connected(e)])
                        /\ new[p] = AddDeviceStorage(e, at[Connected(e)])[p]
    BY <1>f, <1>u, <2>1
  <2>3. d \in Devices /\ e \in Devices /\ p \in Storage(e)
    BY <1>d, <2>2
  <2>4. e = d
    BY <1>3, <2>3, StorageFacts
  <2>5. QED
    BY <2>1, <2>2, <2>4
<1>4. ASSUME NEW d \in ds
      PROVE  /\ IsObject(at[Connected(d)])
             /\ \A p \in Storage(d) :
                  AddDeviceStorage(d, at[Connected(d)])[p] = Nothing \/ Unused(p) # {}
  <2>1. Connected(d) \in Places
    BY PlaceFacts
  <2>2. QED
    BY <1>3, <2>1 DEF MemoryOK, Fits
<1>5. ASSUME NEW d \in ds
      PROVE  /\ \A p \in Storage(d) : Made(new[p], p) /\ at[p] = Nothing
             /\ new[Device(d)] # Nothing
             /\ \A s \in Slots : MoveDeletes(new[Slot(d, s)]) = {}
  <2>1. Device(d) \in Storage(d) /\ \A s \in Slots : Slot(d, s) \in Storage(d)
    BY DEF Storage
  <2>2. QED
    BY <1>3, <1>4, <2>1, AddStorage, StorageFacts
<1>6. ASSUME NEW d \in Devices, DOMAIN new \cap Storage(d) # {}
      PROVE  d \in ds
  <2>1. PICK e \in ds : Storage(e) \cap Storage(d) # {}
    BY <1>2, <1>6
  <2>2. QED
    BY <2>1, StorageFacts
<1>s. \A d \in Devices : Device(d) \in Storage(d) /\ \A s \in Slots : Slot(d, s) \in Storage(d)
  BY DEF Storage
<1>7. DOMAIN new \subseteq LibraryPlaces /\ DOMAIN new \cap {Event, Packet, Request} = {}
  BY <1>2, StorageFacts
<1>8. \A p \in DOMAIN new : Made(new[p], p) /\ at[p] = Nothing
  BY <1>2, <1>5
<1>9. \A d \in Devices : Device(d) \in DOMAIN new =>
        Storage(d) \subseteq DOMAIN new /\ new[Device(d)] # Nothing
  BY <1>2, <1>5, <1>6, <1>s
<1>10. \A d \in Devices, s \in Slots : Slot(d, s) \in DOMAIN new =>
         MoveDeletes(new[Slot(d, s)]) = {} /\ Device(d) \in DOMAIN new
  BY <1>2, <1>5, <1>6, <1>s
<1>11. QED
  BY <1>7, <1>8, <1>9, <1>10

\* A storage that is removed leaves its places empty.
LEMMA RemoveFacts ==
    ASSUME NEW d \in Devices
    PROVE  /\ DOMAIN RemoveDeviceStorage(d) = Storage(d)
           /\ \A p \in Storage(d) : RemoveDeviceStorage(d)[p] = Nothing
           /\ Device(d) \in Storage(d) /\ \A s \in Slots : Slot(d, s) \in Storage(d)
  BY DEF RemoveDeviceStorage, Storage

\* The manager is updated: its storages come and go, and nothing else changes hands.
LEMMA EventManagersStep == IInv /\ EventManagers => IInv'
<1> SUFFICES ASSUME IInv, EventManagers
             PROVE  IInv'
  OBVIOUS
<1> USE DEF IInv
<1>c. /\ cq.dev \in Devices /\ cq \in [pc : Handling, dev : Devices, conn : BOOLEAN]
      /\ at[Packet] = Nothing
  BY DEF EventManagers, CqOK, Idle, Handling
<1>d. /\ cq' \in [pc : Handling, dev : Devices, conn : BOOLEAN] /\ cq'.pc \in Handling
      /\ cq'.pc = "callback" /\ streamType' = streamType
  BY <1>c DEF EventManagers, Handling
<1>p. LibraryPlaces \subseteq Places /\ Packet \in Places
  BY PlaceFacts
<1>q. ASSUME at'[Packet] = Nothing
      PROVE  CqOK'
  BY <1>d, <1>q DEF CqOK
<1>1. CASE UNCHANGED <<at, heap>>
  <2>1. MemoryOK'
    BY <1>1 DEF MemoryOK, Fits, Owned, NothingLost, KnownLeak
  <2>2. StoragesOK'
    BY <1>1 DEF StoragesOK, HasStorage, MoveDeletes, Pointers
  <2>3. QED
    BY <1>c, <1>q, <1>1, <2>1, <2>2
\* What the four ways of updating the manager have in common.
<1>s. ASSUME NEW new, NEW gone, Put(new, gone), DOMAIN new \subseteq LibraryPlaces,
             DOMAIN new \cap {Event, Packet, Request} = {},
             \A p \in DOMAIN new : Made(new[p], p),
             \A b \in gone : \E p \in DOMAIN new : b[1] \in {p} \X Generations,
             \A p \in DOMAIN new :
               at[p] = Nothing \/ \A b \in at[p].ptrs : b \in gone \/ KnownLeak(b),
             \A d \in Devices : Device(d) \in DOMAIN new =>
               /\ Storage(d) \subseteq DOMAIN new
               /\ new[Device(d)] = Nothing => \A s \in Slots : new[Slot(d, s)] = Nothing,
             \A d \in Devices, s \in Slots : Slot(d, s) \in DOMAIN new =>
               MoveDeletes(new[Slot(d, s)]) = {} /\ Device(d) \in DOMAIN new
      PROVE  IInv'
  <2>1. DOMAIN new \subseteq Places
    BY <1>p, <1>s
  <2>2. \A p \in DOMAIN new : \A b \in at[p].ptrs : GivenUp(at[p]) \/ b \in gone \/ KnownLeak(b)
    BY <1>s DEF Nothing
  <2>3. MemoryOK' /\ Becomes(new)
    BY <1>s, <2>1, <2>2, PutStep
  <2>4. StoragesOK'
    BY <1>s, <2>1, <2>3, StoragesStep
  <2>5. at'[Packet] = at[Packet]
    BY <1>p, <1>s, <2>1, <2>3, BecomesFacts DEF MemoryOK
  <2>6. QED
    BY <1>c, <1>q, <2>3, <2>4, <2>5
<1>2. CASE ~HasStorage(cq.dev) /\ Put(AddDeviceStorage(cq.dev, at[Event]), {})
  <2> DEFINE new == AddDeviceStorage(cq.dev, at[Event])
  <2>1. IsObject(at[Event])
    BY PlaceFacts DEF MemoryOK, Fits
  <2>2. DOMAIN new = Storage(cq.dev)
    BY DEF AddDeviceStorage
  <2>3. \A p \in Storage(cq.dev) : new[p] = Nothing \/ Unused(p) # {}
    BY <1>2, <2>2 DEF Put
  <2>4. /\ \A p \in Storage(cq.dev) : Made(new[p], p)
        /\ new[Device(cq.dev)] # Nothing
        /\ \A s \in Slots : MoveDeletes(new[Slot(cq.dev, s)]) = {}
    BY <1>c, <2>1, <2>3, AddStorage
  <2>5. \A p \in Storage(cq.dev) : at[p] = Nothing
    BY <1>c, <1>2, StorageFacts
  <2>6. /\ Storage(cq.dev) \subseteq LibraryPlaces
        /\ Storage(cq.dev) \cap {Event, Packet, Request} = {}
    BY <1>c, StorageFacts
  <2>7. \A d \in Devices : Storage(cq.dev) \cap Storage(d) # {} => d = cq.dev
    BY <1>c, StorageFacts
  <2>8. \A d \in Devices : Device(d) \in Storage(d) /\ \A s \in Slots : Slot(d, s) \in Storage(d)
    BY RemoveFacts
  <2> HIDE DEF new
  <2>9. QED
    BY <1>s, <1>2, <2>2, <2>4, <2>5, <2>6, <2>7, <2>8 DEF new
<1>3. CASE Put(RemoveDeviceStorage(cq.dev), StorageDeleted(cq.dev))
  <2> DEFINE new == RemoveDeviceStorage(cq.dev)
  <2>1. DOMAIN new = Storage(cq.dev) /\ \A p \in Storage(cq.dev) : new[p] = Nothing
    BY <1>c, RemoveFacts
  <2>2. /\ Storage(cq.dev) \subseteq LibraryPlaces
        /\ Storage(cq.dev) \cap {Event, Packet, Request} = {}
        /\ \A b \in StorageDeleted(cq.dev) : \E p \in Storage(cq.dev) : b[1] \in {p} \X Generations
        /\ \A p \in Storage(cq.dev) : \A b \in at[p].ptrs :
             b \in StorageDeleted(cq.dev) \/ KnownLeak(b)
        /\ \A d \in Devices : Storage(cq.dev) \cap Storage(d) # {} => d = cq.dev
    BY <1>c, StorageFacts
  <2>3. \A d \in Devices : Device(d) \in Storage(d) /\ \A s \in Slots : Slot(d, s) \in Storage(d)
    BY RemoveFacts
  <2>4. \A p \in DOMAIN new : Made(new[p], p) /\ MoveDeletes(new[p]) = {}
    BY <2>1, NothingMade
  <2>5. Put(new, StorageDeleted(cq.dev))
    BY <1>3
  <2> HIDE DEF new
  <2>6. \A d \in Devices : Device(d) \in DOMAIN new =>
          Storage(d) \subseteq DOMAIN new /\ \A s \in Slots : new[Slot(d, s)] = Nothing
    BY <2>1, <2>2, <2>3
  <2>7. \A d \in Devices, s \in Slots : Slot(d, s) \in DOMAIN new =>
          MoveDeletes(new[Slot(d, s)]) = {} /\ Device(d) \in DOMAIN new
    BY <2>1, <2>2, <2>3, <2>4
  <2>8. QED
    BY <1>s, <2>1, <2>2, <2>4, <2>5, <2>6, <2>7
<1>4. ASSUME NEW new \in OpenStorages, Put(new, {})
      PROVE  IInv'
  <2>1. \A p \in DOMAIN new : new[p] = Nothing \/ Unused(p) # {}
    BY <1>4 DEF Put
  <2>2. /\ DOMAIN new \subseteq LibraryPlaces
        /\ DOMAIN new \cap {Event, Packet, Request} = {}
        /\ \A p \in DOMAIN new : Made(new[p], p) /\ at[p] = Nothing
        /\ \A d \in Devices : Device(d) \in DOMAIN new =>
             Storage(d) \subseteq DOMAIN new /\ new[Device(d)] # Nothing
        /\ \A d \in Devices, s \in Slots : Slot(d, s) \in DOMAIN new =>
             MoveDeletes(new[Slot(d, s)]) = {} /\ Device(d) \in DOMAIN new
    BY <1>4, <2>1, OpenStoragesFacts
  <2>3. QED
    BY <1>4, <1>s, <2>2
<1>5. ASSUME NEW added \in OpenStorages, at[Connected(cq.dev)] = Nothing,
             Put(RemoveDeviceStorage(cq.dev) ++ added, StorageDeleted(cq.dev))
      PROVE  IInv'
  <2> DEFINE removed == RemoveDeviceStorage(cq.dev)
             new == removed ++ added
  <2>1. DOMAIN removed = Storage(cq.dev) /\ \A p \in Storage(cq.dev) : removed[p] = Nothing
    BY <1>c, RemoveFacts
  <2> HIDE DEF removed
  <2>2. /\ DOMAIN new = Storage(cq.dev) \cup DOMAIN added
        /\ \A p \in Storage(cq.dev) : new[p] = Nothing
        /\ \A p \in DOMAIN added \ Storage(cq.dev) : new[p] = added[p]
    <3>1. /\ DOMAIN (removed ++ added) = DOMAIN removed \cup DOMAIN added
          /\ \A x \in DOMAIN removed : (removed ++ added)[x] = removed[x]
          /\ \A x \in DOMAIN added \ DOMAIN removed : (removed ++ added)[x] = added[x]
      BY JoinFacts
    <3>2. QED
      BY <2>1, <3>1
  <2>3. Put(new, StorageDeleted(cq.dev))
    BY <1>5 DEF removed
  <2> HIDE DEF new
  <2>4. /\ Storage(cq.dev) \subseteq LibraryPlaces
        /\ Storage(cq.dev) \cap {Event, Packet, Request} = {}
        /\ \A b \in StorageDeleted(cq.dev) : \E p \in Storage(cq.dev) : b[1] \in {p} \X Generations
        /\ \A p \in Storage(cq.dev) : \A b \in at[p].ptrs :
             b \in StorageDeleted(cq.dev) \/ KnownLeak(b)
        /\ \A d \in Devices : Storage(cq.dev) \cap Storage(d) # {} => d = cq.dev
    BY <1>c, StorageFacts
  <2>5. \A d \in Devices : Device(d) \in Storage(d) /\ \A s \in Slots : Slot(d, s) \in Storage(d)
    BY RemoveFacts
  <2>6. DOMAIN added \cap Storage(cq.dev) = {}
    BY <1>c, <1>5, <2>4, OpenStoragesPlaces
  <2>7. \A p \in DOMAIN added : added[p] = Nothing \/ Unused(p) # {}
    BY <2>2, <2>3, <2>6 DEF Put
  <2>8. /\ DOMAIN added \subseteq LibraryPlaces
        /\ DOMAIN added \cap {Event, Packet, Request} = {}
        /\ \A p \in DOMAIN added : Made(added[p], p) /\ at[p] = Nothing
        /\ \A d \in Devices : Device(d) \in DOMAIN added =>
             Storage(d) \subseteq DOMAIN added /\ added[Device(d)] # Nothing
        /\ \A d \in Devices, s \in Slots : Slot(d, s) \in DOMAIN added =>
             MoveDeletes(added[Slot(d, s)]) = {} /\ Device(d) \in DOMAIN added
    BY <1>5, <2>7, OpenStoragesFacts
  <2>9. \A p \in DOMAIN new : Made(new[p], p)
    BY <2>2, <2>6, <2>8, NothingMade
  <2>10. \A d \in Devices : Device(d) \in DOMAIN new =>
           /\ Storage(d) \subseteq DOMAIN new
           /\ new[Device(d)] = Nothing => \A s \in Slots : new[Slot(d, s)] = Nothing
    BY <2>2, <2>4, <2>5, <2>6, <2>8
  <2>11. \A d \in Devices, s \in Slots : Slot(d, s) \in DOMAIN new =>
           MoveDeletes(new[Slot(d, s)]) = {} /\ Device(d) \in DOMAIN new
    BY <2>2, <2>4, <2>5, <2>6, <2>8, NothingMade
  <2>12. /\ DOMAIN new \subseteq LibraryPlaces /\ DOMAIN new \cap {Event, Packet, Request} = {}
         /\ \A b \in StorageDeleted(cq.dev) : \E p \in DOMAIN new : b[1] \in {p} \X Generations
         /\ \A p \in DOMAIN new : at[p] = Nothing \/
              \A b \in at[p].ptrs : b \in StorageDeleted(cq.dev) \/ KnownLeak(b)
    BY <2>2, <2>4, <2>8
  <2>13. QED
    BY <1>s, <2>3, <2>9, <2>10, <2>11, <2>12
<1>6. ~cq.conn => at[Connected(cq.dev)] = Nothing
  BY DEF EventManagers, CqOK
<1>7. QED
  BY <1>1, <1>2, <1>3, <1>4, <1>5, <1>6 DEF EventManagers

\* A step that changes what is at one place, which is none of a storage.
LEMMA ReplaceOne ==
    ASSUME MemoryOK, StoragesOK, NEW p \in Places, \A d \in Devices : p \notin Storage(d),
           NEW o, Fits(o, p), Becomes(At(p, o)),
           NEW gone, NEW made, heap' = (heap \cup made) \ gone,
           \A b \in gone : b[1] \in {p} \X Generations,
           \A b \in made : /\ b[1] \in Places \X Generations /\ b[2] \in DOMAIN Struct
                           /\ KnownLeak(b) \/ b \in gone \/ (b \in o.ptrs /\ ~GivenUp(o)),
           \A b \in o.ptrs : GivenUp(o) \/ b \in heap',
           \A b \in at[p].ptrs :
             GivenUp(at[p]) \/ b \in gone \/ KnownLeak(b) \/ (b \in o.ptrs /\ ~GivenUp(o))
    PROVE  /\ MemoryOK' /\ StoragesOK'
           /\ at'[p] = o /\ \A q \in Places \ {p} : at'[q] = at[q]
<1> DEFINE new == At(p, o)
<1>1. DOMAIN new = {p} /\ new[p] = o
  BY AtFacts
<1> HIDE DEF new
<1>0. Becomes(new)
  BY DEF new
<1>2. Replaces(new, gone, made)
  BY <1>0, <1>1 DEF Replaces
<1>3. MemoryOK'
  BY <1>2, ReplaceStep
<1>4. StoragesOK'
  BY <1>0, <1>1, StoragesKept
<1>5. at'[p] = o /\ \A q \in Places \ {p} : at'[q] = at[q]
  BY <1>0, <1>1, BecomesFacts DEF MemoryOK
<1>6. QED
  BY <1>3, <1>4, <1>5

\* A pointer goes out of scope and with it what it owns.
LEMMA ScopeEnds ==
    ASSUME MemoryOK, StoragesOK, NEW p \in Places, \A d \in Devices : p \notin Storage(d),
           Becomes(At(p, Nothing)), heap' = heap \ Destroyed(at[p])
    PROVE  /\ MemoryOK' /\ StoragesOK'
           /\ at'[p] = Nothing /\ \A q \in Places \ {p} : at'[q] = at[q]
<1>1. Fits(at[p], p)
  BY DEF MemoryOK
<1>2. \A b \in Destroyed(at[p]) : b[1] \in {p} \X Generations
  BY <1>1, DeletedOwn DEF Fits, Nothing
<1>3. \A b \in at[p].ptrs : b \in Destroyed(at[p]) \/ KnownLeak(b)
  BY <1>1, DeletedAll
<1>4. Fits(Nothing, p)
  BY NothingMade DEF Made
<1>5. Nothing.ptrs = {}
  BY DEF Nothing
<1> DEFINE gone == Destroyed(at[p])
           made == {}
           o == Nothing
<1>6. Fits(o, p) /\ Becomes(At(p, o)) /\ heap' = (heap \cup made) \ gone
  BY <1>4
<1>7. /\ \A b \in gone : b[1] \in {p} \X Generations
      /\ \A b \in made : /\ b[1] \in Places \X Generations /\ b[2] \in DOMAIN Struct
                         /\ KnownLeak(b) \/ b \in gone \/ (b \in o.ptrs /\ ~GivenUp(o))
      /\ \A b \in o.ptrs : GivenUp(o) \/ b \in heap'
      /\ \A b \in at[p].ptrs :
           GivenUp(at[p]) \/ b \in gone \/ KnownLeak(b) \/ (b \in o.ptrs /\ ~GivenUp(o))
  BY <1>2, <1>3, <1>5
<1>8. QED
  <2> HIDE DEF gone, made, o
  <2>1. /\ MemoryOK' /\ StoragesOK'
        /\ at'[p] = o /\ \A q \in Places \ {p} : at'[q] = at[q]
    BY <1>6, <1>7, ReplaceOne
  <2>2. QED
    BY <2>1 DEF o

\* The callback has returned and the event goes.
LEMMA EventDoneStep == IInv /\ EventDone => IInv'
<1> SUFFICES ASSUME IInv, EventDone
             PROVE  IInv'
  OBVIOUS
<1> USE DEF IInv
<1>p. Event \in Places /\ Packet \in Places /\ Packet # Event
  BY PlaceFacts
<1>s. \A d \in Devices : Event \notin Storage(d)
  BY StorageFacts
<1>1. /\ MemoryOK' /\ StoragesOK'
      /\ at'[Event] = Nothing /\ \A q \in Places \ {Event} : at'[q] = at[q]
  BY <1>p, <1>s, ScopeEnds DEF EventDone
<1>2. CqOK'
  <2>1. at'[Packet] = Nothing
    BY <1>p, <1>1 DEF CqOK, EventDone
  <2>2. Event' = Event /\ Packet' = Packet
    BY DEF Event, Packet
  <2>3. QED
    BY <1>1, <2>1, <2>2 DEF CqOK, EventDone, Idle
<1>3. QED
  BY <1>1, <1>2

\* The callback has returned and its packet goes.
LEMMA UpdateDoneStep == IInv /\ UpdateDone => IInv'
<1> SUFFICES ASSUME IInv, UpdateDone
             PROVE  IInv'
  OBVIOUS
<1> USE DEF IInv
<1>p. Event \in Places /\ Packet \in Places /\ Packet # Event
  BY PlaceFacts
<1>s. \A d \in Devices : Packet \notin Storage(d)
  BY StorageFacts
<1>1. /\ MemoryOK' /\ StoragesOK'
      /\ at'[Packet] = Nothing /\ \A q \in Places \ {Packet} : at'[q] = at[q]
  BY <1>p, <1>s, ScopeEnds DEF UpdateDone
<1>2. CqOK'
  <2>1. at'[Event] = Nothing
    BY <1>p, <1>1 DEF CqOK, UpdateDone, Handling
  <2>2. Event' = Event /\ Packet' = Packet
    BY DEF Event, Packet
  <2>3. QED
    BY <1>1, <2>1, <2>2 DEF CqOK, UpdateDone, Idle
<1>3. QED
  BY <1>1, <1>2

\* The channel breaks and connected_devices_ is emptied.
LEMMA ChannelLostStep == IInv /\ ChannelLost => IInv'
<1> SUFFICES ASSUME IInv, ChannelLost
             PROVE  IInv'
  OBVIOUS
<1> USE DEF IInv
<1> DEFINE C == {Connected(d) : d \in Devices}
           new == [p \in C |-> Nothing]
           gone == UNION {Destroyed(at[Connected(d)]) : d \in Devices}
<1>0. Becomes(new) /\ heap' = heap \ gone /\ UNCHANGED <<streamType, cq>>
  BY DEF ChannelLost
<1>1. DOMAIN new = C /\ \A p \in C : new[p] = Nothing
  OBVIOUS
<1>2. /\ \A p \in C : \E d \in Devices : p = Connected(d)
      /\ \A d \in Devices : Connected(d) \in C
  OBVIOUS
<1>g. /\ \A b \in gone : \E d \in Devices : b \in Destroyed(at[Connected(d)])
      /\ \A d \in Devices : Destroyed(at[Connected(d)]) \subseteq gone
  OBVIOUS
<1> HIDE DEF C, new, gone
<1>p. C \subseteq Places /\ Event \in Places \ C /\ Packet \in Places \ C
  BY <1>2, PlaceFacts
<1>3. \A d \in Devices : Fits(at[Connected(d)], Connected(d))
  BY <1>2, <1>p DEF MemoryOK
<1>4. \A b \in gone : \E p \in DOMAIN new : b[1] \in {p} \X Generations
  <2> SUFFICES ASSUME NEW b \in gone
               PROVE  \E p \in DOMAIN new : b[1] \in {p} \X Generations
    OBVIOUS
  <2>1. PICK d \in Devices : b \in Destroyed(at[Connected(d)])
    BY <1>g
  <2>2. b[1] \in {Connected(d)} \X Generations
    BY <1>3, <2>1, DeletedOwn DEF Fits, Nothing
  <2>3. QED
    BY <1>1, <1>2, <2>2
<1>5. \A p \in DOMAIN new : \A b \in at[p].ptrs : b \in gone \/ KnownLeak(b)
  BY <1>1, <1>2, <1>3, <1>g, DeletedAll
<1>6. Replaces(new, gone, {})
  <2>1. \A p \in DOMAIN new : Fits(new[p], p) /\ new[p].ptrs = {}
    BY <1>1, NothingMade DEF Made, Nothing
  <2>2. heap' = (heap \cup {}) \ gone
    BY <1>0
  <2>3. QED
    BY <1>0, <1>1, <1>p, <1>4, <1>5, <2>1, <2>2 DEF Replaces
<1>7. MemoryOK'
  BY <1>6, ReplaceStep
<1>8. StoragesOK'
  <2>1. \A d \in Devices : DOMAIN new \cap Storage(d) = {}
    BY <1>1, <1>2, StorageFacts
  <2>2. QED
    BY <1>0, <1>1, <1>p, <2>1, StoragesKept
<1>9. CqOK'
  <2>1. /\ at'[Event] = at[Event] /\ at'[Packet] = at[Packet]
        /\ \A d \in Devices : at'[Connected(d)] = Nothing
    BY <1>0, <1>1, <1>2, <1>p, BecomesFacts DEF MemoryOK
  <2>2. cq.pc = "managers" => cq.dev \in Devices
    BY DEF CqOK, Idle
  <2>3. Event' = Event /\ Packet' = Packet /\ \A d : Connected(d)' = Connected(d)
    BY DEF Event, Packet, Connected
  <2>4. QED
    BY <1>0, <2>1, <2>2, <2>3 DEF CqOK
<1>10. QED
  BY <1>7, <1>8, <1>9

\* A packet that enters a slot is a converted one, moved out of its pointer.
LEMMA PushMade ==
    ASSUME NEW d, NEW s
    PROVE  /\ PushData(d, s) # Nothing /\ MoveDeletes(PushData(d, s)) = {}
           /\ Unused(Slot(d, s)) # {} => Made(PushData(d, s), Slot(d, s))
<1> DEFINE p == Slot(d, s)
           o == New(Id(p), "TrackingDeviceData", 0)
           v == Moved(o)
           w == PushData(d, s)
<1>1. o = [type |-> "TrackingDeviceData", n |-> 0, ptrs |-> o.ptrs]
  BY DEF New
<1>2. v = [type |-> "TrackingDeviceData", n |-> 0, ptrs |-> o.ptrs \ MoveDeletes(o)]
  BY <1>1 DEF Moved
<1>3. w = [type |-> "DevicePacket", n |-> 0, ptrs |-> v.ptrs]
  <2>1. w = [v EXCEPT !.type = "DevicePacket"]
    BY DEF PushData, ProtoToTrackingDeviceData
  <2> HIDE DEF w
  <2>2. QED
    BY <1>2, <2>1
<1>4. w # Nothing
  BY <1>3 DEF Nothing
<1>5. MoveDeletes(w) = {}
  <2>1. w.ptrs = o.ptrs \ {b \in o.ptrs : b[3] \in {Shell}}
    BY <1>2, <1>3 DEF MoveDeletes, Pointers
  <2> HIDE DEF w
  <2>2. QED
    BY <2>1 DEF MoveDeletes, Pointers
<1>6. ASSUME Unused(p) # {}
      PROVE  Made(w, p)
  <2>1. Fits(v, p) /\ v # Nothing
    <3>1. Made(o, p) /\ MoveDeletes(o) # {}
      BY <1>6, NewMade, StructFacts
    <3>2. QED
      BY <1>2, <3>1, MovedMade DEF Made, Nothing
  <2>2. Members("DevicePacket", 0) = Members("TrackingDeviceData", 0)
    BY StructFacts DEF Members, Arrays, Elements, Nested
  <2>3. \A b \in w.ptrs : /\ b[1] \in {p} \X Generations /\ b[2] \in DOMAIN Struct
                          /\ b[3] \in Members(w.type, w.n) \cup {Shell}
    <3>1. \A b \in v.ptrs : /\ b[1] \in {p} \X Generations /\ b[2] \in DOMAIN Struct
                            /\ b[3] \in Members("TrackingDeviceData", 0) \cup {Shell}
      BY <1>2, <2>1 DEF Fits
    <3> HIDE DEF w, v
    <3>2. QED
      BY <1>3, <2>2, <3>1
  <2>4. Fits(w, p)
    <3> HIDE DEF w
    <3>1. QED
      BY <1>3, <2>3, StructFacts DEF Fits, IsObject, Groups
  <2>5. GivenUp(w) => w.ptrs = {}
    <3> HIDE DEF w
    <3> SUFFICES ASSUME w = WithoutMembers(w)
                 PROVE  w.ptrs = {}
      BY DEF GivenUp
    <3>1. w.ptrs = Pointers(w, {Shell})
      BY <1>3 DEF WithoutMembers, Kept
    <3>2. QED
      BY <1>5, <3>1 DEF MoveDeletes
  <2>6. QED
    BY <2>4, <2>5 DEF Made
<1>7. QED
  BY <1>4, <1>5, <1>6

\* The storages of the manager take packets, each in the place of an older one.
LEMMA UpdateStep ==
    ASSUME IInv, NEW ds \in SUBSET Devices, NEW s \in Slots, NEW packet,
           packet = Nothing \/ Unused(Packet) # {} => Made(packet, Packet),
           Update(ds, s, packet)
    PROVE  IInv'
<1> USE DEF IInv
<1> DEFINE pushed == {d \in ds : HasStorage(d)}
           fs == {At(Slot(d, s), PushData(d, s)) : d \in pushed}
           new == At(Packet, packet) ++ Union(fs)
           gone == UNION {PushDeletes(d, s) : d \in pushed}
<1>0. /\ cq = Idle /\ Put(new, gone)
      /\ cq' = [pc |-> "packet"] /\ streamType' = streamType
  BY DEF Update
<1>g. /\ \A b \in gone : \E d \in pushed : b \in PushDeletes(d, s)
      /\ \A d \in pushed : PushDeletes(d, s) \subseteq gone
      /\ \A d \in pushed : d \in Devices /\ HasStorage(d)
  OBVIOUS
<1>f. /\ \A f \in fs : \E d \in pushed : f = At(Slot(d, s), PushData(d, s))
      /\ \A d \in pushed : At(Slot(d, s), PushData(d, s)) \in fs
  OBVIOUS
<1> HIDE DEF pushed, fs, gone
<1>a. ASSUME NEW d \in pushed
      PROVE  LET f == At(Slot(d, s), PushData(d, s))
             IN  DOMAIN f = {Slot(d, s)} /\ f[Slot(d, s)] = PushData(d, s)
  BY DEF At
<1>u. /\ \A p \in DOMAIN Union(fs) : \E d \in pushed : p = Slot(d, s)
      /\ \A d \in pushed : /\ Slot(d, s) \in DOMAIN Union(fs)
                           /\ Union(fs)[Slot(d, s)] = PushData(d, s)
  <2>1. /\ DOMAIN Union(fs) = UNION {DOMAIN f : f \in fs}
        /\ \A p \in DOMAIN Union(fs) : \E f \in fs : p \in DOMAIN f /\ Union(fs)[p] = f[p]
    BY UnionFacts
  <2>2. \A f \in fs : \E d \in pushed : DOMAIN f = {Slot(d, s)} /\ f[Slot(d, s)] = PushData(d, s)
    BY <1>a, <1>f
  <2>3. \A d \in pushed : Slot(d, s) \in DOMAIN Union(fs)
    <3>1. \A d \in pushed : Slot(d, s) \in DOMAIN At(Slot(d, s), PushData(d, s))
      BY <1>a
    <3>2. QED
      BY <1>f, <2>1, <3>1
  <2>4. ASSUME NEW d \in pushed
        PROVE  Union(fs)[Slot(d, s)] = PushData(d, s)
    <3>1. PICK f \in fs : Slot(d, s) \in DOMAIN f /\ Union(fs)[Slot(d, s)] = f[Slot(d, s)]
      BY <2>1, <2>3
    <3>2. PICK e \in pushed : DOMAIN f = {Slot(e, s)} /\ f[Slot(e, s)] = PushData(e, s)
      BY <2>2
    <3>3. e = d
      BY <1>g, <3>1, <3>2, PlaceFacts
    <3>4. QED
      BY <3>1, <3>2, <3>3
  <2>5. QED
    BY <2>1, <2>2, <2>3, <2>4
<1>p. /\ Packet \in Places /\ Event \in Places /\ Event # Packet
      /\ \A d \in pushed : /\ Slot(d, s) \in Places
                           /\ Slot(d, s) # Packet /\ Slot(d, s) # Event
  BY <1>g, PlaceFacts
<1>n. /\ DOMAIN new = {Packet} \cup DOMAIN Union(fs)
      /\ new[Packet] = packet
      /\ \A d \in pushed : new[Slot(d, s)] = PushData(d, s)
  <2>1. DOMAIN At(Packet, packet) = {Packet} /\ At(Packet, packet)[Packet] = packet
    BY AtFacts
  <2>2. /\ DOMAIN new = DOMAIN At(Packet, packet) \cup DOMAIN Union(fs)
        /\ \A x \in DOMAIN At(Packet, packet) : new[x] = At(Packet, packet)[x]
        /\ \A x \in DOMAIN Union(fs) \ DOMAIN At(Packet, packet) : new[x] = Union(fs)[x]
    BY JoinFacts
  <2> HIDE DEF new
  <2>3. QED
    BY <1>u, <1>p, <2>1, <2>2
<1> HIDE DEF new
<1>1. /\ DOMAIN new \subseteq Places
      /\ \A p \in DOMAIN new : p = Packet \/ \E d \in pushed : p = Slot(d, s)
  BY <1>n, <1>u, <1>p
<1>2. \A p \in DOMAIN new : Made(new[p], p)
  <2>1. Made(packet, Packet)
    BY <1>0, <1>n DEF Put
  <2>2. \A d \in pushed : Made(PushData(d, s), Slot(d, s))
    BY <1>0, <1>n, <1>u, PushMade DEF Put
  <2>3. QED
    BY <1>1, <1>n, <2>1, <2>2
<1>3. \A d \in pushed : /\ Fits(at[Slot(d, s)], Slot(d, s))
                        /\ MoveDeletes(at[Slot(d, s)]) = {}
  BY <1>g, <1>p DEF MemoryOK, StoragesOK
<1>4. \A b \in gone : \E p \in DOMAIN new : b[1] \in {p} \X Generations
  <2> SUFFICES ASSUME NEW b \in gone
               PROVE  \E p \in DOMAIN new : b[1] \in {p} \X Generations
    OBVIOUS
  <2>1. PICK d \in pushed : b \in MembersDeleted(at[Slot(d, s)])
    BY <1>g DEF PushDeletes
  <2>2. Fits(at[Slot(d, s)], Slot(d, s))
    BY <1>3
  <2>3. b \in at[Slot(d, s)].ptrs
    BY <2>1, <2>2, DeletedOwn
  <2>4. b[1] \in {Slot(d, s)} \X Generations
    BY <2>2, <2>3 DEF Fits, Nothing
  <2>5. QED
    BY <1>n, <1>u, <2>4
<1>5. \A p \in DOMAIN new : \A b \in at[p].ptrs : b \in gone \/ KnownLeak(b)
  <2>1. at[Packet].ptrs = {}
    BY <1>0 DEF CqOK, Idle, Nothing
  <2>2. \A d \in pushed : \A b \in at[Slot(d, s)].ptrs : b \in PushDeletes(d, s) \/ KnownLeak(b)
    BY <1>3, DeletedAll DEF PushDeletes
  <2>3. QED
    BY <1>1, <1>g, <2>1, <2>2
<1>6. MemoryOK' /\ Becomes(new)
  BY <1>0, <1>1, <1>2, <1>4, <1>5, PutStep
<1>7. StoragesOK'
  <2>1. \A d \in Devices : Device(d) \notin DOMAIN new
    <3>1. \A d \in Devices : Device(d) # Packet
      BY PlaceFacts
    <3>2. \A d \in Devices, e \in pushed : Device(d) # Slot(e, s)
      BY <1>g, PlaceFacts
    <3>3. QED
      BY <1>1, <3>1, <3>2
  <2>2. \A d \in Devices, t \in Slots : Slot(d, t) \in DOMAIN new =>
          MoveDeletes(new[Slot(d, t)]) = {} /\ HasStorage(d)
    <3> SUFFICES ASSUME NEW d \in Devices, NEW t \in Slots, Slot(d, t) \in DOMAIN new
                 PROVE  MoveDeletes(new[Slot(d, t)]) = {} /\ HasStorage(d)
      OBVIOUS
    <3>1. Slot(d, t) # Packet
      BY PlaceFacts
    <3>2. PICK e \in pushed : Slot(d, t) = Slot(e, s)
      BY <1>1, <3>1
    <3>3. d = e
      BY <1>g, <3>2, PlaceFacts
    <3>4. QED
      BY <1>g, <1>n, <3>2, <3>3, PushMade
  <2>3. QED
    BY <1>1, <1>6, <2>1, <2>2, StoragesStep
<1>8. CqOK'
  <2>1. at'[Event] = at[Event]
    BY <1>1, <1>6, <1>p, BecomesFacts DEF MemoryOK
  <2>2. Event' = Event
    BY DEF Event
  <2>3. QED
    BY <1>0, <2>1, <2>2 DEF CqOK, Handling, Idle
<1>9. QED
  BY <1>6, <1>7, <1>8

\* A packet of one device, and a callback that gets one too.
LEMMA UpdateDeviceDataStep ==
    ASSUME IInv, NEW d \in Devices, NEW s \in Slots, NEW callback \in BOOLEAN,
           UpdateDeviceData(d, s, callback)
    PROVE  IInv'
<1> DEFINE packet == IF callback THEN ProtoToTrackingDeviceData(Id(Packet)) ELSE Nothing
<1>1. packet = Nothing \/ Unused(Packet) # {} => Made(packet, Packet)
  BY NothingMade, NewMade, StructFacts DEF ProtoToTrackingDeviceData
<1>2. Update({d}, s, packet)
  BY DEF UpdateDeviceData
<1> HIDE DEF packet
<1>3. QED
  BY <1>1, <1>2, UpdateStep

\* A frame of some devices; every one of them has an element in the callback's.
LEMMA UpdateDataFrameStep ==
    ASSUME IInv, NEW ds \in SUBSET Devices, NEW s \in Slots, NEW callback \in BOOLEAN,
           UpdateDataFrame(ds, s, callback)
    PROVE  IInv'
<1> DEFINE packet == IF callback THEN ProtoToDataFrame(Id(Packet), Cardinality(ds)) ELSE Nothing
<1>1. Cardinality(ds) \in Nat
  BY OwnershipAssumption, FS_Subset, FS_CardinalityType
<1>2. packet = Nothing \/ Unused(Packet) # {} => Made(packet, Packet)
  BY <1>1, NothingMade, NewMade, StructFacts DEF ProtoToDataFrame
<1>3. Update(ds, s, packet)
  BY DEF UpdateDataFrame
<1> HIDE DEF packet
<1>4. QED
  BY <1>2, <1>3, UpdateStep

-----------------------------------------------------------------------------
(* The application.                                                        *)

\* A variable of the application is a place, and none of the library's.
LEMMA HandleFacts ==
    ASSUME MemoryOK, StoragesOK, NEW h \in Handles
    PROVE  /\ h \in Places /\ h \notin {Event, Packet, Request}
           /\ \A d \in Devices : h # Connected(d) /\ h \notin Storage(d)
  BY PlaceFacts, StorageFacts

\* What CQ does is not disturbed by a step that leaves its places alone.
LEMMA CqKept ==
    ASSUME CqOK, UNCHANGED cq, streamType' \in {"kDeviceData", "kDataFrame"},
           at'[Event] = at[Event], at'[Packet] = at[Packet],
           \A d \in Devices : at'[Connected(d)] = at[Connected(d)]
    PROVE  CqOK'
<1>1. cq.pc = "managers" => cq.dev \in Devices
  BY DEF CqOK, Idle
<1>2. Event' = Event /\ Packet' = Packet /\ \A d : Connected(d)' = Connected(d)
  BY DEF Event, Packet, Connected
<1>3. QED
  BY <1>1, <1>2 DEF CqOK

\* The application gets an object that was made for it.
LEMMA GiveStep ==
    ASSUME IInv, NEW h \in Handles, NEW object, Unused(h) # {} => Made(object, h),
           object # Nothing, Give(h, object)
    PROVE  IInv'
<1> USE DEF IInv
<1> DEFINE new == At(h, object)
<1>0. at[h] = Nothing /\ Put(new, {}) /\ UNCHANGED <<streamType, cq>>
  BY DEF Give
<1>1. DOMAIN new = {h} /\ new[h] = object
  BY AtFacts
<1> HIDE DEF new
<1>h. /\ h \in Places /\ h \notin {Event, Packet, Request}
      /\ \A d \in Devices : h # Connected(d) /\ h \notin Storage(d)
  BY HandleFacts
<1>2. Made(object, h)
  BY <1>0, <1>1 DEF Put
<1>3. MemoryOK' /\ Becomes(new)
  <2>1. \A p \in DOMAIN new : Made(new[p], p) /\ at[p].ptrs = {}
    BY <1>0, <1>1, <1>2 DEF Nothing
  <2>2. DOMAIN new \subseteq Places
    BY <1>1, <1>h
  <2>3. QED
    BY <1>0, <2>1, <2>2, PutStep
<1>4. StoragesOK'
  BY <1>1, <1>3, <1>h, StoragesKept
<1>5. CqOK'
  <2>1. \A p \in Places \ {h} : at'[p] = at[p]
    BY <1>1, <1>3, <1>h, BecomesFacts DEF MemoryOK
  <2>2. \A d \in Devices : Connected(d) \in Places \ {h}
    BY <1>h, PlaceFacts
  <2>3. Event \in Places \ {h} /\ Packet \in Places \ {h}
    BY <1>h, PlaceFacts
  <2>4. streamType' \in {"kDeviceData", "kDataFrame"} /\ UNCHANGED cq
    BY <1>0 DEF CqOK
  <2>5. QED
    BY <2>1, <2>2, <2>3, <2>4, CqKept
<1>6. QED
  BY <1>3, <1>4, <1>5

\* The same, of an object that a conversion or a copy has just made.
LEMMA GiveNewStep ==
    ASSUME IInv, NEW h \in Handles, NEW T \in DOMAIN Struct, NEW n \in Nat,
           Give(h, New(Id(h), T, n))
    PROVE  IInv'
<1> DEFINE o == New(Id(h), T, n)
<1>1. o # Nothing
  <2>1. o.type = T /\ Nothing.type = "none"
    BY DEF New, Nothing
  <2>2. QED
    BY <2>1, StructFacts
<1>2. Unused(h) # {} => Made(o, h)
  BY NewMade
<1>3. Give(h, o)
  OBVIOUS
<1> HIDE DEF o
<1>4. QED
  BY <1>1, <1>2, <1>3, GiveStep

\* Queries.
LEMMA GetDataStep ==
    ASSUME IInv, NEW h \in Handles, NEW d \in Devices, NEW n \in Counts, GetData(h, d, n)
    PROVE  IInv'
<1>1. n \in Nat /\ "DataResponse" \in DOMAIN Struct
  BY OwnershipAssumption, StructFacts
<1>2. Give(h, New(Id(h), "DataResponse", n))
  BY DEF GetData
<1>3. QED
  BY <1>1, <1>2, GiveNewStep

LEMMA ReceiveStep ==
    ASSUME IInv, NEW h \in Handles, NEW n \in Counts, Receive(h, n)
    PROVE  IInv'
<1>1. n \in Nat /\ 0 \in Nat
  BY OwnershipAssumption
<1>2. \E T \in DOMAIN Struct, m \in Nat : Give(h, New(Id(h), T, m))
  <2>1. PICK object \in {ProtoToTrackingDevices(Id(h), n), ProtoToHardwareStates(Id(h), n),
             ProtoToWirelessManagementEvent(Id(h), n), ProtoToTrackingGroupEvent(Id(h), n),
             New(Id(h), "TrackingGroup", n), New(Id(h), "BaseStationDataResponse", n),
             New(Id(h), "DeviceIDList", 0), New(Id(h), "DataRequest", n)} : Give(h, object)
    BY DEF Receive
  <2>2. \E T \in DOMAIN Struct, m \in Nat : object = New(Id(h), T, m)
    BY <1>1, StructFacts DEF ProtoToTrackingDevices, ProtoToHardwareStates,
         ProtoToWirelessManagementEvent, ProtoToTrackingGroupEvent
  <2>3. QED
    BY <2>1, <2>2
<1>3. QED
  BY <1>2, GiveNewStep

\* Copies are made for the variable they are assigned to.
LEMMA CopyToStep ==
    ASSUME IInv, NEW h \in Handles, NEW p \in Handles \cup {Packet}, CopyTo(h, p)
    PROVE  IInv'
<1>1. p \in Places
  BY PlaceFacts
<1>2. at[p].n \in Nat
  BY <1>1 DEF IInv, MemoryOK, Fits, IsObject
<1>3. at[p].type \in DOMAIN Struct
  BY StructFacts DEF CopyTo, Copyable
<1>4. Give(h, New(Id(h), at[p].type, at[p].n))
  BY DEF CopyTo, Copy
<1>5. QED
  BY <1>2, <1>3, <1>4, GiveNewStep

LEMMA CopyDeviceStep ==
    ASSUME IInv, NEW h \in Handles, CopyDevice(h)
    PROVE  IInv'
<1> DEFINE o == [at[Event] EXCEPT !.type = "DeviceDescriptor"]
<1>1. IsObject(at[Event])
  BY PlaceFacts DEF IInv, MemoryOK, Fits
<1>2. o.type = "DeviceDescriptor" /\ o.n \in Nat
  BY <1>1 DEF IsObject
<1>3. Give(h, New(Id(h), o.type, o.n))
  BY DEF CopyDevice, Copy
<1> HIDE DEF o
<1>4. QED
  BY <1>2, <1>3, StructFacts, GiveNewStep

\* A step that changes one variable of the application leaves CQ what it has.
LEMMA HandleStep ==
    ASSUME IInv, NEW h \in Handles, MemoryOK', StoragesOK', UNCHANGED <<streamType, cq>>,
           \A q \in Places \ {h} : at'[q] = at[q]
    PROVE  IInv'
<1> USE DEF IInv
<1>h. h \in Places /\ h \notin {Event, Packet, Request} /\ \A d \in Devices : h # Connected(d)
  BY HandleFacts
<1>1. \A d \in Devices : Connected(d) \in Places \ {h}
  BY <1>h, PlaceFacts
<1>2. Event \in Places \ {h} /\ Packet \in Places \ {h}
  BY <1>h, PlaceFacts
<1>3. streamType' \in {"kDeviceData", "kDataFrame"} /\ UNCHANGED cq
  BY DEF CqOK
<1>4. CqOK'
  BY <1>1, <1>2, <1>3, CqKept
<1>5. QED
  BY <1>4

\* A struct is moved out of its pointer: its members stay where they are, in new hands.
LEMMA MoveStep ==
    ASSUME IInv, NEW h \in Handles, Move(h)
    PROVE  IInv'
<1> USE DEF IInv
<1> DEFINE o == Moved(at[h])
           gone == MoveDeletes(at[h])
           made == {}
<1>0. /\ MoveDeletes(at[h]) # {} /\ Becomes(At(h, o)) /\ heap' = (heap \cup made) \ gone
      /\ UNCHANGED <<streamType, cq>>
  BY DEF Move
<1>h. h \in Places /\ \A d \in Devices : h \notin Storage(d)
  BY HandleFacts
<1>f. Fits(at[h], h) /\ at[h] # Nothing
  BY <1>0, <1>h, NothingMade DEF MemoryOK
<1>1. Made(o, h) /\ o.ptrs = at[h].ptrs \ gone
  BY <1>0, <1>f, MovedMade
<1>2. ~GivenUp(at[h]) /\ at[h].ptrs \subseteq heap
  BY <1>0, <1>h DEF GivenUp, MemoryOK, Owned
<1>3. \A b \in gone : b[1] \in {h} \X Generations
  BY <1>f DEF MoveDeletes, Pointers, Fits
<1>4. \A b \in made : FALSE
  OBVIOUS
<1> HIDE DEF o, gone, made
<1>5. /\ \A b \in o.ptrs : ~GivenUp(o) /\ b \in heap'
      /\ \A b \in at[h].ptrs : b \in gone \/ (b \in o.ptrs /\ ~GivenUp(o))
  BY <1>0, <1>1, <1>2 DEF Made
<1>6. MemoryOK' /\ StoragesOK' /\ \A q \in Places \ {h} : at'[q] = at[q]
  <2>1. /\ \A b \in made : /\ b[1] \in Places \X Generations /\ b[2] \in DOMAIN Struct
                           /\ KnownLeak(b) \/ b \in gone \/ (b \in o.ptrs /\ ~GivenUp(o))
        /\ \A b \in o.ptrs : GivenUp(o) \/ b \in heap'
        /\ \A b \in at[h].ptrs :
             GivenUp(at[h]) \/ b \in gone \/ KnownLeak(b) \/ (b \in o.ptrs /\ ~GivenUp(o))
        /\ Fits(o, h)
    BY <1>1, <1>4, <1>5 DEF Made
  <2>2. QED
    BY <1>0, <1>h, <1>3, <2>1, ReplaceOne
<1>7. QED
  BY <1>0, <1>6, HandleStep

\* What the members of a struct lead to is deleted, and it counts as given up.
LEMMA DestroyMembersStep ==
    ASSUME IInv, NEW h \in Handles, DestroyMembers(h)
    PROVE  IInv'
<1> USE DEF IInv
<1> DEFINE o == WithoutMembers(at[h])
           gone == MembersDeleted(at[h])
           made == {}
<1>0. /\ MoveDeletes(at[h]) = {} /\ at[h].type \in HasDestroyMembers
      /\ Becomes(At(h, o)) /\ heap' = (heap \cup made) \ gone
      /\ UNCHANGED <<streamType, cq>>
  BY DEF DestroyMembers
<1>h. h \in Places /\ \A d \in Devices : h \notin Storage(d)
  BY HandleFacts
<1>f. Fits(at[h], h)
  BY <1>h DEF MemoryOK
<1>1. Fits(o, h) /\ GivenUp(o)
  BY <1>0, <1>f, WithoutFits
<1>2. \A b \in at[h].ptrs : b \in gone \/ KnownLeak(b)
  BY <1>0, <1>f, DeletedAll
<1>3. \A b \in gone : b[1] \in {h} \X Generations
  <2>1. gone \subseteq at[h].ptrs
    BY <1>f, DeletedOwn
  <2>2. QED
    BY <1>f, <2>1 DEF Fits, Nothing
<1>4. \A b \in made : FALSE
  OBVIOUS
<1> HIDE DEF o, gone, made
<1>5. MemoryOK' /\ StoragesOK' /\ \A q \in Places \ {h} : at'[q] = at[q]
  <2>1. /\ \A b \in made : /\ b[1] \in Places \X Generations /\ b[2] \in DOMAIN Struct
                           /\ KnownLeak(b) \/ b \in gone \/ (b \in o.ptrs /\ ~GivenUp(o))
        /\ \A b \in o.ptrs : GivenUp(o) \/ b \in heap'
        /\ \A b \in at[h].ptrs :
             GivenUp(at[h]) \/ b \in gone \/ KnownLeak(b) \/ (b \in o.ptrs /\ ~GivenUp(o))
    BY <1>1, <1>2, <1>4
  <2>2. Fits(o, h) /\ Becomes(At(h, o)) /\ heap' = (heap \cup made) \ gone
    BY <1>0, <1>1
  <2>3. /\ MemoryOK' /\ StoragesOK'
        /\ at'[h] = o /\ \A q \in Places \ {h} : at'[q] = at[q]
    BY <1>h, <1>3, <2>1, <2>2, ReplaceOne
  <2>4. QED
    BY <2>3
<1>6. QED
  BY <1>0, <1>5, HandleStep

\* An object is destroyed, or a struct that has given up what it owned goes out of scope.
LEMMA DestroyStep ==
    ASSUME IInv, NEW h \in Handles, Destroy(h)
    PROVE  IInv'
<1> USE DEF IInv
<1>0. Becomes(At(h, Nothing)) /\ UNCHANGED <<streamType, cq>>
  BY DEF Destroy
<1>h. h \in Places /\ \A d \in Devices : h \notin Storage(d)
  BY HandleFacts
<1>1. CASE GivenUp(at[h])
  <2> DEFINE o == Nothing
             gone == {}
             made == {}
  <2>1. heap' = (heap \cup made) \ gone
    BY <1>1 DEF Destroy
  <2>2. Fits(o, h) /\ o.ptrs = {}
    BY NothingMade DEF Made, Nothing
  <2>3. /\ \A b \in made : FALSE
        /\ \A b \in gone : FALSE
    OBVIOUS
  <2>4. Becomes(At(h, o))
    BY <1>0
  <2> HIDE DEF o, gone, made
  <2>5. /\ \A b \in gone : b[1] \in {h} \X Generations
        /\ \A b \in made : /\ b[1] \in Places \X Generations /\ b[2] \in DOMAIN Struct
                           /\ KnownLeak(b) \/ b \in gone \/ (b \in o.ptrs /\ ~GivenUp(o))
        /\ \A b \in o.ptrs : GivenUp(o) \/ b \in heap'
        /\ \A b \in at[h].ptrs :
             GivenUp(at[h]) \/ b \in gone \/ KnownLeak(b) \/ (b \in o.ptrs /\ ~GivenUp(o))
    BY <1>1, <2>2, <2>3
  <2>6. /\ MemoryOK' /\ StoragesOK'
        /\ at'[h] = o /\ \A q \in Places \ {h} : at'[q] = at[q]
    <3>1. Fits(o, h) /\ Becomes(At(h, o)) /\ heap' = (heap \cup made) \ gone
      BY <2>1, <2>2, <2>4
    <3>2. QED
      BY <1>h, <2>5, <3>1, ReplaceOne
  <2>7. QED
    BY <1>0, <2>6, HandleStep
<1>2. CASE ~GivenUp(at[h])
  <2>1. MoveDeletes(at[h]) # {} /\ heap' = heap \ Deleted(at[h])
    BY <1>2 DEF Destroy
  <2>2. at[h] # Nothing
    BY <2>1, NothingMade
  <2>3. heap' = heap \ Destroyed(at[h])
    BY <2>1, <2>2 DEF Destroyed
  <2>4. MemoryOK' /\ StoragesOK' /\ \A q \in Places \ {h} : at'[q] = at[q]
    BY <1>0, <1>h, <2>3, ScopeEnds
  <2>5. QED
    BY <1>0, <2>4, HandleStep
<1>3. QED
  BY <1>1, <1>2

\* A manager is made: the copy of the request is moved in, and its shell deleted.
LEMMA MakeManagerStep ==
    ASSUME IInv, NEW h \in Handles, NEW type \in {"kDeviceData", "kDataFrame"},
           MakeManager(h, type)
    PROVE  IInv'
<1> USE DEF IInv
<1> DEFINE copy == Copy(Id(Request), at[h])
           o == Moved(copy)
           gone == MoveDeletes(copy)
           made == copy.ptrs
<1>0. /\ at[Request] = Nothing /\ at[h].type = "DataRequest" /\ Unused(Request) # {}
      /\ Becomes(At(Request, o)) /\ heap' = (heap \cup made) \ gone
      /\ streamType' = type /\ UNCHANGED cq
  BY DEF MakeManager, HasManager
<1>r. Request \in Places /\ \A d \in Devices : Request \notin Storage(d) /\ Request # Connected(d)
  BY PlaceFacts, StorageFacts
<1>n. at[h].n \in Nat
  BY HandleFacts DEF MemoryOK, Fits, IsObject
<1>1. Made(copy, Request) /\ MoveDeletes(copy) # {} /\ copy.type = "DataRequest"
  BY <1>0, <1>n, NewMade, StructFacts DEF Copy
<1> HIDE DEF copy
<1>2. /\ Made(o, Request) /\ o.ptrs = made \ gone /\ copy # Nothing /\ Fits(copy, Request)
  BY <1>1, MovedMade, NothingMade DEF Made
<1>3. \A b \in made : b[1] \in {Request} \X Generations /\ b[2] \in DOMAIN Struct
  BY <1>2 DEF Fits
<1>4. gone \subseteq made
  BY DEF MoveDeletes, Pointers
<1>5. \A b \in made : b[1] \in Places \X Generations /\ KnownLeak(b)
  BY <1>3, <1>r DEF KnownLeak
<1> HIDE DEF o, gone, made
<1>6. /\ \A b \in gone : b[1] \in {Request} \X Generations
      /\ \A b \in made : /\ b[1] \in Places \X Generations /\ b[2] \in DOMAIN Struct
                         /\ KnownLeak(b) \/ b \in gone \/ (b \in o.ptrs /\ ~GivenUp(o))
  BY <1>3, <1>4, <1>5
<1>7. /\ \A b \in o.ptrs : GivenUp(o) \/ b \in heap'
      /\ \A b \in at[Request].ptrs :
           GivenUp(at[Request]) \/ b \in gone \/ KnownLeak(b) \/ (b \in o.ptrs /\ ~GivenUp(o))
  BY <1>0, <1>2 DEF Nothing
<1>8. Fits(o, Request) /\ Becomes(At(Request, o)) /\ heap' = (heap \cup made) \ gone
  BY <1>0, <1>2 DEF Made
<1>9. /\ MemoryOK' /\ StoragesOK'
      /\ at'[Request] = o /\ \A q \in Places \ {Request} : at'[q] = at[q]
  BY <1>r, <1>6, <1>7, <1>8, ReplaceOne
<1>10. CqOK'
  <2>1. \A d \in Devices : Connected(d) \in Places \ {Request}
    BY <1>r, PlaceFacts
  <2>2. Event \in Places \ {Request} /\ Packet \in Places \ {Request}
    BY PlaceFacts
  <2>3. QED
    BY <1>0, <1>9, <2>1, <2>2, CqKept
<1>11. QED
  BY <1>9, <1>10

\* The manager opens the storages of the devices that are connected.
LEMMA OpenStep == IInv /\ Open => IInv'
<1> SUFFICES ASSUME IInv, Open
             PROVE  IInv'
  OBVIOUS
<1> USE DEF IInv
<1>0. PICK new \in OpenStorages : Put(new, {})
  BY DEF Open
<1>u. UNCHANGED <<streamType, cq>>
  BY DEF Open
<1>1. \A p \in DOMAIN new : new[p] = Nothing \/ Unused(p) # {}
  BY <1>0 DEF Put
<1>2. /\ DOMAIN new \subseteq LibraryPlaces
      /\ DOMAIN new \cap {Event, Packet, Request} = {}
      /\ \A p \in DOMAIN new : Made(new[p], p) /\ at[p] = Nothing
      /\ \A d \in Devices : Device(d) \in DOMAIN new =>
           Storage(d) \subseteq DOMAIN new /\ new[Device(d)] # Nothing
      /\ \A d \in Devices, s \in Slots : Slot(d, s) \in DOMAIN new =>
           MoveDeletes(new[Slot(d, s)]) = {} /\ Device(d) \in DOMAIN new
  BY <1>1, OpenStoragesFacts
<1>p. DOMAIN new \subseteq Places
  BY <1>2, PlaceFacts
<1>3. MemoryOK' /\ Becomes(new)
  <2>1. \A p \in DOMAIN new : at[p].ptrs = {}
    BY <1>2 DEF Nothing
  <2>2. QED
    BY <1>0, <1>2, <1>p, <2>1, PutStep
<1>4. StoragesOK'
  BY <1>2, <1>3, <1>p, StoragesStep
<1>5. CqOK'
  <2>1. \A d \in Devices : Connected(d) \notin DOMAIN new
    BY OpenStoragesPlaces, StorageFacts
  <2>2. \A q \in Places \ DOMAIN new : at'[q] = at[q]
    BY <1>3, <1>p, BecomesFacts DEF MemoryOK
  <2>3. \A d \in Devices : Connected(d) \in Places \ DOMAIN new
    BY <2>1, PlaceFacts
  <2>4. Event \in Places \ DOMAIN new /\ Packet \in Places \ DOMAIN new
    BY <1>2, PlaceFacts
  <2>5. streamType' \in {"kDeviceData", "kDataFrame"} /\ UNCHANGED cq
    BY <1>u DEF CqOK
  <2>6. QED
    BY <2>2, <2>3, <2>4, <2>5, CqKept
<1>6. QED
  BY <1>3, <1>4, <1>5

\* The last reference goes: every storage is deleted and the request forgotten.
LEMMA DestroyManagerStep == IInv /\ DestroyManager => IInv'
<1> SUFFICES ASSUME IInv, DestroyManager
             PROVE  IInv'
  OBVIOUS
<1> USE DEF IInv
<1> DEFINE fs == {RemoveDeviceStorage(d) : d \in Devices} \cup {At(Request, Nothing)}
           new == Union(fs)
           gone == UNION {StorageDeleted(d) : d \in Devices}
           made == {}
           all == UNION {Storage(d) : d \in Devices}
<1>0. Becomes(new) /\ heap' = (heap \cup made) \ gone /\ UNCHANGED <<streamType, cq>>
  BY DEF DestroyManager
<1>g. /\ \A b \in gone : \E d \in Devices : b \in StorageDeleted(d)
      /\ \A d \in Devices : StorageDeleted(d) \subseteq gone
  OBVIOUS
<1>s. /\ \A p \in all : \E d \in Devices : p \in Storage(d)
      /\ \A d \in Devices : Storage(d) \subseteq all
  OBVIOUS
<1>n. DOMAIN new = all \cup {Request} /\ \A p \in DOMAIN new : new[p] = Nothing
  <2>1. DOMAIN At(Request, Nothing) = {Request} /\ At(Request, Nothing)[Request] = Nothing
    BY AtFacts
  <2>2. \A d \in Devices : /\ DOMAIN RemoveDeviceStorage(d) = Storage(d)
                           /\ \A p \in Storage(d) : RemoveDeviceStorage(d)[p] = Nothing
    BY RemoveFacts
  <2>3. \A f \in fs : f = At(Request, Nothing) \/ \E d \in Devices : f = RemoveDeviceStorage(d)
    OBVIOUS
  <2>4. At(Request, Nothing) \in fs /\ \A d \in Devices : RemoveDeviceStorage(d) \in fs
    OBVIOUS
  <2> HIDE DEF fs, all
  <2>5. /\ DOMAIN new = UNION {DOMAIN f : f \in fs}
        /\ \A p \in DOMAIN new : \E f \in fs : p \in DOMAIN f /\ new[p] = f[p]
    BY UnionFacts
  <2> HIDE DEF new
  <2>6. \A f \in fs : DOMAIN f \subseteq all \cup {Request} /\ \A p \in DOMAIN f : f[p] = Nothing
    BY <1>s, <2>1, <2>2, <2>3
  <2>7. all \cup {Request} \subseteq DOMAIN new
    BY <1>s, <2>1, <2>2, <2>4, <2>5
  <2>8. QED
    BY <2>5, <2>6, <2>7
<1>m. \A b \in made : FALSE
  OBVIOUS
<1> HIDE DEF fs, new, gone, made, all
<1>p. DOMAIN new \subseteq Places /\ Request \in Places
  BY <1>n, <1>s, StorageFacts, PlaceFacts
<1>1. \A b \in gone : \E p \in DOMAIN new : b[1] \in {p} \X Generations
  BY <1>g, <1>n, <1>s, StorageFacts
<1>2. \A p \in DOMAIN new : \A b \in at[p].ptrs : b \in gone \/ KnownLeak(b)
  <2>1. \A b \in at[Request].ptrs : KnownLeak(b)
    BY <1>p DEF MemoryOK, Fits, Nothing, KnownLeak
  <2>2. \A p \in all : \A b \in at[p].ptrs : b \in gone \/ KnownLeak(b)
    BY <1>s, <1>g, StorageFacts
  <2>3. QED
    BY <1>n, <2>1, <2>2
<1>3. \A p \in DOMAIN new : Fits(new[p], p) /\ new[p].ptrs = {} /\ MoveDeletes(new[p]) = {}
  BY <1>n, NothingMade DEF Made, Nothing
<1>4. Replaces(new, gone, made)
  BY <1>0, <1>m, <1>p, <1>1, <1>2, <1>3 DEF Replaces
<1>5. MemoryOK'
  BY <1>4, ReplaceStep
<1>6. StoragesOK'
  <2>1. \A d \in Devices : /\ Storage(d) \subseteq DOMAIN new
                           /\ Device(d) \in DOMAIN new
                           /\ \A s \in Slots : Slot(d, s) \in DOMAIN new
    BY <1>n, <1>s, RemoveFacts
  <2>2. QED
    BY <1>0, <1>n, <1>p, <1>3, <2>1, StoragesStep
<1>7. CqOK'
  <2>1. \A p \in DOMAIN new : p = Request \/ \E d \in Devices : p \in Storage(d)
    BY <1>n, <1>s
  <2>2. \A q \in Places \ DOMAIN new : at'[q] = at[q]
    BY <1>0, <1>p, BecomesFacts DEF MemoryOK
  <2>3. \A d \in Devices : Connected(d) \in Places \ DOMAIN new
    BY <2>1, PlaceFacts, StorageFacts
  <2>4. Event \in Places \ DOMAIN new /\ Packet \in Places \ DOMAIN new
    BY <2>1, PlaceFacts, StorageFacts
  <2>5. streamType' \in {"kDeviceData", "kDataFrame"} /\ UNCHANGED cq
    BY <1>0 DEF CqOK
  <2>6. QED
    BY <2>2, <2>3, <2>4, <2>5, CqKept
<1>8. QED
  BY <1>5, <1>6, <1>7

-----------------------------------------------------------------------------
(* The theorems.                                                           *)

LEMMA InitInv == Init => IInv
<1> SUFFICES ASSUME Init
             PROVE  IInv
  OBVIOUS
<1>1. DOMAIN at = Places /\ heap = {} /\ \A p \in Places : at[p] = Nothing
  BY DEF Init
<1>2. Nothing.ptrs = {}
  BY DEF Nothing
<1>3. MemoryOK
  <2>1. \A p \in Places : Fits(at[p], p)
    BY <1>1, NothingMade DEF Made
  <2>2. \A p \in Places : Owned(p) \subseteq heap
    BY <1>1, <1>2 DEF Owned
  <2>3. QED
    BY <1>1, <2>1, <2>2 DEF MemoryOK, NothingLost
<1>4. CqOK
  BY <1>1, PlaceFacts DEF Init, CqOK, Idle, Handling
<1>5. StoragesOK
  BY <1>1, NothingMade, PlaceFacts DEF StoragesOK
<1>6. QED
  BY <1>3, <1>4, <1>5 DEF IInv

LEMMA CqStepKeeps == IInv /\ CqStep => IInv'
  BY EventArrivesStep, EventManagersStep, EventDoneStep, UpdateDeviceDataStep,
     UpdateDataFrameStep, UpdateDoneStep DEF CqStep

LEMMA ApplicationStepKeeps == IInv /\ ApplicationStep => IInv'
  BY MakeManagerStep, GetDataStep, ReceiveStep, CopyToStep, CopyDeviceStep, MoveStep,
     DestroyMembersStep, DestroyStep DEF ApplicationStep

LEMMA StutterKeeps == IInv /\ UNCHANGED vars => IInv'
<1> SUFFICES ASSUME IInv, UNCHANGED vars
             PROVE  IInv'
  OBVIOUS
<1>1. MemoryOK'
  BY DEF IInv, vars, MemoryOK, Fits, Owned, NothingLost, KnownLeak
<1>2. StoragesOK'
  BY DEF IInv, vars, StoragesOK, HasStorage, MoveDeletes, Pointers
<1>3. CqOK'
  BY DEF IInv, vars, CqOK, Event, Packet, Connected
<1>4. QED
  BY <1>1, <1>2, <1>3 DEF IInv

LEMMA StepInv == IInv /\ [Next]_vars => IInv'
  BY CqStepKeeps, ChannelLostStep, ApplicationStepKeeps, OpenStep, DestroyManagerStep,
     StutterKeeps DEF Next

\* Every place holds what its type says, made for that place and still allocated, whatever
\* CQ, the channel monitor and the application do.
THEOREM Invariance == Spec => []IInv
  BY InitInv, StepInv, PTL DEF Spec

\* Every object is one of the API's, of a size, and points to its own members.
THEOREM TypeCorrect == Spec => []TypeOK
<1>1. IInv => TypeOK
  <2> SUFFICES ASSUME IInv
               PROVE  TypeOK
    OBVIOUS
  <2>1. ASSUME NEW p \in Places, at[p] # Nothing
        PROVE  /\ at[p].type \in DOMAIN Struct /\ at[p].n \in Nat
               /\ {b[3] : b \in at[p].ptrs} \subseteq Members(at[p].type, at[p].n) \cup {Shell}
    <3>1. Fits(at[p], p)
      BY DEF IInv, MemoryOK
    <3>2. QED
      BY <2>1, <3>1 DEF Fits, IsObject
  <2>2. cq.pc \in {"idle", "managers", "callback", "packet"}
    BY DEF IInv, CqOK, Idle, Handling
  <2>3. QED
    BY <2>1, <2>2 DEF TypeOK, IInv, MemoryOK, CqOK
<1>2. QED
  BY <1>1, Invariance, PTL

\* However events, packets, queries, copies, moves and deletions follow each other, every
\* block has one owner and is allocated while it has one: nobody reads or deletes what
\* another has deleted.
THEOREM AlwaysOneOwner == Spec => []OneOwner
<1>1. IInv => OneOwner
  <2> SUFFICES ASSUME IInv
               PROVE  OneOwner
    OBVIOUS
  <2>1. \A p \in Places : Owned(p) \subseteq heap
    BY DEF IInv, MemoryOK
  <2>2. \A p \in Places : \A b \in Owned(p) : b[1] \in {p} \X Generations
    BY DEF IInv, MemoryOK, Fits, Owned, Nothing
  <2>3. QED
    BY <2>1, <2>2 DEF OneOwner
<1>2. QED
  BY <1>1, Invariance, PTL

\* No block is ever lost but for the two leaks of the code, through DestroyTrackingGroupMembers
\* and through request_.
THEOREM NeverLost == Spec => []NothingLost
<1>1. IInv => NothingLost
  BY DEF IInv, MemoryOK
<1>2. QED
  BY <1>1, Invariance, PTL
=============================================================================
