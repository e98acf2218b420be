----------------------- MODULE RegistryStreamsProofs -----------------------
(***************************************************************************)
(* Theorems about the streams and the storages of StreamRegistry: that no  *)
(* stream is lost while it can deliver, that a data frame stream covers    *)
(* the connected devices, and that no storage outlives its device.  They   *)
(* rest on the invariant of StreamRegistryProofs and on one of their own.  *)
(***************************************************************************)
EXTENDS StreamRegistryProofs

-----------------------------------------------------------------------------
(* The inductive invariant.                                                *)

FramePcs == {"removeFrame", "openFrame", "recordFrame"}
RecordPcs == {"recordDevice", "recordFrame"}
EventPcs == {"lockList"} \cup UpdatePcs
StoppedPcs == {"cancelled", "cleared"} \cup Closing

\* Every overlap of the two threads has been noted.
OverlapNoted == \A m \in Managers : Overlap(m) => overlapped[m]

\* A thread holds a call only to record it, in the manager the call was opened for; a
\* callback runs for a call that is not finished.
HoldOK ==
    /\ \A m \in Managers : IF upc[m] \in RecordPcs THEN calls[ucall[m]].mgr = m
                           ELSE ucall[m] = NoCall
    /\ cqPc \in RecordPcs => calls[cqCall].mgr = cqMgr
    /\ cqPc = "callback" => calls[cqCall].status # "FINISH"

\* As long as the two threads have not overlapped, the place where one of them is about to
\* record is free, the frame being replaced is cancelled, and CloseRequest has cancelled
\* every stream.
FreePlace(m) ==
    /\ upc[m] = "recordDevice" => streams[m][udev[m]] = NoCall
    /\ Kind[m] = "frame" /\ upc[m] \in {"none", "registered", "recordFrame"} => frame[m] = NoCall
    /\ cqPc = "recordDevice" /\ cqMgr = m => streams[m][cqDev] = NoCall
    /\ cqPc \in {"openFrame", "recordFrame"} /\ cqMgr = m => frame[m] = NoCall
    /\ cqPc = "removeFrame" /\ cqMgr = m /\ frame[m] # NoCall => ~Delivering(frame[m])
Stopped(m) ==
    upc[m] \in StoppedPcs =>
        \A c \in Calls : calls[c].mgr = m => ~Delivering(c)
AloneOK == \A m \in Managers : ~overlapped[m] => FreePlace(m) /\ Stopped(m)

\* The event that changed connected_devices_ has not been shown to m yet, and m asked for it.
Pending(m) ==
    /\ IsDeviceDataRequested(m, cqDev)
    /\ cqPc = "lockList" \/ (cqPc \in UpdatePcs /\ m \in cqTodo)
Present(m) == {d \in connected : IsDeviceDataRequested(m, d)}

\* The frame of m, recorded or about to be, covers what is connected, or m will be shown
\* the event.
FrameOK ==
    drops = 0 =>
        /\ \A m \in list : Kind[m] = "frame" /\ ~overlapped[m] =>
             /\ frame[m] # NoCall => calls[frame[m]].covers = Present(m) \/ Pending(m)
             /\ upc[m] = "recordFrame" => calls[ucall[m]].covers = Present(m) \/ Pending(m)
        /\ cqPc = "recordFrame" => calls[cqCall].covers = Present(cqMgr)

\* StorageExact, with the device whose storage UpdateDataFrameStream has removed counted as
\* gone; a thread that opens devices has connected_devices_ locked.
ExactOK ==
    /\ \A m \in Managers : \A d \in storage[m] : IsDeviceDataRequested(m, d)
    /\ \A m \in Managers : upc[m] = "none" => storage[m] = {}
    /\ \A m \in Managers : upc[m] \in {"opening", "recordDevice"} => utodo[m] \subseteq connected
    /\ drops = 0 /\ cqPc \in EventPcs /\ cqConn => cqDev \in connected
    /\ drops = 0 => \A m \in list : \A d \in storage[m] :
         \/ d \in connected
         \/ cqPc = "lockList" /\ ~cqConn /\ d = cqDev
         \/ /\ cqPc \in UpdatePcs /\ m \in cqTodo /\ ~cqConn /\ d = cqDev
            /\ ~(cqPc \in FramePcs /\ m = cqMgr)

SInv == IInv /\ OverlapNoted /\ HoldOK /\ AloneOK /\ NoOrphan /\ FrameOK /\ ExactOK

-----------------------------------------------------------------------------
(* What the steps leave alone.                                             *)

TagPcs == {"next", "callback", "delete", "spin"}

\* While the CQ thread works on a tag, nothing of an event or of a request changes.
LEMMA TagStepKeeps ==
    ASSUME TagStep
    PROVE  /\ cqPc \in TagPcs /\ cqPc' \in TagPcs
           /\ UNCHANGED <<connected, list, storage, nextCall, user, cqDev, cqConn, cqMgr, cqTodo,
                          events, drops, overlapped>>
<1>1. CASE \E c \in Calls : Proceed(c)
  BY <1>1 DEF Proceed, ProceedConnecting, ProceedDeliver, ProceedSkip, TakeFailed, registry, cq,
              TagPcs
<1>2. CASE EndCallback \/ BeginSpin
  BY <1>2 DEF EndCallback, BeginSpin, registry, TagPcs
<1>3. CASE cqPc = "delete" /\ Deleted(cqCall)
  BY <1>3 DEF Deleted, TagPcs
<1>4. CASE Spin
  BY <1>4 DEF Spin, vars, registry, cq, TagPcs
<1>5. QED
  BY <1>1, <1>2, <1>3, <1>4
  DEF TagStep, DeleteUnassociated, DeleteFrame, DeleteDevice, DeleteUnlisted

\* An application thread changes neither the CQ thread nor connected_devices_.
LEMMA UserStepKeeps ==
    ASSUME NEW m \in Managers, UserStep(m), TypeOK
    PROVE  /\ UNCHANGED <<cq, connected, events, drops>>
           /\ \A n \in Managers \ {m} :
                /\ upc'[n] = upc[n] /\ ucall'[n] = ucall[n] /\ udev'[n] = udev[n]
                /\ utodo'[n] = utodo[n] /\ storage'[n] = storage[n]
                /\ streams'[n] = streams[n] /\ frame'[n] = frame[n]
<1>t. /\ upc \in [Managers -> UserPcs] /\ ucall \in [Managers -> Calls \cup {NoCall}]
      /\ udev \in [Managers -> Devices] /\ utodo \in [Managers -> SUBSET Devices]
      /\ storage \in [Managers -> SUBSET Devices] /\ frame \in [Managers -> Calls \cup {NoCall}]
      /\ streams \in [Managers -> [Devices -> Calls \cup {NoCall}]]
  BY DEF TypeOK
<1>1. UNCHANGED <<cq, connected, events, drops>>
  BY DEF UserStep, RegisterRequest, BeginOpenDevices, OpenNextDevice, RecordDevice,
         EndOpenDevices, OpenFrame, RecordFrame, CancelStreams, ClearStreams, Deregister,
         Destroy, registry
<1>2. ASSUME NEW n \in Managers \ {m}
      PROVE  upc'[n] = upc[n] /\ ucall'[n] = ucall[n] /\ udev'[n] = udev[n] /\ utodo'[n] = utodo[n]
  BY <1>t DEF UserStep, RegisterRequest, BeginOpenDevices, OpenNextDevice, RecordDevice,
         EndOpenDevices, OpenFrame, RecordFrame, CancelStreams, ClearStreams, Deregister,
         Destroy, registry
<1>3. ASSUME NEW n \in Managers \ {m}
      PROVE  storage'[n] = storage[n] /\ streams'[n] = streams[n] /\ frame'[n] = frame[n]
  BY <1>t DEF UserStep, RegisterRequest, BeginOpenDevices, OpenNextDevice, RecordDevice,
         EndOpenDevices, OpenFrame, RecordFrame, CancelStreams, ClearStreams, Deregister,
         Destroy, registry, AddDeviceStorage, AddDataStream
<1>4. QED
  BY <1>1, <1>2, <1>3

\* gRPC and the channel monitor do not touch a thread's place or a recorded pointer.
LEMMA EnvironmentKeeps ==
    ASSUME Environment
    PROVE  /\ UNCHANGED <<list, storage, streams, frame, nextCall, user, cqCall, cqMgr, cqTodo,
                          overlapped>>
           /\ \/ cqPc = "next" /\ cqPc' = "lockList" /\ UNCHANGED calls
              \/ UNCHANGED <<cqPc, cqDev, cqConn>>
  BY DEF Environment, ReceiveEvent, ChannelLost, CompleteOk, CompleteFail, registry, cq

\* An event changes no application thread.
LEMMA EventStepKeeps ==
    ASSUME EventStep
    PROVE  /\ UNCHANGED <<list, user, connected, events, drops>>
           /\ cqPc \in EventPcs /\ cqPc' \in {"next"} \cup UpdatePcs
  BY DEF EventStep, LockList, UpdateSkip, UpdateDeviceGone, UpdateDevicePresent, UpdateFrame,
         CqRecordDevice, CqRemoveFrame, CqOpenFrame, CqRecordFrame, EndEvent, registry,
         EventPcs, UpdatePcs

-----------------------------------------------------------------------------
(* Overlaps.                                                               *)

\* What was noted stays noted, and an overlap that begins is noted.
LEMMA NoteStep ==
    ASSUME TypeOK, PhaseOK, OverlapNoted, [Next]_vars
    PROVE  /\ OverlapNoted'
           /\ \A m \in Managers : overlapped[m] => overlapped'[m]
<1>n. CASE NoteOverlap
  BY <1>n DEF NoteOverlap, OverlapNoted
<1>k. CASE overlapped' = overlapped /\ \A m \in Managers : Overlap(m)' => Overlap(m)
  BY <1>k DEF OverlapNoted
<1>t. /\ upc \in [Managers -> UserPcs] /\ list \in SUBSET Managers
      /\ cqMgr \in Managers \cup {NoManager}
  BY DEF TypeOK
<1>1. ASSUME NEW m \in Managers, UserStep(m)
      PROVE  \/ NoteOverlap
             \/ overlapped' = overlapped /\ \A n \in Managers : Overlap(n)' => Overlap(n)
  <2>0. UNCHANGED cq /\ \A n \in Managers \ {m} : upc'[n] = upc[n]
    BY <1>1, UserStepKeeps
  <2>1. CASE (\E d \in Devices : OpenNextDevice(m, d)) \/ OpenFrame(m) \/ CancelStreams(m)
    BY <2>1 DEF OpenNextDevice, OpenFrame, CancelStreams
  <2>2. CASE RegisterRequest(m)
    BY <2>0, <2>2, <1>t DEF RegisterRequest, Overlap, PhaseOK, ReplacePcs, UpdatePcs, Closing, cq
  <2>3. CASE BeginOpenDevices(m) \/ RecordDevice(m) \/ EndOpenDevices(m) \/ RecordFrame(m)
             \/ ClearStreams(m) \/ Deregister(m) \/ Destroy(m)
    BY <2>0, <2>3, <1>t DEF BeginOpenDevices, RecordDevice, EndOpenDevices, RecordFrame,
           ClearStreams, Deregister, Destroy, Overlap, cq
  <2>4. QED
    BY <1>1, <2>1, <2>2, <2>3 DEF UserStep
<1>2. CASE TagStep
  <2>1. \A n \in Managers : ~Overlap(n)'
    BY <1>2, TagStepKeeps DEF Overlap, TagPcs
  <2>2. QED
    BY <1>2, <2>1, <1>k, TagStepKeeps
<1>3. ASSUME EventStep
      PROVE  \/ NoteOverlap
             \/ overlapped' = overlapped /\ \A n \in Managers : Overlap(n)' => Overlap(n)
  <2>1. CASE \E m \in Managers : UpdateDevicePresent(m) \/ UpdateFrame(m)
    BY <2>1 DEF UpdateDevicePresent, UpdateFrame
  <2>2. CASE \/ LockList \/ CqRecordDevice \/ CqRemoveFrame \/ CqOpenFrame \/ CqRecordFrame
             \/ EndEvent \/ \E m \in Managers : UpdateSkip(m) \/ UpdateDeviceGone(m)
    BY <2>2 DEF LockList, CqRecordDevice, CqRemoveFrame, CqOpenFrame, CqRecordFrame, EndEvent,
                UpdateSkip, UpdateDeviceGone, Overlap, user
  <2>3. QED
    BY <1>3, <2>1, <2>2 DEF EventStep
<1>4. CASE Environment
  <2>1. \A n \in Managers : Overlap(n)' => Overlap(n)
    BY <1>4, EnvironmentKeeps DEF Overlap, user
  <2>2. QED
    BY <1>4, <2>1, <1>k, EnvironmentKeeps
<1>5. CASE Idle \/ UNCHANGED vars
  BY <1>5, <1>k DEF Idle, vars, cq, user, Overlap
<1>6. QED
  BY <1>n, <1>k, <1>1, <1>2, <1>3, <1>4, <1>5 DEF Next

-----------------------------------------------------------------------------
(* Streams that can deliver.                                               *)

\* No step revives a stream: one that can deliver after it could before, or is new.
LEMMA DeliverStep ==
    ASSUME TypeOK, CallsOK, HoldOK, PhaseOK, [Next]_vars,
           NEW c \in Calls, calls[c].life # "unused", Delivering(c)'
    PROVE  Delivering(c)
<1>t. calls \in [Calls -> Record] /\ cqCall \in Calls \cup {NoCall}
  BY DEF TypeOK
<1> USE DEF Delivering
<1>k. CASE calls' = calls
  BY <1>k
<1>a. ASSUME NEW S, calls' = CancelAll(S)
      PROVE  Delivering(c)
  BY <1>a, <1>t DEF CancelAll, CancelCall, Record
<1>o. ASSUME NEW m, NEW D, NEW t, OpenStream(m, D, t)
      PROVE  Delivering(c)
  BY <1>o, <1>t DEF OpenStream, CallsOK, Calls
<1>c. ASSUME NEW b \in Calls, calls[b].op = "ok", calls[b].status # "FINISH",
             calls' = [calls EXCEPT ![b] = ReadAgain(@)]
      PROVE  Delivering(c)
  BY <1>c, <1>t DEF ReadAgain, Record
<1>1. ASSUME NEW m \in Managers, UserStep(m)
      PROVE  Delivering(c)
  <2>1. \/ UNCHANGED calls
        \/ \E S : calls' = CancelAll(S)
        \/ \E D : OpenStream(m, D, "user")
    BY <1>1 DEF UserStep, RegisterRequest, BeginOpenDevices, OpenNextDevice, RecordDevice,
                EndOpenDevices, OpenFrame, RecordFrame, CancelStreams, ClearStreams, Deregister,
                Destroy
  <2>2. QED
    BY <2>1, <1>k, <1>a, <1>o
<1>2. ASSUME TagStep
      PROVE  Delivering(c)
  <2>1. ASSUME NEW b \in Calls, Proceed(b)
        PROVE  Delivering(c)
    <3>1. CASE ProceedConnecting(b) \/ ProceedSkip(b)
      BY <3>1, <1>c DEF ProceedConnecting, ProceedSkip
    <3>2. CASE ProceedDeliver(b)
      BY <3>2, <1>t DEF ProceedDeliver, TakeTag, Record
    <3>3. CASE TakeFailed(b)
      BY <3>3, <1>t DEF TakeFailed, Stop, Record
    <3>4. QED
      BY <2>1, <3>1, <3>2, <3>3 DEF Proceed
  <2>2. CASE EndCallback
    <3>1. /\ cqCall \in Calls /\ calls[cqCall].op = "none" /\ calls[cqCall].status # "FINISH"
          /\ calls' = [calls EXCEPT ![cqCall] = ReadAgain(@)]
      BY <2>2 DEF EndCallback, CallsOK, TagsLive, HoldOK
    <3>2. QED
      BY <3>1, <1>t DEF ReadAgain, Record
  <2>3. CASE cqPc = "delete" /\ Deleted(cqCall)
    <3>1. cqCall \in Calls /\ calls' = [calls EXCEPT ![cqCall] = Delete(@)]
      BY <2>3 DEF Deleted, CallsOK, TagsLive
    <3>2. QED
      BY <3>1, <1>t DEF Delete, Record
  <2>4. CASE BeginSpin \/ Spin
    BY <2>4 DEF BeginSpin, Spin, vars
  <2>5. QED
    BY <1>2, <2>1, <2>2, <2>3, <2>4
    DEF TagStep, DeleteUnassociated, DeleteFrame, DeleteDevice, DeleteUnlisted
<1>3. ASSUME EventStep
      PROVE  Delivering(c)
  <2>1. \/ UNCHANGED calls
        \/ \E S : calls' = CancelAll(S)
        \/ \E m, D : OpenStream(m, D, "cq")
    BY <1>3 DEF EventStep, LockList, UpdateSkip, UpdateDeviceGone, UpdateDevicePresent, UpdateFrame,
                CqRecordDevice, CqRemoveFrame, CqOpenFrame, CqRecordFrame, EndEvent
  <2>2. QED
    BY <2>1, <1>k, <1>a, <1>o
<1>4. CASE Environment
  BY <1>4, <1>t DEF Environment, ReceiveEvent, ChannelLost, CompleteOk, CompleteFail, Complete,
                    Record
<1>5. CASE Idle \/ UNCHANGED vars
  BY <1>5 DEF Idle, vars
<1>6. QED
  BY <1>1, <1>2, <1>3, <1>4, <1>5 DEF Next

\* A stream that is opened has the next number; the others stay as they are.
LEMMA Opened ==
    ASSUME TypeOK, CallsOK, NEW m \in Managers, NEW D \in SUBSET Devices,
           NEW t \in {"user", "cq"}, OpenStream(m, D, t)
    PROVE  /\ nextCall \in Calls /\ calls[nextCall].life = "unused"
           /\ calls'[nextCall].mgr = m /\ calls'[nextCall].covers = D
           /\ calls'[nextCall].life = "live"
           /\ \A c \in Calls \ {nextCall} : calls'[c] = calls[c]
  BY StartCallType DEF OpenStream, TypeOK, CallsOK, Calls

\* The status of the call whose callback runs changes only when the callback ends.
LEMMA CallbackStep ==
    ASSUME TypeOK, CallsOK, HoldOK, [Next]_vars, cqPc' = "callback"
    PROVE  calls'[cqCall'].status # "FINISH"
<1>t. calls \in [Calls -> Record] /\ nextCall \in Nat
  BY CallAssumption DEF TypeOK
<1>h. cqPc = "callback" => /\ cqCall \in Calls /\ calls[cqCall].status # "FINISH"
                           /\ calls[cqCall].life = "live"
  BY DEF HoldOK, CallsOK, TagsLive
<1>k. CASE UNCHANGED <<calls, cqPc, cqCall>>
  BY <1>k DEF HoldOK
<1>a. ASSUME NEW S, calls' = CancelAll(S), UNCHANGED <<cqPc, cqCall>>
      PROVE  calls'[cqCall'].status # "FINISH"
  BY <1>a, <1>h, <1>t DEF CancelAll, CancelCall, Record
<1>o. ASSUME NEW m, NEW D, NEW t, OpenStream(m, D, t), UNCHANGED <<cqPc, cqCall>>
      PROVE  calls'[cqCall'].status # "FINISH"
  BY <1>o, <1>h, <1>t DEF OpenStream, CallsOK, Calls
<1>1. ASSUME NEW m \in Managers, UserStep(m)
      PROVE  calls'[cqCall'].status # "FINISH"
  <2>1. \/ UNCHANGED calls
        \/ \E S : calls' = CancelAll(S)
        \/ \E D : OpenStream(m, D, "user")
    BY <1>1 DEF UserStep, RegisterRequest, BeginOpenDevices, OpenNextDevice, RecordDevice,
                EndOpenDevices, OpenFrame, RecordFrame, CancelStreams, ClearStreams, Deregister,
                Destroy
  <2>2. UNCHANGED <<cqPc, cqCall>>
    BY <1>1, UserStepKeeps DEF cq
  <2>3. QED
    BY <2>1, <2>2, <1>k, <1>a, <1>o
<1>2. ASSUME TagStep
      PROVE  calls'[cqCall'].status # "FINISH"
  <2>1. ASSUME NEW b \in Calls, ProceedDeliver(b)
        PROVE  calls'[cqCall'].status # "FINISH"
    BY <2>1, <1>t DEF ProceedDeliver, TakeTag, Record
  <2>2. \E b \in Calls : ProceedDeliver(b)
    BY <1>2 DEF TagStep, Proceed, ProceedConnecting, ProceedSkip, TakeFailed, EndCallback,
                DeleteUnassociated, DeleteFrame, DeleteDevice, DeleteUnlisted, Deleted, BeginSpin,
                Spin, cq, vars
  <2>3. QED
    BY <2>1, <2>2
<1>3. CASE EventStep
  BY <1>3, EventStepKeeps DEF UpdatePcs
<1>4. CASE Environment
  <2>1. UNCHANGED <<cqPc, cqCall>>
    BY <1>4, EnvironmentKeeps
  <2>2. QED
    BY <1>4, <2>1, <1>h, <1>t
    DEF Environment, ReceiveEvent, ChannelLost, CompleteOk, CompleteFail, Complete, Record
<1>5. CASE Idle \/ UNCHANGED vars
  BY <1>5, <1>k DEF Idle, vars, cq
<1>6. QED
  BY <1>1, <1>2, <1>3, <1>4, <1>5 DEF Next

\* A thread holds a call only from its start to its record.
LEMMA HoldStep ==
    ASSUME IInv, HoldOK, [Next]_vars
    PROVE  HoldOK'
<1> USE DEF IInv
<1>t. /\ upc \in [Managers -> UserPcs] /\ ucall \in [Managers -> Calls \cup {NoCall}]
      /\ calls \in [Calls -> Record] /\ udev \in [Managers -> Devices]
  BY DEF TypeOK
<1>s. \A c \in Calls : calls[c].life # "unused" => calls'[c].mgr = calls[c].mgr
  BY CallsChanges, CallsStable DEF Stable
<1> DEFINE UserHolds(m) == IF upc[m] \in RecordPcs THEN calls[ucall[m]].mgr = m
                           ELSE ucall[m] = NoCall
           CqHolds == cqPc \in RecordPcs => calls[cqCall].mgr = cqMgr
<1>b. cqPc' = "callback" => calls'[cqCall'].status # "FINISH"
  BY CallbackStep
<1>u. ASSUME NEW m \in Managers, upc'[m] = upc[m], ucall'[m] = ucall[m]
      PROVE  UserHolds(m)'
  BY <1>u, <1>s DEF HoldOK, HandsOK, RecordPcs
<1>c. UNCHANGED <<cqPc, cqCall, cqMgr>> => CqHolds'
  BY <1>s DEF HoldOK, HandsOK, RecordPcs
<1>q. QED
  <2>1. ASSUME NEW m \in Managers, UserStep(m)
        PROVE  HoldOK'
    <3>1. CqHolds'
      BY <2>1, <1>c, UserStepKeeps DEF cq
    <3>2. ASSUME NEW n \in Managers, n # m
          PROVE  UserHolds(n)'
      BY <2>1, <3>2, <1>u, UserStepKeeps
    <3>3. UserHolds(m)'
      <4>1. ASSUME NEW d \in Devices, OpenNextDevice(m, d)
            PROVE  UserHolds(m)'
        <5>1. CASE UNCHANGED <<upc, ucall>>
          BY <5>1, <1>u
        <5>2. CASE /\ OpenStream(m, {d}, "user") /\ ucall' = [ucall EXCEPT ![m] = nextCall]
                   /\ upc' = [upc EXCEPT ![m] = "recordDevice"]
          BY <5>2, <1>t, Opened DEF RecordPcs
        <5>3. QED
          BY <4>1, <5>1, <5>2 DEF OpenNextDevice
      <4>2. CASE OpenFrame(m)
        <5>1. /\ OpenStream(m, {d \in connected : IsDeviceDataRequested(m, d)}, "user")
              /\ ucall' = [ucall EXCEPT ![m] = nextCall]
              /\ upc' = [upc EXCEPT ![m] = "recordFrame"]
          BY <4>2 DEF OpenFrame
        <5>2. {d \in connected : IsDeviceDataRequested(m, d)} \in SUBSET Devices
          BY DEF TypeOK
        <5>3. calls'[nextCall].mgr = m
          BY <5>1, <5>2, Opened
        <5>4. QED
          BY <5>1, <5>3, <1>t DEF RecordPcs
      <4>3. CASE RecordDevice(m) \/ RecordFrame(m)
        BY <4>3, <1>t DEF RecordDevice, RecordFrame, RecordPcs
      <4>4. CASE RegisterRequest(m) \/ BeginOpenDevices(m) \/ EndOpenDevices(m) \/ CancelStreams(m)
                 \/ ClearStreams(m) \/ Deregister(m) \/ Destroy(m)
        <5>1. upc[m] \notin RecordPcs /\ upc'[m] \notin RecordPcs /\ ucall' = ucall
          BY <4>4, <1>t DEF RegisterRequest, BeginOpenDevices, EndOpenDevices, CancelStreams,
                            ClearStreams, Deregister, Destroy, RecordPcs
        <5>2. QED
          BY <5>1 DEF HoldOK
      <4>5. QED
        BY <2>1, <4>1, <4>2, <4>3, <4>4 DEF UserStep
    <3>4. QED
      BY <3>1, <3>2, <3>3, <1>b DEF HoldOK
  <2>2. CASE UNCHANGED user /\ CqHolds'
    BY <2>2, <1>u, <1>b DEF HoldOK, user
  <2>3. TagStep => UNCHANGED user /\ CqHolds'
    BY TagStepKeeps DEF TagPcs, RecordPcs
  <2>4. ASSUME EventStep
        PROVE  UNCHANGED user /\ CqHolds'
    <3>1. ASSUME NEW m \in Managers, UpdateDevicePresent(m)
          PROVE  CqHolds'
      <4>1. CASE UNCHANGED <<cqPc, cqMgr, cqCall>>
        BY <4>1, <1>c
      <4>2. CASE OpenStream(m, {cqDev}, "cq") /\ cqPc' = "recordDevice" /\ cqMgr' = m
                 /\ cqCall' = nextCall
        <5>1. {cqDev} \in SUBSET Devices
          BY DEF TypeOK
        <5>2. QED
          BY <4>2, <5>1, Opened
      <4>3. QED
        BY <3>1, <4>1, <4>2 DEF UpdateDevicePresent
    <3>2. ASSUME CqOpenFrame
          PROVE  CqHolds'
      <4>1. /\ cqMgr \in Managers
            /\ {d \in connected : IsDeviceDataRequested(cqMgr, d)} \in SUBSET Devices
        BY <3>2 DEF CqOpenFrame, PhaseOK, ReplacePcs, UpdatePcs, TypeOK
      <4>2. /\ OpenStream(cqMgr, {d \in connected : IsDeviceDataRequested(cqMgr, d)}, "cq")
            /\ cqCall' = nextCall /\ cqMgr' = cqMgr
        BY <3>2 DEF CqOpenFrame
      <4>3. QED
        BY <4>1, <4>2, Opened
    <3>3. ASSUME \/ LockList \/ CqRecordDevice \/ CqRemoveFrame \/ CqRecordFrame \/ EndEvent
                 \/ \E m \in Managers : UpdateSkip(m) \/ UpdateDeviceGone(m) \/ UpdateFrame(m)
          PROVE  CqHolds'
      BY <3>3 DEF LockList, CqRecordDevice, CqRemoveFrame, CqRecordFrame, EndEvent,
                  UpdateSkip, UpdateDeviceGone, UpdateFrame, RecordPcs
    <3>4. QED
      BY <2>4, <3>1, <3>2, <3>3, EventStepKeeps DEF EventStep
  <2>5. Environment => UNCHANGED user /\ CqHolds'
    BY EnvironmentKeeps, <1>c DEF RecordPcs
  <2>6. Idle \/ UNCHANGED vars => UNCHANGED user /\ CqHolds'
    BY <1>c DEF Idle, vars, cq
  <2>7. QED
    BY <2>1, <2>2, <2>3, <2>4, <2>5, <2>6 DEF Next

-----------------------------------------------------------------------------
(* Storages and devices.                                                   *)

\* A device of m's storages that is gone is one whose event m has not been shown.
Exact(m) ==
    \A d \in storage[m] :
        \/ d \in connected
        \/ cqPc = "lockList" /\ ~cqConn /\ d = cqDev
        \/ /\ cqPc \in UpdatePcs /\ m \in cqTodo /\ ~cqConn /\ d = cqDev
           /\ ~(cqPc \in FramePcs /\ m = cqMgr)

\* No step lets a storage outlive its device.
LEMMA ExactStep ==
    ASSUME IInv, ExactOK, [Next]_vars
    PROVE  ExactOK'
<1> USE DEF IInv
<1>t. /\ upc \in [Managers -> UserPcs] /\ storage \in [Managers -> SUBSET Devices]
      /\ utodo \in [Managers -> SUBSET Devices] /\ list \in SUBSET Managers
      /\ connected \in SUBSET Devices /\ drops \in Nat /\ cqTodo \in SUBSET Managers
  BY RegistryAssumption DEF TypeOK
<1>l. drops' = 0 => drops = 0
  <2>1. UNCHANGED drops \/ drops' = drops + 1
    BY UserStepKeeps, TagStepKeeps, EventStepKeeps
    DEF Next, Environment, ReceiveEvent, ChannelLost, CompleteOk, CompleteFail, Idle, vars
  <2>2. QED
    BY <2>1, <1>t
<1>r. \A m, d : IsDeviceDataRequested(m, d)' <=> IsDeviceDataRequested(m, d)
  BY DEF IsDeviceDataRequested
<1>e. drops = 0 => \A m \in list : Exact(m)
  BY DEF ExactOK, Exact
<1> DEFINE Own(m) ==
             /\ \A d \in storage[m] : IsDeviceDataRequested(m, d)
             /\ upc[m] = "none" => storage[m] = {}
             /\ upc[m] \in {"opening", "recordDevice"} => utodo[m] \subseteq connected
           Event == drops = 0 /\ cqPc \in EventPcs /\ cqConn => cqDev \in connected
<1>d. (\A m \in Managers : Own(m)) /\ Event
  BY DEF ExactOK
<1>x. ASSUME \A m \in Managers : Own(m)', Event', drops' = 0 => \A m \in list' : Exact(m)'
      PROVE  ExactOK'
  BY <1>x, <1>r DEF ExactOK, Exact
<1>1. ASSUME NEW m \in Managers, UserStep(m)
      PROVE  ExactOK'
  <2>0. /\ UNCHANGED <<cq, connected, drops>>
        /\ \A n \in Managers \ {m} : /\ upc'[n] = upc[n] /\ utodo'[n] = utodo[n]
                                     /\ storage'[n] = storage[n] /\ (n \in list' => n \in list)
    <3>1. \A n \in Managers \ {m} : n \in list' => n \in list
      BY <1>1, <1>t DEF UserStep, RegisterRequest, BeginOpenDevices, OpenNextDevice, RecordDevice,
         EndOpenDevices, OpenFrame, RecordFrame, CancelStreams, ClearStreams, Deregister,
         Destroy, registry
    <3>2. QED
      BY <1>1, <3>1, UserStepKeeps
  <2>1. \A n \in Managers \ {m} : Own(n)' /\ (drops' = 0 /\ n \in list' => Exact(n)')
    BY <2>0, <1>d, <1>e, <1>r DEF Exact, cq
  <2>2. Event'
    BY <2>0, <1>d DEF cq
  <2>3. /\ storage'[m] \subseteq storage[m] \cup {d \in connected : IsDeviceDataRequested(m, d)}
        /\ upc'[m] = "none" => FALSE
        /\ upc'[m] \in {"opening", "recordDevice"} => utodo'[m] \subseteq connected
        /\ m \in list' => m \in list \/ storage'[m] = {}
    <3>1. CASE RegisterRequest(m)
      BY <3>1, <1>t, <1>d DEF RegisterRequest
    <3>2. CASE BeginOpenDevices(m) \/ RecordDevice(m) \/ EndOpenDevices(m)
      BY <3>2, <1>t, <1>d DEF BeginOpenDevices, RecordDevice, EndOpenDevices, registry
    <3>3. ASSUME NEW d \in Devices, OpenNextDevice(m, d)
          PROVE  /\ storage'[m] \subseteq
                      storage[m] \cup {e \in connected : IsDeviceDataRequested(m, e)}
                 /\ upc'[m] = "none" => FALSE
                 /\ upc'[m] \in {"opening", "recordDevice"} => utodo'[m] \subseteq connected
                 /\ m \in list' => m \in list \/ storage'[m] = {}
      <4>1. /\ upc[m] = "opening" /\ d \in utodo[m] /\ list' = list
            /\ upc'[m] \in {"opening", "recordDevice"}
            /\ utodo'[m] \subseteq utodo[m]
        BY <3>3, <1>t DEF OpenNextDevice
      <4>2. storage' = storage \/ (IsDeviceDataRequested(m, d) /\ storage'[m] = storage[m] \cup {d})
        BY <3>3, <1>t DEF OpenNextDevice, AddDeviceStorage
      <4>3. QED
        BY <4>1, <4>2, <1>d
    <3>4. CASE OpenFrame(m)
      BY <3>4, <1>t DEF OpenFrame, AddDeviceStorage
    <3>5. CASE RecordFrame(m) \/ CancelStreams(m) \/ ClearStreams(m) \/ Deregister(m) \/ Destroy(m)
      BY <3>5, <1>t DEF RecordFrame, CancelStreams, ClearStreams, Deregister, Destroy, registry
    <3>6. QED
      BY <1>1, <3>1, <3>2, <3>3, <3>4, <3>5 DEF UserStep
  <2>4. Own(m)'
    BY <2>0, <2>3, <1>d, <1>r
  <2>5. drops' = 0 /\ m \in list' => Exact(m)'
    BY <2>0, <2>3, <1>e, <1>r DEF Exact, cq
  <2>6. \A n \in Managers : Own(n)'
    BY <2>1, <2>4
  <2>7. drops' = 0 => \A n \in list' : Exact(n)'
    <3>1. list' \subseteq Managers
      BY TypeStep DEF TypeOK
    <3>2. QED
      BY <2>1, <2>5, <3>1
  <2>8. QED
    BY <2>2, <2>6, <2>7, <1>x
<1>2. ASSUME TagStep
      PROVE  ExactOK'
  <2>1. /\ cqPc \in TagPcs /\ cqPc' \in TagPcs
        /\ UNCHANGED <<connected, list, storage, upc, utodo, drops>>
    BY <1>2, TagStepKeeps DEF user
  <2>2. \A m \in Managers : Own(m)'
    BY <2>1, <1>d, <1>r
  <2>3. Event'
    BY <2>1 DEF TagPcs, EventPcs, UpdatePcs
  <2>4. drops' = 0 => \A m \in list' : Exact(m)'
    BY <2>1, <1>e DEF Exact, TagPcs, UpdatePcs
  <2>5. QED
    BY <2>2, <2>3, <2>4, <1>x
<1>3. ASSUME EventStep
      PROVE  ExactOK'
  <2>0. /\ UNCHANGED <<list, upc, utodo, connected, drops>>
        /\ cqPc \in EventPcs /\ cqPc' \in {"next"} \cup UpdatePcs
        /\ cqPc' # "next" => UNCHANGED <<cqDev, cqConn>>
    <3>1. cqPc' # "next" => UNCHANGED <<cqDev, cqConn>>
      BY <1>3 DEF EventStep, LockList, UpdateSkip, UpdateDeviceGone, UpdateDevicePresent,
                  UpdateFrame,
                  CqRecordDevice, CqRemoveFrame, CqOpenFrame, CqRecordFrame, EndEvent
    <3>2. QED
      BY <1>3, <3>1, EventStepKeeps DEF user
  <2>1. Event'
    BY <2>0, <1>d DEF UpdatePcs, EventPcs
  <2>2. ASSUME NEW m \in Managers
        PROVE  storage'[m] \subseteq storage[m] \cup {d \in connected : IsDeviceDataRequested(m, d)}
                                    \cup (IF cqConn /\ IsDeviceDataRequested(m, cqDev) THEN {cqDev} ELSE {})
               /\ (storage'[m] # {} => m \in list \/ storage[m] # {})
    <3>1. CASE \E n \in Managers : UpdateDevicePresent(n)
      BY <3>1, <1>t DEF UpdateDevicePresent, AddDeviceStorage, PhaseOK, UpdatePcs
    <3>2. CASE \E n \in Managers : UpdateDeviceGone(n) \/ UpdateFrame(n)
      BY <3>2, <1>t DEF UpdateDeviceGone, UpdateFrame, RemoveDeviceStorage
    <3>3. CASE CqOpenFrame
      BY <3>3, <1>t DEF CqOpenFrame, AddDeviceStorage, PhaseOK, UpdatePcs, ReplacePcs
    <3>4. CASE UNCHANGED storage
      BY <3>4
    <3>5. QED
      BY <1>3, <3>1, <3>2, <3>3, <3>4
      DEF EventStep, LockList, UpdateSkip, CqRecordDevice, CqRemoveFrame, CqRecordFrame, EndEvent,
          registry
  <2>3. \A m \in Managers : Own(m)'
    BY <2>0, <2>2, <1>d, <1>r DEF PhaseOK
  <2>4. ASSUME drops' = 0, NEW m \in list'
        PROVE  Exact(m)'
    <3>1. m \in list /\ m \in Managers /\ Exact(m) /\ (cqConn => cqDev \in connected)
      BY <2>0, <2>4, <1>e, <1>d, <1>t
    <3>2. CASE LockList
      BY <3>1, <3>2 DEF LockList, Exact, registry, UpdatePcs, FramePcs
    <3>3. ASSUME NEW n \in Managers, UpdateSkip(n)
          PROVE  Exact(m)'
      <4>1. cqDev \in storage[n] => FALSE
        BY <3>3, <1>d DEF UpdateSkip
      <4>2. QED
        BY <3>1, <3>3, <4>1 DEF UpdateSkip, Exact, registry, UpdatePcs, FramePcs
    <3>4. ASSUME NEW n \in Managers, UpdateDeviceGone(n)
          PROVE  Exact(m)'
      BY <3>1, <3>4, <1>t DEF UpdateDeviceGone, RemoveDeviceStorage, Exact, UpdatePcs, FramePcs
    <3>5. ASSUME NEW n \in Managers, UpdateDevicePresent(n)
          PROVE  Exact(m)'
      <4>1. /\ cqConn /\ cqConn' = cqConn /\ connected' = connected
            /\ storage'[m] \subseteq storage[m] \cup {cqDev}
        BY <3>1, <3>5, <1>t DEF UpdateDevicePresent, AddDeviceStorage
      <4>2. QED
        BY <3>1, <4>1 DEF Exact
    <3>6. ASSUME NEW n \in Managers, UpdateFrame(n)
          PROVE  Exact(m)'
      <4>1. /\ cqPc = "update" /\ cqPc' = "removeFrame" /\ cqMgr' = n
            /\ UNCHANGED <<cqTodo, cqDev, cqConn, connected>>
            /\ storage' = IF cqConn THEN storage ELSE [storage EXCEPT ![n] = @ \ {cqDev}]
        BY <3>6 DEF UpdateFrame, RemoveDeviceStorage
      <4>2. QED
        BY <3>1, <4>1, <1>t DEF Exact, UpdatePcs, FramePcs
    <3>7. CASE CqRecordDevice
      <4>1. cqConn /\ cqConn' = cqConn /\ UNCHANGED <<storage, connected>>
        BY <3>7 DEF CqRecordDevice, PhaseOK
      <4>2. QED
        BY <3>1, <4>1 DEF Exact
    <3>8. CASE CqRemoveFrame
      BY <3>1, <3>8 DEF CqRemoveFrame, Exact, UpdatePcs, FramePcs
    <3>9. CASE CqOpenFrame
      <4>1. /\ cqPc = "openFrame" /\ cqPc' = "recordFrame"
            /\ UNCHANGED <<cqTodo, cqDev, cqConn, cqMgr, connected>>
            /\ storage'[m] \subseteq storage[m] \cup connected
        BY <3>1, <3>9, <1>t DEF CqOpenFrame, AddDeviceStorage
      <4>2. QED
        BY <3>1, <4>1 DEF Exact, UpdatePcs, FramePcs
    <3>10. CASE CqRecordFrame
      BY <3>1, <3>10 DEF CqRecordFrame, Exact, UpdatePcs, FramePcs
    <3>11. CASE EndEvent
      BY <3>1, <3>11 DEF EndEvent, Exact, registry
    <3>12. QED
      BY <1>3, <3>2, <3>3, <3>4, <3>5, <3>6, <3>7, <3>8, <3>9, <3>10, <3>11 DEF EventStep
  <2>5. QED
    BY <2>1, <2>3, <2>4, <1>x
<1>4. ASSUME Environment
      PROVE  ExactOK'
  <2>0. UNCHANGED <<list, storage, upc, utodo, cqTodo, cqMgr>>
    BY <1>4, EnvironmentKeeps DEF user
  <2>1. ASSUME NEW d \in Devices, NEW conn \in BOOLEAN, ReceiveEvent(d, conn)
        PROVE  ExactOK'
    <3>1. /\ cqPc = "next" /\ cqPc' = "lockList" /\ cqDev' = d /\ cqConn' = conn /\ ConnectedMtxFree
          /\ connected' = IF conn THEN connected \cup {d} ELSE connected \ {d}
      BY <2>1 DEF ReceiveEvent
    <3>2. \A m \in Managers : Own(m)'
      BY <2>0, <3>1, <1>d, <1>r DEF ConnectedMtxFree
    <3>3. Event'
      BY <3>1
    <3>4. drops' = 0 => \A m \in list' : Exact(m)'
      BY <2>0, <3>1, <1>e, <1>l DEF Exact, UpdatePcs
    <3>5. QED
      BY <3>2, <3>3, <3>4, <1>x
  <2>2. CASE \E c \in Calls : CompleteOk(c) \/ CompleteFail(c)
    <3>1. UNCHANGED <<connected, drops, cqPc, cqDev, cqConn>>
      BY <2>2 DEF CompleteOk, CompleteFail, registry, cq
    <3>2. (\A m \in Managers : Own(m)') /\ Event' /\ (drops' = 0 => \A m \in list' : Exact(m)')
      BY <2>0, <3>1, <1>d, <1>e, <1>r DEF Exact
    <3>3. QED
      BY <3>2, <1>x
  <2>3. CASE ChannelLost
    <3>1. connected' = {} /\ drops' # 0 /\ ConnectedMtxFree
      BY <2>3, <1>t DEF ChannelLost
    <3>2. \A m \in Managers : Own(m)'
      BY <2>0, <3>1, <1>d, <1>r DEF ConnectedMtxFree
    <3>3. QED
      BY <3>1, <3>2, <1>x
  <2>4. QED
    BY <1>4, <2>1, <2>2, <2>3 DEF Environment
<1>5. CASE Idle \/ UNCHANGED vars
  <2>1. UNCHANGED <<connected, list, storage, upc, utodo, cqPc, cqDev, cqConn, cqMgr, cqTodo,
                    drops>>
    BY <1>5 DEF Idle, vars, registry, user, cq
  <2>2. (\A m \in Managers : Own(m)') /\ Event' /\ (drops' = 0 => \A m \in list' : Exact(m)')
    BY <2>1, <1>d, <1>e, <1>r DEF Exact
  <2>3. QED
    BY <2>2, <1>x
<1>6. QED
  BY <1>1, <1>2, <1>3, <1>4, <1>5 DEF Next

-----------------------------------------------------------------------------
(* The data frame streams and the devices they cover.                      *)

\* The frame of m, as FrameOK says of each.
Current(m) ==
    Kind[m] = "frame" /\ ~overlapped[m] =>
        /\ frame[m] # NoCall => calls[frame[m]].covers = Present(m) \/ Pending(m)
        /\ upc[m] = "recordFrame" => calls[ucall[m]].covers = Present(m) \/ Pending(m)
NewFrameCurrent == cqPc = "recordFrame" => calls[cqCall].covers = Present(cqMgr)

\* No step leaves an old frame in place without an event to replace it.
LEMMA FrameStep ==
    ASSUME IInv, OverlapNoted, AloneOK, FrameOK, [Next]_vars
    PROVE  FrameOK'
<1> USE DEF IInv
<1>t. /\ upc \in [Managers -> UserPcs] /\ frame \in [Managers -> Calls \cup {NoCall}]
      /\ ucall \in [Managers -> Calls \cup {NoCall}] /\ list \in SUBSET Managers
      /\ connected \in SUBSET Devices /\ drops \in Nat /\ cqTodo \in SUBSET Managers
      /\ calls \in [Calls -> Record]
  BY RegistryAssumption DEF TypeOK
<1>l. drops' = 0 => drops = 0
  <2>1. UNCHANGED drops \/ drops' = drops + 1
    BY UserStepKeeps, TagStepKeeps, EventStepKeeps
    DEF Next, Environment, ReceiveEvent, ChannelLost, CompleteOk, CompleteFail, Idle, vars
  <2>2. QED
    BY <2>1, <1>t
<1>p. connected' = connected => \A m : Present(m)' = Present(m)
  BY DEF Present, IsDeviceDataRequested
<1>f. drops = 0 => (\A m \in list : Current(m)) /\ NewFrameCurrent
  BY DEF FrameOK, Current, NewFrameCurrent
<1>x. ASSUME drops' = 0 => (\A m \in list' : Current(m)') /\ NewFrameCurrent'
      PROVE  FrameOK'
  BY <1>x DEF FrameOK, Current, NewFrameCurrent
<1>o. \A m \in Managers : overlapped[m] => overlapped'[m]
  BY NoteStep
<1>s. \A c \in Calls : calls[c].life # "unused" => calls'[c].covers = calls[c].covers
  BY CallsChanges, CallsStable DEF Stable
<1>h. /\ \A m \in Managers : frame[m] # NoCall => /\ frame[m] \in Calls
                                                  /\ calls'[frame[m]].covers = calls[frame[m]].covers
      /\ \A m \in Managers :
           upc[m] = "recordFrame" => calls'[ucall[m]].covers = calls[ucall[m]].covers
      /\ cqPc = "recordFrame" => calls'[cqCall].covers = calls[cqCall].covers
  BY <1>s, <1>t DEF RecordsOK, HandsOK
\* A manager to which nothing new happens.
<1>k. ASSUME NEW m \in list, drops' = 0, connected' = connected,
             frame'[m] \in {NoCall, frame[m]},
             upc'[m] = "recordFrame" => upc[m] = "recordFrame" /\ ucall'[m] = ucall[m],
             Pending(m) => Pending(m)'
      PROVE  Current(m)'
  <2>1. m \in Managers /\ Current(m) /\ Present(m)' = Present(m)
    BY <1>k, <1>l, <1>f, <1>p, <1>t
  <2>2. QED
    BY <2>1, <1>k, <1>h, <1>o DEF Current
<1>c. drops' = 0 /\ UNCHANGED <<cqPc, cqCall, cqMgr, connected>> => NewFrameCurrent'
  BY <1>f, <1>l, <1>p, <1>h DEF NewFrameCurrent
<1>1. ASSUME NEW m \in Managers, UserStep(m)
      PROVE  FrameOK'
  <2>0. /\ UNCHANGED <<cq, connected, drops>>
        /\ \A n \in Managers \ {m} : /\ upc'[n] = upc[n] /\ ucall'[n] = ucall[n]
                                     /\ frame'[n] = frame[n] /\ (n \in list' => n \in list)
    <3>1. \A n \in Managers \ {m} : n \in list' => n \in list
      BY <1>1, <1>t DEF UserStep, RegisterRequest, BeginOpenDevices, OpenNextDevice, RecordDevice,
         EndOpenDevices, OpenFrame, RecordFrame, CancelStreams, ClearStreams, Deregister,
         Destroy, registry
    <3>2. QED
      BY <1>1, <3>1, UserStepKeeps
  <2>1. \A n : Pending(n)' <=> Pending(n)
    BY <2>0 DEF Pending, IsDeviceDataRequested, cq
  <2>2. ASSUME drops' = 0, NEW n \in list', n # m
        PROVE  Current(n)'
    <3>1. list' \subseteq Managers
      BY TypeStep DEF TypeOK
    <3>2. QED
      BY <2>0, <2>1, <2>2, <3>1, <1>k
  <2>3. ASSUME drops' = 0, m \in list'
        PROVE  Current(m)'
    <3>1. CASE RegisterRequest(m)
      <4>1. /\ upc[m] = "none" /\ upc'[m] = "registered" /\ frame' = frame
            /\ overlapped' = overlapped
        BY <3>1, <1>t DEF RegisterRequest
      <4>2. QED
        BY <4>1 DEF Current, AloneOK, FreePlace
    <3>2. CASE OpenFrame(m)
      <4>1. /\ OpenStream(m, Present(m), "user") /\ ucall' = [ucall EXCEPT ![m] = nextCall]
            /\ upc' = [upc EXCEPT ![m] = "recordFrame"] /\ UNCHANGED <<frame, list>>
        BY <3>2 DEF OpenFrame, Present
      <4>2. Present(m) \in SUBSET Devices
        BY <1>t DEF Present
      <4>3. calls'[ucall'[m]].covers = Present(m)'
        BY <4>1, <4>2, <2>0, <1>p, <1>t, Opened
      <4>4. Current(m) /\ Present(m)' = Present(m)
        BY <2>0, <2>3, <4>1, <1>f, <1>l, <1>p
      <4>5. QED
        BY <4>1, <4>3, <4>4, <1>h, <1>o, <2>1 DEF Current
    <3>3. CASE RecordFrame(m)
      <4>1. /\ upc[m] = "recordFrame" /\ frame' = [frame EXCEPT ![m] = ucall[m]]
            /\ upc' = [upc EXCEPT ![m] = "open"] /\ UNCHANGED list
        BY <3>3 DEF RecordFrame
      <4>2. Current(m) /\ Present(m)' = Present(m)
        BY <2>0, <2>3, <4>1, <1>f, <1>l, <1>p
      <4>3. QED
        BY <4>1, <4>2, <1>h, <1>o, <1>t, <2>1 DEF Current
    <3>4. CASE m \in list /\ frame'[m] \in {NoCall, frame[m]} /\ upc'[m] # "recordFrame"
      BY <2>0, <2>1, <2>3, <3>4, <1>k
    <3>5. ASSUME \/ BeginOpenDevices(m) \/ RecordDevice(m) \/ EndOpenDevices(m) \/ CancelStreams(m)
                 \/ ClearStreams(m) \/ Deregister(m) \/ Destroy(m)
                 \/ \E d \in Devices : OpenNextDevice(m, d)
          PROVE  m \in list /\ frame'[m] \in {NoCall, frame[m]} /\ upc'[m] # "recordFrame"
      <4>1. CASE BeginOpenDevices(m) \/ RecordDevice(m) \/ EndOpenDevices(m) \/ CancelStreams(m)
        BY <2>3, <4>1, <1>t
        DEF BeginOpenDevices, RecordDevice, EndOpenDevices, CancelStreams, registry
      <4>2. CASE ClearStreams(m) \/ Deregister(m) \/ Destroy(m)
        <5>1. list' \subseteq list /\ upc'[m] # "recordFrame"
          BY <4>2, <1>t DEF ClearStreams, Deregister, Destroy
        <5>2. frame'[m] \in {NoCall, frame[m]}
          BY <4>2, <1>t DEF ClearStreams, Deregister, Destroy
        <5>3. QED
          BY <2>3, <5>1, <5>2
      <4>3. ASSUME NEW d \in Devices, OpenNextDevice(m, d)
            PROVE  m \in list /\ frame'[m] \in {NoCall, frame[m]} /\ upc'[m] # "recordFrame"
        BY <2>3, <4>3, <1>t DEF OpenNextDevice
      <4>4. QED
        BY <3>5, <4>1, <4>2, <4>3
    <3>6. QED
      BY <1>1, <3>1, <3>2, <3>3, <3>4, <3>5 DEF UserStep
  <2>4. QED
    BY <2>0, <2>2, <2>3, <1>c, <1>x DEF cq
<1>2. ASSUME TagStep
      PROVE  FrameOK'
  <2>1. /\ cqPc \in TagPcs /\ cqPc' \in TagPcs
        /\ UNCHANGED <<connected, list, upc, ucall, drops, cqDev, cqTodo>>
    BY <1>2, TagStepKeeps DEF user
  <2>2. ASSUME NEW m \in Managers
        PROVE  frame'[m] \in {NoCall, frame[m]}
    BY <1>2, <1>t DEF TagStep, Proceed, ProceedConnecting, ProceedDeliver, ProceedSkip, TakeFailed,
       EndCallback, DeleteUnassociated, DeleteFrame, DeleteDevice, DeleteUnlisted, BeginSpin, Spin,
       registry, vars
  <2>3. \A m : ~Pending(m)
    BY <2>1 DEF Pending, TagPcs, UpdatePcs
  <2>4. drops' = 0 => \A m \in list' : Current(m)'
    BY <2>1, <2>2, <2>3, <1>k, <1>t
  <2>5. QED
    BY <2>1, <2>4, <1>x DEF NewFrameCurrent, TagPcs
<1>3. ASSUME EventStep
      PROVE  FrameOK'
  <2>0. /\ UNCHANGED <<list, upc, ucall, connected, drops>>
        /\ cqPc \in EventPcs /\ cqPc' \in {"next"} \cup UpdatePcs
        /\ cqPc' # "next" => UNCHANGED <<cqDev, cqConn>>
    <3>1. cqPc' # "next" => UNCHANGED <<cqDev, cqConn>>
      BY <1>3 DEF EventStep, LockList, UpdateSkip, UpdateDeviceGone, UpdateDevicePresent,
                  UpdateFrame,
                  CqRecordDevice, CqRemoveFrame, CqOpenFrame, CqRecordFrame, EndEvent
    <3>2. QED
      BY <1>3, <3>1, EventStepKeeps DEF user
  \* The event is shown to one manager, n, and the others wait.
  <2>w. ASSUME cqPc' \in UpdatePcs, cqPc \in UpdatePcs, NEW n,
               cqTodo' = cqTodo \ {n} \/ cqTodo' = cqTodo,
               NEW m \in list, m # n
        PROVE  Pending(m) => Pending(m)'
    BY <2>0, <2>w DEF Pending, IsDeviceDataRequested, UpdatePcs
  <2>1. CASE LockList
    <3>1. /\ cqPc' = "update" /\ cqTodo' = list /\ frame' = frame
      BY <2>1 DEF LockList, registry
    <3>2. \A m \in list : Pending(m) => Pending(m)'
      BY <2>0, <3>1 DEF Pending, IsDeviceDataRequested, UpdatePcs
    <3>3. QED
      BY <2>0, <3>1, <3>2, <1>k, <1>x, <1>t DEF NewFrameCurrent
  <2>2. ASSUME NEW n \in Managers, UpdateSkip(n)
        PROVE  FrameOK'
    <3>1. /\ cqPc = "update" /\ cqPc' = "update" /\ cqTodo' = cqTodo \ {n} /\ frame' = frame
          /\ ~IsDeviceDataRequested(n, cqDev)
      BY <2>2 DEF UpdateSkip, registry
    <3>2. \A m \in list : Pending(m) => Pending(m)'
      BY <2>w, <3>1 DEF Pending, UpdatePcs
    <3>3. QED
      BY <2>0, <3>1, <3>2, <1>k, <1>x, <1>t DEF NewFrameCurrent
  <2>3. ASSUME NEW n \in Managers, Kind[n] = "device", cqPc \in UpdatePcs, frame' = frame,
               cqPc' \in {"update", "recordDevice"}, cqTodo' = cqTodo \ {n} \/ cqTodo' = cqTodo
        PROVE  FrameOK'
    <3>1. \A m \in list : m # n => (Pending(m) => Pending(m)')
      BY <2>w, <2>3 DEF UpdatePcs
    <3>2. Current(n)'
      BY <2>3 DEF Current
    <3>3. QED
      BY <2>0, <2>3, <3>1, <3>2, <1>k, <1>x, <1>t DEF NewFrameCurrent
  <2>4. ASSUME NEW n \in Managers, UpdateFrame(n) \/ CqRemoveFrame
        PROVE  FrameOK'
    <3>1. /\ cqPc \in UpdatePcs /\ cqPc' \in {"removeFrame", "openFrame"} /\ cqTodo' = cqTodo
          /\ \A m \in list : frame'[m] \in {NoCall, frame[m]}
      BY <2>4, <1>t DEF UpdateFrame, CqRemoveFrame, UpdatePcs
    <3>2. \A m \in list : Pending(m) => Pending(m)'
      BY <2>0, <3>1 DEF Pending, IsDeviceDataRequested, UpdatePcs
    <3>3. QED
      BY <2>0, <3>1, <3>2, <1>k, <1>x, <1>t DEF NewFrameCurrent
  <2>5. CASE CqOpenFrame
    <3>1. PICK n \in Managers : n = cqMgr
      BY <2>5, <1>t DEF CqOpenFrame, PhaseOK, ReplacePcs, UpdatePcs
    <3>2. /\ cqPc = "openFrame" /\ cqPc' = "recordFrame" /\ UNCHANGED <<cqTodo, frame>>
          /\ OpenStream(n, Present(n), "cq") /\ cqCall' = nextCall /\ cqMgr' = n
      BY <2>5, <3>1 DEF CqOpenFrame, Present
    <3>3. \A m \in list : Pending(m) => Pending(m)'
      BY <2>0, <3>2 DEF Pending, IsDeviceDataRequested, UpdatePcs
    <3>4. calls'[nextCall].covers = Present(n)
      <4>1. Present(n) \in SUBSET Devices
        BY <1>t DEF Present
      <4>2. QED
        BY <3>2, <4>1, Opened
    <3>5. NewFrameCurrent'
      <4>1. Present(n)' = Present(n)
        BY <2>0, <1>p
      <4>2. calls'[cqCall'].covers = Present(n)'
        BY <3>2, <3>4, <4>1
      <4>3. QED
        BY <3>2, <4>2 DEF NewFrameCurrent, Present, IsDeviceDataRequested
    <3>6. QED
      BY <2>0, <3>2, <3>3, <3>5, <1>k, <1>x, <1>t
  <2>6. CASE CqRecordFrame
    <3>1. PICK n \in Managers : n = cqMgr
      BY <2>6, <1>t DEF CqRecordFrame, PhaseOK, ReplacePcs, UpdatePcs
    <3>2. /\ cqPc = "recordFrame" /\ cqPc' = "update" /\ cqTodo' = cqTodo \ {n}
          /\ frame' = [frame EXCEPT ![n] = cqCall] /\ overlapped' = overlapped
      BY <2>6, <3>1 DEF CqRecordFrame
    <3>3. \A m \in list : m # n => (Pending(m) => Pending(m)')
      BY <2>w, <3>2 DEF UpdatePcs
    <3>4. drops' = 0 => Current(n)'
      <4>1. upc[n] = "recordFrame" => overlapped[n]
        BY <3>1, <3>2 DEF OverlapNoted, Overlap
      <4>2. drops' = 0 => calls'[cqCall].covers = Present(n)'
        <5>1. Present(n)' = Present(n)
          BY <2>0, <1>p
        <5>2. drops = 0 => calls[cqCall].covers = Present(n)
          BY <3>1, <3>2, <1>f DEF NewFrameCurrent, Present
        <5>3. QED
          BY <3>2, <5>1, <5>2, <1>l, <1>h
      <4>3. frame'[n] = cqCall
        BY <3>2, <1>t
      <4>4. QED
        BY <2>0, <3>2, <4>1, <4>2, <4>3 DEF Current
    <3>5. ASSUME drops' = 0, NEW m \in list'
          PROVE  Current(m)'
      <4>1. CASE m = n
        BY <3>4, <3>5, <4>1
      <4>2. CASE m # n
        <5>1. m \in list /\ frame'[m] = frame[m]
          BY <2>0, <3>2, <3>5, <4>2, <1>t
        <5>2. QED
          BY <2>0, <3>2, <3>3, <3>5, <4>2, <5>1, <1>k, <1>t
      <4>3. QED
        BY <4>1, <4>2
    <3>6. QED
      BY <3>2, <3>5, <1>x DEF NewFrameCurrent
  <2>7. CASE EndEvent
    <3>1. cqPc' = "next" /\ cqTodo = {} /\ cqPc = "update" /\ frame' = frame
      BY <2>7 DEF EndEvent, registry
    <3>2. \A m : ~Pending(m)
      BY <3>1 DEF Pending
    <3>3. QED
      BY <2>0, <3>1, <3>2, <1>k, <1>x, <1>t DEF NewFrameCurrent
  <2>8. QED
    <3>1. ASSUME NEW n \in Managers, UpdateDeviceGone(n) \/ UpdateDevicePresent(n)
          PROVE  FrameOK'
      <4>1. /\ Kind[n] = "device" /\ cqPc \in UpdatePcs /\ frame' = frame
            /\ cqPc' \in {"update", "recordDevice"} /\ (cqTodo' = cqTodo \ {n} \/ cqTodo' = cqTodo)
        BY <3>1 DEF UpdateDeviceGone, UpdateDevicePresent, UpdatePcs
      <4>2. QED
        BY <4>1, <2>3
    <3>2. CASE CqRecordDevice
      <4>1. /\ cqMgr \in Managers /\ Kind[cqMgr] = "device" /\ cqPc \in UpdatePcs /\ frame' = frame
            /\ cqPc' = "update" /\ cqTodo' = cqTodo \ {cqMgr}
        BY <3>2, <1>t DEF CqRecordDevice, PhaseOK, ReplacePcs, UpdatePcs
      <4>2. QED
        BY <4>1, <2>3
    <3>3. CASE CqRemoveFrame
      <4>1. cqMgr \in Managers
        BY <3>3, <1>t DEF CqRemoveFrame, PhaseOK, ReplacePcs, UpdatePcs
      <4>2. QED
        BY <3>3, <4>1, <2>4
    <3>4. QED
      BY <1>3, <2>1, <2>2, <2>4, <2>5, <2>6, <2>7, <3>1, <3>2, <3>3 DEF EventStep
<1>4. ASSUME Environment
      PROVE  FrameOK'
  <2>0. UNCHANGED <<list, frame, upc, ucall, cqCall, cqMgr, cqTodo>>
    BY <1>4, EnvironmentKeeps DEF user
  <2>1. ASSUME NEW d \in Devices, NEW conn \in BOOLEAN, ReceiveEvent(d, conn)
        PROVE  FrameOK'
    <3>1. /\ cqPc = "next" /\ cqPc' = "lockList" /\ cqDev' = d
          /\ connected' = IF conn THEN connected \cup {d} ELSE connected \ {d}
      BY <2>1 DEF ReceiveEvent
    <3>2. \A m : ~Pending(m)
      BY <3>1 DEF Pending, UpdatePcs
    <3>3. \A m : Pending(m)' \/ Present(m)' = Present(m)
      BY <3>1 DEF Pending, Present, IsDeviceDataRequested
    <3>4. drops' = 0 => \A m \in list' : Current(m)'
      BY <2>0, <3>2, <3>3, <1>f, <1>l, <1>h, <1>o, <1>t DEF Current
    <3>5. QED
      BY <3>1, <3>4, <1>x DEF NewFrameCurrent
  <2>2. CASE \E c \in Calls : CompleteOk(c) \/ CompleteFail(c)
    <3>1. UNCHANGED <<connected, drops, cqPc, cqDev>>
      BY <2>2 DEF CompleteOk, CompleteFail, registry, cq
    <3>2. \A m : Pending(m)' <=> Pending(m)
      BY <2>0, <3>1 DEF Pending, IsDeviceDataRequested
    <3>3. QED
      BY <2>0, <3>1, <3>2, <1>k, <1>c, <1>x, <1>t
  <2>3. CASE ChannelLost
    BY <2>3, <1>t, <1>x DEF ChannelLost
  <2>4. QED
    BY <1>4, <2>1, <2>2, <2>3 DEF Environment
<1>5. CASE Idle \/ UNCHANGED vars
  <2>1. UNCHANGED <<connected, list, frame, upc, ucall, cqPc, cqCall, cqDev, cqMgr, cqTodo, drops>>
    BY <1>5 DEF Idle, vars, registry, user, cq
  <2>2. \A m : Pending(m)' <=> Pending(m)
    BY <2>1 DEF Pending, IsDeviceDataRequested
  <2>3. QED
    BY <2>1, <2>2, <1>k, <1>c, <1>x, <1>t
<1>6. QED
  BY <1>1, <1>2, <1>3, <1>4, <1>5 DEF Next

-----------------------------------------------------------------------------
(* How an entry, a held call and a place change in one step.               *)

\* The frame of m is recorded, or it is dropped by the thread of m, by the CQ thread that
\* replaces it, or with the deleted call.
LEMMA FrameChange ==
    ASSUME IInv, [Next]_vars, NEW m \in Managers
    PROVE  \/ frame'[m] = frame[m]
           \/ upc[m] = "recordFrame" /\ upc'[m] = "open"
           \/ cqPc = "recordFrame" /\ cqMgr = m /\ cqPc' = "update"
           \/ /\ frame'[m] = NoCall
              /\ \/ upc[m] \in {"cancelled", "closed"}
                 \/ cqPc = "removeFrame" /\ cqMgr = m
                 \/ cqPc = "delete" /\ cqCall = frame[m] /\ calls'[cqCall].life = "freed"
<1> USE DEF IInv
<1>t. /\ frame \in [Managers -> Calls \cup {NoCall}] /\ calls \in [Calls -> Record]
      /\ upc \in [Managers -> UserPcs]
  BY DEF TypeOK
<1>1. ASSUME NEW n \in Managers, UserStep(n)
      PROVE  \/ frame'[m] = frame[m]
             \/ upc[m] = "recordFrame" /\ upc'[m] = "open"
             \/ frame'[m] = NoCall /\ upc[m] \in {"cancelled", "closed"}
  <2>1. CASE n # m
    BY <1>1, <2>1, UserStepKeeps
  <2>2. CASE UNCHANGED frame
    BY <2>2
  <2>3. CASE RecordFrame(m) \/ ClearStreams(m) \/ Destroy(m)
    BY <2>3, <1>t DEF RecordFrame, ClearStreams, Destroy
  <2>4. QED
    BY <1>1, <2>1, <2>2, <2>3 DEF UserStep, RegisterRequest, BeginOpenDevices, OpenNextDevice,
       RecordDevice, EndOpenDevices, OpenFrame, CancelStreams, Deregister, registry
<1>2. ASSUME TagStep
      PROVE  \/ frame'[m] = frame[m]
             \/ /\ frame'[m] = NoCall
                /\ cqPc = "delete" /\ cqCall = frame[m] /\ calls'[cqCall].life = "freed"
  <2>1. CASE UNCHANGED frame
    BY <2>1
  <2>2. CASE DeleteFrame
    <3>1. cqPc = "delete" /\ cqCall \in Calls
      BY <2>2 DEF DeleteFrame, CallsOK, TagsLive
    <3>2. calls'[cqCall].life = "freed"
      BY <2>2, <3>1, <1>t DEF DeleteFrame, Deleted, Delete, Record
    <3>3. QED
      BY <2>2, <3>1, <3>2, <1>t DEF DeleteFrame
  <2>3. QED
    BY <1>2, <2>1, <2>2 DEF TagStep, Proceed, ProceedConnecting, ProceedDeliver, ProceedSkip,
       TakeFailed, EndCallback, DeleteUnassociated, DeleteDevice, DeleteUnlisted, BeginSpin, Spin,
       registry, vars
<1>3. ASSUME EventStep
      PROVE  \/ frame'[m] = frame[m]
             \/ cqPc = "recordFrame" /\ cqMgr = m /\ cqPc' = "update"
             \/ frame'[m] = NoCall /\ cqPc = "removeFrame" /\ cqMgr = m
  <2>1. CASE CqRemoveFrame \/ CqRecordFrame
    BY <2>1, <1>t DEF CqRemoveFrame, CqRecordFrame
  <2>2. QED
    BY <1>3, <2>1 DEF EventStep, LockList, UpdateSkip, UpdateDeviceGone, UpdateDevicePresent,
       UpdateFrame, CqRecordDevice, CqOpenFrame, EndEvent, registry
<1>4. QED
  BY <1>1, <1>2, <1>3, EnvironmentKeeps DEF Next, Idle, vars, registry

\* So are the entries of the stream map; AddDataStream writes only where none is.
LEMMA StreamChange ==
    ASSUME IInv, [Next]_vars, NEW m \in Managers, NEW d \in Devices
    PROVE  \/ streams'[m][d] = streams[m][d]
           \/ /\ streams[m][d] = NoCall
              /\ \/ upc[m] = "recordDevice" /\ d = udev[m] /\ upc'[m] = "opening"
                 \/ cqPc = "recordDevice" /\ cqMgr = m /\ cqDev = d /\ cqPc' = "update"
           \/ /\ streams'[m][d] = NoCall
              /\ \/ upc[m] \in {"cancelled", "closed"}
                 \/ calls' = CancelAll({streams[m][d]})
                 \/ /\ cqPc = "delete" /\ cqCall = streams[m][d]
                    /\ calls'[cqCall].life = "freed"
<1> USE DEF IInv
<1>t. /\ streams \in [Managers -> [Devices -> Calls \cup {NoCall}]] /\ calls \in [Calls -> Record]
      /\ udev \in [Managers -> Devices] /\ cqDev \in Devices /\ upc \in [Managers -> UserPcs]
  BY DEF TypeOK
<1>a. ASSUME NEW n \in Managers, NEW e \in Devices, NEW c, AddDataStream(n, e, c)
      PROVE  streams'[m][d] = streams[m][d] \/ (streams[m][d] = NoCall /\ n = m /\ e = d)
  BY <1>a, <1>t DEF AddDataStream
<1>1. ASSUME NEW n \in Managers, UserStep(n)
      PROVE  \/ streams'[m][d] = streams[m][d]
             \/ /\ streams[m][d] = NoCall
                /\ upc[m] = "recordDevice" /\ d = udev[m] /\ upc'[m] = "opening"
             \/ streams'[m][d] = NoCall /\ upc[m] \in {"cancelled", "closed"}
  <2>1. CASE n # m
    BY <1>1, <2>1, UserStepKeeps
  <2>2. CASE UNCHANGED streams
    BY <2>2
  <2>3. CASE RecordDevice(m)
    BY <2>3, <1>a, <1>t DEF RecordDevice
  <2>4. CASE ClearStreams(m) \/ Destroy(m)
    BY <2>4, <1>t DEF ClearStreams, Destroy
  <2>5. QED
    BY <1>1, <2>1, <2>2, <2>3, <2>4 DEF UserStep, RegisterRequest, BeginOpenDevices, OpenNextDevice,
       RecordFrame, EndOpenDevices, OpenFrame, CancelStreams, Deregister, registry
<1>2. ASSUME TagStep
      PROVE  \/ streams'[m][d] = streams[m][d]
             \/ /\ streams'[m][d] = NoCall
                /\ cqPc = "delete" /\ cqCall = streams[m][d] /\ calls'[cqCall].life = "freed"
  <2>1. CASE UNCHANGED streams
    BY <2>1
  <2>2. ASSUME NEW e \in Devices, DeleteDevice(e)
        PROVE  \/ streams'[m][d] = streams[m][d]
               \/ /\ streams'[m][d] = NoCall
                  /\ cqPc = "delete" /\ cqCall = streams[m][d] /\ calls'[cqCall].life = "freed"
    <3>1. cqPc = "delete" /\ cqCall \in Calls
      BY <2>2 DEF DeleteDevice, CallsOK, TagsLive
    <3>2. calls'[cqCall].life = "freed"
      BY <2>2, <3>1, <1>t DEF DeleteDevice, Deleted, Delete, Record
    <3>3. QED
      BY <2>2, <3>1, <3>2, <1>t DEF DeleteDevice
  <2>3. QED
    BY <1>2, <2>1, <2>2 DEF TagStep, Proceed, ProceedConnecting, ProceedDeliver, ProceedSkip,
       TakeFailed, EndCallback, DeleteUnassociated, DeleteFrame, DeleteUnlisted, BeginSpin, Spin,
       registry, vars
<1>3. ASSUME EventStep
      PROVE  \/ streams'[m][d] = streams[m][d]
             \/ /\ streams[m][d] = NoCall
                /\ cqPc = "recordDevice" /\ cqMgr = m /\ cqDev = d /\ cqPc' = "update"
             \/ streams'[m][d] = NoCall /\ calls' = CancelAll({streams[m][d]})
  <2>1. CASE CqRecordDevice
    <3>1. cqMgr \in Managers /\ cqPc = "recordDevice" /\ AddDataStream(cqMgr, cqDev, cqCall)
          /\ cqPc' = "update"
      BY <2>1 DEF CqRecordDevice, PhaseOK, ReplacePcs, UpdatePcs, TypeOK
    <3>2. QED
      BY <3>1, <1>a, <1>t
  <2>2. ASSUME NEW n \in Managers, UpdateDeviceGone(n)
        PROVE  \/ streams'[m][d] = streams[m][d]
               \/ streams'[m][d] = NoCall /\ calls' = CancelAll({streams[m][d]})
    BY <2>2, <1>t DEF UpdateDeviceGone
  <2>3. QED
    BY <1>3, <2>1, <2>2 DEF EventStep, LockList, UpdateSkip, UpdateDevicePresent,
       UpdateFrame, CqRemoveFrame, CqOpenFrame, CqRecordFrame, EndEvent, registry
<1>4. QED
  BY <1>1, <1>2, <1>3, EnvironmentKeeps DEF Next, Idle, vars, registry

\* A call is held until it is recorded, by AddDataStream or as the frame.
LEMMA HeldByUser ==
    ASSUME IInv, [Next]_vars, NEW m \in Managers, upc[m] \in RecordPcs
    PROVE  \/ upc'[m] = upc[m] /\ ucall'[m] = ucall[m] /\ udev'[m] = udev[m]
           \/ upc[m] = "recordDevice" /\ AddDataStream(m, udev[m], ucall[m])
           \/ upc[m] = "recordFrame" /\ frame' = [frame EXCEPT ![m] = ucall[m]]
<1> USE DEF IInv
<1>1. ASSUME NEW n \in Managers, UserStep(n)
      PROVE  \/ upc'[m] = upc[m] /\ ucall'[m] = ucall[m] /\ udev'[m] = udev[m]
             \/ upc[m] = "recordDevice" /\ AddDataStream(m, udev[m], ucall[m])
             \/ upc[m] = "recordFrame" /\ frame' = [frame EXCEPT ![m] = ucall[m]]
  <2>1. CASE n # m
    BY <1>1, <2>1, UserStepKeeps
  <2>2. CASE n = m
    BY <1>1, <2>2 DEF UserStep, RegisterRequest, BeginOpenDevices, OpenNextDevice, RecordDevice,
       EndOpenDevices, OpenFrame, RecordFrame, CancelStreams, ClearStreams, Deregister, Destroy,
       RecordPcs
  <2>3. QED
    BY <2>1, <2>2
<1>2. QED
  BY <1>1, TagStepKeeps, EventStepKeeps, EnvironmentKeeps DEF Next, Idle, vars, user

\* So is a call of the CQ thread.
LEMMA HeldByCq ==
    ASSUME IInv, [Next]_vars, cqPc \in RecordPcs
    PROVE  \/ UNCHANGED <<cqPc, cqCall, cqMgr, cqDev>>
           \/ cqPc = "recordDevice" /\ AddDataStream(cqMgr, cqDev, cqCall)
           \/ cqPc = "recordFrame" /\ frame' = [frame EXCEPT ![cqMgr] = cqCall]
<1>1. EventStep => \/ cqPc = "recordDevice" /\ AddDataStream(cqMgr, cqDev, cqCall)
                   \/ cqPc = "recordFrame" /\ frame' = [frame EXCEPT ![cqMgr] = cqCall]
  BY DEF EventStep, LockList, UpdateSkip, UpdateDeviceGone, UpdateDevicePresent, UpdateFrame,
         CqRecordDevice, CqRemoveFrame, CqOpenFrame, CqRecordFrame, EndEvent, RecordPcs
<1>2. TagStep => FALSE
  BY TagStepKeeps DEF TagPcs, RecordPcs
<1>3. (\E m \in Managers : UserStep(m)) => UNCHANGED <<cqPc, cqCall, cqMgr, cqDev>>
  BY UserStepKeeps DEF IInv, cq
<1>4. Environment => UNCHANGED <<cqPc, cqCall, cqMgr, cqDev>>
  BY EnvironmentKeeps DEF RecordPcs
<1>5. QED
  BY <1>1, <1>2, <1>3, <1>4 DEF Next, Idle, vars, cq

\* A call that comes into being is held by the thread that opened it.
LEMMA BornHeld ==
    ASSUME IInv, [Next]_vars, NEW c \in Calls,
           calls[c].life = "unused", calls'[c].life # "unused"
    PROVE  \/ \E m \in Managers : upc'[m] \in RecordPcs /\ ucall'[m] = c
           \/ cqPc' \in RecordPcs /\ cqCall' = c
<1> USE DEF IInv
<1>t. /\ upc \in [Managers -> UserPcs] /\ ucall \in [Managers -> Calls \cup {NoCall}]
      /\ calls \in [Calls -> Record]
  BY DEF TypeOK
<1>k. UNCHANGED calls => FALSE
  OBVIOUS
<1>a. (\E S : calls' = CancelAll(S)) => FALSE
  BY <1>t, CancelAllFacts
<1>r. \A b \in Calls : \A r \in Record :
        calls[b].life = "live" /\ calls' = [calls EXCEPT ![b] = r] => FALSE
  BY <1>t
<1>o. ASSUME NEW m \in Managers, NEW D, NEW t, OpenStream(m, D, t)
      PROVE  c = nextCall
  BY <1>o, <1>t DEF OpenStream
<1>1. ASSUME NEW m \in Managers, UserStep(m)
      PROVE  upc'[m] \in RecordPcs /\ ucall'[m] = c
  <2>1. ASSUME NEW d \in Devices, OpenNextDevice(m, d)
        PROVE  upc'[m] \in RecordPcs /\ ucall'[m] = c
    <3>1. /\ OpenStream(m, {d}, "user") /\ ucall' = [ucall EXCEPT ![m] = nextCall]
          /\ upc' = [upc EXCEPT ![m] = "recordDevice"]
      BY <2>1, <1>k DEF OpenNextDevice
    <3>2. QED
      BY <3>1, <1>o, <1>t DEF RecordPcs
  <2>2. CASE OpenFrame(m)
    <3>1. /\ OpenStream(m, {d \in connected : IsDeviceDataRequested(m, d)}, "user")
          /\ ucall' = [ucall EXCEPT ![m] = nextCall] /\ upc' = [upc EXCEPT ![m] = "recordFrame"]
      BY <2>2 DEF OpenFrame
    <3>2. QED
      BY <3>1, <1>o, <1>t DEF RecordPcs
  <2>3. QED
    BY <1>1, <2>1, <2>2, <1>k, <1>a DEF UserStep, RegisterRequest, BeginOpenDevices, RecordDevice,
       EndOpenDevices, RecordFrame, CancelStreams, ClearStreams, Deregister, Destroy
<1>2. ASSUME EventStep
      PROVE  cqPc' \in RecordPcs /\ cqCall' = c
  <2>1. ASSUME NEW m \in Managers, UpdateDevicePresent(m)
        PROVE  cqPc' \in RecordPcs /\ cqCall' = c
    <3>1. OpenStream(m, {cqDev}, "cq") /\ cqPc' = "recordDevice" /\ cqCall' = nextCall
      BY <2>1, <1>k DEF UpdateDevicePresent
    <3>2. QED
      BY <3>1, <1>o DEF RecordPcs
  <2>2. CASE CqOpenFrame
    <3>1. /\ OpenStream(cqMgr, {d \in connected : IsDeviceDataRequested(cqMgr, d)}, "cq")
          /\ cqPc' = "recordFrame" /\ cqCall' = nextCall /\ cqMgr \in Managers
      BY <2>2 DEF CqOpenFrame, PhaseOK, ReplacePcs, UpdatePcs, TypeOK
    <3>2. QED
      BY <3>1, <1>o DEF RecordPcs
  <2>3. QED
    BY <1>2, <2>1, <2>2, <1>k, <1>a DEF EventStep, LockList, UpdateSkip, UpdateDeviceGone,
       UpdateFrame, CqRecordDevice, CqRemoveFrame, CqRecordFrame, EndEvent
<1>3. TagStep \/ Environment \/ Idle \/ UNCHANGED vars => FALSE
  <2>1. CASE UNCHANGED calls
    BY <2>1, <1>k
  <2>2. ASSUME NEW b \in Calls,
               calls[b].op # "none" \/ (cqPc \in {"callback", "delete"} /\ b = cqCall)
        PROVE  calls[b].life = "live" /\ calls[b] \in Record
    BY <2>2, <1>t DEF CallsOK, TagsLive
  <2>3. ASSUME NEW b \in Calls, Proceed(b) \/ CompleteOk(b) \/ CompleteFail(b)
        PROVE  FALSE
    <3>1. calls[b].life = "live" /\ calls[b] \in Record
      BY <2>3, <2>2 DEF Proceed, ProceedConnecting, ProceedDeliver, ProceedSkip, TakeFailed,
                        CompleteOk, CompleteFail
    <3>2. \E r \in Record : calls' = [calls EXCEPT ![b] = r]
      BY <2>3, <3>1, CallTypes DEF Proceed, ProceedConnecting, ProceedDeliver, ProceedSkip,
                        TakeFailed, CompleteOk, CompleteFail
    <3>3. QED
      BY <3>1, <3>2, <1>r
  <2>4. CASE EndCallback \/ (cqPc = "delete" /\ Deleted(cqCall))
    <3>1. cqCall \in Calls /\ calls[cqCall].life = "live" /\ calls[cqCall] \in Record
      BY <2>4, <1>t DEF EndCallback, CallsOK, TagsLive
    <3>2. \E r \in Record : calls' = [calls EXCEPT ![cqCall] = r]
      BY <2>4, <3>1, CallTypes DEF EndCallback, Deleted
    <3>3. QED
      BY <3>1, <3>2, <1>r
  <2>5. QED
    BY <2>1, <2>3, <2>4 DEF TagStep, Environment, Idle, DeleteUnassociated, DeleteFrame,
       DeleteDevice, DeleteUnlisted, BeginSpin, Spin, ReceiveEvent, ChannelLost, vars
<1>4. QED
  BY <1>1, <1>2, <1>3 DEF Next

\* How the thread of m comes to the places that FreePlace and Stopped speak of.
LEMMA UserArrives ==
    ASSUME IInv, [Next]_vars, NEW m \in Managers
    PROVE  /\ upc'[m] = "recordDevice" =>
                \/ upc[m] = "recordDevice" /\ udev'[m] = udev[m]
                \/ streams'[m][udev'[m]] = NoCall
           /\ upc'[m] \in {"none", "registered", "recordFrame"} =>
                upc[m] \in {"none", "registered", "recordFrame"}
           /\ upc'[m] \in StoppedPcs => upc[m] \in StoppedPcs \/ CancelStreams(m)
<1> USE DEF IInv
<1>t. upc \in [Managers -> UserPcs] /\ udev \in [Managers -> Devices]
  BY DEF TypeOK
<1>k. CASE upc'[m] = upc[m] /\ udev'[m] = udev[m]
  BY <1>k
<1>1. CASE UserStep(m)
  <2>1. CASE RegisterRequest(m) \/ BeginOpenDevices(m) \/ EndOpenDevices(m) \/ Deregister(m)
    BY <2>1, <1>t
    DEF RegisterRequest, BeginOpenDevices, EndOpenDevices, Deregister, StoppedPcs, Closing
  <2>2. CASE CancelStreams(m)
    BY <2>2, <1>t DEF CancelStreams
  <2>3. CASE RecordDevice(m) \/ OpenFrame(m) \/ RecordFrame(m) \/ ClearStreams(m) \/ Destroy(m)
    BY <2>3, <1>t
    DEF RecordDevice, OpenFrame, RecordFrame, ClearStreams, Destroy, StoppedPcs, Closing
  <2>4. ASSUME NEW d \in Devices, OpenNextDevice(m, d)
        PROVE  \/ upc'[m] = upc[m] /\ udev'[m] = udev[m]
               \/ upc'[m] = "recordDevice" /\ streams'[m][udev'[m]] = NoCall
    BY <2>4, <1>t DEF OpenNextDevice
  <2>5. QED
    BY <1>1, <2>1, <2>2, <2>3, <2>4, <1>k DEF UserStep, StoppedPcs, Closing
<1>2. ASSUME NEW n \in Managers, UserStep(n), n # m
      PROVE  upc'[m] = upc[m] /\ udev'[m] = udev[m]
  BY <1>2, UserStepKeeps
<1>3. TagStep \/ EventStep \/ Environment \/ Idle \/ UNCHANGED vars => UNCHANGED <<upc, udev>>
  BY TagStepKeeps, EventStepKeeps, EnvironmentKeeps DEF Idle, vars, user
<1>4. QED
  BY <1>1, <1>2, <1>3, <1>k DEF Next

\* How the CQ thread comes to the places that FreePlace speaks of.
LEMMA CqArrives ==
    ASSUME IInv, [Next]_vars, NEW m \in Managers, cqMgr' = m
    PROVE  /\ cqPc' = "recordDevice" =>
                \/ cqPc = "recordDevice" /\ cqMgr = m /\ cqDev' = cqDev
                \/ streams'[m][cqDev'] = NoCall
           /\ cqPc' \in {"openFrame", "recordFrame"} =>
                \/ cqPc \in {"openFrame", "recordFrame"} /\ cqMgr = m
                \/ frame'[m] = NoCall
           /\ cqPc' = "removeFrame" =>
                \/ cqPc = "removeFrame" /\ cqMgr = m
                \/ frame' = frame /\ calls' = CancelAll({frame[m]})
<1> USE DEF IInv
<1>t. frame \in [Managers -> Calls \cup {NoCall}]
  BY DEF TypeOK
<1>k. CASE UNCHANGED <<cqPc, cqMgr, cqDev>>
  BY <1>k
<1>n. CASE cqPc' \notin ReplacePcs
  BY <1>n DEF ReplacePcs
<1>1. (\E n \in Managers : UserStep(n)) => UNCHANGED <<cqPc, cqMgr, cqDev>>
  BY UserStepKeeps DEF cq
<1>2. TagStep => cqPc' \notin ReplacePcs
  BY TagStepKeeps DEF TagPcs, ReplacePcs
<1>3. CASE EventStep
  <2>1. CASE CqRemoveFrame
    BY <2>1, <1>t DEF CqRemoveFrame
  <2>2. CASE CqOpenFrame
    BY <2>2 DEF CqOpenFrame
  <2>3. CASE \E n \in Managers : UpdateFrame(n)
    BY <2>3 DEF UpdateFrame
  <2>4. CASE \E n \in Managers : UpdateDevicePresent(n)
    BY <2>4 DEF UpdateDevicePresent, OpenStream
  <2>5. CASE \/ LockList \/ CqRecordDevice \/ CqRecordFrame \/ EndEvent
             \/ \E n \in Managers : UpdateSkip(n) \/ UpdateDeviceGone(n)
    BY <2>5 DEF LockList, CqRecordDevice, CqRecordFrame, EndEvent, UpdateSkip, UpdateDeviceGone
  <2>6. QED
    BY <1>3, <2>1, <2>2, <2>3, <2>4, <2>5 DEF EventStep
<1>4. Environment => UNCHANGED <<cqPc, cqMgr, cqDev>> \/ cqPc' \notin ReplacePcs
  BY EnvironmentKeeps DEF ReplacePcs
<1>5. QED
  BY <1>1, <1>2, <1>3, <1>4, <1>k, <1>n DEF Next, Idle, vars, cq

-----------------------------------------------------------------------------
(* No stream is lost, and CloseRequest stops all of them.                  *)

\* An entry that a manager loses, as long as the threads do not overlap, is that of a
\* stream that can deliver no more.
LEMMA NoOrphanStep ==
    ASSUME IInv, OverlapNoted, HoldOK, AloneOK, NoOrphan, HoldOK', [Next]_vars
    PROVE  NoOrphan'
<1> SUFFICES ASSUME NEW c \in Calls, Delivering(c)', ~overlapped'[calls'[c].mgr]
             PROVE  Recorded(c)' \/ AboutToBeRecorded(c)'
  BY DEF NoOrphan
<1> USE DEF IInv
<1>t. /\ streams \in [Managers -> [Devices -> Calls \cup {NoCall}]] /\ calls \in [Calls -> Record]
      /\ frame \in [Managers -> Calls \cup {NoCall}] /\ udev \in [Managers -> Devices]
      /\ cqDev \in Devices /\ NoCall \notin Calls
  BY DEF TypeOK, NoCall, Calls
<1>f. calls'[c].life = "live" /\ ~calls'[c].cancelled
  BY DEF Delivering
<1>1. CASE calls[c].life = "unused"
  <2>1. \/ \E m \in Managers : upc'[m] \in RecordPcs /\ ucall'[m] = c
        \/ cqPc' \in RecordPcs /\ cqCall' = c
    BY <1>1, <1>f, BornHeld
  <2>2. QED
    BY <2>1 DEF HoldOK, AboutToBeRecorded, RecordPcs
<1>2. CASE calls[c].life # "unused"
  <2>1. PICK m \in Managers : m = calls[c].mgr
    BY <1>2 DEF CallsOK
  <2>2. calls'[c].mgr = m
    BY <1>2, <2>1, CallsChanges, CallsStable DEF Stable
  <2>3. Delivering(c)
    BY <1>2, DeliverStep
  <2>4. ~overlapped[m]
    BY <2>2, NoteStep
  <2>5. ~Overlap(m) /\ FreePlace(m) /\ Stopped(m)
    BY <2>4 DEF OverlapNoted, AloneOK
  <2>6. upc[m] \notin {"cancelled", "closed"}
    BY <2>1, <2>3, <2>5 DEF Stopped, StoppedPcs, Closing
  <2>r. (frame'[m] = c \/ \E d \in Devices : streams'[m][d] = c) => Recorded(c)'
    BY <2>2, <1>t DEF Recorded, RecordedIn
  <2>7. CASE frame[m] = c
    <3>1. Kind[m] = "frame"
      BY <2>7, <1>t DEF RecordsOK
    <3>2. upc[m] # "recordFrame"
      BY <2>5, <2>7, <3>1, <1>t DEF FreePlace
    <3>3. ~(cqMgr = m /\ cqPc \in {"recordFrame", "removeFrame"})
      BY <2>3, <2>5, <2>7, <1>t DEF FreePlace
    <3>4. frame'[m] = frame[m]
      BY <1>f, <2>6, <2>7, <3>2, <3>3, FrameChange
    <3>5. QED
      BY <2>7, <2>r, <3>4
  <2>8. ASSUME NEW d \in Devices, streams[m][d] = c
        PROVE  Recorded(c)'
    <3>1. calls' # CancelAll({streams[m][d]})
      BY <1>f, <2>8, <2>3, <1>t DEF CancelAll, CancelCall, Delivering, Record
    <3>2. streams'[m][d] = streams[m][d]
      BY <1>f, <1>t, <2>6, <2>8, <3>1, StreamChange
    <3>3. QED
      BY <2>8, <2>r, <3>2
  <2>9. CASE ucall[m] = c
    <3>1. upc[m] \in RecordPcs
      BY <2>9, <1>t DEF HoldOK
    <3>2. CASE ucall'[m] = ucall[m]
      BY <2>2, <2>9, <3>2 DEF AboutToBeRecorded
    <3>3. CASE upc[m] = "recordDevice" /\ AddDataStream(m, udev[m], ucall[m])
      BY <2>5, <2>9, <2>r, <3>3, <1>t DEF FreePlace, AddDataStream
    <3>4. CASE upc[m] = "recordFrame" /\ frame' = [frame EXCEPT ![m] = ucall[m]]
      BY <2>9, <2>r, <3>4, <1>t
    <3>5. QED
      BY <3>1, <3>2, <3>3, <3>4, HeldByUser
  <2>10. CASE cqPc \in RecordPcs /\ cqCall = c
    <3>1. cqMgr = m
      BY <2>1, <2>10 DEF HoldOK
    <3>2. CASE UNCHANGED <<cqPc, cqCall, cqMgr, cqDev>>
      BY <2>10, <3>2 DEF AboutToBeRecorded, RecordPcs
    <3>3. CASE cqPc = "recordDevice" /\ AddDataStream(cqMgr, cqDev, cqCall)
      BY <2>5, <2>10, <2>r, <3>1, <3>3, <1>t DEF FreePlace, AddDataStream
    <3>4. CASE cqPc = "recordFrame" /\ frame' = [frame EXCEPT ![cqMgr] = cqCall]
      BY <2>10, <2>r, <3>1, <3>4, <1>t
    <3>5. QED
      BY <2>10, <3>2, <3>3, <3>4, HeldByCq
  <2>11. QED
    BY <2>1, <2>3, <2>4, <2>7, <2>8, <2>9, <2>10
    DEF NoOrphan, Recorded, RecordedIn, AboutToBeRecorded, RecordPcs
<1>3. QED
  BY <1>1, <1>2

\* A place stays free until the thread that is about to fill it does, and CloseRequest,
\* which cancels what is recorded, misses no stream that can deliver.
LEMMA AloneStep ==
    ASSUME IInv, OverlapNoted, HoldOK, AloneOK, NoOrphan, HoldOK', OverlapNoted', PhaseOK',
           [Next]_vars
    PROVE  AloneOK'
<1> SUFFICES ASSUME NEW m \in Managers, ~overlapped'[m]
             PROVE  FreePlace(m)' /\ Stopped(m)'
  BY DEF AloneOK
<1> USE DEF IInv
<1>t. /\ streams \in [Managers -> [Devices -> Calls \cup {NoCall}]] /\ calls \in [Calls -> Record]
      /\ frame \in [Managers -> Calls \cup {NoCall}] /\ udev \in [Managers -> Devices]
      /\ cqDev \in Devices /\ NoCall \notin Calls /\ upc \in [Managers -> UserPcs]
      /\ udev' \in [Managers -> Devices] /\ cqDev' \in Devices
  BY TypeStep DEF TypeOK, NoCall, Calls
<1>o. ~overlapped[m] /\ ~Overlap(m) /\ ~Overlap(m)'
  BY NoteStep DEF OverlapNoted
<1>p. FreePlace(m) /\ Stopped(m)
  BY <1>o DEF AloneOK
<1>1. upc'[m] = "recordDevice" => streams'[m][udev'[m]] = NoCall
  <2> SUFFICES ASSUME upc[m] = "recordDevice", udev'[m] = udev[m], upc'[m] = "recordDevice"
               PROVE  streams'[m][udev[m]] = NoCall
    BY UserArrives
  <2>1. streams[m][udev[m]] = NoCall /\ ~(cqPc = "recordDevice" /\ cqMgr = m)
    BY <1>o, <1>p DEF FreePlace, Overlap
  <2>2. udev[m] \in Devices
    BY <1>t
  <2>3. QED
    BY <2>1, <2>2, StreamChange
<1>2. Kind[m] = "frame" /\ upc'[m] \in {"none", "registered", "recordFrame"} => frame'[m] = NoCall
  <2> SUFFICES ASSUME Kind[m] = "frame", upc'[m] \in {"none", "registered", "recordFrame"}
               PROVE  frame'[m] = NoCall
    OBVIOUS
  <2>1. upc[m] \in {"none", "registered", "recordFrame"}
    BY UserArrives
  <2>2. frame[m] = NoCall
    BY <2>1, <1>p DEF FreePlace
  <2>3. ~(cqPc = "recordFrame" /\ cqMgr = m)
    <3>1. upc[m] = "none" => m \notin list
      BY DEF PhaseOK
    <3>2. cqPc = "recordFrame" /\ cqMgr = m => m \in list
      BY DEF PhaseOK, UpdatePcs, ReplacePcs
    <3>3. upc[m] \in {"registered", "recordFrame"} /\ cqPc = "recordFrame" /\ cqMgr = m =>
            Overlap(m)
      BY DEF Overlap
    <3>4. QED
      BY <2>1, <3>1, <3>2, <3>3, <1>o
  <2>4. QED
    BY <2>2, <2>3, FrameChange
<1>3. cqPc' = "recordDevice" /\ cqMgr' = m => streams'[m][cqDev'] = NoCall
  <2> SUFFICES ASSUME cqPc' = "recordDevice", cqMgr' = m, cqPc = "recordDevice", cqMgr = m,
                      cqDev' = cqDev
               PROVE  streams'[m][cqDev] = NoCall
    BY CqArrives
  <2>1. streams[m][cqDev] = NoCall /\ upc[m] # "recordDevice"
    BY <1>o, <1>p DEF FreePlace, Overlap
  <2>2. cqDev \in Devices
    BY <1>t
  <2>3. QED
    BY <2>1, <2>2, StreamChange
<1>4. cqPc' \in {"openFrame", "recordFrame"} /\ cqMgr' = m => frame'[m] = NoCall
  <2> SUFFICES ASSUME cqPc' \in {"openFrame", "recordFrame"}, cqMgr' = m,
                      cqPc \in {"openFrame", "recordFrame"}, cqMgr = m
               PROVE  frame'[m] = NoCall
    BY CqArrives
  <2>1. frame[m] = NoCall /\ upc[m] # "recordFrame"
    BY <1>o, <1>p DEF FreePlace, Overlap
  <2>2. QED
    BY <2>1, FrameChange
<1>5. cqPc' = "removeFrame" /\ cqMgr' = m /\ frame'[m] # NoCall => ~Delivering(frame[m])'
  <2> SUFFICES ASSUME cqPc' = "removeFrame", cqMgr' = m, frame'[m] # NoCall
               PROVE  ~Delivering(frame[m])'
    OBVIOUS
  <2>1. frame'[m] = frame[m]
    <3>1. cqPc = "removeFrame" /\ cqMgr = m => upc[m] # "recordFrame"
      BY <1>o DEF Overlap
    <3>2. QED
      BY <3>1, CqArrives, FrameChange
  <2>2. PICK c \in Calls : c = frame[m]
    BY <2>1, <1>t
  <2>3. calls[c].life # "unused"
    BY <2>2, <1>t DEF RecordsOK
  <2>4. ASSUME Delivering(c)'
        PROVE  FALSE
    <3>1. Delivering(c)
      BY <2>3, <2>4, DeliverStep
    <3>2. CASE cqPc = "removeFrame" /\ cqMgr = m
      BY <2>1, <2>2, <3>1, <3>2, <1>p DEF FreePlace
    <3>3. CASE calls' = CancelAll({frame[m]})
      BY <2>2, <2>4, <3>1, <3>3, <1>t DEF CancelAll, CancelCall, Delivering, Record
    <3>4. QED
      BY <3>2, <3>3, CqArrives
  <2>5. QED
    BY <2>1, <2>2, <2>4
<1>6. Stopped(m)'
  <2> SUFFICES ASSUME upc'[m] \in StoppedPcs, NEW c \in Calls, calls'[c].mgr = m, Delivering(c)'
               PROVE  FALSE
    BY DEF Stopped
  <2>f. calls'[c].life = "live" /\ ~calls'[c].cancelled
    BY DEF Delivering
  <2>1. ~(ucall'[m] = c /\ upc'[m] \in RecordPcs)
    BY DEF StoppedPcs, Closing, RecordPcs
  <2>2. ~(cqPc' \in RecordPcs /\ cqCall' = c)
    <3> SUFFICES ASSUME cqPc' \in RecordPcs, cqCall' = c
                 PROVE  FALSE
      OBVIOUS
    <3>1. cqMgr' = m
      BY DEF HoldOK
    <3>2. m \in list'
      BY <3>1 DEF PhaseOK, RecordPcs, UpdatePcs, ReplacePcs
    <3>3. upc'[m] \notin {"none"} \cup Closing
      BY <3>2 DEF PhaseOK
    <3>4. QED
      BY <3>1, <3>3, <1>o DEF Overlap, StoppedPcs, RecordPcs
  <2>3. calls[c].life # "unused"
    <3>1. \A n \in Managers : upc'[n] \in RecordPcs /\ ucall'[n] = c => n = m
      BY DEF HoldOK
    <3>2. QED
      BY <2>f, <2>1, <2>2, <3>1, BornHeld
  <2>4. Delivering(c) /\ calls[c].mgr = m
    BY <2>3, DeliverStep, CallsChanges, CallsStable DEF Stable
  <2>5. CancelStreams(m)
    BY <2>4, <1>p, UserArrives DEF Stopped
  <2>6. Recorded(c)
    <3>1. upc[m] = "open" /\ UNCHANGED cq
      BY <2>5 DEF CancelStreams
    <3>2. ucall[m] # c
      BY <3>1, <1>t DEF HoldOK, RecordPcs
    <3>3. ~(cqPc \in RecordPcs /\ cqCall = c)
      BY <2>2, <3>1 DEF cq
    <3>4. QED
      BY <2>4, <3>2, <3>3, <1>o DEF NoOrphan, AboutToBeRecorded, RecordPcs
  <2>7. \E S : calls' = CancelAll(S) /\ c \in S
    <3>1. CASE Kind[m] = "device"
      <4>1. frame[m] # c
        BY <3>1, <1>t DEF RecordsOK
      <4>2. c \in RecordedIn(m)
        BY <2>4, <2>6, <4>1 DEF Recorded
      <4>3. QED
        BY <2>5, <3>1, <4>2 DEF CancelStreams
    <3>2. CASE Kind[m] # "device"
      <4>1. c \notin RecordedIn(m)
        BY <3>2, <1>t DEF RecordsOK, RecordedIn
      <4>2. c = frame[m]
        BY <2>4, <2>6, <4>1 DEF Recorded
      <4>3. QED
        BY <2>5, <3>2, <4>2 DEF CancelStreams
    <3>3. QED
      BY <3>1, <3>2
  <2>8. QED
    BY <2>f, <2>4, <2>7, <1>t DEF CancelAll, CancelCall, Delivering, Record
<1>7. FreePlace(m)'
  BY <1>1, <1>2, <1>3, <1>4, <1>5 DEF FreePlace
<1>8. QED
  BY <1>6, <1>7

-----------------------------------------------------------------------------
(* The theorems.                                                           *)

\* Nothing is open, held or overlapping at the start.
LEMMA StreamInit == Init => SInv
<1> SUFFICES ASSUME Init
             PROVE  SInv
  OBVIOUS
<1> USE DEF Init
<1>1. IInv
  BY InvariantInit
<1>2. OverlapNoted
  BY DEF OverlapNoted, Overlap
<1>3. HoldOK
  BY DEF HoldOK, RecordPcs
<1>4. AloneOK
  BY DEF AloneOK, FreePlace, Stopped, StoppedPcs, Closing
<1>5. NoOrphan
  BY DEF NoOrphan, Delivering, NeverOpened
<1>6. FrameOK
  BY DEF FrameOK
<1>7. ExactOK
  BY DEF ExactOK, EventPcs, UpdatePcs
<1>8. QED
  BY <1>1, <1>2, <1>3, <1>4, <1>5, <1>6, <1>7 DEF SInv

\* Every step preserves the invariant.
LEMMA StreamStep == SInv /\ [Next]_vars => SInv'
<1> SUFFICES ASSUME SInv, [Next]_vars
             PROVE  SInv'
  OBVIOUS
<1> USE DEF SInv
<1>1. IInv' /\ HoldOK' /\ ExactOK' /\ FrameOK'
  BY InvariantStep, HoldStep, ExactStep, FrameStep
<1>2. OverlapNoted'
  BY NoteStep DEF IInv
<1>3. NoOrphan'
  BY <1>1, NoOrphanStep
<1>4. AloneOK'
  <2>1. PhaseOK'
    BY <1>1 DEF IInv
  <2>2. QED
    BY <1>1, <1>2, <2>1, AloneStep
<1>5. QED
  BY <1>1, <1>2, <1>3, <1>4

\* SInv is an invariant of the registry.
THEOREM StreamInvariance == Spec => []SInv
<1>1. Init => SInv
  BY StreamInit
<1>2. SInv /\ [Next]_vars => SInv'
  BY StreamStep
<1>3. QED
  BY <1>1, <1>2, PTL DEF Spec

\* No storage outlives its device: as long as the channel has not gone down, a registered
\* manager keeps the storage of a device that is gone only until DeviceEventProcessor has
\* shown it the event.
THEOREM StorageAlwaysExact == Spec => []StorageExact
<1>1. SInv => StorageExact
  BY DEF SInv, ExactOK, StorageExact
<1>2. QED
  BY <1>1, StreamInvariance, PTL

\* As long as the threads have not overlapped on its manager, a stream that can deliver is
\* recorded there or about to be, so that a disconnection, CloseRequest and Shutdown reach it.
THEOREM StreamsNeverLost == Spec => []NoOrphan
<1>1. SInv => NoOrphan
  BY DEF SInv
<1>2. QED
  BY <1>1, StreamInvariance, PTL

\* Between events, and as long as the channel has not gone down, the data frame stream of a
\* manager on which the threads have not overlapped covers exactly the connected devices
\* that were requested.
THEOREM FrameAlwaysCurrent == Spec => []FrameCurrent
<1>1. SInv => FrameCurrent
  <2> SUFFICES ASSUME SInv, cqPc = "next", drops = 0, NEW m \in list, Kind[m] = "frame",
                      ~overlapped[m], frame[m] # NoCall
               PROVE  calls[frame[m]].covers = Present(m)
    BY DEF FrameCurrent, Present
  <2>1. ~Pending(m)
    BY DEF Pending, UpdatePcs
  <2>2. QED
    BY <2>1 DEF SInv, FrameOK
<1>2. QED
  BY <1>1, StreamInvariance, PTL

\* What ClosedRequestStopped asks of CloseRequest holds of every manager on which the
\* threads have not overlapped: no stream of it can deliver once the request is closed.
ClosedStoppedAlone ==
    \A c \in Calls : Delivering(c) /\ ~overlapped[calls[c].mgr] =>
        upc[calls[c].mgr] \notin Closing

\* CloseRequest stops every stream of its manager, unless the CQ thread was at work on one.
THEOREM ClosedAloneAlwaysStopped == Spec => []ClosedStoppedAlone
<1>1. SInv => ClosedStoppedAlone
  <2> SUFFICES ASSUME SInv, NEW c \in Calls, Delivering(c), ~overlapped[calls[c].mgr],
                      upc[calls[c].mgr] \in Closing
               PROVE  FALSE
    BY DEF ClosedStoppedAlone
  <2>1. calls[c].mgr \in Managers
    BY DEF SInv, IInv, CallsOK, Delivering
  <2>2. QED
    BY <2>1 DEF SInv, AloneOK, Stopped, StoppedPcs
<1>2. QED
  BY <1>1, StreamInvariance, PTL
=============================================================================
