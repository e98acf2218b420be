------------------------ MODULE StreamRegistryProofs ------------------------
(***************************************************************************)
(* Theorems about StreamRegistry, for any sets of devices and managers and *)
(* any values of the bounds.                                               *)
(***************************************************************************)
EXTENDS StreamRegistry, TLAPS

-----------------------------------------------------------------------------
(* The inductive invariant.                                                *)

Closing == {"closed", "destroyed"}
\* The places where the CQ thread works on the stream of cqMgr.
ReplacePcs == {"recordDevice", "removeFrame", "openFrame", "recordFrame"}

\* Calls are numbered in the order they are opened; only an existing call has a tag
\* under way, and the one in the CQ thread's hands has none.
CallsOK ==
    /\ \A c \in Calls : (calls[c].life = "unused") <=> (nextCall <= c)
    /\ \A c \in Calls : calls[c].life # "unused" => calls[c].mgr \in Managers
    /\ TagsLive

\* What the program counters say about the list, the kinds and the event.
PhaseOK ==
    /\ \A m \in Managers : m \in list <=> upc[m] \notin {"none"} \cup Closing
    /\ \A m \in Managers : /\ upc[m] \in {"opening", "recordDevice"} => Kind[m] = "device"
                           /\ upc[m] = "recordFrame" => Kind[m] = "frame"
    /\ cqPc \in UpdatePcs => cqTodo \subseteq list
    /\ cqPc \in ReplacePcs => cqMgr \in cqTodo
    /\ cqPc = "recordDevice" => Kind[cqMgr] = "device" /\ cqConn
    /\ cqPc \in {"removeFrame", "openFrame", "recordFrame"} => Kind[cqMgr] = "frame"
    /\ cqPc \in {"lockList"} \cup UpdatePcs /\ ~cqConn => cqDev \notin connected

\* A thread about to record a call holds one that it opened itself; the CQ thread's
\* still exists, for no other thread deletes calls.
HandsOK ==
    /\ \A m \in Managers : upc[m] \in {"recordDevice", "recordFrame"} =>
         /\ ucall[m] \in Calls
         /\ calls[ucall[m]].life # "unused"
         /\ calls[ucall[m]].by = "user"
    /\ \A m \in Managers : upc[m] = "recordDevice" => calls[ucall[m]].covers = {udev[m]}
    /\ cqPc \in {"recordDevice", "recordFrame"} =>
         /\ cqCall \in Calls
         /\ calls[cqCall].life = "live"
         /\ calls[cqCall].by = "cq"
    /\ cqPc = "recordDevice" => calls[cqCall].covers = {cqDev}

\* What is recorded: streams under the device they were opened for, a frame only in a
\* manager of frames, nothing in a destroyed manager.
RecordsOK ==
    /\ \A m \in Managers, d \in Devices : streams[m][d] # NoCall =>
         /\ Kind[m] = "device" /\ upc[m] # "destroyed"
         /\ calls[streams[m][d]].life # "unused"
         /\ calls[streams[m][d]].covers = {d}
    /\ \A m \in Managers : frame[m] # NoCall =>
         /\ Kind[m] = "frame" /\ upc[m] # "destroyed"
         /\ calls[frame[m]].life # "unused"

\* StorageCoverage, with the device a thread is at counted as served.
CoverageOK ==
    /\ \A m \in list, d \in connected :
         IsDeviceDataRequested(m, d) =>
           \/ d \in storage[m]
           \/ UserWillServe(m, d) /\ ~(upc[m] = "recordDevice" /\ d = udev[m])
           \/ CqWillServe(m, d) /\ ~(cqPc \in {"recordDevice", "recordFrame"} /\ m = cqMgr)

IInv == TypeOK /\ CallsOK /\ PhaseOK /\ HandsOK /\ RecordsOK /\ CqRecordedLive /\ CoverageOK

-----------------------------------------------------------------------------
(* Lemmas about the operators on calls.                                    *)

\* Every operation on a call yields a call.
LEMMA CallTypes ==
    ASSUME NEW r \in Record
    PROVE  /\ CancelCall(r) \in Record /\ Stop(r) \in Record /\ TakeTag(r) \in Record
           /\ ReadAgain(r) \in Record /\ Delete(r) \in Record
           /\ Complete(r, "ok") \in Record /\ Complete(r, "fail") \in Record
  BY DEF Record, CancelCall, Stop, TakeTag, ReadAgain, Delete, Complete

\* A started call is live, with its first tag pending.
LEMMA StartCallType ==
    ASSUME NEW m \in Managers, NEW D \in SUBSET Devices, NEW t \in {"user", "cq"}
    PROVE  /\ StartCall(m, D, t) \in Record
           /\ StartCall(m, D, t).life = "live" /\ StartCall(m, D, t).op = "pending"
           /\ StartCall(m, D, t).mgr = m /\ StartCall(m, D, t).covers = D
           /\ StartCall(m, D, t).by = t
  BY DEF Record, StartCall

\* Cancelling changes neither the life, nor the tag, nor the identity of a call.
LEMMA CancelAllFacts ==
    ASSUME calls \in [Calls -> Record], NEW S
    PROVE  /\ CancelAll(S) \in [Calls -> Record]
           /\ \A c \in Calls :
                /\ CancelAll(S)[c].life = calls[c].life
                /\ CancelAll(S)[c].op = calls[c].op
                /\ CancelAll(S)[c].mgr = calls[c].mgr
                /\ CancelAll(S)[c].covers = calls[c].covers
                /\ CancelAll(S)[c].by = calls[c].by
<1>1. CancelAll(S) \in [Calls -> Record]
  BY CallTypes DEF CancelAll
<1>2. ASSUME NEW c \in Calls
      PROVE  /\ CancelAll(S)[c].life = calls[c].life
             /\ CancelAll(S)[c].op = calls[c].op
             /\ CancelAll(S)[c].mgr = calls[c].mgr
             /\ CancelAll(S)[c].covers = calls[c].covers
             /\ CancelAll(S)[c].by = calls[c].by
  BY DEF CancelAll, CancelCall, Record
<1>3. QED
  BY <1>1, <1>2

-----------------------------------------------------------------------------
(* Types.                                                                  *)

\* The initial state is well typed.
LEMMA TypeInit == Init => TypeOK
<1> SUFFICES ASSUME Init
             PROVE  TypeOK
  OBVIOUS
<1> USE DEF Init
<1>1. AnyDevice \in Devices
  BY RegistryAssumption DEF AnyDevice
<1>2. calls \in [Calls -> Record]
  BY DEF NeverOpened, Record
<1>3. streams \in [Managers -> [Devices -> Calls \cup {NoCall}]]
  OBVIOUS
<1>4. /\ frame \in [Managers -> Calls \cup {NoCall}]
      /\ storage \in [Managers -> SUBSET Devices]
      /\ upc \in [Managers -> UserPcs]
      /\ utodo \in [Managers -> SUBSET Devices]
      /\ ucall \in [Managers -> Calls \cup {NoCall}]
      /\ udev \in [Managers -> Devices]
  BY <1>1 DEF UserPcs
<1>5. nextCall \in 1..(MaxCalls + 1) /\ events \in 0..MaxEvents /\ drops \in 0..MaxDrops
  BY CallAssumption, RegistryAssumption
<1>6. cqPc \in CqPcs
  BY DEF CqPcs
<1>7. QED
  BY <1>1, <1>2, <1>3, <1>4, <1>5, <1>6 DEF TypeOK

\* Every step keeps the types.
LEMMA TypeStep == TypeOK /\ CallsOK /\ PhaseOK /\ [Next]_vars => TypeOK'
<1> SUFFICES ASSUME TypeOK, CallsOK, PhaseOK, [Next]_vars
             PROVE  TypeOK'
  OBVIOUS
<1> USE DEF TypeOK, UserPcs, CqPcs, UpdatePcs, NoCall
<1>c. ASSUME NEW m \in Managers, NEW D \in SUBSET Devices, NEW t \in {"user", "cq"},
             OpenStream(m, D, t)
      PROVE  /\ calls' \in [Calls -> Record] /\ nextCall' \in 1..(MaxCalls + 1)
             /\ nextCall \in Calls
  BY <1>c, StartCallType, CallAssumption DEF OpenStream, Calls
<1>a. AnyDevice \in Devices
  BY RegistryAssumption DEF AnyDevice
<1>o. NoteOverlap => overlapped' \in [Managers -> BOOLEAN]
  BY DEF NoteOverlap
<1>1. ASSUME NEW m \in Managers, UserStep(m)
      PROVE  TypeOK'
  <2>1. CASE RegisterRequest(m)
    BY <2>1 DEF RegisterRequest, vars, cq
  <2>2. CASE BeginOpenDevices(m)
    BY <2>2 DEF BeginOpenDevices, registry, cq
  <2>3. ASSUME NEW d \in Devices, OpenNextDevice(m, d)
        PROVE  TypeOK'
    <3>1. storage' \in [Managers -> SUBSET Devices]
      BY <2>3 DEF OpenNextDevice, AddDeviceStorage
    <3>2. \/ /\ OpenStream(m, {d}, "user")
             /\ ucall' = [ucall EXCEPT ![m] = nextCall]
             /\ udev' = [udev EXCEPT ![m] = d]
             /\ upc' = [upc EXCEPT ![m] = "recordDevice"]
             /\ UNCHANGED utodo
          \/ /\ utodo' = [utodo EXCEPT ![m] = @ \ {d}]
             /\ UNCHANGED <<calls, nextCall, upc, ucall, udev>>
      BY <2>3 DEF OpenNextDevice
    <3>3. UNCHANGED <<connected, list, streams, frame, cq, events, drops>> /\ NoteOverlap
      BY <2>3 DEF OpenNextDevice
    <3>4. calls' \in [Calls -> Record] /\ nextCall' \in 1..(MaxCalls + 1)
      BY <3>2, <1>c
    <3>5. upc' \in [Managers -> UserPcs]
      BY <3>2
    <3>5a. udev' \in [Managers -> Devices]
      BY <3>2
    <3>6. utodo' \in [Managers -> SUBSET Devices]
      BY <3>2
    <3>7. ucall' \in [Managers -> Calls \cup {NoCall}]
      <4>1. \/ /\ OpenStream(m, {d}, "user") /\ ucall' = [ucall EXCEPT ![m] = nextCall]
            \/ ucall' = ucall
        BY <3>2
      <4>2. ASSUME OpenStream(m, {d}, "user")
            PROVE  nextCall \in Calls
        BY ONLY <4>2 DEF OpenStream
      <4>3. ucall \in [Managers -> Calls \cup {NoCall}]
        OBVIOUS
      <4>4. QED
        BY ONLY <4>1, <4>2, <4>3
    <3>8. QED
      BY <3>1, <3>3, <3>4, <3>5, <3>6, <3>7, <3>5a, <1>o DEF cq
  <2>4. CASE RecordDevice(m)
    BY <2>4, <1>a DEF RecordDevice, AddDataStream, cq
  <2>5. CASE EndOpenDevices(m)
    BY <2>5 DEF EndOpenDevices, registry, cq
  <2>6. CASE OpenFrame(m)
    BY <2>6, <1>c, <1>o DEF OpenFrame, AddDeviceStorage, cq
  <2>7. CASE RecordFrame(m)
    BY <2>7 DEF RecordFrame, cq
  <2>8. CASE CancelStreams(m)
    <3>1. calls' \in [Calls -> Record]
      <4>1. CASE calls' = CancelAll(RecordedIn(m))
        BY <4>1, CancelAllFacts
      <4>2. CASE calls' = CancelAll({frame[m]})
        BY <4>2, CancelAllFacts
      <4>3. QED
        BY <2>8, <4>1, <4>2 DEF CancelStreams
    <3>2. QED
      BY <2>8, <3>1, <1>o DEF CancelStreams, registry, cq
  <2>9. CASE ClearStreams(m)
    <3>1. \/ streams' = [streams EXCEPT ![m] = [d \in Devices |-> NoCall]] /\ UNCHANGED frame
          \/ frame' = [frame EXCEPT ![m] = NoCall] /\ UNCHANGED streams
      BY <2>9 DEF ClearStreams
    <3>2. frame' \in [Managers -> Calls \cup {NoCall}]
      BY <3>1
    <3>3. streams' \in [Managers -> [Devices -> Calls \cup {NoCall}]]
      BY <3>1
    <3>4. QED
      BY <2>9, <3>2, <3>3 DEF ClearStreams, cq
  <2>10. CASE Deregister(m)
    BY <2>10 DEF Deregister, cq
  <2>11. CASE Destroy(m)
    BY <2>11 DEF Destroy, cq
  <2>12. QED
    BY <1>1, <2>1, <2>2, <2>3, <2>4, <2>5, <2>6, <2>7, <2>8, <2>9, <2>10, <2>11 DEF UserStep
<1>2. ASSUME TagStep
      PROVE  TypeOK'
  <2>1. ASSUME NEW c \in Calls, Proceed(c)
        PROVE  TypeOK'
    BY <2>1, CallTypes
    DEF Proceed, ProceedConnecting, ProceedDeliver, ProceedSkip, TakeFailed, registry, user, cq
  <2>2. CASE EndCallback
    BY <2>2, CallTypes DEF EndCallback, registry, user, TagsLive, CallsOK
  <2>3. CASE Deleted(cqCall) /\ UNCHANGED <<streams, frame>>
    BY <2>3, CallTypes DEF Deleted, user
  <2>4. CASE Deleted(cqCall) /\ UNCHANGED streams
                             /\ frame' = [frame EXCEPT ![calls[cqCall].mgr] = NoCall]
    BY <2>4, CallTypes DEF Deleted, user
  <2>5. ASSUME NEW d \in Devices, Deleted(cqCall), UNCHANGED frame,
               streams' = [streams EXCEPT ![calls[cqCall].mgr][d] = NoCall]
        PROVE  TypeOK'
    BY <2>5, CallTypes DEF Deleted, user
  <2>6. CASE BeginSpin \/ Spin
    BY <2>6 DEF BeginSpin, Spin, vars, registry, user, cq
  <2>7. QED
    BY <1>2, <2>1, <2>2, <2>3, <2>4, <2>5, <2>6
    DEF TagStep, DeleteUnassociated, DeleteFrame, DeleteDevice, DeleteUnlisted
<1>3. ASSUME EventStep
      PROVE  TypeOK'
  <2>1. CASE LockList
    BY <2>1 DEF LockList, registry, user
  <2>2. ASSUME NEW m \in Managers, UpdateSkip(m)
        PROVE  TypeOK'
    BY <2>2 DEF UpdateSkip, registry, user
  <2>3. ASSUME NEW m \in Managers, UpdateDeviceGone(m)
        PROVE  TypeOK'
    BY <2>3, CancelAllFacts DEF UpdateDeviceGone, RemoveDeviceStorage, user
  <2>4. ASSUME NEW m \in Managers, UpdateDevicePresent(m)
        PROVE  TypeOK'
    BY <2>4, <1>c, <1>o DEF UpdateDevicePresent, AddDeviceStorage, user
  <2>5. ASSUME NEW m \in Managers, UpdateFrame(m)
        PROVE  TypeOK'
    BY <2>5, CancelAllFacts, <1>o DEF UpdateFrame, RemoveDeviceStorage, user
  <2>6. CASE CqRecordDevice
    BY <2>6 DEF CqRecordDevice, AddDataStream, user
  <2>7. CASE CqRemoveFrame
    BY <2>7 DEF CqRemoveFrame, user
  <2>8. CASE CqOpenFrame
    <3>1. cqMgr \in Managers
      BY <2>8 DEF CqOpenFrame, PhaseOK, ReplacePcs
    <3>2. QED
      BY <2>8, <3>1, <1>c DEF CqOpenFrame, AddDeviceStorage, user
  <2>9. CASE CqRecordFrame
    BY <2>9 DEF CqRecordFrame, user
  <2>10. CASE EndEvent
    BY <2>10, <1>a DEF EndEvent, registry, user
  <2>11. QED
    BY <1>3, <2>1, <2>2, <2>3, <2>4, <2>5, <2>6, <2>7, <2>8, <2>9, <2>10 DEF EventStep
<1>4. ASSUME Environment
      PROVE  TypeOK'
  <2>1. ASSUME NEW d \in Devices, NEW conn \in BOOLEAN, ReceiveEvent(d, conn)
        PROVE  TypeOK'
    BY <2>1, RegistryAssumption DEF ReceiveEvent, user
  <2>2. ASSUME NEW c \in Calls, CompleteOk(c) \/ CompleteFail(c)
        PROVE  TypeOK'
    BY <2>2, CallTypes DEF CompleteOk, CompleteFail, registry, user, cq
  <2>3. CASE ChannelLost
    BY <2>3, RegistryAssumption DEF ChannelLost, user, cq
  <2>4. QED
    BY <1>4, <2>1, <2>2, <2>3 DEF Environment
<1>5. CASE Idle \/ UNCHANGED vars
  BY <1>5 DEF Idle, vars, registry, user, cq
<1>6. QED
  BY <1>1, <1>2, <1>3, <1>4, <1>5 DEF Next

-----------------------------------------------------------------------------
(* Calls.                                                                  *)

InHand == {"callback", "delete", "spin"}
\* If the CQ thread works on a call after the step, it is the one it worked on before.
HandKept == cqPc' \in InHand => cqPc \in InHand /\ cqCall' = cqCall

\* The step changes one live call, c, into r.
OneCall(c, r) ==
    /\ calls[c].life = "live" /\ nextCall' = nextCall
    /\ calls' = [calls EXCEPT ![c] = r]
    /\ r.mgr = calls[c].mgr /\ r.covers = calls[c].covers /\ r.by = calls[c].by

\* What a step can do to the calls: nothing; open the next one; cancel some; or, to one
\* of them, what the CQ thread or gRPC does.
CallsChange ==
    \/ UNCHANGED <<calls, nextCall>> /\ HandKept
    \/ /\ \E m \in Managers, D \in SUBSET Devices, t \in {"user", "cq"} : OpenStream(m, D, t)
       /\ HandKept
    \/ /\ nextCall' = nextCall /\ HandKept
       /\ \E S \in SUBSET (Calls \cup {NoCall}) : calls' = CancelAll(S)
    \/ \E c \in Calls, r \in Record :
         /\ OneCall(c, r)
         /\ \/ r.life = "live" /\ r.op # "none" /\ HandKept /\ (cqPc' \in InHand => c # cqCall)
            \/ r.life = "live" /\ r.op = "none" /\ cqCall' = c
            \/ r.life = "freed" /\ r.op = "none"
               /\ cqPc = "delete" /\ cqPc' = "next" /\ c = cqCall

\* Every step of the model does one of these things to the calls.
LEMMA CallsChanges == TypeOK /\ CallsOK /\ PhaseOK /\ [Next]_vars => CallsChange
<1> SUFFICES ASSUME TypeOK, CallsOK, PhaseOK, [Next]_vars
             PROVE  CallsChange
  OBVIOUS
<1>t. /\ streams \in [Managers -> [Devices -> Calls \cup {NoCall}]]
      /\ frame \in [Managers -> Calls \cup {NoCall}] /\ calls \in [Calls -> Record]
  BY DEF TypeOK
<1>l. /\ \A c \in Calls : calls[c].op # "none" => calls[c].life = "live"
      /\ cqPc \in InHand => /\ cqCall \in Calls
                            /\ calls[cqCall].life = "live" /\ calls[cqCall].op = "none"
  BY DEF CallsOK, TagsLive, InHand
<1>1. ASSUME NEW m \in Managers, UserStep(m)
      PROVE  CallsChange
  <2>1. CASE \/ RegisterRequest(m) \/ BeginOpenDevices(m) \/ RecordDevice(m) \/ EndOpenDevices(m)
             \/ RecordFrame(m) \/ ClearStreams(m) \/ Deregister(m) \/ Destroy(m)
    BY <2>1 DEF RegisterRequest, BeginOpenDevices, RecordDevice, EndOpenDevices, RecordFrame,
                ClearStreams, Deregister, Destroy, cq, CallsChange, HandKept
  <2>2. ASSUME NEW d \in Devices, OpenNextDevice(m, d)
        PROVE  CallsChange
    <3>1. HandKept
      BY <2>2 DEF OpenNextDevice, cq, HandKept
    <3>2. OpenStream(m, {d}, "user") \/ UNCHANGED <<calls, nextCall>>
      BY <2>2 DEF OpenNextDevice
    <3>3. QED
      BY <3>1, <3>2 DEF CallsChange
  <2>3. CASE OpenFrame(m)
    <3>1. HandKept
      BY <2>3 DEF OpenFrame, cq, HandKept
    <3>2. OpenStream(m, {d \in connected : IsDeviceDataRequested(m, d)}, "user")
      BY <2>3 DEF OpenFrame
    <3>3. {d \in connected : IsDeviceDataRequested(m, d)} \in SUBSET Devices
      BY DEF TypeOK
    <3>4. QED
      BY <3>1, <3>2, <3>3 DEF CallsChange
  <2>4. CASE CancelStreams(m)
    <3>1. HandKept /\ nextCall' = nextCall
      BY <2>4 DEF CancelStreams, cq, HandKept
    <3>2. calls' = CancelAll(RecordedIn(m)) \/ calls' = CancelAll({frame[m]})
      BY <2>4 DEF CancelStreams
    <3>3. RecordedIn(m) \in SUBSET (Calls \cup {NoCall})
      BY <1>t DEF RecordedIn
    <3>4. {frame[m]} \in SUBSET (Calls \cup {NoCall})
      BY <1>t
    <3>5. QED
      BY <3>1, <3>2, <3>3, <3>4 DEF CallsChange
  <2>5. QED
    BY <1>1, <2>1, <2>2, <2>3, <2>4 DEF UserStep
<1>2. ASSUME TagStep
      PROVE  CallsChange
  <2>1. ASSUME NEW c \in Calls, ProceedConnecting(c) \/ ProceedSkip(c)
        PROVE  CallsChange
    <3>1. OneCall(c, ReadAgain(calls[c])) /\ cqPc' = "next"
      BY <2>1, <1>t, <1>l DEF ProceedConnecting, ProceedSkip, OneCall, ReadAgain, Record, cq
    <3>2. ReadAgain(calls[c]).life = "live" /\ ReadAgain(calls[c]).op = "pending"
      BY <3>1, <1>t DEF ReadAgain, Record, OneCall
    <3>3. QED
      BY <3>1, <3>2, <1>t, CallTypes DEF CallsChange, HandKept, InHand
  <2>2. ASSUME NEW c \in Calls, ProceedDeliver(c)
        PROVE  CallsChange
    <3>1. OneCall(c, TakeTag(calls[c])) /\ cqCall' = c
      BY <2>2, <1>t, <1>l DEF ProceedDeliver, OneCall, TakeTag, Record
    <3>2. TakeTag(calls[c]).life = "live" /\ TakeTag(calls[c]).op = "none"
      BY <3>1, <1>t DEF TakeTag, Record, OneCall
    <3>3. QED
      BY <3>1, <3>2, <1>t, CallTypes DEF CallsChange
  <2>3. ASSUME NEW c \in Calls, TakeFailed(c)
        PROVE  CallsChange
    <3>1. OneCall(c, Stop(calls[c])) /\ cqCall' = c
      BY <2>3, <1>t, <1>l DEF TakeFailed, OneCall, Stop, Record
    <3>2. Stop(calls[c]).life = "live" /\ Stop(calls[c]).op = "none"
      BY <3>1, <1>t DEF Stop, Record, OneCall
    <3>3. QED
      BY <3>1, <3>2, <1>t, CallTypes DEF CallsChange
  <2>4. CASE EndCallback
    <3>1. cqCall \in Calls /\ OneCall(cqCall, ReadAgain(calls[cqCall])) /\ cqPc' = "next"
      BY <2>4, <1>t, <1>l DEF EndCallback, OneCall, ReadAgain, Record, InHand
    <3>2. ReadAgain(calls[cqCall]).life = "live" /\ ReadAgain(calls[cqCall]).op = "pending"
      BY <3>1, <1>t DEF ReadAgain, Record, OneCall
    <3>3. QED
      BY <3>1, <3>2, <1>t, CallTypes DEF CallsChange, HandKept, InHand
  <2>5. CASE cqPc = "delete" /\ Deleted(cqCall)
    <3>1. cqCall \in Calls /\ OneCall(cqCall, Delete(calls[cqCall])) /\ cqPc' = "next"
      BY <2>5, <1>t, <1>l DEF Deleted, OneCall, Delete, Record, InHand
    <3>2. Delete(calls[cqCall]).life = "freed" /\ Delete(calls[cqCall]).op = "none"
      BY <2>5, <3>1, <1>t, <1>l DEF Delete, Record, OneCall, InHand
    <3>3. QED
      BY <2>5, <3>1, <3>2, <1>t, CallTypes DEF CallsChange
  <2>6. CASE BeginSpin \/ Spin
    BY <2>6 DEF BeginSpin, Spin, CallsChange, HandKept, InHand, vars, cq
  <2>7. QED
    BY <1>2, <2>1, <2>2, <2>3, <2>4, <2>5, <2>6
    DEF TagStep, Proceed, DeleteUnassociated, DeleteFrame, DeleteDevice, DeleteUnlisted
<1>3. ASSUME EventStep
      PROVE  CallsChange
  <2>0. cqPc' \notin InHand
    BY <1>3 DEF EventStep, LockList, UpdateSkip, UpdateDeviceGone, UpdateDevicePresent, UpdateFrame,
                CqRecordDevice, CqRemoveFrame, CqOpenFrame, CqRecordFrame, EndEvent, InHand
  <2>1. CASE \/ LockList \/ CqRecordDevice \/ CqRemoveFrame \/ CqRecordFrame \/ EndEvent
             \/ \E m \in Managers : UpdateSkip(m)
    BY <2>0, <2>1 DEF LockList, CqRecordDevice, CqRemoveFrame, CqRecordFrame, EndEvent, UpdateSkip,
                      CallsChange, HandKept
  <2>2. ASSUME NEW m \in Managers, UpdateDeviceGone(m)
        PROVE  CallsChange
    <3>1. calls' = CancelAll({streams[m][cqDev]}) /\ nextCall' = nextCall
      BY <2>2 DEF UpdateDeviceGone
    <3>2. {streams[m][cqDev]} \in SUBSET (Calls \cup {NoCall})
      BY <1>t DEF TypeOK
    <3>3. QED
      BY <2>0, <3>1, <3>2 DEF CallsChange, HandKept
  <2>3. ASSUME NEW m \in Managers, UpdateDevicePresent(m)
        PROVE  CallsChange
    <3>1. OpenStream(m, {cqDev}, "cq") \/ UNCHANGED <<calls, nextCall>>
      BY <2>3 DEF UpdateDevicePresent
    <3>2. {cqDev} \in SUBSET Devices
      BY DEF TypeOK
    <3>3. QED
      BY <2>0, <3>1, <3>2 DEF CallsChange, HandKept
  <2>4. ASSUME NEW m \in Managers, UpdateFrame(m)
        PROVE  CallsChange
    <3>1. calls' = CancelAll({frame[m]}) /\ nextCall' = nextCall
      BY <2>4 DEF UpdateFrame
    <3>2. {frame[m]} \in SUBSET (Calls \cup {NoCall})
      BY <1>t
    <3>3. QED
      BY <2>0, <3>1, <3>2 DEF CallsChange, HandKept
  <2>5. CASE CqOpenFrame
    <3>1. OpenStream(cqMgr, {d \in connected : IsDeviceDataRequested(cqMgr, d)}, "cq")
      BY <2>5 DEF CqOpenFrame
    <3>2. cqMgr \in Managers
      BY <2>5 DEF CqOpenFrame, PhaseOK, ReplacePcs, UpdatePcs, TypeOK
    <3>3. {d \in connected : IsDeviceDataRequested(cqMgr, d)} \in SUBSET Devices
      BY DEF TypeOK
    <3>4. QED
      BY <2>0, <3>1, <3>2, <3>3 DEF CallsChange, HandKept
  <2>6. QED
    BY <1>3, <2>1, <2>2, <2>3, <2>4, <2>5 DEF EventStep
<1>4. ASSUME Environment
      PROVE  CallsChange
  <2>1. CASE \/ ChannelLost
             \/ \E d \in Devices, conn \in BOOLEAN : ReceiveEvent(d, conn)
    BY <2>1 DEF ChannelLost, ReceiveEvent, CallsChange, HandKept, InHand, cq
  <2>2. ASSUME NEW c \in Calls, NEW res \in {"ok", "fail"}, calls[c].op = "pending",
               calls' = [calls EXCEPT ![c] = Complete(@, res)], UNCHANGED <<nextCall, cq>>
        PROVE  CallsChange
    <3>1. OneCall(c, Complete(calls[c], res))
      BY <2>2, <1>t, <1>l DEF OneCall, Complete, Record
    <3>2. Complete(calls[c], res).life = "live" /\ Complete(calls[c], res).op # "none"
      BY <3>1, <1>t DEF Complete, Record, OneCall
    <3>3. HandKept /\ (cqPc' \in InHand => c # cqCall)
      BY <2>2, <1>l DEF HandKept, cq
    <3>4. Complete(calls[c], res) \in Record
      BY <1>t, CallTypes
    <3>5. QED
      BY <3>1, <3>2, <3>3, <3>4 DEF CallsChange
  <2>3. QED
    BY <1>4, <2>1, <2>2 DEF Environment, CompleteOk, CompleteFail
<1>5. CASE Idle \/ UNCHANGED vars
  BY <1>5 DEF Idle, vars, cq, CallsChange, HandKept
<1>6. QED
  BY <1>1, <1>2, <1>3, <1>4, <1>5 DEF Next

\* A call that exists keeps its identity, and only the CQ thread's delete ends it.
Stable(c) ==
    calls[c].life # "unused" =>
        /\ calls'[c].mgr = calls[c].mgr
        /\ calls'[c].covers = calls[c].covers
        /\ calls'[c].by = calls[c].by
        /\ \/ calls'[c].life = calls[c].life
           \/ cqPc = "delete" /\ c = cqCall /\ cqPc' = "next" /\ calls'[c].life = "freed"

\* A step of the calls' operations leaves every existing call stable.
LEMMA CallsStable ==
    ASSUME TypeOK, CallsOK, CallsChange, NEW c \in Calls
    PROVE  Stable(c)
<1>t. calls \in [Calls -> Record]
  BY DEF TypeOK
<1>1. CASE UNCHANGED <<calls, nextCall>>
  BY <1>1 DEF Stable
<1>2. ASSUME NEW m \in Managers, NEW D \in SUBSET Devices, NEW t \in {"user", "cq"},
             OpenStream(m, D, t)
      PROVE  Stable(c)
  BY <1>2, <1>t DEF OpenStream, CallsOK, Stable, Calls
<1>3. ASSUME NEW S, calls' = CancelAll(S)
      PROVE  Stable(c)
  BY <1>3, <1>t, CancelAllFacts DEF Stable
<1>4. ASSUME NEW b \in Calls, NEW r \in Record, OneCall(b, r),
             r.life = "freed" /\ cqPc = "delete" /\ cqPc' = "next" /\ b = cqCall
      PROVE  Stable(c)
  BY <1>4, <1>t DEF OneCall, Stable
<1>5. ASSUME NEW b \in Calls, NEW r \in Record, OneCall(b, r), r.life = "live"
      PROVE  Stable(c)
  BY <1>5, <1>t DEF OneCall, Stable
<1>6. QED
  BY <1>1, <1>2, <1>3, <1>4, <1>5 DEF CallsChange

\* No step loses count of the calls or deletes one whose tag is under way.
LEMMA CallsStep == TypeOK /\ CallsOK /\ CallsChange /\ TypeOK' => CallsOK'
<1> SUFFICES ASSUME TypeOK, CallsOK, CallsChange, TypeOK'
             PROVE  CallsOK'
  OBVIOUS
<1>t. calls \in [Calls -> Record] /\ nextCall \in 1..(MaxCalls + 1) /\ cqCall \in Calls \cup {NoCall}
  BY DEF TypeOK
<1>1. CASE UNCHANGED <<calls, nextCall>> /\ HandKept
  BY <1>1 DEF CallsOK, TagsLive, HandKept, InHand
<1>2. ASSUME NEW m \in Managers, NEW D \in SUBSET Devices, NEW t \in {"user", "cq"},
             OpenStream(m, D, t), HandKept
      PROVE  CallsOK'
  <2>1. /\ calls'[nextCall] = StartCall(m, D, t) /\ nextCall \in Calls /\ nextCall' = nextCall + 1
        /\ \A c \in Calls : c # nextCall => calls'[c] = calls[c]
    BY <1>2, <1>t DEF OpenStream
  <2>2. \A c \in Calls : (calls'[c].life = "unused") <=> (nextCall' <= c)
    BY <2>1, <1>t, StartCallType DEF CallsOK, Calls
  <2>3. \A c \in Calls : calls'[c].life # "unused" => calls'[c].mgr \in Managers
    BY <2>1, StartCallType DEF CallsOK
  <2>4. \A c \in Calls : calls'[c].op # "none" => calls'[c].life = "live"
    BY <2>1, StartCallType DEF CallsOK, TagsLive
  <2>5. calls[nextCall].life = "unused"
    BY <2>1, <1>t DEF CallsOK, Calls
  <2>6. QED
    BY <1>2, <2>1, <2>2, <2>3, <2>4, <2>5 DEF CallsOK, TagsLive, HandKept, InHand
<1>3. ASSUME NEW S, calls' = CancelAll(S), nextCall' = nextCall, HandKept
      PROVE  CallsOK'
  BY <1>3, <1>t, CancelAllFacts DEF CallsOK, TagsLive, HandKept, InHand
<1>4. ASSUME NEW b \in Calls, NEW r \in Record, OneCall(b, r),
             \/ r.life = "live" /\ r.op # "none" /\ HandKept /\ (cqPc' \in InHand => b # cqCall)
             \/ r.life = "live" /\ r.op = "none" /\ cqCall' = b
             \/ r.life = "freed" /\ r.op = "none" /\ cqPc' = "next"
      PROVE  CallsOK'
  <2>1. /\ calls'[b] = r /\ calls[b].life = "live" /\ r.mgr = calls[b].mgr
        /\ \A c \in Calls : c # b => calls'[c] = calls[c]
        /\ nextCall' = nextCall
    BY <1>4, <1>t DEF OneCall
  <2>2. \A c \in Calls : (calls'[c].life = "unused") <=> (nextCall' <= c)
    BY <1>4, <2>1 DEF CallsOK
  <2>3. \A c \in Calls : calls'[c].life # "unused" => calls'[c].mgr \in Managers
    BY <1>4, <2>1 DEF CallsOK
  <2>4. TagsLive'
    BY <1>4, <2>1 DEF CallsOK, TagsLive, HandKept, InHand
  <2>5. QED
    BY <2>2, <2>3, <2>4 DEF CallsOK
<1>5. QED
  BY <1>1, <1>2, <1>3, <1>4 DEF CallsChange

\* A call that comes into being in a step is live after it.
LEMMA CallsBorn ==
    ASSUME TypeOK, CallsOK, CallsChange, NEW c \in Calls, calls[c].life = "unused"
    PROVE  calls'[c].life \in {"unused", "live"}
<1>t. calls \in [Calls -> Record]
  BY DEF TypeOK
<1>1. CASE UNCHANGED <<calls, nextCall>>
  BY <1>1
<1>2. ASSUME NEW m \in Managers, NEW D \in SUBSET Devices, NEW t \in {"user", "cq"},
             OpenStream(m, D, t)
      PROVE  calls'[c].life \in {"unused", "live"}
  BY <1>2, <1>t, StartCallType DEF OpenStream
<1>3. ASSUME NEW S, calls' = CancelAll(S)
      PROVE  calls'[c].life \in {"unused", "live"}
  BY <1>3, <1>t, CancelAllFacts
<1>4. ASSUME NEW b \in Calls, NEW r \in Record, OneCall(b, r)
      PROVE  calls'[c].life \in {"unused", "live"}
  BY <1>4, <1>t DEF OneCall
<1>5. QED
  BY <1>1, <1>2, <1>3, <1>4 DEF CallsChange

-----------------------------------------------------------------------------
(* Program counters, the list and the event.                               *)

\* No step breaks the agreement of the program counters with the list and the event.
LEMMA PhaseStep == TypeOK /\ PhaseOK /\ [Next]_vars => PhaseOK'
<1> SUFFICES ASSUME TypeOK, PhaseOK, [Next]_vars
             PROVE  PhaseOK'
  OBVIOUS
<1> USE DEF PhaseOK, UpdatePcs, ReplacePcs, Closing
<1>t. upc \in [Managers -> UserPcs] /\ list \in SUBSET Managers /\ cqTodo \in SUBSET Managers
  BY DEF TypeOK
<1>1. ASSUME NEW m \in Managers, UserStep(m)
      PROVE  PhaseOK'
  <2>1. CASE RegisterRequest(m)
    BY <2>1, <1>t DEF RegisterRequest, ListMtxFree, cq
  <2>2. CASE \/ BeginOpenDevices(m) \/ EndOpenDevices(m) \/ RecordDevice(m) \/ RecordFrame(m)
             \/ OpenFrame(m) \/ CancelStreams(m) \/ ClearStreams(m) \/ Destroy(m)
    BY <2>2, <1>t DEF BeginOpenDevices, EndOpenDevices, RecordDevice, RecordFrame, OpenFrame,
                      CancelStreams, ClearStreams, Destroy, registry, cq
  <2>3. ASSUME NEW d \in Devices, OpenNextDevice(m, d)
        PROVE  PhaseOK'
    <3>1. upc' = upc \/ upc' = [upc EXCEPT ![m] = "recordDevice"]
      BY <2>3 DEF OpenNextDevice
    <3>2. upc[m] = "opening" /\ UNCHANGED <<connected, list, cq>>
      BY <2>3 DEF OpenNextDevice
    <3>3. QED
      BY <3>1, <3>2, <1>t DEF cq
  <2>4. CASE Deregister(m)
    BY <2>4, <1>t DEF Deregister, ListMtxFree, cq
  <2>5. QED
    BY <1>1, <2>1, <2>2, <2>3, <2>4 DEF UserStep
<1>2. ASSUME TagStep
      PROVE  PhaseOK'
  <2>1. cqPc' \notin {"lockList"} \cup UpdatePcs /\ UNCHANGED <<list, upc>>
    <3>1. CASE \E c \in Calls : Proceed(c)
      BY <3>1 DEF Proceed, ProceedConnecting, ProceedDeliver, ProceedSkip, TakeFailed,
                  registry, user, cq
    <3>2. CASE EndCallback \/ Deleted(cqCall) \/ BeginSpin \/ Spin
      BY <3>2 DEF EndCallback, Deleted, BeginSpin, Spin, registry, user, vars, cq
    <3>3. QED
      BY <1>2, <3>1, <3>2
      DEF TagStep, DeleteUnassociated, DeleteFrame, DeleteDevice, DeleteUnlisted
  <2>2. QED
    BY <2>1
<1>3. ASSUME EventStep
      PROVE  PhaseOK'
  <2>1. UNCHANGED <<list, upc, connected>>
    BY <1>3 DEF EventStep, LockList, UpdateSkip, UpdateDeviceGone, UpdateDevicePresent, UpdateFrame,
                CqRecordDevice, CqRemoveFrame, CqOpenFrame, CqRecordFrame, EndEvent, registry, user
  <2>2. CASE LockList
    BY <2>1, <2>2 DEF LockList
  <2>3. CASE \E m \in Managers : UpdateSkip(m) \/ UpdateDeviceGone(m)
    BY <2>1, <2>3 DEF UpdateSkip, UpdateDeviceGone
  <2>4. ASSUME NEW m \in Managers, UpdateDevicePresent(m)
        PROVE  PhaseOK'
    <3>1. cqPc = "update" /\ m \in cqTodo /\ Kind[m] = "device" /\ cqConn /\ UNCHANGED <<cqDev, cqConn>>
      BY <2>4 DEF UpdateDevicePresent
    <3>2. \/ cqPc' = "recordDevice" /\ cqMgr' = m /\ UNCHANGED cqTodo
          \/ cqTodo' = cqTodo \ {m} /\ UNCHANGED <<cqPc, cqMgr>>
      BY <2>4 DEF UpdateDevicePresent
    <3>3. QED
      BY <2>1, <3>1, <3>2
  <2>5. ASSUME NEW m \in Managers, UpdateFrame(m)
        PROVE  PhaseOK'
    BY <2>1, <2>5 DEF UpdateFrame
  <2>6. CASE CqRecordDevice \/ CqRecordFrame \/ CqRemoveFrame \/ CqOpenFrame \/ EndEvent
    BY <2>1, <2>6 DEF CqRecordDevice, CqRecordFrame, CqRemoveFrame, CqOpenFrame, EndEvent
  <2>7. QED
    BY <1>3, <2>2, <2>3, <2>4, <2>5, <2>6 DEF EventStep
<1>4. ASSUME Environment
      PROVE  PhaseOK'
  <2>1. ASSUME NEW d \in Devices, NEW conn \in BOOLEAN, ReceiveEvent(d, conn)
        PROVE  PhaseOK'
    BY <2>1 DEF ReceiveEvent, user
  <2>2. CASE ChannelLost \/ \E c \in Calls : CompleteOk(c) \/ CompleteFail(c)
    BY <2>2 DEF ChannelLost, CompleteOk, CompleteFail, registry, user, cq
  <2>3. QED
    BY <1>4, <2>1, <2>2 DEF Environment
<1>5. CASE Idle \/ UNCHANGED vars
  BY <1>5 DEF Idle, vars, registry, user, cq
<1>6. QED
  BY <1>1, <1>2, <1>3, <1>4, <1>5 DEF Next

-----------------------------------------------------------------------------
(* Calls that a thread is about to record.                                 *)

\* No step spoils the call that a thread is about to record.
LEMMA HandsStep == TypeOK /\ CallsOK /\ PhaseOK /\ HandsOK /\ CallsChange /\ [Next]_vars => HandsOK'
<1> SUFFICES ASSUME TypeOK, CallsOK, PhaseOK, HandsOK, CallsChange, [Next]_vars
             PROVE  HandsOK'
  OBVIOUS
<1>t. /\ upc \in [Managers -> UserPcs] /\ ucall \in [Managers -> Calls \cup {NoCall}]
      /\ udev \in [Managers -> Devices] /\ calls \in [Calls -> Record]
  BY DEF TypeOK
<1>s. \A c \in Calls : Stable(c)
  BY CallsStable
<1>u. CASE UNCHANGED <<upc, ucall, udev>> /\ cqPc' \notin {"recordDevice", "recordFrame"}
  BY <1>u, <1>s DEF HandsOK, Stable
<1>q. CASE UNCHANGED <<upc, ucall, udev, cqPc, cqCall, cqDev>>
  BY <1>q, <1>s DEF HandsOK, Stable
<1>o. ASSUME NEW m \in Managers, NEW D \in SUBSET Devices, NEW t \in {"user", "cq"},
             OpenStream(m, D, t)
      PROVE  /\ nextCall \in Calls /\ calls'[nextCall].life = "live"
             /\ calls'[nextCall].covers = D /\ calls'[nextCall].by = t
  BY <1>o, <1>t, StartCallType DEF OpenStream
<1>1. ASSUME NEW m \in Managers, UserStep(m)
      PROVE  HandsOK'
  <2>0. UNCHANGED cq
    BY <1>1 DEF UserStep, RegisterRequest, BeginOpenDevices, OpenNextDevice, RecordDevice,
                EndOpenDevices, OpenFrame, RecordFrame, CancelStreams, ClearStreams, Deregister, Destroy
  <2>h. cqPc' \in {"recordDevice", "recordFrame"} =>
          /\ cqCall' \in Calls /\ calls'[cqCall'].life = "live" /\ calls'[cqCall'].by = "cq"
          /\ cqPc' = "recordDevice" => calls'[cqCall'].covers = {cqDev'}
    BY <2>0, <1>s DEF HandsOK, Stable, cq
  <2>1. ASSUME upc'[m] \notin {"recordDevice", "recordFrame"},
               \A n \in Managers \ {m} : upc'[n] = upc[n] /\ ucall'[n] = ucall[n] /\ udev'[n] = udev[n]
        PROVE  HandsOK'
    BY <2>1, <2>h, <1>s DEF HandsOK, Stable
  <2>2. CASE \/ RegisterRequest(m) \/ BeginOpenDevices(m) \/ RecordDevice(m) \/ EndOpenDevices(m)
             \/ RecordFrame(m) \/ CancelStreams(m) \/ ClearStreams(m) \/ Deregister(m) \/ Destroy(m)
    <3>1. upc'[m] \notin {"recordDevice", "recordFrame"}
      BY <2>2, <1>t DEF RegisterRequest, BeginOpenDevices, RecordDevice, EndOpenDevices, RecordFrame,
                        CancelStreams, ClearStreams, Deregister, Destroy
    <3>2. \A n \in Managers \ {m} : upc'[n] = upc[n] /\ ucall'[n] = ucall[n] /\ udev'[n] = udev[n]
      BY <2>2, <1>t DEF RegisterRequest, BeginOpenDevices, RecordDevice, EndOpenDevices, RecordFrame,
                        CancelStreams, ClearStreams, Deregister, Destroy
    <3>3. QED
      BY <2>1, <3>1, <3>2
  <2>3. ASSUME NEW d \in Devices, OpenNextDevice(m, d)
        PROVE  HandsOK'
    <3>1. CASE UNCHANGED <<upc, ucall, udev>>
      BY <3>1, <2>0, <1>q DEF cq
    <3>2. CASE /\ OpenStream(m, {d}, "user")
               /\ ucall' = [ucall EXCEPT ![m] = nextCall]
               /\ udev' = [udev EXCEPT ![m] = d]
               /\ upc' = [upc EXCEPT ![m] = "recordDevice"]
      <4>1. /\ nextCall \in Calls /\ calls'[nextCall].life = "live"
            /\ calls'[nextCall].covers = {d} /\ calls'[nextCall].by = "user"
        BY <3>2, <1>o
      <4>2. QED
        BY <3>2, <4>1, <2>h, <1>s, <1>t DEF HandsOK, Stable
    <3>3. QED
      BY <2>3, <3>1, <3>2 DEF OpenNextDevice
  <2>4. CASE OpenFrame(m)
    <3>1. OpenStream(m, {d \in connected : IsDeviceDataRequested(m, d)}, "user")
      BY <2>4 DEF OpenFrame
    <3>2. /\ nextCall \in Calls /\ calls'[nextCall].life = "live"
          /\ calls'[nextCall].by = "user"
      BY <3>1, <1>o DEF TypeOK
    <3>3. ucall' = [ucall EXCEPT ![m] = nextCall] /\ upc' = [upc EXCEPT ![m] = "recordFrame"]
          /\ UNCHANGED udev
      BY <2>4 DEF OpenFrame
    <3>4. QED
      BY <3>2, <3>3, <2>h, <1>s, <1>t DEF HandsOK, Stable
  <2>5. QED
    BY <1>1, <2>2, <2>3, <2>4 DEF UserStep
<1>2. ASSUME TagStep
      PROVE  HandsOK'
  <2>1. UNCHANGED <<upc, ucall, udev>> /\ cqPc' \notin {"recordDevice", "recordFrame"}
    <3>1. CASE \E c \in Calls : Proceed(c)
      BY <3>1 DEF Proceed, ProceedConnecting, ProceedDeliver, ProceedSkip, TakeFailed, user, cq
    <3>2. CASE EndCallback \/ Deleted(cqCall) \/ BeginSpin \/ Spin
      BY <3>2 DEF EndCallback, Deleted, BeginSpin, Spin, user, vars, cq
    <3>3. QED
      BY <1>2, <3>1, <3>2
      DEF TagStep, DeleteUnassociated, DeleteFrame, DeleteDevice, DeleteUnlisted
  <2>2. QED
    BY <2>1, <1>u
<1>3. ASSUME EventStep
      PROVE  HandsOK'
  <2>1. UNCHANGED <<upc, ucall, udev>>
    BY <1>3 DEF EventStep, LockList, UpdateSkip, UpdateDeviceGone, UpdateDevicePresent, UpdateFrame,
                CqRecordDevice, CqRemoveFrame, CqOpenFrame, CqRecordFrame, EndEvent, user
  <2>2. CASE \/ LockList \/ CqRecordDevice \/ CqRecordFrame \/ CqRemoveFrame \/ EndEvent
             \/ \E m \in Managers : UpdateSkip(m) \/ UpdateDeviceGone(m) \/ UpdateFrame(m)
    BY <2>1, <2>2, <1>u DEF LockList, CqRecordDevice, CqRecordFrame, CqRemoveFrame, EndEvent,
                            UpdateSkip, UpdateDeviceGone, UpdateFrame
  <2>3. ASSUME NEW m \in Managers, UpdateDevicePresent(m)
        PROVE  HandsOK'
    <3>1. CASE UNCHANGED <<cqPc, cqCall>>
      BY <2>1, <2>3, <3>1, <1>q DEF UpdateDevicePresent
    <3>2. CASE OpenStream(m, {cqDev}, "cq") /\ cqPc' = "recordDevice" /\ cqCall' = nextCall
      <4>1. /\ nextCall \in Calls /\ calls'[nextCall].life = "live"
            /\ calls'[nextCall].covers = {cqDev} /\ calls'[nextCall].by = "cq"
        BY <3>2, <1>o DEF TypeOK
      <4>2. cqDev' = cqDev
        BY <2>3 DEF UpdateDevicePresent
      <4>3. QED
        BY <2>1, <3>2, <4>1, <4>2, <1>s DEF HandsOK, Stable
    <3>3. QED
      BY <2>3, <3>1, <3>2 DEF UpdateDevicePresent
  <2>4. CASE CqOpenFrame
    <3>1. cqMgr \in Managers
      BY <2>4 DEF CqOpenFrame, PhaseOK, ReplacePcs, UpdatePcs, TypeOK
    <3>2. OpenStream(cqMgr, {d \in connected : IsDeviceDataRequested(cqMgr, d)}, "cq")
          /\ cqPc' = "recordFrame" /\ cqCall' = nextCall
      BY <2>4 DEF CqOpenFrame
    <3>3. nextCall \in Calls /\ calls'[nextCall].life = "live" /\ calls'[nextCall].by = "cq"
      BY <3>1, <3>2, <1>o DEF TypeOK
    <3>4. QED
      BY <2>1, <3>2, <3>3, <1>s DEF HandsOK, Stable
  <2>5. QED
    BY <1>3, <2>2, <2>3, <2>4 DEF EventStep
<1>4. ASSUME Environment
      PROVE  HandsOK'
  <2>1. CASE \E d \in Devices, conn \in BOOLEAN : ReceiveEvent(d, conn)
    BY <2>1, <1>u DEF ReceiveEvent, user
  <2>2. CASE ChannelLost \/ \E c \in Calls : CompleteOk(c) \/ CompleteFail(c)
    BY <2>2, <1>q DEF ChannelLost, CompleteOk, CompleteFail, user, cq
  <2>3. QED
    BY <1>4, <2>1, <2>2 DEF Environment
<1>5. CASE Idle \/ UNCHANGED vars
  BY <1>5, <1>q DEF Idle, vars, user, cq
<1>6. QED
  BY <1>1, <1>2, <1>3, <1>4, <1>5 DEF Next

-----------------------------------------------------------------------------
(* Recorded pointers.                                                      *)

\* Entries are only taken out, all of them if a manager dies.
Forgets ==
    /\ \A m \in Managers, d \in Devices : streams'[m][d] \in {NoCall, streams[m][d]}
    /\ \A m \in Managers : frame'[m] \in {NoCall, frame[m]}
    /\ \A m \in Managers : upc'[m] = "destroyed" =>
         \/ upc[m] = "destroyed"
         \/ frame'[m] = NoCall /\ \A d \in Devices : streams'[m][d] = NoCall

\* What a step can do to the recorded pointers: take some out, or record one.
RecordsChange ==
    \/ Forgets
    \/ /\ UNCHANGED calls
       /\ \A n \in Managers : upc'[n] = "destroyed" => upc[n] = "destroyed"
       /\ \/ /\ UNCHANGED frame
             /\ \/ \E m \in Managers : /\ upc[m] = "recordDevice"
                                       /\ AddDataStream(m, udev[m], ucall[m])
                \/ cqPc = "recordDevice" /\ AddDataStream(cqMgr, cqDev, cqCall)
          \/ /\ UNCHANGED streams
             /\ \/ \E m \in Managers : /\ upc[m] = "recordFrame"
                                       /\ frame' = [frame EXCEPT ![m] = ucall[m]]
                \/ cqPc = "recordFrame" /\ frame' = [frame EXCEPT ![cqMgr] = cqCall]

\* Every step of the model does one of these things to the recorded pointers.
LEMMA RecordsChanges == TypeOK /\ CallsOK /\ PhaseOK /\ [Next]_vars => RecordsChange
<1> SUFFICES ASSUME TypeOK, CallsOK, PhaseOK, [Next]_vars
             PROVE  RecordsChange
  OBVIOUS
<1>t. /\ upc \in [Managers -> UserPcs] /\ frame \in [Managers -> Calls \cup {NoCall}]
      /\ streams \in [Managers -> [Devices -> Calls \cup {NoCall}]]
  BY DEF TypeOK
<1>k. CASE UNCHANGED <<streams, frame, upc>>
  BY <1>k DEF RecordsChange, Forgets
<1>1. ASSUME NEW m \in Managers, UserStep(m)
      PROVE  RecordsChange
  <2>1. CASE \/ RegisterRequest(m) \/ BeginOpenDevices(m) \/ EndOpenDevices(m) \/ OpenFrame(m)
             \/ CancelStreams(m) \/ Deregister(m)
    <3>1. UNCHANGED <<streams, frame>> /\ \A n \in Managers : upc'[n] = "destroyed" => upc[n] = "destroyed"
      BY <2>1, <1>t DEF RegisterRequest, BeginOpenDevices, EndOpenDevices, OpenFrame, CancelStreams,
                        Deregister, registry
    <3>2. QED
      BY <3>1 DEF RecordsChange, Forgets
  <2>2. ASSUME NEW d \in Devices, OpenNextDevice(m, d)
        PROVE  RecordsChange
    <3>1. UNCHANGED <<streams, frame>>
          /\ (upc' = upc \/ upc' = [upc EXCEPT ![m] = "recordDevice"])
      BY <2>2 DEF OpenNextDevice
    <3>2. QED
      BY <3>1, <1>t DEF RecordsChange, Forgets
  <2>3. CASE RecordDevice(m) \/ RecordFrame(m)
    BY <2>3, <1>t DEF RecordDevice, RecordFrame, RecordsChange
  <2>4. CASE ClearStreams(m)
    <3>1. \/ streams' = [streams EXCEPT ![m] = [d \in Devices |-> NoCall]] /\ UNCHANGED frame
          \/ frame' = [frame EXCEPT ![m] = NoCall] /\ UNCHANGED streams
      BY <2>4 DEF ClearStreams
    <3>2. \A n \in Managers : upc'[n] = "destroyed" => upc[n] = "destroyed"
      BY <2>4, <1>t DEF ClearStreams
    <3>3. QED
      BY <3>1, <3>2, <1>t DEF RecordsChange, Forgets
  <2>5. CASE Destroy(m)
    BY <2>5, <1>t DEF Destroy, RecordsChange, Forgets
  <2>6. QED
    BY <1>1, <2>1, <2>2, <2>3, <2>4, <2>5 DEF UserStep
<1>2. ASSUME TagStep
      PROVE  RecordsChange
  <2>1. CASE \E c \in Calls : Proceed(c)
    BY <2>1, <1>k DEF Proceed, ProceedConnecting, ProceedDeliver, ProceedSkip, TakeFailed, registry, user
  <2>2. CASE EndCallback \/ DeleteUnassociated \/ DeleteUnlisted \/ BeginSpin \/ Spin
    BY <2>2, <1>k DEF EndCallback, DeleteUnassociated, DeleteUnlisted, Deleted, BeginSpin, Spin,
                      vars, registry, user
  <2>3. CASE DeleteFrame
    BY <2>3, <1>t DEF DeleteFrame, Deleted, user, RecordsChange, Forgets
  <2>4. ASSUME NEW d \in Devices, DeleteDevice(d)
        PROVE  RecordsChange
    BY <2>4, <1>t DEF DeleteDevice, Deleted, user, RecordsChange, Forgets
  <2>5. QED
    BY <1>2, <2>1, <2>2, <2>3, <2>4 DEF TagStep
<1>3. ASSUME EventStep
      PROVE  RecordsChange
  <2>1. CASE \/ LockList \/ CqOpenFrame \/ EndEvent
             \/ \E m \in Managers : UpdateSkip(m) \/ UpdateDevicePresent(m) \/ UpdateFrame(m)
    BY <2>1, <1>k DEF LockList, CqOpenFrame, EndEvent, UpdateSkip, UpdateDevicePresent, UpdateFrame,
                      registry, user
  <2>2. ASSUME NEW m \in Managers, UpdateDeviceGone(m)
        PROVE  RecordsChange
    BY <2>2, <1>t DEF UpdateDeviceGone, user, RecordsChange, Forgets, TypeOK
  <2>3. CASE CqRemoveFrame
    BY <2>3, <1>t DEF CqRemoveFrame, user, RecordsChange, Forgets
  <2>4. CASE CqRecordDevice \/ CqRecordFrame
    BY <2>4 DEF CqRecordDevice, CqRecordFrame, user, RecordsChange
  <2>5. QED
    BY <1>3, <2>1, <2>2, <2>3, <2>4 DEF EventStep
<1>4. CASE Environment
  BY <1>4, <1>k DEF Environment, ReceiveEvent, ChannelLost, CompleteOk, CompleteFail, registry, user
<1>5. CASE Idle \/ UNCHANGED vars
  BY <1>5, <1>k DEF Idle, vars, registry, user
<1>6. QED
  BY <1>1, <1>2, <1>3, <1>4, <1>5 DEF Next

\* No step records a call in the wrong place.
LEMMA RecordsStep ==
    ASSUME TypeOK, CallsOK, PhaseOK, HandsOK, RecordsOK, CallsChange, RecordsChange
    PROVE  RecordsOK'
<1>t. /\ upc \in [Managers -> UserPcs] /\ frame \in [Managers -> Calls \cup {NoCall}]
      /\ streams \in [Managers -> [Devices -> Calls \cup {NoCall}]] /\ calls \in [Calls -> Record]
      /\ udev \in [Managers -> Devices] /\ cqDev \in Devices
  BY DEF TypeOK
<1>s. \A c \in Calls : calls[c].life # "unused" => calls'[c].life # "unused" /\ calls'[c].covers = calls[c].covers
  BY CallsStable DEF Stable
<1>1. CASE Forgets
  <2>1. ASSUME NEW m \in Managers, NEW d \in Devices, streams'[m][d] # NoCall
        PROVE  /\ Kind[m] = "device" /\ upc'[m] # "destroyed"
               /\ calls'[streams'[m][d]].life # "unused"
               /\ calls'[streams'[m][d]].covers = {d}
    <3>1. streams'[m][d] = streams[m][d] /\ streams[m][d] \in Calls /\ upc'[m] # "destroyed"
      BY <1>1, <2>1, <1>t DEF Forgets, RecordsOK
    <3>2. QED
      BY <2>1, <3>1, <1>s DEF RecordsOK
  <2>2. ASSUME NEW m \in Managers, frame'[m] # NoCall
        PROVE  /\ Kind[m] = "frame" /\ upc'[m] # "destroyed"
               /\ calls'[frame'[m]].life # "unused"
    <3>1. frame'[m] = frame[m] /\ frame[m] \in Calls /\ upc'[m] # "destroyed"
      BY <1>1, <2>2, <1>t DEF Forgets, RecordsOK
    <3>2. QED
      BY <2>2, <3>1, <1>s DEF RecordsOK
  <2>3. QED
    BY <2>1, <2>2 DEF RecordsOK
<1>2. ASSUME NEW m \in Managers, NEW d \in Devices, NEW c \in Calls, AddDataStream(m, d, c),
             UNCHANGED <<calls, frame>>, Kind[m] = "device", upc[m] # "destroyed",
             calls[c].life # "unused", calls[c].covers = {d},
             \A n \in Managers : upc'[n] = "destroyed" => upc[n] = "destroyed"
      PROVE  RecordsOK'
  BY <1>2, <1>t DEF RecordsOK, AddDataStream
<1>3. ASSUME NEW m \in Managers, NEW c \in Calls, frame' = [frame EXCEPT ![m] = c],
             UNCHANGED <<calls, streams>>, Kind[m] = "frame", upc[m] # "destroyed",
             calls[c].life # "unused",
             \A n \in Managers : upc'[n] = "destroyed" => upc[n] = "destroyed"
      PROVE  RecordsOK'
  BY <1>3, <1>t DEF RecordsOK
<1>4. cqPc \in {"recordDevice", "recordFrame"} => cqMgr \in Managers /\ upc[cqMgr] # "destroyed"
  BY DEF PhaseOK, ReplacePcs, UpdatePcs, Closing, TypeOK
<1>5. ASSUME NEW m \in Managers, upc[m] = "recordDevice", AddDataStream(m, udev[m], ucall[m]),
             UNCHANGED <<calls, frame>>,
             \A n \in Managers : upc'[n] = "destroyed" => upc[n] = "destroyed"
      PROVE  RecordsOK'
  BY <1>5, <1>2, <1>t DEF HandsOK, PhaseOK
<1>6. ASSUME NEW m \in Managers, upc[m] = "recordFrame", frame' = [frame EXCEPT ![m] = ucall[m]],
             UNCHANGED <<calls, streams>>,
             \A n \in Managers : upc'[n] = "destroyed" => upc[n] = "destroyed"
      PROVE  RecordsOK'
  BY <1>6, <1>3 DEF HandsOK, PhaseOK
<1>7. ASSUME cqPc = "recordDevice", AddDataStream(cqMgr, cqDev, cqCall),
             UNCHANGED <<calls, frame>>,
             \A n \in Managers : upc'[n] = "destroyed" => upc[n] = "destroyed"
      PROVE  RecordsOK'
  BY <1>7, <1>2, <1>4, <1>t DEF HandsOK, PhaseOK
<1>8. ASSUME cqPc = "recordFrame", frame' = [frame EXCEPT ![cqMgr] = cqCall],
             UNCHANGED <<calls, streams>>,
             \A n \in Managers : upc'[n] = "destroyed" => upc[n] = "destroyed"
      PROVE  RecordsOK'
  BY <1>8, <1>3, <1>4 DEF HandsOK, PhaseOK
<1>9. QED
  BY <1>1, <1>5, <1>6, <1>7, <1>8 DEF RecordsChange

\* After the CQ thread has deleted a call, its manager does not point to it: the entry
\* of a stream is unique, because a call is recorded under the device it covers.
LEMMA DeletedNotRecorded ==
    ASSUME TypeOK, CallsOK, RecordsOK, [Next]_vars, cqPc = "delete", cqPc' = "next"
    PROVE  /\ frame'[calls[cqCall].mgr] # cqCall
           /\ \A d \in Devices : streams'[calls[cqCall].mgr][d] # cqCall
<1> DEFINE m == calls[cqCall].mgr
<1>t. /\ frame \in [Managers -> Calls \cup {NoCall}]
      /\ streams \in [Managers -> [Devices -> Calls \cup {NoCall}]]
      /\ cqCall \in Calls /\ m \in Managers /\ cqCall # NoCall
  BY DEF TypeOK, CallsOK, TagsLive, Calls, NoCall
<1>1. CASE DeleteUnassociated
  BY <1>1, <1>t DEF DeleteUnassociated, RecordsOK
<1>2. CASE DeleteFrame
  BY <1>2, <1>t DEF DeleteFrame, RecordsOK
<1>3. ASSUME NEW d \in Devices, DeleteDevice(d)
      PROVE  /\ frame'[m] # cqCall
             /\ \A e \in Devices : streams'[m][e] # cqCall
  <2>1. /\ frame[m] # cqCall /\ frame' = frame /\ streams[m][d] = cqCall
        /\ streams' = [streams EXCEPT ![m][d] = NoCall]
    BY <1>3 DEF DeleteDevice
  <2>2. \A e \in Devices : streams[m][e] = cqCall => e = d
    <3>1. \A e \in Devices : streams[m][e] = cqCall => calls[cqCall].covers = {e}
      BY <1>t DEF RecordsOK
    <3>2. QED
      BY <2>1, <3>1
  <2>3. \A e \in Devices : streams'[m][e] = IF e = d THEN NoCall ELSE streams[m][e]
    BY <2>1, <1>t
  <2>4. QED
    BY <2>1, <2>2, <2>3, <1>t
<1>4. CASE DeleteUnlisted
  BY <1>4, <1>t DEF DeleteUnlisted, RecordedIn
<1>5. DeleteUnassociated \/ DeleteFrame \/ DeleteUnlisted \/ \E d \in Devices : DeleteDevice(d)
  <2>1. ~ \E n \in Managers : UserStep(n)
    BY DEF UserStep, RegisterRequest, BeginOpenDevices, OpenNextDevice, RecordDevice, EndOpenDevices,
           OpenFrame, RecordFrame, CancelStreams, ClearStreams, Deregister, Destroy, cq
  <2>2. ~EventStep
    BY DEF EventStep, LockList, UpdateSkip, UpdateDeviceGone, UpdateDevicePresent, UpdateFrame,
           CqRecordDevice, CqRemoveFrame, CqOpenFrame, CqRecordFrame, EndEvent
  <2>3. ~Environment /\ ~Idle /\ ~UNCHANGED vars
    BY DEF Environment, ReceiveEvent, ChannelLost, CompleteOk, CompleteFail, Idle, vars, cq
  <2>4. ~EndCallback /\ ~BeginSpin /\ ~Spin /\ ~ \E c \in Calls : Proceed(c)
    BY DEF EndCallback, BeginSpin, Spin, Proceed, ProceedConnecting, ProceedDeliver, ProceedSkip, TakeFailed
  <2>5. QED
    BY <2>1, <2>2, <2>3, <2>4 DEF Next, TagStep
<1>6. QED
  BY <1>1, <1>2, <1>3, <1>4, <1>5

\* No step makes a pointer recorded by the CQ thread dangle.
LEMMA LiveStep ==
    ASSUME TypeOK, CallsOK, HandsOK, RecordsOK, PhaseOK, CqRecordedLive,
           CallsChange, RecordsChange, [Next]_vars
    PROVE  CqRecordedLive'
<1>t. /\ frame \in [Managers -> Calls \cup {NoCall}] /\ calls \in [Calls -> Record]
      /\ streams \in [Managers -> [Devices -> Calls \cup {NoCall}]]
      /\ udev \in [Managers -> Devices] /\ cqDev \in Devices
  BY DEF TypeOK
<1> SUFFICES ASSUME NEW c \in Calls, calls'[c].by = "cq", calls'[c].life = "freed"
             PROVE  /\ frame'[calls'[c].mgr] # c
                    /\ \A d \in Devices : streams'[calls'[c].mgr][d] # c
  BY DEF CqRecordedLive, Recorded, RecordedIn
<1>1. calls[c].life # "unused"
  BY CallsBorn
<1>2. /\ calls'[c].mgr = calls[c].mgr /\ calls'[c].by = calls[c].by /\ c # NoCall
      /\ calls[c].mgr \in Managers
  BY <1>1, CallsStable DEF Stable, Calls, NoCall, CallsOK
<1>3. CASE calls'[c].life # calls[c].life
  <2>1. cqPc = "delete" /\ c = cqCall /\ cqPc' = "next"
    BY <1>1, <1>3, CallsStable DEF Stable
  <2>2. QED
    BY <1>2, <2>1, DeletedNotRecorded
<1>4. CASE calls'[c].life = calls[c].life
  <2>1. frame[calls[c].mgr] # c /\ \A d \in Devices : streams[calls[c].mgr][d] # c
    BY <1>2, <1>4 DEF CqRecordedLive, Recorded, RecordedIn
  <2>2. CASE Forgets
    BY <1>2, <2>1, <2>2 DEF Forgets
  <2>3. \A m \in Managers : upc[m] \in {"recordDevice", "recordFrame"} => ucall[m] # c
    BY <1>2 DEF HandsOK
  <2>4. cqPc \in {"recordDevice", "recordFrame"} => cqCall # c
    BY <1>4 DEF HandsOK
  <2>5. ASSUME NEW m \in Managers, NEW d \in Devices, NEW b, b # c, AddDataStream(m, d, b), UNCHANGED frame
        PROVE  frame'[calls'[c].mgr] # c /\ \A e \in Devices : streams'[calls'[c].mgr][e] # c
    BY <1>2, <2>1, <2>5, <1>t DEF AddDataStream
  <2>6. ASSUME NEW m \in Managers, NEW b, b # c, frame' = [frame EXCEPT ![m] = b], UNCHANGED streams
        PROVE  frame'[calls'[c].mgr] # c /\ \A e \in Devices : streams'[calls'[c].mgr][e] # c
    BY <1>2, <2>1, <2>6, <1>t
  <2>7. cqPc \in {"recordDevice", "recordFrame"} => cqMgr \in Managers
    BY DEF PhaseOK, ReplacePcs, UpdatePcs, TypeOK
  <2>8. QED
    BY <2>2, <2>3, <2>4, <2>5, <2>6, <2>7, <1>t DEF RecordsChange
<1>5. QED
  BY <1>3, <1>4

-----------------------------------------------------------------------------
(* Storages.                                                               *)

\* d, connected and requested, needs nothing more from m, or a thread will still serve it.
Covered(m, d) ==
    \/ d \in storage[m]
    \/ UserWillServe(m, d) /\ ~(upc[m] = "recordDevice" /\ d = udev[m])
    \/ CqWillServe(m, d) /\ ~(cqPc \in {"recordDevice", "recordFrame"} /\ m = cqMgr)

\* No step leaves a connected device of a listed manager uncovered.
LEMMA CoverageStep == TypeOK /\ CallsOK /\ PhaseOK /\ CoverageOK /\ [Next]_vars => CoverageOK'
<1> SUFFICES ASSUME TypeOK, CallsOK, PhaseOK, CoverageOK, [Next]_vars,
                    NEW m \in list', NEW d \in connected', IsDeviceDataRequested(m, d)
             PROVE  Covered(m, d)'
  BY DEF CoverageOK, Covered, IsDeviceDataRequested
<1>c. m \in list /\ d \in connected => Covered(m, d)
  BY DEF CoverageOK, Covered
<1>t. /\ upc \in [Managers -> UserPcs] /\ storage \in [Managers -> SUBSET Devices]
      /\ utodo \in [Managers -> SUBSET Devices] /\ udev \in [Managers -> Devices]
      /\ list \in SUBSET Managers /\ connected \in SUBSET Devices /\ cqTodo \in SUBSET Managers
  BY DEF TypeOK
<1>m. m \in Managers
  BY TypeStep DEF TypeOK
<1> USE DEF Covered, UserWillServe, CqWillServe, UpdatePcs
<1>k. CASE UNCHANGED <<connected, list, upc, utodo, udev, cqPc, cqConn, cqDev, cqMgr, cqTodo>>
           /\ \A n \in Managers : storage[n] \subseteq storage'[n]
  BY <1>k, <1>c, <1>t
<1>1. ASSUME NEW n \in Managers, UserStep(n)
      PROVE  Covered(m, d)'
  <2>0. UNCHANGED cq /\ connected' = connected
    BY <1>1 DEF UserStep, RegisterRequest, BeginOpenDevices, OpenNextDevice, RecordDevice,
                EndOpenDevices, OpenFrame, RecordFrame, CancelStreams, ClearStreams, Deregister,
                Destroy, registry
  <2>o. ASSUME n # m,
               \A k \in Managers \ {n} : /\ upc'[k] = upc[k] /\ utodo'[k] = utodo[k] /\ udev'[k] = udev[k]
                                         /\ storage'[k] = storage[k] /\ (k \in list' <=> k \in list)
        PROVE  Covered(m, d)'
    BY <2>0, <2>o, <1>c, <1>t, <1>m DEF cq
  <2>1. CASE RegisterRequest(n)
    BY <2>0, <2>1, <1>c, <1>t DEF RegisterRequest, cq
  <2>2. CASE BeginOpenDevices(n)
    BY <2>0, <2>2, <1>c, <1>t DEF BeginOpenDevices, registry, cq
  <2>3. ASSUME NEW e \in Devices, OpenNextDevice(n, e)
        PROVE  Covered(m, d)'
    <3>1. \/ /\ storage' = [storage EXCEPT ![n] = @ \cup {e}]
             /\ upc' = [upc EXCEPT ![n] = "recordDevice"] /\ udev' = [udev EXCEPT ![n] = e]
             /\ UNCHANGED utodo
          \/ /\ storage' = [storage EXCEPT ![n] = @ \cup {e}]
             /\ utodo' = [utodo EXCEPT ![n] = @ \ {e}] /\ UNCHANGED <<upc, udev>>
          \/ /\ ~IsDeviceDataRequested(n, e) /\ UNCHANGED storage
             /\ utodo' = [utodo EXCEPT ![n] = @ \ {e}] /\ UNCHANGED <<upc, udev>>
      BY <2>3 DEF OpenNextDevice, AddDeviceStorage
    <3>2. upc[n] = "opening" /\ list' = list
      BY <2>3 DEF OpenNextDevice
    <3>3. QED
      BY <2>0, <3>1, <3>2, <1>c, <1>t DEF cq
  <2>4. CASE RecordDevice(n)
    BY <2>0, <2>4, <1>c, <1>t DEF RecordDevice, cq
  <2>5. CASE EndOpenDevices(n)
    BY <2>0, <2>5, <1>c, <1>t DEF EndOpenDevices, registry, cq
  <2>6. CASE OpenFrame(n)
    <3>1. /\ storage' = [storage EXCEPT ![n] = @ \cup {e \in connected : IsDeviceDataRequested(n, e)}]
          /\ upc' = [upc EXCEPT ![n] = "recordFrame"] /\ UNCHANGED <<list, utodo, udev>>
      BY <2>6 DEF OpenFrame, AddDeviceStorage
    <3>2. QED
      BY <2>0, <3>1, <1>c, <1>t DEF cq
  <2>7. CASE \/ RecordFrame(n) \/ CancelStreams(n) \/ ClearStreams(n)
    BY <2>0, <2>7, <1>c, <1>t DEF RecordFrame, CancelStreams, ClearStreams, registry, cq
  <2>8. CASE Deregister(n) \/ Destroy(n)
    <3>1. n # m
      BY <2>8, <1>t DEF Deregister, Destroy, PhaseOK, Closing
    <3>2. QED
      BY <2>8, <2>o, <3>1, <1>t DEF Deregister, Destroy
  <2>9. QED
    BY <1>1, <2>1, <2>2, <2>3, <2>4, <2>5, <2>6, <2>7, <2>8 DEF UserStep
<1>2. ASSUME TagStep
      PROVE  Covered(m, d)'
  <2>1. /\ cqPc \notin {"lockList"} \cup UpdatePcs
        /\ UNCHANGED <<connected, list, storage, upc, utodo, udev>>
    <3>1. CASE \E c \in Calls : Proceed(c)
      BY <3>1 DEF Proceed, ProceedConnecting, ProceedDeliver, ProceedSkip, TakeFailed, registry, user
    <3>2. CASE EndCallback \/ (cqPc = "delete" /\ Deleted(cqCall)) \/ BeginSpin \/ Spin
      BY <3>2 DEF EndCallback, Deleted, BeginSpin, Spin, registry, user, vars
    <3>3. QED
      BY <1>2, <3>1, <3>2
      DEF TagStep, DeleteUnassociated, DeleteFrame, DeleteDevice, DeleteUnlisted
  <2>2. QED
    BY <2>1, <1>c
<1>3. ASSUME EventStep
      PROVE  Covered(m, d)'
  <2>1. UNCHANGED <<list, upc, utodo, udev, connected>>
    BY <1>3 DEF EventStep, LockList, UpdateSkip, UpdateDeviceGone, UpdateDevicePresent, UpdateFrame,
                CqRecordDevice, CqRemoveFrame, CqOpenFrame, CqRecordFrame, EndEvent, registry, user
  <2>2. CASE LockList
    BY <2>1, <2>2, <1>c DEF LockList, registry
  <2>3. ASSUME NEW n \in Managers, UpdateSkip(n)
        PROVE  Covered(m, d)'
    BY <2>1, <2>3, <1>c DEF UpdateSkip, registry
  <2>4. ASSUME NEW n \in Managers, UpdateDeviceGone(n)
        PROVE  Covered(m, d)'
    BY <2>1, <2>4, <1>c, <1>t DEF UpdateDeviceGone, RemoveDeviceStorage, PhaseOK
  <2>5. ASSUME NEW n \in Managers, UpdateDevicePresent(n)
        PROVE  Covered(m, d)'
    <3>1. /\ cqPc = "update" /\ n \in cqTodo /\ UNCHANGED <<cqDev, cqConn>>
          /\ storage' = [storage EXCEPT ![n] = @ \cup {cqDev}]
      BY <2>5 DEF UpdateDevicePresent, AddDeviceStorage
    <3>2. \/ cqPc' = "recordDevice" /\ cqMgr' = n /\ UNCHANGED cqTodo
          \/ cqTodo' = cqTodo \ {n} /\ UNCHANGED <<cqPc, cqMgr>>
      BY <2>5 DEF UpdateDevicePresent
    <3>3. QED
      BY <2>1, <3>1, <3>2, <1>c, <1>t
  <2>6. ASSUME NEW n \in Managers, UpdateFrame(n)
        PROVE  Covered(m, d)'
    <3>1. /\ cqPc = "update" /\ cqPc' = "removeFrame" /\ UNCHANGED <<cqDev, cqConn, cqTodo>>
          /\ storage' = IF cqConn THEN storage ELSE [storage EXCEPT ![n] = @ \ {cqDev}]
      BY <2>6 DEF UpdateFrame, RemoveDeviceStorage
    <3>2. ~cqConn => d # cqDev
      BY <2>1, <3>1 DEF PhaseOK
    <3>3. QED
      BY <2>1, <3>1, <3>2, <1>c, <1>t
  <2>7. CASE CqRecordDevice \/ CqRemoveFrame \/ CqRecordFrame
    BY <2>1, <2>7, <1>c DEF CqRecordDevice, CqRemoveFrame, CqRecordFrame
  <2>8. CASE CqOpenFrame
    <3>1. /\ storage' = [storage EXCEPT ![cqMgr] = @ \cup {e \in connected : IsDeviceDataRequested(cqMgr, e)}]
          /\ cqPc = "openFrame" /\ cqPc' = "recordFrame" /\ UNCHANGED <<cqDev, cqConn, cqMgr, cqTodo>>
      BY <2>8 DEF CqOpenFrame, AddDeviceStorage
    <3>2. QED
      BY <2>1, <3>1, <1>c, <1>t
  <2>9. CASE EndEvent
    BY <2>1, <2>9, <1>c DEF EndEvent, registry
  <2>10. QED
    BY <1>3, <2>2, <2>3, <2>4, <2>5, <2>6, <2>7, <2>8, <2>9 DEF EventStep
<1>4. ASSUME Environment
      PROVE  Covered(m, d)'
  <2>1. ASSUME NEW e \in Devices, NEW conn \in BOOLEAN, ReceiveEvent(e, conn)
        PROVE  Covered(m, d)'
    BY <2>1, <1>c DEF ReceiveEvent, user
  <2>2. CASE \E c \in Calls : CompleteOk(c) \/ CompleteFail(c)
    BY <2>2, <1>k DEF CompleteOk, CompleteFail, registry, user, cq
  <2>3. CASE ChannelLost
    BY <2>3 DEF ChannelLost
  <2>4. QED
    BY <1>4, <2>1, <2>2, <2>3 DEF Environment
<1>5. CASE Idle \/ UNCHANGED vars
  BY <1>5, <1>k DEF Idle, vars, registry, user, cq
<1>6. QED
  BY <1>1, <1>2, <1>3, <1>4, <1>5 DEF Next

-----------------------------------------------------------------------------
(* The theorems.                                                           *)

\* The invariant holds of the initial state.
LEMMA InvariantInit == Init => IInv
<1> SUFFICES ASSUME Init
             PROVE  IInv
  OBVIOUS
<1>1. TypeOK
  BY TypeInit
<1>2. CallsOK
  BY CallAssumption DEF Init, CallsOK, TagsLive, NeverOpened, Calls
<1>3. PhaseOK
  BY DEF Init, PhaseOK, UpdatePcs, ReplacePcs, Closing
<1>4. HandsOK
  BY DEF Init, HandsOK
<1>5. RecordsOK
  BY DEF Init, RecordsOK
<1>6. CqRecordedLive
  BY DEF Init, CqRecordedLive, NeverOpened
<1>7. CoverageOK
  BY DEF Init, CoverageOK
<1>8. QED
  BY <1>1, <1>2, <1>3, <1>4, <1>5, <1>6, <1>7 DEF IInv

\* The invariant is preserved by every step.
LEMMA InvariantStep == IInv /\ [Next]_vars => IInv'
<1> SUFFICES ASSUME IInv, [Next]_vars
             PROVE  IInv'
  OBVIOUS
<1> USE DEF IInv
<1>1. TypeOK'
  BY TypeStep
<1>2. CallsChange /\ RecordsChange
  BY CallsChanges, RecordsChanges
<1>3. CallsOK' /\ PhaseOK' /\ HandsOK'
  BY <1>1, <1>2, CallsStep, PhaseStep, HandsStep
<1>4. RecordsOK' /\ CqRecordedLive'
  BY <1>2, RecordsStep, LiveStep
<1>5. CoverageOK'
  BY CoverageStep
<1>6. QED
  BY <1>1, <1>3, <1>4, <1>5

\* IInv is an invariant of the registry: the argument every theorem below rests on.
THEOREM Invariance == Spec => []IInv
<1>1. Init => IInv
  BY InvariantInit
<1>2. IInv /\ [Next]_vars => IInv'
  BY InvariantStep
<1>3. QED
  BY <1>1, <1>2, PTL DEF Spec

\* The variables keep their types, whatever the threads and gRPC do.
THEOREM TypeCorrect == Spec => []TypeOK
<1>1. IInv => TypeOK
  BY DEF IInv
<1>2. QED
  BY <1>1, Invariance, PTL

\* No tag that gRPC or the completion queue still holds, and no call in the hands of the
\* completion-queue thread, is that of a deleted call.
THEOREM TagsAlwaysLive == Spec => []TagsLive
<1>1. IInv => TagsLive
  BY DEF IInv, CallsOK
<1>2. QED
  BY <1>1, Invariance, PTL

\* No connected device that a registered manager asked for is missed, however requests,
\* device events and channel losses interleave.
THEOREM StorageAlwaysCovered == Spec => []StorageCoverage
<1>1. IInv => StorageCoverage
  BY DEF IInv, CoverageOK, StorageCoverage
<1>2. QED
  BY <1>1, Invariance, PTL

\* A pointer that the completion-queue thread recorded never dangles.
THEOREM CqRecordsAlwaysLive == Spec => []CqRecordedLive
<1>1. IInv => CqRecordedLive
  BY DEF IInv
<1>2. QED
  BY <1>1, Invariance, PTL
=============================================================================
