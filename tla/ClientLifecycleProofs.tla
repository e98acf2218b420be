----------------------- MODULE ClientLifecycleProofs -----------------------
(***************************************************************************)
(* ClientLifecycle for any number of streams, requests and changes of the  *)
(* channel: one stream fills the base-station storage, none once it is     *)
(* closed, and the monitor never loses hold of its event stream.           *)
(***************************************************************************)
EXTENDS ClientLifecycle, TLAPS

-----------------------------------------------------------------------------
(* The inductive invariant.                                                *)

\* The requester makes the storage once; nothing points to a stream of a storage that is
\* not made, and the monitor opens one for a listed storage that has none.
StorageOK ==
    /\ req \in {"opened", "recorded"} => ~made /\ tagSource \in Tags
    /\ listed => made
    /\ ~made /\ req # "recorded" => stream = NoCall
    /\ monPc = "setBase" => listed /\ stream = NoCall

\* A base stream that delivers is recorded in a storage that is listed or about to be, or in
\* the hands of the thread that opened it.
BasePlace ==
    \A c \in Calls : Delivers(c, "base") =>
        \/ c = stream /\ req # "opened" /\ monPc # "setBase" /\ (made => listed)
        \/ c = reqCall /\ req = "opened"
        \/ c = monCall /\ monPc = "setBase"

\* The monitor runs once the client is started; where it may open an event stream it points
\* to none.
MonitorOK ==
    /\ owner = "new" => monPc = "off"
    /\ monPc \in {"off", "ended"} \/ (monPc = "check" /\ previous # "READY") => eventStream = NoCall

IInv == TypeOK /\ StorageOK /\ BasePlace /\ MonitorOK /\ EventStreamRecorded

-----------------------------------------------------------------------------
(* What the operators of CallData do to the streams that deliver.          *)

\* No stream that did not deliver does so afterwards.
NoneNew == \A c \in Calls, k \in Kinds : Delivers(c, k)' => Delivers(c, k)

\* A stream that is opened is the only one that newly delivers.
LEMMA Opened ==
    ASSUME TypeOK, NEW kind \in Kinds, NEW t \in {"user", "monitor"}, OpenStream(kind, t)
    PROVE  /\ calls' \in [Calls -> Record] /\ nextCall' \in 1..(MaxCalls + 1)
           /\ nextCall \in Calls
           /\ \A c \in Calls, k \in Kinds :
                  Delivers(c, k)' => Delivers(c, k) \/ (c = nextCall /\ k = kind)
<1>1. StartCall(kind, {}, t) \in Record
  BY DEF StartCall, Record
<1>2. /\ nextCall \in Calls /\ nextCall' = nextCall + 1
      /\ calls' = [calls EXCEPT ![nextCall] = StartCall(kind, {}, t)]
      /\ calls \in [Calls -> Record]
  BY DEF OpenStream, TypeOK
<1>3. calls' \in [Calls -> Record]
  BY <1>1, <1>2
<1>4. nextCall' \in 1..(MaxCalls + 1)
  BY <1>2, LifecycleAssumption DEF Calls
<1>5. ASSUME NEW c \in Calls, NEW k \in Kinds, Delivers(c, k)'
      PROVE  Delivers(c, k) \/ (c = nextCall /\ k = kind)
  BY <1>2, <1>5 DEF Delivers, StartCall
<1>6. QED
  BY <1>2, <1>3, <1>4, <1>5

\* A stream that is cancelled does not deliver, and no other does newly.
LEMMA CancelledFacts ==
    ASSUME TypeOK, NEW p \in Pointers, calls' = Cancelled(p)
    PROVE  calls' \in [Calls -> Record] /\ NoneNew /\ \A k \in Kinds : p \in Calls => ~Delivers(p, k)'
<1>t. calls \in [Calls -> Record]
  BY DEF TypeOK
<1>1. CASE p \notin Calls
  <2>1. calls' = calls
    BY <1>1 DEF Cancelled, Pointers
  <2>2. QED
    BY <1>1, <1>t, <2>1 DEF NoneNew, Delivers
<1>2. CASE p \in Calls
  <2>1. calls' = [calls EXCEPT ![p] = CancelCall(calls[p])]
    BY <1>2 DEF Cancelled, Calls, NoCall
  <2>2. CancelCall(calls[p]) \in Record
    BY <1>2, <1>t DEF CancelCall, Record
  <2>3. CancelCall(calls[p]).life # "live" \/ CancelCall(calls[p]).cancelled
    BY <1>2, <1>t DEF CancelCall, Record
  <2>4. \A c \in Calls : c # p => calls'[c] = calls[c]
    BY <2>1, <1>t
  <2>5. calls'[p] = CancelCall(calls[p])
    BY <1>2, <2>1, <1>t
  <2>6. QED
    BY <1>t, <2>1, <2>2, <2>3, <2>4, <2>5 DEF NoneNew, Delivers
<1>3. QED
  BY <1>1, <1>2

\* What gRPC and the completion-queue thread do to a call makes none deliver.
LEMMA CallFacts ==
    ASSUME TypeOK, NEW c \in Calls, NEW r \in Record,
           r.life = calls[c].life \/ r.life = "freed",
           r.cancelled = calls[c].cancelled, r.mgr = calls[c].mgr,
           calls' = [calls EXCEPT ![c] = r]
    PROVE  calls' \in [Calls -> Record] /\ NoneNew
<1>t. calls \in [Calls -> Record]
  BY DEF TypeOK
<1>1. \A b \in Calls : calls'[b] = IF b = c THEN r ELSE calls[b]
  BY <1>t
<1>2. QED
  BY <1>t, <1>1 DEF NoneNew, Delivers

\* Each of them is such a change.
LEMMA CallRecords ==
    ASSUME TypeOK, NEW c \in Calls
    PROVE  \A r \in {ReadAgain(TakeTag(calls[c])), Stop(calls[c]), Delete(calls[c]),
                     Complete(calls[c], "ok"), Complete(calls[c], "fail")} :
               /\ r \in Record /\ (r.life = calls[c].life \/ r.life = "freed")
               /\ r.cancelled = calls[c].cancelled /\ r.mgr = calls[c].mgr
<1>1. calls[c] \in Record
  BY DEF TypeOK
<1>2. QED
  BY <1>1 DEF ReadAgain, TakeTag, Stop, Delete, Complete, Record

-----------------------------------------------------------------------------
(* The calls: their types, and which of them deliver after a step.         *)

Opening(c, k) ==
    /\ c = nextCall
    /\ \/ k = "base" /\ (RequestOpen \/ MonitorOpenBase)
       \/ k = "event" /\ MonitorReady

LEMMA CallsStep ==
    ASSUME TypeOK, [Next]_vars
    PROVE  /\ calls' \in [Calls -> Record] /\ nextCall' \in 1..(MaxCalls + 1)
           /\ \A c \in Calls, k \in Kinds : Delivers(c, k)' => Delivers(c, k) \/ Opening(c, k)
<1> DEFINE Goal == /\ calls' \in [Calls -> Record] /\ nextCall' \in 1..(MaxCalls + 1)
                   /\ \A c \in Calls, k \in Kinds : Delivers(c, k)' => Delivers(c, k) \/ Opening(c, k)
<1>t. /\ calls \in [Calls -> Record] /\ nextCall \in 1..(MaxCalls + 1)
      /\ stream \in Pointers /\ eventStream \in Pointers
  BY DEF TypeOK
<1>n. calls' \in [Calls -> Record] /\ NoneNew /\ nextCall' = nextCall => Goal
  BY <1>t DEF NoneNew
<1>u. UNCHANGED <<calls, nextCall>> => Goal
  BY <1>t DEF Delivers
<1>c. ASSUME NEW c \in Calls, nextCall' = nextCall,
             NEW r \in {ReadAgain(TakeTag(calls[c])), Stop(calls[c]), Delete(calls[c]),
                        Complete(calls[c], "ok"), Complete(calls[c], "fail")},
             calls' = [calls EXCEPT ![c] = r]
      PROVE  Goal
  BY <1>c, <1>n, CallRecords, CallFacts
<1>k. Kinds = {"event", "base"}
  BY DEF Kinds
<1>1. CASE RequestOpen
  <2>1. OpenStream("base", "user")
    BY <1>1 DEF RequestOpen
  <2>2. QED
    BY <1>1, <1>k, <2>1, Opened DEF Opening
<1>2. CASE MonitorOpenBase
  <2>1. OpenStream("base", "monitor")
    BY <1>2 DEF MonitorOpenBase
  <2>2. QED
    BY <1>2, <1>k, <2>1, Opened DEF Opening
<1>3. CASE MonitorReady
  <2>1. OpenStream("event", "monitor")
    BY <1>3 DEF MonitorReady
  <2>2. QED
    BY <1>3, <1>k, <2>1, Opened DEF Opening
<1>4. CASE CloseStorage \/ ShutdownCancel
  <2>1. (calls' = Cancelled(stream) \/ calls' = calls) /\ nextCall' = nextCall
    BY <1>4 DEF CloseStorage, ShutdownCancel
  <2>2. QED
    BY <2>1, <1>t, <1>n, <1>u, CancelledFacts
<1>5. CASE MonitorLost \/ MonitorEnd
  <2>1. calls' = Cancelled(eventStream) /\ nextCall' = nextCall
    BY <1>5 DEF MonitorLost, MonitorEnd
  <2>2. QED
    BY <2>1, <1>t, <1>n, CancelledFacts
<1>6. ASSUME NEW c \in Calls, TagStep(c) \/ CompleteOk(c) \/ CompleteFail(c)
      PROVE  Goal
  <2>1. PICK r \in {ReadAgain(TakeTag(calls[c])), Stop(calls[c]), Delete(calls[c]),
                    Complete(calls[c], "ok"), Complete(calls[c], "fail")} :
             calls' = [calls EXCEPT ![c] = r]
    BY <1>6 DEF TagStep, TakeOk, TakeFailed, CompleteOk, CompleteFail
  <2>2. nextCall' = nextCall
    BY <1>6 DEF TagStep, TakeOk, TakeFailed, CompleteOk, CompleteFail
  <2>3. QED
    BY <1>c, <2>1, <2>2
<1>7. CASE DeleteCall
  <2>1. calls' = [calls EXCEPT ![cqCall] = Delete(calls[cqCall])] /\ nextCall' = nextCall
    BY <1>7 DEF DeleteCall
  <2>2. CASE cqCall \in Calls
    BY <1>c, <2>1, <2>2
  <2>3. CASE cqCall \notin Calls
    <3>1. calls' = calls
      BY <2>1, <2>3, <1>t
    <3>2. QED
      BY <1>u, <2>1, <3>1
  <2>4. QED
    BY <2>2, <2>3
<1>8. CASE \/ RequestShared \/ RequestRecord \/ RequestList \/ (\E t \in Tags : Close(t))
           \/ Start \/ ShutdownJoin \/ ShutdownStep
  BY <1>8, <1>u DEF RequestShared, RequestRecord, RequestList, Close, Start, ShutdownJoin,
                    ShutdownStep
<1>9. CASE \/ MonitorSetBase \/ MonitorSkipBase \/ MonitorSave
           \/ CqLoop \/ CqDrained \/ TakeUncancelled \/ ChannelChange \/ UNCHANGED vars
  BY <1>9, <1>u DEF MonitorSetBase, MonitorSkipBase, MonitorSave, CqLoop, CqDrained,
                    TakeUncancelled, ChannelChange, vars
<1>10. QED
  BY <1>1, <1>2, <1>3, <1>4, <1>5, <1>6, <1>7, <1>8, <1>9
     DEF Next, RequestStep, MonitorStep, CqStep

-----------------------------------------------------------------------------
(* The conjuncts of the invariant.                                         *)

LEMMA Initially == Init => IInv
<1> SUFFICES ASSUME Init
             PROVE  IInv
  OBVIOUS
<1>1. NeverOpened \in Record
  BY DEF NeverOpened, Record
<1>2. TypeOK
  <2>1. nextCall \in 1..(MaxCalls + 1) /\ tagSource \in 1..(MaxTags + 1) /\ changes \in 0..MaxChanges
    BY LifecycleAssumption DEF Init
  <2>2. calls \in [Calls -> Record]
    BY <1>1 DEF Init
  <2>3. QED
    BY <2>1, <2>2 DEF Init, TypeOK, Pointers
<1>3. \A c \in Calls, k \in Kinds : ~Delivers(c, k)
  BY DEF Init, Delivers, NeverOpened
<1>4. StorageOK /\ MonitorOK
  BY DEF Init, StorageOK, MonitorOK
<1>5. BasePlace /\ EventStreamRecorded
  BY <1>3 DEF BasePlace, EventStreamRecorded, Kinds
<1>6. QED
  BY <1>2, <1>4, <1>5 DEF IInv

\* Every step keeps the types.
LEMMA TypeStep ==
    ASSUME TypeOK, StorageOK, [Next]_vars
    PROVE  TypeOK'
<1>c. calls' \in [Calls -> Record] /\ nextCall' \in 1..(MaxCalls + 1)
  BY CallsStep
<1> USE DEF TypeOK, Pointers, requests, monitor, shutdown
<1>a. MaxTags \in Nat /\ MaxChanges \in Nat
  BY LifecycleAssumption
<1>1. CASE RequestShared
  BY <1>1, <1>c, <1>a DEF RequestShared, Tags
<1>2. CASE RequestOpen
  BY <1>2, <1>c DEF RequestOpen, OpenStream
<1>3. CASE RequestRecord
  BY <1>3, <1>c DEF RequestRecord
<1>4. CASE RequestList
  BY <1>4, <1>c, <1>a DEF RequestList, StorageOK, Tags
<1>5. ASSUME NEW t \in Tags, Close(t)
      PROVE  TypeOK'
  BY <1>5, <1>c DEF Close
<1>6. CASE CloseStorage
  <2>1. /\ listed' = FALSE /\ req' = "idle"
        /\ UNCHANGED <<nextCall, tags, tagSource, made, stream, reqCall, owner, uncancelled, channel,
                       changes, previous, eventStream, monPc, monCall, cqPc, cqCall>>
    BY <1>6 DEF CloseStorage
  <2>2. made' \in BOOLEAN /\ listed' \in BOOLEAN
    BY <2>1
  <2>3. QED
    BY <2>1, <2>2, <1>c
<1>7. CASE Start \/ ShutdownJoin \/ ShutdownStep
  BY <1>7, <1>c DEF Start, ShutdownJoin, ShutdownStep
<1>8. CASE ShutdownCancel
  BY <1>8, <1>c DEF ShutdownCancel
<1>9. CASE MonitorReady
  BY <1>9, <1>c DEF MonitorReady, OpenStream
<1>10. CASE MonitorOpenBase
  BY <1>10, <1>c DEF MonitorOpenBase, OpenStream
<1>11. CASE MonitorSetBase \/ MonitorSkipBase \/ MonitorSave
  BY <1>11, <1>c DEF MonitorSetBase, MonitorSkipBase, MonitorSave
<1>12. CASE MonitorLost \/ MonitorEnd
  BY <1>12, <1>c DEF MonitorLost, MonitorEnd
<1>13. CASE CqLoop \/ CqDrained \/ TakeUncancelled
  BY <1>13, <1>c DEF CqLoop, CqDrained, TakeUncancelled
<1>14. CASE DeleteCall
  BY <1>14, <1>c DEF DeleteCall, ClearAssociation
<1>15. ASSUME NEW c \in Calls, TakeOk(c) \/ TakeFailed(c)
       PROVE  TypeOK'
  BY <1>15, <1>c DEF TakeOk, TakeFailed
<1>16. ASSUME NEW c \in Calls, CompleteOk(c) \/ CompleteFail(c)
       PROVE  TypeOK'
  BY <1>16, <1>c DEF CompleteOk, CompleteFail
<1>17. CASE ChannelChange
  BY <1>17, <1>c, <1>a DEF ChannelChange
<1>18. CASE UNCHANGED vars
  BY <1>18, <1>c DEF vars
<1>19. QED
  BY <1>1, <1>2, <1>3, <1>4, <1>5, <1>6, <1>7, <1>8, <1>9, <1>10, <1>11, <1>12, <1>13, <1>14,
     <1>15, <1>16, <1>17, <1>18
     DEF Next, RequestStep, MonitorStep, CqStep, TagStep

\* The steps that leave the storage, the requester and what the monitor has in hand alone.
LEMMA AsideSteps ==
    ASSUME MonitorOK,
           \/ Start \/ ShutdownJoin \/ ShutdownStep \/ MonitorSkipBase \/ MonitorSave
           \/ MonitorReady \/ MonitorLost \/ MonitorEnd \/ CqLoop \/ CqDrained
           \/ TakeUncancelled \/ ChannelChange \/ UNCHANGED vars
           \/ \E c \in Calls : TagStep(c) \/ CompleteOk(c) \/ CompleteFail(c)
    PROVE  /\ UNCHANGED <<tagSource, made, listed, stream, req, reqCall, monCall>>
           /\ monPc' = monPc \/ (monPc # "setBase" /\ monPc' # "setBase")
<1> USE DEF requests, monitor, shutdown
<1>1. CASE Start \/ ShutdownJoin \/ ShutdownStep
  BY <1>1 DEF Start, ShutdownJoin, ShutdownStep, MonitorOK
<1>2. CASE MonitorSkipBase \/ MonitorSave
  BY <1>2 DEF MonitorSkipBase, MonitorSave
<1>3. CASE MonitorReady \/ MonitorLost \/ MonitorEnd
  BY <1>3 DEF MonitorReady, MonitorLost, MonitorEnd
<1>4. CASE CqLoop \/ CqDrained \/ TakeUncancelled \/ ChannelChange \/ UNCHANGED vars
  BY <1>4 DEF CqLoop, CqDrained, TakeUncancelled, ChannelChange, vars
<1>5. ASSUME NEW c \in Calls, TagStep(c) \/ CompleteOk(c) \/ CompleteFail(c)
      PROVE  /\ UNCHANGED <<tagSource, made, listed, stream, req, reqCall, monCall>>
             /\ monPc' = monPc \/ (monPc # "setBase" /\ monPc' # "setBase")
  BY <1>5 DEF TagStep, TakeOk, TakeFailed, CompleteOk, CompleteFail
<1>6. QED
  BY <1>1, <1>2, <1>3, <1>4, <1>5

\* Every step keeps the storage, its requester and the monitor consistent.
LEMMA StorageStep ==
    ASSUME TypeOK, StorageOK, MonitorOK, [Next]_vars
    PROVE  StorageOK'
<1> USE DEF StorageOK, requests, monitor, shutdown
<1>1. CASE RequestShared
  BY <1>1 DEF RequestShared
<1>2. CASE RequestOpen
  BY <1>2 DEF RequestOpen
<1>3. CASE RequestRecord
  BY <1>3 DEF RequestRecord
<1>4. CASE RequestList
  BY <1>4 DEF RequestList
<1>5. ASSUME NEW t \in Tags, Close(t)
      PROVE  StorageOK'
  BY <1>5 DEF Close
<1>6. CASE CloseStorage
  BY <1>6 DEF CloseStorage, ListMtxFree
<1>7. CASE ShutdownCancel
  BY <1>7 DEF ShutdownCancel, ListMtxFree
<1>8. CASE MonitorOpenBase
  BY <1>8 DEF MonitorOpenBase, DataStreamExists
<1>9. CASE MonitorSetBase
  BY <1>9 DEF MonitorSetBase
<1>10. CASE DeleteCall
  BY <1>10 DEF DeleteCall, ClearAssociation
<1>11. CASE /\ UNCHANGED <<tagSource, made, listed, stream, req, reqCall, monCall>>
            /\ monPc' = monPc \/ (monPc # "setBase" /\ monPc' # "setBase")
  BY <1>11
<1>12. QED
  BY <1>1, <1>2, <1>3, <1>4, <1>5, <1>6, <1>7, <1>8, <1>9, <1>10, <1>11, AsideSteps
     DEF Next, RequestStep, MonitorStep, CqStep

\* No step leaves a base stream that delivers where nothing can cancel it.
LEMMA BaseStep ==
    ASSUME TypeOK, StorageOK, MonitorOK, BasePlace, [Next]_vars
    PROVE  BasePlace'
<1> SUFFICES ASSUME NEW c \in Calls, Delivers(c, "base")'
             PROVE  \/ c = stream' /\ req' # "opened" /\ monPc' # "setBase" /\ (made' => listed')
                    \/ c = reqCall' /\ req' = "opened"
                    \/ c = monCall' /\ monPc' = "setBase"
  BY DEF BasePlace
<1> DEFINE Place == \/ c = stream' /\ req' # "opened" /\ monPc' # "setBase" /\ (made' => listed')
                    \/ c = reqCall' /\ req' = "opened"
                    \/ c = monCall' /\ monPc' = "setBase"
<1>d. Delivers(c, "base") \/ (c = nextCall /\ (RequestOpen \/ MonitorOpenBase))
  BY CallsStep DEF Opening, Kinds
<1>p. Delivers(c, "base") =>
        \/ c = stream /\ req # "opened" /\ monPc # "setBase" /\ (made => listed)
        \/ c = reqCall /\ req = "opened"
        \/ c = monCall /\ monPc = "setBase"
  BY DEF BasePlace
<1>n. NoCall \notin Calls
  BY DEF NoCall, Calls
<1> USE DEF requests, monitor, shutdown
<1>1. CASE RequestShared
  BY <1>1, <1>d, <1>p DEF RequestShared, RequestOpen, MonitorOpenBase
<1>2. CASE RequestOpen
  BY <1>2, <1>d, <1>p, <1>n DEF RequestOpen, StorageOK
<1>3. CASE RequestRecord
  BY <1>3, <1>d, <1>p DEF RequestRecord, RequestOpen, MonitorOpenBase, StorageOK
<1>4. CASE RequestList
  BY <1>4, <1>d, <1>p DEF RequestList, RequestOpen, MonitorOpenBase, StorageOK
<1>5. ASSUME NEW t \in Tags, Close(t)
      PROVE  Place
  BY <1>5, <1>d, <1>p DEF Close, RequestOpen, MonitorOpenBase
<1>x. calls' = Cancelled(stream) => c # stream
  BY CancelledFacts DEF TypeOK, Kinds
<1>6. CASE CloseStorage
  <2>1. /\ req = "closing" /\ req' = "idle" /\ (listed => calls' = Cancelled(stream))
        /\ UNCHANGED <<made, stream, monPc, monCall>> /\ monPc # "setBase"
    BY <1>6 DEF CloseStorage, ListMtxFree
  <2>2. ~RequestOpen /\ ~MonitorOpenBase
    BY <2>1 DEF RequestOpen, MonitorOpenBase
  <2>3. c = stream /\ (made => listed)
    BY <2>1, <2>2, <1>d, <1>p
  <2>4. ~made
    BY <2>1, <2>3, <1>x
  <2>5. QED
    BY <2>1, <2>3, <2>4
<1>7. CASE ShutdownCancel
  <2>1. /\ req = "idle" /\ req' = req /\ UNCHANGED <<made, listed, monPc, monCall>>
        /\ monPc # "setBase"
        /\ (listed /\ calls' = Cancelled(stream)) \/ (~listed /\ stream' = stream)
    BY <1>7 DEF ShutdownCancel, ListMtxFree
  <2>2. ~RequestOpen /\ ~MonitorOpenBase
    BY <1>7 DEF ShutdownCancel, RequestOpen, MonitorOpenBase
  <2>3. c = stream /\ (made => listed)
    BY <2>1, <2>2, <1>d, <1>p
  <2>4. QED
    BY <2>1, <2>3, <1>x
<1>8. CASE MonitorOpenBase
  BY <1>8, <1>d, <1>p, <1>n DEF MonitorOpenBase, DataStreamExists, StorageOK
<1>9. CASE MonitorSetBase
  BY <1>9, <1>d, <1>p DEF MonitorSetBase, RequestOpen, MonitorOpenBase, StorageOK
<1>10. CASE DeleteCall
  <2>1. /\ calls' = [calls EXCEPT ![cqCall] = Delete(@)]
        /\ stream' = IF stream = cqCall THEN NoCall ELSE stream
        /\ UNCHANGED <<req, reqCall, made, listed, monPc, monCall, nextCall>>
    BY <1>10 DEF DeleteCall, ClearAssociation
  <2>2. c # cqCall
    BY <2>1 DEF Delivers, Delete, TypeOK, Record
  <2>3. ~RequestOpen /\ ~MonitorOpenBase
    BY <2>1 DEF RequestOpen, MonitorOpenBase, OpenStream, TypeOK
  <2>4. QED
    BY <2>1, <2>2, <2>3, <1>d, <1>p
<1>11. CASE /\ UNCHANGED <<tagSource, made, listed, stream, req, reqCall, monCall>>
            /\ monPc' = monPc \/ (monPc # "setBase" /\ monPc' # "setBase")
  BY <1>11, <1>d, <1>p DEF RequestOpen, MonitorOpenBase
<1>12. QED
  BY <1>1, <1>2, <1>3, <1>4, <1>5, <1>6, <1>7, <1>8, <1>9, <1>10, <1>11, AsideSteps
     DEF Next, RequestStep, MonitorStep, CqStep

\* Every step leaves the monitor with no event stream where it may open one.
LEMMA MonitorOKStep ==
    ASSUME TypeOK, MonitorOK, [Next]_vars
    PROVE  MonitorOK'
<1> USE DEF MonitorOK, requests, monitor, shutdown
<1>1. CASE RequestStep \/ \E t \in Tags : Close(t)
  BY <1>1 DEF RequestStep, RequestShared, RequestOpen, RequestRecord, RequestList, CloseStorage,
              Close
<1>2. CASE Start \/ ShutdownCancel \/ ShutdownJoin \/ ShutdownStep
  BY <1>2 DEF Start, ShutdownCancel, ShutdownJoin, ShutdownStep
<1>3. CASE MonitorReady \/ MonitorOpenBase \/ MonitorSetBase \/ MonitorSkipBase \/ MonitorSave
  BY <1>3 DEF MonitorReady, MonitorOpenBase, MonitorSetBase, MonitorSkipBase, MonitorSave
<1>4. CASE MonitorLost \/ MonitorEnd
  BY <1>4 DEF MonitorLost, MonitorEnd
<1>5. CASE CqStep \/ TakeUncancelled \/ ChannelChange \/ UNCHANGED vars
  BY <1>5 DEF CqStep, CqLoop, CqDrained, DeleteCall, TakeUncancelled, ChannelChange, vars
<1>6. ASSUME NEW c \in Calls, TagStep(c) \/ CompleteOk(c) \/ CompleteFail(c)
      PROVE  MonitorOK'
  BY <1>6 DEF TagStep, TakeOk, TakeFailed, CompleteOk, CompleteFail
<1>7. QED
  BY <1>1, <1>2, <1>3, <1>4, <1>5, <1>6 DEF Next, MonitorStep

\* The monitor replaces or forgets an event stream only when that does not deliver any more.
LEMMA EventStep ==
    ASSUME TypeOK, MonitorOK, EventStreamRecorded, [Next]_vars
    PROVE  EventStreamRecorded'
<1> SUFFICES ASSUME NEW c \in Calls, Delivers(c, "event")'
             PROVE  c = eventStream' /\ monPc' # "ended"
  BY DEF EventStreamRecorded
<1>d. Delivers(c, "event") \/ (c = nextCall /\ MonitorReady)
  BY CallsStep DEF Opening, Kinds
<1>p. Delivers(c, "event") => c = eventStream /\ monPc # "ended"
  BY DEF EventStreamRecorded
<1>n. NoCall \notin Calls
  BY DEF NoCall, Calls
<1>1. CASE MonitorReady
  <2>1. /\ monPc = "check" /\ previous # "READY" /\ eventStream' = nextCall /\ monPc' = "base"
    BY <1>1 DEF MonitorReady
  <2>2. eventStream = NoCall
    BY <2>1 DEF MonitorOK
  <2>3. QED
    BY <2>1, <2>2, <1>d, <1>p, <1>n
<1>2. CASE MonitorLost \/ MonitorEnd
  <2>1. calls' = Cancelled(eventStream) /\ ~MonitorReady
    BY <1>2 DEF MonitorLost, MonitorEnd, MonitorReady
  <2>2. c # eventStream
    BY <2>1, CancelledFacts DEF TypeOK, Kinds
  <2>3. QED
    BY <2>1, <2>2, <1>d, <1>p
<1>3. CASE ~MonitorReady /\ eventStream' = eventStream /\ (monPc' # "ended" \/ monPc = "ended")
  BY <1>3, <1>d, <1>p
<1> USE DEF requests, monitor, shutdown
<1>4. CASE RequestStep \/ \E t \in Tags : Close(t)
  <2>1. eventStream' = eventStream /\ monPc' = monPc
    BY <1>4 DEF RequestStep, RequestShared, RequestOpen, RequestRecord, RequestList, CloseStorage,
                Close
  <2>2. QED
    BY <2>1, <1>1, <1>3
<1>5. CASE Start \/ ShutdownCancel \/ ShutdownJoin \/ ShutdownStep
  <2>1. eventStream' = eventStream /\ (monPc' = monPc \/ monPc' = "check")
    BY <1>5 DEF Start, ShutdownCancel, ShutdownJoin, ShutdownStep
  <2>2. QED
    BY <2>1, <1>1, <1>3
<1>6. CASE MonitorOpenBase \/ MonitorSetBase \/ MonitorSkipBase \/ MonitorSave
  <2>1. eventStream' = eventStream /\ monPc' # "ended"
    BY <1>6 DEF MonitorOpenBase, MonitorSetBase, MonitorSkipBase, MonitorSave
  <2>2. QED
    BY <2>1, <1>1, <1>3
<1>7. CASE CqStep \/ TakeUncancelled \/ ChannelChange \/ UNCHANGED vars
  <2>1. eventStream' = eventStream /\ monPc' = monPc
    BY <1>7 DEF CqStep, CqLoop, CqDrained, DeleteCall, TakeUncancelled, ChannelChange, vars
  <2>2. QED
    BY <2>1, <1>1, <1>3
<1>8. ASSUME NEW b \in Calls, TagStep(b) \/ CompleteOk(b) \/ CompleteFail(b)
      PROVE  c = eventStream' /\ monPc' # "ended"
  <2>1. eventStream' = eventStream /\ monPc' = monPc
    BY <1>8 DEF TagStep, TakeOk, TakeFailed, CompleteOk, CompleteFail
  <2>2. QED
    BY <2>1, <1>1, <1>3
<1>9. QED
  BY <1>1, <1>2, <1>4, <1>5, <1>6, <1>7, <1>8 DEF Next, MonitorStep

-----------------------------------------------------------------------------
(* The theorems.                                                           *)

\* IInv is an invariant of the client's life.
THEOREM Invariance == Spec => []IInv
<1>1. Init => IInv
  BY Initially
<1>2. IInv /\ [Next]_vars => IInv'
  BY TypeStep, StorageStep, BaseStep, MonitorOKStep, EventStep DEF IInv
<1>3. QED
  BY <1>1, <1>2, PTL DEF Spec

\* The variables keep their types.
THEOREM TypeCorrect == Spec => []TypeOK
<1>1. IInv => TypeOK
  BY DEF IInv
<1>2. QED
  BY <1>1, Invariance, PTL

\* Requests, the monitor's reopening and Shutdown never leave two streams that fill the
\* base-station storage at once.
THEOREM OneBaseStreamAlways == Spec => []OneBaseStream
<1>1. IInv => OneBaseStream
  <2>1. StorageOK /\ BasePlace => OneBaseStream
    BY DEF StorageOK, BasePlace, OneBaseStream
  <2>2. QED
    BY <2>1 DEF IInv
<1>2. QED
  BY <1>1, Invariance, PTL

\* No stream fills the base-station storage once it is closed, whoever opened it and
\* whenever.
THEOREM ClosedAlwaysSilent == Spec => []ClosedIsSilent
<1>1. IInv => ClosedIsSilent
  <2>1. StorageOK /\ BasePlace => ClosedIsSilent
    BY DEF StorageOK, BasePlace, ClosedIsSilent
  <2>2. QED
    BY <2>1 DEF IInv
<1>2. QED
  BY <1>1, Invariance, PTL

\* A device event stream that delivers is the one the monitor holds and will cancel.
THEOREM EventStreamAlwaysRecorded == Spec => []EventStreamRecorded
<1>1. IInv => EventStreamRecorded
  BY DEF IInv
<1>2. QED
  BY <1>1, Invariance, PTL
=============================================================================
