---------------------- MODULE WirelessManagementProofs ----------------------
(***************************************************************************)
(* WirelessManagement never has two writes outstanding, and one stream at  *)
(* most while the manager is in use: for any senders and any number of     *)
(* streams.                                                                *)
(***************************************************************************)
EXTENDS WirelessManagement, TLAPS

\* A call that has not been opened is as Init made it.
FutureOK == \A c \in Calls : c >= nextCall => calls[c] = NeverOpened

\* The call a thread has in hand exists: CQ's has not been deleted, and the one
\* CreateWirelessManager opened is the first.
HandOK ==
    /\ cqPc # "next" => cqCall \in Calls /\ calls[cqCall].life = "live"
    /\ owner = "none" => nextCall = 1
    /\ owner = "opened" => 1 \in Calls

\* Before the manager is deleted, a live call is where its opener put it or will put it,
\* and nobody has cancelled it; the monitor works for a listed manager only.
PlaceOK ==
    /\ owner \in {"none", "opened", "recorded"} => monitor = NoCall
    /\ owner \notin {"cancelled", "gone"} =>
         \A c \in Calls : calls[c].life = "live" =>
             /\ calls[c].active
             /\ c = IF owner \in {"none", "opened"} THEN 1
                    ELSE IF monitor # NoCall THEN monitor ELSE cdata

IInv == TypeOK /\ FutureOK /\ HandOK /\ OneWrite /\ PlaceOK

-----------------------------------------------------------------------------
LEMMA Initially == Init => IInv
BY WirelessAssumption
   DEF Init, IInv, TypeOK, FutureOK, HandOK, OneWrite, PlaceOK, NeverOpened, NoTags, Record, Ops,
       Calls, NoCall

\* A call that changes its status or a tag is still a record.
LEMMA Updated ==
    ASSUME NEW f \in [Calls -> Record], NEW c \in Calls, NEW op \in Ops,
           NEW st \in {"CONNECTING", "WAITING", "PROCESSING", "FINISH"},
           NEW t \in {"none", "pending", "ok", "fail"}
    PROVE  /\ [f EXCEPT ![c].tag[op] = t] \in [Calls -> Record]
           /\ [f EXCEPT ![c].status = st, ![c].tag[op] = t] \in [Calls -> Record]
<1>1. f[c] \in Record /\ f[c].tag \in [Ops -> {"none", "pending", "ok", "fail"}]
  BY DEF Record
<1>2. [f[c].tag EXCEPT ![op] = t] \in [Ops -> {"none", "pending", "ok", "fail"}]
  BY <1>1
<1>3. [f[c] EXCEPT !.tag[op] = t] \in Record
  BY <1>1, <1>2 DEF Record
<1>4. [f[c] EXCEPT !.status = st, !.tag[op] = t] \in Record
  BY <1>1, <1>2 DEF Record
<1>5. QED
  BY <1>3, <1>4

LEMMA TypeStep ==
    ASSUME TypeOK, HandOK, [Next]_vars
    PROVE  TypeOK'
<1>1. CASE Create
  BY <1>1, WirelessAssumption
     DEF Create, OpenWirelessManagementStream, NoTags, TypeOK, Record, Ops, Calls
<1>2. CASE SetCallData
  BY <1>2, WirelessAssumption DEF SetCallData, TypeOK, HandOK
<1>3. CASE List
  BY <1>3, WirelessAssumption DEF List, TypeOK
<1>4. CASE Cancel
  BY <1>4, WirelessAssumption DEF Cancel, CancelStream, TypeOK, Record
<1>5. CASE Erase
  BY <1>5, WirelessAssumption DEF Erase, CancelStream, TypeOK, Record
<1>6. ASSUME NEW s \in Senders, Check(s) PROVE TypeOK'
  BY <1>6, WirelessAssumption DEF Check, TypeOK
<1>7. ASSUME NEW s \in Senders, Send(s) PROVE TypeOK'
  <2>1. "write" \in Ops /\ sender[s] \in Calls
    BY <1>7 DEF Send, TypeOK, Ops
  <2>2. calls' \in [Calls -> Record]
    BY <1>7, <2>1, Updated DEF Send, Write, TypeOK
  <2>3. QED
    BY <1>7, <2>2 DEF Send, TypeOK
<1>8. CASE MonitorOpen
  BY <1>8, WirelessAssumption
     DEF MonitorOpen, OpenWirelessManagementStream, NoTags, TypeOK, Record, Ops, Calls
<1>9. CASE MonitorRecord
  BY <1>9, WirelessAssumption DEF MonitorRecord, TypeOK
<1>10. ASSUME NEW c \in Calls, NEW op \in Ops, TakeConnected(c, op) PROVE TypeOK'
  BY <1>10, WirelessAssumption DEF TakeConnected, TypeOK, Record
<1>11. ASSUME NEW c \in Calls, NEW op \in Ops, TakeFailed(c, op) PROVE TypeOK'
  BY <1>11, Updated DEF TakeFailed, TypeOK
<1>12. ASSUME NEW c \in Calls, NEW op \in Ops, TakeDangling(c, op) PROVE TypeOK'
  BY <1>12, Updated DEF TakeDangling, TypeOK
<1>13. ASSUME NEW c \in Calls, TakeRead(c) PROVE TypeOK'
  <2>1. "read" \in Ops /\ "write" \in Ops
    BY DEF Ops
  <2>2. QED
    BY <1>13, <2>1, Updated DEF TakeRead, TypeOK
<1>14. ASSUME NEW c \in Calls, TakeReadInactive(c) PROVE TypeOK'
  <2>1. "read" \in Ops /\ "write" \in Ops
    BY DEF Ops
  <2>2. QED
    BY <1>14, <2>1, Updated DEF TakeReadInactive, Read, TypeOK
<1>15. ASSUME NEW c \in Calls, TakeWrite(c) PROVE TypeOK'
  <2>1. "read" \in Ops /\ "write" \in Ops
    BY DEF Ops
  <2>2. QED
    BY <1>15, <2>1, Updated DEF TakeWrite, TypeOK
<1>16. CASE EndCallback
  <2>1. "read" \in Ops /\ "write" \in Ops
    BY DEF Ops
  <2>2. QED
    BY <1>16, <2>1, Updated DEF EndCallback, Read, TypeOK
<1>17. CASE DeleteCall
  BY <1>17, WirelessAssumption DEF DeleteCall, TypeOK, Record
<1>18. ASSUME NEW c \in Calls, NEW op \in Ops, NEW result \in {"ok", "fail"}, Complete(c, op, result)
       PROVE  TypeOK'
  BY <1>18, Updated DEF Complete, TypeOK
<1>19. CASE UNCHANGED vars
  BY <1>19, WirelessAssumption DEF vars, TypeOK
<1>20. QED
  BY <1>1, <1>2, <1>3, <1>4, <1>5, <1>6, <1>7, <1>8, <1>9,
     <1>10, <1>11, <1>12, <1>13, <1>14, <1>15, <1>16, <1>17, <1>18, <1>19
     DEF Next, OwnerStep, Proceed, Idle

LEMMA HandStep ==
    ASSUME TypeOK, FutureOK, HandOK, [Next]_vars
    PROVE  HandOK'
<1>1. CASE Create
  BY <1>1, WirelessAssumption DEF Create, OpenWirelessManagementStream, HandOK
<1>2. CASE SetCallData
  BY <1>2, WirelessAssumption DEF SetCallData, HandOK
<1>3. CASE List
  BY <1>3, WirelessAssumption DEF List, HandOK
<1>4. CASE Cancel
  BY <1>4, WirelessAssumption DEF Cancel, CancelStream, HandOK
<1>5. CASE Erase
  BY <1>5, WirelessAssumption DEF Erase, CancelStream, HandOK
<1>6. ASSUME NEW s \in Senders, Check(s) PROVE HandOK'
  BY <1>6, WirelessAssumption DEF Check, HandOK
<1>7. ASSUME NEW s \in Senders, Send(s) PROVE HandOK'
  BY <1>7, WirelessAssumption DEF Send, Write, TypeOK, HandOK
<1>8. CASE MonitorOpen
  <2>1. nextCall \in Calls /\ calls[nextCall].life = "unused"
    BY <1>8 DEF MonitorOpen, OpenWirelessManagementStream, FutureOK, TypeOK, NeverOpened
  <2>2. QED
    BY <1>8, <2>1 DEF MonitorOpen, OpenWirelessManagementStream, Listed, HandOK
<1>9. CASE MonitorRecord
  BY <1>9, WirelessAssumption DEF MonitorRecord, HandOK
<1>10. ASSUME NEW c \in Calls, NEW op \in Ops, TakeConnected(c, op) PROVE HandOK'
  BY <1>10, WirelessAssumption DEF TakeConnected, HandOK
<1>11. ASSUME NEW c \in Calls, NEW op \in Ops, TakeFailed(c, op) PROVE HandOK'
  BY <1>11, WirelessAssumption DEF TakeFailed, TypeOK, HandOK
<1>12. ASSUME NEW c \in Calls, NEW op \in Ops, TakeDangling(c, op) PROVE HandOK'
  BY <1>12, WirelessAssumption DEF TakeDangling, HandOK
<1>13. ASSUME NEW c \in Calls, TakeRead(c) PROVE HandOK'
  BY <1>13, WirelessAssumption DEF TakeRead, HandOK
<1>14. ASSUME NEW c \in Calls, TakeReadInactive(c) PROVE HandOK'
  BY <1>14, WirelessAssumption DEF TakeReadInactive, HandOK
<1>15. ASSUME NEW c \in Calls, TakeWrite(c) PROVE HandOK'
  BY <1>15, WirelessAssumption DEF TakeWrite, HandOK
<1>16. CASE EndCallback
  BY <1>16, WirelessAssumption DEF EndCallback, HandOK
<1>17. CASE DeleteCall
  BY <1>17, WirelessAssumption DEF DeleteCall, HandOK
<1>18. ASSUME NEW c \in Calls, NEW op \in Ops, NEW result \in {"ok", "fail"}, Complete(c, op, result)
       PROVE  HandOK'
  BY <1>18, WirelessAssumption DEF Complete, HandOK
<1>19. CASE UNCHANGED vars
  BY <1>19, WirelessAssumption DEF vars, HandOK
<1>20. QED
  BY <1>1, <1>2, <1>3, <1>4, <1>5, <1>6, <1>7, <1>8, <1>9,
     <1>10, <1>11, <1>12, <1>13, <1>14, <1>15, <1>16, <1>17, <1>18, <1>19
     DEF Next, OwnerStep, Proceed, Idle

LEMMA FutureStep ==
    ASSUME TypeOK, HandOK, FutureOK, [Next]_vars
    PROVE  FutureOK'
<1>1. CASE Create
  BY <1>1, WirelessAssumption DEF Create, OpenWirelessManagementStream, TypeOK, FutureOK
<1>2. CASE SetCallData
  BY <1>2, WirelessAssumption DEF SetCallData, FutureOK
<1>3. CASE List
  BY <1>3, WirelessAssumption DEF List, FutureOK
<1>4. CASE Cancel
  <2>1. calls[cdata].life = "live" => calls[cdata] # NeverOpened
    BY DEF NeverOpened
  <2>2. QED
    BY <1>4, <2>1 DEF Cancel, CancelStream, FutureOK
<1>5. CASE Erase
  <2>1. calls[cdata].life = "live" => calls[cdata] # NeverOpened
    BY DEF NeverOpened
  <2>2. QED
    BY <1>5, <2>1 DEF Erase, CancelStream, FutureOK
<1>6. ASSUME NEW s \in Senders, Check(s) PROVE FutureOK'
  BY <1>6, WirelessAssumption DEF Check, FutureOK
<1>7. ASSUME NEW s \in Senders, Send(s) PROVE FutureOK'
  <2>1. calls[sender[s]].life = "live" => calls[sender[s]] # NeverOpened
    BY DEF NeverOpened
  <2>2. QED
    BY <1>7, <2>1 DEF Send, Write, TypeOK, FutureOK
<1>8. CASE MonitorOpen
  BY <1>8, WirelessAssumption
     DEF MonitorOpen, OpenWirelessManagementStream, TypeOK, FutureOK
<1>9. CASE MonitorRecord
  BY <1>9, WirelessAssumption DEF MonitorRecord, FutureOK
<1>10. ASSUME NEW c \in Calls, NEW op \in Ops, TakeConnected(c, op) PROVE FutureOK'
  <2>1. calls[c] # NeverOpened
    BY <1>10 DEF TakeConnected, NeverOpened
  <2>2. QED
    BY <1>10, <2>1 DEF TakeConnected, TypeOK, FutureOK
<1>11. ASSUME NEW c \in Calls, NEW op \in Ops, TakeFailed(c, op) PROVE FutureOK'
  <2>1. calls[c] # NeverOpened
    BY <1>11 DEF TakeFailed, NeverOpened
  <2>2. QED
    BY <1>11, <2>1 DEF TakeFailed, TypeOK, FutureOK
<1>12. ASSUME NEW c \in Calls, NEW op \in Ops, TakeDangling(c, op) PROVE FutureOK'
  <2>1. calls[c] # NeverOpened
    BY <1>12 DEF TakeDangling, NeverOpened
  <2>2. QED
    BY <1>12, <2>1 DEF TakeDangling, FutureOK
<1>13. ASSUME NEW c \in Calls, TakeRead(c) PROVE FutureOK'
  <2>1. calls[c] # NeverOpened
    BY <1>13 DEF TakeRead, NeverOpened
  <2>2. QED
    BY <1>13, <2>1 DEF TakeRead, FutureOK
<1>14. ASSUME NEW c \in Calls, TakeReadInactive(c) PROVE FutureOK'
  <2>1. calls[c] # NeverOpened
    BY <1>14 DEF TakeReadInactive, NeverOpened
  <2>2. QED
    BY <1>14, <2>1 DEF TakeReadInactive, Read, FutureOK
<1>15. ASSUME NEW c \in Calls, TakeWrite(c) PROVE FutureOK'
  <2>1. calls[c] # NeverOpened
    BY <1>15 DEF TakeWrite, NeverOpened
  <2>2. QED
    BY <1>15, <2>1 DEF TakeWrite, TypeOK, FutureOK
<1>16. CASE EndCallback
  <2>1. calls[cqCall] # NeverOpened
    BY <1>16 DEF EndCallback, HandOK, NeverOpened
  <2>2. QED
    BY <1>16, <2>1 DEF EndCallback, Read, FutureOK
<1>17. CASE DeleteCall
  <2>1. calls[cqCall] # NeverOpened
    BY <1>17 DEF DeleteCall, HandOK, NeverOpened
  <2>2. QED
    BY <1>17, <2>1 DEF DeleteCall, FutureOK
<1>18. ASSUME NEW c \in Calls, NEW op \in Ops, NEW result \in {"ok", "fail"}, Complete(c, op, result)
       PROVE  FutureOK'
  <2>1. calls[c] # NeverOpened
    BY <1>18 DEF Complete, NeverOpened, NoTags
  <2>2. QED
    BY <1>18, <2>1 DEF Complete, FutureOK
<1>19. CASE UNCHANGED vars
  BY <1>19, WirelessAssumption DEF vars, FutureOK
<1>20. QED
  BY <1>1, <1>2, <1>3, <1>4, <1>5, <1>6, <1>7, <1>8, <1>9,
     <1>10, <1>11, <1>12, <1>13, <1>14, <1>15, <1>16, <1>17, <1>18, <1>19
     DEF Next, OwnerStep, Proceed, Idle

LEMMA OneWriteStep ==
    ASSUME TypeOK, HandOK, OneWrite, [Next]_vars
    PROVE  OneWrite'
<1>1. CASE Create
  BY <1>1, WirelessAssumption
     DEF Create, OpenWirelessManagementStream, NoTags, OneWrite, Ops
<1>2. CASE SetCallData
  BY <1>2, WirelessAssumption DEF SetCallData, OneWrite
<1>3. CASE List
  BY <1>3, WirelessAssumption DEF List, OneWrite
<1>4. CASE Cancel
  BY <1>4, WirelessAssumption DEF Cancel, CancelStream, OneWrite
<1>5. CASE Erase
  BY <1>5, WirelessAssumption DEF Erase, CancelStream, OneWrite
<1>6. ASSUME NEW s \in Senders, Check(s) PROVE OneWrite'
  BY <1>6, WirelessAssumption DEF Check, OneWrite
<1>7. ASSUME NEW s \in Senders, Send(s) PROVE OneWrite'
  BY <1>7, WirelessAssumption DEF Send, Write, TypeOK, OneWrite
<1>8. CASE MonitorOpen
  BY <1>8, WirelessAssumption
     DEF MonitorOpen, OpenWirelessManagementStream, NoTags, OneWrite, Ops
<1>9. CASE MonitorRecord
  BY <1>9, WirelessAssumption DEF MonitorRecord, OneWrite
<1>10. ASSUME NEW c \in Calls, NEW op \in Ops, TakeConnected(c, op) PROVE OneWrite'
  BY <1>10, WirelessAssumption DEF TakeConnected, TypeOK, Record
<1>11. ASSUME NEW c \in Calls, NEW op \in Ops, TakeFailed(c, op) PROVE OneWrite'
  BY <1>11, WirelessAssumption DEF TakeFailed, TypeOK, OneWrite
<1>12. ASSUME NEW c \in Calls, NEW op \in Ops, TakeDangling(c, op) PROVE OneWrite'
  BY <1>12, WirelessAssumption DEF TakeDangling, OneWrite
<1>13. ASSUME NEW c \in Calls, TakeRead(c) PROVE OneWrite'
  BY <1>13, WirelessAssumption DEF TakeRead, OneWrite
<1>14. ASSUME NEW c \in Calls, TakeReadInactive(c) PROVE OneWrite'
  BY <1>14, WirelessAssumption DEF TakeReadInactive, Read, OneWrite
<1>15. ASSUME NEW c \in Calls, TakeWrite(c) PROVE OneWrite'
  BY <1>15, WirelessAssumption DEF TakeWrite, TypeOK, Record, Ops
<1>16. CASE EndCallback
  BY <1>16, WirelessAssumption DEF EndCallback, Read, OneWrite
<1>17. CASE DeleteCall
  BY <1>17, WirelessAssumption DEF DeleteCall, OneWrite
<1>18. ASSUME NEW c \in Calls, NEW op \in Ops, NEW result \in {"ok", "fail"}, Complete(c, op, result)
       PROVE  OneWrite'
  BY <1>18, WirelessAssumption DEF Complete, OneWrite
<1>19. CASE UNCHANGED vars
  BY <1>19, WirelessAssumption DEF vars, OneWrite
<1>20. QED
  BY <1>1, <1>2, <1>3, <1>4, <1>5, <1>6, <1>7, <1>8, <1>9,
     <1>10, <1>11, <1>12, <1>13, <1>14, <1>15, <1>16, <1>17, <1>18, <1>19
     DEF Next, OwnerStep, Proceed, Idle

LEMMA PlaceStep ==
    ASSUME TypeOK, FutureOK, HandOK, PlaceOK, [Next]_vars
    PROVE  PlaceOK'
<1>1. CASE Create
  BY <1>1, WirelessAssumption DEF Create, OpenWirelessManagementStream, HandOK, PlaceOK
<1>2. CASE SetCallData
  BY <1>2, WirelessAssumption DEF SetCallData, PlaceOK
<1>3. CASE List
  BY <1>3, WirelessAssumption DEF List, PlaceOK
<1>4. CASE Cancel
  BY <1>4, WirelessAssumption DEF Cancel, PlaceOK
<1>5. CASE Erase
  BY <1>5, WirelessAssumption DEF Erase, PlaceOK
<1>6. ASSUME NEW s \in Senders, Check(s) PROVE PlaceOK'
  BY <1>6, WirelessAssumption DEF Check, PlaceOK
<1>7. ASSUME NEW s \in Senders, Send(s) PROVE PlaceOK'
  BY <1>7, WirelessAssumption DEF Send, Write, TypeOK, PlaceOK
<1>8. CASE MonitorOpen
  <2>1. owner = "listed" => \A c \in Calls : calls[c].life # "live"
    <3>1. SUFFICES ASSUME owner = "listed", NEW c \in Calls, calls[c].life = "live"
                   PROVE  FALSE
      OBVIOUS
    <3>2. monitor = NoCall
      BY <1>8 DEF MonitorOpen
    <3>3. calls[c].active /\ c = cdata /\ cdata # NoCall
      BY <3>1, <3>2, WirelessAssumption DEF PlaceOK, Calls, NoCall
    <3>4. FALSE \in {calls[cdata].active}
      BY <1>8, <3>1, <3>3 DEF MonitorOpen, IsStreamActive
    <3>5. QED
      BY <3>3, <3>4
  <2>2. \A c \in Calls : c # nextCall => calls'[c] = calls[c]
    BY <1>8 DEF MonitorOpen, OpenWirelessManagementStream
  <2>3. nextCall \in Calls /\ calls'[nextCall].active /\ monitor' = nextCall /\ nextCall # NoCall
    BY <1>8, WirelessAssumption
       DEF MonitorOpen, OpenWirelessManagementStream, TypeOK, NoCall
  <2>4. Listed /\ owner' = owner
    BY <1>8 DEF MonitorOpen
  <2>5. QED
    BY <2>1, <2>2, <2>3, <2>4 DEF Listed, PlaceOK
<1>9. CASE MonitorRecord
  BY <1>9, WirelessAssumption DEF MonitorRecord, PlaceOK
<1>10. ASSUME NEW c \in Calls, NEW op \in Ops, TakeConnected(c, op) PROVE PlaceOK'
  BY <1>10, WirelessAssumption DEF TakeConnected, TypeOK, PlaceOK
<1>11. ASSUME NEW c \in Calls, NEW op \in Ops, TakeFailed(c, op) PROVE PlaceOK'
  BY <1>11, WirelessAssumption DEF TakeFailed, TypeOK, PlaceOK
<1>12. ASSUME NEW c \in Calls, NEW op \in Ops, TakeDangling(c, op) PROVE PlaceOK'
  BY <1>12, WirelessAssumption DEF TakeDangling, PlaceOK
<1>13. ASSUME NEW c \in Calls, TakeRead(c) PROVE PlaceOK'
  BY <1>13, WirelessAssumption DEF TakeRead, PlaceOK
<1>14. ASSUME NEW c \in Calls, TakeReadInactive(c) PROVE PlaceOK'
  BY <1>14, WirelessAssumption DEF TakeReadInactive, PlaceOK
<1>15. ASSUME NEW c \in Calls, TakeWrite(c) PROVE PlaceOK'
  BY <1>15, WirelessAssumption DEF TakeWrite, TypeOK, PlaceOK
<1>16. CASE EndCallback
  BY <1>16, WirelessAssumption DEF EndCallback, Read, PlaceOK
<1>17. CASE DeleteCall
  <2>1. owner \notin {"cancelled", "gone"} => \A c \in Calls : calls'[c].life = "live" => c # cqCall /\ calls'[c] = calls[c]
    BY <1>17 DEF DeleteCall, TypeOK
  <2>2. cqCall \in Calls /\ calls[cqCall].life = "live"
    BY <1>17 DEF DeleteCall, HandOK
  <2>3. owner' = owner /\ monitor' = monitor
    BY <1>17 DEF DeleteCall
  <2>4. QED
    BY <2>1, <2>2, <2>3 DEF PlaceOK
<1>18. ASSUME NEW c \in Calls, NEW op \in Ops, NEW result \in {"ok", "fail"}, Complete(c, op, result)
       PROVE  PlaceOK'
  BY <1>18, WirelessAssumption DEF Complete, PlaceOK
<1>19. CASE UNCHANGED vars
  BY <1>19, WirelessAssumption DEF vars, PlaceOK
<1>20. QED
  BY <1>1, <1>2, <1>3, <1>4, <1>5, <1>6, <1>7, <1>8, <1>9,
     <1>10, <1>11, <1>12, <1>13, <1>14, <1>15, <1>16, <1>17, <1>18, <1>19
     DEF Next, OwnerStep, Proceed, Idle

-----------------------------------------------------------------------------
\* IInv is inductive.
THEOREM Invariance == Spec => []IInv
<1>1. IInv /\ [Next]_vars => IInv'
  BY TypeStep, HandStep, FutureStep, OneWriteStep, PlaceStep DEF IInv
<1>2. QED
  BY <1>1, Initially, PTL DEF Spec

\* Every variable keeps its type: in particular the CQ thread never goes on with a call
\* it does not have.
THEOREM TypeCorrect == Spec => []TypeOK
<1>1. IInv => TypeOK
  BY DEF IInv
<1>2. QED
  BY <1>1, Invariance, PTL

\* SendWirelessManagementRequest never starts a write while the one before is outstanding.
THEOREM OneWriteAlways == Spec => []OneWrite
<1>1. IInv => OneWrite
  BY DEF IInv
<1>2. QED
  BY <1>1, Invariance, PTL

\* A manager in use has one live stream at most, whatever the monitor reopens.
THEOREM OneStreamAlways == Spec => []OneStream
<1>1. IInv => OneStream
  BY DEF IInv, PlaceOK, OneStream
<1>2. QED
  BY <1>1, Invariance, PTL
=============================================================================
