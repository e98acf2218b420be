------------------------- MODULE RequestTagsProofs -------------------------
(***************************************************************************)
(* RequestTags for any number of application threads and requests: no      *)
(* query meets a closed request, no open request loses its tag and no tag  *)
(* is given out twice, as far as the increments of the two kinds of        *)
(* requests do not overlap.                                                *)
(***************************************************************************)
EXTENDS RequestTags, TLAPS

\* The mutexes: one thread at a time, and no query, beside a thread that changes the map;
\* one at a time in RequestBaseStationData.
LockOK ==
    /\ \A t, u \in Threads :
         t # u /\ pc[t] \in {"dataTag", "closing"} => pc[u] \notin {"dataTag", "closing", "query"}
    /\ \A t, u \in Threads : t # u /\ pc[t] = "baseTag" => pc[u] # "baseTag"

\* A request is in one place: in the hands of the thread that opened it, under one tag, or
\* closed.
HandOK ==
    /\ \A r \in opened : r <= requests
    /\ \A t \in Threads :
         pc[t] \in {"opened", "dataTag"} =>
             /\ req[t] \in opened \ closed
             /\ \A g \in Tags : managers[g] # req[t]
             /\ \A u \in Threads : u # t /\ pc[u] \in {"opened", "dataTag"} => req[u] # req[t]

MapOK ==
    /\ \A g \in Tags : managers[g] # NoRequest => managers[g] \in opened \ closed
    /\ \A g, h \in Tags : managers[g] # NoRequest /\ managers[g] = managers[h] => g = h
    /\ \A t \in Threads :
         pc[t] \in {"closing", "query"} =>
             tag[t] \in Tags /\ req[t] # NoRequest /\ managers[tag[t]] = req[t]

\* Without a race, a thread that increments has the source's value, which nobody has yet.
SourceOK ==
    /\ \A t \in Threads : pc[t] \in {"dataTag", "baseTag"} => tag[t] \in Tags
    /\ raced \/
         /\ \A t, u \in Threads : pc[t] = "dataTag" => pc[u] # "baseTag"
         /\ \A t \in Threads : pc[t] \in {"dataTag", "baseTag"} => tag[t] = source
         /\ \A g \in Tags : g >= source => managers[g] = NoRequest /\ g \notin baseTags

IInv == TypeOK /\ LockOK /\ HandOK /\ MapOK /\ SourceOK /\ StorageKept /\ Reachable

-----------------------------------------------------------------------------
LEMMA Initially == Init => IInv
<1>1. Init => TypeOK
  <2>1. 1 \in 1..(MaxRequests + 1) /\ 0 \in 0..MaxRequests
    BY TagsAssumption
  <2>2. QED
    BY <2>1 DEF Init, TypeOK, Places
<1>2. Init => LockOK /\ HandOK /\ MapOK /\ SourceOK
  BY TagsAssumption DEF Init, LockOK, HandOK, MapOK, SourceOK
<1>3. Init => StorageKept /\ Reachable
  BY DEF Init, StorageKept, Reachable, At
<1>4. QED
  BY <1>1, <1>2, <1>3 DEF IInv

LEMMA TypeStep ==
    ASSUME TypeOK, MapOK, SourceOK, [Next]_vars
    PROVE  TypeOK'
<1>1. ASSUME NEW t \in Threads, OpenRequest(t) PROVE TypeOK'
  BY <1>1, TagsAssumption DEF OpenRequest, Goto, TypeOK, Places, Requests
<1>2. ASSUME NEW t \in Threads, LoadDataTag(t) PROVE TypeOK'
  BY <1>2 DEF LoadDataTag, Goto, TypeOK, Places
<1>3. ASSUME NEW t \in Threads, StoreDataTag(t) PROVE TypeOK'
  <2>1. tag[t] \in Tags /\ source' \in 1..(MaxRequests + 1)
    BY <1>3, TagsAssumption DEF StoreDataTag, SourceOK, Tags
  <2>2. QED
    BY <1>3, <2>1 DEF StoreDataTag, Goto, Return, TypeOK, Places
<1>4. ASSUME NEW t \in Threads, NEW g \in Tags, BeginClose(t, g) PROVE TypeOK'
  BY <1>4 DEF BeginClose, Goto, shared, TypeOK, Places
<1>5. ASSUME NEW t \in Threads, EndClose(t) PROVE TypeOK'
  <2>1. req[t] \in opened /\ tag[t] \in Tags
    BY <1>5 DEF EndClose, MapOK
  <2>2. QED
    BY <1>5, <2>1 DEF EndClose, Goto, Return, TypeOK, Places
<1>6. ASSUME NEW t \in Threads, NEW g \in Tags, BeginQuery(t, g) PROVE TypeOK'
  BY <1>6 DEF BeginQuery, Goto, shared, TypeOK, Places
<1>7. ASSUME NEW t \in Threads, EndQuery(t) PROVE TypeOK'
  BY <1>7, TagsAssumption DEF EndQuery, Goto, Return, shared, TypeOK, Places
<1>8. ASSUME NEW t \in Threads, LoadBaseTag(t) PROVE TypeOK'
  BY <1>8, TagsAssumption DEF LoadBaseTag, Goto, TypeOK, Places
<1>9. ASSUME NEW t \in Threads, StoreBaseTag(t) PROVE TypeOK'
  <2>1. tag[t] \in Tags /\ source' \in 1..(MaxRequests + 1)
    BY <1>9, TagsAssumption DEF StoreBaseTag, SourceOK, Tags
  <2>2. QED
    BY <1>9, <2>1 DEF StoreBaseTag, Goto, Return, TypeOK, Places
<1>10. ASSUME NEW t \in Threads, NEW g \in Tags, CloseBase(t, g) PROVE TypeOK'
  BY <1>10 DEF CloseBase, TypeOK
<1>11. ASSUME NEW t \in Threads, NEW g \in Tags, BeginBaseQuery(t, g) PROVE TypeOK'
  BY <1>11 DEF BeginBaseQuery, Goto, shared, TypeOK, Places
<1>12. ASSUME NEW t \in Threads, EndBaseQuery(t) PROVE TypeOK'
  BY <1>12 DEF EndBaseQuery, Goto, Return, shared, TypeOK, Places
<1>13. CASE UNCHANGED vars
  BY <1>13 DEF vars, shared, TypeOK
<1>14. QED
  BY <1>1, <1>2, <1>3, <1>4, <1>5, <1>6, <1>7, <1>8, <1>9, <1>10, <1>11, <1>12, <1>13
     DEF Next, DataStep, BaseStep

LEMMA LockStep ==
    ASSUME TypeOK, LockOK, [Next]_vars
    PROVE  LockOK'
<1>1. ASSUME NEW t \in Threads, OpenRequest(t) PROVE LockOK'
  BY <1>1 DEF OpenRequest, Goto, LockOK
<1>2. ASSUME NEW t \in Threads, LoadDataTag(t) PROVE LockOK'
  BY <1>2 DEF LoadDataTag, Goto, MapUnlocked, At, LockOK
<1>3. ASSUME NEW t \in Threads, StoreDataTag(t) PROVE LockOK'
  BY <1>3 DEF StoreDataTag, Goto, Return, LockOK
<1>4. ASSUME NEW t \in Threads, NEW g \in Tags, BeginClose(t, g) PROVE LockOK'
  BY <1>4 DEF BeginClose, Goto, MapUnlocked, At, LockOK
<1>5. ASSUME NEW t \in Threads, EndClose(t) PROVE LockOK'
  BY <1>5 DEF EndClose, Goto, Return, LockOK
<1>6. ASSUME NEW t \in Threads, NEW g \in Tags, BeginQuery(t, g) PROVE LockOK'
  BY <1>6 DEF BeginQuery, Goto, MapNotExclusive, At, LockOK
<1>7. ASSUME NEW t \in Threads, EndQuery(t) PROVE LockOK'
  BY <1>7 DEF EndQuery, Goto, Return, LockOK
<1>8. ASSUME NEW t \in Threads, LoadBaseTag(t) PROVE LockOK'
  BY <1>8 DEF LoadBaseTag, Goto, BaseUnlocked, At, LockOK
<1>9. ASSUME NEW t \in Threads, StoreBaseTag(t) PROVE LockOK'
  BY <1>9 DEF StoreBaseTag, Goto, Return, LockOK
<1>10. ASSUME NEW t \in Threads, NEW g \in Tags, CloseBase(t, g) PROVE LockOK'
  BY <1>10 DEF CloseBase, LockOK
<1>11. ASSUME NEW t \in Threads, NEW g \in Tags, BeginBaseQuery(t, g) PROVE LockOK'
  BY <1>11 DEF BeginBaseQuery, Goto, LockOK
<1>12. ASSUME NEW t \in Threads, EndBaseQuery(t) PROVE LockOK'
  BY <1>12 DEF EndBaseQuery, Goto, Return, LockOK
<1>13. CASE UNCHANGED vars
  BY <1>13 DEF vars, LockOK
<1>14. QED
  BY <1>1, <1>2, <1>3, <1>4, <1>5, <1>6, <1>7, <1>8, <1>9, <1>10, <1>11, <1>12, <1>13
     DEF Next, DataStep, BaseStep

LEMMA HandStep ==
    ASSUME TypeOK, LockOK, HandOK, MapOK, [Next]_vars
    PROVE  HandOK'
<1>1. ASSUME NEW t \in Threads, OpenRequest(t) PROVE HandOK'
  BY <1>1 DEF OpenRequest, Goto, TypeOK, HandOK, MapOK, Requests, NoRequest
<1>2. ASSUME NEW t \in Threads, LoadDataTag(t) PROVE HandOK'
  BY <1>2 DEF LoadDataTag, Goto, HandOK
<1>3. ASSUME NEW t \in Threads, StoreDataTag(t) PROVE HandOK'
  BY <1>3 DEF StoreDataTag, Goto, Return, TypeOK, HandOK
<1>4. ASSUME NEW t \in Threads, NEW g \in Tags, BeginClose(t, g) PROVE HandOK'
  BY <1>4 DEF BeginClose, Goto, shared, HandOK
<1>5. ASSUME NEW t \in Threads, EndClose(t) PROVE HandOK'
  BY <1>5
     DEF EndClose, Goto, Return, TypeOK, HandOK, MapOK, Requests, NoRequest
<1>6. ASSUME NEW t \in Threads, NEW g \in Tags, BeginQuery(t, g) PROVE HandOK'
  BY <1>6 DEF BeginQuery, Goto, shared, HandOK
<1>7. ASSUME NEW t \in Threads, EndQuery(t) PROVE HandOK'
  BY <1>7 DEF EndQuery, Goto, Return, shared, HandOK
<1>8. ASSUME NEW t \in Threads, LoadBaseTag(t) PROVE HandOK'
  BY <1>8 DEF LoadBaseTag, Goto, TypeOK, HandOK, Requests
<1>9. ASSUME NEW t \in Threads, StoreBaseTag(t) PROVE HandOK'
  BY <1>9 DEF StoreBaseTag, Goto, Return, HandOK
<1>10. ASSUME NEW t \in Threads, NEW g \in Tags, CloseBase(t, g) PROVE HandOK'
  BY <1>10 DEF CloseBase, HandOK
<1>11. ASSUME NEW t \in Threads, NEW g \in Tags, BeginBaseQuery(t, g) PROVE HandOK'
  BY <1>11 DEF BeginBaseQuery, Goto, shared, HandOK
<1>12. ASSUME NEW t \in Threads, EndBaseQuery(t) PROVE HandOK'
  BY <1>12 DEF EndBaseQuery, Goto, Return, shared, HandOK
<1>13. CASE UNCHANGED vars
  BY <1>13 DEF vars, shared, HandOK
<1>14. QED
  BY <1>1, <1>2, <1>3, <1>4, <1>5, <1>6, <1>7, <1>8, <1>9, <1>10, <1>11, <1>12, <1>13
     DEF Next, DataStep, BaseStep

LEMMA MapStep ==
    ASSUME TypeOK, LockOK, HandOK, MapOK, [Next]_vars
    PROVE  MapOK'
<1>1. ASSUME NEW t \in Threads, OpenRequest(t) PROVE MapOK'
  BY <1>1 DEF OpenRequest, Goto, MapOK
<1>2. ASSUME NEW t \in Threads, LoadDataTag(t) PROVE MapOK'
  BY <1>2 DEF LoadDataTag, Goto, MapOK
<1>3. ASSUME NEW t \in Threads, StoreDataTag(t) PROVE MapOK'
  BY <1>3 DEF StoreDataTag, Goto, Return, LockOK, HandOK, MapOK
<1>4. ASSUME NEW t \in Threads, NEW g \in Tags, BeginClose(t, g) PROVE MapOK'
  BY <1>4 DEF BeginClose, Goto, shared, TypeOK, MapOK
<1>5. ASSUME NEW t \in Threads, EndClose(t) PROVE MapOK'
  BY <1>5 DEF EndClose, Goto, Return, TypeOK, LockOK, MapOK
<1>6. ASSUME NEW t \in Threads, NEW g \in Tags, BeginQuery(t, g) PROVE MapOK'
  BY <1>6 DEF BeginQuery, Goto, shared, TypeOK, MapOK
<1>7. ASSUME NEW t \in Threads, EndQuery(t) PROVE MapOK'
  BY <1>7 DEF EndQuery, Goto, Return, shared, TypeOK, MapOK
<1>8. ASSUME NEW t \in Threads, LoadBaseTag(t) PROVE MapOK'
  BY <1>8 DEF LoadBaseTag, Goto, MapOK
<1>9. ASSUME NEW t \in Threads, StoreBaseTag(t) PROVE MapOK'
  BY <1>9 DEF StoreBaseTag, Goto, Return, MapOK
<1>10. ASSUME NEW t \in Threads, NEW g \in Tags, CloseBase(t, g) PROVE MapOK'
  BY <1>10 DEF CloseBase, MapOK
<1>11. ASSUME NEW t \in Threads, NEW g \in Tags, BeginBaseQuery(t, g) PROVE MapOK'
  BY <1>11 DEF BeginBaseQuery, Goto, shared, MapOK
<1>12. ASSUME NEW t \in Threads, EndBaseQuery(t) PROVE MapOK'
  BY <1>12 DEF EndBaseQuery, Goto, Return, shared, MapOK
<1>13. CASE UNCHANGED vars
  BY <1>13 DEF vars, shared, MapOK
<1>14. QED
  BY <1>1, <1>2, <1>3, <1>4, <1>5, <1>6, <1>7, <1>8, <1>9, <1>10, <1>11, <1>12, <1>13
     DEF Next, DataStep, BaseStep

LEMMA SourceStep ==
    ASSUME TypeOK, LockOK, SourceOK, [Next]_vars
    PROVE  SourceOK'
<1>1. ASSUME NEW t \in Threads, OpenRequest(t) PROVE SourceOK'
  BY <1>1 DEF OpenRequest, Goto, SourceOK
<1>2. ASSUME NEW t \in Threads, LoadDataTag(t) PROVE SourceOK'
  BY <1>2 DEF LoadDataTag, Goto, At, TypeOK, SourceOK
<1>3. ASSUME NEW t \in Threads, StoreDataTag(t) PROVE SourceOK'
  BY <1>3 DEF StoreDataTag, Goto, Return, TypeOK, LockOK, SourceOK, Tags
<1>4. ASSUME NEW t \in Threads, NEW g \in Tags, BeginClose(t, g) PROVE SourceOK'
  BY <1>4 DEF BeginClose, Goto, shared, SourceOK
<1>5. ASSUME NEW t \in Threads, EndClose(t) PROVE SourceOK'
  BY <1>5 DEF EndClose, Goto, Return, SourceOK
<1>6. ASSUME NEW t \in Threads, NEW g \in Tags, BeginQuery(t, g) PROVE SourceOK'
  BY <1>6 DEF BeginQuery, Goto, shared, SourceOK
<1>7. ASSUME NEW t \in Threads, EndQuery(t) PROVE SourceOK'
  BY <1>7 DEF EndQuery, Goto, Return, shared, SourceOK
<1>8. ASSUME NEW t \in Threads, LoadBaseTag(t) PROVE SourceOK'
  BY <1>8 DEF LoadBaseTag, Goto, At, TypeOK, SourceOK
<1>9. ASSUME NEW t \in Threads, StoreBaseTag(t) PROVE SourceOK'
  BY <1>9 DEF StoreBaseTag, Goto, Return, TypeOK, LockOK, SourceOK, Tags
<1>10. ASSUME NEW t \in Threads, NEW g \in Tags, CloseBase(t, g) PROVE SourceOK'
  BY <1>10 DEF CloseBase, SourceOK
<1>11. ASSUME NEW t \in Threads, NEW g \in Tags, BeginBaseQuery(t, g) PROVE SourceOK'
  BY <1>11 DEF BeginBaseQuery, Goto, shared, SourceOK
<1>12. ASSUME NEW t \in Threads, EndBaseQuery(t) PROVE SourceOK'
  BY <1>12 DEF EndBaseQuery, Goto, Return, shared, SourceOK
<1>13. CASE UNCHANGED vars
  BY <1>13 DEF vars, shared, SourceOK
<1>14. QED
  BY <1>1, <1>2, <1>3, <1>4, <1>5, <1>6, <1>7, <1>8, <1>9, <1>10, <1>11, <1>12, <1>13
     DEF Next, DataStep, BaseStep

LEMMA StorageKeptStep ==
    ASSUME TypeOK, StorageKept, [Next]_vars
    PROVE  StorageKept'
<1>1. ASSUME NEW t \in Threads, OpenRequest(t) PROVE StorageKept'
  BY <1>1 DEF OpenRequest, Goto, StorageKept, At
<1>2. ASSUME NEW t \in Threads, LoadDataTag(t) PROVE StorageKept'
  BY <1>2 DEF LoadDataTag, Goto, At, StorageKept
<1>3. ASSUME NEW t \in Threads, StoreDataTag(t) PROVE StorageKept'
  BY <1>3 DEF StoreDataTag, Goto, Return, StorageKept, At
<1>4. ASSUME NEW t \in Threads, NEW g \in Tags, BeginClose(t, g) PROVE StorageKept'
  BY <1>4 DEF BeginClose, Goto, shared, At, StorageKept
<1>5. ASSUME NEW t \in Threads, EndClose(t) PROVE StorageKept'
  BY <1>5 DEF EndClose, Goto, Return, StorageKept, At
<1>6. ASSUME NEW t \in Threads, NEW g \in Tags, BeginQuery(t, g) PROVE StorageKept'
  BY <1>6 DEF BeginQuery, Goto, shared, At, StorageKept
<1>7. ASSUME NEW t \in Threads, EndQuery(t) PROVE StorageKept'
  BY <1>7 DEF EndQuery, Goto, Return, shared, StorageKept, At
<1>8. ASSUME NEW t \in Threads, LoadBaseTag(t) PROVE StorageKept'
  BY <1>8 DEF LoadBaseTag, StorageKept
<1>9. ASSUME NEW t \in Threads, StoreBaseTag(t) PROVE StorageKept'
  BY <1>9 DEF StoreBaseTag, Goto, Return, StorageKept, At
<1>10. ASSUME NEW t \in Threads, NEW g \in Tags, CloseBase(t, g) PROVE StorageKept'
  BY <1>10 DEF CloseBase, At, StorageKept
<1>11. ASSUME NEW t \in Threads, NEW g \in Tags, BeginBaseQuery(t, g) PROVE StorageKept'
  BY <1>11 DEF BeginBaseQuery, shared, StorageKept
<1>12. ASSUME NEW t \in Threads, EndBaseQuery(t) PROVE StorageKept'
  BY <1>12 DEF EndBaseQuery, shared, StorageKept, At
<1>13. CASE UNCHANGED vars
  BY <1>13 DEF vars, shared, StorageKept, At
<1>14. QED
  BY <1>1, <1>2, <1>3, <1>4, <1>5, <1>6, <1>7, <1>8, <1>9, <1>10, <1>11, <1>12, <1>13
     DEF Next, DataStep, BaseStep

LEMMA ReachableStep ==
    ASSUME TypeOK, LockOK, MapOK, SourceOK, Reachable, [Next]_vars
    PROVE  Reachable'
<1>1. ASSUME NEW t \in Threads, OpenRequest(t) PROVE Reachable'
  BY <1>1 DEF OpenRequest, Goto, TypeOK, Reachable, InHand
<1>2. ASSUME NEW t \in Threads, LoadDataTag(t) PROVE Reachable'
  BY <1>2 DEF LoadDataTag, Goto, TypeOK, Reachable, InHand
<1>3. ASSUME NEW t \in Threads, StoreDataTag(t) PROVE Reachable'
  BY <1>3
     DEF StoreDataTag, Goto, Return, TypeOK, SourceOK, Reachable, InHand, Requests,
         NoRequest
<1>4. ASSUME NEW t \in Threads, NEW g \in Tags, BeginClose(t, g) PROVE Reachable'
  BY <1>4 DEF BeginClose, Goto, shared, Reachable, InHand
<1>5. ASSUME NEW t \in Threads, EndClose(t) PROVE Reachable'
  BY <1>5 DEF EndClose, Goto, Return, MapOK, Reachable, InHand
<1>6. ASSUME NEW t \in Threads, NEW g \in Tags, BeginQuery(t, g) PROVE Reachable'
  BY <1>6 DEF BeginQuery, Goto, shared, Reachable, InHand
<1>7. ASSUME NEW t \in Threads, EndQuery(t) PROVE Reachable'
  BY <1>7 DEF EndQuery, Goto, Return, shared, Reachable, InHand
<1>8. ASSUME NEW t \in Threads, LoadBaseTag(t) PROVE Reachable'
  BY <1>8 DEF LoadBaseTag, Goto, TypeOK, Reachable, InHand
<1>9. ASSUME NEW t \in Threads, StoreBaseTag(t) PROVE Reachable'
  BY <1>9 DEF StoreBaseTag, Goto, Return, Reachable, InHand
<1>10. ASSUME NEW t \in Threads, NEW g \in Tags, CloseBase(t, g) PROVE Reachable'
  BY <1>10 DEF CloseBase, Reachable, InHand
<1>11. ASSUME NEW t \in Threads, NEW g \in Tags, BeginBaseQuery(t, g) PROVE Reachable'
  BY <1>11 DEF BeginBaseQuery, Goto, shared, Reachable, InHand
<1>12. ASSUME NEW t \in Threads, EndBaseQuery(t) PROVE Reachable'
  BY <1>12 DEF EndBaseQuery, Goto, Return, shared, Reachable, InHand
<1>13. CASE UNCHANGED vars
  BY <1>13 DEF vars, shared, Reachable, InHand
<1>14. QED
  BY <1>1, <1>2, <1>3, <1>4, <1>5, <1>6, <1>7, <1>8, <1>9, <1>10, <1>11, <1>12, <1>13
     DEF Next, DataStep, BaseStep

-----------------------------------------------------------------------------
\* IInv is inductive.
THEOREM Invariance == Spec => []IInv
<1>1. IInv /\ [Next]_vars => IInv'
  BY TypeStep, LockStep, HandStep, MapStep, SourceStep, StorageKeptStep, ReachableStep
     DEF IInv
<1>2. QED
  BY <1>1, Initially, PTL DEF Spec

\* Every variable keeps its type.
THEOREM TypeCorrect == Spec => []TypeOK
<1>1. IInv => TypeOK
  BY DEF IInv
<1>2. QED
  BY <1>1, Invariance, PTL

\* A query's request is open while the query copies packets: CloseRequest waits for it.
THEOREM QueriesServed == Spec => []QueryServed
<1>1. IInv => QueryServed
  BY DEF IInv, MapOK, QueryServed
<1>2. QED
  BY <1>1, Invariance, PTL

\* An open data request that has returned can be closed by a tag, as far as no increments of
\* the two kinds overlapped.
THEOREM OpenReachable == Spec => []Reachable
<1>1. IInv => Reachable
  BY DEF IInv
<1>2. QED
  BY <1>1, Invariance, PTL

\* A base-station query has its storage to the end, although it uses it without the mutex:
\* nothing that requests and closes of either kind do takes it away.
THEOREM StorageAlwaysKept == Spec => []StorageKept
<1>1. IInv => StorageKept
  BY DEF IInv
<1>2. QED
  BY <1>1, Invariance, PTL

\* A tag never gets a second meaning, with the same reserve: only the two stores change
\* what a tag means, and the tag they store is the source's value.
THEOREM TagsAlwaysFresh == Spec => TagsFresh
<1> DEFINE Fresh == raced' \/ \A g \in Tags : g < source =>
                      /\ managers'[g] \in {managers[g], NoRequest}
                      /\ g \in baseTags' => g \in baseTags
<1>1. IInv /\ [Next]_vars => [Fresh]_vars
  <2> SUFFICES ASSUME IInv, Next PROVE Fresh
    OBVIOUS
  <2>1. ASSUME NEW t \in Threads, StoreDataTag(t) PROVE Fresh
    BY <2>1 DEF StoreDataTag, IInv, TypeOK, SourceOK
  <2>2. ASSUME NEW t \in Threads, StoreBaseTag(t) PROVE Fresh
    BY <2>2 DEF StoreBaseTag, IInv, TypeOK, SourceOK
  <2>3. ASSUME NEW t \in Threads, EndClose(t) PROVE Fresh
    BY <2>3 DEF EndClose, IInv
  <2>4. ASSUME managers' = managers, baseTags' \subseteq baseTags PROVE Fresh
    BY <2>4
  <2>5. QED
    BY <2>1, <2>2, <2>3, <2>4
       DEF Next, DataStep, BaseStep, OpenRequest, LoadDataTag, BeginClose, BeginQuery,
           EndQuery, LoadBaseTag, CloseBase, BeginBaseQuery, EndBaseQuery, shared
<1>2. QED
  BY <1>1, Invariance, PTL DEF TagsFresh, Spec
=============================================================================
