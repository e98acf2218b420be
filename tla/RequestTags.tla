---------------------------- MODULE RequestTags ----------------------------
(***************************************************************************)
(* ClientContext::impl: the numbers an application holds for its requests. *)
(* Data requests are in data_managers_ under data_manager_map_mutex_,      *)
(* base-station requests in base_station_request_list_ under               *)
(* base_station_request_list_mutex_; both kinds take their tags from one   *)
(* source.  Any number of application threads call at once.                *)
(*                                                                         *)
(* Incrementing the source is a load and a store: no mutex orders those of *)
(* the two kinds, a data race whose outcome is one of the interleavings.   *)
(* What ClientManager does in a request or a close is StreamRegistry's and *)
(* ClientLifecycle's concern; here a request is open or closed.            *)
(***************************************************************************)
EXTENDS Naturals

CONSTANTS Threads,     \* application threads
          MaxRequests  \* bound: requests, and tags: the source never exceeds it by more than one

ASSUME TagsAssumption == MaxRequests \in Nat

VARIABLES
    source,       \* data_managers_tag_source_
    managers,     \* data_managers_: the request of a tag
    baseTags,     \* base_station_request_list_
    storage,      \* base_station_data_storage_ # nullptr
    requests,     \* requests made so far, of both kinds
    opened,       \* the data requests among them
    closed,       \* those that ClientManager has closed
    pc, tag, req, \* a thread's place, its tag and its data request
    raced         \* auxiliary: increments of the two kinds have overlapped

shared == <<source, managers, baseTags, storage, requests, opened, closed, raced>>
vars == <<shared, pc, tag, req>>

Tags == 1..MaxRequests
Requests == 1..MaxRequests
NoRequest == 0
NoTag == 0

Places == {"idle", "opened", "dataTag", "baseTag", "closing", "query", "baseQuery"}

TypeOK ==
    /\ source \in 1..(MaxRequests + 1)
    /\ managers \in [Tags -> Requests \cup {NoRequest}]
    /\ baseTags \in SUBSET Tags
    /\ storage \in BOOLEAN
    /\ requests \in 0..MaxRequests
    /\ opened \in SUBSET Requests /\ closed \in SUBSET opened
    /\ pc \in [Threads -> Places]
    /\ tag \in [Threads -> Tags \cup {NoTag}]
    /\ req \in [Threads -> Requests \cup {NoRequest}]
    /\ raced \in BOOLEAN

Init ==
    /\ source = 1
    /\ managers = [g \in Tags |-> NoRequest]
    /\ baseTags = {} /\ storage = FALSE
    /\ requests = 0 /\ opened = {} /\ closed = {}
    /\ pc = [t \in Threads |-> "idle"]
    /\ tag = [t \in Threads |-> NoTag]
    /\ req = [t \in Threads |-> NoRequest]
    /\ raced = FALSE

-----------------------------------------------------------------------------
At(places) == \E t \in Threads : pc[t] \in places

\* The mutexes: data_manager_map_mutex_ is shared by queries.
MapUnlocked == ~At({"dataTag", "closing", "query"})
MapNotExclusive == ~At({"dataTag", "closing"})
BaseUnlocked == ~At({"baseTag"})

Goto(t, place, g, r) ==
    /\ pc' = [pc EXCEPT ![t] = place]
    /\ tag' = [tag EXCEPT ![t] = g]
    /\ req' = [req EXCEPT ![t] = r]

Return(t) == Goto(t, "idle", NoTag, NoRequest)

-----------------------------------------------------------------------------
(* Slips.                                                                  *)

\* CloseRequest with the map locked like a query's.
BeginCloseShared(t, g) ==
    /\ pc[t] = "idle" /\ MapNotExclusive /\ managers[g] # NoRequest
    /\ Goto(t, "closing", g, managers[g])
    /\ UNCHANGED shared

\* The tag taken before the map is locked.
LoadDataTagUnlocked(t) ==
    /\ pc[t] = "opened" /\ source \in Tags
    /\ Goto(t, "dataTag", source, req[t])
    /\ raced' = (raced \/ At({"baseTag"}))
    /\ UNCHANGED <<source, managers, baseTags, storage, requests, opened, closed>>

\* A closed tag is given out again.
EndCloseReuse(t) ==
    /\ pc[t] = "closing"
    /\ source' = tag[t]
    /\ closed' = closed \cup {req[t]}
    /\ managers' = [managers EXCEPT ![tag[t]] = NoRequest]
    /\ Return(t)
    /\ UNCHANGED <<baseTags, storage, requests, opened, raced>>

\* The last close drops the storage.
CloseBaseReset(t, g) ==
    /\ pc[t] = "idle" /\ BaseUnlocked
    /\ baseTags' = baseTags \ {g}
    /\ storage' = (baseTags' # {})
    /\ UNCHANGED <<source, managers, requests, opened, closed, raced, pc, tag, req>>

\* The tag is the source's new value.
StoreBaseTagNext(t) ==
    /\ pc[t] = "baseTag"
    /\ source' = tag[t] + 1
    /\ baseTags' = baseTags \cup {source'}
    /\ Return(t)
    /\ UNCHANGED <<managers, storage, requests, opened, closed, raced>>

-----------------------------------------------------------------------------
(* Data requests.                                                          *)

\* RequestDeviceData and RequestDataFrame: ClientManager opens the request first.
OpenRequest(t) ==
    /\ pc[t] = "idle" /\ requests < MaxRequests
    /\ requests' = requests + 1
    /\ opened' = opened \cup {requests'}
    /\ Goto(t, "opened", NoTag, requests')
    /\ UNCHANGED <<source, managers, baseTags, storage, closed, raced>>

\* Then its tag, under the map's mutex.
LoadDataTag(t) ==
    /\ pc[t] = "opened" /\ MapUnlocked /\ source \in Tags
    /\ Goto(t, "dataTag", source, req[t])
    /\ raced' = (raced \/ At({"baseTag"}))
    /\ UNCHANGED <<source, managers, baseTags, storage, requests, opened, closed>>

StoreDataTag(t) ==
    /\ pc[t] = "dataTag"
    /\ source' = tag[t] + 1
    /\ managers' = [managers EXCEPT ![tag[t]] = req[t]]
    /\ Return(t)
    /\ UNCHANGED <<baseTags, storage, requests, opened, closed, raced>>

\* CloseRequest of a tag that is there: ClientManager closes, then the tag goes.
BeginClose(t, g) ==
    /\ pc[t] = "idle" /\ MapUnlocked /\ managers[g] # NoRequest
    /\ Goto(t, "closing", g, managers[g])
    /\ UNCHANGED shared

EndClose(t) ==
    /\ pc[t] = "closing"
    /\ closed' = closed \cup {req[t]}
    /\ managers' = [managers EXCEPT ![tag[t]] = NoRequest]
    /\ Return(t)
    /\ UNCHANGED <<source, baseTags, storage, requests, opened, raced>>

\* The queries and the registration of callbacks use the manager with the map locked.
BeginQuery(t, g) ==
    /\ pc[t] = "idle" /\ MapNotExclusive /\ managers[g] # NoRequest
    /\ Goto(t, "query", g, managers[g])
    /\ UNCHANGED shared

EndQuery(t) ==
    /\ pc[t] = "query"
    /\ Return(t)
    /\ UNCHANGED shared

-----------------------------------------------------------------------------
(* Base-station requests.                                                  *)

\* The first request creates the storage.
LoadBaseTag(t) ==
    /\ pc[t] = "idle" /\ BaseUnlocked /\ requests < MaxRequests /\ source \in Tags
    /\ requests' = requests + 1
    /\ storage' = TRUE
    /\ Goto(t, "baseTag", source, NoRequest)
    /\ raced' = (raced \/ At({"dataTag"}))
    /\ UNCHANGED <<source, managers, baseTags, opened, closed>>

StoreBaseTag(t) ==
    /\ pc[t] = "baseTag"
    /\ source' = tag[t] + 1
    /\ baseTags' = baseTags \cup {tag[t]}
    /\ Return(t)
    /\ UNCHANGED <<managers, storage, requests, opened, closed, raced>>

\* ClientLifecycle says what becomes of the storage when the last tag is closed.
CloseBase(t, g) ==
    /\ pc[t] = "idle" /\ BaseUnlocked
    /\ baseTags' = baseTags \ {g}
    /\ UNCHANGED <<source, managers, storage, requests, opened, closed, raced, pc, tag, req>>

\* A query checks tag and storage under the mutex and uses the storage after releasing it.
BeginBaseQuery(t, g) ==
    /\ pc[t] = "idle" /\ BaseUnlocked /\ storage /\ g \in baseTags
    /\ Goto(t, "baseQuery", g, NoRequest)
    /\ UNCHANGED shared

EndBaseQuery(t) ==
    /\ pc[t] = "baseQuery"
    /\ Return(t)
    /\ UNCHANGED shared

-----------------------------------------------------------------------------
DataStep(t) ==
    \/ OpenRequest(t) \/ LoadDataTag(t) \/ StoreDataTag(t)
    \/ EndClose(t) \/ EndQuery(t)
    \/ \E g \in Tags : BeginClose(t, g) \/ BeginQuery(t, g)

BaseStep(t) ==
    \/ LoadBaseTag(t) \/ StoreBaseTag(t) \/ EndBaseQuery(t)
    \/ \E g \in Tags : CloseBase(t, g) \/ BeginBaseQuery(t, g)

Next == \E t \in Threads : DataStep(t) \/ BaseStep(t)

Spec == Init /\ [][Next]_vars

-----------------------------------------------------------------------------
(* Properties.                                                             *)

\* A query works on an open request: none is closed, and so none of its storages destroyed,
\* while another thread copies its packets.
QueryServed ==
    \A t \in Threads :
        pc[t] = "query" => managers[tag[t]] = req[t] /\ req[t] \notin closed

InHand(r) == \E t \in Threads : pc[t] \in {"opened", "dataTag"} /\ req[t] = r

\* A data request that is open and has returned has a tag by which it can be closed, unless
\* increments of the two kinds overlapped: then another tag may have taken its place, and
\* its streams deliver for ever.
Reachable ==
    raced \/ \A r \in opened \ closed : InHand(r) \/ \E g \in Tags : managers[g] = r

\* "Once called, the tag can no longer be used" (client_context.h:117): a number given out
\* as a tag never gets a second meaning, of either kind, under the same reserve.
TagsFresh ==
    [][raced' \/ \A g \in Tags : g < source =>
           /\ managers'[g] \in {managers[g], NoRequest}
           /\ g \in baseTags' => g \in baseTags]_vars

\* A base-station query uses the storage after the mutex under which it found it was
\* released: the storage is still there, whoever closes requests meanwhile.
StorageKept == At({"baseQuery"}) => storage

=============================================================================
