---------------------------- MODULE DoubleBuffer ----------------------------
(***************************************************************************)
(* The pair of packet buffers inside DeviceDataStorage and                 *)
(* BaseStationDataStorage.  One thread, the completion-queue thread, pushes *)
(* packets into the write buffer without any lock; it takes switch_mutex_  *)
(* exclusively only to exchange the two buffers.  Application threads keep *)
(* switch_mutex_ shared while they copy packets: a reader samples the two  *)
(* data_num when it has the lock, and copies slots below them until it     *)
(* releases it.                                                            *)
(*                                                                         *)
(* PushData is five steps, so that a reader can be anywhere between them:  *)
(* destroy the old members of a slot, fill it, data_num++, and, when the   *)
(* buffer is full, the exchange and the reset of data_num.                 *)
(***************************************************************************)
EXTENDS Integers, Sequences

CONSTANTS BufferSize,  \* buffer_size_
          Readers,     \* application threads that query the storage
          IndexLimit,  \* 2^32 in the code: packet_received_num_ is a uint32_t
          MaxPackets   \* bound: packets pushed

ASSUME BufferAssumption ==
    /\ BufferSize \in Nat \ {0}
    /\ IndexLimit \in Nat \ {0}
    /\ MaxPackets \in Nat

VARIABLES
    buf,       \* packet_buffer1_ and packet_buffer2_
    write,     \* write_buffer_: which buffer, and its data_num
    read,      \* read_buffer_
    received,  \* packets filled in so far; packet_received_num_ is this modulo IndexLimit
    wpc,       \* the place of the writer in PushData
    reader     \* the queries in progress

vars == <<buf, write, read, received, wpc, reader>>

Slots == 0..(BufferSize - 1)
Freed == -1    \* device_data of a slot that holds no packet
NotReading == [on |-> FALSE, wnum |-> 0, rnum |-> 0, seen |-> 0, stale |-> FALSE]

TypeOK ==
    /\ buf \in [1..2 -> [Slots -> [packet_idx : 0..(IndexLimit - 1), data : Nat \cup {Freed}]]]
    /\ write \in [ptr : 1..2, num : 0..BufferSize]
    /\ read \in [ptr : 1..2, num : 0..BufferSize]
    /\ received \in Nat
    /\ wpc \in {"idle", "fill", "publish", "switch", "reset"}
    /\ reader \in [Readers -> [on : BOOLEAN, wnum : 0..BufferSize, rnum : 0..BufferSize,
                               seen : Nat, stale : BOOLEAN]]

Init ==
    /\ buf = [b \in 1..2 |-> [i \in Slots |-> [packet_idx |-> 0, data |-> Freed]]]
    /\ write = [ptr |-> 2, num |-> 0]
    /\ read = [ptr |-> 1, num |-> 0]
    /\ received = 0
    /\ wpc = "idle"
    /\ reader = [r \in Readers |-> NotReading]

\* The packets whose data_num++ has been done.
Published == IF wpc = "publish" THEN received - 1 ELSE received

-----------------------------------------------------------------------------
(* Slips: what an action below would be with a plausible mistake.          *)

\* packet_idx is not cut to 32 bits.
FillWide ==
    /\ wpc = "fill"
    /\ buf' = [buf EXCEPT ![write.ptr][write.num] = [packet_idx |-> received, data |-> received]]
    /\ received' = received + 1
    /\ wpc' = "publish"
    /\ UNCHANGED <<write, read, reader>>

\* The buffers are exchanged under a reader.
SwitchAnytime ==
    /\ wpc = "switch"
    /\ write' = read /\ read' = write
    /\ wpc' = "reset"
    /\ UNCHANGED <<buf, received, reader>>

\* The pointers are exchanged, data_num are not.
SwitchPointersOnly ==
    /\ wpc = "switch" /\ \A r \in Readers : ~reader[r].on
    /\ write' = [write EXCEPT !.ptr = read.ptr] /\ read' = [read EXCEPT !.ptr = write.ptr]
    /\ wpc' = "reset"
    /\ UNCHANGED <<buf, received, reader>>

\* write_buffer_.data_num is not reset.
NoReset == wpc = "reset" /\ wpc' = "idle" /\ UNCHANGED <<buf, write, read, received, reader>>

-----------------------------------------------------------------------------
(* PushData.                                                               *)

\* DestroyDevicePacketMembers on the next slot.  The other branch, for a full write
\* buffer, is never taken (WriteInRange).
Destroy ==
    /\ wpc = "idle" /\ received < MaxPackets
    /\ write.num < BufferSize
    /\ buf' = [buf EXCEPT ![write.ptr][write.num].data = Freed]
    /\ wpc' = "fill"
    /\ UNCHANGED <<write, read, received, reader>>

Fill ==
    /\ wpc = "fill"
    /\ buf' = [buf EXCEPT ![write.ptr][write.num] =
                  [packet_idx |-> received % IndexLimit, data |-> received]]
    /\ received' = received + 1
    /\ wpc' = "publish"
    /\ UNCHANGED <<write, read, reader>>

Publish ==
    /\ wpc = "publish"
    /\ write' = [write EXCEPT !.num = @ + 1]
    /\ wpc' = IF write.num + 1 = BufferSize THEN "switch" ELSE "idle"
    /\ UNCHANGED <<buf, read, received, reader>>

\* SwitchBufferPointer: the exclusive lock waits for every reader.
Switch ==
    /\ wpc = "switch" /\ \A r \in Readers : ~reader[r].on
    /\ write' = read /\ read' = write
    /\ wpc' = "reset"
    /\ UNCHANGED <<buf, received, reader>>

\* write_buffer_.data_num.store(0), after switch_mutex_ has been released.
Reset ==
    /\ wpc = "reset"
    /\ write' = [write EXCEPT !.num = 0]
    /\ wpc' = "idle"
    /\ UNCHANGED <<buf, read, received, reader>>

-----------------------------------------------------------------------------
(* A query: shared lock and samples, then copies, then unlock.             *)

\* seen and stale are not in the code: what had been published when the query sampled
\* data_num, and whether it sampled that of a buffer between Switch and Reset.
BeginQuery(r) ==
    /\ ~reader[r].on
    /\ reader' = [reader EXCEPT ![r] =
          [on |-> TRUE, wnum |-> write.num, rnum |-> read.num,
           seen |-> Published, stale |-> wpc = "reset" /\ write.num # 0]]
    /\ UNCHANGED <<buf, write, read, received, wpc>>

EndQuery(r) ==
    /\ reader[r].on
    /\ reader' = [reader EXCEPT ![r] = NotReading]
    /\ UNCHANGED <<buf, write, read, received, wpc>>

\* What the copying code of a query works on.
View(r) == [w |-> buf[write.ptr], r |-> buf[read.ptr],
            wnum |-> reader[r].wnum, rnum |-> reader[r].rnum]

PushData == Destroy \/ Fill \/ Publish \/ Switch \/ Reset
Next == PushData \/ \E r \in Readers : BeginQuery(r) \/ EndQuery(r)
Spec == Init /\ [][Next]_vars

-----------------------------------------------------------------------------
(* Properties.                                                             *)

\* The queries that sampled the counts of consistent buffers.
Current == {r \in Readers : reader[r].on /\ ~reader[r].stale}

\* PushData stays inside the buffer, and the branch for a full write buffer, which would
\* fill slot 0 of a buffer a reader may be copying, is dead.
WriteInRange == wpc \in {"idle", "fill", "publish"} => write.num < BufferSize

\* The writer destroys and fills no slot that a query which sampled consistent counts
\* may be copying, although it takes no lock to do it.
NoRace ==
    \A r \in Current : wpc \in {"fill", "publish"} => write.num >= reader[r].wnum

\* Whatever the writer has done since a query sampled its counts, the slots it copies
\* are, read buffer first, the consecutive last packets of those published when it
\* sampled, and at least BufferSize of them once that many exist.
RetainedConsecutive ==
    \A r \in Current :
        LET q == reader[r]
            first == q.seen - q.wnum - q.rnum
            whole(p, k) == p.data = k /\ p.packet_idx = k % IndexLimit
        IN  /\ first >= 0
            /\ q.wnum + q.rnum >= BufferSize \/ first = 0
            /\ \A i \in 0..(q.rnum - 1) : whole(buf[read.ptr][i], first + i)
            /\ \A i \in 0..(q.wnum - 1) : whole(buf[write.ptr][i], first + q.rnum + i)

-----------------------------------------------------------------------------
(* What the storage implements.                                            *)

\* The packets a query may copy now, by their place among all that were published.
Readable(r) ==
    LET q == reader[r]
        first == q.seen - q.wnum - q.rnum
    IN  [i \in first..(q.seen - 1) |->
           IF i < first + q.rnum THEN buf[read.ptr][i - first]
           ELSE buf[write.ptr][i - first - q.rnum]]

Window(r) ==
    IF ~reader[r].on THEN <<"idle">>
    ELSE IF reader[r].stale THEN <<"torn">>
    ELSE <<"sees", Readable(r)>>

Log == INSTANCE PacketLog WITH
           Retained <- BufferSize,
           length <- Published,
           window <- [r \in Readers |-> Window(r)]

\* The storage is such a log: every step of PushData and of a query is one of the log's
\* or changes nothing there; packets come one by one and in order, and what a query sees
\* neither changes nor disappears before it ends, although the writer goes on.
ImplementsLog == Log!LogSpec

-----------------------------------------------------------------------------
(* Responses, and what the queries of both storages promise.               *)

Response(state, packets) == [state |-> state, packets |-> packets]
NoData == Response("kNoData", <<>>)

\* The slots from..to-1 of a buffer, and those of the read then the write buffer.
Copy(b, from, to) == [i \in 1..(to - from) |-> b[from + i - 1]]
CopyAll(v) == Copy(v.r, 0, v.rnum) \o Copy(v.w, 0, v.wnum)

\* The packets a..b-1 of the stream.
Stretch(a, b) == [i \in 1..(b - a) |-> [packet_idx |-> (a + i - 1) % IndexLimit, data |-> a + i - 1]]

\* "Return the most recent packet."
LatestOK(answer, n) ==
    answer = IF n = 0 THEN NoData ELSE Response("kSuccess", Stretch(n - 1, n))

\* As many packets as the storage must still have.
Enough(k, n) == k >= n \/ k >= BufferSize

\* "Return the most recent <count> packets."
CountOK(answer, n, count) ==
    LET k == Len(answer.packets) IN
    /\ answer.packets = Stretch(n - k, n) /\ k <= count
    /\ answer.state = IF k = 0 THEN "kNoData" ELSE IF k = count THEN "kSuccess" ELSE "kPartialData"
    /\ k = count \/ Enough(k, n)

\* "Return all packets starting from start_idx."
SinceOK(answer, n, start) ==
    LET k == Len(answer.packets) IN
    IF start >= n THEN answer = NoData
    ELSE /\ answer.packets = Stretch(n - k, n) /\ n - k >= start
         /\ answer.state = IF n - k = start THEN "kSuccess" ELSE "kPartialData"
         /\ n - k = start \/ Enough(k, n)
=============================================================================
