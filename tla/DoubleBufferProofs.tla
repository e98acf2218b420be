------------------------- MODULE DoubleBufferProofs -------------------------
(***************************************************************************)
(* Theorems about DoubleBuffer, for any size of the buffers, any number of *)
(* readers and any number of packets.                                      *)
(***************************************************************************)
EXTENDS DoubleBuffer, TLAPS

-----------------------------------------------------------------------------
(* The inductive invariant.                                                *)

\* The packets in the write buffer: between Switch and Reset its data_num is that of
\* the other buffer.
Written == IF wpc = "reset" THEN 0 ELSE write.num

Whole(p, k) == p.data = k /\ p.packet_idx = k % IndexLimit

\* The counts: the read buffer is full or has never been used, and the packets before
\* those of the two buffers number Published - Written - read.num.
CountsOK ==
    /\ read.ptr # write.ptr
    /\ WriteInRange
    /\ wpc = "publish" => received >= 1
    /\ wpc = "switch" => write.num = BufferSize
    /\ wpc = "reset" => read.num = BufferSize
    /\ read.num = BufferSize \/ (read.num = 0 /\ Published = Written)
    /\ Published >= Written + read.num

\* The slots below the counts hold consecutive packets, and a filled slot the next one.
SlotsOK ==
    /\ \A i \in Slots : i < Written =>
         Whole(buf[write.ptr][i], Published - Written + i)
    /\ \A i \in Slots : i < read.num =>
         Whole(buf[read.ptr][i], Published - Written - read.num + i)
    /\ wpc = "publish" => Whole(buf[write.ptr][write.num], received - 1)

\* A query that sampled consistent counts still has the buffers it sampled.
ReadersOK ==
    \A r \in Current :
        /\ reader[r].rnum = read.num
        /\ reader[r].wnum <= Written
        /\ reader[r].seen - reader[r].wnum = Published - Written

\* The packets that are not in the write buffer fill whole buffers, and a count that is not
\* reset yet is that of a buffer that was filled before the one just exchanged.
WholeBuffers == \E k \in Nat : Published - Written = k * BufferSize
ExchangeOK ==
    /\ WholeBuffers
    /\ wpc = "reset" /\ write.num # 0 => Published >= 2 * BufferSize

IInv == TypeOK /\ CountsOK /\ SlotsOK /\ ReadersOK /\ ExchangeOK

-----------------------------------------------------------------------------
\* The index of a packet is in range.
LEMMA IndexRange == \A n \in Nat : n % IndexLimit \in 0..(IndexLimit - 1)
  BY BufferAssumption

\* The invariant holds of the empty storage.
LEMMA InvariantInit == Init => IInv
<1> SUFFICES ASSUME Init
             PROVE  IInv
  OBVIOUS
<1>1. TypeOK
  BY BufferAssumption DEF Init, TypeOK, Slots, Freed, NotReading
<1>2. CountsOK
  BY BufferAssumption DEF Init, CountsOK, WriteInRange, Published, Written
<1>3. SlotsOK
  BY BufferAssumption DEF Init, SlotsOK, Slots, Written
<1>4. ReadersOK
  BY DEF Init, ReadersOK, Current, NotReading
<1>5. ExchangeOK
  <2>1. Published - Written = 0 * BufferSize /\ wpc # "reset"
    BY BufferAssumption DEF Init, Published, Written
  <2>2. QED
    BY <2>1 DEF ExchangeOK, WholeBuffers
<1>6. QED
  BY <1>1, <1>2, <1>3, <1>4, <1>5 DEF IInv

\* Every step keeps the types.
LEMMA TypeStep == TypeOK /\ CountsOK /\ [Next]_vars => TypeOK'
<1> SUFFICES ASSUME TypeOK, CountsOK, [Next]_vars
             PROVE  TypeOK'
  OBVIOUS
<1> USE BufferAssumption DEF TypeOK
<1> DEFINE Packet == [packet_idx : 0..(IndexLimit - 1), data : Nat \cup {Freed}]
<1>w. wpc \in {"idle", "fill"} => write.num \in Slots
  BY DEF CountsOK, WriteInRange, Slots
<1>p. ASSUME NEW p \in Packet, buf' = [buf EXCEPT ![write.ptr][write.num] = p]
      PROVE  buf' \in [1..2 -> [Slots -> Packet]]
  BY <1>p
<1>1. CASE Destroy
  <2>1. buf' = [buf EXCEPT ![write.ptr][write.num] = [@ EXCEPT !.data = Freed]]
    BY <1>1 DEF Destroy
  <2>2. [buf[write.ptr][write.num] EXCEPT !.data = Freed] \in Packet
    BY <1>1, <1>w DEF Destroy
  <2>3. buf' \in [1..2 -> [Slots -> Packet]]
    BY <2>1, <2>2, <1>p
  <2>4. QED
    BY <1>1, <2>3 DEF Destroy
<1>2. CASE Fill
  <2>1. [packet_idx |-> received % IndexLimit, data |-> received] \in Packet
    BY IndexRange
  <2>2. buf' \in [1..2 -> [Slots -> Packet]]
    BY <1>2, <2>1, <1>p DEF Fill
  <2>3. QED
    BY <1>2, <2>2 DEF Fill
<1>3. CASE Publish
  BY <1>3 DEF Publish, CountsOK, WriteInRange
<1>4. CASE Switch
  BY <1>4 DEF Switch
<1>5. CASE Reset
  BY <1>5 DEF Reset
<1>6. ASSUME NEW r \in Readers, BeginQuery(r)
      PROVE  TypeOK'
  <2>1. Published \in Nat
    BY DEF Published, CountsOK
  <2>2. QED
    BY <1>6, <2>1 DEF BeginQuery
<1>7. ASSUME NEW r \in Readers, EndQuery(r)
      PROVE  TypeOK'
  BY <1>7 DEF EndQuery, NotReading
<1>8. CASE UNCHANGED vars
  BY <1>8 DEF vars
<1>9. QED
  BY <1>1, <1>2, <1>3, <1>4, <1>5, <1>6, <1>7, <1>8 DEF Next, PushData

\* Every step keeps the counts consistent.
LEMMA CountsStep == TypeOK /\ CountsOK /\ [Next]_vars => CountsOK'
<1> SUFFICES ASSUME TypeOK, CountsOK, [Next]_vars
             PROVE  CountsOK'
  OBVIOUS
<1> USE BufferAssumption DEF TypeOK, CountsOK, WriteInRange, Published, Written
<1>1. CASE Destroy
  BY <1>1 DEF Destroy
<1>2. CASE Fill
  BY <1>2 DEF Fill
<1>3. CASE Publish
  BY <1>3 DEF Publish
<1>4. CASE Switch
  BY <1>4 DEF Switch
<1>5. CASE Reset
  BY <1>5 DEF Reset
<1>6. CASE \E r \in Readers : BeginQuery(r) \/ EndQuery(r)
  BY <1>6 DEF BeginQuery, EndQuery
<1>7. CASE UNCHANGED vars
  BY <1>7 DEF vars
<1>8. QED
  BY <1>1, <1>2, <1>3, <1>4, <1>5, <1>6, <1>7 DEF Next, PushData

\* Every step keeps the packets in order.
LEMMA SlotsStep == TypeOK /\ CountsOK /\ SlotsOK /\ [Next]_vars => SlotsOK'
<1> SUFFICES ASSUME TypeOK, CountsOK, SlotsOK, [Next]_vars
             PROVE  SlotsOK'
  OBVIOUS
<1> USE BufferAssumption DEF Published, Written
<1>t. /\ buf \in [1..2 -> [Slots -> [packet_idx : 0..(IndexLimit - 1), data : Nat \cup {Freed}]]]
      /\ write \in [ptr : 1..2, num : 0..BufferSize] /\ read \in [ptr : 1..2, num : 0..BufferSize]
      /\ received \in Nat
  BY DEF TypeOK
<1>c. read.ptr # write.ptr /\ (wpc \in {"idle", "fill", "publish"} => write.num < BufferSize)
  BY DEF CountsOK, WriteInRange
<1>1. CASE Destroy
  BY <1>1, <1>t, <1>c DEF Destroy, SlotsOK, Slots
<1>2. CASE Fill
  <2>1. /\ write.num \in Slots /\ received' - 1 = received
        /\ buf' = [buf EXCEPT ![write.ptr][write.num] =
                      [packet_idx |-> received % IndexLimit, data |-> received]]
        /\ UNCHANGED <<read, write>> /\ wpc = "fill" /\ wpc' = "publish"
    BY <1>2, <1>t, <1>c DEF Fill, Slots
  <2>2. Whole(buf'[write.ptr][write.num], received' - 1)
    <3>1. buf'[write.ptr][write.num] = [packet_idx |-> received % IndexLimit, data |-> received]
      BY <2>1, <1>t
    <3>2. QED
      BY <2>1, <3>1 DEF Whole
  <2>3. /\ \A i \in Slots : i # write.num => buf'[write.ptr][i] = buf[write.ptr][i]
        /\ buf'[read.ptr] = buf[read.ptr]
    BY <2>1, <1>t, <1>c
  <2>4. Published' = Published /\ Written' = Written /\ Written = write.num
    BY <2>1
  <2>5. \A i \in Slots : i < Written => Whole(buf'[write.ptr][i], Published - Written + i)
    BY <2>3, <2>4, <1>t DEF SlotsOK, Slots
  <2>6. \A i \in Slots : i < read.num => Whole(buf'[read.ptr][i], Published - Written - read.num + i)
    BY <2>3 DEF SlotsOK
  <2>7. QED
    BY <2>1, <2>2, <2>4, <2>5, <2>6 DEF SlotsOK
<1>3. CASE Publish
  <2>1. /\ wpc = "publish" /\ wpc' \in {"switch", "idle"} /\ UNCHANGED <<buf, read, received>>
        /\ write'.num = write.num + 1 /\ write'.ptr = write.ptr
    BY <1>3, <1>t DEF Publish
  <2>2. /\ Published' = received /\ Published = received - 1
        /\ Written' = write.num + 1 /\ Written = write.num
    BY <2>1
  <2>3. Published' - Written' = Published - Written
    <3>1. Published' - Written' = received - (write.num + 1)
      BY <2>2
    <3>2. Published - Written = (received - 1) - write.num
      BY <2>2
    <3>3. QED
      BY <3>1, <3>2, <1>t
  <2>4. ASSUME NEW i \in Slots, i < Written'
        PROVE  Whole(buf[write.ptr][i], Published - Written + i)
    <3>1. CASE i < Written
      BY <3>1 DEF SlotsOK
    <3>2. CASE i = write.num
      <4>1. Published - Written + i = received - 1
        BY <2>2, <3>2, <1>t
      <4>2. QED
        BY <2>1, <3>2, <4>1 DEF SlotsOK
    <3>3. QED
      BY <2>2, <2>4, <3>1, <3>2, <1>t DEF Slots
  <2>5. QED
    BY <2>1, <2>3, <2>4 DEF SlotsOK
<1>4. CASE Switch
  BY <1>4, <1>t, <1>c DEF Switch, SlotsOK, Slots, CountsOK
<1>5. CASE Reset
  BY <1>5, <1>t DEF Reset, SlotsOK
<1>6. CASE \E r \in Readers : BeginQuery(r) \/ EndQuery(r)
  BY <1>6 DEF BeginQuery, EndQuery, SlotsOK
<1>7. CASE UNCHANGED vars
  BY <1>7 DEF vars, SlotsOK
<1>8. QED
  BY <1>1, <1>2, <1>3, <1>4, <1>5, <1>6, <1>7 DEF Next, PushData

\* No step takes the buffers from under a query that sampled consistent counts.
LEMMA ReadersStep == TypeOK /\ CountsOK /\ ReadersOK /\ [Next]_vars => ReadersOK'
<1> SUFFICES ASSUME TypeOK, CountsOK, ReadersOK, [Next]_vars
             PROVE  ReadersOK'
  OBVIOUS
<1> USE BufferAssumption DEF ReadersOK, Current, Published, Written
<1>t. /\ write \in [ptr : 1..2, num : 0..BufferSize] /\ read \in [ptr : 1..2, num : 0..BufferSize]
      /\ received \in Nat
      /\ reader \in [Readers -> [on : BOOLEAN, wnum : 0..BufferSize, rnum : 0..BufferSize,
                                 seen : Nat, stale : BOOLEAN]]
  BY DEF TypeOK
<1>1. CASE Destroy
  BY <1>1, <1>t DEF Destroy
<1>2. CASE Fill
  BY <1>2, <1>t DEF Fill
<1>3. CASE Publish
  BY <1>3, <1>t DEF Publish, CountsOK
<1>4. CASE Switch
  BY <1>4, <1>t DEF Switch
<1>5. CASE Reset
  BY <1>5, <1>t DEF Reset
<1>6. ASSUME NEW r \in Readers, BeginQuery(r)
      PROVE  ReadersOK'
  <2>1. /\ reader' = [reader EXCEPT ![r] =
               [on |-> TRUE, wnum |-> write.num, rnum |-> read.num,
                seen |-> Published, stale |-> wpc = "reset" /\ write.num # 0]]
        /\ UNCHANGED <<write, read, received, wpc>>
    BY <1>6 DEF BeginQuery
  <2>2. ~reader'[r].stale => write.num = Written
    BY <2>1, <1>t
  <2>3. \A s \in Readers \ {r} : reader'[s] = reader[s]
    BY <2>1, <1>t
  <2>4. reader'[r].rnum = read.num /\ reader'[r].wnum = write.num /\ reader'[r].seen = Published
    BY <2>1, <1>t
  <2>5. QED
    BY <2>1, <2>2, <2>3, <2>4, <1>t DEF CountsOK
<1>7. ASSUME NEW r \in Readers, EndQuery(r)
      PROVE  ReadersOK'
  BY <1>7, <1>t DEF EndQuery, NotReading
<1>8. CASE UNCHANGED vars
  BY <1>8 DEF vars
<1>9. QED
  BY <1>1, <1>2, <1>3, <1>4, <1>5, <1>6, <1>7, <1>8 DEF Next, PushData

\* Every step keeps the buffers whole: an exchange adds one to their number.
LEMMA ExchangeStep == TypeOK /\ CountsOK /\ ExchangeOK /\ [Next]_vars => ExchangeOK'
<1> SUFFICES ASSUME TypeOK, CountsOK, ExchangeOK, [Next]_vars
             PROVE  ExchangeOK'
  OBVIOUS
<1> DEFINE Same == /\ Published' - Written' = Published - Written
                   /\ wpc' # "reset" \/ (wpc = "reset" /\ UNCHANGED <<write, received>>)
<1>t. /\ write \in [ptr : 1..2, num : 0..BufferSize] /\ read \in [ptr : 1..2, num : 0..BufferSize]
      /\ received \in Nat /\ BufferSize \in Nat \ {0}
  BY BufferAssumption DEF TypeOK
<1>s. Same => ExchangeOK'
  BY DEF ExchangeOK, WholeBuffers, Published
<1>1. CASE Destroy
  BY <1>1, <1>s, <1>t DEF Destroy, Published, Written
<1>2. CASE Fill
  BY <1>2, <1>s, <1>t DEF Fill, Published, Written
<1>3. CASE Publish
  BY <1>3, <1>s, <1>t DEF Publish, Published, Written
<1>4. CASE Switch
  <2>1. /\ wpc = "switch" /\ wpc' = "reset" /\ UNCHANGED received
        /\ write.num = BufferSize /\ write' = read
    BY <1>4 DEF Switch, CountsOK
  <2>2. /\ Published' = Published /\ Written' = 0 /\ Written = BufferSize
        /\ Published \in Nat
    BY <2>1, <1>t DEF Published, Written
  <2>3. PICK k \in Nat : Published - Written = k * BufferSize
    BY DEF ExchangeOK, WholeBuffers
  <2>4. Published' - Written' = (k + 1) * BufferSize
    BY <2>2, <2>3, <1>t
  <2>5. WholeBuffers'
    BY <2>4 DEF WholeBuffers
  <2>6. write'.num # 0 => Published' >= 2 * BufferSize
    BY <2>1, <2>2, <1>t DEF CountsOK
  <2>7. QED
    BY <2>5, <2>6 DEF ExchangeOK
<1>5. CASE Reset
  <2>1. wpc = "reset" /\ wpc' = "idle" /\ write'.num = 0 /\ UNCHANGED received
    BY <1>5, <1>t DEF Reset
  <2>2. QED
    BY <2>1, <1>s DEF Published, Written
<1>6. CASE \E r \in Readers : BeginQuery(r) \/ EndQuery(r)
  BY <1>6, <1>s DEF BeginQuery, EndQuery, Published, Written
<1>7. CASE UNCHANGED vars
  BY <1>7, <1>s DEF vars, Published, Written
<1>8. QED
  BY <1>1, <1>2, <1>3, <1>4, <1>5, <1>6, <1>7 DEF Next, PushData

\* IInv is an invariant of the storage.
THEOREM Invariance == Spec => []IInv
<1>1. Init => IInv
  BY InvariantInit
<1>2. IInv /\ [Next]_vars => IInv'
  BY TypeStep, CountsStep, SlotsStep, ReadersStep, ExchangeStep DEF IInv
<1>3. QED
  BY <1>1, <1>2, PTL DEF Spec

\* The variables keep their types.
THEOREM TypeCorrect == Spec => []TypeOK
<1>1. IInv => TypeOK
  BY DEF IInv
<1>2. QED
  BY <1>1, Invariance, PTL

\* The write buffer is never full when PushData is called: its second branch is dead.
THEOREM WriterInRange == Spec => []WriteInRange
<1>1. IInv => WriteInRange
  BY DEF IInv, CountsOK
<1>2. QED
  BY <1>1, Invariance, PTL

\* Without a lock, the writer never touches a slot that a query with consistent samples
\* may be copying.
THEOREM RaceFree == Spec => []NoRace
<1>1. IInv => NoRace
  BY DEF IInv, ReadersOK, NoRace, Written
<1>2. QED
  BY <1>1, Invariance, PTL

\* What a query with consistent samples copies, by the invariant.
LEMMA RetainedByInvariant == IInv => RetainedConsecutive
<1> SUFFICES ASSUME IInv, NEW r \in Current
             PROVE  LET q == reader[r]
                        first == q.seen - q.wnum - q.rnum
                    IN  /\ first >= 0
                        /\ q.wnum + q.rnum >= BufferSize \/ first = 0
                        /\ \A i \in 0..(q.rnum - 1) : Whole(buf[read.ptr][i], first + i)
                        /\ \A i \in 0..(q.wnum - 1) :
                             Whole(buf[write.ptr][i], first + q.rnum + i)
  BY DEF RetainedConsecutive, Whole
<1> DEFINE q == reader[r]
           first == q.seen - q.wnum - q.rnum
<1>1. /\ q.rnum = read.num /\ q.wnum <= Written /\ q.seen - q.wnum = Published - Written
  BY DEF IInv, ReadersOK
<1>2. /\ q.rnum \in 0..BufferSize /\ q.wnum \in 0..BufferSize /\ q.seen \in Nat
      /\ Written \in 0..BufferSize /\ Published \in Int
      /\ read.num \in 0..BufferSize
  BY BufferAssumption DEF IInv, TypeOK, Current, Written, Published
<1>3. first = Published - Written - read.num
  BY <1>1, <1>2
<1>4. first >= 0 /\ (q.wnum + q.rnum >= BufferSize \/ first = 0)
  BY <1>1, <1>2, <1>3, BufferAssumption DEF IInv, CountsOK
<1>5. \A i \in 0..(q.rnum - 1) : Whole(buf[read.ptr][i], first + i)
  BY <1>1, <1>2, <1>3, BufferAssumption DEF IInv, SlotsOK, Slots
<1>6. ASSUME NEW i \in 0..(q.wnum - 1)
      PROVE  Whole(buf[write.ptr][i], first + q.rnum + i)
  <2>1. i \in Slots /\ i < Written
    BY <1>1, <1>2, BufferAssumption DEF Slots
  <2>2. first + q.rnum + i = Published - Written + i
    BY <1>1, <1>2, <1>3
  <2>3. QED
    BY <2>1, <2>2 DEF IInv, SlotsOK
<1>7. QED
  BY <1>4, <1>5, <1>6

\* What such a query copies is the tail of the packets published when it sampled the
\* counts, in order, whole, and at least BufferSize long once there are that many.
THEOREM TailRetained == Spec => []RetainedConsecutive
  BY RetainedByInvariant, Invariance, PTL

-----------------------------------------------------------------------------
(* The storage implements PacketLog.                                       *)

\* What the log has for a query, from what the query sampled alone.
Sampled(q) ==
    IF ~q.on THEN <<"idle">>
    ELSE IF q.stale THEN <<"torn">>
    ELSE <<"sees", Log!Suffix(q.seen - q.wnum - q.rnum, q.seen)>>

\* Where a packet of a query lies in the buffer that has it.
LEMMA Offset ==
    ASSUME NEW a \in Int, NEW n \in 0..BufferSize, NEW i \in Int, a <= i, i < a + n
    PROVE  i - a \in 0..(n - 1) /\ i - a \in Slots /\ a + (i - a) = i
  BY BufferAssumption DEF Slots

\* Under the invariant the window of a query depends on nothing that the writer changes.
LEMMA WindowSampled == IInv => \A r \in Readers : Window(r) = Sampled(reader[r])
<1> SUFFICES ASSUME IInv, NEW r \in Readers
             PROVE  Window(r) = Sampled(reader[r])
  OBVIOUS
<1> DEFINE q == reader[r]
           first == q.seen - q.wnum - q.rnum
<1>1. CASE ~q.on \/ q.stale
  BY <1>1 DEF Window, Sampled
<1>2. CASE q.on /\ ~q.stale
  <2>1. r \in Current
    BY <1>2 DEF Current
  <2>2. /\ q.rnum \in 0..BufferSize /\ q.wnum \in 0..BufferSize /\ q.seen \in Nat
        /\ read.ptr \in 1..2 /\ write.ptr \in 1..2 /\ BufferSize \in Nat
        /\ buf \in [1..2 -> [Slots -> [packet_idx : 0..(IndexLimit - 1), data : Nat \cup {Freed}]]]
    BY BufferAssumption DEF IInv, TypeOK
  <2>3. /\ first \in Int /\ first + q.rnum + q.wnum = q.seen
    BY <2>2
  <2>4. /\ \A i \in 0..(q.rnum - 1) : Whole(buf[read.ptr][i], first + i)
        /\ \A i \in 0..(q.wnum - 1) : Whole(buf[write.ptr][i], first + q.rnum + i)
    BY <2>1, RetainedByInvariant DEF RetainedConsecutive, Whole
  <2>5. ASSUME NEW p \in [packet_idx : 0..(IndexLimit - 1), data : Nat \cup {Freed}],
               NEW k \in Int, Whole(p, k)
        PROVE  p = Log!Packet(k)
    BY <2>5 DEF Whole, Log!Packet
  <2>6. ASSUME NEW i \in first..(q.seen - 1), i < first + q.rnum
        PROVE  buf[read.ptr][i - first] = Log!Packet(i)
    <3>a. first \in Int /\ i \in Int /\ first <= i /\ i < first + q.rnum
      BY <2>2, <2>3, <2>6
    <3>1. /\ i - first \in 0..(q.rnum - 1) /\ i - first \in Slots
          /\ first + (i - first) = i /\ i \in Int
      <4> HIDE DEF first
      <4> QED
        BY <3>a, <2>2, Offset
    <3>2. Whole(buf[read.ptr][i - first], i)
      BY <2>4, <3>1
    <3>3. buf[read.ptr][i - first] \in [packet_idx : 0..(IndexLimit - 1), data : Nat \cup {Freed}]
      BY <2>2, <3>1
    <3>4. QED
      BY <2>5, <3>1, <3>2, <3>3
  <2>7. ASSUME NEW i \in first..(q.seen - 1), ~(i < first + q.rnum)
        PROVE  buf[write.ptr][i - first - q.rnum] = Log!Packet(i)
    <3> DEFINE a == first + q.rnum
    <3>a. /\ a \in Int /\ i \in Int /\ a <= i /\ i < a + q.wnum
          /\ i - first - q.rnum = i - a
      BY <2>2, <2>3, <2>7
    <3>b. /\ i - a \in 0..(q.wnum - 1) /\ i - a \in Slots /\ a + (i - a) = i
      <4> HIDE DEF a
      <4> QED
        BY <3>a, <2>2, Offset
    <3>1. /\ i - first - q.rnum \in 0..(q.wnum - 1) /\ i - first - q.rnum \in Slots
          /\ first + q.rnum + (i - first - q.rnum) = i /\ i \in Int
      BY <3>a, <3>b
    <3>2. Whole(buf[write.ptr][i - first - q.rnum], i)
      BY <2>4, <3>1
    <3>3. buf[write.ptr][i - first - q.rnum]
            \in [packet_idx : 0..(IndexLimit - 1), data : Nat \cup {Freed}]
      BY <2>2, <3>1
    <3>4. QED
      BY <2>5, <3>1, <3>2, <3>3
  <2>8. Readable(r) = Log!Suffix(first, q.seen)
    BY <2>6, <2>7 DEF Readable, Log!Suffix
  <2>9. QED
    BY <1>2, <2>8 DEF Window, Sampled
<1>3. QED
  BY <1>1, <1>2

\* Every step of the storage is one of the log, or changes nothing there.
LEMMA LogStep == IInv /\ IInv' /\ [Next]_vars => [Log!LogNext]_(Log!logVars)
<1> SUFFICES ASSUME IInv, IInv', [Next]_vars
             PROVE  [Log!LogNext]_(Log!logVars)
  OBVIOUS
<1> DEFINE window == [r \in Readers |-> Window(r)]
<1>1. window = [r \in Readers |-> Sampled(reader[r])]
  BY WindowSampled
<1>2. window' = [r \in Readers |-> Sampled(reader'[r])]
  <2>1. (\A r \in Readers : Window(r) = Sampled(reader[r]))'
    BY WindowSampled, PTL
  <2>2. QED
    BY <2>1 DEF Sampled
<1>t. /\ write.num \in 0..BufferSize /\ read.num \in 0..BufferSize /\ received \in Nat
      /\ BufferSize \in Nat \ {0}
      /\ reader \in [Readers -> [on : BOOLEAN, wnum : 0..BufferSize, rnum : 0..BufferSize,
                                 seen : Nat, stale : BOOLEAN]]
  BY BufferAssumption DEF IInv, TypeOK
<1>s. reader' = reader => window' = window
  BY <1>1, <1>2
<1>3. CASE Destroy \/ Fill \/ Switch \/ Reset
  <2>1. reader' = reader /\ Published' = Published
    BY <1>3, <1>t DEF Destroy, Fill, Switch, Reset, Published
  <2>2. QED
    BY <2>1, <1>s DEF Log!logVars
<1>4. CASE Publish
  <2>1. reader' = reader /\ Published' = Published + 1
    BY <1>4, <1>t DEF Publish, Published
  <2>2. QED
    BY <2>1, <1>s DEF Log!LogNext, Log!Append1
<1>5. ASSUME NEW r \in Readers, BeginQuery(r)
      PROVE  Log!LogNext
  <2> DEFINE q == reader'[r]
  <2>s. q.stale <=> (wpc = "reset" /\ write.num # 0)
    <3>1. reader' = [reader EXCEPT ![r] =
               [on |-> TRUE, wnum |-> write.num, rnum |-> read.num,
                seen |-> Published, stale |-> wpc = "reset" /\ write.num # 0]]
      BY <1>5 DEF BeginQuery
    <3>2. QED
      BY <3>1, <1>t
  <2>1. /\ ~reader[r].on /\ UNCHANGED <<write, read, received, wpc>>
        /\ reader' = [reader EXCEPT ![r] = q]
        /\ q = [on |-> TRUE, wnum |-> write.num, rnum |-> read.num,
                seen |-> Published, stale |-> wpc = "reset" /\ write.num # 0]
    BY <1>5, <1>t DEF BeginQuery
  <2>2. window[r] = <<"idle">> /\ window' = [window EXCEPT ![r] = Sampled(q)]
    <3>1. Sampled(reader[r]) = <<"idle">>
      BY <2>1 DEF Sampled
    <3>2. \A s \in Readers : s # r => reader'[s] = reader[s]
      BY <2>1, <1>t
    <3>3. \A s \in Readers : Sampled(reader'[s]) = IF s = r THEN Sampled(q) ELSE Sampled(reader[s])
      BY <3>2
    <3> HIDE DEF window, q
    <3>4. QED
      BY <1>1, <1>2, <3>1, <3>3
  <2>3. Published' = Published /\ Published \in Nat
    BY <2>1, <1>t DEF Published, IInv, CountsOK
  <2>4. CASE q.stale
    <3>1. wpc = "reset" /\ write.num # 0
      BY <2>s, <2>4
    <3>2. Published >= 2 * BufferSize /\ Written = 0
      BY <3>1 DEF IInv, ExchangeOK, Written
    <3>3. PICK k \in Nat : Published = k * BufferSize
      BY <2>3, <3>2 DEF IInv, ExchangeOK, WholeBuffers
    <3>4. k >= 2
      <4>1. k # 0 /\ k # 1
        BY <3>2, <3>3, <1>t
      <4>2. QED
        BY <4>1
    <3>5. k <= Published
      BY <3>3, <1>t
    <3>6. Sampled(q) = <<"torn">>
      BY <2>1, <2>4 DEF Sampled
    <3>7. Log!BeginTorn(r)
      BY <2>2, <2>3, <3>3, <3>4, <3>5, <3>6 DEF Log!BeginTorn, Log!Idle, Log!Torn
    <3>8. QED
      BY <3>7 DEF Log!LogNext
  <2>5. CASE ~q.stale
    <3> DEFINE first == Published - write.num - read.num
    <3>1. Sampled(q) = <<"sees", Log!Suffix(first, Published)>>
      BY <2>1, <2>5 DEF Sampled
    <3>2. /\ first \in 0..Published
          /\ first = 0 \/ Published - first >= BufferSize
      <4>1. write.num = Written
        BY <2>s, <2>5 DEF Written
      <4>2. QED
        BY <4>1, <2>3, <1>t DEF IInv, CountsOK
    <3>3. Log!Begin(r)
      BY <2>2, <2>3, <3>1, <3>2 DEF Log!Begin, Log!Idle, Log!Sees
    <3>4. QED
      BY <3>3 DEF Log!LogNext
  <2>6. QED
    BY <2>4, <2>5
<1>6. ASSUME NEW r \in Readers, EndQuery(r)
      PROVE  Log!LogNext
  <2>1. reader[r].on /\ reader' = [reader EXCEPT ![r] = NotReading] /\ Published' = Published
    BY <1>6 DEF EndQuery, Published
  <2>2. window[r] # <<"idle">> /\ window' = [window EXCEPT ![r] = <<"idle">>]
    <3>1. Sampled(reader[r]) # <<"idle">>
      BY <2>1 DEF Sampled
    <3>2. Sampled(NotReading) = <<"idle">>
      BY DEF Sampled, NotReading
    <3>3. \A s \in Readers : reader'[s] = IF s = r THEN NotReading ELSE reader[s]
      BY <2>1, <1>t
    <3>4. \A s \in Readers :
              Sampled(reader'[s]) = IF s = r THEN <<"idle">> ELSE Sampled(reader[s])
      BY <3>2, <3>3
    <3> HIDE DEF window
    <3>5. QED
      BY <1>1, <1>2, <3>1, <3>4
  <2>3. Log!End(r)
    BY <2>1, <2>2 DEF Log!End, Log!Idle
  <2>4. QED
    BY <2>3 DEF Log!LogNext
<1>7. CASE UNCHANGED vars
  BY <1>7, <1>s DEF vars, Published, Log!logVars
<1>8. QED
  BY <1>3, <1>4, <1>5, <1>6, <1>7 DEF Next, PushData

\* The storage, with its lock-free writer and its two buffers, is a log of packets in which
\* every query sees one suffix, for any buffer size and any readers; the queries that begin
\* while data_num is not reset yet are the one exception, and they begin where it says.
THEOREM Refinement == Spec => ImplementsLog
<1>1. Init => Log!LogInit
  BY DEF Init, Log!LogInit, Log!Idle, Published, Window, NotReading
<1>2. QED
  BY <1>1, LogStep, Invariance, PTL DEF Spec, ImplementsLog, Log!LogSpec
=============================================================================
