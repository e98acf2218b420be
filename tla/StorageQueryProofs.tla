------------------------- MODULE StorageQueryProofs -------------------------
(***************************************************************************)
(* What the queries of the two storages answer, for any size of the        *)
(* buffers: theorems about the copying code, from what DoubleBufferProofs  *)
(* says of the slots it copies.                                            *)
(***************************************************************************)
EXTENDS PacketStorage, DoubleBufferProofs, SequenceTheorems

\* What was packed as the k-th packet.
Nth(k) == [packet_idx |-> k % IndexLimit, data |-> k]
PacketSet == [packet_idx : 0..(IndexLimit - 1), data : Nat \cup {Freed}]

\* The place of the first packet in the buffers v, of n published.
First(v, n) == n - v.wnum - v.rnum

\* v has the last packets of n: those of the read buffer, which is full or empty, and after
\* them those of the write buffer.
Sees(v, n) ==
    /\ n \in Nat /\ v.wnum \in 0..BufferSize /\ v.rnum \in {0, BufferSize}
    /\ First(v, n) \in Nat
    /\ v.rnum = 0 => First(v, n) = 0
    /\ \A i \in 0..(v.rnum - 1) : v.r[i] = Nth(First(v, n) + i)
    /\ \A i \in 0..(v.wnum - 1) : v.w[i] = Nth(First(v, n) + v.rnum + i)

-----------------------------------------------------------------------------
(* Stretches of the stream of packets.                                     *)

LEMMA StretchType ==
    ASSUME NEW a \in Nat, NEW b \in Nat, a <= b
    PROVE  /\ Stretch(a, b) \in Seq(PacketSet) /\ Len(Stretch(a, b)) = b - a
           /\ \A i \in 1..(b - a) : Stretch(a, b)[i] = Nth(a + i - 1)
<1>1. b - a \in Nat
  OBVIOUS
<1>2. \A i \in 1..(b - a) : Nth(a + i - 1) \in PacketSet
  <2>1. \A k \in Nat : Nth(k) \in PacketSet
    BY IndexRange DEF Nth, PacketSet
  <2>2. \A i \in 1..(b - a) : a + i - 1 \in Nat
    OBVIOUS
  <2>3. QED
    BY <2>1, <2>2
<1>3. Stretch(a, b) = [i \in 1..(b - a) |-> Nth(a + i - 1)]
  BY DEF Stretch, Nth
<1>4. QED
  BY <1>1, <1>2, <1>3

\* Adjacent stretches join.
LEMMA StretchJoin ==
    ASSUME NEW a \in Nat, NEW b \in Nat, NEW c \in Nat, a <= b, b <= c
    PROVE  Stretch(a, b) \o Stretch(b, c) = Stretch(a, c)
<1> DEFINE s == Stretch(a, b)
           t == Stretch(b, c)
           u == Stretch(a, c)
<1>s. s \in Seq(PacketSet) /\ Len(s) = b - a /\ \A i \in 1..(b - a) : s[i] = Nth(a + i - 1)
  BY StretchType
<1>t. t \in Seq(PacketSet) /\ Len(t) = c - b /\ \A i \in 1..(c - b) : t[i] = Nth(b + i - 1)
  BY StretchType
<1>u. u \in Seq(PacketSet) /\ Len(u) = c - a /\ \A i \in 1..(c - a) : u[i] = Nth(a + i - 1)
  <2>1. a <= c
    OBVIOUS
  <2>2. QED
    BY <2>1, StretchType
<1> HIDE DEF s, t, u
<1>1. /\ s \o t \in Seq(PacketSet) /\ Len(s \o t) = Len(s) + Len(t)
      /\ \A i \in 1..(Len(s) + Len(t)) :
             (s \o t)[i] = IF i <= Len(s) THEN s[i] ELSE t[i - Len(s)]
  BY <1>s, <1>t, ConcatProperties
<1>2. /\ Len(s \o t) = (b - a) + (c - b)
      /\ \A i \in 1..((b - a) + (c - b)) :
             (s \o t)[i] = IF i <= b - a THEN s[i] ELSE t[i - (b - a)]
  BY ONLY <1>1, <1>s, <1>t
<1>3. (b - a) + (c - b) = c - a
  OBVIOUS
<1>4. ASSUME NEW i \in 1..(c - a)
      PROVE  (s \o t)[i] = u[i]
  <2>0. /\ (s \o t)[i] = IF i <= b - a THEN s[i] ELSE t[i - (b - a)]
        /\ u[i] = Nth(a + i - 1)
    BY <1>2, <1>3, <1>u
  <2>1. CASE i <= b - a
    <3>1. i \in 1..(b - a)
      BY <2>1
    <3>2. QED
      BY <1>s, <2>0, <2>1, <3>1
  <2>2. CASE ~(i <= b - a)
    <3>1. i - (b - a) \in 1..(c - b) /\ b + (i - (b - a)) - 1 = a + i - 1
      BY <2>2
    <3>2. t[i - (b - a)] = Nth(b + (i - (b - a)) - 1)
      BY <1>t, <3>1
    <3>3. QED
      BY <2>0, <2>2, <3>1, <3>2
  <2>3. QED
    BY <2>1, <2>2
<1>5. s \o t = u
  BY <1>u, <1>1, <1>2, <1>3, <1>4, SeqEqual
<1>6. QED
  BY <1>5 DEF s, t, u

\* A stretch of one packet.
LEMMA StretchOne ==
    ASSUME NEW n \in Nat
    PROVE  Stretch(n, n + 1) = <<Nth(n)>>
<1>1. Stretch(n, n + 1) = [i \in 1..1 |-> Nth(n + i - 1)]
  BY DEF Stretch, Nth
<1>2. \A i \in 1..1 : i = 1 /\ n + i - 1 = n
  OBVIOUS
<1>3. QED
  BY <1>1, <1>2

-----------------------------------------------------------------------------
(* What the queries copy.                                                  *)

\* Slots of the read and of the write buffer are stretches.
LEMMA CopyRead ==
    ASSUME NEW v, NEW n, Sees(v, n), NEW a \in 0..v.rnum, NEW b \in 0..v.rnum, a <= b
    PROVE  Copy(v.r, a, b) = Stretch(First(v, n) + a, First(v, n) + b)
<1> DEFINE f == First(v, n)
<1>1. f \in Nat /\ v.rnum \in Nat /\ \A i \in 0..(v.rnum - 1) : v.r[i] = Nth(f + i)
  BY BufferAssumption DEF Sees
<1> HIDE DEF f
<1>2. (f + b) - (f + a) = b - a
  BY <1>1
<1>3. ASSUME NEW i \in 1..(b - a)
      PROVE  v.r[a + i - 1] = Nth((f + a) + i - 1)
  <2>1. a + i - 1 \in 0..(v.rnum - 1) /\ f + (a + i - 1) = (f + a) + i - 1
    BY <1>1
  <2>2. QED
    BY <1>1, <2>1
<1>4. Copy(v.r, a, b) = Stretch(f + a, f + b)
  BY <1>2, <1>3 DEF Copy, Stretch, Nth
<1>5. QED
  BY <1>4 DEF f

LEMMA CopyWrite ==
    ASSUME NEW v, NEW n, Sees(v, n), NEW a \in 0..v.wnum, NEW b \in 0..v.wnum, a <= b
    PROVE  Copy(v.w, a, b) = Stretch(n - v.wnum + a, n - v.wnum + b)
<1> DEFINE f == n - v.wnum
<1>1. /\ f \in Int /\ v.wnum \in Nat
      /\ \A i \in 0..(v.wnum - 1) : v.w[i] = Nth(f + i)
  <2>1. First(v, n) + v.rnum = f
    BY BufferAssumption DEF Sees, First
  <2>2. QED
    BY <2>1, BufferAssumption DEF Sees
<1> HIDE DEF f
<1>2. (f + b) - (f + a) = b - a
  BY <1>1
<1>3. ASSUME NEW i \in 1..(b - a)
      PROVE  v.w[a + i - 1] = Nth((f + a) + i - 1)
  <2>1. a + i - 1 \in 0..(v.wnum - 1) /\ f + (a + i - 1) = (f + a) + i - 1
    BY <1>1
  <2>2. QED
    BY <1>1, <2>1
<1>4. Copy(v.w, a, b) = Stretch(f + a, f + b)
  BY <1>2, <1>3 DEF Copy, Stretch, Nth
<1>5. QED
  BY <1>4 DEF f

\* The end of the read buffer from a on, and the write buffer, are one stretch.
LEMMA CopyBoth ==
    ASSUME NEW v, NEW n, Sees(v, n), NEW a \in 0..v.rnum
    PROVE  Copy(v.r, a, v.rnum) \o Copy(v.w, 0, v.wnum) = Stretch(First(v, n) + a, n)
<1>1. /\ n \in Nat /\ v.wnum \in Nat /\ v.rnum \in Nat /\ First(v, n) \in Nat
      /\ First(v, n) + v.rnum = n - v.wnum /\ n - v.wnum + v.wnum = n /\ n - v.wnum + 0 = n - v.wnum
  BY BufferAssumption DEF Sees, First
<1>2. Copy(v.r, a, v.rnum) = Stretch(First(v, n) + a, First(v, n) + v.rnum)
  BY <1>1, CopyRead
<1>3. Copy(v.w, 0, v.wnum) = Stretch(n - v.wnum, n)
  <2>1. Copy(v.w, 0, v.wnum) = Stretch(n - v.wnum + 0, n - v.wnum + v.wnum)
    BY <1>1, CopyWrite
  <2>2. QED
    BY <1>1, <2>1
<1> DEFINE f == First(v, n)
<1>4. /\ f + a \in Nat /\ n - v.wnum \in Nat /\ f + a <= n - v.wnum /\ n - v.wnum <= n
  <2> HIDE DEF f
  <2>1. f \in Nat /\ f + v.rnum = n - v.wnum
    BY <1>1 DEF f
  <2>2. QED
    BY <1>1, <2>1
<1>5. Stretch(f + a, n - v.wnum) \o Stretch(n - v.wnum, n) = Stretch(f + a, n)
  BY <1>1, <1>4, StretchJoin
<1>6. QED
  BY <1>1, <1>2, <1>3, <1>5

\* A query sees as many packets as were published, or a whole buffer at least.
LEMMA SeesEnough ==
    ASSUME NEW v, NEW n, Sees(v, n)
    PROVE  v.wnum + v.rnum = n \/ v.wnum + v.rnum >= BufferSize
  BY BufferAssumption DEF Sees, First

\* An empty answer has the empty stretch.
LEMMA StretchEmpty ==
    ASSUME NEW n \in Nat
    PROVE  Stretch(n, n) = <<>>
<1>1. Stretch(n, n) \in Seq(PacketSet) /\ Len(Stretch(n, n)) = 0
  <2>1. n <= n /\ n - n = 0
    OBVIOUS
  <2>2. QED
    BY <2>1, StretchType
<1>2. <<>> \in Seq(PacketSet) /\ Len(<<>>) = 0
  BY EmptySeq
<1>3. QED
  BY <1>1, <1>2, SeqEqual

\* When an answer of the last k packets is right.
LEMMA CountRight ==
    ASSUME NEW n \in Nat, NEW k \in 0..n, NEW count \in Nat, k <= count,
           k = count \/ Enough(k, n)
    PROVE  CountOK(Response(IF k = 0 THEN "kNoData" ELSE IF k = count THEN "kSuccess"
                            ELSE "kPartialData", Stretch(n - k, n)), n, count)
<1>1. Len(Stretch(n - k, n)) = k
  <2>1. n - k \in Nat /\ n - k <= n /\ n - (n - k) = k
    OBVIOUS
  <2>2. QED
    BY <2>1, StretchType
<1>2. QED
  BY <1>1 DEF CountOK, Response

LEMMA SinceRight ==
    ASSUME NEW n \in Nat, NEW k \in 1..n, NEW start \in Nat, start <= n - k,
           n - k = start \/ Enough(k, n)
    PROVE  SinceOK(Response(IF n - k = start THEN "kSuccess" ELSE "kPartialData",
                            Stretch(n - k, n)), n, start)
<1>1. Len(Stretch(n - k, n)) = k
  <2>1. n - k \in Nat /\ n - k <= n /\ n - (n - k) = k
    OBVIOUS
  <2>2. QED
    BY <2>1, StretchType
<1>2. start < n
  OBVIOUS
<1>3. QED
  BY <1>1, <1>2 DEF SinceOK, Response

-----------------------------------------------------------------------------
(* The answers, as functions of what a query sees.                         *)

\* GetLatestData of a device.
LEMMA LatestAnswer ==
    ASSUME NEW v, NEW n, Sees(v, n)
    PROVE  LatestOK(GetLatestData(v), n)
<1>1. /\ n \in Nat /\ v.wnum \in Nat /\ v.rnum \in Nat
      /\ n = 0 <=> v.wnum = 0 /\ v.rnum = 0
  BY BufferAssumption DEF Sees, First
<1>2. n # 0 => Stretch(n - 1, n) = <<Nth(n - 1)>>
  <2>1. n # 0 => n - 1 \in Nat /\ (n - 1) + 1 = n
    BY <1>1
  <2>2. QED
    BY <2>1, StretchOne
<1>3. CASE v.wnum > 0
  <2>1. v.wnum - 1 \in 0..(v.wnum - 1) /\ First(v, n) + v.rnum + (v.wnum - 1) = n - 1
    BY <1>1, <1>3 DEF First
  <2>2. v.w[v.wnum - 1] = Nth(n - 1)
    BY <2>1 DEF Sees
  <2>3. QED
    BY <1>1, <1>2, <1>3, <2>2 DEF GetLatestData, LatestOK
<1>4. CASE v.wnum = 0 /\ v.rnum > 0
  <2>1. v.rnum - 1 \in 0..(v.rnum - 1) /\ First(v, n) + (v.rnum - 1) = n - 1
    BY <1>1, <1>4 DEF First
  <2>2. v.r[v.rnum - 1] = Nth(n - 1)
    BY <2>1 DEF Sees
  <2>3. QED
    BY <1>1, <1>2, <1>4, <2>2 DEF GetLatestData, LatestOK
<1>5. CASE v.wnum = 0 /\ v.rnum = 0
  BY <1>1, <1>5 DEF GetLatestData, LatestOK
<1>6. QED
  BY <1>1, <1>3, <1>4, <1>5

\* GetLatestData(count).
LEMMA CountAnswer ==
    ASSUME NEW v, NEW n, Sees(v, n), NEW count \in Nat
    PROVE  CountOK(GetLatestDataN(v, count), n, count)
<1> DEFINE f == First(v, n)
<1>1. /\ n \in Nat /\ v.wnum \in Nat /\ v.rnum \in Nat /\ f \in Nat /\ f = n - v.wnum - v.rnum
      /\ v.wnum + v.rnum = 0 => n = 0
  BY BufferAssumption DEF Sees, First
<1> HIDE DEF f
<1>2. CASE count = 0 \/ v.wnum + v.rnum = 0
  <2>1. CountOK(Response("kNoData", Stretch(n - 0, n)), n, count)
    <3>1. 0 \in 0..n /\ 0 <= count /\ (0 = count \/ Enough(0, n))
      BY <1>1, <1>2 DEF Enough
    <3>2. QED
      BY <1>1, <3>1, CountRight
  <2>2. Stretch(n - 0, n) = <<>>
    BY <1>1, StretchEmpty
  <2>3. GetLatestDataN(v, count) = NoData
    BY <1>2 DEF GetLatestDataN
  <2>4. QED
    BY <2>1, <2>2, <2>3 DEF NoData
<1>3. CASE count # 0 /\ count <= v.wnum
  <2>1. Copy(v.w, v.wnum - count, v.wnum) = Stretch(n - count, n)
    <3>1. /\ v.wnum - count \in 0..v.wnum /\ v.wnum \in 0..v.wnum /\ v.wnum - count <= v.wnum
          /\ n - v.wnum + (v.wnum - count) = n - count /\ n - v.wnum + v.wnum = n
      BY <1>1, <1>3
    <3>2. QED
      BY <3>1, CopyWrite
  <2>2. GetLatestDataN(v, count) = Response("kSuccess", Stretch(n - count, n))
    BY <1>1, <1>3, <2>1 DEF GetLatestDataN
  <2>3. count \in 0..n
    BY <1>1, <1>3
  <2>4. QED
    BY <1>1, <1>3, <2>2, <2>3, CountRight
<1>4. CASE count > v.wnum /\ count <= v.rnum + v.wnum
  <2>1. /\ v.rnum + v.wnum - count \in 0..v.rnum /\ count \in 0..n
        /\ count # 0 /\ ~(count <= v.wnum) /\ v.wnum + v.rnum # 0
    BY <1>1, <1>4
  <2>2. f + (v.rnum + v.wnum - count) = n - count
    BY <1>1
  <2>3. Copy(v.r, v.rnum + v.wnum - count, v.rnum) \o Copy(v.w, 0, v.wnum) = Stretch(n - count, n)
    <3>1. \A a \in 0..v.rnum :
              Copy(v.r, a, v.rnum) \o Copy(v.w, 0, v.wnum) = Stretch(f + a, n)
      BY CopyBoth DEF f
    <3>2. QED
      BY <2>1, <2>2, <3>1
  <2>4. GetLatestDataN(v, count) = Response("kSuccess", Stretch(n - count, n))
    BY <1>4, <2>1, <2>3 DEF GetLatestDataN
  <2>5. QED
    BY <1>1, <2>1, <2>4, CountRight
<1>5. CASE count > v.rnum + v.wnum /\ v.wnum + v.rnum # 0
  <2> DEFINE k == v.wnum + v.rnum
  <2>1. k \in 0..n /\ k # 0 /\ k # count /\ k <= count /\ f + 0 = n - k /\ 0 \in 0..v.rnum
    BY <1>1, <1>5
  <2>2. Enough(k, n)
    <3>1. k = n \/ k >= BufferSize
      BY SeesEnough
    <3>2. QED
      BY <3>1, <1>1 DEF Enough
  <2>3. CopyAll(v) = Stretch(n - k, n)
    <3>1. Copy(v.r, 0, v.rnum) \o Copy(v.w, 0, v.wnum) = Stretch(f + 0, n)
      BY <2>1, CopyBoth DEF f
    <3>2. QED
      BY <2>1, <3>1 DEF CopyAll
  <2>4. GetLatestDataN(v, count) = Response("kPartialData", Stretch(n - k, n))
    BY <1>1, <1>5, <2>3 DEF GetLatestDataN
  <2> HIDE DEF k
  <2>5. QED
    BY <1>1, <2>1, <2>2, <2>4, CountRight
<1>6. QED
  BY <1>1, <1>2, <1>3, <1>4, <1>5

\* The indices that GetDataSinceIndex compares, before packet_idx wraps.
LEMMA Indices ==
    ASSUME NEW v, NEW n, Sees(v, n), n <= IndexLimit
    PROVE  /\ v.wnum > 0 => /\ v.w[0].packet_idx = n - v.wnum
                            /\ v.w[v.wnum - 1].packet_idx = n - 1
           /\ v.rnum > 0 => /\ v.r[0].packet_idx = First(v, n)
                            /\ v.r[v.rnum - 1].packet_idx = n - v.wnum - 1
<1>1. /\ n \in Nat /\ v.wnum \in Nat /\ v.rnum \in Nat /\ First(v, n) \in Nat
      /\ IndexLimit \in Nat \ {0} /\ First(v, n) = n - v.wnum - v.rnum
  BY BufferAssumption DEF Sees, First
<1>2. ASSUME NEW k \in Nat, k < n
      PROVE  Nth(k).packet_idx = k
  <2>1. k < IndexLimit
    BY <1>1, <1>2
  <2>2. k % IndexLimit = k
    BY <1>1, <2>1
  <2>3. QED
    BY <2>2 DEF Nth
<1>3. ASSUME v.wnum > 0
      PROVE  v.w[0].packet_idx = n - v.wnum /\ v.w[v.wnum - 1].packet_idx = n - 1
  <2>1. /\ 0 \in 0..(v.wnum - 1) /\ First(v, n) + v.rnum + 0 = n - v.wnum
        /\ v.wnum - 1 \in 0..(v.wnum - 1) /\ First(v, n) + v.rnum + (v.wnum - 1) = n - 1
        /\ n - v.wnum \in Nat /\ n - v.wnum < n /\ n - 1 \in Nat /\ n - 1 < n
    BY <1>1, <1>3
  <2>2. v.w[0] = Nth(n - v.wnum) /\ v.w[v.wnum - 1] = Nth(n - 1)
    BY <2>1 DEF Sees
  <2>3. QED
    BY <1>2, <2>1, <2>2
<1>4. ASSUME v.rnum > 0
      PROVE  v.r[0].packet_idx = First(v, n) /\ v.r[v.rnum - 1].packet_idx = n - v.wnum - 1
  <2>1. /\ 0 \in 0..(v.rnum - 1) /\ First(v, n) + 0 = First(v, n)
        /\ v.rnum - 1 \in 0..(v.rnum - 1) /\ First(v, n) + (v.rnum - 1) = n - v.wnum - 1
        /\ First(v, n) < n /\ n - v.wnum - 1 \in Nat /\ n - v.wnum - 1 < n
    BY <1>1, <1>4
  <2>2. v.r[0] = Nth(First(v, n)) /\ v.r[v.rnum - 1] = Nth(n - v.wnum - 1)
    BY <2>1 DEF Sees
  <2>3. QED
    BY <1>1, <1>2, <2>1, <2>2
<1>5. QED
  BY <1>3, <1>4

\* Where the packets from start on lie, if they are all there.
LEMMA CopySince ==
    ASSUME NEW v, NEW n, Sees(v, n), NEW start \in Nat, start < n
    PROVE  /\ n - v.wnum <= start =>
                  Copy(v.w, start - (n - v.wnum), v.wnum) = Stretch(start, n)
           /\ First(v, n) <= start /\ start <= n - v.wnum =>
                  Copy(v.r, start - First(v, n), v.rnum) \o Copy(v.w, 0, v.wnum)
                      = Stretch(start, n)
<1>1. /\ n \in Nat /\ v.wnum \in Nat /\ v.rnum \in Nat /\ First(v, n) \in Nat
      /\ First(v, n) = n - v.wnum - v.rnum
  BY BufferAssumption DEF Sees, First
<1>2. ASSUME n - v.wnum <= start
      PROVE  Copy(v.w, start - (n - v.wnum), v.wnum) = Stretch(start, n)
  <2>1. /\ start - (n - v.wnum) \in 0..v.wnum /\ v.wnum \in 0..v.wnum
        /\ start - (n - v.wnum) <= v.wnum
        /\ n - v.wnum + (start - (n - v.wnum)) = start /\ n - v.wnum + v.wnum = n
    BY <1>1, <1>2
  <2>2. \A a, b \in 0..v.wnum :
            a <= b => Copy(v.w, a, b) = Stretch(n - v.wnum + a, n - v.wnum + b)
    BY CopyWrite
  <2>3. Copy(v.w, start - (n - v.wnum), v.wnum)
            = Stretch(n - v.wnum + (start - (n - v.wnum)), n - v.wnum + v.wnum)
    BY <2>1, <2>2
  <2>4. QED
    BY <2>1, <2>3
<1>3. ASSUME First(v, n) <= start, start <= n - v.wnum
      PROVE  Copy(v.r, start - First(v, n), v.rnum) \o Copy(v.w, 0, v.wnum) = Stretch(start, n)
  <2> DEFINE f == First(v, n)
  <2>1. \A a \in 0..v.rnum :
            Copy(v.r, a, v.rnum) \o Copy(v.w, 0, v.wnum) = Stretch(f + a, n)
    BY CopyBoth
  <2> HIDE DEF f
  <2>2. start - f \in 0..v.rnum /\ f + (start - f) = start
    BY <1>1, <1>3 DEF f
  <2>3. Copy(v.r, start - f, v.rnum) \o Copy(v.w, 0, v.wnum) = Stretch(f + (start - f), n)
    BY <2>1, <2>2
  <2>4. QED
    BY <2>2, <2>3 DEF f
<1>4. QED
  BY <1>2, <1>3

\* An answer with all that was asked, one with all there is, and an empty one.
LEMMA SinceCases ==
    ASSUME NEW v, NEW n, Sees(v, n), NEW start \in Nat
    PROVE  /\ start < n => SinceOK(Response("kSuccess", Stretch(start, n)), n, start)
           /\ start < First(v, n) => SinceOK(Response("kPartialData", CopyAll(v)), n, start)
           /\ start >= n => SinceOK(NoData, n, start)
<1>1. /\ n \in Nat /\ v.wnum \in Nat /\ v.rnum \in Nat /\ First(v, n) \in Nat
      /\ First(v, n) = n - v.wnum - v.rnum /\ BufferSize \in Nat \ {0}
  BY BufferAssumption DEF Sees, First
<1>2. ASSUME start < n
      PROVE  SinceOK(Response("kSuccess", Stretch(start, n)), n, start)
  <2> DEFINE k == n - start
  <2>1. k \in 1..n /\ n - k = start
    BY <1>1, <1>2
  <2> HIDE DEF k
  <2>2. SinceOK(Response(IF n - k = start THEN "kSuccess" ELSE "kPartialData",
                         Stretch(n - k, n)), n, start)
    <3>1. start <= n - k
      BY <1>1, <2>1
    <3>2. QED
      BY <1>1, <2>1, <3>1, SinceRight
  <2>3. QED
    BY <2>1, <2>2
<1>3. ASSUME start < First(v, n)
      PROVE  SinceOK(Response("kPartialData", CopyAll(v)), n, start)
  <2> DEFINE f == First(v, n)
             k == v.wnum + v.rnum
  <2>1. CopyAll(v) = Stretch(f, n)
    <3>1. 0 \in 0..v.rnum /\ f + 0 = f
      BY <1>1
    <3>2. \A a \in 0..v.rnum :
              Copy(v.r, a, v.rnum) \o Copy(v.w, 0, v.wnum) = Stretch(f + a, n)
      BY CopyBoth
    <3> HIDE DEF f
    <3>3. Copy(v.r, 0, v.rnum) \o Copy(v.w, 0, v.wnum) = Stretch(f + 0, n)
      BY <3>1, <3>2
    <3>4. QED
      BY <3>1, <3>3 DEF CopyAll
  <2>2. k = n \/ k >= BufferSize
    BY SeesEnough
  <2>3. f = n - k /\ f # 0 /\ start < f
    BY <1>1, <1>3
  <2>4. k \in Nat
    BY <1>1
  <2> HIDE DEF f, k
  <2>5. k \in 1..n /\ n - k = f /\ n - k # start /\ start <= n - k
    BY <1>1, <2>2, <2>3, <2>4
  <2>6. Enough(k, n)
    BY <1>1, <2>2, <2>4 DEF Enough
  <2>7. SinceOK(Response("kPartialData", Stretch(n - k, n)), n, start)
    BY <1>1, <2>5, <2>6, SinceRight
  <2>8. QED
    BY <2>1, <2>5, <2>7
<1>4. start >= n => SinceOK(NoData, n, start)
  BY DEF SinceOK
<1>5. QED
  BY <1>2, <1>3, <1>4

\* GetDataSinceIndex of a device.
LEMMA SinceAnswer ==
    ASSUME NEW v, NEW n, Sees(v, n), n <= IndexLimit, NEW start \in Nat
    PROVE  SinceOK(GetDataSinceIndex(v, start), n, start)
<1> DEFINE f == First(v, n)
<1>1. /\ n \in Nat /\ v.wnum \in Nat /\ v.rnum \in Nat /\ f \in Nat /\ f = n - v.wnum - v.rnum
      /\ v.rnum = 0 => f = 0
  BY BufferAssumption DEF Sees, First
<1>i. /\ v.wnum > 0 => v.w[0].packet_idx = n - v.wnum /\ v.w[v.wnum - 1].packet_idx = n - 1
      /\ v.rnum > 0 => v.r[0].packet_idx = f /\ v.r[v.rnum - 1].packet_idx = n - v.wnum - 1
  BY Indices
<1>s. /\ start < n => SinceOK(Response("kSuccess", Stretch(start, n)), n, start)
      /\ start < f => SinceOK(Response("kPartialData", CopyAll(v)), n, start)
      /\ start >= n => SinceOK(NoData, n, start)
  BY SinceCases
<1>c. /\ start < n /\ n - v.wnum <= start =>
             Copy(v.w, start - (n - v.wnum), v.wnum) = Stretch(start, n)
      /\ start < n /\ f <= start /\ start <= n - v.wnum =>
             Copy(v.r, start - f, v.rnum) \o Copy(v.w, 0, v.wnum) = Stretch(start, n)
  BY CopySince
<1> HIDE DEF f
<1>2. CASE start >= n
  <2>1. GetDataSinceIndex(v, start) = NoData
    <3>1. CASE v.wnum > 0
      <4>1. v.w[v.wnum - 1].packet_idx < start
        <5>1. v.w[v.wnum - 1].packet_idx = n - 1
          BY <1>i, <3>1
        <5>2. n - 1 < start
          BY <1>1, <1>2
        <5>3. QED
          BY <5>1, <5>2
      <4>2. QED
        BY <3>1, <4>1 DEF GetDataSinceIndex
    <3>2. CASE v.wnum = 0 /\ v.rnum > 0
      <4>1. v.r[v.rnum - 1].packet_idx < start /\ ~(v.wnum > 0)
        BY <1>1, <1>i, <1>2, <3>2
      <4>2. QED
        BY <3>2, <4>1 DEF GetDataSinceIndex
    <3>3. CASE v.wnum = 0 /\ v.rnum = 0
      BY <3>3 DEF GetDataSinceIndex
    <3>4. QED
      BY <1>1, <3>1, <3>2, <3>3
  <2>2. QED
    BY <1>2, <1>s, <2>1
<1>3. CASE start < n /\ v.wnum > 0 /\ n - v.wnum <= start
  <2>1. GetDataSinceIndex(v, start)
            = Response("kSuccess", Copy(v.w, start - (n - v.wnum), v.wnum))
    <3>1. ~(v.w[v.wnum - 1].packet_idx < start) /\ v.w[0].packet_idx = n - v.wnum
      <4>1. v.w[v.wnum - 1].packet_idx = n - 1 /\ v.w[0].packet_idx = n - v.wnum
        BY <1>i, <1>3
      <4>2. ~(n - 1 < start)
        BY <1>1, <1>3
      <4>3. QED
        BY <4>1, <4>2
    <3>2. v.w[0].packet_idx <= start
      BY <1>3, <3>1
    <3>3. QED
      BY <1>3, <3>1, <3>2 DEF GetDataSinceIndex
  <2>2. QED
    BY <1>3, <1>s, <1>c, <2>1
<1>4. CASE start < n /\ ~(v.wnum > 0 /\ n - v.wnum <= start)
  <2>1. v.rnum > 0 /\ start < n - v.wnum
    BY <1>1, <1>4
  <2>2. CASE f <= start
    <3>1. GetDataSinceIndex(v, start)
              = Response("kSuccess", Copy(v.r, start - f, v.rnum) \o Copy(v.w, 0, v.wnum))
      BY <1>1, <1>i, <1>4, <2>1, <2>2 DEF GetDataSinceIndex
    <3>2. start <= n - v.wnum
      BY <1>1, <2>1
    <3>3. QED
      BY <1>4, <1>s, <1>c, <2>2, <3>1, <3>2
  <2>3. CASE start < f
    <3>1. GetDataSinceIndex(v, start) = Response("kPartialData", CopyAll(v))
      BY <1>1, <1>i, <1>4, <2>1, <2>3 DEF GetDataSinceIndex
    <3>2. QED
      BY <1>s, <2>3, <3>1
  <2>4. QED
    BY <1>1, <2>2, <2>3
<1>5. QED
  BY <1>1, <1>2, <1>3, <1>4

-----------------------------------------------------------------------------
(* The answers of the storages.                                            *)

\* What a query with consistent samples works on, whatever the writer has done since.
LEMMA ViewSees ==
    ASSUME IInv, NEW r \in Current
    PROVE  Sees(View(r), reader[r].seen) /\ reader[r].seen <= received
<1> DEFINE q == reader[r]
           v == View(r)
           f == q.seen - q.wnum - q.rnum
<1>1. /\ q.rnum = read.num /\ q.wnum <= Written /\ q.seen - q.wnum = Published - Written
      /\ read.num = BufferSize \/ (read.num = 0 /\ Published = Written)
  BY DEF IInv, ReadersOK, CountsOK
<1>2. /\ q.wnum \in 0..BufferSize /\ q.rnum \in 0..BufferSize /\ q.seen \in Nat
      /\ Written \in 0..BufferSize /\ Published \in Int /\ Published <= received
      /\ read.ptr \in 1..2 /\ write.ptr \in 1..2 /\ BufferSize \in Nat /\ received \in Nat
      /\ buf \in [1..2 -> [Slots -> PacketSet]]
  BY BufferAssumption DEF IInv, TypeOK, Current, Written, Published, PacketSet
<1>3. /\ v.w = buf[write.ptr] /\ v.r = buf[read.ptr] /\ v.wnum = q.wnum /\ v.rnum = q.rnum
  BY DEF View
<1>4. /\ f >= 0
      /\ \A i \in 0..(q.rnum - 1) : Whole(buf[read.ptr][i], f + i)
      /\ \A i \in 0..(q.wnum - 1) : Whole(buf[write.ptr][i], f + q.rnum + i)
  BY RetainedByInvariant DEF RetainedConsecutive, Whole
<1>5. First(v, q.seen) = f
  BY <1>3 DEF First
<1> HIDE DEF q, v
<1>6. /\ f \in Nat /\ q.rnum \in {0, BufferSize} /\ (q.rnum = 0 => f = 0)
      /\ q.seen <= received
  <2>1. BufferSize # 0
    BY BufferAssumption
  <2>2. f \in Nat
    BY <1>2, <1>4
  <2>3. q.rnum = 0 => f = 0
    BY <1>1, <1>2, <2>1
  <2>4. q.seen <= received
    BY <1>1, <1>2
  <2>5. QED
    BY <1>1, <2>2, <2>3, <2>4
<1>7. ASSUME NEW p \in PacketSet, NEW k \in Int, Whole(p, k)
      PROVE  p = Nth(k)
  BY <1>7 DEF Whole, Nth, PacketSet
<1> HIDE DEF f
<1>8. ASSUME NEW i \in 0..(q.rnum - 1)
      PROVE  v.r[i] = Nth(f + i)
  <2>1. i \in Slots /\ f + i \in Int
    BY <1>2, <1>6 DEF Slots
  <2>2. buf[read.ptr][i] \in PacketSet
    BY <1>2, <2>1
  <2>3. QED
    BY <1>3, <1>4, <1>7, <2>1, <2>2
<1>9. ASSUME NEW i \in 0..(q.wnum - 1)
      PROVE  v.w[i] = Nth(f + q.rnum + i)
  <2>1. i \in Slots /\ f + q.rnum + i \in Int
    BY <1>2, <1>6 DEF Slots
  <2>2. buf[write.ptr][i] \in PacketSet
    BY <1>2, <2>1
  <2>3. QED
    BY <1>3, <1>4, <1>7, <2>1, <2>2
<1>10. Sees(v, q.seen)
  <2>1. /\ q.seen \in Nat /\ v.wnum \in 0..BufferSize /\ v.rnum \in {0, BufferSize}
        /\ First(v, q.seen) \in Nat /\ (v.rnum = 0 => First(v, q.seen) = 0)
    BY <1>2, <1>3, <1>5, <1>6
  <2>2. \A i \in 0..(v.rnum - 1) : v.r[i] = Nth(First(v, q.seen) + i)
    BY <1>3, <1>5, <1>8
  <2>3. \A i \in 0..(v.wnum - 1) : v.w[i] = Nth(First(v, q.seen) + v.rnum + i)
    BY <1>3, <1>5, <1>9
  <2>4. QED
    BY <2>1, <2>2, <2>3 DEF Sees
<1>11. QED
  BY <1>6, <1>10 DEF q, v

\* GetLatestData of a device answers with the packet published last when the query sampled
\* the buffers, whatever the writer has done since.
THEOREM LatestAnswered == Spec => []LatestAnswers
<1>1. IInv => LatestAnswers
  BY ViewSees, LatestAnswer DEF LatestAnswers
<1>2. QED
  BY <1>1, Invariance, PTL

\* GetLatestData(count) answers with the last count packets, or all there are, for every
\* count: as many as the buffers hold, more, fewer, or none.
THEOREM CountAnswered == Spec => []CountAnswers
<1>1. IInv => CountAnswers
  <2> SUFFICES ASSUME IInv, NEW r \in Current, NEW count \in 0..(2 * BufferSize + 1)
               PROVE  CountOK(GetLatestDataN(View(r), count), reader[r].seen, count)
    BY DEF CountAnswers
  <2>1. count \in Nat
    BY BufferAssumption
  <2>2. QED
    BY <2>1, ViewSees, CountAnswer
<1>2. QED
  BY <1>1, Invariance, PTL

\* GetDataSinceIndex answers with all packets from the one asked for on, or from the oldest
\* there is, until the 32-bit index wraps.
THEOREM SinceAnswered == Spec => []SinceAnswers
<1>1. IInv => SinceAnswers
  <2> SUFFICES ASSUME IInv, NEW r \in Current, received <= IndexLimit,
                      NEW start \in 0..(MaxPackets + 1)
               PROVE  SinceOK(GetDataSinceIndex(View(r), start), reader[r].seen, start)
    BY DEF SinceAnswers
  <2>1. start \in Nat
    BY BufferAssumption
  <2>2. Sees(View(r), reader[r].seen) /\ reader[r].seen <= received
    BY ViewSees
  <2>3. reader[r].seen <= IndexLimit
    BY <2>2, BufferAssumption DEF IInv, TypeOK, Sees
  <2>4. QED
    BY <2>1, <2>2, <2>3, SinceAnswer
<1>2. QED
  BY <1>1, Invariance, PTL

-----------------------------------------------------------------------------
(* The base station.                                                       *)

\* Its copying code is that of the devices, as are its answers to a count.
LEMMA SameCopies ==
    /\ \A state, packets : BaseStation!Response(state, packets) = Response(state, packets)
    /\ \A b, i, j : BaseStation!Copy(b, i, j) = Copy(b, i, j)
    /\ \A v : BaseStation!CopyAll(v) = CopyAll(v)
    /\ BaseStation!NoData = NoData
  BY DEF BaseStation!Response, Response, BaseStation!Copy, Copy, BaseStation!CopyAll, CopyAll,
         BaseStation!NoData, NoData

LEMMA SamePromises ==
    /\ \A i, j : BaseStation!Stretch(i, j) = Stretch(i, j)
    /\ \A a, n : BaseStation!LatestOK(a, n) = LatestOK(a, n)
    /\ \A a, n, c : BaseStation!CountOK(a, n, c) = CountOK(a, n, c)
    /\ \A a, n, c : BaseStation!SinceOK(a, n, c) = SinceOK(a, n, c)
    /\ BaseStation!Current = Current
    /\ \A r : BaseStation!View(r) = View(r)
<1>1. \A i, j : BaseStation!Stretch(i, j) = Stretch(i, j)
  BY DEF BaseStation!Stretch, Stretch
<1>2. \A k, n : BaseStation!Enough(k, n) = Enough(k, n)
  BY DEF BaseStation!Enough, Enough
<1>3. \A a, n : BaseStation!LatestOK(a, n) = LatestOK(a, n)
  BY <1>1, SameCopies DEF BaseStation!LatestOK, LatestOK
<1>4. \A a, n, c : BaseStation!CountOK(a, n, c) = CountOK(a, n, c)
  BY <1>1, <1>2 DEF BaseStation!CountOK, CountOK
<1>5. \A a, n, c : BaseStation!SinceOK(a, n, c) = SinceOK(a, n, c)
  BY <1>1, <1>2, SameCopies DEF BaseStation!SinceOK, SinceOK
<1>6. BaseStation!Current = Current /\ \A r : BaseStation!View(r) = View(r)
  BY DEF BaseStation!Current, Current, BaseStation!View, View
<1>7. QED
  BY <1>1, <1>3, <1>4, <1>5, <1>6

LEMMA SameCount == \A v, c : BaseStation!GetLatestDataN(v, c) = GetLatestDataN(v, c)
  BY SameCopies DEF BaseStation!GetLatestDataN, GetLatestDataN

\* GetLatestData of the base station, where it does not read the wrong buffer.
LEMMA BaseStationLatestAnswer ==
    ASSUME NEW v, v.wnum > 0 \/ v.rnum = 0
    PROVE  BaseStation!GetLatestData(v) = GetLatestData(v)
<1>1. v.wnum > 0 \/ ~(v.rnum > 0)
  OBVIOUS
<1>2. QED
  BY <1>1, SameCopies DEF BaseStation!GetLatestData, GetLatestData

\* GetDataSinceIndex of the base station, for a packet that exists: the test it lacks would
\* be false, and the length it computes is not negative.
LEMMA BaseStationSinceAnswer ==
    ASSUME NEW v, NEW n, Sees(v, n), n <= IndexLimit, NEW start \in Nat, start < n
    PROVE  BaseStation!GetDataSinceIndex(v, start) = GetDataSinceIndex(v, start)
<1>1. /\ n \in Nat /\ v.wnum \in Nat /\ v.rnum \in Nat /\ First(v, n) \in Nat
      /\ First(v, n) = n - v.wnum - v.rnum
  BY BufferAssumption DEF Sees, First
<1>2. v.rnum > 0 => /\ v.r[0].packet_idx = First(v, n)
                    /\ v.r[v.rnum - 1].packet_idx = n - v.wnum - 1
  BY Indices
<1>3. ~(v.wnum = 0 /\ v.rnum > 0 /\ v.r[v.rnum - 1].packet_idx < start)
  <2>1. v.wnum = 0 => ~(n - v.wnum - 1 < start)
    BY <1>1
  <2>2. QED
    BY <1>2, <2>1
<1>4. v.rnum > 0 => ~(v.rnum - (start - v.r[0].packet_idx) + v.wnum < 0)
  <2>1. ~(v.rnum - (start - First(v, n)) + v.wnum < 0)
    BY <1>1
  <2>2. QED
    BY <1>2, <2>1
<1>5. QED
  BY <1>3, <1>4, SameCopies DEF BaseStation!GetDataSinceIndex, GetDataSinceIndex

\* GetLatestData(count) of the base station answers as that of a device, for every count,
\* and so does GetDataSinceIndex for every packet that has been published.
THEOREM BaseStationAnswered == Spec => []BaseStationAnswers
<1>1. IInv => BaseStation!CountAnswers
  <2> SUFFICES ASSUME IInv, NEW r \in Current, NEW count \in 0..(2 * BufferSize + 1)
               PROVE  CountOK(GetLatestDataN(View(r), count), reader[r].seen, count)
    BY SamePromises, SameCount DEF BaseStation!CountAnswers
  <2>1. count \in Nat
    BY BufferAssumption
  <2>2. QED
    BY <2>1, ViewSees, CountAnswer
<1>2. IInv => BaseStation!SinceRetained
  <2> SUFFICES ASSUME IInv, NEW r \in Current, received <= IndexLimit,
                      NEW start \in 0..(reader[r].seen - 1)
               PROVE  SinceOK(BaseStation!GetDataSinceIndex(View(r), start),
                              reader[r].seen, start)
    BY SamePromises DEF BaseStation!SinceRetained
  <2>1. Sees(View(r), reader[r].seen) /\ reader[r].seen <= received
    BY ViewSees
  <2>2. reader[r].seen \in Nat /\ reader[r].seen <= IndexLimit
    BY <2>1, BufferAssumption DEF IInv, TypeOK, Sees
  <2>3. start \in Nat /\ start < reader[r].seen
    BY <2>2
  <2>4. BaseStation!GetDataSinceIndex(View(r), start) = GetDataSinceIndex(View(r), start)
    BY <2>1, <2>2, <2>3, BaseStationSinceAnswer
  <2>5. SinceOK(GetDataSinceIndex(View(r), start), reader[r].seen, start)
    BY <2>1, <2>2, <2>3, SinceAnswer
  <2>6. QED
    BY <2>4, <2>5
<1>3. QED
  BY <1>1, <1>2, Invariance, PTL DEF BaseStationAnswers

\* GetLatestData of the base station answers with the most recent packet, unless the write
\* buffer is empty and the read buffer is not.
THEOREM BaseStationLatestAnswered == Spec => []BaseStationLatest
<1>1. IInv => BaseStation!LatestAnswers
  <2> SUFFICES ASSUME IInv, NEW r \in Current, View(r).wnum > 0 \/ View(r).rnum = 0
               PROVE  LatestOK(BaseStation!GetLatestData(View(r)), reader[r].seen)
    BY SamePromises DEF BaseStation!LatestAnswers
  <2>1. BaseStation!GetLatestData(View(r)) = GetLatestData(View(r))
    BY BaseStationLatestAnswer
  <2>2. QED
    BY <2>1, ViewSees, LatestAnswer
<1>2. QED
  BY <1>1, Invariance, PTL DEF BaseStationLatest
=============================================================================
