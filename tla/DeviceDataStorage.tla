------------------------- MODULE DeviceDataStorage --------------------------
(***************************************************************************)
(* The three queries of DeviceDataStorage, as functions of what a query    *)
(* sees: its samples of data_num and the slots of the two buffers.         *)
(***************************************************************************)
EXTENDS DoubleBuffer

(* Slips: the write buffer only; off by one at the full request; the write *)
(* buffer's last packet not compared.                                      *)
GetLatestDataWriteOnly(v) ==
    IF v.wnum > 0 THEN Response("kSuccess", <<v.w[v.wnum - 1]>>) ELSE NoData

GetLatestDataNStrict(v, count) ==
    IF count = 0 \/ v.wnum + v.rnum = 0 THEN NoData
    ELSE IF count < v.rnum + v.wnum
    THEN LET all == CopyAll(v) IN Response("kSuccess", SubSeq(all, Len(all) - count + 1, Len(all)))
    ELSE Response("kPartialData", CopyAll(v))

GetDataSinceIndexReadFirst(v, start) ==
    IF v.rnum > 0 /\ v.r[0].packet_idx > start
    THEN Response("kPartialData", CopyAll(v))
    ELSE IF v.wnum > 0 /\ v.w[0].packet_idx <= start
    THEN Response("kSuccess", Copy(v.w, start - v.w[0].packet_idx, v.wnum))
    ELSE NoData

GetLatestData(v) ==
    IF v.wnum > 0 THEN Response("kSuccess", <<v.w[v.wnum - 1]>>)
    ELSE IF v.rnum > 0 THEN Response("kSuccess", <<v.r[v.rnum - 1]>>)
    ELSE NoData

GetLatestDataN(v, count) ==
    IF count = 0 \/ v.wnum + v.rnum = 0 THEN NoData
    ELSE IF count <= v.wnum
    THEN Response("kSuccess", Copy(v.w, v.wnum - count, v.wnum))
    ELSE IF count <= v.rnum + v.wnum
    THEN Response("kSuccess",
                  Copy(v.r, v.rnum + v.wnum - count, v.rnum) \o Copy(v.w, 0, v.wnum))
    ELSE Response("kPartialData", CopyAll(v))

GetDataSinceIndex(v, start) ==
    LET wfirst == v.w[0].packet_idx
        rfirst == v.r[0].packet_idx
    IN  IF v.wnum > 0 /\ v.w[v.wnum - 1].packet_idx < start THEN NoData
        ELSE IF v.wnum > 0 /\ wfirst <= start
        THEN Response("kSuccess", Copy(v.w, start - wfirst, v.wnum))
        ELSE IF v.wnum = 0 /\ v.rnum > 0 /\ v.r[v.rnum - 1].packet_idx < start THEN NoData
        ELSE IF v.rnum > 0 /\ rfirst <= start
        THEN Response("kSuccess", Copy(v.r, start - rfirst, v.rnum) \o Copy(v.w, 0, v.wnum))
        ELSE IF v.rnum > 0 THEN Response("kPartialData", CopyAll(v))
        ELSE NoData

-----------------------------------------------------------------------------
(* Properties.                                                             *)

\* GetLatestData: the packet published last when the query sampled the buffers, even if
\* the writer has gone on since.
LatestAnswers == \A r \in Current : LatestOK(GetLatestData(View(r)), reader[r].seen)

\* GetLatestData(count): the last count packets in order, or all there are and
\* kPartialData; never fewer than BufferSize once that many have been pushed.
CountAnswers ==
    \A r \in Current : \A count \in 0..(2 * BufferSize + 1) :
        CountOK(GetLatestDataN(View(r), count), reader[r].seen, count)

\* GetDataSinceIndex: all packets from start on, or the oldest retained one if start is
\* gone.  Before packet_idx wraps: wrapping "is currently not handled"
\* (device_data_storage.h:58).
SinceAnswers ==
    \A r \in Current : received <= IndexLimit =>
        \A start \in 0..(MaxPackets + 1) :
            SinceOK(GetDataSinceIndex(View(r), start), reader[r].seen, start)

\* "Return the most recent packet" (device_data_storage.h:52), whenever it is asked.
LatestIsMostRecent ==
    \A r \in Readers : reader[r].on => LatestOK(GetLatestData(View(r)), reader[r].seen)
=============================================================================
