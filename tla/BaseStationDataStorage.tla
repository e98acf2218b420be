----------------------- MODULE BaseStationDataStorage -----------------------
(***************************************************************************)
(* The three queries of BaseStationDataStorage.  Its PushData and its      *)
(* buffers are those of DeviceDataStorage, but a base station packet has   *)
(* no members to destroy: Destroy and Fill are the two ends of the         *)
(* assignment to the slot.                                                 *)
(***************************************************************************)
EXTENDS DoubleBuffer

\* A slip: the read buffer is asked first.
GetLatestDataReadFirst(v) ==
    IF v.rnum > 0 THEN Response("kSuccess", <<v.r[v.rnum - 1]>>)
    ELSE IF v.wnum > 0 THEN Response("kSuccess", <<v.w[v.wnum - 1]>>)
    ELSE NoData

\* A slip: the read buffer comes last.
GetLatestDataNSwapped(v, count) ==
    IF count \in 1..(v.rnum + v.wnum)
    THEN LET all == Copy(v.w, 0, v.wnum) \o Copy(v.r, 0, v.rnum)
         IN  Response("kSuccess", SubSeq(all, Len(all) - count + 1, Len(all)))
    ELSE NoData

\* A slip: the read buffer alone is copied.
GetDataSinceIndexReadOnly(v, start) ==
    IF v.rnum > 0 /\ v.r[0].packet_idx <= start
    THEN Response("kSuccess", Copy(v.r, start - v.r[0].packet_idx, v.rnum))
    ELSE NoData

\* When the write buffer is empty, the index found in the read buffer is used in the
\* write buffer (line 100).
GetLatestData(v) ==
    IF v.wnum > 0 THEN Response("kSuccess", <<v.w[v.wnum - 1]>>)
    ELSE IF v.rnum > 0 THEN Response("kSuccess", <<v.w[v.rnum - 1]>>)
    ELSE NoData

GetLatestDataN(v, count) ==
    IF count = 0 \/ v.wnum + v.rnum = 0 THEN NoData
    ELSE IF count <= v.wnum
    THEN Response("kSuccess", Copy(v.w, v.wnum - count, v.wnum))
    ELSE IF count <= v.rnum + v.wnum
    THEN Response("kSuccess",
                  Copy(v.r, v.rnum + v.wnum - count, v.rnum) \o Copy(v.w, 0, v.wnum))
    ELSE Response("kPartialData", CopyAll(v))

\* new BaseStationPacket[n] with a negative n.
BadLength == Response("bad_array_new_length", <<>>)

\* No branch asks whether the read buffer's last packet is older than start.
GetDataSinceIndex(v, start) ==
    LET wfirst == v.w[0].packet_idx
        rfirst == v.r[0].packet_idx
    IN  IF v.wnum > 0 /\ v.w[v.wnum - 1].packet_idx < start THEN NoData
        ELSE IF v.wnum > 0 /\ wfirst <= start
        THEN Response("kSuccess", Copy(v.w, start - wfirst, v.wnum))
        ELSE IF v.rnum > 0 /\ rfirst <= start
        THEN IF v.rnum - (start - rfirst) + v.wnum < 0 THEN BadLength
             ELSE Response("kSuccess", Copy(v.r, start - rfirst, v.rnum) \o Copy(v.w, 0, v.wnum))
        ELSE IF v.rnum > 0 THEN Response("kPartialData", CopyAll(v))
        ELSE NoData

-----------------------------------------------------------------------------
(* Properties.                                                             *)

\* GetLatestData(count): the last count packets in order, or all there are.
CountAnswers ==
    \A r \in Current : \A count \in 0..(2 * BufferSize + 1) :
        CountOK(GetLatestDataN(View(r), count), reader[r].seen, count)

\* GetDataSinceIndex, asked for a packet that has been published.
SinceRetained ==
    \A r \in Current : received <= IndexLimit =>
        \A start \in 0..(reader[r].seen - 1) :
            SinceOK(GetDataSinceIndex(View(r), start), reader[r].seen, start)

\* GetLatestData: the most recent packet, unless the write buffer is empty and the read
\* buffer is not.  "Return the most recent packet" (basestation_data_storage.h:52) makes no
\* exception; the slip of line 100 is one.
LatestAnswers ==
    \A r \in Current : View(r).wnum > 0 \/ View(r).rnum = 0 =>
        LatestOK(GetLatestData(View(r)), reader[r].seen)
=============================================================================
