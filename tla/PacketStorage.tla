--------------------------- MODULE PacketStorage ---------------------------
(***************************************************************************)
(* The queries of DeviceDataStorage and of BaseStationDataStorage on the   *)
(* same buffers: the code of PushData is the same in the two classes.      *)
(***************************************************************************)
EXTENDS DeviceDataStorage

BaseStation == INSTANCE BaseStationDataStorage

\* The invariants of BaseStationDataStorage, by names that a configuration can use.
\* GetLatestData(count) and GetDataSinceIndex of the base station: the last count packets,
\* or all there are; all packets from one that exists.
BaseStationAnswers == BaseStation!CountAnswers /\ BaseStation!SinceRetained
\* GetLatestData of the base station: the most recent packet, where it answers with one.
BaseStationLatest == BaseStation!LatestAnswers
=============================================================================
