-------------------------- MODULE MCPacketStorage ---------------------------
(* Instances for TLC of the two storages.                                  *)
EXTENDS PacketStorage, TLC

Symmetry == Permutations(Readers)

\* Four fills of a buffer and a packet more: each buffer has been overwritten twice,
\* once at least before packet_idx wraps, and it wraps.
ASSUME BoundsReached ==
    /\ MaxPackets >= 4 * BufferSize + 1
    /\ IndexLimit \in (3 * BufferSize)..(MaxPackets - 1)
=============================================================================
