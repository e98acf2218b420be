----------------------------- MODULE PacketLog ------------------------------
(***************************************************************************)
(* What a packet storage promises, without buffers: a log that grows by    *)
(* one packet at a time, and queries that each see one suffix of it, fixed *)
(* when the query begins and not shorter than Retained packets once that   *)
(* many exist.  DoubleBuffer implements it.                                *)
(*                                                                         *)
(* There is one exception.  At the moment the log reaches a multiple of    *)
(* Retained, from the second on, a query may begin that sees neither the   *)
(* suffix nor anything that stays (Torn): the storage is exchanging its    *)
(* buffers.                                                                *)
(***************************************************************************)
EXTENDS Integers

CONSTANTS Readers,     \* the threads that query
          Retained,    \* packets that a query sees at least
          IndexLimit   \* packet_idx is cut to 0..IndexLimit-1

VARIABLES length,      \* packets in the log
          window       \* window[r]: the packets the query of r sees, by their place

logVars == <<length, window>>

Packet(i) == [packet_idx |-> i % IndexLimit, data |-> i]
Suffix(first, last) == [i \in first..(last - 1) |-> Packet(i)]

Idle == "idle"
Torn == "torn"
Sees(packets) == <<"sees", packets>>

LogInit == length = 0 /\ window = [r \in Readers |-> <<Idle>>]

Append1 == length' = length + 1 /\ UNCHANGED window

Begin(r) ==
    /\ window[r] = <<Idle>>
    /\ \E first \in 0..length :
         /\ first = 0 \/ length - first >= Retained
         /\ window' = [window EXCEPT ![r] = Sees(Suffix(first, length))]
    /\ UNCHANGED length

BeginTorn(r) ==
    /\ window[r] = <<Idle>>
    /\ \E k \in 2..length : length = k * Retained
    /\ window' = [window EXCEPT ![r] = <<Torn>>]
    /\ UNCHANGED length

End(r) ==
    /\ window[r] # <<Idle>>
    /\ window' = [window EXCEPT ![r] = <<Idle>>]
    /\ UNCHANGED length

LogNext == Append1 \/ \E r \in Readers : Begin(r) \/ BeginTorn(r) \/ End(r)

LogSpec == LogInit /\ [][LogNext]_logVars
=============================================================================
