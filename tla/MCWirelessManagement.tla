----------------------- MODULE MCWirelessManagement ------------------------
(* Instances of WirelessManagement for TLC.                                *)
EXTENDS WirelessManagement, FiniteSets

CONSTANTS s1, s2

\* A stream and the one that replaces it; two senders at once.
ASSUME BoundsReached == MaxCalls >= 2 /\ Cardinality(Senders) >= 2
=============================================================================
