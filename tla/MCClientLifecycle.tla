------------------------- MODULE MCClientLifecycle -------------------------
(* Instances of ClientLifecycle for TLC.                                   *)
EXTENDS ClientLifecycle

\* Two requests share the storage; the channel comes and goes; and no thread ever lacks a
\* call: a request opens one, the monitor two each time it finds the channel ready.
ASSUME BoundsReached ==
    MaxTags >= 2 /\ MaxChanges >= 2 /\ MaxCalls >= 1 + 2 * ((MaxChanges + 1) \div 2)
=============================================================================
