---------------------------- MODULE MCOwnership ----------------------------
(* Instances of Ownership for TLC.                                         *)
EXTENDS Ownership, TLC

CONSTANTS h1, h2

SymmetryHandles == Permutations(Handles)

\* A place may allocate before it deletes, and lose an allocation before it makes another;
\* arrays are empty or not, and an answer has as many packets as an array has elements.
ASSUME BoundsReached ==
    /\ Cardinality(Generations) >= 2
    /\ \E n \in Counts : n >= 1 /\ n <= Cardinality(Slots)

\* Two objects of the application meet each other and, one at a time, those of the library;
\* one known leak at a time is followed further.
OneAtATime ==
    /\ at[h1] = Nothing \/ at[h2] = Nothing \/ \A p \in Places \ Handles : at[p] = Nothing
    /\ Cardinality({b \in heap : KnownLeak(b) /\ \A p \in Places : b \notin at[p].ptrs}) <= 2
=============================================================================
