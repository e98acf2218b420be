--------------------------- MODULE MCRequestTags ---------------------------
\* An instance for TLC: three application threads and four requests.
EXTENDS RequestTags, TLC

CONSTANTS t1, t2, t3

ThreadSet == {t1, t2, t3}
Symmetry == Permutations(ThreadSet)
=============================================================================
