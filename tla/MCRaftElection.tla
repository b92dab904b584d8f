--------------------------- MODULE MCRaftElection ---------------------------
EXTENDS RaftElection, TLC

\* At most three vote messages are in flight, or one and a rejected heartbeat, and
\* two elections have been won.  What follows a regression is outside the properties
\* and is not explored.
Few ==
    /\ ~regressed
    /\ Cardinality(requests) + Cardinality(responses) + 2 * Cardinality(rejects) <= 3
    /\ Cardinality(leaders) <= 2

Symmetry == Permutations(Server)
=============================================================================
