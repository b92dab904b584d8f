------------------------ MODULE MCSchedulerServices ------------------------
EXTENDS SchedulerServices, FiniteSets, TLC

\* The objects created, the calls in flight and the calls that have returned are
\* few together.  What the lease of a server says that has neither a timestamp nor
\* a call is irrelevant: it is expired.  The oracle and the allocator meet only in
\* the leader key and in crashes: a behaviour exercises one of them.
MaxWork == 4
Few ==
    /\ Len(objects) + Cardinality({r \in Request : req[r].at # "idle"})
         + Cardinality(given) \div 2 <= MaxWork
    /\ \A s \in valid : ts[s] # NoTS \/ \E r \in Request : req[r].srv = s
    /\ (allocId = 0 /\ \A s \in Server : read[s] = Unread) \/ saved = 0

Symmetry == Permutations(Server) \cup Permutations(Request)
=============================================================================
