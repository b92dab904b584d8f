--------------------------- MODULE MCRaftCluster ---------------------------
(* Three stores, two replicas, and a Region on the first two stores. *)
EXTENDS RaftCluster

Peer(n) == [id |-> n, store |-> n]

\* A Region that has been split a few times, and the one that bootstrap makes.
SplitBefore ==
    [id |-> 1, start |-> 0, end |-> 2, version |-> 6, confVer |-> 2,
     peers |-> {Peer(1), Peer(2)}, leader |-> Peer(1), pending |-> {}]
Bootstrapped == [SplitBefore EXCEPT !.version = 1, !.confVer = 1, !.peers = {Peer(1)}]

\* At most two requests or faults, of kinds that bear on each other.
Kinds == {"lose", "lead", "timeout", "split", "balance", "remove", "restart"}
Pairs == {{"remove", k} : k \in {"lose", "timeout", "restart"}}
         \cup {{"balance", "lose"}, {"split", "lead"}, {"split", "restart"}}
Limits == {[k \in Kinds |-> IF k \in pair THEN 1 ELSE 0] : pair \in Pairs}
Calm == {[k \in Kinds |-> 0]}

\* Heartbeats on their way that no longer say how the Region is.
Late == {s \in Store : hb[s] # Idle /\ hb[s].region # real[hb[s].region.id]}
FewLate == ~strayed /\ Cardinality(Late) <= 1
=============================================================================
