------------------------- MODULE MCSchedulerLeader -------------------------
EXTENDS SchedulerLeader, TLC

\* One fault: the etcd leader moves, or a server crashes.
OneFault == faults.moves + faults.crashes <= 1

\* Servers that may not campaign go round leaderLoop only before the first campaign:
\* what they do there touches nothing.
IdleRest ==
    \A s \in Server : pc[s] \in {"watch", "campaign"} /\ etcdLeader # s => grants = 0

\* Only the first leader renews its lease and updates its timestamp.
FirstLeads ==
    /\ \A k \in keeps : k.lease = 1
    /\ \A s \in Server : at[s] \in {"window", "store"} => grants = 1

\* The clock of the first leader stands at its start when it synchronises.
SlowClock == objects # <<>> => objects[1].physical = Ms

Few == OneFault /\ IdleRest /\ FirstLeads /\ SlowClock

Symmetry == Permutations(Server)
=============================================================================
