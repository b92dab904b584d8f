----------------------------- MODULE LeaderKey -----------------------------
(***************************************************************************)
(* The "leader" key of the etcd cluster below the scheduler, and the       *)
(* transactions that compare it.  Its value names the server that created  *)
(* it, not the lease it is attached to.                                    *)
(***************************************************************************)
CONSTANTS
    Server,     \* the scheduler servers
    None        \* the key does not exist

ASSUME ServerAssumption == None \notin Server

VARIABLE holder     \* the value of the leader key

\* CampaignLeader's txn: the key is created if its CreateRevision is 0.
CreateLeaderKey(s) ==
    /\ holder = None
    /\ holder' = s

\* The key is deleted by its owner, or with the lease it is attached to.
DropLeaderKey ==
    /\ holder # None
    /\ holder' = None

\* The comparison that a write guarded by leadership adds to its txn.
leaderCmp(s) == holder = s
=============================================================================
