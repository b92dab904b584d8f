-------------------------- MODULE SchedulerLeader --------------------------
(***************************************************************************)
(* How the scheduler servers elect their leader: leaderLoop and            *)
(* campaignLeader of scheduler/server/server.go, member/leader.go and      *)
(* member/lease.go, over an etcd with leases.                              *)
(*                                                                         *)
(* A server campaigns with a new lease, renews it in goroutines of its     *)
(* own, and believes in it until the time it computed from the start of    *)
(* the last renewal.  etcd drops a lease, and the leader key with it, some *)
(* time after the deadline it computed when it answered.  Time passes      *)
(* between any two steps, so that answers are late and goroutines pause.   *)
(*                                                                         *)
(* The leader loop's part of the timestamp oracle runs inside; the calls   *)
(* of GetRespTS, which only read it, are left to TSO.  The module          *)
(* implements TSO without calls, with `valid' read as the servers whose    *)
(* oracle has a lease not yet expired.                                     *)
(***************************************************************************)
EXTENDS LeaderKey, Integers, Sequences, FiniteSets

CONSTANTS
    Wall, Ms, SaveInterval, MaxObjects, MaxEra,     \* see TSO
    TTL,        \* LeaderLease
    MaxNow,     \* bound on time
    MaxLease,   \* bound on the leases granted
    MaxMoves,   \* bound on the changes of the etcd leader
    MaxCrash    \* bound on the crashes

ASSUME LeaderAssumption == TTL \in Nat \ {0} /\ MaxLease \in Nat

ASSUME OracleAssumption ==
    /\ Ms \in Nat \ {0} /\ SaveInterval \in Nat \ {0} /\ Wall \subseteq Nat
    /\ MaxObjects \in Nat /\ MaxEra \in Nat

VARIABLES
    saved, objects, ts, at, mark, lastSaved, era, eras,     \* see TSO
    now,        \* monotonic time
    etcdLeader, \* Server.Lead() of etcd
    pc,         \* where leaderLoop and campaignLeader of a server are
    leader,     \* Member.leader, what GetLeader returns
    since,      \* `start' of the Grant under way
    grants,     \* leases granted so far; a lease is named by its number
    deadline,   \* etcd's deadline of a lease, 0 once it is gone
    keyLease,   \* the lease the leader key is attached to
    lease,      \* the lease of the campaign of a server
    tsLease,    \* TimestampOracle.lease, 0 for nil
    expire,     \* expireTime of a LeaderLease
    loops,      \* leases whose KeepAlive loop runs
    keeps,      \* KeepAliveOnce calls: [lease, start, answered]
    faults      \* moves of the etcd leader and crashes so far

tso == <<saved, objects, ts, at, mark, lastSaved, era, eras>>
leases == <<since, grants, deadline, lease, expire, loops, keeps>>
vars == <<holder, tso, now, etcdLeader, pc, leader, leases, keyLease, tsLease, faults>>

Lease == 1 .. MaxLease
NoLease == 0

\* IsExpired of a lease.
ExpireAtDeadline(l) == now > expire[l] + TTL        \* mutant: a grace of one TTL
IsExpired(l) == now > expire[l]

\* Servers whose oracle has a lease that is not expired.
Unexpired == {s \in Server : tsLease[s] # NoLease /\ ~IsExpired(tsLease[s])}

T == INSTANCE TSO WITH valid <- Unexpired, MaxLogical <- 0,
                       Request <- {}, Count <- {}, req <- [r \in {} |-> None], given <- {}, repeated <- ~TRUE

Init ==
    /\ holder = None /\ saved = 0 /\ objects = <<>>
    /\ ts = [s \in Server |-> T!NoTS] /\ at = [s \in Server |-> "follower"]
    /\ mark = [s \in Server |-> 0] /\ lastSaved = [s \in Server |-> 0]
    /\ era = [s \in Server |-> 0] /\ eras = 0
    /\ now = 1 /\ etcdLeader \in Server
    /\ pc = [s \in Server |-> "check"] /\ leader = [s \in Server |-> None]
    /\ since = [s \in Server |-> 0]
    /\ grants = 0 /\ deadline = [l \in Lease |-> 0]
    /\ keyLease = NoLease /\ lease = [s \in Server |-> NoLease]
    /\ tsLease = [s \in Server |-> NoLease] /\ expire = [l \in Lease |-> 0]
    /\ loops = {} /\ keeps = {}
    /\ faults = [moves |-> 0, crashes |-> 0]

Goto(s, l) == pc' = [pc EXCEPT ![s] = l]
SetLeader(s, m) == leader' = [leader EXCEPT ![s] = m]

-----------------------------------------------------------------------------
(* Time, etcd and faults.                                                  *)

Tick ==
    /\ now < MaxNow
    /\ now' = now + 1
    /\ UNCHANGED <<holder, tso, etcdLeader, pc, leader, leases, keyLease, tsLease, faults>>

\* The etcd cluster elects another leader, or CheckPriority, ResignLeader or an
\* operator moves it.
MoveEtcdLeader(s) ==
    /\ s # etcdLeader /\ faults.moves < MaxMoves
    /\ etcdLeader' = s
    /\ faults' = [faults EXCEPT !.moves = @ + 1]
    /\ UNCHANGED <<holder, tso, now, pc, leader, leases, keyLease, tsLease>>

\* A lease is gone, and the leader key with it if it is attached to it.
Forget(l) ==
    /\ deadline' = [deadline EXCEPT ![l] = 0]
    /\ IF keyLease = l /\ holder # None
       THEN DropLeaderKey /\ keyLease' = NoLease
       ELSE UNCHANGED <<holder, keyLease>>

EtcdExpires(l) ==
    /\ deadline[l] # 0 /\ now > deadline[l]
    /\ Forget(l)
    /\ UNCHANGED <<tso, now, etcdLeader, pc, leader, since, grants, lease, expire,
                   loops, keeps, tsLease, faults>>

\* The process ends and is started again.
CrashServer(s) ==
    LET own == {l \in Lease : l \in {lease[s], tsLease[s]}}
    IN  /\ faults.crashes < MaxCrash
        /\ faults' = [faults EXCEPT !.crashes = @ + 1]
        /\ Goto(s, "check") /\ SetLeader(s, None)
        /\ tsLease' = [tsLease EXCEPT ![s] = NoLease]
        /\ loops' = loops \ own
        /\ keeps' = {k \in keeps : k.lease \notin own}
        /\ lease' = [lease EXCEPT ![s] = NoLease]
        /\ expire' = [l \in Lease |-> IF l \in own THEN 0 ELSE expire[l]]
        /\ ts' = [ts EXCEPT ![s] = T!NoTS] /\ at' = [at EXCEPT ![s] = "follower"]
        /\ mark' = [mark EXCEPT ![s] = 0] /\ lastSaved' = [lastSaved EXCEPT ![s] = 0]
        /\ UNCHANGED <<holder, saved, objects, era, eras, now, etcdLeader, since, grants,
                       deadline, keyLease>>

-----------------------------------------------------------------------------
(* leaderLoop.                                                             *)

outside == <<now, etcdLeader, tsLease, faults>>

\* CheckLeader finds no leader, or one to watch.  A server that finds its own key
\* deletes it, and then watches the leader that it was: WatchLeader stores it.
CheckLeader(s) ==
    /\ pc[s] = "check"
    /\ IF holder = None THEN Goto(s, "campaign") /\ UNCHANGED leader
                        ELSE Goto(s, "watch") /\ SetLeader(s, holder)
    /\ IF holder = s THEN DropLeaderKey /\ keyLease' = NoLease
                     ELSE UNCHANGED <<holder, keyLease>>
    /\ UNCHANGED <<tso, outside, leases>>

\* WatchLeader returns once the key it has seen is deleted, or when the watch fails.
WatchLeader(s) ==
    /\ pc[s] = "watch"
    /\ Goto(s, "campaign") /\ SetLeader(s, None)
    /\ UNCHANGED <<holder, tso, outside, leases, keyLease>>

\* Only the leader of etcd campaigns.
SkipCampaign(s) ==
    /\ pc[s] = "campaign" /\ etcdLeader # s
    /\ Goto(s, "check")
    /\ UNCHANGED <<holder, tso, outside, leader, leases, keyLease>>

-----------------------------------------------------------------------------
(* campaignLeader.                                                         *)

GrantStart(s) ==
    /\ pc[s] = "campaign" /\ etcdLeader = s /\ grants < MaxLease
    /\ Goto(s, "grant")
    /\ since' = [since EXCEPT ![s] = now]
    /\ UNCHANGED <<holder, tso, outside, leader, grants, deadline, lease, expire, loops,
                   keeps, keyLease>>

\* What a renewal or a grant that began at `start' promises the server.
FromNow(start) == now + TTL                  \* mutant: counted from the answer
FromStart(start) == start + TTL

\* etcd answers Grant.
Grant(s) ==
    LET l == grants + 1
    IN  /\ pc[s] = "grant" /\ grants < MaxLease
        /\ Goto(s, "create")
        /\ grants' = l
        /\ deadline' = [deadline EXCEPT ![l] = now + TTL]
        /\ lease' = [lease EXCEPT ![s] = l]
        /\ expire' = [expire EXCEPT ![l] = FromStart(since[s])]
        /\ since' = [since EXCEPT ![s] = 0]
        /\ UNCHANGED <<holder, tso, outside, leader, loops, keeps, keyLease>>

\* The txn of CampaignLeader creates the key, and the KeepAlive loop starts; when an
\* error hides the success the campaign is over.
CampaignLeader(s) ==
    /\ pc[s] = "create" /\ deadline[lease[s]] # 0
    /\ keyLease' = lease[s]
    /\ \/ Goto(s, "sync") /\ loops' = loops \cup {lease[s]}
       \/ Goto(s, "reset") /\ UNCHANGED loops
    /\ UNCHANGED <<outside, leader, since, grants, deadline, lease, expire, keeps>>
    /\ T!Win(s)

CampaignFails(s) ==
    /\ pc[s] = "create" /\ (holder # None \/ deadline[lease[s]] = 0)
    /\ Goto(s, "close")
    /\ UNCHANGED <<holder, tso, outside, leader, leases, keyLease>>

\* SyncTimestamp.
SyncTimestamp(s) ==
    /\ pc[s] = "sync" /\ at[s] \in {"elected", "loaded"}
    /\ UNCHANGED <<outside, pc, leader, leases, keyLease>>
    /\ T!loadTimestamp(s) \/ \E w \in Wall : T!SyncSave(s, w)

SyncTimestampStore(s) ==
    /\ pc[s] = "sync" /\ at[s] = "saved"
    /\ tsLease' = [tsLease EXCEPT ![s] = lease[s]]
    /\ T!StorePointer(s, mark[s])
    /\ UNCHANGED <<holder, saved, lastSaved, era, eras, now, etcdLeader, pc, leader, leases,
                   keyLease, faults>>

\* createRaftCluster succeeds, and EnableLeader makes IsLeader true.
EnableLeader(s) ==
    /\ pc[s] = "sync" /\ at[s] = "serving"
    /\ Goto(s, "lead") /\ SetLeader(s, s)
    /\ UNCHANGED <<holder, tso, outside, leases, keyLease>>

\* The ticker of UpdateTimestamp.
UpdateTimestamp(s) ==
    /\ pc[s] = "lead"
    /\ UNCHANGED <<outside, pc, leader, leases, keyLease>>
    /\ T!UpdateSave(s) \/ T!UpdateStore(s) \/ \E w \in Wall : T!UpdateBegin(s, w)

\* campaignLeader returns: an error, a failed save, the expired lease or another
\* etcd leader.  The deferred calls run in reverse order: DisableLeader first.
Leave(s) ==
    /\ \/ pc[s] = "sync" /\ at[s] # "saved"
       \/ pc[s] = "lead" /\ at[s] = "serving" /\ (IsExpired(lease[s]) \/ etcdLeader # s)
       \/ pc[s] = "lead" /\ at[s] \in {"window", "failed"}
    /\ Goto(s, "reset") /\ SetLeader(s, None)
    /\ UNCHANGED <<holder, tso, outside, leases, keyLease>>

ResetTimestamp(s) ==
    /\ pc[s] = "reset"
    /\ Goto(s, "close")
    /\ UNCHANGED <<outside, leader, leases, keyLease>>
    /\ T!StepDown(s)

\* cancel() and the first half of lease.Close().  The calls under way end with their
\* context; an answer that is there may still reach the KeepAlive loop.
Close(s) ==
    LET l == lease[s]
        late == {k \in keeps : k.lease = l /\ k.answered}
    IN  /\ pc[s] = "close"
        /\ Goto(s, "revoke")
        /\ expire' = [expire EXCEPT ![l] = 0]
        /\ keeps' = {k \in keeps : k.lease # l} \cup late
        /\ loops' = IF late = {} THEN loops \ {l} ELSE loops
        /\ UNCHANGED <<holder, tso, outside, leader, since, grants, deadline, lease, keyLease>>

\* Revoke gets through, or its second runs out.
Revoke(s) ==
    /\ pc[s] = "revoke"
    /\ Goto(s, "check")
    /\ lease' = [lease EXCEPT ![s] = NoLease]
    /\ Forget(lease[s]) \/ UNCHANGED <<holder, deadline, keyLease>>
    /\ UNCHANGED <<tso, outside, leader, since, grants, expire, loops, keeps>>

-----------------------------------------------------------------------------
(* KeepAlive and its workers.                                              *)

quiet == <<tso, now, etcdLeader, pc, leader, tsLease, faults>>

\* A worker calls KeepAliveOnce (one call at a time is modelled).
KeepAliveOnce(l) ==
    /\ l \in loops /\ \A k \in keeps : k.lease # l
    /\ \E s \in Server : lease[s] = l /\ pc[s] # "revoke"
    /\ keeps' = keeps \cup {[lease |-> l, start |-> now, answered |-> FALSE]}
    /\ UNCHANGED <<holder, quiet, since, grants, deadline, lease, expire, loops, keyLease>>

\* etcd renews the lease, if it still has it; the call fails if not.
EtcdRenews(k) ==
    /\ ~k.answered
    /\ IF deadline[k.lease] # 0
       THEN /\ deadline' = [deadline EXCEPT ![k.lease] = now + TTL]
            /\ keeps' = (keeps \ {k}) \cup {[k EXCEPT !.answered = TRUE]}
       ELSE keeps' = keeps \ {k} /\ UNCHANGED deadline
    /\ UNCHANGED <<holder, quiet, since, grants, lease, expire, loops, keyLease>>

\* The loop takes the answer.  It stores it also when its context is done, if the
\* select picks this branch, and then after Close has reset expireTime.
KeepAlive(k) ==
    /\ k.answered /\ k.lease \in loops
    /\ expire' = [expire EXCEPT ![k.lease] = FromStart(k.start)]
    /\ keeps' = keeps \ {k}
    /\ loops' = IF \E s \in Server : lease[s] = k.lease /\ pc[s] # "revoke" THEN loops
                ELSE loops \ {k.lease}
    /\ UNCHANGED <<holder, quiet, since, grants, deadline, lease, keyLease>>

\* The loop ends: its context is done, or nothing came for the length of a lease.
KeepAliveEnds(l) ==
    /\ l \in loops
    /\ now >= expire[l]
    /\ loops' = loops \ {l}
    /\ keeps' = {k \in keeps : k.lease # l}
    /\ UNCHANGED <<holder, quiet, since, grants, deadline, lease, expire, keyLease>>

-----------------------------------------------------------------------------
ServerStep(s) ==
    \/ CheckLeader(s) \/ WatchLeader(s) \/ SkipCampaign(s)
    \/ GrantStart(s) \/ Grant(s) \/ CampaignLeader(s) \/ CampaignFails(s)
    \/ SyncTimestamp(s) \/ SyncTimestampStore(s) \/ EnableLeader(s) \/ UpdateTimestamp(s)
    \/ Leave(s) \/ ResetTimestamp(s) \/ Close(s) \/ Revoke(s)

Next ==
    \/ Tick
    \/ \E s \in Server : ServerStep(s) \/ MoveEtcdLeader(s) \/ CrashServer(s)
    \/ \E l \in Lease : EtcdExpires(l) \/ KeepAliveOnce(l) \/ KeepAliveEnds(l)
    \/ \E k \in keeps : EtcdRenews(k) \/ KeepAlive(k)

Spec == Init /\ [][Next]_vars

-----------------------------------------------------------------------------
\* The lease protocol gives the oracle what TSO assumes of leadership: while a server
\* that has a timestamp believes in its lease, etcd keeps the leader key for it,
\* however late answers are and whenever goroutines pause.
ImplementsTSO == T!TSOSpec

\* Of the servers that serve, at most one believes in its lease, and the leader key
\* names it.
OneLeaderServes ==
    \A s \in Server :
        leader[s] = s /\ ts[s] # T!NoTS /\ s \in Unexpired => holder = s
=============================================================================
