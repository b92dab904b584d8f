----------------------- MODULE SchedulerLeaderProofs -----------------------
(***************************************************************************)
(* The lease protocol keeps the leader key for the server that believes in *)
(* its lease, for any number of servers and leases, any TTL and any        *)
(* delays; and with it the leader loops implement TSO.                     *)
(***************************************************************************)
EXTENDS SchedulerLeader, TLAPS

\* A server past its Grant has a lease; past CampaignLeader it has created the key.
Granted == {"create", "sync", "lead", "reset", "close", "revoke"}
Holding == {"sync", "lead", "reset"}
Location == {"check", "watch", "campaign", "grant"} \cup Granted

LeaderType ==
    /\ now \in Nat /\ grants \in 0 .. MaxLease
    /\ pc \in [Server -> Location] /\ since \in [Server -> Nat]
    /\ lease \in [Server -> 0 .. grants] /\ tsLease \in [Server -> 0 .. grants]
    /\ deadline \in [Lease -> Nat] /\ expire \in [Lease -> Nat]
    /\ keeps \subseteq [lease : 1 .. grants, start : Nat, answered : BOOLEAN]
    /\ at = [s \in Server |-> at[s]] /\ ts = [s \in Server |-> ts[s]]

\* Every campaign has a lease of its own, from Grant to Revoke.
OwnLease ==
    /\ \A s \in Server : lease[s] # NoLease <=> pc[s] \in Granted
    /\ \A s, t \in Server : lease[s] = lease[t] /\ lease[s] # NoLease => s = t
    /\ \A s, t \in Server : tsLease[s] \in {lease[t], tsLease[t]} /\ tsLease[s] # NoLease => s = t

\* What was asked for was asked for in the past, and etcd promises one TTL at most.
PastAsked ==
    /\ now # 0
    /\ \A s \in Server : since[s] <= now
    /\ \A k \in keeps : k.start <= now
    /\ \A l \in Lease : deadline[l] <= now + TTL

\* A time up to which a server may believe in a lease is over, or etcd keeps the lease
\* at least as long.
Kept(l, time) == time < now \/ (deadline[l] # 0 /\ time <= deadline[l])

Promised ==
    \A s \in Server : lease[s] # NoLease =>
        /\ Kept(lease[s], expire[lease[s]])
        /\ \A k \in keeps : k.lease = lease[s] /\ k.answered => Kept(k.lease, k.start + TTL)

\* As long as etcd keeps the lease of a server that has created the key, the key is there.
KeyAttached ==
    \A s \in Server : pc[s] \in Holding /\ deadline[lease[s]] # 0 =>
        holder = s /\ keyLease = lease[s]

\* The oracle has a timestamp only under the lease of the campaign that set it.
SyncedByLease ==
    \A s \in Server :
        /\ pc[s] \notin Holding => at[s] = "follower" /\ ts[s] = T!NoTS
        /\ ts[s] # T!NoTS \/ at[s] \in {"serving", "window", "store"} => tsLease[s] = lease[s]

LeaseInv == LeaderType /\ OwnLease /\ PastAsked /\ Promised /\ KeyAttached /\ SyncedByLease

LEMMA LeaseInvInit == Init => LeaseInv
<1> SUFFICES ASSUME Init PROVE LeaseInv
  BY Zenon
<1> USE LeaderAssumption DEF Init, Lease, NoLease, Granted, Holding, Location
<1>1. LeaderType
  BY DEF LeaderType
<1>2. OwnLease /\ PastAsked /\ Promised
  BY DEF OwnLease, PastAsked, Promised
<1>3. KeyAttached /\ SyncedByLease
  BY Zenon DEF KeyAttached, SyncedByLease
<1> QED
  BY <1>1, <1>2, <1>3, Zenon DEF LeaseInv

\* Time passes.
LEMMA TickInv == LeaseInv /\ Tick => LeaseInv'
<1> SUFFICES ASSUME LeaseInv, Tick PROVE LeaseInv'
  BY Zenon
<1> USE LeaderAssumption DEF LeaseInv, Tick, leases, tso
<1>1. LeaderType'
  BY DEF LeaderType
<1>2. OwnLease'
  BY Zenon DEF OwnLease
<1>3. PastAsked'
  BY DEF PastAsked, LeaderType, Lease
<1>4. Promised'
  BY SMTT(30) DEF Promised, Kept, LeaderType, Lease, NoLease
<1>5. KeyAttached' /\ SyncedByLease'
  BY Zenon DEF KeyAttached, SyncedByLease
<1> QED
  BY <1>1, <1>2, <1>3, <1>4, <1>5, Zenon DEF LeaseInv

\* The leader loop of a server moves on and touches neither leases nor the key.
LEMMA MoveInv ==
    ASSUME LeaseInv, NEW s \in Server,
           UNCHANGED <<now, since, grants, deadline, lease, expire, keeps, tsLease>>,
           NEW l \in Location, pc' = [pc EXCEPT ![s] = l],
           pc[s] \in Granted <=> l \in Granted,
           l \in Holding => pc[s] \in Holding,
           UNCHANGED <<holder, keyLease>>,
           at' = [t \in Server |-> at'[t]], ts' = [t \in Server |-> ts'[t]],
           \A t \in Server \ {s} : at'[t] = at[t] /\ ts'[t] = ts[t],
           l \notin Holding => at'[s] = "follower" /\ ts'[s] = T!NoTS,
           ts'[s] # T!NoTS \/ at'[s] \in {"serving", "window", "store"} =>
               ts[s] # T!NoTS \/ at[s] \in {"serving", "window", "store"}
    PROVE  LeaseInv'
<1>1. LeaderType'
  BY Zenon DEF LeaseInv, LeaderType
<1>2. OwnLease'
  BY Zenon DEF LeaseInv, OwnLease, LeaderType
<1>3. PastAsked'
  BY Zenon DEF LeaseInv, PastAsked
<1>4. Promised'
  BY Zenon DEF LeaseInv, Promised, Kept
<1>5. KeyAttached'
  BY Zenon DEF LeaseInv, KeyAttached, LeaderType
<1>6. SyncedByLease'
  BY Zenon DEF LeaseInv, SyncedByLease, LeaderType
<1> QED
  BY <1>1, <1>2, <1>3, <1>4, <1>5, <1>6, Zenon DEF LeaseInv

\* A server in leaderLoop deletes the key that it finds to be its own.
LEMMA DropInv ==
    ASSUME LeaseInv, NEW s \in Server, CheckLeader(s), holder = s
    PROVE  LeaseInv'
<1> USE LeaderAssumption DEF LeaseInv, CheckLeader, Goto, DropLeaderKey, tso, outside, leases
<1>1. LeaderType'
  BY Zenon DEF LeaderType, Lease, NoLease, Location, Granted
<1>2. OwnLease'
  BY Zenon DEF OwnLease, LeaderType, Lease, NoLease, Granted
<1>3. PastAsked'
  BY Zenon DEF PastAsked, LeaderType, Lease
<1>4. Promised'
  BY Zenon DEF Promised, Kept, PastAsked, OwnLease, LeaderType, Lease, NoLease
<1>5. KeyAttached'
  BY ZenonT(30) DEF KeyAttached, OwnLease, LeaderType, Lease, NoLease, Holding, Granted
<1>6. SyncedByLease'
  BY Zenon DEF SyncedByLease, OwnLease, LeaderType, Holding, Granted
<1> QED
  BY <1>1, <1>2, <1>3, <1>4, <1>5, <1>6, Zenon DEF LeaseInv

\* Grant is called.
LEMMA GrantStartInv ==
    ASSUME LeaseInv, NEW s \in Server, GrantStart(s)
    PROVE  LeaseInv'
<1> USE LeaderAssumption DEF LeaseInv, GrantStart, Goto, outside, tso
<1>1. LeaderType'
  BY Zenon DEF LeaderType, Lease, NoLease, Location, Granted
<1>2. OwnLease'
  BY Zenon DEF OwnLease, LeaderType, Lease, NoLease, Granted
<1>3. PastAsked'
  BY DEF PastAsked, LeaderType, Lease
<1>4. Promised'
  BY Zenon DEF Promised, Kept, PastAsked, OwnLease, LeaderType, Lease, NoLease
<1>5. KeyAttached'
  BY Zenon DEF KeyAttached, OwnLease, LeaderType, Lease, NoLease, Holding, Granted
<1>6. SyncedByLease'
  BY Zenon DEF SyncedByLease, OwnLease, LeaderType, Holding, Granted
<1> QED
  BY <1>1, <1>2, <1>3, <1>4, <1>5, <1>6, Zenon DEF LeaseInv

\* etcd grants a lease that nobody has had before.
LEMMA GrantInv ==
    ASSUME LeaseInv, NEW s \in Server, Grant(s)
    PROVE  LeaseInv'
<1>l. PICK l : l = grants + 1
  BY Zenon
<1>0. LeaderType /\ OwnLease /\ PastAsked /\ Promised /\ KeyAttached /\ SyncedByLease
  BY Zenon DEF LeaseInv
<1>g. /\ pc[s] = "grant" /\ pc' = [pc EXCEPT ![s] = "create"]
      /\ grants < MaxLease /\ grants' = l
      /\ deadline' = [deadline EXCEPT ![l] = now + TTL]
      /\ lease' = [lease EXCEPT ![s] = l]
      /\ expire' = [expire EXCEPT ![l] = since[s] + TTL]
      /\ since' = [since EXCEPT ![s] = 0]
      /\ UNCHANGED <<holder, keyLease, keeps, now, tsLease, at, ts>>
  BY <1>l, Zenon DEF Grant, Goto, outside, tso, FromStart
<1>a. /\ l \in Lease /\ l \notin 0 .. grants /\ l # NoLease /\ grants' \in 0 .. MaxLease
      /\ 0 .. grants \subseteq 0 .. grants' /\ 1 .. grants \subseteq 1 .. grants'
      /\ l \in 0 .. grants'
  <2>1. grants \in 0 .. MaxLease /\ MaxLease \in Nat /\ grants < MaxLease /\ grants' = grants + 1
    BY <1>0, <1>g, <1>l, LeaderAssumption, Zenon DEF LeaderType
  <2> QED
    BY <1>l, <2>1 DEF Lease, NoLease
<1>b. now + TTL \in Nat /\ since[s] + TTL \in Nat /\ since[s] <= now /\ now + TTL # 0
  BY <1>0, LeaderAssumption DEF LeaderType, PastAsked
<1>d. \A t \in Server : lease[t] \in 0 .. grants /\ tsLease[t] \in 0 .. grants
  BY <1>0, Zenon DEF LeaderType
<1>c. /\ lease'[s] = l /\ pc'[s] = "create"
      /\ \A t \in Server \ {s} : lease'[t] = lease[t] /\ pc'[t] = pc[t]
  BY <1>0, <1>g, Zenon DEF LeaderType
<1>e. /\ deadline'[l] = now + TTL /\ expire'[l] = since[s] + TTL
      /\ \A m \in Lease \ {l} : deadline'[m] = deadline[m] /\ expire'[m] = expire[m]
  BY <1>0, <1>a, <1>g, Zenon DEF LeaderType
<1>f. \A t \in Server : lease[t] # NoLease => lease[t] \in Lease
  BY <1>0, LeaderAssumption DEF LeaderType, Lease, NoLease
<1>1. LeaderType'
  <2>1. lease' \in [Server -> 0 .. grants'] /\ tsLease' \in [Server -> 0 .. grants']
    <3>1. lease' = [t \in Server |-> lease'[t]] /\ tsLease = [t \in Server |-> tsLease[t]]
      BY <1>0, <1>g, Zenon DEF LeaderType
    <3>2. \A t \in Server : lease'[t] \in 0 .. grants' /\ tsLease[t] \in 0 .. grants'
      BY <1>a, <1>c, <1>d, Zenon
    <3> QED
      BY <1>g, <3>1, <3>2, Zenon
  <2>2. deadline' \in [Lease -> Nat] /\ expire' \in [Lease -> Nat] /\ since' \in [Server -> Nat]
    BY <1>0, <1>a, <1>b, <1>g, Zenon DEF LeaderType
  <2>3. keeps' \subseteq [lease : 1 .. grants', start : Nat, answered : BOOLEAN]
    BY <1>0, <1>a, <1>g, Zenon DEF LeaderType
  <2>4. pc' \in [Server -> Location]
    BY <1>0, <1>g, Zenon DEF LeaderType, Location, Granted
  <2> QED
    BY <1>0, <1>a, <1>g, <2>1, <2>2, <2>3, <2>4, Zenon DEF LeaderType
<1>2. OwnLease'
  <2>1. \A t \in Server : lease'[t] # NoLease <=> pc'[t] \in Granted
    BY <1>0, <1>a, <1>c, Zenon DEF OwnLease, Granted
  <2>a. \A t \in Server : lease[t] # l /\ tsLease[t] # l
    BY <1>a, <1>d, Zenon
  <2>2. \A t, u \in Server : lease'[t] = lease'[u] /\ lease'[t] # NoLease => t = u
    <3> SUFFICES ASSUME NEW t \in Server, NEW u \in Server, t # u, lease'[t] # NoLease
                 PROVE  lease'[t] # lease'[u]
      BY Zenon
    <3>1. CASE t # s /\ u # s
      BY <1>0, <1>c, <3>1, ZenonT(30) DEF OwnLease
    <3> QED
      BY <1>c, <2>a, <3>1, Zenon
  <2>3. \A t, u \in Server : tsLease[t] \in {lease'[u], tsLease[u]} /\ tsLease[t] # NoLease => t = u
    BY <1>0, <1>c, <2>a, Zenon DEF OwnLease
  <2> QED
    BY <1>g, <2>1, <2>2, <2>3, Zenon DEF OwnLease
<1>3. PastAsked'
  <2>1. since'[s] = 0 /\ \A t \in Server \ {s} : since'[t] = since[t]
    BY <1>0, <1>g, Zenon DEF LeaderType
  <2>2. \A t \in Server : since'[t] <= now
    BY <1>0, <2>1 DEF PastAsked, LeaderType
  <2>3. \A m \in Lease : deadline'[m] <= now + TTL
    BY <1>0, <1>a, <1>b, <1>e DEF PastAsked
  <2> QED
    BY <1>0, <1>g, <2>2, <2>3, Zenon DEF PastAsked
<1>4. Promised'
  <2> SUFFICES ASSUME NEW t \in Server, lease'[t] # NoLease
               PROVE  /\ Kept(lease[t], expire[lease[t]])'
                      /\ \A k \in keeps : k.lease = lease'[t] /\ k.answered =>
                            Kept(k.lease, k.start + TTL)'
    BY <1>g, Zenon DEF Promised
  <2>1. CASE t = s
    <3>1. \A k \in keeps : k.lease \in 0 .. grants
      BY <1>0 DEF LeaderType
    <3>2. since[s] + TTL <= now + TTL
      BY <1>0, <1>b, LeaderAssumption DEF LeaderType
    <3>3. Kept(l, expire[l])'
      BY <1>a, <1>b, <1>e, <1>g, <3>2, Zenon DEF Kept
    <3> QED
      BY <1>a, <1>c, <2>1, <3>1, <3>3, Zenon DEF Kept
  <2>2. CASE t # s
    <3>1. lease'[t] = lease[t] /\ lease[t] \in Lease /\ lease[t] # l
      BY <2>2, <1>a, <1>c, <1>d, <1>f, Zenon
    <3>2. expire'[lease[t]] = expire[lease[t]] /\ deadline'[lease[t]] = deadline[lease[t]]
      BY <3>1, <1>e, Zenon
    <3>3. /\ Kept(lease[t], expire[lease[t]])
          /\ \A k \in keeps : k.lease = lease[t] /\ k.answered => Kept(k.lease, k.start + TTL)
      BY <1>0, <3>1, Zenon DEF Promised
    <3> QED
      BY <1>g, <3>1, <3>2, <3>3, Zenon DEF Kept
  <2> QED
    BY <2>1, <2>2, Zenon
<1>5. KeyAttached'
  <2> SUFFICES ASSUME NEW t \in Server, pc'[t] \in Holding, deadline'[lease'[t]] # 0
               PROVE  holder = t /\ keyLease = lease'[t]
    BY <1>g, Zenon DEF KeyAttached
  <2>1. t # s /\ pc[t] \in Holding /\ lease'[t] = lease[t]
    BY <1>c, Zenon DEF Holding
  <2>2. lease[t] \in Lease /\ lease[t] # l
    BY <1>0, <1>a, <1>c, <1>d, <1>f, <2>1, Zenon DEF OwnLease, Holding, Granted
  <2> QED
    BY <1>0, <1>e, <2>1, <2>2, Zenon DEF KeyAttached
<1>6. SyncedByLease'
  BY <1>0, <1>c, <1>g, ZenonT(30) DEF SyncedByLease, Holding
<1> QED
  BY <1>1, <1>2, <1>3, <1>4, <1>5, <1>6, Zenon DEF LeaseInv

\* The key is created: no other server can have one that is attached to a lease.
LEMMA CampaignInv ==
    ASSUME LeaseInv, NEW s \in Server, CampaignLeader(s)
    PROVE  LeaseInv'
<1> USE LeaderAssumption DEF LeaseInv, CampaignLeader, Goto, outside, T!Win, T!CreateLeaderKey
<1>1. LeaderType'
  BY Zenon DEF LeaderType, Lease, NoLease, Location, Granted
<1>2. OwnLease'
  <2>1. /\ lease' = lease /\ tsLease' = tsLease /\ pc \in [Server -> Location]
        /\ pc' = [pc EXCEPT ![s] = "sync"] \/ pc' = [pc EXCEPT ![s] = "reset"]
        /\ pc[s] = "create"
    BY Zenon DEF LeaderType
  <2>2. \A t \in Server : pc'[t] \in Granted <=> pc[t] \in Granted
    BY <2>1, Zenon DEF Granted
  <2> QED
    BY <2>1, <2>2, ZenonT(30) DEF OwnLease
<1>3. PastAsked'
  BY Zenon DEF PastAsked, LeaderType, Lease
<1>4. Promised'
  BY Zenon DEF Promised, Kept, PastAsked, OwnLease, LeaderType, Lease, NoLease
<1>5. KeyAttached'
  <2>1. \A t \in Server : pc[t] \in Holding => deadline[lease[t]] = 0
    BY ServerAssumption, Zenon DEF KeyAttached
  <2> QED
    BY <2>1, Zenon DEF KeyAttached, LeaderType
<1>6. SyncedByLease'
  BY DEF SyncedByLease, OwnLease, LeaderType, Holding, Granted
<1> QED
  BY <1>1, <1>2, <1>3, <1>4, <1>5, <1>6, Zenon DEF LeaseInv

\* The oracle takes over the lease of the campaign.
LEMMA SyncStoreInv ==
    ASSUME LeaseInv, NEW s \in Server, SyncTimestampStore(s)
    PROVE  LeaseInv'
<1> USE LeaderAssumption DEF LeaseInv, SyncTimestampStore, leases, T!StorePointer
<1>1. LeaderType'
  BY Zenon DEF LeaderType, Lease, NoLease, Location, Granted
<1>2. OwnLease'
  BY SMTT(30) DEF OwnLease, LeaderType, Lease, NoLease, Granted
<1>3. PastAsked'
  BY Zenon DEF PastAsked, LeaderType, Lease
<1>4. Promised'
  BY Zenon DEF Promised, Kept, PastAsked, OwnLease, LeaderType, Lease, NoLease
<1>5. KeyAttached'
  BY Zenon DEF KeyAttached, OwnLease, LeaderType, Lease, NoLease, Holding, Granted
<1>6. SyncedByLease'
  BY Zenon DEF SyncedByLease, OwnLease, LeaderType, Holding, Granted
<1> QED
  BY <1>1, <1>2, <1>3, <1>4, <1>5, <1>6, Zenon DEF LeaseInv

\* Close, with an answer that may still come.
LEMMA CloseInv ==
    ASSUME LeaseInv, NEW s \in Server, Close(s)
    PROVE  LeaseInv'
<1> USE LeaderAssumption DEF LeaseInv, Close, Goto, outside, tso
<1>1. LeaderType'
  BY Zenon DEF LeaderType, Lease, NoLease, Location, Granted
<1>2. OwnLease'
  BY Zenon DEF OwnLease, LeaderType, Lease, NoLease, Granted
<1>3. PastAsked'
  BY Zenon DEF PastAsked, LeaderType, Lease
<1>4. Promised'
  BY SMTT(30) DEF Promised, Kept, PastAsked, OwnLease, LeaderType, Lease, NoLease
<1>5. KeyAttached'
  BY Zenon DEF KeyAttached, OwnLease, LeaderType, Lease, NoLease, Holding, Granted
<1>6. SyncedByLease'
  BY Zenon DEF SyncedByLease, OwnLease, LeaderType, Holding, Granted
<1> QED
  BY <1>1, <1>2, <1>3, <1>4, <1>5, <1>6, Zenon DEF LeaseInv

\* The lease of a campaign that is over is revoked, or left alone.
LEMMA RevokeInv ==
    ASSUME LeaseInv, NEW s \in Server, Revoke(s)
    PROVE  LeaseInv'
<1> USE LeaderAssumption DEF LeaseInv, Revoke, Forget, DropLeaderKey, Goto, outside, tso
<1>a. lease[s] \in Lease /\ pc[s] = "revoke"
  BY DEF OwnLease, LeaderType, Granted, Lease, NoLease
<1>b. \A l \in Lease : deadline'[l] \in {0, deadline[l]} /\ (l # lease[s] => deadline'[l] = deadline[l])
  BY Zenon DEF LeaderType
<1>1. LeaderType'
  <2>1. deadline' \in [Lease -> Nat]
    BY <1>a DEF LeaderType
  <2>2. lease' \in [Server -> 0 .. grants'] /\ pc' \in [Server -> Location]
    BY DEF LeaderType, NoLease, Location
  <2> QED
    BY <2>1, <2>2, Zenon DEF LeaderType
<1>2. OwnLease'
  BY DEF OwnLease, LeaderType, Lease, NoLease, Granted
<1>3. PastAsked'
  <2>1. \A l \in Lease : deadline[l] \in Nat /\ deadline[l] <= now + TTL /\ 0 <= now + TTL
    BY DEF PastAsked, LeaderType
  <2>2. \A l \in Lease : deadline'[l] <= now + TTL
    BY <1>b, <2>1, Zenon
  <2> QED
    BY <2>2, Zenon DEF PastAsked
<1>4. Promised'
  <2> SUFFICES ASSUME NEW t \in Server, lease'[t] # NoLease
               PROVE  /\ Kept(lease[t], expire[lease[t]])'
                      /\ \A k \in keeps : k.lease = lease'[t] /\ k.answered =>
                            Kept(k.lease, k.start + TTL)'
    BY Zenon DEF Promised
  <2>1. lease'[t] = lease[t] /\ lease[t] # lease[s] /\ lease[t] \in Lease
    BY DEF OwnLease, LeaderType, NoLease, Lease
  <2>2. deadline'[lease[t]] = deadline[lease[t]]
    BY <2>1, <1>b, Zenon
  <2> QED
    BY <2>1, <2>2, Zenon DEF Promised, Kept
<1>5. KeyAttached'
  BY SMTT(30) DEF KeyAttached, OwnLease, LeaderType, Lease, NoLease, Holding, Granted
<1>6. SyncedByLease'
  BY Zenon DEF SyncedByLease, OwnLease, LeaderType, Holding, Granted
<1> QED
  BY <1>1, <1>2, <1>3, <1>4, <1>5, <1>6, Zenon DEF LeaseInv

\* A crash ends the campaign of the server.
LEMMA CrashInv ==
    ASSUME LeaseInv, NEW s \in Server, CrashServer(s)
    PROVE  LeaseInv'
<1> USE LeaderAssumption DEF LeaseInv, CrashServer, Goto
<1>1. LeaderType'
  <2>1. expire' \in [Lease -> Nat]
    BY Zenon DEF LeaderType
  <2>2. lease' \in [Server -> 0 .. grants'] /\ tsLease' \in [Server -> 0 .. grants']
    BY DEF LeaderType, NoLease
  <2>3. pc' \in [Server -> Location] /\ keeps' \subseteq keeps
    BY Zenon DEF LeaderType, Location
  <2>4. at' = [t \in Server |-> at'[t]] /\ ts' = [t \in Server |-> ts'[t]]
    BY Zenon DEF LeaderType
  <2> QED
    BY <2>1, <2>2, <2>3, <2>4, Zenon DEF LeaderType
<1>2. OwnLease'
  BY ZenonT(30) DEF OwnLease, LeaderType, Lease, NoLease, Granted
<1>3. PastAsked'
  BY Zenon DEF PastAsked, LeaderType, Lease
<1>4. Promised'
  BY SMTT(30) DEF Promised, Kept, PastAsked, OwnLease, LeaderType, Lease, NoLease
<1>5. KeyAttached'
  BY Zenon DEF KeyAttached, OwnLease, LeaderType, Lease, NoLease, Holding, Granted
<1>6. SyncedByLease'
  BY Zenon DEF SyncedByLease, OwnLease, LeaderType, Holding, Granted
<1> QED
  BY <1>1, <1>2, <1>3, <1>4, <1>5, <1>6, Zenon DEF LeaseInv

\* etcd drops a lease after its deadline, and the key with it.
LEMMA ExpireInv ==
    ASSUME LeaseInv, NEW l \in Lease, EtcdExpires(l)
    PROVE  LeaseInv'
<1> USE LeaderAssumption DEF LeaseInv, EtcdExpires, Forget, DropLeaderKey, tso
<1>1. LeaderType'
  BY Zenon DEF LeaderType, Lease, NoLease, Location, Granted
<1>2. OwnLease'
  BY Zenon DEF OwnLease, LeaderType, Lease, NoLease, Granted
<1>3. PastAsked'
  BY DEF PastAsked, LeaderType, Lease
<1>4. Promised'
  BY SMTT(30) DEF Promised, Kept, PastAsked, OwnLease, LeaderType, Lease, NoLease
<1>5. KeyAttached'
  BY DEF KeyAttached, OwnLease, LeaderType, Lease, NoLease, Holding, Granted
<1>6. SyncedByLease'
  BY Zenon DEF SyncedByLease, OwnLease, LeaderType, Holding, Granted
<1> QED
  BY <1>1, <1>2, <1>3, <1>4, <1>5, <1>6, Zenon DEF LeaseInv

\* A renewal is asked for.
LEMMA AskInv ==
    ASSUME LeaseInv, NEW l \in Lease, KeepAliveOnce(l)
    PROVE  LeaseInv'
<1> USE LeaderAssumption DEF LeaseInv, KeepAliveOnce, quiet, tso
<1>1. LeaderType'
  <2>1. l \in 1 .. grants
    BY DEF LeaderType, Lease
  <2>2. [lease |-> l, start |-> now, answered |-> FALSE]
            \in [lease : 1 .. grants, start : Nat, answered : BOOLEAN]
    BY <2>1, Zenon DEF LeaderType
  <2>3. keeps' \subseteq [lease : 1 .. grants, start : Nat, answered : BOOLEAN]
    BY <2>2, Zenon DEF LeaderType
  <2> QED
    BY <2>3, Zenon DEF LeaderType
<1>2. OwnLease'
  BY Zenon DEF OwnLease, LeaderType, Lease, NoLease, Granted
<1>3. PastAsked'
  BY DEF PastAsked, LeaderType, Lease
<1>4. Promised'
  BY SMTT(30) DEF Promised, Kept, PastAsked, OwnLease, LeaderType, Lease, NoLease
<1>5. KeyAttached'
  BY Zenon DEF KeyAttached, OwnLease, LeaderType, Lease, NoLease, Holding, Granted
<1>6. SyncedByLease'
  BY Zenon DEF SyncedByLease, OwnLease, LeaderType, Holding, Granted
<1> QED
  BY <1>1, <1>2, <1>3, <1>4, <1>5, <1>6, Zenon DEF LeaseInv

\* A call that is answered is still the call it was.
LEMMA AnswerKeeps ==
    ASSUME NEW g, NEW k \in [lease : 1 .. g, start : Nat, answered : BOOLEAN]
    PROVE  /\ [k EXCEPT !.answered = TRUE] \in [lease : 1 .. g, start : Nat, answered : BOOLEAN]
           /\ [k EXCEPT !.answered = TRUE].lease = k.lease
           /\ [k EXCEPT !.answered = TRUE].start = k.start
  BY Zenon

\* etcd renews a lease.
LEMMA RenewInv ==
    ASSUME LeaseInv, NEW k \in keeps, EtcdRenews(k)
    PROVE  LeaseInv'
<1> USE LeaderAssumption DEF LeaseInv, EtcdRenews, quiet, tso
<1> DEFINE l == k.lease
           a == [k EXCEPT !.answered = TRUE]
<1>a. /\ k \in [lease : 1 .. grants, start : Nat, answered : BOOLEAN] /\ l \in Lease
      /\ a \in [lease : 1 .. grants, start : Nat, answered : BOOLEAN]
      /\ a.lease = l /\ a.start = k.start /\ a.start <= now
  <2>1. k \in [lease : 1 .. grants, start : Nat, answered : BOOLEAN]
    BY Zenon DEF LeaderType
  <2>2. l \in Lease /\ k.start <= now
    BY <2>1 DEF LeaderType, Lease, PastAsked
  <2>3. /\ a \in [lease : 1 .. grants, start : Nat, answered : BOOLEAN]
        /\ a.lease = k.lease /\ a.start = k.start
    BY <2>1, AnswerKeeps, Zenon
  <2> QED
    BY <2>1, <2>2, <2>3, Zenon
<1>b. now + TTL \in Nat /\ k.start + TTL <= now + TTL /\ now + TTL # 0
  BY <1>a DEF LeaderType, PastAsked
<1>c. /\ deadline' \in [Lease -> Nat]
      /\ \A m \in Lease : deadline'[m] = IF m = l /\ deadline[l] # 0 THEN now + TTL ELSE deadline[m]
      /\ keeps' \subseteq keeps \cup {a}
      /\ a \in keeps' \ keeps => deadline[l] # 0
  <2> HIDE DEF a
  <2>1. CASE deadline[l] # 0
    <3>1. deadline' = [deadline EXCEPT ![l] = now + TTL] /\ keeps' = (keeps \ {k}) \cup {a}
      BY <2>1, Zenon DEF a
    <3> QED
      BY <2>1, <3>1, <1>a, <1>b, Zenon DEF LeaderType
  <2>2. CASE deadline[l] = 0
    <3>1. deadline' = deadline /\ keeps' = keeps \ {k}
      BY <2>2, Zenon
    <3> QED
      BY <2>2, <3>1, <1>a, Zenon DEF LeaderType
  <2> QED
    BY <2>1, <2>2, Zenon
<1> HIDE DEF a, l
<1>1. LeaderType'
  BY <1>a, <1>c, Zenon DEF LeaderType
<1>2. OwnLease'
  BY Zenon DEF OwnLease, LeaderType, Lease, NoLease, Granted
<1>3. PastAsked'
  BY <1>a, <1>b, <1>c DEF PastAsked, LeaderType
<1>4. Promised'
  <2> SUFFICES ASSUME NEW t \in Server, lease[t] # NoLease
               PROVE  /\ Kept(lease[t], expire[lease[t]])'
                      /\ \A j \in keeps' : j.lease = lease[t] /\ j.answered =>
                            Kept(j.lease, j.start + TTL)'
    BY Zenon DEF Promised
  <2>1. lease[t] \in Lease
    BY SMTT(30) DEF LeaderType, NoLease, Lease
  <2>2. ASSUME NEW time \in Nat, Kept(lease[t], time) PROVE Kept(lease[t], time)'
    BY <2>1, <2>2, <1>b, <1>c DEF Kept, PastAsked, LeaderType
  <2>3. Kept(lease[t], expire[lease[t]])'
    BY <2>1, <2>2, Zenon DEF Promised, LeaderType
  <2>4. ASSUME NEW j \in keeps', j.lease = lease[t], j.answered
        PROVE  Kept(lease[t], j.start + TTL)'
    <3>1. CASE j \in keeps
      <4>1. j.start + TTL \in Nat
        BY <3>1 DEF LeaderType
      <4> QED
        BY <3>1, <4>1, <2>2, <2>4, Zenon DEF Promised
    <3>2. CASE j \notin keeps
      <4>1. j = a /\ deadline[l] # 0
        BY <3>2, <1>c, Zenon
      <4>2. deadline'[lease[t]] = now + TTL
        BY <4>1, <1>a, <1>c, <2>4, Zenon
      <4> QED
        BY <4>1, <4>2, <1>a, <1>b, Zenon DEF Kept, LeaderType
    <3> QED
      BY <3>1, <3>2, Zenon
  <2> QED
    BY <2>3, <2>4, Zenon
<1>5. KeyAttached'
  <2>1. \A t \in Server : pc[t] \in Holding => lease[t] \in Lease
    BY SMTT(30) DEF OwnLease, LeaderType, Holding, Granted, Lease, NoLease
  <2>2. \A m \in Lease : deadline'[m] # 0 => deadline[m] # 0
    BY <1>c, Zenon
  <2> QED
    BY <2>1, <2>2, Zenon DEF KeyAttached
<1>6. SyncedByLease'
  BY Zenon DEF SyncedByLease, OwnLease, LeaderType, Holding, Granted
<1> QED
  BY <1>1, <1>2, <1>3, <1>4, <1>5, <1>6, Zenon DEF LeaseInv

\* The server hears of a renewal.
LEMMA KeepInv ==
    ASSUME LeaseInv, NEW k \in keeps, KeepAlive(k)
    PROVE  LeaseInv'
<1> USE LeaderAssumption DEF LeaseInv, KeepAlive, quiet, tso, FromStart
<1>1. LeaderType'
  BY SMTT(30) DEF LeaderType, Lease, NoLease, Location, Granted
<1>2. OwnLease'
  BY Zenon DEF OwnLease, LeaderType, Lease, NoLease, Granted
<1>3. PastAsked'
  BY Zenon DEF PastAsked, LeaderType, Lease
<1>4. Promised'
  BY SMTT(30) DEF Promised, Kept, PastAsked, OwnLease, LeaderType, Lease, NoLease
<1>5. KeyAttached'
  BY Zenon DEF KeyAttached, OwnLease, LeaderType, Lease, NoLease, Holding, Granted
<1>6. SyncedByLease'
  BY Zenon DEF SyncedByLease, OwnLease, LeaderType, Holding, Granted
<1> QED
  BY <1>1, <1>2, <1>3, <1>4, <1>5, <1>6, Zenon DEF LeaseInv

\* A KeepAlive loop ends.
LEMMA EndInv ==
    ASSUME LeaseInv, NEW l \in Lease, KeepAliveEnds(l)
    PROVE  LeaseInv'
<1> USE LeaderAssumption DEF LeaseInv, KeepAliveEnds, quiet, tso
<1>1. LeaderType'
  BY Zenon DEF LeaderType, Lease, NoLease, Location, Granted
<1>2. OwnLease'
  BY Zenon DEF OwnLease, LeaderType, Lease, NoLease, Granted
<1>3. PastAsked'
  BY Zenon DEF PastAsked, LeaderType, Lease
<1>4. Promised'
  BY Zenon DEF Promised, Kept, PastAsked, OwnLease, LeaderType, Lease, NoLease
<1>5. KeyAttached'
  BY Zenon DEF KeyAttached, OwnLease, LeaderType, Lease, NoLease, Holding, Granted
<1>6. SyncedByLease'
  BY Zenon DEF SyncedByLease, OwnLease, LeaderType, Holding, Granted
<1> QED
  BY <1>1, <1>2, <1>3, <1>4, <1>5, <1>6, Zenon DEF LeaseInv

\* Every step keeps the invariant.
LEMMA LeaseInvStep == LeaseInv /\ [Next]_vars => LeaseInv'
<1> SUFFICES ASSUME LeaseInv, [Next]_vars PROVE LeaseInv'
  BY Zenon
<1>1. CASE UNCHANGED vars
  BY <1>1 DEF vars, tso, leases, LeaseInv, LeaderType, OwnLease, PastAsked, Promised, Kept,
              KeyAttached, SyncedByLease
<1>2. CASE Tick
  BY <1>2, TickInv, Zenon
<1>3. ASSUME NEW s \in Server, ServerStep(s) PROVE LeaseInv'
  <2> USE DEF Granted, Holding, Location
  <2>a. /\ at = [t \in Server |-> at[t]] /\ ts = [t \in Server |-> ts[t]]
        /\ \A t \in Server : pc[t] \notin Holding => at[t] = "follower" /\ ts[t] = T!NoTS
        /\ pc \in [Server -> Location]
    BY Zenon DEF LeaseInv, LeaderType, SyncedByLease
  <2>1. CASE CheckLeader(s)
    <3>1. CASE holder = s
      BY <2>1, <3>1, DropInv, Zenon
    <3>2. CASE holder # s
      <4>1. PICK l \in {"campaign", "watch"} : pc' = [pc EXCEPT ![s] = l]
        BY <2>1, Zenon DEF CheckLeader, Goto
      <4> QED
        BY <2>1, <2>a, <3>2, <4>1, MoveInv, Zenon DEF CheckLeader, tso, outside, leases
    <3> QED
      BY <3>1, <3>2, Zenon
  <2>2. CASE WatchLeader(s)
    BY <2>2, <2>a, MoveInv, Zenon DEF WatchLeader, Goto, tso, outside, leases
  <2>3. CASE SkipCampaign(s)
    BY <2>3, <2>a, MoveInv, Zenon DEF SkipCampaign, Goto, tso, outside, leases
  <2>4. CASE GrantStart(s)
    BY <2>4, GrantStartInv, Zenon
  <2>5. CASE Grant(s)
    BY <2>5, GrantInv, Zenon
  <2>6. CASE CampaignLeader(s)
    BY <2>6, CampaignInv, Zenon
  <2>7. CASE CampaignFails(s)
    BY <2>7, <2>a, MoveInv, Zenon DEF CampaignFails, Goto, tso, outside, leases
  <2>8. CASE SyncTimestamp(s)
    <3>1. PICK p \in {"loaded", "saved", "failed"} : at' = [at EXCEPT ![s] = p]
      BY <2>8, Zenon DEF SyncTimestamp, T!loadTimestamp, T!SyncSave
    <3>2. ts' = ts /\ holder' = holder
      BY <2>8, Zenon DEF SyncTimestamp, T!loadTimestamp, T!SyncSave
    <3>3. pc' = [pc EXCEPT ![s] = "sync"] /\ pc[s] = "sync"
      BY <2>8, <2>a, Zenon DEF SyncTimestamp
    <3>4. /\ at' = [t \in Server |-> at'[t]] /\ ts' = [t \in Server |-> ts'[t]]
          /\ \A t \in Server \ {s} : at'[t] = at[t] /\ ts'[t] = ts[t]
          /\ at'[s] \notin {"serving", "window", "store"}
      BY <2>a, <3>1, <3>2, Zenon
    <3> QED
      BY <2>8, <2>a, <3>2, <3>3, <3>4, MoveInv, Zenon DEF SyncTimestamp, outside, leases
  <2>9. CASE SyncTimestampStore(s)
    BY <2>9, SyncStoreInv, Zenon
  <2>10. CASE EnableLeader(s)
    BY <2>10, <2>a, MoveInv, Zenon DEF EnableLeader, Goto, tso, outside, leases
  <2>11. CASE UpdateTimestamp(s)
    <3>1. /\ at[s] \in {"serving", "window", "store"} /\ holder' = holder
          /\ \E p \in {"serving", "window", "store", "failed"} : at' = [at EXCEPT ![s] = p]
      BY <2>11, Zenon DEF UpdateTimestamp, T!UpdateBegin, T!UpdateSave, T!UpdateStore, T!StorePointer
    <3>2. ts' = ts \/ \E n : ts' = [ts EXCEPT ![s] = n]
      BY <2>11, Zenon DEF UpdateTimestamp, T!UpdateBegin, T!UpdateSave, T!UpdateStore, T!StorePointer
    <3>3. pc' = [pc EXCEPT ![s] = "lead"] /\ pc[s] = "lead"
      BY <2>11, <2>a, Zenon DEF UpdateTimestamp
    <3>4. /\ at' = [t \in Server |-> at'[t]] /\ ts' = [t \in Server |-> ts'[t]]
          /\ \A t \in Server \ {s} : at'[t] = at[t] /\ ts'[t] = ts[t]
      BY <2>a, <3>1, <3>2, Zenon
    <3> QED
      BY <2>11, <2>a, <3>1, <3>3, <3>4, MoveInv, Zenon DEF UpdateTimestamp, outside, leases
  <2>12. CASE Leave(s)
    BY <2>12, <2>a, MoveInv, Zenon DEF Leave, Goto, tso, outside, leases
  <2>13. CASE ResetTimestamp(s)
    BY <2>13, <2>a, MoveInv, Zenon DEF ResetTimestamp, T!StepDown, Goto, outside, leases
  <2>14. CASE Close(s)
    BY <2>14, CloseInv, Zenon
  <2>15. CASE Revoke(s)
    BY <2>15, RevokeInv, Zenon
  <2> QED
    BY <1>3, <2>1, <2>2, <2>3, <2>4, <2>5, <2>6, <2>7, <2>8, <2>9, <2>10, <2>11, <2>12, <2>13,
       <2>14, <2>15, Zenon DEF ServerStep
<1>4. ASSUME NEW s \in Server, MoveEtcdLeader(s) PROVE LeaseInv'
  BY <1>4 DEF MoveEtcdLeader, tso, leases, LeaseInv, LeaderType, OwnLease, PastAsked, Promised,
              Kept, KeyAttached, SyncedByLease
<1> QED
  BY <1>1, <1>2, <1>3, <1>4, CrashInv, ExpireInv, AskInv, EndInv, RenewInv, KeepInv, Zenon DEF Next

LEMMA LeaseInvAlways == Spec => []LeaseInv
  BY LeaseInvInit, LeaseInvStep, PTL DEF Spec

\* A server that has a timestamp and believes in its lease holds the leader key, and
\* etcd keeps the lease the key is attached to.
LEMMA BelieverHolds ==
    ASSUME LeaseInv, NEW s \in Server, ts[s] # T!NoTS, s \in Unexpired
    PROVE  /\ pc[s] \in Holding /\ tsLease[s] = lease[s] /\ lease[s] \in Lease
           /\ holder = s /\ keyLease = lease[s]
           /\ deadline[lease[s]] # 0 /\ now <= deadline[lease[s]]
<1>1. /\ pc[s] \in Holding /\ tsLease[s] = lease[s] /\ lease[s] \in Lease
      /\ lease[s] # NoLease /\ ~(now > expire[lease[s]])
  BY LeaderAssumption DEF LeaseInv, SyncedByLease, Unexpired, IsExpired, LeaderType, Lease, NoLease
<1>2. Kept(lease[s], expire[lease[s]])
  BY <1>1, Zenon DEF LeaseInv, Promised
<1>3. /\ deadline[lease[s]] # 0 /\ now <= deadline[lease[s]]
  BY <1>1, <1>2 DEF Kept, LeaseInv, LeaderType
<1> QED
  BY <1>1, <1>3, Zenon DEF LeaseInv, KeyAttached

\* Of the servers that serve, at most one believes in its lease, and the leader key names
\* it: campaignLeader, KeepAlive and IsExpired with answers that are late and goroutines
\* that pause.
THEOREM OneServerLeads == Spec => []OneLeaderServes
<1>1. LeaseInv => OneLeaderServes
  BY BelieverHolds, Zenon DEF OneLeaderServes
<1> QED
  BY <1>1, LeaseInvAlways, PTL

-----------------------------------------------------------------------------
(* The refinement.                                                         *)

\* What the oracle sees of a step that only changes what leases say.
LEMMA LeasesMove ==
    ASSUME UNCHANGED <<holder, tso>>,
           \A s \in Unexpired' \ Unexpired : holder = s \/ ts[s] = T!NoTS
    PROVE  T!TSONext \/ UNCHANGED T!tsoVars
<1>1. CASE Unexpired' = Unexpired
  BY <1>1, Zenon DEF T!tsoVars, tso
<1>2. CASE Unexpired' # Unexpired
  <2>1. Unexpired' \in SUBSET Server
    BY Zenon DEF Unexpired
  <2>2. T!Validity
    BY <1>2, <2>1, Zenon DEF T!Validity, T!clock, tso
  <2> QED
    BY <2>2, Zenon DEF T!TSONext, T!TSOStep
<1> QED
  BY <1>1, <1>2, Zenon

\* The key is dropped while no server that has a timestamp believes in its lease.
LEMMA KeyDropped ==
    ASSUME DropLeaderKey, UNCHANGED <<tso, now, expire, tsLease>>,
           holder \in Unexpired => ts[holder] = T!NoTS
    PROVE  T!TSONext
<1>1. Unexpired' = Unexpired
  BY Zenon DEF Unexpired, IsExpired
<1>2. T!Lose
  BY <1>1, Zenon DEF T!Lose, T!DropLeaderKey, DropLeaderKey, T!clock, tso
<1> QED
  BY <1>2, Zenon DEF T!TSONext, T!TSOStep

LEMMA TickMaps == ASSUME LeaseInv, Tick PROVE T!TSONext \/ UNCHANGED T!tsoVars
<1>1. Unexpired' \subseteq Unexpired
  BY LeaderAssumption DEF Unexpired, IsExpired, Tick, leases, LeaseInv, LeaderType, Lease, NoLease
<1> QED
  BY <1>1, LeasesMove, Zenon DEF Tick

\* A lease that runs out or is revoked.
LEMMA ForgetMaps ==
    ASSUME LeaseInv, NEW l, Forget(l), UNCHANGED <<tso, now, expire, tsLease>>,
           \A s \in Server : ts[s] # T!NoTS /\ s \in Unexpired => lease[s] # l
    PROVE  T!TSONext \/ UNCHANGED T!tsoVars
<1>1. CASE keyLease = l /\ holder # None
  BY <1>1, BelieverHolds, KeyDropped, Zenon DEF Forget, Unexpired
<1>2. CASE ~(keyLease = l /\ holder # None)
  <2>1. Unexpired' = Unexpired
    BY Zenon DEF Unexpired, IsExpired
  <2> QED
    BY <1>2, <2>1, LeasesMove, Zenon DEF Forget
<1> QED
  BY <1>1, <1>2, Zenon

\* The answer to a renewal.
LEMMA KeepMaps ==
    ASSUME LeaseInv, NEW k \in keeps, KeepAlive(k)
    PROVE  T!TSONext \/ UNCHANGED T!tsoVars
<1> SUFFICES ASSUME NEW s \in Unexpired' \ Unexpired, ts[s] # T!NoTS PROVE holder = s
  BY LeasesMove, Zenon DEF KeepAlive, quiet
<1>1. /\ s \in Server /\ tsLease'[s] = tsLease[s] /\ now' = now
      /\ pc[s] \in Holding /\ tsLease[s] = lease[s] /\ lease[s] \in Lease
  BY LeaderAssumption, SMTT(30) DEF LeaseInv, SyncedByLease, Unexpired, LeaderType, Lease, NoLease,
                          KeepAlive, quiet
<1>2. lease[s] = k.lease /\ expire'[k.lease] = k.start + TTL
  BY <1>1, Zenon DEF Unexpired, IsExpired, KeepAlive, FromStart, LeaseInv, LeaderType
<1>3. ~(now > k.start + TTL) /\ k.start \in Nat
  BY <1>1, <1>2, Zenon DEF Unexpired, IsExpired, LeaseInv, LeaderType
<1>4. Kept(k.lease, k.start + TTL)
  BY <1>1, <1>2 DEF LeaseInv, Promised, KeepAlive, NoLease, Lease
<1>5. deadline[lease[s]] # 0
  BY <1>2, <1>3, <1>4, LeaderAssumption, Zenon DEF Kept, LeaseInv, LeaderType
<1> QED
  BY <1>1, <1>5, Zenon DEF LeaseInv, KeyAttached

\* The oracle takes the lease of the campaign over, expired or not.
LEMMA SyncStoreMaps ==
    ASSUME LeaseInv, NEW s \in Server, SyncTimestampStore(s)
    PROVE  T!TSONext
<1> USE DEF SyncTimestampStore, leases
<1>1. /\ now' = now /\ expire' = expire /\ tsLease' = [tsLease EXCEPT ![s] = lease[s]]
      /\ pc[s] = "sync" /\ tsLease \in [Server -> 0 .. grants]
  BY Zenon DEF LeaseInv, LeaderType
<1>2. s \in Unexpired' => holder = s
  <2> HAVE s \in Unexpired'
  <2>0. tsLease'[s] = lease[s] /\ lease[s] \in 0 .. grants /\ grants \in 0 .. MaxLease
    BY <1>1, Zenon DEF LeaseInv, LeaderType
  <2>1. lease[s] # NoLease /\ ~(now > expire[lease[s]])
    BY <1>1, <2>0, Zenon DEF Unexpired, IsExpired
  <2>2. deadline[lease[s]] # 0
    BY <2>1, Zenon DEF LeaseInv, Promised, Kept, LeaderType
  <2> QED
    BY <1>1, <2>2, Zenon DEF LeaseInv, KeyAttached, Holding
<1>3. \A t \in Server \ {s} : t \in Unexpired' <=> t \in Unexpired
  BY <1>1, Zenon DEF Unexpired, IsExpired
<1>4. Unexpired' = Unexpired \ {s} \/ (holder = s /\ Unexpired' = Unexpired \cup {s})
  <2>1. Unexpired \subseteq Server /\ Unexpired' \subseteq Server
    BY Zenon DEF Unexpired
  <2> QED
    BY <1>2, <1>3, <2>1, Zenon
<1>5. T!SyncStore(s)
  BY <1>4, Zenon DEF T!SyncStore
<1> QED
  BY <1>5, Zenon DEF T!TSONext, T!TSOStep

\* A crash takes the leases of the server with it, and no other.
LEMMA CrashMaps ==
    ASSUME LeaseInv, NEW s \in Server, CrashServer(s)
    PROVE  T!TSONext
<1>1. /\ now' = now /\ tsLease' = [tsLease EXCEPT ![s] = NoLease]
      /\ \A l \in Lease : l \notin {lease[s], tsLease[s]} => expire'[l] = expire[l]
      /\ tsLease \in [Server -> 0 .. grants] /\ grants \in 0 .. MaxLease
  BY Zenon DEF CrashServer, LeaseInv, LeaderType
<1>2. \A t \in Server \ {s} : tsLease'[t] = tsLease[t]
  BY <1>1, Zenon
<1>3. \A t \in Server \ {s} : tsLease[t] # NoLease => expire'[tsLease[t]] = expire[tsLease[t]]
  <2> SUFFICES ASSUME NEW t \in Server \ {s}, tsLease[t] # NoLease
               PROVE  expire'[tsLease[t]] = expire[tsLease[t]]
    BY Zenon
  <2>1. tsLease[t] \in Lease
    BY <1>1, LeaderAssumption DEF NoLease, Lease
  <2>2. tsLease[t] \notin {lease[s], tsLease[s]}
    BY Zenon DEF LeaseInv, OwnLease
  <2> QED
    BY <1>1, <2>1, <2>2, Zenon
<1>4. Unexpired' = Unexpired \ {s}
  <2>1. s \notin Unexpired'
    BY <1>1, Zenon DEF Unexpired
  <2>2. \A t \in Server \ {s} : t \in Unexpired' <=> t \in Unexpired
    BY <1>1, <1>2, <1>3, Zenon DEF Unexpired, IsExpired
  <2>3. Unexpired \subseteq Server /\ Unexpired' \subseteq Server
    BY Zenon DEF Unexpired
  <2> QED
    BY <2>1, <2>2, <2>3, Zenon
<1>5. T!Crash(s)
  BY <1>4, Zenon DEF CrashServer, T!Crash
<1> QED
  BY <1>5, Zenon DEF T!TSONext

\* Close makes the lease expire at once.
LEMMA CloseMaps ==
    ASSUME LeaseInv, NEW s \in Server, Close(s)
    PROVE  T!TSONext \/ UNCHANGED T!tsoVars
<1>1. /\ now' = now /\ tsLease' = tsLease /\ now \in Nat /\ now # 0
      /\ \A l \in Lease : expire'[l] = expire[l] \/ expire'[l] = 0
  BY Zenon DEF Close, outside, LeaseInv, LeaderType, PastAsked
<1>2. \A t \in Server : tsLease[t] # NoLease => tsLease[t] \in Lease
  BY LeaderAssumption DEF LeaseInv, LeaderType, Lease, NoLease
<1>3. Unexpired' \subseteq Unexpired
  BY <1>1, <1>2 DEF Unexpired, IsExpired
<1> QED
  BY <1>3, LeasesMove, Zenon DEF Close

\* A new lease is not yet the lease of an oracle.
LEMMA GrantMaps ==
    ASSUME LeaseInv, NEW s \in Server, Grant(s)
    PROVE  T!TSONext \/ UNCHANGED T!tsoVars
<1>1. /\ now' = now /\ tsLease' = tsLease
      /\ \A l \in Lease : l # grants + 1 => expire'[l] = expire[l]
  BY Zenon DEF Grant, outside, LeaseInv, LeaderType
<1>2. \A t \in Server : tsLease[t] # NoLease => tsLease[t] \in Lease /\ tsLease[t] # grants + 1
  BY LeaderAssumption DEF LeaseInv, LeaderType, Lease, NoLease
<1>3. Unexpired' \subseteq Unexpired
  BY <1>1, <1>2, Zenon DEF Unexpired, IsExpired
<1> QED
  BY <1>3, LeasesMove, Zenon DEF Grant

\* What changes nothing that the oracle sees.
LEMMA QuietMaps ==
    ASSUME UNCHANGED <<holder, tso, now, expire, tsLease>>
    PROVE  UNCHANGED T!tsoVars
<1>1. Unexpired' = Unexpired
  BY Zenon DEF Unexpired, IsExpired
<1> QED
  BY <1>1, Zenon DEF T!tsoVars, tso

\* The steps that are the oracle's own.
LEMMA OracleMaps ==
    ASSUME NEW s \in Server,
           \/ T!Win(s) \/ T!loadTimestamp(s) \/ T!UpdateSave(s) \/ T!UpdateStore(s) \/ T!StepDown(s)
           \/ \E w \in Wall : T!SyncSave(s, w) \/ T!UpdateBegin(s, w)
    PROVE  T!TSONext
  BY Zenon DEF T!TSONext, T!TSOStep

\* A step of the leader loop.
LEMMA ServerMaps ==
    ASSUME LeaseInv, NEW s \in Server, ServerStep(s)
    PROVE  T!TSONext \/ UNCHANGED T!tsoVars
<1>1. CASE CheckLeader(s)
  <2>1. CASE holder = s
    <3>1. ts[s] = T!NoTS
      BY <1>1, Zenon DEF CheckLeader, LeaseInv, SyncedByLease, Holding
    <3> QED
      BY <1>1, <2>1, <3>1, KeyDropped, Zenon DEF CheckLeader, outside, leases
  <2>2. CASE holder # s
    BY <1>1, QuietMaps, <2>2, Zenon DEF CheckLeader, outside, leases
  <2> QED
    BY <2>1, <2>2, Zenon
<1>2. CASE WatchLeader(s) \/ SkipCampaign(s) \/ GrantStart(s) \/ CampaignFails(s)
           \/ EnableLeader(s) \/ Leave(s)
  BY <1>2, QuietMaps, Zenon DEF WatchLeader, SkipCampaign, GrantStart, CampaignFails, EnableLeader, Leave,
                    outside, leases
<1>3. CASE Grant(s)
  BY <1>3, GrantMaps, Zenon
<1>4. CASE CampaignLeader(s) \/ ResetTimestamp(s)
  BY <1>4, OracleMaps, Zenon DEF CampaignLeader, ResetTimestamp
<1>5. CASE SyncTimestamp(s)
  BY <1>5, OracleMaps, Zenon DEF SyncTimestamp
<1>6. CASE SyncTimestampStore(s)
  BY <1>6, SyncStoreMaps, Zenon
<1>7. CASE UpdateTimestamp(s)
  BY <1>7, OracleMaps, Zenon DEF UpdateTimestamp
<1>8. CASE Close(s)
  BY <1>8, CloseMaps, Zenon
<1>9. CASE Revoke(s)
  <2>1. CASE Forget(lease[s])
    <3>1. \A t \in Server : ts[t] # T!NoTS /\ t \in Unexpired => lease[t] # lease[s]
      <4>1. pc[s] = "revoke" /\ lease[s] # NoLease
        BY <1>9, Zenon DEF Revoke, LeaseInv, OwnLease, Granted
      <4> QED
        BY <4>1, BelieverHolds, Zenon DEF LeaseInv, OwnLease, Holding
    <3> QED
      BY <1>9, <2>1, <3>1, ForgetMaps, Zenon DEF Revoke, outside
  <2>2. CASE UNCHANGED <<holder, deadline, keyLease>>
    BY <1>9, QuietMaps, <2>2, Zenon DEF Revoke, outside
  <2> QED
    BY <1>9, <2>1, <2>2, Zenon DEF Revoke
<1> QED
  BY <1>1, <1>2, <1>3, <1>4, <1>5, <1>6, <1>7, <1>8, <1>9, Zenon DEF ServerStep

\* etcd lets a lease go only when no server with a timestamp believes in it.
LEMMA ExpireMaps ==
    ASSUME LeaseInv, NEW l \in Lease, EtcdExpires(l)
    PROVE  T!TSONext \/ UNCHANGED T!tsoVars
<1>1. \A s \in Server : ts[s] # T!NoTS /\ s \in Unexpired => lease[s] # l
  BY BelieverHolds DEF EtcdExpires, LeaseInv, LeaderType
<1> QED
  BY <1>1, ForgetMaps, Zenon DEF EtcdExpires

LEMMA LeaderStepMaps == LeaseInv /\ [Next]_vars => T!TSONext \/ UNCHANGED T!tsoVars
<1> SUFFICES ASSUME LeaseInv, [Next]_vars PROVE T!TSONext \/ UNCHANGED T!tsoVars
  BY Zenon
<1>1. CASE UNCHANGED vars
  BY <1>1, QuietMaps, Zenon DEF vars, leases
<1>2. ASSUME NEW s \in Server, MoveEtcdLeader(s) PROVE UNCHANGED T!tsoVars
  BY <1>2, QuietMaps, Zenon DEF MoveEtcdLeader, leases
<1>3. ASSUME NEW l \in Lease, KeepAliveOnce(l) \/ KeepAliveEnds(l) PROVE UNCHANGED T!tsoVars
  BY <1>3, QuietMaps, Zenon DEF KeepAliveOnce, KeepAliveEnds, quiet
<1>4. ASSUME NEW k \in keeps, EtcdRenews(k) PROVE UNCHANGED T!tsoVars
  BY <1>4, QuietMaps, Zenon DEF EtcdRenews, quiet
<1> QED
  BY <1>1, <1>2, <1>3, <1>4, TickMaps, ServerMaps, CrashMaps, ExpireMaps, KeepMaps, Zenon DEF Next

\* The servers of the scheduler, with their leases over etcd, give the timestamp oracle the
\* leadership that TSO assumes, and run the leader loop of TSO under it.
THEOREM LeaderImplementsTSO == Spec => ImplementsTSO
<1>1. Init => T!TSOInit
  BY DEF Init, T!TSOInit, Unexpired
<1>2. LeaseInv /\ [Next]_vars => [T!TSONext]_T!tsoVars
  BY LeaderStepMaps, Zenon
<1> QED
  BY <1>1, <1>2, LeaseInvAlways, PTL DEF Spec, ImplementsTSO, T!TSOSpec
=============================================================================
