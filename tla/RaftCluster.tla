---------------------------- MODULE RaftCluster ----------------------------
(***************************************************************************)
(* The scheduler's RaftCluster: heartbeats of Regions fill its cache, the  *)
(* replica checker and the balance-region scheduler look at the cache and  *)
(* make operators, and the operator controller sends their steps as        *)
(* commands to the leaders of the Regions, which check them against the    *)
(* epochs they have by then.                                               *)
(*                                                                         *)
(* A Region's Raft group is one record: what it has committed and applied. *)
(* (Module RaftStore models how its replicas follow.)  Each store has one  *)
(* stream of heartbeats, handled one at a time, and one of commands.       *)
(***************************************************************************)
EXTENDS Integers, Sequences, FiniteSets, FiniteSetsExt

CONSTANTS
    Store,          \* the registered stores
    Nowhere,        \* the store id 0, which no store has
    Region,         \* the ids of Regions: the first one, and those that splits make
    MaxReplicas,    \* the option max-replicas
    FirstRegion,    \* the Region that exists at the start
    Budgets,        \* bounds: how often each request and fault may happen, in the instances
    MaxCommands     \* bound: commands on their way to one store

ASSUME FirstRegionAssumption ==
    /\ FirstRegion \in [id : Region, start : Int, end : Int, version : Nat, confVer : Nat,
                        peers : SUBSET [id : Nat, store : Store],
                        leader : [id : Nat, store : Store],
                        pending : SUBSET [id : Nat, store : Store]]
    /\ FirstRegion.start < FirstRegion.end
    /\ FirstRegion.leader \in FirstRegion.peers
    /\ FirstRegion.pending \subseteq FirstRegion.peers
    /\ IsFiniteSet(FirstRegion.peers)

ASSUME OptionAssumption == MaxReplicas \in Nat

VARIABLES
    real,       \* the Regions: what their groups have applied
    cache,      \* BasicCluster.Regions
    state,      \* the state of each store, as saved and as cached
    hb,         \* the heartbeat each store's stream is busy with
    ops,        \* OperatorController.operators
    adder,      \* the goroutines that add operators: patrolRegions and runScheduler
    cmds,       \* the commands on their way to each store
    left,       \* what is left of the budget for requests and faults
    strayed     \* an operator was started on an epoch it was not made for, or aimed at no store

vars == <<real, cache, state, hb, ops, adder, cmds, left, strayed>>

NoRegion == [exists |-> FALSE]
NoOp == [region |-> NoRegion]
Idle == [at |-> "idle"]
Adder == {"checker", "balancer"}
NoPeer == [id |-> 0, store |-> Nowhere]

INSTANCE RegionsInfo WITH Store <- Store \cup {Nowhere}

Exists(r) == real[r] # NoRegion

Init ==
    /\ real = [r \in Region |-> IF r = FirstRegion.id THEN FirstRegion ELSE NoRegion]
    /\ cache = NewRegionsInfo
    /\ state = [s \in Store |-> "Up"]
    /\ hb = [s \in Store |-> Idle]
    /\ ops = [r \in Region |-> NoOp]
    /\ adder = [a \in Adder |-> Idle]
    /\ cmds = [s \in Store |-> <<>>]
    /\ left \in Budgets
    /\ strayed = FALSE

Spend(k) == left[k] > 0 /\ left' = [left EXCEPT ![k] = @ - 1]

\* Alloc of new ids (module IDAllocator): the first of as many that nothing refers to.
\* The numbers themselves do not matter.
StepIds(op) == IF op = NoOp THEN {} ELSE {op.steps[n].id : n \in DOMAIN op.steps}
IdsOf(i) == {p.id : p \in i.peers \cup i.pending}
IdsInUse ==
    UNION ({IdsOf(real[r]) : r \in {x \in Region : Exists(x)}}
           \cup {IdsOf(i) : i \in cache.tree}
           \cup {IdsOf(hb[s].region) : s \in {x \in Store : hb[x] # Idle}}
           \cup {StepIds(ops[r]) : r \in Region}
           \cup {StepIds(adder[a].op) : a \in {x \in Adder : adder[x] # Idle}}
           \cup {{cmds[s][n].peer.id : n \in DOMAIN cmds[s]} : s \in Store})
Alloc(n) == CHOOSE k \in 1..(Max(IdsInUse) + 1) : k..(k + n - 1) \cap IdsInUse = {}

-----------------------------------------------------------------------------
(* Operators. *)

TransferLeader(to) == [kind |-> "transfer", store |-> to, id |-> 0]
AddPeer(to, id) == [kind |-> "add", store |-> to, id |-> id]
RemovePeer(from) == [kind |-> "remove", store |-> from, id |-> 0]

NewOperator(region, steps, level) ==
    [region |-> region.id, version |-> region.version, confVer |-> region.confVer,
     steps |-> steps, cur |-> 1, level |-> level]

HasPeer(region, s) == GetStorePeer(region, s) # {}

\* OpStep.IsFinish of the three kinds of step.
IsFinish(step, region) ==
    CASE step.kind = "transfer" -> region.leader.store = step.store
      [] step.kind = "add"      -> /\ \E p \in GetStorePeer(region, step.store) : p.id = step.id
                                   /\ \A p \in region.pending : p.id # step.id
      [] step.kind = "remove"   -> ~HasPeer(region, step.store)

\* OpStep.ConfVerChanged
StepChangedConf(step, region) ==
    CASE step.kind = "transfer" -> FALSE
      [] step.kind = "add"      -> \E p \in GetStorePeer(region, step.store) : p.id = step.id
      [] step.kind = "remove"   -> ~HasPeer(region, step.store)

\* Operator.Check: the operator moved past the steps that are finished.
Check(op, region) ==
    LET todo == {n \in op.cur..Len(op.steps) : ~IsFinish(op.steps[n], region)}
    IN  [op EXCEPT !.cur = IF todo = {} THEN Len(op.steps) + 1 ELSE Min(todo)]

Finished(op) == op.cur > Len(op.steps)
Step(op) == op.steps[op.cur]

\* Operator.ConfVerChanged
ConfVerChanged(op, region) ==
    Cardinality({n \in 1..(IF Finished(op) THEN Len(op.steps) ELSE op.cur) :
                    StepChangedConf(op.steps[n], region)})

\* transferLeaderStep: every choice of the map iteration and of findAvailableStore, or
\* no choice, which is an error.
transferLeaderStep(region, s, followers) ==
    IF region.leader.store # s THEN {<<>>}
    ELSE {<<TransferLeader(t)>> : t \in followers \cap Store}

FollowerIDs(region) == {p.store : p \in {q \in region.peers : q.id # region.leader.id}}

CreateAddPeerOperator(region, to, id, level) ==
    {NewOperator(region, <<AddPeer(to, id)>>, level)}
CreateRemovePeerOperator(region, from, level) ==
    {NewOperator(region, t \o <<RemovePeer(from)>>, level) :
        t \in transferLeaderStep(region, from, FollowerIDs(region))}
CreateMovePeerOperator(region, from, to, id, level) ==
    {NewOperator(region, <<AddPeer(to, id)>> \o t \o <<RemovePeer(from)>>, level) :
        t \in transferLeaderStep(region, from, FollowerIDs(region) \cup {to})}
CreateOfflinePeerOperator(region, from, to, id, level) ==
    {NewOperator(region, t \o <<AddPeer(to, id), RemovePeer(from)>>, level) :
        t \in transferLeaderStep(region, from, FollowerIDs(region))}

-----------------------------------------------------------------------------
(* Commands to the leader of a Region. *)

\* SendScheduleCommand and SendMsg: the command that a step becomes, for the leader
\* that the scheduler knows.
Command(region, step) ==
    [region |-> region.id, version |-> region.version, confVer |-> region.confVer,
     target |-> region.leader, kind |-> step.kind,
     peer |-> IF step.kind = "add" THEN [id |-> step.id, store |-> step.store]
              ELSE IF HasPeer(region, step.store)
                   THEN CHOOSE p \in GetStorePeer(region, step.store) : TRUE
              ELSE NoPeer]

\* A peer that is there but pending is not asked for again.  (A command equal to the
\* last one on its way changes nothing a second time, and is not kept twice.)
SendScheduleCommand(region, step) ==
    LET s == region.leader.store
        c == Command(region, step)
    IN  IF \/ step.kind = "add" /\ HasPeer(region, step.store)
           \/ cmds[s] # <<>> /\ cmds[s][Len(cmds[s])] = c
        THEN UNCHANGED cmds
        ELSE /\ Len(cmds[s]) < MaxCommands
             /\ cmds' = [cmds EXCEPT ![s] = Append(@, c)]

\* (mutant) A change of peers is taken at any configuration.
AnyConfVer(c, region) == c.kind = "transfer" => c.version = region.version

\* CheckRegionEpoch, for the commands the scheduler sends.
CheckRegionEpoch(c, region) ==
    /\ c.confVer = region.confVer
    /\ c.kind = "transfer" => c.version = region.version

\* A new leader.  (It counts everyone as pending until they answer its first message;
\* that moment is left out, and only a peer without the log stays pending.)
Led(region, p) == [region EXCEPT !.leader = p, !.pending = @ \ {p}]

\* What a command does to the Region: proposed by its leader, committed and applied.
\* A leader that is removed leaves the election to the peers that have the log.
Handle(c, region) ==
    CASE c.kind = "transfer" ->
           {IF c.peer \in region.peers \ (region.pending \cup {region.leader})
            THEN Led(region, c.peer) ELSE region}
      [] c.kind = "add" ->
           {[region EXCEPT !.peers = @ \cup {c.peer}, !.pending = @ \cup {c.peer},
                           !.confVer = @ + 1]}
      [] OTHER ->
           LET rest == [region EXCEPT !.peers = @ \ {c.peer}, !.pending = @ \ {c.peer},
                                      !.confVer = @ + 1]
           IN  IF c.peer # region.leader THEN {rest}
               ELSE {Led(rest, p) : p \in IF rest.peers = rest.pending THEN rest.peers
                                          ELSE rest.peers \ rest.pending}

\* onRegionHeartbeatResponse, preProposeRaftCommand and proposeAdminRequest.  A
\* transfer to no peer ends the store's process; the Region is as it was.
Deliver(s) ==
    /\ cmds[s] # <<>>
    /\ cmds' = [cmds EXCEPT ![s] = Tail(@)]
    /\ LET c == Head(cmds[s]) IN
       IF /\ Exists(c.region) /\ real[c.region].leader = c.target
          /\ CheckRegionEpoch(c, real[c.region])
          /\ c.peer # NoPeer
       THEN \E new \in Handle(c, real[c.region]) : real' = [real EXCEPT ![c.region] = new]
       ELSE UNCHANGED real
    /\ UNCHANGED <<cache, state, hb, ops, adder, left, strayed>>

\* The stream to the store fails.
LoseCommand(s) ==
    /\ cmds[s] # <<>>
    /\ Spend("lose")
    /\ cmds' = [cmds EXCEPT ![s] = Tail(@)]
    /\ UNCHANGED <<real, cache, state, hb, ops, adder, strayed>>

-----------------------------------------------------------------------------
(* The Regions, as far as the scheduler can tell. *)

LeaderChange(r) ==
    /\ Exists(r)
    /\ \E p \in real[r].peers \ (real[r].pending \cup {real[r].leader}) :
          real' = [real EXCEPT ![r] = Led(@, p)]
    /\ Spend("lead")
    /\ UNCHANGED <<cache, state, hb, ops, adder, cmds, strayed>>

\* CollectPendingPeers no longer counts the peer.
CatchUp(r) ==
    /\ Exists(r)
    /\ \E p \in real[r].pending :
          p.store \in Store /\ real' = [real EXCEPT ![r].pending = @ \ {p}]
    /\ UNCHANGED <<cache, state, hb, ops, adder, cmds, left, strayed>>

\* validRequestRegion: not older than what the scheduler has at the start key.
validRequestRegion(region) ==
    \E i \in find(cache.tree, region.start) :
        region.version >= i.version /\ region.confVer >= i.confVer

\* onAskSplit and handleAskSplit, and the split they lead to: the Region keeps the left
\* part, and the right part starts with an epoch of its own.
Split(r, new) ==
    /\ Exists(r) /\ ~Exists(new)
    /\ real[r].start + 1 < real[r].end
    /\ validRequestRegion(real[r])
    /\ Spend("split")
    /\ LET old == real[r]
           first == Alloc(Cardinality(old.peers))
           copy(p) == [id |-> first + Cardinality({q \in old.peers : q.id < p.id}), store |-> p.store]
       IN  real' = [real EXCEPT
                      ![r]   = [old EXCEPT !.version = @ + 1, !.end = old.start + 1],
                      ![new] = [old EXCEPT !.id = new, !.start = old.start + 1,
                                           !.version = 1, !.confVer = 1,
                                           !.peers = {copy(p) : p \in @},
                                           !.leader = copy(@),
                                           !.pending = {copy(p) : p \in @}]]
    /\ UNCHANGED <<cache, state, hb, ops, adder, cmds, strayed>>

-----------------------------------------------------------------------------
(* Heartbeats of Regions. *)

\* HeartbeatScheduler of the leader's peer, once the store's stream is free.
SendHeartbeat(r) ==
    /\ Exists(r)
    /\ hb[real[r].leader.store] = Idle
    /\ hb' = [hb EXCEPT ![real[r].leader.store] = [at |-> "sent", region |-> real[r]]]
    /\ UNCHANGED <<real, cache, state, ops, adder, cmds, left, strayed>>

\* (mutant) What is known already is taken for stale.
StaleIfEqual(new, old) == new.version <= old.version \/ new.version < old.confVer

\* The comparison of processRegionHeartbeat, as it is written.
IsStale(new, old) == new.version < old.version \/ new.version < old.confVer

\* processRegionHeartbeat up to updateRegion: the Region of the same id, or the ones
\* in its range, decide.  A stale heartbeat is answered with an error.
CheckHeartbeat(s) ==
    /\ hb[s] # Idle /\ hb[s].at = "sent"
    /\ LET new    == hb[s].region
           origin == Get(cache.regions, new.id)
           others == {i \in cache.regions : \E o \in getOverlaps(cache.tree, new) : o.id = i.id}
       IN  hb' = [hb EXCEPT
                    ![s] = IF \E old \in (IF origin # {} THEN origin ELSE others) :
                                  IsStale(new, old)
                           THEN Idle ELSE [@ EXCEPT !.at = "checked"]]
    /\ UNCHANGED <<real, cache, state, ops, adder, cmds, left, strayed>>

\* updateRegion: under the lock, but without another look.
PutHeartbeat(s) ==
    /\ hb[s] # Idle /\ hb[s].at = "checked"
    /\ cache' = SetRegion(cache, hb[s].region)
    /\ hb' = [hb EXCEPT ![s].at = "put"]
    /\ UNCHANGED <<real, state, ops, adder, cmds, left, strayed>>

\* AddOperator holds the controller's lock from its check to its end.
Locked == \E a \in Adder : adder[a].at = "admitted"


\* uint64: a Region older than the operator counts as far ahead.
IsOvertaken(op, region) ==
    \/ region.confVer < op.confVer
    \/ region.confVer - op.confVer > ConfVerChanged(op, region)

\* Dispatch, with the Region of the heartbeat.
Dispatch(region, timeout) ==
    LET op == ops[region.id]
        c  == Check(op, region)
    IN  IF op = NoOp THEN UNCHANGED <<ops, cmds>>
        ELSE IF Finished(c) \/ timeout \/ IsOvertaken(c, region)
        THEN ops' = [ops EXCEPT ![region.id] = NoOp] /\ UNCHANGED cmds
        ELSE /\ ops' = [ops EXCEPT ![region.id] = c]
             /\ SendScheduleCommand(region, Step(c))

DispatchHeartbeat(s) ==
    /\ hb[s] # Idle /\ hb[s].at = "put" /\ ~Locked
    /\ \/ Dispatch(hb[s].region, FALSE) /\ UNCHANGED left
       \/ /\ ops[hb[s].region.id] # NoOp /\ Spend("timeout")
          /\ Dispatch(hb[s].region, TRUE)
    /\ hb' = [hb EXCEPT ![s] = Idle]
    /\ UNCHANGED <<real, cache, state, adder, strayed>>

-----------------------------------------------------------------------------
(* The replica checker, the balance-region scheduler and AddOperator. *)

\* selectBestStoreToAddReplica: a store that is up and has no peer of the Region.
\* (Which one depends on sizes, which are left out.)
Targets(region) == {t \in Store : state[t] = "Up" /\ ~HasPeer(region, t)}

\* fixPeer, for a peer on a store that is not up.
fixPeer(region, p, id) ==
    IF Cardinality(region.peers) > MaxReplicas
    THEN CreateRemovePeerOperator(region, p.store, 1)
    ELSE UNION {CreateOfflinePeerOperator(region, p.store, t, id, 1) : t \in Targets(region)}

\* checkOfflinePeer: nothing while a peer's store is unknown.
checkOfflinePeer(region, id) ==
    IF \E p \in region.peers : p.store \notin Store THEN {}
    ELSE UNION {fixPeer(region, p, id) : p \in {q \in region.peers : state[q.store] # "Up"}}

\* ReplicaChecker.Check: every operator that it may make of the Region.
CheckReplicas(region, id) ==
    LET offline == checkOfflinePeer(region, id)
        n       == Cardinality(region.peers)
    IN  CASE offline # {}    -> offline
          [] offline = {} /\ n < MaxReplicas ->
               UNION {CreateAddPeerOperator(region, t, id, 0) : t \in Targets(region)}
          [] offline = {} /\ n > MaxReplicas ->
               UNION {CreateRemovePeerOperator(region, s, 0) :
                         s \in StoresOf(region.peers) \cap Store}
          [] OTHER -> {}

\* patrolRegions, at one Region of the cache that has no operator.
Patrol(r) ==
    /\ adder["checker"] = Idle /\ ops[r] = NoOp /\ ~Locked
    /\ \E i \in Get(cache.tree, r) : \E op \in CheckReplicas(i, Alloc(1)) :
          adder' = [adder EXCEPT !["checker"] = [at |-> "created", op |-> op]]
    /\ UNCHANGED <<real, cache, state, hb, ops, cmds, left, strayed>>

\* getRegion: a random Region of the first tree if it has no peer on the other store,
\* or else one of the next tree.
getRegion(from, to) ==
    LET free(t) == {i \in t : ~HasPeer(i, to)}
        First(t, next) == IF t # {} /\ free(t) = t THEN t ELSE free(t) \cup next
    IN  First(cache.pending[from], First(cache.followers[from], free(cache.leaders[from])))

\* balanceRegionScheduler.Schedule, from a store to a smaller one.  When the sizes
\* differ too little the Region is kept all the same, and the target stays 0.
Schedule ==
    /\ adder["balancer"] = Idle
    /\ Spend("balance")
    /\ \E from, to \in {s \in Store : state[s] = "Up"} : \E i \in getRegion(from, to) :
          /\ Cardinality(i.peers) >= MaxReplicas
          /\ \E target \in {to, Nowhere} :
             \E op \in CreateMovePeerOperator(i, from, target, Alloc(1), 0) :
                adder' = [adder EXCEPT !["balancer"] = [at |-> "created", op |-> op]]
    /\ UNCHANGED <<real, cache, state, hb, ops, cmds, strayed>>

\* checkAddOperator: the Region is known at the operator's epoch, and its operator, if
\* there is one, is of lower priority.
checkAddOperator(op) ==
    /\ \E i \in Get(cache.regions, op.region) : i.version = op.version /\ i.confVer = op.confVer
    /\ ops[op.region] # NoOp => op.level > ops[op.region].level

AdmitOperator(a) ==
    /\ adder[a].at = "created" /\ ~Locked
    /\ adder' = [adder EXCEPT ![a] = IF checkAddOperator(@.op) THEN [@ EXCEPT !.at = "admitted"]
                                     ELSE Idle]
    /\ UNCHANGED <<real, cache, state, hb, ops, cmds, left, strayed>>

\* addOperatorLocked: the Region is looked up again.
StartOperator(a) ==
    /\ adder[a].at = "admitted"
    /\ LET op  == adder[a].op
           now == Get(cache.regions, op.region)
       IN  /\ IF now = {} THEN ops' = [ops EXCEPT ![op.region] = op] /\ UNCHANGED cmds
              ELSE \E i \in now :
                      LET c == Check(op, i) IN
                      /\ ops' = [ops EXCEPT ![op.region] = c]
                      /\ IF Finished(c) THEN UNCHANGED cmds ELSE SendScheduleCommand(i, Step(c))
           /\ strayed' = \/ strayed
                         \/ \E i \in now : i.version # op.version \/ i.confVer # op.confVer
                         \/ \E n \in DOMAIN op.steps : op.steps[n].store = Nowhere
    /\ adder' = [adder EXCEPT ![a] = Idle]
    /\ UNCHANGED <<real, cache, state, hb, left>>

-----------------------------------------------------------------------------
(* Stores, and a restart of the scheduler. *)

RemoveStore(s) ==
    /\ state[s] = "Up"
    /\ Spend("remove")
    /\ state' = [state EXCEPT ![s] = "Offline"]
    /\ UNCHANGED <<real, cache, hb, ops, adder, cmds, strayed>>

\* checkStores and BuryStore
CheckStores(s) ==
    /\ state[s] = "Offline" /\ IsEmptyStore(cache, s)
    /\ state' = [state EXCEPT ![s] = "Tombstone"]
    /\ UNCHANGED <<real, cache, hb, ops, adder, cmds, left, strayed>>

\* A new leader of the scheduler loads the stores, and knows no Region.
Restart ==
    /\ Spend("restart")
    /\ cache' = NewRegionsInfo
    /\ hb' = [s \in Store |-> Idle]
    /\ ops' = [r \in Region |-> NoOp]
    /\ adder' = [a \in Adder |-> Idle]
    /\ UNCHANGED <<real, state, cmds, strayed>>

Next ==
    \/ \E s \in Store : \/ CheckHeartbeat(s) \/ PutHeartbeat(s) \/ DispatchHeartbeat(s)
                        \/ Deliver(s) \/ LoseCommand(s) \/ RemoveStore(s) \/ CheckStores(s)
    \/ \E r \in Region : \/ SendHeartbeat(r) \/ Patrol(r) \/ LeaderChange(r) \/ CatchUp(r)
                         \/ \E new \in Region : Split(r, new)
    \/ \E a \in Adder : AdmitOperator(a) \/ StartOperator(a)
    \/ Schedule
    \/ Restart

\* Streams, handlers and goroutines go on; the ticks of all Regions' leaders and the
\* patrol, which starts over at its end, come to each Region again and again.  (Nothing
\* can disable PutHeartbeat, and nothing else follows a check: its weak fairness is
\* that no heartbeat stays checked.)
Fairness ==
    /\ \A s \in Store : /\ WF_vars(CheckHeartbeat(s)) /\ []<>(hb[s].at # "checked")
                        /\ WF_vars(DispatchHeartbeat(s)) /\ WF_vars(Deliver(s))
    /\ \A r \in Region : SF_vars(SendHeartbeat(r)) /\ SF_vars(Patrol(r)) /\ WF_vars(CatchUp(r))
    /\ \A a \in Adder : WF_vars(AdmitOperator(a)) /\ WF_vars(StartOperator(a))

Spec == Init /\ [][Next]_vars
FairSpec == Spec /\ Fairness

-----------------------------------------------------------------------------
\* Whatever order heartbeats arrive in, the tree by keys, the map by ids and the trees
\* of the stores agree (RegionsInfo.SetRegion), although each heartbeat was checked
\* against another cache than the one it is put into (processRegionHeartbeat).
CacheConsistent == Consistent(cache)

\* A Region never has fewer peers than max-replicas, nor two on one store, whatever
\* becomes of operators and commands: the scheduler works from a cache that is behind,
\* with operators that time out and are lost, and the epoch that commands carry must
\* stop the ones that are late (Dispatch, checkAddOperator, CheckRegionEpoch).  It holds
\* as long as no operator is started on an epoch that it was not checked against
\* (addOperatorLocked looks the Region up again) or with store 0 as its target (Schedule).
ReplicasKept ==
    ~strayed =>
    \A r \in Region : Exists(r) =>
        /\ Cardinality(real[r].peers) >= MaxReplicas
        /\ \A p, q \in real[r].peers : p.store = q.store => p = q

\* A Region whose version never falls behind its conf version, which is what the
\* comparison in processRegionHeartbeat asks for.
Comparable(r) == Exists(r) => real[r].version >= real[r].confVer

\* The cache comes to hold every such Region as it is, after stale heartbeats, splits
\* and restarts (processRegionHeartbeat).
CacheCatchesUp ==
    \A r \in Region : [](Comparable(r) /\ ~strayed) => <>[](Exists(r) => real[r] \in cache.tree)


\* What the design says of heartbeats: one with neither version nor conf version below
\* those of the cached Region is not stale (processRegionHeartbeat).
FreshHeartbeatAccepted ==
    [][\A s \in Store : \A old \in cache.regions :
          /\ CheckHeartbeat(s)
          /\ old.id = hb[s].region.id
          /\ hb[s].region.version >= old.version /\ hb[s].region.confVer >= old.confVer
          => hb'[s] # Idle]_vars
=============================================================================
