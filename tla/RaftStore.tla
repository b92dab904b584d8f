----------------------------- MODULE RaftStore -----------------------------
(***************************************************************************)
(* The stores of a cluster and the Region replicas ("peers") on them:      *)
(* creation by the first message, splits, membership changes, snapshots,   *)
(* destruction, garbage collection of stale peers, and restarts            *)
(* (kv/raftstore: store_worker.go, peer_msg_handler.go, peer.go,           *)
(* raftstore.go, router.go).                                               *)
(*                                                                         *)
(* store[s] is the memory and the disk of a store; each method of the code *)
(* is an operator from a store to a store.  The Raft group of a Region is  *)
(* what module Raft shows of it: log[r] is the sequence of its committed   *)
(* admin commands, which every peer applies in order, at its own pace or   *)
(* from a snapshot.  The raft worker handles one message at a time; the    *)
(* store worker runs beside it, and a crash can come between two writes.   *)
(***************************************************************************)
EXTENDS Integers, SequencesExt

CONSTANTS
    Store,          \* store ids
    InitStores,     \* where the first Region has its peers, in order
    MaxRegion,      \* Region ids are 1 .. MaxRegion
    EndKey,         \* keys are 0 .. EndKey - 1; 0 is the empty key, EndKey the open end
    MaxConf,        \* bounds: membership changes,
    MaxSplit,       \*   splits,
    MaxCrash,       \*   restarts,
    MaxNet          \*   messages under way at a time

VARIABLES
    store,      \* store id -> memory and disk
    log,        \* Region id -> committed admin commands
    canon,      \* Region id -> the Region when all of log[r] is applied
    net,        \* the messages in flight
    nextId,     \* the next peer id of the scheduler's allocator
    used        \* how many membership changes and crashes there were (for the bounds)

vars == <<store, log, canon, net, nextId, used>>

RegionId == 1 .. MaxRegion
NoRegion == [id |-> 0]
NoPeer   == [id |-> 0]
NoMsg    == [seen |-> "Nothing"]

Epoch(rg) == [version |-> rg.version, confVer |-> rg.confVer]

\* A peer that was created by a message knows no more than its Region's id
\* (replicatePeer): no peers, an empty start key and an open end.
Blank(r) == [id |-> r, start |-> 0, end |-> EndKey, peers |-> <<>>, version |-> 0, confVer |-> 0]

isInitialized(rg) == rg.peers # <<>>

\* util.FindPeer
PeersOn(rg, s) == {p \in ToSet(rg.peers) : p.store = s}

IsEpochStale(e, check) == e.version < check.version \/ e.confVer < check.confVer

-----------------------------------------------------------------------------
\* storeMeta.regionRanges: a B-tree of Regions by start key

ReplaceOrInsert(tree, rg) == {x \in tree : x.start # rg.start} \cup {rg}

Delete(tree, rg) == {x \in tree : x.start # rg.start}


\* The Region that holds the start key, and those that start after it and before the
\* end key, as far as the tree knows their ends.
getOverlapRegions(tree, start, end) ==
    LET before == {x \in tree : x.start <= start /\ start < x.end
                                /\ \A y \in tree : y.start <= start => y.start <= x.start}
        from   == IF before = {} THEN start ELSE (CHOOSE x \in before : TRUE).start
    IN  {x \in tree : from <= x.start /\ x.start < end}

-----------------------------------------------------------------------------
\* Applying a committed command to a Region

\* A membership change made under another configuration is skipped.
ChangePeer(rg, e) ==
    IF e.confVer # rg.confVer THEN rg
    ELSE IF e.type = "Add"
    THEN IF e.peer \in ToSet(rg.peers) THEN rg
         ELSE [rg EXCEPT !.peers = Append(@, e.peer), !.confVer = @ + 1]
    ELSE IF e.peer \notin ToSet(rg.peers) THEN rg
         ELSE [rg EXCEPT !.peers = SelectSeq(@, LAMBDA p : p # e.peer), !.confVer = @ + 1]

\* (mutant) The key is not looked at again when the command is applied.
SameCount(rg, e) == Len(rg.peers) = Len(e.newPeers)

\* validSplitKey, and as many new peer ids as there are peers.
validSplit(rg, e) ==
    /\ rg.start < e.key /\ e.key < rg.end
    /\ Len(rg.peers) = Len(e.newPeers)

\* regionSplit: the left half stays, the right half is a Region of its own.
SplitLeft(rg, e) == [rg EXCEPT !.version = @ + 1, !.end = e.key]
SplitRight(rg, e) ==
    [id |-> e.newRegion, start |-> e.key, end |-> rg.end, version |-> 1, confVer |-> 1,
     peers |-> [n \in DOMAIN rg.peers |-> [id |-> e.newPeers[n], store |-> rg.peers[n].store]]]

-----------------------------------------------------------------------------
\* One store

Normal(rg, idx)    == [state |-> "Normal", region |-> rg, applied |-> idx]
Tombstone(rg)      == [state |-> "Tombstone", region |-> rg, applied |-> 0]
NoState            == [state |-> "None", region |-> NoRegion, applied |-> 0]

setRegion(st, r, rg) == [st EXCEPT !.peers[r].region = rg, !.regions[r] = rg]

\* destroyPeer: the tombstone is written first; then the peer leaves the router and
\* the store meta, and a range that is not there is "meta corruption".
destroyPeer(st, r) ==
    LET rg   == st.peers[r].region
        init == isInitialized(rg)
    IN  [st EXCEPT !.disk[r] = Tombstone(rg), !.peers[r] = NoPeer, !.regions[r] = NoRegion,
                   !.ranges = IF init THEN Delete(@, rg) ELSE @,
                   !.panic = @ \/ (init /\ \A x \in st.ranges : x.start # rg.start)]

\* (mutant) The range of the new Region is not entered.
NoNewRange(st, s, r, e) ==
    LET rg    == st.peers[r].region
        left  == SplitLeft(rg, e)
        right == SplitRight(rg, e)
        n     == e.newRegion
    IN  [setRegion(st, r, left) EXCEPT
            !.disk[r].region = left, !.disk[n] = Normal(right, 0), !.regions[n] = right,
            !.peers[n] = [id |-> (CHOOSE p \in PeersOn(right, s) : TRUE).id,
                          region |-> right, applied |-> 0]]

\* A split that is applied: both halves are written, the new peer is registered, and
\* only the range of the right half is entered.
applySplit(st, s, r, e) ==
    LET rg    == st.peers[r].region
        left  == SplitLeft(rg, e)
        right == SplitRight(rg, e)
        n     == e.newRegion
        a     == setRegion(st, r, left)
    IN  [a EXCEPT !.disk[r].region = left, !.disk[n] = Normal(right, 0),
                  !.peers[n] = [id |-> (CHOOSE p \in PeersOn(right, s) : TRUE).id,
                                region |-> right, applied |-> 0],
                  !.regions[n] = right, !.ranges = ReplaceOrInsert(@, right)]

\* (mutant) A peer applies its own removal like that of another.
RemovedStays(st, r, e) ==
    LET next == ChangePeer(st.peers[r].region, e)
    IN  IF next = st.peers[r].region THEN st
        ELSE [setRegion(st, r, next) EXCEPT !.disk[r].region = next]

\* The removal of the peer itself destroys it, under the old conf_ver.
applyChange(st, r, e) ==
    LET p    == st.peers[r]
        next == ChangePeer(p.region, e)
        gone == [next EXCEPT !.confVer = p.region.confVer]
    IN  IF next = p.region THEN st
        ELSE IF e.type = "Remove" /\ e.peer.id = p.id
        THEN destroyPeer(setRegion(st, r, gone), r)
        ELSE [setRegion(st, r, next) EXCEPT !.disk[r].region = next]

\* handleAdminRequest; the applied index counts in memory.
applyEntry(st, s, r, e) ==
    LET rg == st.peers[r].region
        a  == IF e.type # "Split" THEN applyChange(st, r, e)
              ELSE IF validSplit(rg, e) THEN applySplit(st, s, r, e) ELSE st
    IN  IF a.peers[r] = NoPeer THEN a ELSE [a EXCEPT !.peers[r].applied = @ + 1]

\* loadPeers after the process has died: every Region on disk that is not a tombstone
\* has a peer on this store, or the store does not start.
load(st, s) ==
    LET live == {r \in RegionId : st.disk[r].state = "Normal"}
        ok   == \A r \in live : PeersOn(st.disk[r].region, s) # {}
        rg(r) == st.disk[r].region
    IN  [st EXCEPT !.peers = [r \in RegionId |-> IF r \notin live \/ ~ok THEN NoPeer
                                ELSE [id |-> (CHOOSE p \in PeersOn(rg(r), s) : TRUE).id,
                                      region |-> rg(r), applied |-> st.disk[r].applied]],
                   !.regions = [r \in RegionId |-> IF r \in live THEN rg(r) ELSE NoRegion],
                   !.ranges = {rg(r) : r \in {q \in live : \A t \in live : rg(t).start = rg(q).start => t <= q}},
                   !.checked = NoMsg, !.panic = ~ok]

-----------------------------------------------------------------------------
\* Messages between peers

Me(st, s, r) == [id |-> st.peers[r].id, store |-> s]

Gc(m, epoch) ==
    [type |-> "Gc", region |-> m.region, from |-> m.to, to |-> m.from, epoch |-> epoch]

\* handleStaleMsg: only a vote request is answered.
handleStaleMsg(m, epoch, needGC) == IF needGC THEN {Gc(m, epoch)} ELSE {}

overlaps(st, m) ==
    {x \in getOverlapRegions(st.ranges, m.snap.region.start, m.snap.region.end) : x.id # m.region}

\* checkSnapshot: the snapshot has this peer and no other Region is in its range.
checkSnapshot(st, m) ==
    /\ \E p \in ToSet(m.snap.region.peers) : p.id = m.to.id
    /\ overlaps(st, m) = {}

\* ApplySnapshot and mayUpdateRegion.  A snapshot that is not ahead is dropped by Raft.
applySnapshot(st, r, snap) ==
    LET prev == st.peers[r].region
    IN  IF snap.index <= st.peers[r].applied THEN st
        ELSE [setRegion(st, r, snap.region) EXCEPT
                !.peers[r].applied = snap.index, !.disk[r] = Normal(snap.region, snap.index),
                !.ranges = IF prev = snap.region THEN @
                           ELSE ReplaceOrInsert(Delete(@, prev), snap.region),
                !.lost = @ \/ \E x \in st.ranges : x.start = prev.start /\ x.id # r]

\* What a message does: the store after it, the answers, and whether it goes back to
\* the store worker.
Done(st) == [st |-> st, out |-> {}, again |-> FALSE]

handleGCPeerMsg(st, m) ==
    LET p == st.peers[m.region]
    IN  IF IsEpochStale(Epoch(p.region), m.epoch) /\ p.id = m.to.id
        THEN Done(destroyPeer(st, m.region)) ELSE Done(st)

\* onRaftMsg and checkMessage: the peer exists.
onRaftMsg(st, m) ==
    LET p  == st.peers[m.region]
        rg == p.region
    IN  IF m.type = "Gc" THEN handleGCPeerMsg(st, m)
        ELSE IF IsEpochStale(m.epoch, Epoch(rg)) /\ PeersOn(rg, m.from.store) = {}
        THEN [Done(st) EXCEPT !.out = handleStaleMsg(m, Epoch(rg), m.type = "Vote")]
        ELSE IF m.to.id < p.id THEN Done(st)
        ELSE IF m.to.id > p.id THEN [Done(destroyPeer(st, m.region)) EXCEPT !.again = TRUE]
        ELSE IF m.type = "Snapshot" /\ checkSnapshot(st, m)
        THEN Done(applySnapshot(st, m.region, m.snap))
        ELSE Done(st)

\* (mutant) A tombstone accepts what is not older than itself.
SameEpochPasses(st, m) ==
    LET d == st.disk[m.region]
    IN  IF m.type = "Gc" \/ d.state = "Normal" THEN Done(st)
        ELSE IF d.state = "Tombstone" /\ IsEpochStale(m.epoch, Epoch(d.region))
        THEN [Done(st) EXCEPT !.out = handleStaleMsg(m, Epoch(d.region), m.type = "Vote"
                                        /\ PeersOn(d.region, m.from.store) = {})]
        ELSE Done([st EXCEPT !.checked = [msg |-> m, seen |-> d.state]])

\* checkMsg of the store worker: there is no such peer.  A message that passes waits
\* for maybeCreatePeer.
checkMsg(st, m) ==
    LET d == st.disk[m.region]
        e == Epoch(d.region)
        pass == Done([st EXCEPT !.checked = [msg |-> m, seen |-> d.state]])
    IN  IF m.type = "Gc" THEN Done(st)
        ELSE IF d.state = "None" THEN pass
        ELSE IF d.state = "Normal" THEN Done(st)
        ELSE IF IsEpochStale(m.epoch, e)
        THEN [Done(st) EXCEPT !.out = handleStaleMsg(m, e, m.type = "Vote"
                                                        /\ PeersOn(d.region, m.from.store) = {})]
        ELSE IF m.epoch.confVer = e.confVer THEN Done(st)
        ELSE pass

\* maybeCreatePeer: only a vote request or a heartbeat creates a peer, and only where no
\* other Region is in its range.  The message then goes to the peer, new or not.
maybeCreatePeer(st) ==
    LET m == st.checked.msg
        a == [st EXCEPT !.checked = NoMsg]
    IN  IF st.regions[m.region] # NoRegion THEN [Done(a) EXCEPT !.again = TRUE]
        ELSE IF m.type # "Vote" \/ getOverlapRegions(st.ranges, m.start, m.end) # {} THEN Done(a)
        ELSE Done([a EXCEPT !.peers[m.region] =
                                [id |-> m.to.id, region |-> Blank(m.region), applied |-> -1],
                            !.regions[m.region] = Blank(m.region)])

-----------------------------------------------------------------------------
FirstRegion ==
    [id |-> 1, start |-> 0, end |-> EndKey, version |-> 1, confVer |-> 1,
     peers |-> [n \in DOMAIN InitStores |-> [id |-> n, store |-> InitStores[n]]]]

EmptyStore ==
    [disk |-> [r \in RegionId |-> NoState], peers |-> [r \in RegionId |-> NoPeer],
     regions |-> [r \in RegionId |-> NoRegion], ranges |-> {}, checked |-> NoMsg,
     panic |-> FALSE, lost |-> FALSE]

InitStore(s) ==
    load(IF PeersOn(FirstRegion, s) = {} THEN EmptyStore
         ELSE [EmptyStore EXCEPT !.disk[1] = Normal(FirstRegion, 0)], s)

Init ==
    /\ store = [s \in Store |-> InitStore(s)]
    /\ log = [r \in RegionId |-> <<>>]
    /\ canon = [r \in RegionId |-> IF r = 1 THEN FirstRegion ELSE NoRegion]
    /\ net = {}
    /\ nextId = Len(InitStores) + 1
    /\ used = [conf |-> 0, split |-> 0, crash |-> 0]

Alive(s, r) == ~store[s].panic /\ store[s].peers[r] # NoPeer

Replica(s, r) == Alive(s, r) /\ isInitialized(store[s].peers[r].region)

\* The peers that the Raft group counts on, and a majority of them.
Member(s, r) == Replica(s, r) /\ canon[r] # NoRegion /\ Me(store[s], s, r) \in ToSet(canon[r].peers)

Quorum(r) == 2 * Cardinality({s \in Store : Member(s, r)}) > Len(canon[r].peers)

Commit(r, e) ==
    /\ log' = [log EXCEPT ![r] = Append(@, e)]
    /\ UNCHANGED <<store, net>>

\* The scheduler's ChangePeer commands: the leader's own conf_ver, a store without a
\* peer to add, a peer that is not the last one to remove.
ProposeAdd(s, r, to) ==
    LET rg == store[s].peers[r].region
        e  == [type |-> "Add", peer |-> [id |-> nextId, store |-> to], confVer |-> rg.confVer]
    IN  /\ Member(s, r) /\ Quorum(r) /\ used.conf < MaxConf
        /\ PeersOn(rg, to) = {}
        /\ Commit(r, e)
        /\ canon' = [canon EXCEPT ![r] = ChangePeer(@, e)]
        /\ nextId' = nextId + 1 /\ used' = [used EXCEPT !.conf = @ + 1]

ProposeRemove(s, r, p) ==
    LET rg == store[s].peers[r].region
        e  == [type |-> "Remove", peer |-> p, confVer |-> rg.confVer]
    IN  /\ Member(s, r) /\ Quorum(r) /\ used.conf < MaxConf
        /\ p \in ToSet(rg.peers) /\ Len(rg.peers) > 1
        /\ Commit(r, e)
        /\ canon' = [canon EXCEPT ![r] = ChangePeer(@, e)]
        /\ used' = [used EXCEPT !.conf = @ + 1] /\ UNCHANGED nextId

\* onPrepareSplitRegion, AskSplit and the Split command.
ProposeSplit(s, r, key, n) ==
    LET rg == store[s].peers[r].region
        e  == [type |-> "Split", key |-> key, newRegion |-> n, done |-> TRUE,
               newPeers |-> [i \in DOMAIN rg.peers |-> nextId + i - 1]]
        ok == validSplit(canon[r], e)
    IN  /\ Member(s, r) /\ Quorum(r) /\ used.split < MaxSplit
        /\ rg.start < key /\ key < rg.end
        /\ n = 1 + Cardinality({q \in RegionId : canon[q] # NoRegion})
        /\ Commit(r, [e EXCEPT !.done = ok])
        /\ canon' = IF ok THEN [canon EXCEPT ![r] = SplitLeft(@, e),
                                             ![n] = SplitRight(canon[r], e)] ELSE canon
        /\ nextId' = nextId + Len(rg.peers) /\ used' = [used EXCEPT !.split = @ + 1]

\* HandleCommitEnts with one entry: the Region, and then the applied index.
Apply(s, r) ==
    LET p == store[s].peers[r]
        a == applyEntry(store[s], s, r, log[r][p.applied + 1])
    IN  /\ Replica(s, r) /\ p.applied < Len(log[r])
        /\ store' = [store EXCEPT ![s] =
                        IF a.peers[r] = NoPeer THEN a
                        ELSE [a EXCEPT !.disk[r].applied = a.peers[r].applied]]
        /\ UNCHANGED <<log, canon, net, nextId, used>>

RECURSIVE applyEntries(_, _, _, _)
applyEntries(st, s, r, k) ==
    IF k = 0 \/ st.peers[r] = NoPeer THEN st
    ELSE applyEntries(applyEntry(st, s, r, log[r][st.peers[r].applied + 1]), s, r, k - 1)

\* The process dies and starts again from what is on disk in st.
Restart(s, st) ==
    /\ used.crash < MaxCrash
    /\ store' = [store EXCEPT ![s] = load(st, s)]
    /\ used' = [used EXCEPT !.crash = @ + 1]
    /\ UNCHANGED <<log, canon, net, nextId>>

\* It dies after k entries of a batch and before the applied index is written.
CrashInBatch(s, r, k) ==
    /\ Replica(s, r) /\ store[s].peers[r].applied + k <= Len(log[r])
    /\ Restart(s, applyEntries(store[s], s, r, k))

-----------------------------------------------------------------------------
Sent(ms) ==
    /\ net' = ms
    /\ Cardinality(net') <= MaxNet

\* A peer asks the others for their votes.  A heartbeat of a leader carries the same
\* fields and creates peers in the same way.
SendVote(s, r, to) ==
    LET rg == store[s].peers[r].region
        there == store[to.store].peers[r]
    IN  /\ Replica(s, r) /\ to \in ToSet(rg.peers) /\ to.store # s
        /\ there.id = to.id => PeersOn(there.region, s) = {} /\ isInitialized(there.region)
        /\ Sent(net \cup {[type |-> "Vote", region |-> r, from |-> Me(store[s], s, r), to |-> to,
                           epoch |-> Epoch(rg), start |-> rg.start, end |-> rg.end]})
        /\ UNCHANGED <<store, log, canon, nextId, used>>

\* doSnapshot in the region worker: the applied index and the Region of one moment,
\* which can be a moment when k entries more are in the Region than in the index.
SendSnapshot(s, r, to, k) ==
    LET st == store[s]
        rg == applyEntries(st, s, r, k).peers[r]
    IN  /\ Member(s, r) /\ st.peers[r].applied + k <= Len(log[r])
        /\ rg # NoPeer
        /\ to \in ToSet(rg.region.peers) /\ to.store # s
        /\ store[to.store].peers[r].id = to.id
        /\ store[to.store].peers[r].applied < st.disk[r].applied
        /\ Sent(net \cup {[type |-> "Snapshot", region |-> r, from |-> Me(st, s, r), to |-> to,
                           epoch |-> Epoch(rg.region),
                           snap |-> [region |-> rg.region, index |-> st.disk[r].applied]]})
        /\ UNCHANGED <<store, log, canon, nextId, used>>

\* RaftstoreRouter.SendRaftMessage: to the peer, or else to the store worker.
Deliver(m) ==
    LET s  == m.to.store
        st == store[s]
        at == st.peers[m.region] # NoPeer
        h  == IF at THEN onRaftMsg(st, m) ELSE checkMsg(st, m)
    IN  /\ ~st.panic /\ (at \/ st.checked = NoMsg)
        /\ store' = [store EXCEPT ![s] = h.st]
        /\ Sent((IF h.again THEN net ELSE net \ {m}) \cup h.out)
        /\ UNCHANGED <<log, canon, nextId, used>>

CreatePeer(s) ==
    LET h == maybeCreatePeer(store[s])
    IN  /\ ~store[s].panic /\ store[s].checked # NoMsg
        /\ store' = [store EXCEPT ![s] = h.st]
        /\ Sent(IF h.again THEN net \cup {store[s].checked.msg} ELSE net)
        /\ UNCHANGED <<log, canon, nextId, used>>

Lose(m) ==
    /\ net' = net \ {m}
    /\ UNCHANGED <<store, log, canon, nextId, used>>

Next ==
    \/ \E s \in Store, r \in RegionId :
        \/ \E to \in Store : ProposeAdd(s, r, to)
        \/ Replica(s, r) /\ \E p \in ToSet(store[s].peers[r].region.peers) :
                ProposeRemove(s, r, p) \/ SendVote(s, r, p)
        \/ \E key \in 1 .. EndKey - 1, n \in RegionId : ProposeSplit(s, r, key, n)
        \/ Apply(s, r)
        \/ \E k \in 1 .. 2 : CrashInBatch(s, r, k)
        \/ Member(s, r) /\ \E k \in 0 .. 1, p \in ToSet(canon[r].peers) : SendSnapshot(s, r, p, k)
    \/ \E m \in net : Deliver(m) \/ Lose(m)
    \/ \E s \in Store : CreatePeer(s) \/ Restart(s, store[s])

Spec == Init /\ [][Next]_vars

-----------------------------------------------------------------------------
Disjoint(a, b) == a.end <= b.start \/ b.end <= a.start

DisjointOn(st) ==
    \A q, r \in RegionId : st.peers[q] # NoPeer /\ st.peers[r] # NoPeer /\ q # r =>
        LET a == st.peers[q].region
            b == st.peers[r].region
        IN  isInitialized(a) /\ isInitialized(b) => Disjoint(a, b)


\* What getOverlapRegions relies on, and destroyPeer (it panics otherwise): the range of
\* every Region of the store is in regionRanges, at its start key and with its end key or
\* a later one; a split leaves the old end key there.  mayUpdateRegion breaks it when
\* the first snapshot of a new peer deletes the range that starts at the empty key,
\* because the Region of a peer without data has an empty start key (lost).
RangesCover ==
    \A s \in Store, r \in RegionId :
        ~store[s].lost /\ Replica(s, r) =>
            \E x \in store[s].ranges : /\ x.start = store[s].peers[r].region.start
                                       /\ x.end >= store[s].peers[r].region.end

\* Whenever the process dies, loadPeers starts again every peer that was not destroyed,
\* with the id it had: the Region on disk has this store's peer.
StartsAgain ==
    \A s \in Store, r \in RegionId :
        store[s].disk[r].state = "Normal" =>
            /\ PeersOn(store[s].disk[r].region, s) # {}
            /\ Replica(s, r) => Me(store[s], s, r) \in PeersOn(store[s].disk[r].region, s)

\* The replicas of a Region agree: a peer that has applied every command has the Region
\* that the commands define, also after a crash that makes it apply some of them again
\* and after a snapshot whose Region is ahead of its index.
ReplicasConverge ==
    \A s \in Store, r \in RegionId :
        Replica(s, r) /\ store[s].peers[r].applied = Len(log[r]) =>
            store[s].peers[r].region = canon[r]

\* A Split that found another number of peers than it has ids for did nothing.
SplitSkipped ==
    \E r \in RegionId : \E i \in DOMAIN log[r] : log[r][i].type = "Split" /\ ~log[r][i].done

\* ReplicasConverge as long as no Split was skipped: the second application of such a
\* Split can find the right number of peers and take effect.
RedoIsHarmless == SplitSkipped \/ ReplicasConverge

Reborn(s, r) ==
    LET d == store[s].disk[r]
    IN  /\ d.state = "Tombstone" /\ isInitialized(d.region) /\ PeersOn(d.region, s) = {}
        /\ store[s].peers[r] = NoPeer /\ store'[s].peers[r] # NoPeer
        /\ \E i \in DOMAIN log[r] : /\ log[r][i].type = "Remove"
                                    /\ log[r][i].peer.id = store'[s].peers[r].id

\* A peer that has applied its own removal is never created again: the tombstone turns
\* away every message of the peers that do not know of the removal yet (checkMsg).  Only a
\* message that was checked before there was a tombstone can do it, since maybeCreatePeer
\* does not look again.
NotReborn ==
    [][\A s \in Store, r \in RegionId :
        Reborn(s, r) => store[s].checked.seen = "None"]_vars
=============================================================================
