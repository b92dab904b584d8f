---------------------------- MODULE RegionsInfo ----------------------------
(***************************************************************************)
(* The scheduler's cache of Regions (scheduler/server/core: region_tree.go *)
(* and the RegionsInfo of region.go).                                      *)
(*                                                                         *)
(* One cache is a tree of Regions by start key, a map of Regions by id,    *)
(* and for every store a tree of the Regions that it leads, follows and    *)
(* has pending peers of.  All of them hold the same RegionInfo objects.    *)
(* A tree is the set of its items; a map is the set of its values.         *)
(*                                                                         *)
(* A RegionInfo is a record with fields id, start, end, version, confVer,  *)
(* peers, leader and pending; a peer is a record with fields id and store. *)
(* Keys are numbers, and the open end is a number above every key.         *)
(***************************************************************************)
EXTENDS Integers

CONSTANT Store      \* store ids

\* regionTree.find: the last item that starts at or before the key, if it contains
\* the key.
find(tree, key) ==
    {i \in tree : /\ i.start <= key /\ key < i.end
                  /\ \A j \in tree : j.start <= key => j.start <= i.start}

\* getOverlaps: in ascending order from the item that find returns, or from the
\* Region's start, up to the Region's end.
getOverlaps(tree, region) ==
    {i \in tree : /\ i.start < region.end
                  /\ i.start >= region.start \/ i \in find(tree, region.start)}

\* regionTree.update
treeUpdate(tree, region) == (tree \ getOverlaps(tree, region)) \cup {region}

\* regionTree.remove
treeRemove(tree, region) == tree \ {i \in find(tree, region.start) : i.id = region.id}

\* regionSubTree.update: the item that contains the start key is replaced in place.
subTreeUpdate(tree, region) ==
    LET found == find(tree, region.start)
    IN  IF found # {} THEN (tree \ found) \cup {region} ELSE treeUpdate(tree, region)

\* regionMap
Get(regions, id) == {i \in regions : i.id = id}
Put(regions, region) == (regions \ Get(regions, region.id)) \cup {region}

\* The stores of a set of peers (GetStoreIds), and the peers on a store.
StoresOf(peers) == {p.store : p \in peers}
GetStorePeer(region, s) == {p \in region.peers : p.store = s}

IsLeaderOn(region, s) == \E p \in region.peers : p.store = s /\ p.id = region.leader.id
IsFollowerOn(region, s) == \E p \in region.peers : p.store = s /\ p.id # region.leader.id

NewRegionsInfo ==
    [tree |-> {}, regions |-> {}, leaders |-> [s \in Store |-> {}],
     followers |-> [s \in Store |-> {}], pending |-> [s \in Store |-> {}]]

\* A store's subtree without the Regions of gone that have a peer on the store.
Without(sub, s, gone) ==
    sub \ UNION {sub \ treeRemove(sub, o) : o \in {x \in gone : s \in StoresOf(x.peers)}}

\* (mutant) A Region stays with the followers of its old peers' stores.
KeepFollowers(c, gone) ==
    [tree      |-> c.tree \ UNION {c.tree \ treeRemove(c.tree, o) : o \in gone},
     regions   |-> {i \in c.regions : \A o \in gone : o.id # i.id},
     leaders   |-> [s \in Store |-> Without(c.leaders[s], s, gone)],
     followers |-> c.followers,
     pending   |-> [s \in Store |-> Without(c.pending[s], s, gone)]]

\* RemoveRegion, of each of the Regions.
RemoveRegions(c, gone) ==
    [tree      |-> c.tree \ UNION {c.tree \ treeRemove(c.tree, o) : o \in gone},
     regions   |-> {i \in c.regions : \A o \in gone : o.id # i.id},
     leaders   |-> [s \in Store |-> Without(c.leaders[s], s, gone)],
     followers |-> [s \in Store |-> Without(c.followers[s], s, gone)],
     pending   |-> [s \in Store |-> Without(c.pending[s], s, gone)]]

\* The last part of AddRegion.
AddToSubTrees(c, region) ==
    [c EXCEPT
       !.leaders   = [s \in Store |-> IF IsLeaderOn(region, s)
                                      THEN subTreeUpdate(c.leaders[s], region) ELSE c.leaders[s]],
       !.followers = [s \in Store |-> IF IsFollowerOn(region, s)
                                      THEN subTreeUpdate(c.followers[s], region)
                                      ELSE c.followers[s]],
       !.pending   = [s \in Store |-> IF s \in StoresOf(region.pending)
                                      THEN subTreeUpdate(c.pending[s], region) ELSE c.pending[s]]]

\* AddRegion: the tree drops what overlaps, and then everything else does.
AddRegion(c, region) ==
    LET overlaps == getOverlaps(c.tree, region)
        gone     == {i \in c.regions : \E o \in overlaps : o.id = i.id}
        cleared  == RemoveRegions([c EXCEPT !.tree = treeUpdate(c.tree, region)], gone)
    IN  AddToSubTrees([cleared EXCEPT !.regions = Put(cleared.regions, region)], region)

\* SetRegion, the one way into the cache.
SetRegion(c, region) == AddRegion(RemoveRegions(c, Get(c.regions, region.id)), region)

\* GetStoreRegionCount counts what a store leads and what it follows.
IsEmptyStore(c, s) == c.leaders[s] = {} /\ c.followers[s] = {}

-----------------------------------------------------------------------------
Overlap(i, j) == i.start < j.end /\ j.start < i.end

\* The tree is a set of disjoint ranges with distinct ids, the map holds the same
\* Regions, and the subtrees of a store hold exactly the Regions with a peer of
\* their kind there: what the counts of a store, the choice of a Region to move and
\* the lookup of a key by clients rest on.
Consistent(c) ==
    /\ \A i, j \in c.tree : i # j => i.id # j.id /\ ~Overlap(i, j)
    /\ c.regions = c.tree
    /\ c.leaders   = [s \in Store |-> {i \in c.tree : IsLeaderOn(i, s)}]
    /\ c.followers = [s \in Store |-> {i \in c.tree : IsFollowerOn(i, s)}]
    /\ c.pending   = [s \in Store |-> {i \in c.tree : s \in StoresOf(i.pending)}]
=============================================================================
