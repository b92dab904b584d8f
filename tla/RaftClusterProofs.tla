------------------------- MODULE RaftClusterProofs -------------------------
(***************************************************************************)
(* The cache of Regions stays consistent, for every number of stores and   *)
(* Regions, with any heartbeats in flight.  First what one SetRegion does  *)
(* to a consistent cache, by way of what its trees find in disjoint        *)
(* ranges; then that only sound Regions reach it.                          *)
(*                                                                         *)
(* The rest is about the replicas of a Region: an inductive invariant on   *)
(* what the scheduler was told of a group, means to do with it and has     *)
(* sent to it, and that every step keeps it.                               *)
(***************************************************************************)
EXTENDS RaftCluster, TLAPS

\* A range that is not empty, and pending peers that are peers: what every Region of
\* the system and every heartbeat has.
Sound(i) ==
    /\ i.start \in Int /\ i.end \in Int /\ i.start < i.end
    /\ i.pending \subseteq i.peers

Separate(t) ==
    /\ \A i \in t : Sound(i)
    /\ \A i, j \in t : i # j => i.id # j.id /\ ~Overlap(i, j)

\* Of disjoint ranges, find returns the one that contains the key.
LEMMA FindContains ==
    ASSUME NEW t, Separate(t), NEW k \in Int
    PROVE  find(t, k) = {i \in t : i.start <= k /\ k < i.end}
<1>1. ASSUME NEW i \in t, i.start <= k, k < i.end, NEW j \in t, j.start <= k
      PROVE  j.start <= i.start
  <2>1. CASE i = j
    BY <2>1 DEF Separate, Sound
  <2>2. CASE i # j
    <3>1. ~Overlap(i, j) /\ Sound(i) /\ Sound(j)
      BY <2>2, Zenon DEF Separate
    <3> QED
      BY <1>1, <3>1 DEF Overlap, Sound
  <2> QED
    BY <2>1, <2>2, Zenon
<1> QED
  BY <1>1, Zenon DEF find

\* Removing an item of a tree from a part of the tree.
LEMMA RemoveOne ==
    ASSUME NEW u, Separate(u), NEW t \in SUBSET u, NEW o \in u
    PROVE  treeRemove(t, o) = t \ {o}
<1>1. Separate(t) /\ Sound(o) /\ o.start \in Int
  BY Zenon DEF Separate, Sound
<1>2. find(t, o.start) = {i \in t : i.start <= o.start /\ o.start < i.end}
  BY <1>1, FindContains, Zenon
<1>3. \A i \in t : i.id = o.id <=> i = o
  BY Zenon DEF Separate
<1>4. o \in t => o \in find(t, o.start)
  BY <1>1, <1>2 DEF Sound
<1> QED
  BY <1>2, <1>3, <1>4, Zenon DEF treeRemove

\* getOverlaps finds every item whose range meets the Region's, and no other.
LEMMA OverlapsFound ==
    ASSUME NEW t, Separate(t), NEW r, Sound(r)
    PROVE  getOverlaps(t, r) = {i \in t : Overlap(i, r)}
<1>1. find(t, r.start) = {i \in t : i.start <= r.start /\ r.start < i.end}
  BY FindContains, Zenon DEF Sound
<1>2. ASSUME NEW i \in t
      PROVE  (i.start < r.end /\ (i.start >= r.start \/ i \in find(t, r.start))) <=> Overlap(i, r)
  <2>1. Sound(i)
    BY Zenon DEF Separate
  <2> QED
    BY <1>1, <2>1 DEF Sound, Overlap
<1> QED
  BY <1>2, Zenon DEF getOverlaps

\* A store's tree loses the Regions that go and have a peer on the store.
LEMMA WithoutGone ==
    ASSUME NEW u, Separate(u), NEW sub \in SUBSET u, NEW gone \in SUBSET u, NEW s
    PROVE  Without(sub, s, gone) = sub \ {x \in gone : s \in StoresOf(x.peers)}
<1>1. \A o \in u : treeRemove(sub, o) = sub \ {o}
  BY RemoveOne, Zenon
<1> QED
  BY <1>1 DEF Without

\* The stores that a cache has trees for, and the Regions of a tree by their role.
S == Store \cup {Nowhere}
Leads(t) == [s \in S |-> {i \in t : IsLeaderOn(i, s)}]
Follows(t) == [s \in S |-> {i \in t : IsFollowerOn(i, s)}]
Awaits(t) == [s \in S |-> {i \in t : s \in StoresOf(i.pending)}]

\* A consistent cache is made of its tree.
CacheOf(t) ==
    [tree |-> t, regions |-> t, leaders |-> Leads(t), followers |-> Follows(t),
     pending |-> Awaits(t)]

\* A cache with a tree and subtrees of one set of Regions, which lose the ones that go.
LEMMA SubTreesLose ==
    ASSUME NEW u, Separate(u), NEW gone \in SUBSET u, NEW s \in S
    PROVE  /\ Without(Leads(u)[s], s, gone) = Leads(u \ gone)[s]
           /\ Without(Follows(u)[s], s, gone) = Follows(u \ gone)[s]
           /\ Without(Awaits(u)[s], s, gone) = Awaits(u \ gone)[s]
<1>1. /\ Leads(u)[s] \in SUBSET u /\ Follows(u)[s] \in SUBSET u /\ Awaits(u)[s] \in SUBSET u
  BY Zenon DEF Leads, Follows, Awaits
<1>2. \A i \in u : /\ IsLeaderOn(i, s) => s \in StoresOf(i.peers)
                   /\ IsFollowerOn(i, s) => s \in StoresOf(i.peers)
                   /\ s \in StoresOf(i.pending) => s \in StoresOf(i.peers)
  BY Zenon DEF IsLeaderOn, IsFollowerOn, StoresOf, Separate, Sound
<1>3. Without(Leads(u)[s], s, gone) = Leads(u \ gone)[s]
  <2>1. Without(Leads(u)[s], s, gone) = Leads(u)[s] \ {x \in gone : s \in StoresOf(x.peers)}
    BY <1>1, WithoutGone
  <2> QED
    BY <1>2, <2>1, Zenon DEF Leads
<1>4. Without(Follows(u)[s], s, gone) = Follows(u \ gone)[s]
  <2>1. Without(Follows(u)[s], s, gone) = Follows(u)[s] \ {x \in gone : s \in StoresOf(x.peers)}
    BY <1>1, WithoutGone
  <2> QED
    BY <1>2, <2>1, Zenon DEF Follows
<1>5. Without(Awaits(u)[s], s, gone) = Awaits(u \ gone)[s]
  <2>1. Without(Awaits(u)[s], s, gone) = Awaits(u)[s] \ {x \in gone : s \in StoresOf(x.peers)}
    BY <1>1, WithoutGone
  <2> QED
    BY <1>2, <2>1, Zenon DEF Awaits
<1> QED
  BY <1>3, <1>4, <1>5, Zenon

\* RemoveRegion takes a Region out of everything.
LEMMA RemoveConsistent ==
    ASSUME NEW u, Separate(u), NEW gone \in SUBSET u
    PROVE  RemoveRegions(CacheOf(u), gone) = CacheOf(u \ gone)
<1> DEFINE c == CacheOf(u)
<1>1. c.tree \ UNION {c.tree \ treeRemove(c.tree, o) : o \in gone} = u \ gone
  <2>1. \A o \in gone : treeRemove(u, o) = u \ {o}
    BY RemoveOne
  <2> QED
    BY <2>1 DEF CacheOf
<1>2. {i \in c.regions : \A o \in gone : o.id # i.id} = u \ gone
  BY Zenon DEF CacheOf, Separate
<1>3. /\ [s \in S |-> Without(c.leaders[s], s, gone)] = Leads(u \ gone)
      /\ [s \in S |-> Without(c.followers[s], s, gone)] = Follows(u \ gone)
      /\ [s \in S |-> Without(c.pending[s], s, gone)] = Awaits(u \ gone)
  <2>1. c.leaders = Leads(u) /\ c.followers = Follows(u) /\ c.pending = Awaits(u)
    BY Zenon DEF CacheOf
  <2>2. \A s \in S : /\ Without(c.leaders[s], s, gone) = Leads(u \ gone)[s]
                     /\ Without(c.followers[s], s, gone) = Follows(u \ gone)[s]
                     /\ Without(c.pending[s], s, gone) = Awaits(u \ gone)[s]
    BY <2>1, SubTreesLose
  <2>3. /\ [s \in S |-> Without(c.leaders[s], s, gone)] = [s \in S |-> Leads(u \ gone)[s]]
        /\ [s \in S |-> Without(c.followers[s], s, gone)] = [s \in S |-> Follows(u \ gone)[s]]
        /\ [s \in S |-> Without(c.pending[s], s, gone)] = [s \in S |-> Awaits(u \ gone)[s]]
    BY <2>2, Zenon
  <2>4. /\ [s \in S |-> Leads(u \ gone)[s]] = Leads(u \ gone)
        /\ [s \in S |-> Follows(u \ gone)[s]] = Follows(u \ gone)
        /\ [s \in S |-> Awaits(u \ gone)[s]] = Awaits(u \ gone)
    BY Zenon DEF Leads, Follows, Awaits
  <2> QED
    BY <2>3, <2>4, Zenon
<1>4. RemoveRegions(c, gone) =
        [tree      |-> c.tree \ UNION {c.tree \ treeRemove(c.tree, o) : o \in gone},
         regions   |-> {i \in c.regions : \A o \in gone : o.id # i.id},
         leaders   |-> [s \in S |-> Without(c.leaders[s], s, gone)],
         followers |-> [s \in S |-> Without(c.followers[s], s, gone)],
         pending   |-> [s \in S |-> Without(c.pending[s], s, gone)]]
  BY Zenon DEF RemoveRegions, S
<1>5. RemoveRegions(c, gone) =
        [tree |-> u \ gone, regions |-> u \ gone, leaders |-> Leads(u \ gone),
         followers |-> Follows(u \ gone), pending |-> Awaits(u \ gone)]
  BY <1>1, <1>2, <1>3, <1>4, Zenon
<1> QED
  BY <1>5, Zenon DEF CacheOf

\* What stays of a tree when a Region comes, and what it becomes.
Stay(u, r) == u \ {i \in u : Overlap(i, r)}

LEMMA SeparateAfter ==
    ASSUME NEW u, Separate(u), NEW r, Sound(r), \A i \in u : i.id # r.id
    PROVE  Separate(Stay(u, r)) /\ Separate(Stay(u, r) \cup {r})
<1>1. \A i \in Stay(u, r) : ~Overlap(i, r) /\ ~Overlap(r, i)
  BY Zenon DEF Stay, Overlap
<1> QED
  BY <1>1, Zenon DEF Stay, Separate

\* A Region that overlaps nothing of a tree joins it.
LEMMA JoinSubTree ==
    ASSUME NEW sub, Separate(sub), NEW r, Sound(r), \A i \in sub : ~Overlap(i, r)
    PROVE  subTreeUpdate(sub, r) = sub \cup {r}
<1>1. find(sub, r.start) = {i \in sub : i.start <= r.start /\ r.start < i.end}
  BY FindContains, Zenon DEF Sound
<1>2. find(sub, r.start) = {}
  BY <1>1 DEF Separate, Sound, Overlap
<1>3. getOverlaps(sub, r) = {}
  BY OverlapsFound, Zenon
<1> QED
  BY <1>2, <1>3, Zenon DEF subTreeUpdate, treeUpdate

\* The subtrees, once the Region has been added where it has a peer.
LEMMA SubTreesGain ==
    ASSUME NEW v, Separate(v), NEW r, Sound(r), \A i \in v : ~Overlap(i, r), NEW s \in S
    PROVE  /\ (IF IsLeaderOn(r, s) THEN subTreeUpdate(Leads(v)[s], r) ELSE Leads(v)[s])
              = Leads(v \cup {r})[s]
           /\ (IF IsFollowerOn(r, s) THEN subTreeUpdate(Follows(v)[s], r) ELSE Follows(v)[s])
              = Follows(v \cup {r})[s]
           /\ (IF s \in StoresOf(r.pending) THEN subTreeUpdate(Awaits(v)[s], r) ELSE Awaits(v)[s])
              = Awaits(v \cup {r})[s]
<1>1. \A sub \in SUBSET v : subTreeUpdate(sub, r) = sub \cup {r}
  <2>1. \A sub \in SUBSET v : Separate(sub) /\ \A i \in sub : ~Overlap(i, r)
    BY Zenon DEF Separate
  <2> QED
    BY <2>1, JoinSubTree, Zenon
<1>2. /\ Leads(v)[s] \in SUBSET v /\ Follows(v)[s] \in SUBSET v /\ Awaits(v)[s] \in SUBSET v
  BY Zenon DEF Leads, Follows, Awaits
<1>3. (IF IsLeaderOn(r, s) THEN subTreeUpdate(Leads(v)[s], r) ELSE Leads(v)[s])
          = Leads(v \cup {r})[s]
  BY <1>1, <1>2 DEF Leads
<1>4. (IF IsFollowerOn(r, s) THEN subTreeUpdate(Follows(v)[s], r) ELSE Follows(v)[s])
          = Follows(v \cup {r})[s]
  BY <1>1, <1>2 DEF Follows
<1>5. (IF s \in StoresOf(r.pending) THEN subTreeUpdate(Awaits(v)[s], r) ELSE Awaits(v)[s])
          = Awaits(v \cup {r})[s]
  BY <1>1, <1>2, Zenon DEF Awaits
<1> QED
  BY <1>3, <1>4, <1>5, Zenon

\* AddToSubTrees makes a cache with the Region in its tree and map consistent.
LEMMA AddToSubTreesConsistent ==
    ASSUME NEW v, Separate(v), NEW r, Sound(r), \A i \in v : ~Overlap(i, r), NEW c,
           c = [tree |-> v \cup {r}, regions |-> v \cup {r}, leaders |-> Leads(v),
                followers |-> Follows(v), pending |-> Awaits(v)]
    PROVE  AddToSubTrees(c, r) = CacheOf(v \cup {r})
<1> DEFINE lead == [s \in S |-> IF IsLeaderOn(r, s) THEN subTreeUpdate(c.leaders[s], r)
                                ELSE c.leaders[s]]
           foll == [s \in S |-> IF IsFollowerOn(r, s) THEN subTreeUpdate(c.followers[s], r)
                                ELSE c.followers[s]]
           pend == [s \in S |-> IF s \in StoresOf(r.pending) THEN subTreeUpdate(c.pending[s], r)
                                ELSE c.pending[s]]
<1>1. AddToSubTrees(c, r) = [c EXCEPT !.leaders = lead, !.followers = foll, !.pending = pend]
  BY Zenon DEF AddToSubTrees, S
<1>2. c.leaders = Leads(v) /\ c.followers = Follows(v) /\ c.pending = Awaits(v)
  BY Zenon
<1>3. \A s \in S : /\ lead[s] = Leads(v \cup {r})[s]
                   /\ foll[s] = Follows(v \cup {r})[s]
                   /\ pend[s] = Awaits(v \cup {r})[s]
  BY <1>2, SubTreesGain
<1>4. lead = Leads(v \cup {r}) /\ foll = Follows(v \cup {r}) /\ pend = Awaits(v \cup {r})
  BY <1>3, Zenon DEF Leads, Follows, Awaits
<1> HIDE DEF lead, foll, pend
<1> QED
  BY <1>1, <1>4, Zenon DEF CacheOf

\* AddRegion of a Region whose id is not known: the overlapping ones go everywhere.
LEMMA AddConsistent ==
    ASSUME NEW u, Separate(u), NEW r, Sound(r), \A i \in u : i.id # r.id
    PROVE  AddRegion(CacheOf(u), r) = CacheOf(Stay(u, r) \cup {r})
<1> DEFINE c == CacheOf(u)
           O == {i \in u : Overlap(i, r)}
           v == Stay(u, r)
           w == v \cup {r}
           mid == [c EXCEPT !.tree = treeUpdate(c.tree, r)]
           gone == {i \in c.regions : \E o \in getOverlaps(c.tree, r) : o.id = i.id}
           cleared == RemoveRegions(mid, gone)
<1>1. c.tree = u /\ c.regions = u
  BY Zenon DEF CacheOf
<1>2. getOverlaps(c.tree, r) = O
  BY <1>1, OverlapsFound, Zenon
<1>3. gone = O
  BY <1>1, <1>2, Zenon DEF Separate
<1>4. Separate(v) /\ Separate(w)
  BY SeparateAfter, Zenon
<1>5. treeUpdate(c.tree, r) = w
  BY <1>1, <1>2, Zenon DEF treeUpdate, Stay
<1>6. mid = [tree |-> w, regions |-> u, leaders |-> Leads(u), followers |-> Follows(u),
             pending |-> Awaits(u)]
  <2> HIDE DEF w
  <2> QED
    BY <1>5 DEF CacheOf
<1>7. cleared = [tree |-> w, regions |-> v, leaders |-> Leads(v), followers |-> Follows(v),
                 pending |-> Awaits(v)]
  <2>1. \A o \in O : treeRemove(w, o) = w
    BY Zenon DEF treeRemove, find, Stay, Separate
  <2>2. w \ UNION {w \ treeRemove(w, o) : o \in O} = w
    BY <2>1, Zenon
  <2>3. {i \in u : \A o \in O : o.id # i.id} = v
    BY Zenon DEF Stay, Separate
  <2>4. \A s \in S : /\ Without(Leads(u)[s], s, O) = Leads(v)[s]
                     /\ Without(Follows(u)[s], s, O) = Follows(v)[s]
                     /\ Without(Awaits(u)[s], s, O) = Awaits(v)[s]
    <3> v = u \ O /\ O \in SUBSET u
      BY Zenon DEF Stay
    <3> HIDE DEF v, O
    <3>1. \A s \in S : /\ Without(Leads(u)[s], s, O) = Leads(u \ O)[s]
                       /\ Without(Follows(u)[s], s, O) = Follows(u \ O)[s]
                       /\ Without(Awaits(u)[s], s, O) = Awaits(u \ O)[s]
      BY SubTreesLose, Zenon
    <3> QED
      BY <3>1, Zenon
  <2>5. /\ [s \in S |-> Without(Leads(u)[s], s, O)] = Leads(v)
        /\ [s \in S |-> Without(Follows(u)[s], s, O)] = Follows(v)
        /\ [s \in S |-> Without(Awaits(u)[s], s, O)] = Awaits(v)
    <3>1. /\ [s \in S |-> Without(Leads(u)[s], s, O)] = [s \in S |-> Leads(v)[s]]
          /\ [s \in S |-> Without(Follows(u)[s], s, O)] = [s \in S |-> Follows(v)[s]]
          /\ [s \in S |-> Without(Awaits(u)[s], s, O)] = [s \in S |-> Awaits(v)[s]]
      BY <2>4, Zenon
    <3>2. /\ [s \in S |-> Leads(v)[s]] = Leads(v)
          /\ [s \in S |-> Follows(v)[s]] = Follows(v)
          /\ [s \in S |-> Awaits(v)[s]] = Awaits(v)
      BY Zenon DEF Leads, Follows, Awaits
    <3> QED
      BY <3>1, <3>2, Zenon
  <2>6. cleared =
          [tree      |-> mid.tree \ UNION {mid.tree \ treeRemove(mid.tree, o) : o \in O},
           regions   |-> {i \in mid.regions : \A o \in O : o.id # i.id},
           leaders   |-> [s \in S |-> Without(mid.leaders[s], s, O)],
           followers |-> [s \in S |-> Without(mid.followers[s], s, O)],
           pending   |-> [s \in S |-> Without(mid.pending[s], s, O)]]
    <3> HIDE DEF mid, gone, O
    <3> QED
      BY <1>3, Zenon DEF RemoveRegions, S
  <2>7. /\ mid.tree = w /\ mid.regions = u /\ mid.leaders = Leads(u)
        /\ mid.followers = Follows(u) /\ mid.pending = Awaits(u)
    <3> HIDE DEF mid, w
    <3> QED
      BY <1>6, Zenon
  <2> HIDE DEF mid, cleared, w, v, O
  <2>8. mid.tree \ UNION {mid.tree \ treeRemove(mid.tree, o) : o \in O} = w
    BY <2>2, <2>7, Zenon
  <2>9. {i \in mid.regions : \A o \in O : o.id # i.id} = v
    BY <2>3, <2>7, Zenon
  <2>10. [s \in S |-> Without(mid.leaders[s], s, O)] = Leads(v)
    BY <2>5, <2>7, Zenon
  <2>11. [s \in S |-> Without(mid.followers[s], s, O)] = Follows(v)
    BY <2>5, <2>7, Zenon
  <2>12. [s \in S |-> Without(mid.pending[s], s, O)] = Awaits(v)
    BY <2>5, <2>7, Zenon
  <2> QED
    BY <2>6, <2>8, <2>9, <2>10, <2>11, <2>12, Zenon
<1>8. Put(v, r) = w
  BY Zenon DEF Put, Get, Stay
<1>9. [cleared EXCEPT !.regions = Put(cleared.regions, r)] =
        [tree |-> w, regions |-> w, leaders |-> Leads(v), followers |-> Follows(v),
         pending |-> Awaits(v)]
  <2> HIDE DEF cleared, w, v
  <2> QED
    BY <1>7, <1>8
<1>10. \A i \in v : ~Overlap(i, r)
  BY Zenon DEF Stay
<1>11. AddRegion(c, r) = AddToSubTrees([cleared EXCEPT !.regions = Put(cleared.regions, r)], r)
  BY Zenon DEF AddRegion
<1>12. AddToSubTrees([cleared EXCEPT !.regions = Put(cleared.regions, r)], r) = CacheOf(w)
  <2> HIDE DEF cleared, v
  <2> QED
    BY <1>4, <1>9, <1>10, AddToSubTreesConsistent, Zenon
<1> QED
  BY <1>11, <1>12, Zenon

\* What the tree is after a Region was set.
TreeAfter(u, r) == Stay(u \ Get(u, r.id), r) \cup {r}

\* SetRegion keeps a cache consistent, whatever it holds and whatever comes.
LEMMA SetConsistent ==
    ASSUME NEW u, Separate(u), NEW r, Sound(r)
    PROVE  SetRegion(CacheOf(u), r) = CacheOf(TreeAfter(u, r)) /\ Separate(TreeAfter(u, r))
<1> DEFINE v == u \ Get(u, r.id)
<1>1. Get(u, r.id) \in SUBSET u /\ Separate(v) /\ \A i \in v : i.id # r.id
  BY Zenon DEF Get, Separate
<1>2. RemoveRegions(CacheOf(u), Get(CacheOf(u).regions, r.id)) = CacheOf(v)
  <2>1. CacheOf(u).regions = u
    BY Zenon DEF CacheOf
  <2> QED
    BY <1>1, <2>1, RemoveConsistent, Zenon
<1>3. SetRegion(CacheOf(u), r) = AddRegion(CacheOf(v), r)
  BY <1>2, Zenon DEF SetRegion
<1> HIDE DEF v
<1>4. AddRegion(CacheOf(v), r) = CacheOf(Stay(v, r) \cup {r}) /\ Separate(Stay(v, r) \cup {r})
  BY <1>1, AddConsistent, SeparateAfter, Zenon
<1> QED
  BY <1>3, <1>4, Zenon DEF TreeAfter, v

-----------------------------------------------------------------------------
\* A Region that is a record of its fields, and sound.
Fields == {"id", "start", "end", "version", "confVer", "peers", "leader", "pending"}
Good(i) == i = [f \in Fields |-> i[f]] /\ Sound(i)

\* The inductive invariant: only good Regions exist and are reported, and the cache is
\* made of its tree.
CacheInv ==
    /\ DOMAIN real = Region /\ DOMAIN hb = Store
    /\ real = [r \in Region |-> real[r]] /\ hb = [s \in Store |-> hb[s]]
    /\ \A r \in Region : Exists(r) => Good(real[r])
    /\ \A s \in Store : hb[s] # Idle =>
          /\ hb[s] = [at |-> hb[s].at, region |-> hb[s].region]
          /\ Good(hb[s].region)
    /\ Separate(cache.tree)
    /\ cache = CacheOf(cache.tree)

LEMMA LedGood ==
    ASSUME NEW i, Good(i), NEW p
    PROVE  Good(Led(i, p))
BY Zenon DEF Good, Sound, Led, Fields

\* No command makes a Region unsound.
LEMMA HandleGood ==
    ASSUME NEW c, NEW i, Good(i), NEW n \in Handle(c, i)
    PROVE  Good(n)
<1>1. CASE c.kind = "transfer"
  BY <1>1, LedGood, Zenon DEF Handle
<1>2. CASE c.kind = "add"
  BY <1>2, Zenon DEF Handle, Good, Sound, Fields
<1>3. CASE c.kind \notin {"transfer", "add"}
  <2> DEFINE rest == [i EXCEPT !.peers = @ \ {c.peer}, !.pending = @ \ {c.peer},
                               !.confVer = @ + 1]
  <2>1. Good(rest)
    BY Zenon DEF Good, Sound, Fields
  <2>2. n = rest \/ \E p : n = Led(rest, p)
    BY <1>3, Zenon DEF Handle
  <2> HIDE DEF rest
  <2> QED
    BY <2>1, <2>2, LedGood, Zenon
<1> QED
  BY <1>1, <1>2, <1>3, Zenon


\* Both parts of a split Region are good.
LEMMA SplitGood ==
    ASSUME NEW r \in Region, NEW new \in Region, CacheInv, Split(r, new)
    PROVE  \A x \in Region : Exists(x)' => Good(real'[x])
<1> DEFINE old == real[r]
           first == Alloc(Cardinality(old.peers))
           copy(p) == [id |-> first + Cardinality({q \in old.peers : q.id < p.id}),
                       store |-> p.store]
           lft == [old EXCEPT !.version = @ + 1, !.end = old.start + 1]
           rgt == [old EXCEPT !.id = new, !.start = old.start + 1,
                              !.version = 1, !.confVer = 1,
                              !.peers = {copy(p) : p \in @},
                              !.leader = copy(@),
                              !.pending = {copy(p) : p \in @}]
<1>1. Good(old) /\ old.start + 1 < old.end
  BY Zenon DEF CacheInv, Split
<1>2. real' = [real EXCEPT ![r] = lft, ![new] = rgt]
  BY Zenon DEF Split
<1> HIDE DEF old, copy
<1>3. Good(lft)
  <2>1. lft = [f \in Fields |-> lft[f]]
    BY <1>1, Zenon DEF Good, Fields
  <2>2. /\ lft.start = old.start /\ lft.end = old.start + 1
        /\ lft.peers = old.peers /\ lft.pending = old.pending
    BY <1>1, Zenon DEF Good, Fields
  <2> HIDE DEF lft
  <2> QED
    BY <1>1, <2>1, <2>2 DEF Good, Sound
<1>4. Good(rgt)
  <2>1. rgt = [f \in Fields |-> rgt[f]]
    BY <1>1, Zenon DEF Good, Fields
  <2>2. /\ rgt.start = old.start + 1 /\ rgt.end = old.end
        /\ rgt.peers = {copy(p) : p \in old.peers}
        /\ rgt.pending = {copy(p) : p \in old.pending}
    BY <1>1, Zenon DEF Good, Fields
  <2>3. {copy(p) : p \in old.pending} \subseteq {copy(p) : p \in old.peers}
    BY <1>1, Zenon DEF Good, Sound
  <2> HIDE DEF rgt
  <2>4. rgt.start \in Int /\ rgt.end \in Int /\ rgt.start < rgt.end
    BY <1>1, <2>2 DEF Good, Sound
  <2>5. rgt.pending \subseteq rgt.peers
    BY <2>2, <2>3, Zenon
  <2> QED
    BY <2>1, <2>4, <2>5, Zenon DEF Good, Sound
<1> HIDE DEF lft, rgt
<1>5. \A x \in Region : real'[x] \in {real[x], lft, rgt}
  BY <1>2, Zenon DEF CacheInv
<1> QED
  BY <1>3, <1>4, <1>5 DEF CacheInv, Exists

LEMMA CacheInvInit == Init => CacheInv
<1> SUFFICES ASSUME Init PROVE CacheInv
  BY Zenon
<1>1. Good(FirstRegion)
  BY FirstRegionAssumption, Zenon DEF Good, Sound, Fields
<1>2. cache = CacheOf({}) /\ cache.tree = {}
  <2>1. NewRegionsInfo = CacheOf({})
    BY Zenon DEF NewRegionsInfo, CacheOf, Leads, Follows, Awaits, S
  <2> QED
    BY <2>1, Zenon DEF Init, CacheOf
<1>3. Separate({})
  BY Zenon DEF Separate
<1> QED
  BY <1>1, <1>2, <1>3, Zenon DEF Init, CacheInv, Exists

\* A step that leaves the heartbeats and the cache alone, and the Regions good.
LEMMA RealStep ==
    ASSUME CacheInv, UNCHANGED <<hb, cache>>, NEW r \in Region, NEW n, Good(n),
           real' = [real EXCEPT ![r] = n]
    PROVE  CacheInv'
<1>1. DOMAIN real' = Region /\ real' = [x \in Region |-> real'[x]]
  BY Zenon DEF CacheInv
<1>2. \A x \in Region : real'[x] = real[x] \/ Good(real'[x])
  BY Zenon DEF CacheInv
<1> QED
  BY <1>1, <1>2 DEF CacheInv, Exists

\* A step that leaves the Regions and the cache alone, and a stream with a good Region.
LEMMA StreamStep ==
    ASSUME CacheInv, UNCHANGED <<real, cache>>, NEW s, NEW n,
           hb' = [hb EXCEPT ![s] = n],
           n = Idle \/ (n = [at |-> n.at, region |-> n.region] /\ Good(n.region))
    PROVE  CacheInv'
<1>1. DOMAIN hb' = Store /\ hb' = [x \in Store |-> hb'[x]]
  BY Zenon DEF CacheInv
<1>2. \A x \in Store : hb'[x] = hb[x] \/ hb'[x] = n
  BY Zenon DEF CacheInv
<1> QED
  BY <1>1, <1>2, Zenon DEF CacheInv, Exists

\* Every action preserves the invariant; only PutHeartbeat changes the cache other than
\* to empty it.
LEMMA CacheInvStep == CacheInv /\ [Next]_vars => CacheInv'
<1> SUFFICES ASSUME CacheInv, [Next]_vars PROVE CacheInv'
  BY Zenon
<1>1. CASE UNCHANGED <<real, hb, cache>>
  BY <1>1, Zenon DEF CacheInv, Exists
<1>2. ASSUME NEW s \in Store, CheckHeartbeat(s) PROVE CacheInv'
  <2>1. PICK n : hb' = [hb EXCEPT ![s] = n] /\ (n = Idle \/ n = [hb[s] EXCEPT !.at = "checked"])
    BY <1>2, Zenon DEF CheckHeartbeat
  <2>2. /\ hb[s] = [at |-> hb[s].at, region |-> hb[s].region]
        /\ Good(hb[s].region)
    BY <1>2, Zenon DEF CheckHeartbeat, CacheInv
  <2>3. n = Idle \/ (n = [at |-> n.at, region |-> n.region] /\ n.region = hb[s].region)
    BY <2>1, <2>2, Zenon
  <2> QED
    BY <1>2, <2>1, <2>2, <2>3, StreamStep, Zenon DEF CheckHeartbeat
<1>3. ASSUME NEW s \in Store, PutHeartbeat(s) PROVE CacheInv'
  <2>1. /\ hb[s] = [at |-> hb[s].at, region |-> hb[s].region]
        /\ Good(hb[s].region)
        /\ real' = real
    BY <1>3, Zenon DEF PutHeartbeat, CacheInv
  <2>2. hb' = [hb EXCEPT ![s] = [hb[s] EXCEPT !.at = "put"]]
    BY <1>3, Zenon DEF PutHeartbeat
  <2>3. /\ DOMAIN hb' = Store /\ hb' = [x \in Store |-> hb'[x]]
        /\ \A x \in Store : x # s => hb'[x] = hb[x]
        /\ hb'[s] = [at |-> "put", region |-> hb[s].region]
    BY <2>1, <2>2, Zenon DEF CacheInv
  <2>4. \A x \in Store : hb'[x] # Idle =>
           /\ hb'[x] = [at |-> hb'[x].at, region |-> hb'[x].region]
           /\ Good(hb'[x].region)
    BY <2>1, <2>3 DEF CacheInv
  <2>5. PICK u : Separate(u) /\ cache = CacheOf(u)
    BY Zenon DEF CacheInv
  <2>6. cache' = CacheOf(TreeAfter(u, hb[s].region)) /\ Separate(TreeAfter(u, hb[s].region))
    BY <1>3, <2>1, <2>5, SetConsistent, Zenon DEF PutHeartbeat, Good
  <2>7. Separate(cache'.tree) /\ cache' = CacheOf(cache'.tree)
    BY <2>6, Zenon DEF CacheOf
  <2> QED
    BY <2>1, <2>3, <2>4, <2>7, Zenon DEF CacheInv, Exists
<1>4. ASSUME NEW s \in Store, DispatchHeartbeat(s) PROVE CacheInv'
  BY <1>4, StreamStep, Zenon DEF DispatchHeartbeat
<1>5. ASSUME NEW s \in Store, Deliver(s) PROVE CacheInv'
  <2> DEFINE c == Head(cmds[s])
  <2>1. CASE real' = real
    BY <1>5, <2>1, <1>1, Zenon DEF Deliver
  <2>2. CASE real' # real
    <3>1. PICK n : /\ Exists(c.region)
                   /\ n \in Handle(c, real[c.region])
                   /\ real' = [real EXCEPT ![c.region] = n]
      BY <1>5, <2>2, Zenon DEF Deliver
    <3>2. c.region \in Region
      BY <2>2, <3>1, Zenon DEF CacheInv
    <3>3. Good(n)
      BY <3>1, <3>2, HandleGood, Zenon DEF CacheInv
    <3> QED
      BY <1>5, <3>1, <3>2, <3>3, RealStep, Zenon DEF Deliver
  <2> QED
    BY <2>1, <2>2, Zenon
<1>6. ASSUME NEW r \in Region, SendHeartbeat(r) PROVE CacheInv'
  <2> DEFINE n == [at |-> "sent", region |-> real[r]]
  <2>1. n = [at |-> n.at, region |-> n.region] /\ Good(n.region)
    BY <1>6, Zenon DEF SendHeartbeat, CacheInv
  <2> QED
    BY <1>6, <2>1, StreamStep, Zenon DEF SendHeartbeat
<1>7. ASSUME NEW r \in Region, LeaderChange(r) PROVE CacheInv'
  <2>1. PICK p : real' = [real EXCEPT ![r] = Led(real[r], p)]
    BY <1>7, Zenon DEF LeaderChange
  <2>2. Good(Led(real[r], p))
    BY <1>7, LedGood, Zenon DEF LeaderChange, CacheInv
  <2> QED
    BY <1>7, <2>1, <2>2, RealStep, Zenon DEF LeaderChange
<1>8. ASSUME NEW r \in Region, CatchUp(r) PROVE CacheInv'
  <2>1. PICK p : real' = [real EXCEPT ![r].pending = @ \ {p}]
    BY <1>8, Zenon DEF CatchUp
  <2> DEFINE n == [real[r] EXCEPT !.pending = @ \ {p}]
  <2>2. Good(n)
    <3> DEFINE old == real[r]
               rest == old.pending \ {p}
    <3>1. old = [f \in Fields |-> old[f]] /\ Sound(old)
      BY <1>8, Zenon DEF CatchUp, CacheInv, Good
    <3>2. n = [old EXCEPT !.pending = rest]
      BY Zenon
    <3> HIDE DEF old, rest, n
    <3>3. n = [f \in Fields |-> n[f]] /\ n.start = old.start /\ n.end = old.end
          /\ n.peers = old.peers /\ n.pending = rest
      BY <3>1, <3>2, Zenon DEF Fields
    <3> QED
      BY <3>1, <3>3, Zenon DEF Good, Sound, rest
  <2>3. real' = [real EXCEPT ![r] = n]
    BY <2>1, Zenon
  <2> HIDE DEF n
  <2> QED
    BY <1>8, <2>2, <2>3, RealStep, Zenon DEF CatchUp
<1>9. ASSUME NEW r \in Region, NEW new \in Region, Split(r, new) PROVE CacheInv'
  <2>1. UNCHANGED <<hb, cache>>
    BY <1>9, Zenon DEF Split
  <2>2. \A x \in Region : Exists(x)' => Good(real'[x])
    BY <1>9, SplitGood, Zenon
  <2>3. PICK a, b : real' = [real EXCEPT ![r] = a, ![new] = b]
    BY <1>9, Zenon DEF Split
  <2>4. DOMAIN real' = Region /\ real' = [x \in Region |-> real'[x]]
    BY <2>3, Zenon DEF CacheInv
  <2> QED
    BY <2>1, <2>2, <2>4, Zenon DEF CacheInv
<1>10. CASE Restart
  <2>1. NewRegionsInfo = CacheOf({}) /\ CacheOf({}).tree = {} /\ Separate({})
    BY Zenon DEF NewRegionsInfo, CacheOf, Leads, Follows, Awaits, S, Separate
  <2> QED
    BY <1>10, <2>1, Zenon DEF Restart, CacheInv, Exists
<1> QED
  BY <1>1, <1>2, <1>3, <1>4, <1>5, <1>6, <1>7, <1>8, <1>9, <1>10, Zenon
     DEF Next, vars, LoseCommand, RemoveStore, CheckStores, Patrol, AdmitOperator,
         StartOperator, Schedule

\* The cache of Regions is consistent in every behaviour, for any stores, Regions,
\* options and bounds (SetRegion, processRegionHeartbeat).
THEOREM CacheStaysConsistent == Spec => []CacheConsistent
<1>1. CacheInv => CacheConsistent
  <2> SUFFICES ASSUME CacheInv PROVE Consistent(cache)
    BY Zenon DEF CacheConsistent
  <2>1. PICK u : Separate(u) /\ cache = CacheOf(u)
    BY Zenon DEF CacheInv
  <2>2. /\ cache.tree = u /\ cache.regions = u /\ cache.leaders = Leads(u)
        /\ cache.followers = Follows(u) /\ cache.pending = Awaits(u)
    BY <2>1, Zenon DEF CacheOf
  <2> QED
    BY <2>1, <2>2, Zenon DEF Consistent, Separate, Leads, Follows, Awaits, S
<1> QED
  BY <1>1, CacheInvInit, CacheInvStep, PTL DEF Spec

-----------------------------------------------------------------------------
(* What is used of finite sets and of sequences.                           *)

\* The facts about finite sets that the proofs need; SizesHold proves them.
SizeFacts ==
    /\ Cardinality({}) = 0
    /\ \A e : Cardinality({e}) = 1
    /\ \A A : IsFiniteSet(A) => Cardinality(A) \in Nat
    /\ \A A, e : IsFiniteSet(A) /\ e \notin A =>
          IsFiniteSet(A \cup {e}) /\ Cardinality(A \cup {e}) = Cardinality(A) + 1
    /\ \A A, e : IsFiniteSet(A) =>
          IsFiniteSet(A \ {e}) /\ Cardinality(A \ {e}) \in {Cardinality(A) - 1, Cardinality(A)}
    /\ \A A, T, f : /\ IsFiniteSet(A) /\ f \in [A -> T]
                    /\ \A a, b \in A : f[a] = f[b] => a = b
                    /\ \A t \in T : \E a \in A : f[a] = t
                    => IsFiniteSet(T) /\ Cardinality(T) = Cardinality(A)

LEMMA EmptyIn == ASSUME NEW T PROVE <<>> \in Seq(T)
  OBVIOUS

LEMMA HeadTail ==
    ASSUME NEW T, NEW s \in Seq(T), s # <<>>
    PROVE  Head(s) \in T /\ Tail(s) \in Seq(T)
<1>1. Len(s) \in Nat /\ Len(s) >= 1
  OBVIOUS
<1>2. Head(s) \in T
  BY <1>1
<1>3. Tail(s) \in Seq(T)
  BY <1>1
<1> QED
  BY <1>2, <1>3, Zenon

LEMMA Appended ==
    ASSUME NEW T, NEW s \in Seq(T), NEW e
    PROVE  Append(s, e) \in Seq(T \cup {e})
<1>1. PICK U : U = T \cup {e}
  BY Zenon
<1>2. s \in Seq(U)
  BY <1>1
<1>3. Append(s, e) \in Seq(U)
  BY <1>1, <1>2
<1> QED
  BY <1>1, <1>3, Zenon

LEMMA Concatenated ==
    ASSUME NEW T, NEW s \in Seq(T), NEW t \in Seq(T)
    PROVE  /\ Len(s) \in Nat /\ Len(t) \in Nat
           /\ s \o t \in Seq(T) /\ Len(s \o t) = Len(s) + Len(t)
           /\ \A n \in 1 .. Len(s) + Len(t) :
                 (s \o t)[n] = IF n <= Len(s) THEN s[n] ELSE t[n - Len(s)]
  OBVIOUS

LEMMA SameSeq ==
    ASSUME NEW T, NEW s \in Seq(T), NEW t \in Seq(T), Len(s) = Len(t),
           \A n \in 1 .. Len(s) : s[n] = t[n]
    PROVE  s = t
  OBVIOUS

-----------------------------------------------------------------------------
(* What is said of a group g: by a Region that was reported, by an operator, by a  *)
(* command.  Only what is said at the group's configuration, or one before, counts. *)

Crowded(g) == Cardinality(g.peers) > MaxReplicas

Kept(g) ==
    /\ IsFiniteSet(g.peers) /\ g.confVer \in Nat
    /\ Cardinality(g.peers) >= MaxReplicas
    /\ \A p, q \in g.peers : p.store = q.store => p = q

\* A report is true until the configuration changes; if the one change since then
\* brought a peer, the group has one too many.
Known(i, g) ==
    /\ i.confVer \in Nat /\ i.confVer <= g.confVer
    /\ i.confVer = g.confVer => i.peers = g.peers
    /\ i.confVer + 1 = g.confVer => g.peers \subseteq i.peers \/ Crowded(g)

\* Up to three steps, of which at most one adds a peer and only the last one removes one.
Plan(steps) ==
    /\ Len(steps) \in 1 .. 3 /\ DOMAIN steps = 1 .. Len(steps)
    /\ \A n \in DOMAIN steps :
          /\ steps[n].kind \in {"transfer", "add", "remove"}
          /\ steps[n].kind = "remove" => n = Len(steps)
    /\ \A n, m \in DOMAIN steps : steps[n].kind = "add" /\ steps[m].kind = "add" => n = m

OpFields == {"region", "version", "confVer", "steps", "cur", "level"}

Shape(o) ==
    /\ o = [f \in OpFields |-> o[f]]
    /\ o.confVer \in Nat
    /\ Plan(o.steps) /\ o.cur \in 1 .. (Len(o.steps) + 1)

Adds(steps) == \E n \in DOMAIN steps : steps[n].kind = "add"
Added(step, g) == \E p \in g.peers : p.store = step.store /\ p.id = step.id

\* An operator of the group's configuration adds a peer that is not there, or finds one
\* too many to remove; one configuration later its peer may be the one too many.
Fits(o, g) ==
    /\ Shape(o)
    /\ o.confVer <= g.confVer
    /\ \A n \in DOMAIN o.steps : o.steps[n].kind = "add" =>
          /\ o.confVer = g.confVer => ~HasPeer(g, o.steps[n].store) /\ o.cur <= n
          /\ o.confVer + 1 = g.confVer /\ Added(o.steps[n], g) => Crowded(g)
    /\ \A n \in DOMAIN o.steps : o.steps[n].kind = "remove" /\ o.confVer = g.confVer =>
          Adds(o.steps) \/ Crowded(g)

\* A command that the group would still take is right.
Right(c, g) ==
    /\ c.confVer \in Nat /\ c.confVer <= g.confVer
    /\ c.kind \in {"transfer", "add", "remove"}
    /\ c.confVer = g.confVer =>
          /\ c.kind = "add" => ~HasPeer(g, c.peer.store)
          /\ c.kind = "remove" /\ c.peer # NoPeer => Crowded(g)

\* How a group moves on: its configuration stays, or it changes by one peer.
Moved(g, h) ==
    \/ h.confVer = g.confVer /\ h.peers = g.peers
    \/ h.confVer = g.confVer + 1 /\ (Crowded(h) \/ h.peers \subseteq g.peers)

LEMMA KnownMoves ==
    ASSUME NEW i, NEW g, NEW h, g.confVer \in Nat, Known(i, g), Moved(g, h)
    PROVE  Known(i, h)
<1>1. CASE h.confVer = g.confVer /\ h.peers = g.peers
  BY <1>1, Zenon DEF Known, Crowded
<1>2. CASE h.confVer = g.confVer + 1 /\ (Crowded(h) \/ h.peers \subseteq g.peers)
  <2>1. /\ i.confVer \in Nat /\ i.confVer <= h.confVer
        /\ i.confVer # h.confVer
        /\ i.confVer + 1 = h.confVer => i.confVer = g.confVer
    BY <1>2 DEF Known
  <2> QED
    BY <1>2, <2>1, Zenon DEF Known
<1> QED
  BY <1>1, <1>2, Zenon DEF Moved

LEMMA FitsMoves ==
    ASSUME NEW o, NEW g, NEW h, g.confVer \in Nat, Fits(o, g), Moved(g, h)
    PROVE  Fits(o, h)
<1>1. CASE h.confVer = g.confVer /\ h.peers = g.peers
  BY <1>1, Zenon DEF Fits, Crowded, HasPeer, GetStorePeer, Added
<1>2. CASE h.confVer = g.confVer + 1 /\ (Crowded(h) \/ h.peers \subseteq g.peers)
  <2>1. /\ o.confVer <= h.confVer
        /\ o.confVer # h.confVer
        /\ o.confVer + 1 = h.confVer => o.confVer = g.confVer
    BY <1>2 DEF Fits, Shape
  <2>2. ASSUME NEW n \in DOMAIN o.steps, o.steps[n].kind = "add", o.confVer + 1 = h.confVer,
               Added(o.steps[n], h)
        PROVE  Crowded(h)
    <3>1. ~HasPeer(g, o.steps[n].store)
      BY <2>1, <2>2, Zenon DEF Fits
    <3> QED
      BY <1>2, <2>2, <3>1, Zenon DEF HasPeer, GetStorePeer, Added
  <2> QED
    BY <2>1, <2>2, Zenon DEF Fits
<1> QED
  BY <1>1, <1>2, Zenon DEF Moved

LEMMA RightMoves ==
    ASSUME NEW c, NEW g, NEW h, g.confVer \in Nat, Right(c, g), Moved(g, h)
    PROVE  Right(c, h)
<1>1. CASE h.confVer = g.confVer /\ h.peers = g.peers
  BY <1>1, Zenon DEF Right, Crowded, HasPeer, GetStorePeer
<1>2. CASE h.confVer = g.confVer + 1
  <2>1. c.confVer <= h.confVer /\ c.confVer # h.confVer
    BY <1>2 DEF Right
  <2> QED
    BY <2>1, Zenon DEF Right
<1> QED
  BY <1>1, <1>2, Zenon DEF Moved

-----------------------------------------------------------------------------
(* Operator.Check and what is sent after it. *)

LEMMA LeastOfThree ==
    ASSUME NEW T \in SUBSET (1 .. 3), T # {}
    PROVE  Min(T) \in T /\ \A y \in T : Min(T) <= y
<1>1. \E x \in T : \A y \in T : x <= y
  <2>1. CASE 1 \in T
    BY <2>1
  <2>2. CASE 1 \notin T /\ 2 \in T
    BY <2>2
  <2>3. CASE 1 \notin T /\ 2 \notin T
    <3>1. \A y \in T : y = 3 /\ 3 <= y
      BY <2>3
    <3> QED
      BY <3>1, Zenon
  <2> QED
    BY <2>1, <2>2, <2>3, Zenon
<1> QED
  BY <1>1, Zenon DEF Min

\* Check goes past steps that are finished, to one that is not or to the end.
LEMMA CheckStops ==
    ASSUME NEW o, Shape(o), NEW i
    PROVE  \E k \in o.cur .. (Len(o.steps) + 1) :
              /\ Check(o, i) = [o EXCEPT !.cur = k]
              /\ \A n \in o.cur .. (k - 1) : IsFinish(o.steps[n], i)
              /\ k <= Len(o.steps) => ~IsFinish(o.steps[k], i)
<1> DEFINE T == {n \in o.cur .. Len(o.steps) : ~IsFinish(o.steps[n], i)}
<1>1. PICK l, c : l = Len(o.steps) /\ c = o.cur
  BY Zenon
<1>2. l \in 1 .. 3 /\ c \in 1 .. (l + 1)
  BY <1>1, Zenon DEF Shape, Plan
<1>3. T = {n \in c .. l : ~IsFinish(o.steps[n], i)}
  BY <1>1, Zenon
<1>4. CASE T = {}
  <2>1. Check(o, i) = [o EXCEPT !.cur = l + 1]
    BY <1>1, <1>4, Zenon DEF Check
  <2>2. \A n \in c .. ((l + 1) - 1) : n \in c .. l
    BY <1>2
  <2>3. \A n \in c .. ((l + 1) - 1) : IsFinish(o.steps[n], i)
    BY <1>3, <1>4, <2>2, Zenon
  <2>4. l + 1 \in c .. (l + 1) /\ ~(l + 1 <= l)
    BY <1>2
  <2> QED
    BY <1>1, <2>1, <2>3, <2>4, Zenon
<1>5. CASE T # {}
  <2>1. T \in SUBSET (1 .. 3)
    <3>1. \A n \in c .. l : n \in 1 .. 3
      BY <1>2
    <3> QED
      BY <1>3, <3>1, Zenon
  <2>2. PICK k : k = Min(T)
    BY Zenon
  <2>3. k \in T /\ \A y \in T : k <= y
    BY <1>5, <2>1, <2>2, LeastOfThree, Zenon
  <2>4. Check(o, i) = [o EXCEPT !.cur = k]
    BY <1>5, <2>2, Zenon DEF Check
  <2>5. k \in c .. l /\ ~IsFinish(o.steps[k], i)
    BY <1>3, <2>3, Zenon
  <2>6. k \in c .. (l + 1) /\ \A n \in c .. (k - 1) : n \in c .. l /\ ~(k <= n)
    BY <1>2, <2>5
  <2>7. \A n \in c .. (k - 1) : IsFinish(o.steps[n], i)
    BY <1>3, <2>3, <2>6, Zenon
  <2> QED
    BY <1>1, <2>4, <2>5, <2>6, <2>7, Zenon
<1> QED
  BY <1>4, <1>5, Zenon

\* The operator with another current step.
LEMMA ShapeAt ==
    ASSUME NEW o, Shape(o), NEW k \in o.cur .. (Len(o.steps) + 1), NEW c,
           c = [o EXCEPT !.cur = k]
    PROVE  Shape(c) /\ c.cur = k /\ c.steps = o.steps /\ c.confVer = o.confVer /\ c.region = o.region
<1>1. /\ c = [f \in OpFields |-> c[f]]
      /\ c.cur = k /\ c.steps = o.steps /\ c.confVer = o.confVer /\ c.region = o.region
  BY Zenon DEF Shape, OpFields
<1>2. k \in 1 .. (Len(o.steps) + 1)
  <2>1. PICK l, n : l = Len(o.steps) /\ n = o.cur
    BY Zenon
  <2>2. l \in 1 .. 3 /\ n \in 1 .. (l + 1) /\ k \in n .. (l + 1)
    BY <2>1, Zenon DEF Shape, Plan
  <2>3. k \in 1 .. (l + 1)
    BY <2>2
  <2> QED
    BY <2>1, <2>3, Zenon
<1> QED
  BY <1>1, <1>2, Zenon DEF Shape

\* An operator that was checked against a report no older than itself still fits.
LEMMA CheckFits ==
    ASSUME NEW o, NEW i, NEW g, g.confVer \in Nat, Known(i, g), Fits(o, g), o.confVer <= i.confVer
    PROVE  Fits(Check(o, i), g)
<1>1. PICK k \in o.cur .. (Len(o.steps) + 1) :
              /\ Check(o, i) = [o EXCEPT !.cur = k]
              /\ \A n \in o.cur .. (k - 1) : IsFinish(o.steps[n], i)
  BY CheckStops, Zenon DEF Fits
<1>2. PICK c : c = Check(o, i) /\ c = [o EXCEPT !.cur = k]
  BY <1>1, Zenon
<1>3. Shape(c) /\ c.cur = k /\ c.steps = o.steps /\ c.confVer = o.confVer
  <2>1. Shape(o)
    BY Zenon DEF Fits
  <2> QED
    BY <1>2, <2>1, ShapeAt
<1>4. ASSUME NEW n \in DOMAIN o.steps, o.steps[n].kind = "add", o.confVer = g.confVer
      PROVE  k <= n
  <2>1. i.confVer = g.confVer
    BY <1>4 DEF Known
  <2>2. i.peers = g.peers
    BY <2>1, Zenon DEF Known
  <2>3. ~HasPeer(g, o.steps[n].store) /\ o.cur <= n
    BY <1>4, Zenon DEF Fits
  <2>4. ~IsFinish(o.steps[n], i)
    BY <1>4, <2>2, <2>3, Zenon DEF IsFinish, HasPeer, GetStorePeer
  <2>5. n \notin o.cur .. (k - 1)
    BY <1>1, <2>4, Zenon
  <2>6. PICK l, m : l = Len(o.steps) /\ m = o.cur
    BY Zenon
  <2>7. l \in 1 .. 3 /\ m \in 1 .. (l + 1) /\ k \in m .. (l + 1) /\ n \in 1 .. l /\ m <= n
        /\ n \notin m .. (k - 1)
    BY <1>1, <2>3, <2>5, <2>6, Zenon DEF Fits, Shape, Plan
  <2> QED
    BY <2>7
<1>5. \A n \in DOMAIN c.steps : c.steps[n].kind = "add" =>
          /\ c.confVer = g.confVer => ~HasPeer(g, c.steps[n].store) /\ c.cur <= n
          /\ c.confVer + 1 = g.confVer /\ Added(c.steps[n], g) => Crowded(g)
  BY <1>3, <1>4, Zenon DEF Fits
<1>6. /\ c.confVer <= g.confVer
      /\ \A n \in DOMAIN c.steps : c.steps[n].kind = "remove" /\ c.confVer = g.confVer =>
          Adds(c.steps) \/ Crowded(g)
  BY <1>3, Zenon DEF Fits
<1>7. Fits(c, g)
  BY <1>3, <1>5, <1>6, Zenon DEF Fits
<1> QED
  BY <1>2, <1>7, Zenon

\* Of the steps up to a removal that is not done, only the addition can have changed the
\* configuration.
LEMMA OneChange ==
    ASSUME SizeFacts, NEW c, Shape(c), NEW i, ~Finished(c), Step(c).kind = "remove", HasPeer(i, Step(c).store)
    PROVE  \/ ConfVerChanged(c, i) = 0
           \/ /\ ConfVerChanged(c, i) = 1
              /\ \E n \in DOMAIN c.steps : c.steps[n].kind = "add" /\ Added(c.steps[n], i)
<1> DEFINE D == {n \in 1 .. c.cur : StepChangedConf(c.steps[n], i)}
<1>1. ConfVerChanged(c, i) = Cardinality(D)
  BY Zenon DEF ConfVerChanged
<1>2. PICK l, k : l = Len(c.steps) /\ k = c.cur
  BY Zenon
<1>3. l \in 1 .. 3 /\ k \in 1 .. (l + 1) /\ ~(k > l) /\ DOMAIN c.steps = 1 .. l
  BY <1>2, Zenon DEF Shape, Plan, Finished
<1>4. k \in 1 .. l /\ 1 .. k \subseteq 1 .. l
  BY <1>3
<1>5. \A n \in D : n \in DOMAIN c.steps
  BY <1>2, <1>3, <1>4, Zenon
<1>6. \A n \in D : c.steps[n].kind = "add" /\ Added(c.steps[n], i)
  <2> TAKE n \in D
  <2>1. c.steps[n].kind \in {"transfer", "add", "remove"} /\ (c.steps[n].kind = "remove" => n = l)
    BY <1>2, <1>5, Zenon DEF Shape, Plan
  <2>2. StepChangedConf(c.steps[n], i)
    BY Zenon
  <2>3. c.steps[n].kind # "transfer"
    BY <2>2, Zenon DEF StepChangedConf
  <2>4. c.steps[n].kind # "remove"
    <3> SUFFICES ASSUME c.steps[n].kind = "remove" PROVE FALSE
      BY Zenon
    <3>1. n = l /\ k = l
      <4>1. n = l /\ c.steps[k].kind = "remove" /\ k \in DOMAIN c.steps
        BY <1>2, <1>3, <1>4, <2>1, Zenon DEF Step
      <4> QED
        BY <1>2, <4>1, Zenon DEF Shape, Plan
    <3>2. HasPeer(i, c.steps[n].store)
      BY <1>2, <3>1, Zenon DEF Step
    <3> QED
      BY <2>2, <3>2, Zenon DEF StepChangedConf
  <2>5. c.steps[n].kind = "add"
    BY <2>1, <2>3, <2>4, Zenon
  <2> QED
    BY <2>2, <2>5, Zenon DEF StepChangedConf, Added, GetStorePeer
<1> HIDE DEF D
<1>7. CASE D = {}
  BY <1>1, <1>7, Zenon DEF SizeFacts
<1>8. CASE D # {}
  <2>1. PICK n : n \in D
    BY <1>8, Zenon
  <2>2. D = {n}
    BY <1>5, <1>6, <2>1, Zenon DEF Shape, Plan
  <2>3. Cardinality(D) = 1
    BY <2>2, Zenon DEF SizeFacts
  <2> QED
    BY <1>1, <1>5, <1>6, <2>1, <2>3, Zenon
<1> QED
  BY <1>7, <1>8, Zenon

\* What is sent for the current step of an operator that the report has not overtaken,
\* or that was made for the report's configuration, is right.
LEMMA SendRight ==
    ASSUME SizeFacts, NEW c, NEW i, NEW g, g.confVer \in Nat, Known(i, g), Fits(c, g), ~Finished(c),
           c.confVer <= i.confVer,
           c.confVer = i.confVer \/ ~IsOvertaken(c, i),
           ~IsFinish(Step(c), i),
           Step(c).kind = "add" => ~HasPeer(i, Step(c).store)
    PROVE  Right(Command(i, Step(c)), g)
<1>1. PICK m : m = Command(i, Step(c))
  BY Zenon
<1>2. m.confVer = i.confVer /\ m.kind = Step(c).kind
  BY <1>1, Zenon DEF Command
<1>3. Step(c).kind = "add" => m.peer.store = Step(c).store
  BY <1>1, Zenon DEF Command
<1>4. PICK l, k : l = Len(c.steps) /\ k = c.cur
  BY Zenon
<1>5. l \in 1 .. 3 /\ k \in 1 .. (l + 1) /\ ~(k > l) /\ DOMAIN c.steps = 1 .. l
  BY <1>4, Zenon DEF Fits, Shape, Plan, Finished
<1>6. k \in DOMAIN c.steps
  BY <1>5
<1>7. m.kind \in {"transfer", "add", "remove"}
  BY <1>2, <1>4, <1>6, Zenon DEF Fits, Shape, Plan, Step
<1>8. ASSUME i.confVer = g.confVer, Step(c).kind = "add" PROVE ~HasPeer(g, m.peer.store)
  BY <1>3, <1>8, Zenon DEF Known, HasPeer, GetStorePeer
<1>9. ASSUME i.confVer = g.confVer, Step(c).kind = "remove" PROVE Crowded(g)
  <2>1. HasPeer(i, Step(c).store) /\ i.peers = g.peers
    BY <1>9, Zenon DEF IsFinish, Known
  <2>2. CASE c.confVer = i.confVer
    <3>1. ASSUME NEW n \in DOMAIN c.steps, c.steps[n].kind = "add" PROVE FALSE
      <4>1. c.cur <= n
        BY <1>9, <2>2, <3>1, Zenon DEF Fits
      <4>2. k = l /\ n # k
        BY <1>4, <1>6, <1>9, <3>1, Zenon DEF Fits, Shape, Plan, Step
      <4> QED
        BY <1>4, <1>5, <4>1, <4>2
    <3>2. ~Adds(c.steps)
      BY <3>1, Zenon DEF Adds
    <3> QED
      BY <1>4, <1>6, <1>9, <2>2, <3>2, Zenon DEF Fits, Step
  <2>3. CASE c.confVer # i.confVer
    <3>1. /\ i.confVer \in Nat /\ c.confVer \in Nat /\ c.confVer <= i.confVer
          /\ ~(i.confVer - c.confVer > ConfVerChanged(c, i))
      BY <2>3, Zenon DEF Known, Fits, Shape, IsOvertaken
    <3>2. Shape(c)
      BY Zenon DEF Fits
    <3>3. \/ ConfVerChanged(c, i) = 0
          \/ /\ ConfVerChanged(c, i) = 1
             /\ \E n \in DOMAIN c.steps : c.steps[n].kind = "add" /\ Added(c.steps[n], i)
      BY <1>9, <2>1, <3>2, OneChange, Zenon
    <3>4. ConfVerChanged(c, i) # 0
      BY <2>3, <3>1
    <3>5. ConfVerChanged(c, i) = 1 => c.confVer + 1 = i.confVer
      BY <2>3, <3>1
    <3>6. PICK n \in DOMAIN c.steps : c.steps[n].kind = "add" /\ Added(c.steps[n], i)
      BY <3>3, <3>4, Zenon
    <3>7. Added(c.steps[n], g)
      BY <2>1, <3>6, Zenon DEF Added
    <3> QED
      BY <1>9, <3>3, <3>4, <3>5, <3>6, <3>7, Zenon DEF Fits
  <2> QED
    BY <2>2, <2>3, Zenon
<1>10. Right(m, g)
  BY <1>2, <1>7, <1>8, <1>9, Zenon DEF Right, Known
<1> QED
  BY <1>1, <1>10, Zenon

-----------------------------------------------------------------------------
(* The operators that are made. *)

\* An operator made from a report: it adds a peer where the report has none, or it
\* removes one of too many.
LEMMA MadeFits ==
    ASSUME NEW i, NEW g, g.confVer \in Nat, Known(i, g), NEW steps, Plan(steps), NEW level,
           \A n \in DOMAIN steps : steps[n].kind = "add" => ~HasPeer(i, steps[n].store),
           Adds(steps) \/ Crowded(i)
    PROVE  Fits(NewOperator(i, steps, level), g)
<1>1. PICK o : o = NewOperator(i, steps, level)
  BY Zenon
<1>2. o.confVer = i.confVer /\ o.steps = steps /\ o.cur = 1 /\ o = [f \in OpFields |-> o[f]]
  BY <1>1, Zenon DEF NewOperator, OpFields
<1>3. Len(steps) \in 1 .. 3 /\ DOMAIN steps = 1 .. Len(steps)
  BY Zenon DEF Plan
<1>4. 1 \in 1 .. (Len(steps) + 1) /\ \A n \in DOMAIN steps : 1 <= n
  BY <1>3
<1>5. Shape(o)
  BY <1>2, <1>4, Zenon DEF Shape, Known
<1>6. ASSUME NEW n \in DOMAIN steps, steps[n].kind = "add"
      PROVE  /\ i.confVer = g.confVer => ~HasPeer(g, steps[n].store)
             /\ i.confVer + 1 = g.confVer /\ Added(steps[n], g) => Crowded(g)
  BY <1>6, Zenon DEF Known, HasPeer, GetStorePeer, Added
<1>7. i.confVer = g.confVer => Adds(steps) \/ Crowded(g)
  BY Zenon DEF Known, Crowded
<1>8. Fits(o, g)
  BY <1>2, <1>4, <1>5, <1>6, <1>7, Zenon DEF Fits, Known
<1> QED
  BY <1>1, <1>8, Zenon

\* The steps of the four kinds of operator, with or without a transfer of the leader.
LEMMA PlanOne ==
    ASSUME NEW a, a.kind \in {"add", "remove"}, NEW u, u = <<a>>
    PROVE  Plan(u) /\ DOMAIN u = {1} /\ u[1] = a
BY DEF Plan

LEMMA PlanTwo ==
    ASSUME NEW a, NEW b, a.kind \in {"transfer", "add"}, b.kind = "remove", NEW u, u = <<a, b>>
    PROVE  Plan(u) /\ DOMAIN u = {1, 2} /\ u[1] = a /\ u[2] = b
BY DEF Plan

LEMMA PlanThree ==
    ASSUME NEW a, NEW b, NEW c, c.kind = "remove",
           (a.kind = "transfer" /\ b.kind = "add") \/ (a.kind = "add" /\ b.kind = "transfer"),
           NEW u, u = <<a, b, c>>
    PROVE  Plan(u) /\ DOMAIN u = {1, 2, 3} /\ u[1] = a /\ u[2] = b /\ u[3] = c
BY DEF Plan

LEMMA JoinTwo ==
    ASSUME NEW s, NEW t, NEW u, NEW T, s \in Seq(T), t \in Seq(T), u \in Seq(T),
           Len(s) \in {1, 2}, Len(u) = Len(s) + Len(t),
           \A n \in 1 .. Len(s) : u[n] = s[n],
           \A n \in 1 .. Len(t) : u[Len(s) + n] = t[n]
    PROVE  s \o t = u
<1>1. /\ s \o t \in Seq(T) /\ Len(s \o t) = Len(u)
      /\ \A n \in 1 .. Len(s) + Len(t) :
            (s \o t)[n] = IF n <= Len(s) THEN s[n] ELSE t[n - Len(s)]
  BY Concatenated, ZenonT(30)
<1>2. PICK k, l : k = Len(s) /\ l = Len(t)
  BY Zenon
<1>3. l \in Nat /\ k \in {1, 2}
  BY <1>2, Concatenated, Zenon
<1>4. ASSUME NEW n \in 1 .. k + l PROVE (IF n <= k THEN s[n] ELSE t[n - k]) = u[n]
  <2>1. CASE n <= k
    BY <1>2, <1>3, <2>1
  <2>2. CASE ~(n <= k)
    <3>1. n - k \in 1 .. l /\ k + (n - k) = n
      BY <1>3, <2>2
    <3> QED
      BY <1>2, <2>2, <3>1, Zenon
  <2> QED
    BY <2>1, <2>2, Zenon
<1>5. \A n \in 1 .. Len(s \o t) : (s \o t)[n] = u[n]
  BY <1>1, <1>2, <1>4, ZenonT(30)
<1> QED
  BY <1>1, <1>5, SameSeq, Zenon

LEMMA Joined ==
    ASSUME NEW a, NEW b, NEW c
    PROVE  /\ <<>> \o <<a>> = <<a>> /\ <<a>> \o <<b>> = <<a, b>>
           /\ <<a>> \o <<>> \o <<b>> = <<a, b>> /\ <<a>> \o <<b>> \o <<c>> = <<a, b, c>>
           /\ <<>> \o <<a, b>> = <<a, b>> /\ <<a>> \o <<b, c>> = <<a, b, c>>
<1>1. <<>> \o <<a>> = <<a>>
  OBVIOUS
<1>2. <<a>> \o <<>> = <<a>>
  OBVIOUS
<1>3. <<>> \o <<a, b>> = <<a, b>>
  OBVIOUS
<1>4. PICK T : T = {a, b, c}
  BY Zenon
<1>5. PICK x, y, z, xy, yz, xyz : /\ x = <<a>> /\ y = <<b>> /\ z = <<c>>
                                  /\ xy = <<a, b>> /\ yz = <<b, c>> /\ xyz = <<a, b, c>>
  BY Zenon
<1>6. /\ x \in Seq(T) /\ Len(x) = 1 /\ x[1] = a
      /\ y \in Seq(T) /\ Len(y) = 1 /\ y[1] = b
      /\ z \in Seq(T) /\ Len(z) = 1 /\ z[1] = c
  BY <1>4, <1>5
<1>7. /\ xy \in Seq(T) /\ Len(xy) = 2 /\ xy[1] = a /\ xy[2] = b
      /\ yz \in Seq(T) /\ Len(yz) = 2 /\ yz[1] = b /\ yz[2] = c
  BY <1>4, <1>5
<1>8. xyz \in Seq(T) /\ Len(xyz) = 3 /\ xyz[1] = a /\ xyz[2] = b /\ xyz[3] = c
  BY <1>4, <1>5
<1>9. x \o y = xy
  <2>1. /\ Len(x) \in {1, 2} /\ Len(xy) = Len(x) + Len(y)
        /\ \A n \in 1 .. Len(x) : xy[n] = x[n]
        /\ \A n \in 1 .. Len(y) : xy[Len(x) + n] = y[n]
    BY <1>6, <1>7
  <2> QED
    BY <1>6, <1>7, <2>1, JoinTwo, ZenonT(30)
<1>10. xy \o z = xyz
  <2>1. /\ Len(xy) \in {1, 2} /\ Len(xyz) = Len(xy) + Len(z)
        /\ \A n \in 1 .. Len(xy) : xyz[n] = xy[n]
        /\ \A n \in 1 .. Len(z) : xyz[Len(xy) + n] = z[n]
    BY <1>6, <1>7, <1>8
  <2> QED
    BY <1>6, <1>7, <1>8, <2>1, JoinTwo, Zenon
<1>11. x \o yz = xyz
  <2>1. /\ Len(x) \in {1, 2} /\ Len(xyz) = Len(x) + Len(yz)
        /\ \A n \in 1 .. Len(x) : xyz[n] = x[n]
        /\ \A n \in 1 .. Len(yz) : xyz[Len(x) + n] = yz[n]
    BY <1>6, <1>7, <1>8
  <2> QED
    BY <1>6, <1>7, <1>8, <2>1, JoinTwo, Zenon
<1> QED
  BY <1>1, <1>2, <1>3, <1>5, <1>9, <1>10, <1>11, Zenon

LEMMA TransferSteps ==
    ASSUME NEW i, NEW s, NEW F, NEW t \in transferLeaderStep(i, s, F)
    PROVE  t = <<>> \/ \E x : t = <<x>> /\ x.kind = "transfer"
<1>1. CASE i.leader.store # s
  BY <1>1, Zenon DEF transferLeaderStep
<1>2. CASE i.leader.store = s
  <2>1. PICK to : t = <<TransferLeader(to)>>
    BY <1>2, Zenon DEF transferLeaderStep
  <2>2. TransferLeader(to).kind = "transfer"
    BY Zenon DEF TransferLeader
  <2> QED
    BY <2>1, <2>2, Zenon
<1> QED
  BY <1>1, <1>2, Zenon

\* The steps of a removal alone.
LEMMA RemovePlan ==
    ASSUME NEW t, t = <<>> \/ \E x : t = <<x>> /\ x.kind = "transfer", NEW r, r.kind = "remove"
    PROVE  Plan(t \o <<r>>) /\ \A n \in DOMAIN (t \o <<r>>) : (t \o <<r>>)[n].kind # "add"
<1>1. CASE t = <<>>
  <2>1. PICK u : u = <<r>> /\ u = t \o <<r>>
    BY <1>1, Joined, Zenon
  <2>2. Plan(u) /\ DOMAIN u = {1} /\ u[1] = r
    BY <2>1, PlanOne
  <2>3. \A n \in DOMAIN u : u[n].kind # "add"
    BY <2>2
  <2> QED
    BY <2>1, <2>2, <2>3, Zenon
<1>2. CASE \E x : t = <<x>> /\ x.kind = "transfer"
  <2>1. PICK x : t = <<x>> /\ x.kind = "transfer"
    BY <1>2, Zenon
  <2>2. PICK u : u = <<x, r>> /\ u = t \o <<r>>
    BY <2>1, Joined, Zenon
  <2>3. Plan(u) /\ DOMAIN u = {1, 2} /\ u[1] = x /\ u[2] = r
    BY <2>1, <2>2, PlanTwo
  <2>4. \A n \in DOMAIN u : u[n].kind # "add"
    BY <2>1, <2>3, Zenon
  <2> QED
    BY <2>2, <2>3, <2>4, Zenon
<1> QED
  BY <1>1, <1>2, Zenon

\* Steps that add a peer somewhere.
PlanTo(steps, to) ==
    /\ Plan(steps) /\ Adds(steps)
    /\ \A n \in DOMAIN steps : steps[n].kind = "add" => steps[n].store = to

LEMMA AddPlan ==
    ASSUME NEW t, t = <<>> \/ \E x : t = <<x>> /\ x.kind = "transfer",
           NEW a, a.kind = "add", NEW r, r.kind = "remove"
    PROVE  /\ PlanTo(<<a>>, a.store)
           /\ PlanTo(<<a>> \o t \o <<r>>, a.store)
           /\ PlanTo(t \o <<a, r>>, a.store)
<1>1. PlanTo(<<a>>, a.store)
  <2>1. PICK u : u = <<a>>
    BY Zenon
  <2>2. Plan(u) /\ DOMAIN u = {1} /\ u[1] = a
    BY <2>1, PlanOne
  <2>3. PlanTo(u, a.store)
    BY <2>2, Zenon DEF PlanTo, Adds
  <2> QED
    BY <2>1, <2>3, Zenon
<1>2. CASE t = <<>>
  <2>1. PICK u : u = <<a, r>> /\ u = <<a>> \o t \o <<r>> /\ u = t \o <<a, r>>
    BY <1>2, Joined, ZenonT(30)
  <2>2. Plan(u) /\ DOMAIN u = {1, 2} /\ u[1] = a /\ u[2] = r
    BY <2>1, PlanTwo
  <2>3. PlanTo(u, a.store)
    BY <2>2, Zenon DEF PlanTo, Adds
  <2> QED
    BY <1>1, <2>1, <2>3, Zenon
<1>3. CASE \E x : t = <<x>> /\ x.kind = "transfer"
  <2>1. PICK x : t = <<x>> /\ x.kind = "transfer"
    BY <1>3, Zenon
  <2>2. PICK u, v : u = <<a>> \o t \o <<r>> /\ v = t \o <<a, r>>
    BY Zenon
  <2>a. u = <<a>> \o <<x>> \o <<r>>
    BY <2>1, <2>2, Zenon
  <2>b. v = <<x>> \o <<a, r>>
    BY <2>1, <2>2, Zenon
  <2>c. u = <<a, x, r>>
    BY <2>a, Joined, ZenonT(30)
  <2>d. v = <<x, a, r>>
    BY <2>b, Joined, ZenonT(30)
  <2>3. /\ Plan(u) /\ DOMAIN u = {1, 2, 3} /\ u[1] = a /\ u[2] = x /\ u[3] = r
        /\ Plan(v) /\ DOMAIN v = {1, 2, 3} /\ v[1] = x /\ v[2] = a /\ v[3] = r
    BY <2>1, <2>c, <2>d, PlanThree
  <2>4. PlanTo(u, a.store) /\ PlanTo(v, a.store)
    BY <2>1, <2>3 DEF PlanTo, Adds
  <2> QED
    BY <1>1, <2>2, <2>4, Zenon
<1> QED
  BY <1>2, <1>3, Zenon

\* A removal of one of too many.
LEMMA RemoveFits ==
    ASSUME NEW i, NEW g, g.confVer \in Nat, Known(i, g), NEW s, NEW level,
           NEW o \in CreateRemovePeerOperator(i, s, level), Crowded(i)
    PROVE  o.region = i.id /\ o.cur = 1 /\ Fits(o, g)
<1>1. PICK t \in transferLeaderStep(i, s, FollowerIDs(i)) :
         o = NewOperator(i, t \o <<RemovePeer(s)>>, level)
  BY Zenon DEF CreateRemovePeerOperator
<1>2. RemovePeer(s).kind = "remove"
  BY Zenon DEF RemovePeer
<1>3. PICK u : u = t \o <<RemovePeer(s)>>
  BY Zenon
<1>4. t = <<>> \/ \E x : t = <<x>> /\ x.kind = "transfer"
  BY TransferSteps, ZenonT(30)
<1>5. Plan(u) /\ \A n \in DOMAIN u : u[n].kind # "add"
  BY <1>2, <1>3, <1>4, RemovePlan, Zenon
<1>6. o = NewOperator(i, u, level)
  BY <1>1, <1>3, Zenon
<1>7. Fits(NewOperator(i, u, level), g)
  BY <1>5, MadeFits, Zenon
<1>8. o.region = i.id /\ o.cur = 1
  BY <1>6, Zenon DEF NewOperator
<1> QED
  BY <1>6, <1>7, <1>8, Zenon

\* An operator that adds a peer somewhere, whatever else it does.
AddsTo(o, i, to) == \E steps, level : PlanTo(steps, to) /\ o = NewOperator(i, steps, level)

LEMMA AddsToFits ==
    ASSUME NEW i, NEW g, g.confVer \in Nat, Known(i, g), NEW to, NEW o, AddsTo(o, i, to)
    PROVE  /\ o.region = i.id /\ o.cur = 1
           /\ ~HasPeer(i, to) => Fits(o, g)
           /\ \E n \in DOMAIN o.steps : o.steps[n].store = to
<1>1. PICK u, level : PlanTo(u, to) /\ o = NewOperator(i, u, level)
  BY Zenon DEF AddsTo
<1>2. o.region = i.id /\ o.cur = 1 /\ o.steps = u
  BY <1>1, Zenon DEF NewOperator
<1>3. ~HasPeer(i, to) => Fits(NewOperator(i, u, level), g)
  BY <1>1, MadeFits, Zenon DEF PlanTo
<1>4. ~HasPeer(i, to) => Fits(o, g)
  BY <1>1, <1>3, Zenon
<1>5. \E n \in DOMAIN u : u[n].store = to
  BY <1>1, Zenon DEF PlanTo, Adds
<1> QED
  BY <1>2, <1>4, <1>5, Zenon

LEMMA CreatedAdds ==
    ASSUME NEW i, NEW s, NEW to, NEW id, NEW level, NEW o,
           \/ o \in CreateAddPeerOperator(i, to, id, level)
           \/ o \in CreateMovePeerOperator(i, s, to, id, level)
           \/ o \in CreateOfflinePeerOperator(i, s, to, id, level)
    PROVE  AddsTo(o, i, to)
<1>1. PICK a, r : a = AddPeer(to, id) /\ r = RemovePeer(s)
  BY Zenon
<1>2. a.kind = "add" /\ a.store = to /\ r.kind = "remove"
  BY <1>1, Zenon DEF AddPeer, RemovePeer
<1>3. CASE o \in CreateAddPeerOperator(i, to, id, level)
  <2>1. PICK u : u = <<a>>
    BY Zenon
  <2>2. PlanTo(u, to)
    BY <1>2, <2>1, AddPlan, Zenon
  <2>3. o = NewOperator(i, u, level)
    BY <1>1, <1>3, <2>1, Zenon DEF CreateAddPeerOperator
  <2> QED
    BY <2>2, <2>3, Zenon DEF AddsTo
<1>4. CASE o \in CreateMovePeerOperator(i, s, to, id, level)
  <2>1. PICK t \in transferLeaderStep(i, s, FollowerIDs(i) \cup {to}) :
           o = NewOperator(i, <<a>> \o t \o <<r>>, level)
    BY <1>1, <1>4, Zenon DEF CreateMovePeerOperator
  <2>2. t = <<>> \/ \E x : t = <<x>> /\ x.kind = "transfer"
    BY TransferSteps, ZenonT(30)
  <2>3. PlanTo(<<a>> \o t \o <<r>>, to)
    BY <1>2, <2>2, AddPlan, Zenon
  <2> QED
    BY <2>1, <2>3, Zenon DEF AddsTo
<1>5. CASE o \in CreateOfflinePeerOperator(i, s, to, id, level)
  <2>1. PICK t \in transferLeaderStep(i, s, FollowerIDs(i)) :
           o = NewOperator(i, t \o <<a, r>>, level)
    BY <1>1, <1>5, Zenon DEF CreateOfflinePeerOperator
  <2>2. t = <<>> \/ \E x : t = <<x>> /\ x.kind = "transfer"
    BY TransferSteps, ZenonT(30)
  <2>3. PlanTo(t \o <<a, r>>, to)
    BY <1>2, <2>2, AddPlan, Zenon
  <2> QED
    BY <2>1, <2>3, Zenon DEF AddsTo
<1> QED
  BY <1>3, <1>4, <1>5, Zenon

\* The replica checker makes operators that fit.
LEMMA CheckerFits ==
    ASSUME NEW i, NEW g, g.confVer \in Nat, Known(i, g), NEW id, NEW o \in CheckReplicas(i, id)
    PROVE  o.region = i.id /\ o.cur = 1 /\ Fits(o, g)
<1>1. ASSUME NEW s, NEW level, o \in CreateRemovePeerOperator(i, s, level),
             Cardinality(i.peers) > MaxReplicas
      PROVE  o.region = i.id /\ o.cur = 1 /\ Fits(o, g)
  BY <1>1, RemoveFits, Zenon DEF Crowded
<1>2. ASSUME NEW s, NEW to \in Targets(i), NEW level,
             \/ o \in CreateAddPeerOperator(i, to, id, level)
             \/ o \in CreateOfflinePeerOperator(i, s, to, id, level)
      PROVE  o.region = i.id /\ o.cur = 1 /\ Fits(o, g)
  <2>1. AddsTo(o, i, to)
    BY <1>2, CreatedAdds, Zenon
  <2>2. ~HasPeer(i, to)
    BY Zenon DEF Targets
  <2> QED
    BY <2>1, <2>2, AddsToFits
<1>3. CASE o \in checkOfflinePeer(i, id)
  <2>1. PICK p : o \in fixPeer(i, p, id)
    BY <1>3, Zenon DEF checkOfflinePeer
  <2>2. CASE Cardinality(i.peers) > MaxReplicas
    BY <1>1, <2>1, <2>2, Zenon DEF fixPeer
  <2>3. CASE ~(Cardinality(i.peers) > MaxReplicas)
    <3>1. PICK to \in Targets(i) : o \in CreateOfflinePeerOperator(i, p.store, to, id, 1)
      BY <2>1, <2>3, Zenon DEF fixPeer
    <3> QED
      BY <1>2, <3>1, Zenon
  <2> QED
    BY <2>2, <2>3, Zenon
<1>4. CASE o \notin checkOfflinePeer(i, id)
  <2>1. \/ /\ Cardinality(i.peers) < MaxReplicas
           /\ o \in UNION {CreateAddPeerOperator(i, t, id, 0) : t \in Targets(i)}
        \/ /\ Cardinality(i.peers) > MaxReplicas
           /\ o \in UNION {CreateRemovePeerOperator(i, s, 0) : s \in StoresOf(i.peers) \cap Store}
    BY <1>4, Zenon DEF CheckReplicas
  <2> QED
    BY <1>1, <1>2, <2>1, Zenon
<1> QED
  BY <1>3, <1>4, Zenon

-----------------------------------------------------------------------------
(* What becomes of a group. *)

LEMMA LedSame ==
    ASSUME NEW g, Good(g), NEW p
    PROVE  Led(g, p).id = g.id /\ Led(g, p).confVer = g.confVer /\ Led(g, p).peers = g.peers
BY Zenon DEF Good, Led, Fields

LEMMA OneMore ==
    ASSUME SizeFacts, NEW P, IsFiniteSet(P), Cardinality(P) >= MaxReplicas, NEW p, p \notin P
    PROVE  IsFiniteSet(P \cup {p}) /\ Cardinality(P \cup {p}) > MaxReplicas
<1>1. IsFiniteSet(P \cup {p}) /\ Cardinality(P \cup {p}) = Cardinality(P) + 1
  BY Zenon DEF SizeFacts
<1>2. Cardinality(P) \in Nat
  BY Zenon DEF SizeFacts
<1> QED
  BY <1>1, <1>2, OptionAssumption

LEMMA OneLess ==
    ASSUME SizeFacts, NEW P, IsFiniteSet(P), Cardinality(P) > MaxReplicas, NEW p
    PROVE  IsFiniteSet(P \ {p}) /\ Cardinality(P \ {p}) >= MaxReplicas
<1>1. IsFiniteSet(P \ {p}) /\ Cardinality(P \ {p}) \in {Cardinality(P) - 1, Cardinality(P)}
  BY Zenon DEF SizeFacts
<1>2. Cardinality(P) \in Nat
  BY Zenon DEF SizeFacts
<1> QED
  BY <1>1, <1>2, OptionAssumption

\* A command that is right, and is taken, keeps the replicas.
LEMMA HandleMoves ==
    ASSUME SizeFacts, NEW c, NEW g, Good(g), Kept(g), Right(c, g), c.confVer = g.confVer,
           c.peer # NoPeer, NEW h \in Handle(c, g)
    PROVE  Kept(h) /\ Moved(g, h) /\ h.id = g.id
<1>0. /\ g.confVer \in Nat /\ IsFiniteSet(g.peers) /\ Cardinality(g.peers) >= MaxReplicas
      /\ \A p, q \in g.peers : p.store = q.store => p = q
  BY Zenon DEF Kept
<1>1. CASE c.kind = "transfer"
  <2>1. h = g \/ h = Led(g, c.peer)
    BY <1>1, Zenon DEF Handle
  <2>2. h.id = g.id /\ h.confVer = g.confVer /\ h.peers = g.peers
    <3>1. /\ Led(g, c.peer).id = g.id /\ Led(g, c.peer).confVer = g.confVer
          /\ Led(g, c.peer).peers = g.peers
      BY LedSame, Zenon
    <3> QED
      BY <2>1, <3>1, Zenon
  <2> QED
    BY <2>2, Zenon DEF Kept, Moved
<1>2. CASE c.kind = "add"
  <2>1. h = [g EXCEPT !.peers = @ \cup {c.peer}, !.pending = @ \cup {c.peer}, !.confVer = @ + 1]
    BY <1>2, Zenon DEF Handle
  <2>2. h.id = g.id /\ h.confVer = g.confVer + 1 /\ h.peers = g.peers \cup {c.peer}
    BY <2>1, Zenon DEF Good, Fields
  <2>3. \A p \in g.peers : p.store # c.peer.store
    BY <1>2, Zenon DEF Right, HasPeer, GetStorePeer
  <2>4. c.peer \notin g.peers
    BY <2>3, Zenon
  <2>5. IsFiniteSet(h.peers) /\ Cardinality(h.peers) > MaxReplicas
    <3>1. IsFiniteSet(g.peers \cup {c.peer}) /\ Cardinality(g.peers \cup {c.peer}) > MaxReplicas
      BY <1>0, <2>4, OneMore, Zenon
    <3> QED
      BY <2>2, <3>1, Zenon
  <2>6. Cardinality(h.peers) >= MaxReplicas
    <3>1. Cardinality(h.peers) \in Nat
      BY <2>5, Zenon DEF SizeFacts
    <3> QED
      BY <2>5, <3>1, OptionAssumption
  <2>7. \A p, q \in h.peers : p.store = q.store => p = q
    BY <1>0, <2>2, <2>3, Zenon
  <2>8. h.confVer \in Nat
    BY <1>0, <2>2
  <2> QED
    BY <2>2, <2>5, <2>6, <2>7, <2>8, Zenon DEF Kept, Moved, Crowded
<1>3. CASE c.kind = "remove"
  <2> DEFINE rest == [g EXCEPT !.peers = @ \ {c.peer}, !.pending = @ \ {c.peer}, !.confVer = @ + 1]
  <2>1. Good(rest)
    BY Zenon DEF Good, Sound, Fields
  <2>2. rest.id = g.id /\ rest.confVer = g.confVer + 1 /\ rest.peers = g.peers \ {c.peer}
    BY Zenon DEF Good, Fields
  <2>3. h = rest \/ \E p : h = Led(rest, p)
    BY <1>3, Zenon DEF Handle
  <2> HIDE DEF rest
  <2>4. h.id = g.id /\ h.confVer = g.confVer + 1 /\ h.peers = g.peers \ {c.peer}
    <3>1. CASE h = rest
      BY <2>2, <3>1, Zenon
    <3>2. CASE \E p : h = Led(rest, p)
      <4>1. PICK p : h = Led(rest, p)
        BY <3>2, Zenon
      <4>2. /\ Led(rest, p).id = rest.id /\ Led(rest, p).confVer = rest.confVer
            /\ Led(rest, p).peers = rest.peers
        BY <2>1, LedSame, Zenon
      <4> QED
        BY <2>2, <4>1, <4>2, Zenon
    <3> QED
      BY <2>3, <3>1, <3>2, Zenon
  <2>5. Cardinality(g.peers) > MaxReplicas
    BY <1>3, Zenon DEF Right, Crowded
  <2>6. IsFiniteSet(h.peers) /\ Cardinality(h.peers) >= MaxReplicas
    <3>1. IsFiniteSet(g.peers \ {c.peer}) /\ Cardinality(g.peers \ {c.peer}) >= MaxReplicas
      BY <1>0, <2>5, OneLess, Zenon
    <3> QED
      BY <2>4, <3>1, Zenon
  <2>7. h.confVer \in Nat
    BY <1>0, <2>4
  <2>8. h.peers \subseteq g.peers
    BY <2>4, Zenon
  <2> QED
    BY <1>0, <2>4, <2>6, <2>7, <2>8, Zenon DEF Kept, Moved
<1> QED
  BY <1>1, <1>2, <1>3, Zenon DEF Right

\* The peers of a new Region: one for each peer of the old one, on the same store.
LEMMA CopyKept ==
    ASSUME SizeFacts, NEW P, IsFiniteSet(P), \A p, q \in P : p.store = q.store => p = q,
           NEW T, NEW cp \in [P -> T], \A p \in P : cp[p].store = p.store,
           \A t \in T : \E p \in P : cp[p] = t
    PROVE  /\ IsFiniteSet(T) /\ Cardinality(T) = Cardinality(P)
           /\ \A p, q \in T : p.store = q.store => p = q
<1>1. DOMAIN cp = P
  BY Zenon
<1>2. \A p, q \in P : cp[p] = cp[q] => p = q
  <2> SUFFICES ASSUME NEW p \in P, NEW q \in P, cp[p] = cp[q] PROVE p = q
    BY Zenon
  <2>1. p.store = q.store
    <3>1. cp[p].store = p.store /\ cp[q].store = q.store
      BY Zenon
    <3> QED
      BY <3>1, Zenon
  <2> QED
    BY <2>1, Zenon
<1>5. ASSUME NEW t \in T, NEW u \in T, t.store = u.store PROVE t = u
  <2>1. PICK p \in P : cp[p] = t
    BY Zenon
  <2>2. PICK q \in P : cp[q] = u
    BY Zenon
  <2>3. p.store = q.store
    BY <1>5, <2>1, <2>2, Zenon
  <2> QED
    BY <2>1, <2>2, <2>3, Zenon
<1>6. IsFiniteSet(T) /\ Cardinality(T) = Cardinality(P)
  <2>1. \A A, f : /\ IsFiniteSet(A) /\ f \in [A -> T]
                  /\ \A a, b \in A : f[a] = f[b] => a = b
                  /\ \A t \in T : \E a \in A : f[a] = t
                  => IsFiniteSet(T) /\ Cardinality(T) = Cardinality(A)
    BY Zenon DEF SizeFacts
  <2> QED
    BY <1>2, <2>1, Zenon
<1> QED
  BY <1>5, <1>6, Zenon

-----------------------------------------------------------------------------
(* The invariant. *)

Aimed(o) == \A n \in DOMAIN o.steps : o.steps[n].store # Nowhere

Of(r) == r \in Region /\ Exists(r)

GroupsKept == \A r \in Region : Exists(r) => Kept(real[r]) /\ real[r].id = r

CacheKnown == \A i \in cache.tree : Of(i.id) /\ Known(i, real[i.id])

StreamsKnown ==
    \A s \in Store : hb[s] # Idle => Of(hb[s].region.id) /\ Known(hb[s].region, real[hb[s].region.id])

OpsFit ==
    /\ ops = [r \in Region |-> ops[r]]
    /\ \A r \in Region : ops[r] # NoOp => Exists(r) /\ Fits(ops[r], real[r])

\* An operator without a target is not started as long as nothing has strayed.
Offered(o) == Of(o.region) /\ (Aimed(o) => Fits(o, real[o.region]))

AddersFit ==
    /\ adder = [a \in Adder |-> adder[a]]
    /\ \A a \in Adder : adder[a] # Idle =>
          adder[a] = [at |-> adder[a].at, op |-> adder[a].op] /\ Offered(adder[a].op)

Ordered(q) == \E T : q \in Seq(T) /\ \A c \in T : Of(c.region) /\ Right(c, real[c.region])

CommandsRight ==
    /\ cmds = [s \in Store |-> cmds[s]]
    /\ \A s \in Store : Ordered(cmds[s])

\* Every group has its replicas; and what the scheduler was told of it, means to do with
\* it and has sent to it is in order.
ReplicaInv ==
    GroupsKept /\ CacheKnown /\ StreamsKnown /\ OpsFit /\ AddersFit /\ CommandsRight

LEMMA GoodExists ==
    ASSUME NEW i, i = [f \in Fields |-> i[f]]
    PROVE  i # NoRegion
<1>1. DOMAIN i = Fields
  BY Zenon
<1>2. "id" \in Fields /\ "id" \notin DOMAIN NoRegion
  BY DEF Fields, NoRegion
<1> QED
  BY <1>1, <1>2, Zenon

\* A step of the groups.
Evolve == \A r \in Region : Exists(r) => Exists(r)' /\ Moved(real[r], real'[r])

LEMMA EvolveKnown ==
    ASSUME GroupsKept, Evolve, NEW i, Of(i.id), Known(i, real[i.id])
    PROVE  i.id \in Region /\ real'[i.id] # NoRegion /\ Known(i, real'[i.id])
<1>1. Moved(real[i.id], real'[i.id]) /\ i.id \in Region /\ real'[i.id] # NoRegion
  BY Zenon DEF Evolve, Of, Exists
<1>2. real[i.id].confVer \in Nat
  BY Zenon DEF GroupsKept, Kept, Of
<1> QED
  BY <1>1, <1>2, KnownMoves, Zenon

LEMMA EvolveFits ==
    ASSUME GroupsKept, Evolve, NEW r, Of(r), NEW o, Fits(o, real[r])
    PROVE  real'[r] # NoRegion /\ Fits(o, real'[r])
<1>1. Moved(real[r], real'[r]) /\ real'[r] # NoRegion
  BY Zenon DEF Evolve, Of, Exists
<1>2. real[r].confVer \in Nat
  BY Zenon DEF GroupsKept, Kept, Of
<1> QED
  BY <1>1, <1>2, FitsMoves, Zenon

LEMMA EvolveRight ==
    ASSUME GroupsKept, Evolve, NEW c, Of(c.region), Right(c, real[c.region])
    PROVE  c.region \in Region /\ real'[c.region] # NoRegion /\ Right(c, real'[c.region])
<1>1. Moved(real[c.region], real'[c.region]) /\ c.region \in Region /\ real'[c.region] # NoRegion
  BY Zenon DEF Evolve, Of, Exists
<1>2. real[c.region].confVer \in Nat
  BY Zenon DEF GroupsKept, Kept, Of
<1> QED
  BY <1>1, <1>2, RightMoves, Zenon

\* What the groups do leaves everything in order that was.
LEMMA EvolveKeeps ==
    ASSUME ReplicaInv, Evolve, UNCHANGED <<cache, hb, ops, adder>>
    PROVE  CacheKnown' /\ StreamsKnown' /\ OpsFit' /\ AddersFit'
<1>0. GroupsKept /\ CacheKnown /\ StreamsKnown /\ OpsFit /\ AddersFit
  BY Zenon DEF ReplicaInv
<1>1. CacheKnown'
  <2>1. \A i \in cache.tree : i.id \in Region /\ real'[i.id] # NoRegion /\ Known(i, real'[i.id])
    BY <1>0, EvolveKnown, Zenon DEF CacheKnown
  <2> QED
    BY <2>1, Zenon DEF CacheKnown, Of, Exists
<1>2. StreamsKnown'
  <2>1. ASSUME NEW s \in Store, hb[s] # Idle
        PROVE  /\ hb[s].region.id \in Region /\ real'[hb[s].region.id] # NoRegion
               /\ Known(hb[s].region, real'[hb[s].region.id])
    <3>1. PICK i : i = hb[s].region
      BY Zenon
    <3>2. Of(i.id) /\ Known(i, real[i.id])
      BY <1>0, <2>1, <3>1, Zenon DEF StreamsKnown
    <3>3. i.id \in Region /\ real'[i.id] # NoRegion /\ Known(i, real'[i.id])
      BY <1>0, <3>2, EvolveKnown, Zenon
    <3> QED
      BY <3>1, <3>3, Zenon
  <2> QED
    BY <2>1, Zenon DEF StreamsKnown, Of, Exists
<1>3. OpsFit'
  <2>1. \A r \in Region : ops[r] # NoOp => real'[r] # NoRegion /\ Fits(ops[r], real'[r])
    BY <1>0, EvolveFits, Zenon DEF OpsFit, Of
  <2> QED
    BY <1>0, <2>1, Zenon DEF OpsFit, Exists
<1>4. AddersFit'
  <2>1. ASSUME NEW a \in Adder, adder[a] # Idle
        PROVE  /\ adder[a].op.region \in Region /\ real'[adder[a].op.region] # NoRegion
               /\ Aimed(adder[a].op) => Fits(adder[a].op, real'[adder[a].op.region])
    <3>1. PICK o : o = adder[a].op
      BY Zenon
    <3>2. Of(o.region) /\ (Aimed(o) => Fits(o, real[o.region]))
      BY <1>0, <2>1, <3>1, Zenon DEF AddersFit, Offered
    <3>3. o.region \in Region /\ real'[o.region] # NoRegion
      BY <3>2, Zenon DEF Evolve, Of, Exists
    <3>4. Aimed(o) => Fits(o, real'[o.region])
      BY <1>0, <3>2, EvolveFits, Zenon
    <3> QED
      BY <3>1, <3>3, <3>4, Zenon
  <2> QED
    BY <1>0, <2>1, Zenon DEF AddersFit, Offered, Of, Exists, Aimed
<1> QED
  BY <1>1, <1>2, <1>3, <1>4, Zenon

LEMMA EvolveOrdered ==
    ASSUME GroupsKept, Evolve, NEW q, Ordered(q)
    PROVE  \E T : q \in Seq(T) /\ \A c \in T : c.region \in Region /\ real'[c.region] # NoRegion
                                               /\ Right(c, real'[c.region])
<1>1. PICK T : q \in Seq(T) /\ \A c \in T : Of(c.region) /\ Right(c, real[c.region])
  BY Zenon DEF Ordered
<1>2. \A c \in T : c.region \in Region /\ real'[c.region] # NoRegion /\ Right(c, real'[c.region])
  BY <1>1, EvolveRight, Zenon
<1> QED
  BY <1>1, <1>2, Zenon

\* Commands arrive or are lost, while the groups move.
LEMMA TailOrdered ==
    ASSUME ReplicaInv, Evolve, NEW s \in Store, cmds[s] # <<>>,
           cmds' = [cmds EXCEPT ![s] = Tail(@)]
    PROVE  CommandsRight'
<1>0. GroupsKept /\ CommandsRight
  BY Zenon DEF ReplicaInv
<1>1. /\ cmds' = [x \in Store |-> cmds'[x]]
      /\ \A x \in Store : cmds'[x] = cmds[x] \/ (x = s /\ cmds'[x] = Tail(cmds[s]))
  BY <1>0, Zenon DEF CommandsRight
<1>2. Ordered(Tail(cmds[s]))
  <2>1. PICK T : cmds[s] \in Seq(T) /\ \A c \in T : Of(c.region) /\ Right(c, real[c.region])
    BY <1>0, Zenon DEF CommandsRight, Ordered
  <2>2. Tail(cmds[s]) \in Seq(T)
    BY <2>1, HeadTail, Zenon
  <2> QED
    BY <2>1, <2>2, Zenon DEF Ordered
<1>3. \A x \in Store : Ordered(cmds'[x])
  BY <1>0, <1>1, <1>2, Zenon DEF CommandsRight
<1>4. \A x \in Store : \E T : /\ cmds'[x] \in Seq(T)
                              /\ \A c \in T : c.region \in Region /\ real'[c.region] # NoRegion
                                              /\ Right(c, real'[c.region])
  BY <1>0, <1>3, EvolveOrdered, Zenon
<1> QED
  BY <1>1, <1>4, Zenon DEF CommandsRight, Ordered, Of, Exists

LEMMA OneEvolves ==
    ASSUME CacheInv, GroupsKept, NEW r \in Region, NEW h, Good(h), Kept(h), Moved(real[r], h),
           h.id = r, real' = [real EXCEPT ![r] = h]
    PROVE  Evolve /\ GroupsKept'
<1>1. /\ real'[r] = h /\ h # NoRegion
      /\ \A x \in Region : x # r => real'[x] = real[x]
  BY GoodExists, Zenon DEF CacheInv, Good
<1>2. \A x \in Region : Moved(real[x], real[x])
  BY Zenon DEF Moved
<1>3. Evolve
  BY <1>1, <1>2, Zenon DEF Evolve, Exists
<1>4. GroupsKept'
  BY <1>1, Zenon DEF GroupsKept, Exists
<1> QED
  BY <1>3, <1>4, Zenon

LEMMA StillEvolves ==
    ASSUME GroupsKept, real' = real
    PROVE  Evolve /\ GroupsKept'
BY Zenon DEF Evolve, Exists, Moved, GroupsKept

LEMMA DeliverKeeps ==
    ASSUME SizeFacts, CacheInv, ReplicaInv, NEW s \in Store, Deliver(s)
    PROVE  ReplicaInv'
<1>0. GroupsKept /\ CommandsRight
  BY Zenon DEF ReplicaInv
<1>1. /\ cmds[s] # <<>> /\ cmds' = [cmds EXCEPT ![s] = Tail(@)]
      /\ UNCHANGED <<cache, hb, ops, adder>>
  BY Zenon DEF Deliver
<1>2. PICK c : c = Head(cmds[s])
  BY Zenon
<1>3. Of(c.region) /\ Right(c, real[c.region])
  <2>1. PICK T : cmds[s] \in Seq(T) /\ \A x \in T : Of(x.region) /\ Right(x, real[x.region])
    BY <1>0, Zenon DEF CommandsRight, Ordered
  <2>2. c \in T
    BY <1>1, <1>2, <2>1, HeadTail, Zenon
  <2> QED
    BY <2>1, <2>2, Zenon
<1>4. Evolve /\ GroupsKept'
  <2>1. CASE real' = real
    BY <1>0, <2>1, StillEvolves, Zenon
  <2>2. CASE real' # real
    <3>1. PICK h \in Handle(c, real[c.region]) :
             /\ c.confVer = real[c.region].confVer /\ c.peer # NoPeer
             /\ real' = [real EXCEPT ![c.region] = h]
      BY <1>2, <2>2, Zenon DEF Deliver, CheckRegionEpoch
    <3>2. Good(real[c.region]) /\ Kept(real[c.region]) /\ real[c.region].id = c.region
          /\ c.region \in Region
      BY <1>0, <1>3, Zenon DEF CacheInv, GroupsKept, Of
    <3>3. Good(h)
      BY <3>2, HandleGood, Zenon
    <3>4. Kept(h) /\ Moved(real[c.region], h) /\ h.id = c.region
      BY <1>3, <3>1, <3>2, HandleMoves, ZenonT(30)
    <3> QED
      BY <1>0, <3>1, <3>2, <3>3, <3>4, OneEvolves, Zenon
  <2> QED
    BY <2>1, <2>2, Zenon
<1>5. CommandsRight'
  BY <1>1, <1>4, TailOrdered, Zenon
<1>6. CacheKnown' /\ StreamsKnown' /\ OpsFit' /\ AddersFit'
  BY <1>1, <1>4, EvolveKeeps, Zenon
<1> QED
  BY <1>4, <1>5, <1>6, Zenon DEF ReplicaInv

\* Commands stay in order while nobody touches them.
LEMMA SameOrdered ==
    ASSUME ReplicaInv, Evolve, cmds' = cmds
    PROVE  CommandsRight'
<1>0. GroupsKept /\ CommandsRight
  BY Zenon DEF ReplicaInv
<1>1. \A x \in Store : \E T : /\ cmds[x] \in Seq(T)
                              /\ \A c \in T : c.region \in Region /\ real'[c.region] # NoRegion
                                              /\ Right(c, real'[c.region])
  BY <1>0, EvolveOrdered, Zenon DEF CommandsRight
<1> QED
  BY <1>0, <1>1, Zenon DEF CommandsRight, Ordered, Of, Exists

LEMMA LoseKeeps ==
    ASSUME ReplicaInv, NEW s \in Store, LoseCommand(s)
    PROVE  ReplicaInv'
<1>1. GroupsKept /\ Evolve /\ GroupsKept'
  BY StillEvolves, Zenon DEF LoseCommand, ReplicaInv
<1>2. CommandsRight'
  BY <1>1, TailOrdered, Zenon DEF LoseCommand
<1>3. CacheKnown' /\ StreamsKnown' /\ OpsFit' /\ AddersFit'
  BY <1>1, EvolveKeeps, Zenon DEF LoseCommand
<1> QED
  BY <1>1, <1>2, <1>3, Zenon DEF ReplicaInv

\* A change of leader, and of who is pending.
LEMMA SameConfiguration ==
    ASSUME CacheInv, ReplicaInv, NEW r \in Region, Exists(r), NEW h, Good(h),
           h.id = real[r].id, h.confVer = real[r].confVer, h.peers = real[r].peers,
           real' = [real EXCEPT ![r] = h], UNCHANGED <<cache, hb, ops, adder, cmds>>
    PROVE  ReplicaInv'
<1>1. GroupsKept /\ Kept(real[r]) /\ real[r].id = r
  BY Zenon DEF ReplicaInv, GroupsKept
<1>2. Kept(h) /\ Moved(real[r], h)
  BY <1>1, Zenon DEF Kept, Moved
<1>3. Evolve /\ GroupsKept'
  BY <1>1, <1>2, OneEvolves, Zenon
<1>4. CommandsRight'
  BY <1>3, SameOrdered, Zenon
<1>5. CacheKnown' /\ StreamsKnown' /\ OpsFit' /\ AddersFit'
  BY <1>3, EvolveKeeps, Zenon
<1> QED
  BY <1>3, <1>4, <1>5, Zenon DEF ReplicaInv

LEMMA LeaderChangeKeeps ==
    ASSUME CacheInv, ReplicaInv, NEW r \in Region, LeaderChange(r)
    PROVE  ReplicaInv'
<1>1. PICK p : real' = [real EXCEPT ![r] = Led(real[r], p)]
  BY Zenon DEF LeaderChange
<1>2. Exists(r) /\ Good(real[r]) /\ UNCHANGED <<cache, hb, ops, adder, cmds>>
  BY Zenon DEF LeaderChange, CacheInv
<1>3. PICK h : h = Led(real[r], p)
  BY Zenon
<1>4. Good(h) /\ h.id = real[r].id /\ h.confVer = real[r].confVer /\ h.peers = real[r].peers
  BY <1>2, <1>3, LedGood, LedSame, Zenon
<1> QED
  BY <1>1, <1>2, <1>3, <1>4, SameConfiguration, Zenon

LEMMA CatchUpKeeps ==
    ASSUME CacheInv, ReplicaInv, NEW r \in Region, CatchUp(r)
    PROVE  ReplicaInv'
<1>1. PICK p : real' = [real EXCEPT ![r].pending = @ \ {p}]
  BY Zenon DEF CatchUp
<1>2. Exists(r) /\ Good(real[r]) /\ UNCHANGED <<cache, hb, ops, adder, cmds>>
  BY Zenon DEF CatchUp, CacheInv
<1>3. PICK g, rest : g = real[r] /\ rest = g.pending \ {p}
  BY Zenon
<1>4. PICK h : h = [g EXCEPT !.pending = rest]
  BY Zenon
<1>5. real' = [real EXCEPT ![r] = h]
  BY <1>1, <1>3, <1>4, Zenon
<1>6. g = [f \in Fields |-> g[f]] /\ Sound(g)
  BY <1>2, <1>3, Zenon DEF Good
<1>7. /\ h = [f \in Fields |-> h[f]] /\ h.start = g.start /\ h.end = g.end /\ h.pending = rest
      /\ h.id = g.id /\ h.confVer = g.confVer /\ h.peers = g.peers
  BY <1>4, <1>6, Zenon DEF Fields
<1>8. Good(h)
  BY <1>3, <1>6, <1>7, Zenon DEF Good, Sound
<1> QED
  BY <1>2, <1>3, <1>5, <1>7, <1>8, SameConfiguration, Zenon

LEMMA SplitKeeps ==
    ASSUME SizeFacts, CacheInv, ReplicaInv, NEW r \in Region, NEW new \in Region, Split(r, new)
    PROVE  ReplicaInv'
<1> DEFINE old == real[r]
           first == Alloc(Cardinality(old.peers))
           copy(p) == [id |-> first + Cardinality({q \in old.peers : q.id < p.id}),
                       store |-> p.store]
           lft == [old EXCEPT !.version = @ + 1, !.end = old.start + 1]
           rgt == [old EXCEPT !.id = new, !.start = old.start + 1,
                              !.version = 1, !.confVer = 1,
                              !.peers = {copy(p) : p \in @},
                              !.leader = copy(@),
                              !.pending = {copy(p) : p \in @}]
           cp == [p \in old.peers |-> copy(p)]
<1>0. GroupsKept
  BY Zenon DEF ReplicaInv
<1>1. /\ Exists(r) /\ ~Exists(new) /\ r # new
      /\ UNCHANGED <<cache, hb, ops, adder, cmds>>
  BY Zenon DEF Split
<1>2. real' = [real EXCEPT ![r] = lft, ![new] = rgt]
  BY Zenon DEF Split
<1>3. old = [f \in Fields |-> old[f]] /\ Kept(old) /\ old.id = r
  BY <1>0, <1>1, Zenon DEF CacheInv, Good, GroupsKept
<1> HIDE DEF first, old
<1>4. \A p \in old.peers : cp[p] = copy(p) /\ cp[p].store = p.store
  BY Zenon
<1> HIDE DEF copy
<1>5. /\ lft = [f \in Fields |-> lft[f]]
      /\ lft.id = r /\ lft.confVer = old.confVer /\ lft.peers = old.peers
  BY <1>3, Zenon DEF Fields
<1>6. /\ rgt = [f \in Fields |-> rgt[f]]
      /\ rgt.id = new /\ rgt.confVer = 1 /\ rgt.peers = {copy(p) : p \in old.peers}
  BY <1>3, Zenon DEF Fields
<1>7. PICK T, f, a, b : T = rgt.peers /\ f = cp /\ a = lft /\ b = rgt
  BY Zenon
<1>8. f \in [old.peers -> T] /\ \A t \in T : \E p \in old.peers : f[p] = t
  BY <1>4, <1>6, <1>7, Zenon
<1>9. \A p \in old.peers : f[p].store = p.store
  BY <1>4, <1>7, Zenon
<1> HIDE DEF lft, rgt, cp
<1>10. /\ IsFiniteSet(T) /\ Cardinality(T) = Cardinality(old.peers)
       /\ \A p, q \in T : p.store = q.store => p = q
  <2>1. IsFiniteSet(old.peers) /\ \A p, q \in old.peers : p.store = q.store => p = q
    BY <1>3, Zenon DEF Kept
  <2> QED
    BY <1>8, <1>9, <2>1, CopyKept
<1>11. 1 \in Nat
  OBVIOUS
<1>12. Kept(rgt) /\ Kept(lft) /\ Moved(old, lft)
  BY <1>3, <1>5, <1>6, <1>7, <1>10, <1>11, Zenon DEF Kept, Moved
<1>13. lft # NoRegion /\ rgt # NoRegion
  BY <1>5, <1>6, GoodExists, Zenon
<1>14. /\ real'[r] = lft /\ real'[new] = rgt
       /\ \A x \in Region : x # r /\ x # new => real'[x] = real[x]
  BY <1>1, <1>2, Zenon DEF CacheInv
<1>15. GroupsKept'
  BY <1>0, <1>5, <1>6, <1>12, <1>14, ZenonT(30) DEF GroupsKept, Exists
<1>16. \A x \in Region : Moved(real[x], real[x])
  BY Zenon DEF Moved
<1>17. Evolve
  BY <1>1, <1>12, <1>13, <1>14, <1>16, Zenon DEF Evolve, Exists, old
<1>18. CommandsRight'
  BY <1>1, <1>17, SameOrdered, Zenon
<1>19. CacheKnown' /\ StreamsKnown' /\ OpsFit' /\ AddersFit'
  BY <1>1, <1>17, EvolveKeeps, Zenon
<1> QED
  BY <1>15, <1>18, <1>19, Zenon DEF ReplicaInv

-----------------------------------------------------------------------------
(* Steps of the scheduler, which leave the groups alone. *)

LEMMA Untouched ==
    ASSUME ReplicaInv, real' = real
    PROVE  /\ GroupsKept'
           /\ cache' = cache => CacheKnown'
           /\ hb' = hb => StreamsKnown'
           /\ ops' = ops => OpsFit'
           /\ adder' = adder => AddersFit'
           /\ cmds' = cmds => CommandsRight'
<1>0. GroupsKept /\ CacheKnown /\ StreamsKnown /\ OpsFit /\ AddersFit /\ CommandsRight
  BY Zenon DEF ReplicaInv
<1>1. GroupsKept'
  BY <1>0, Zenon DEF GroupsKept, Exists
<1>2. cache' = cache => CacheKnown'
  BY <1>0, Zenon DEF CacheKnown, Of, Exists
<1>3. hb' = hb => StreamsKnown'
  BY <1>0, Zenon DEF StreamsKnown, Of, Exists
<1>4. ops' = ops => OpsFit'
  BY <1>0, Zenon DEF OpsFit, Exists
<1>5. adder' = adder => AddersFit'
  BY <1>0, Zenon DEF AddersFit, Offered, Of, Exists, Aimed
<1>6. cmds' = cmds => CommandsRight'
  BY <1>0, Zenon DEF CommandsRight, Ordered, Of, Exists
<1> QED
  BY <1>1, <1>2, <1>3, <1>4, <1>5, <1>6, ZenonT(30)

LEMMA StreamKnown ==
    ASSUME CacheInv, ReplicaInv, real' = real, NEW s \in Store, NEW n,
           hb' = [hb EXCEPT ![s] = n],
           n # Idle => Of(n.region.id) /\ Known(n.region, real[n.region.id])
    PROVE  StreamsKnown'
<1>1. hb'[s] = n /\ \A x \in Store : x # s => hb'[x] = hb[x]
  BY Zenon DEF CacheInv
<1>2. StreamsKnown
  BY Zenon DEF ReplicaInv
<1>3. \A x \in Store : hb'[x] # Idle =>
         Of(hb'[x].region.id) /\ Known(hb'[x].region, real[hb'[x].region.id])
  BY <1>1, <1>2, Zenon DEF StreamsKnown
<1> QED
  BY <1>3, Zenon DEF StreamsKnown, Of, Exists

LEMMA SendHeartbeatKeeps ==
    ASSUME CacheInv, ReplicaInv, NEW r \in Region, SendHeartbeat(r)
    PROVE  ReplicaInv'
<1>1. /\ Exists(r) /\ UNCHANGED <<real, cache, ops, adder, cmds>>
      /\ hb' = [hb EXCEPT ![real[r].leader.store] = [at |-> "sent", region |-> real[r]]]
  BY Zenon DEF SendHeartbeat
<1>2. Kept(real[r]) /\ real[r].id = r
  BY <1>1, Zenon DEF ReplicaInv, GroupsKept
<1>3. PICK i : i = real[r]
  BY Zenon
<1>4. Of(i.id) /\ real[i.id] = i
  BY <1>1, <1>2, <1>3, Zenon DEF Of
<1>5. Known(i, i)
  <2>1. i.confVer \in Nat
    BY <1>2, <1>3, Zenon DEF Kept
  <2>2. i.confVer <= i.confVer /\ i.confVer + 1 # i.confVer
    BY <2>1
  <2> QED
    BY <2>1, <2>2, Zenon DEF Known
<1>6. StreamsKnown'
  <2>1. PICK n, s : n = [at |-> "sent", region |-> i] /\ s = i.leader.store
    BY Zenon
  <2>2. n.region = i /\ hb' = [hb EXCEPT ![s] = n]
    BY <1>1, <1>3, <2>1, Zenon
  <2>3. Of(n.region.id) /\ Known(n.region, real[n.region.id])
    BY <1>4, <1>5, <2>2, Zenon
  <2>4. CASE s \in Store
    BY <1>1, <2>2, <2>3, <2>4, StreamKnown, Zenon
  <2>5. CASE s \notin Store
    <3>1. hb' = hb
      BY <2>2, <2>5, Zenon DEF CacheInv
    <3> QED
      BY <1>1, <3>1, Untouched, Zenon
  <2> QED
    BY <2>4, <2>5, Zenon
<1> QED
  BY <1>1, <1>6, Untouched, Zenon DEF ReplicaInv

LEMMA CheckHeartbeatKeeps ==
    ASSUME CacheInv, ReplicaInv, NEW s \in Store, CheckHeartbeat(s)
    PROVE  ReplicaInv'
<1>1. hb[s] # Idle /\ UNCHANGED <<real, cache, ops, adder, cmds>>
  BY Zenon DEF CheckHeartbeat
<1>2. PICK n : hb' = [hb EXCEPT ![s] = n] /\ (n = Idle \/ n = [hb[s] EXCEPT !.at = "checked"])
  BY Zenon DEF CheckHeartbeat
<1>3. hb[s] = [at |-> hb[s].at, region |-> hb[s].region]
  BY <1>1, Zenon DEF CacheInv
<1>4. n = Idle \/ n.region = hb[s].region
  BY <1>2, <1>3, Zenon
<1>5. Of(hb[s].region.id) /\ Known(hb[s].region, real[hb[s].region.id])
  BY <1>1, Zenon DEF ReplicaInv, StreamsKnown
<1>6. n # Idle => Of(n.region.id) /\ Known(n.region, real[n.region.id])
  BY <1>4, <1>5, Zenon
<1>7. StreamsKnown'
  BY <1>1, <1>2, <1>6, StreamKnown, Zenon
<1> QED
  BY <1>1, <1>7, Untouched, Zenon DEF ReplicaInv

LEMMA PutHeartbeatKeeps ==
    ASSUME CacheInv, ReplicaInv, NEW s \in Store, PutHeartbeat(s)
    PROVE  ReplicaInv'
<1>1. /\ hb[s] # Idle /\ UNCHANGED <<real, ops, adder, cmds>>
      /\ hb' = [hb EXCEPT ![s].at = "put"]
      /\ cache' = SetRegion(cache, hb[s].region)
  BY Zenon DEF PutHeartbeat
<1>2. hb[s] = [at |-> hb[s].at, region |-> hb[s].region] /\ Good(hb[s].region)
  BY <1>1, Zenon DEF CacheInv
<1>3. PICK i : i = hb[s].region
  BY Zenon
<1>4. Of(i.id) /\ Known(i, real[i.id])
  BY <1>1, <1>3, Zenon DEF ReplicaInv, StreamsKnown
<1>5. StreamsKnown'
  <2>1. PICK n : n = [hb[s] EXCEPT !.at = "put"]
    BY Zenon
  <2>2. hb' = [hb EXCEPT ![s] = n]
    BY <1>1, <2>1, Zenon
  <2>3. n.region = i
    BY <1>2, <1>3, <2>1, Zenon
  <2>4. Of(n.region.id) /\ Known(n.region, real[n.region.id])
    BY <1>4, <2>3, Zenon
  <2> QED
    BY <1>1, <2>2, <2>4, StreamKnown, Zenon
<1>6. CacheKnown'
  <2>1. PICK u : Separate(u) /\ cache = CacheOf(u)
    BY Zenon DEF CacheInv
  <2>2. cache' = CacheOf(TreeAfter(u, i))
    BY <1>1, <1>2, <1>3, <2>1, SetConsistent, Zenon DEF Good
  <2>3. cache.tree = u /\ cache'.tree = TreeAfter(u, i)
    BY <2>1, <2>2, Zenon DEF CacheOf
  <2>4. \A x \in cache'.tree : x = i \/ x \in cache.tree
    BY <2>3, Zenon DEF TreeAfter, Stay
  <2>5. \A x \in cache.tree : Of(x.id) /\ Known(x, real[x.id])
    BY Zenon DEF ReplicaInv, CacheKnown
  <2>6. \A x \in cache'.tree : Of(x.id) /\ Known(x, real[x.id])
    BY <1>4, <2>4, <2>5, Zenon
  <2> QED
    BY <1>1, <2>6, Zenon DEF CacheKnown, Of, Exists
<1> QED
  BY <1>1, <1>5, <1>6, Untouched, Zenon DEF ReplicaInv

\* SendScheduleCommand with a command that is right.
LEMMA SendOrdered ==
    ASSUME ReplicaInv, real' = real, NEW i, Of(i.id), NEW step,
           (step.kind = "add" => ~HasPeer(i, step.store)) => Right(Command(i, step), real[i.id]),
           SendScheduleCommand(i, step)
    PROVE  CommandsRight'
<1>0. CommandsRight
  BY Zenon DEF ReplicaInv
<1>1. CASE cmds' = cmds
  BY <1>1, Untouched, Zenon
<1>2. CASE cmds' # cmds
  <2>1. PICK c, s : c = Command(i, step) /\ s = i.leader.store
    BY Zenon
  <2>2. /\ step.kind = "add" => ~HasPeer(i, step.store)
        /\ cmds' = [cmds EXCEPT ![s] = Append(@, c)]
    BY <1>2, <2>1, Zenon DEF SendScheduleCommand
  <2>3. Of(c.region) /\ Right(c, real[c.region])
    <3>1. c.region = i.id
      BY <2>1, Zenon DEF Command
    <3> QED
      BY <2>1, <2>2, <3>1, Zenon
  <2>4. /\ cmds' = [x \in Store |-> cmds'[x]]
        /\ \A x \in Store : cmds'[x] = cmds[x] \/ cmds'[x] = Append(cmds[x], c)
    BY <1>0, <2>2, Zenon DEF CommandsRight
  <2>5. ASSUME NEW x \in Store PROVE Ordered(Append(cmds[x], c))
    <3>1. PICK T : cmds[x] \in Seq(T) /\ \A d \in T : Of(d.region) /\ Right(d, real[d.region])
      BY <1>0, Zenon DEF CommandsRight, Ordered
    <3>2. PICK U : U = T \cup {c}
      BY Zenon
    <3>3. c \in U /\ T \subseteq U
      BY <3>2, Zenon
    <3>5. Append(cmds[x], c) \in Seq(U)
      BY <3>1, <3>2, Appended, Zenon
    <3>6. \A d \in U : Of(d.region) /\ Right(d, real[d.region])
      BY <2>3, <3>1, <3>2, Zenon
    <3> QED
      BY <3>5, <3>6, Zenon DEF Ordered
  <2>6. \A x \in Store : Ordered(cmds'[x])
    BY <1>0, <2>4, <2>5, Zenon DEF CommandsRight
  <2> QED
    BY <2>4, <2>6, Zenon DEF CommandsRight, Ordered, Of, Exists
<1> QED
  BY <1>1, <1>2, Zenon

LEMMA OneOpFits ==
    ASSUME ReplicaInv, real' = real, NEW r, Of(r), NEW o, ops' = [ops EXCEPT ![r] = o],
           o # NoOp => Fits(o, real[r])
    PROVE  OpsFit'
<1>0. OpsFit
  BY Zenon DEF ReplicaInv
<1>1. /\ ops' = [x \in Region |-> ops'[x]]
      /\ ops'[r] = o /\ \A x \in Region : x # r => ops'[x] = ops[x]
  BY <1>0, Zenon DEF OpsFit, Of
<1> QED
  BY <1>0, <1>1, Zenon DEF OpsFit, Of, Exists

\* Operator.Check never ends at a step that is finished.
LEMMA CheckUnfinished ==
    ASSUME NEW o, Shape(o), NEW i, NEW c, c = Check(o, i), ~Finished(c)
    PROVE  ~IsFinish(Step(c), i)
<1>1. PICK k \in o.cur .. (Len(o.steps) + 1) :
              /\ Check(o, i) = [o EXCEPT !.cur = k]
              /\ k <= Len(o.steps) => ~IsFinish(o.steps[k], i)
  BY CheckStops, Zenon
<1>2. c.cur = k /\ c.steps = o.steps
  BY <1>1, ShapeAt
<1>3. k <= Len(o.steps)
  <2>1. PICK l, n : l = Len(o.steps) /\ n = o.cur
    BY Zenon
  <2>2. l \in 1 .. 3 /\ n \in 1 .. (l + 1) /\ k \in n .. (l + 1) /\ ~(k > l)
    BY <1>2, <2>1, Zenon DEF Shape, Plan, Finished
  <2>3. k <= l
    BY <2>2
  <2> QED
    BY <2>1, <2>3, Zenon
<1> QED
  BY <1>1, <1>2, <1>3, Zenon DEF Step

\* Dispatch with a Region that was reported.
LEMMA DispatchOrdered ==
    ASSUME SizeFacts, ReplicaInv, real' = real, NEW i, Of(i.id), Known(i, real[i.id]),
           NEW timeout, Dispatch(i, timeout)
    PROVE  OpsFit' /\ CommandsRight'
<1>0. OpsFit /\ real[i.id].confVer \in Nat
  BY Zenon DEF ReplicaInv, GroupsKept, Kept, Of
<1>1. PICK o, c : o = ops[i.id] /\ c = Check(o, i)
  BY Zenon
<1>2. CASE o = NoOp
  BY <1>1, <1>2, Untouched, Zenon DEF Dispatch
<1>3. CASE o # NoOp /\ (Finished(c) \/ timeout \/ IsOvertaken(c, i))
  <2>1. ops' = [ops EXCEPT ![i.id] = NoOp] /\ cmds' = cmds
    BY <1>1, <1>3, Zenon DEF Dispatch
  <2> QED
    BY <2>1, OneOpFits, Untouched, Zenon
<1>4. CASE o # NoOp /\ ~(Finished(c) \/ timeout \/ IsOvertaken(c, i))
  <2>1. ops' = [ops EXCEPT ![i.id] = c] /\ SendScheduleCommand(i, Step(c))
    BY <1>1, <1>4, Zenon DEF Dispatch
  <2>2. Fits(o, real[i.id]) /\ Shape(o)
    BY <1>0, <1>1, <1>4, Zenon DEF OpsFit, Of, Fits
  <2>3. c.confVer = o.confVer
    <3>1. PICK k \in o.cur .. (Len(o.steps) + 1) : c = [o EXCEPT !.cur = k]
      BY <1>1, <2>2, CheckStops, Zenon
    <3> QED
      BY <2>2, <3>1, ShapeAt
  <2>4. c.confVer <= i.confVer
    <3>1. ~(i.confVer < o.confVer) /\ i.confVer \in Nat /\ o.confVer \in Nat
      BY <1>4, <2>2, <2>3, Zenon DEF IsOvertaken, Known, Shape
    <3> QED
      BY <2>3, <3>1
  <2>5. Fits(c, real[i.id])
    BY <1>0, <1>1, <2>2, <2>3, <2>4, CheckFits, ZenonT(30)
  <2>6. ~IsFinish(Step(c), i)
    BY <1>1, <1>4, <2>2, CheckUnfinished, Zenon
  <2>7. (Step(c).kind = "add" => ~HasPeer(i, Step(c).store)) => Right(Command(i, Step(c)), real[i.id])
    BY <1>0, <1>4, <2>4, <2>5, <2>6, SendRight, ZenonT(30)
  <2>8. CommandsRight'
    BY <2>1, <2>7, SendOrdered, Zenon
  <2> QED
    BY <2>1, <2>5, <2>8, OneOpFits, Zenon
<1> QED
  BY <1>2, <1>3, <1>4, Zenon

LEMMA DispatchHeartbeatKeeps ==
    ASSUME SizeFacts, CacheInv, ReplicaInv, NEW s \in Store, DispatchHeartbeat(s)
    PROVE  ReplicaInv'
<1>1. hb[s] # Idle /\ hb' = [hb EXCEPT ![s] = Idle] /\ UNCHANGED <<real, cache, adder>>
  BY Zenon DEF DispatchHeartbeat
<1>2. PICK i : i = hb[s].region
  BY Zenon
<1>3. Of(i.id) /\ Known(i, real[i.id])
  BY <1>1, <1>2, Zenon DEF ReplicaInv, StreamsKnown
<1>4. \E timeout : Dispatch(i, timeout)
  BY <1>2, Zenon DEF DispatchHeartbeat
<1>5. OpsFit' /\ CommandsRight'
  BY <1>1, <1>3, <1>4, DispatchOrdered, Zenon
<1>6. StreamsKnown'
  BY <1>1, StreamKnown, Zenon
<1> QED
  BY <1>1, <1>5, <1>6, Untouched, Zenon DEF ReplicaInv

\* One of the goroutines that add operators changes what it is about.
LEMMA OneAdderFits ==
    ASSUME ReplicaInv, real' = real, NEW a, NEW n, adder' = [adder EXCEPT ![a] = n],
           n = Idle \/ (n = [at |-> n.at, op |-> n.op] /\ Offered(n.op))
    PROVE  AddersFit'
<1>0. AddersFit
  BY Zenon DEF ReplicaInv
<1>1. /\ adder' = [x \in Adder |-> adder'[x]]
      /\ \A x \in Adder : adder'[x] = adder[x] \/ adder'[x] = n
  BY <1>0, Zenon DEF AddersFit
<1>2. \A x \in Adder : adder'[x] # Idle =>
         adder'[x] = [at |-> adder'[x].at, op |-> adder'[x].op] /\ Offered(adder'[x].op)
  <2> TAKE x \in Adder
  <2>1. CASE adder'[x] = adder[x]
    BY <1>0, <2>1, Zenon DEF AddersFit
  <2>2. CASE adder'[x] = n
    BY <2>2, Zenon
  <2> QED
    BY <1>1, <2>1, <2>2, Zenon
<1> QED
  BY <1>1, <1>2, Zenon DEF AddersFit, Offered, Of, Exists, Aimed

LEMMA CreatedRecord ==
    ASSUME NEW o, NEW n, n = [at |-> "created", op |-> o]
    PROVE  n = [at |-> n.at, op |-> n.op] /\ n.op = o
BY Zenon

LEMMA PatrolKeeps ==
    ASSUME CacheInv, ReplicaInv, NEW r \in Region, Patrol(r)
    PROVE  ReplicaInv'
<1>1. UNCHANGED <<real, cache, hb, ops, cmds>>
  BY Zenon DEF Patrol
<1>2. PICK i, o : /\ i \in cache.tree /\ o \in CheckReplicas(i, Alloc(1))
                  /\ adder' = [adder EXCEPT !["checker"] = [at |-> "created", op |-> o]]
  BY Zenon DEF Patrol, Get
<1>3. Of(i.id) /\ Known(i, real[i.id]) /\ real[i.id].confVer \in Nat
  BY <1>2, Zenon DEF ReplicaInv, CacheKnown, GroupsKept, Kept, Of
<1>4. PICK id : id = Alloc(1)
  BY Zenon
<1>5. o.region = i.id /\ Fits(o, real[i.id])
  BY <1>2, <1>3, <1>4, CheckerFits, Zenon
<1>6. Offered(o)
  BY <1>3, <1>5, Zenon DEF Offered
<1>7. AddersFit'
  BY <1>1, <1>2, <1>6, CreatedRecord, OneAdderFits, Zenon
<1> QED
  BY <1>1, <1>7, Untouched, Zenon DEF ReplicaInv

\* getRegion returns a Region of the cache that has no peer on the target.
LEMMA PickedRegion ==
    ASSUME CacheInv, NEW from \in Store, NEW to, NEW i \in getRegion(from, to)
    PROVE  i \in cache.tree /\ ~HasPeer(i, to)
<1>1. \/ i \in cache.pending[from] \/ i \in cache.followers[from] \/ i \in cache.leaders[from]
  BY Zenon DEF getRegion
<1>2. ~HasPeer(i, to)
  BY Zenon DEF getRegion
<1>3. PICK u : cache = CacheOf(u)
  BY Zenon DEF CacheInv
<1>4. /\ cache.tree = u /\ cache.leaders = Leads(u) /\ cache.followers = Follows(u)
      /\ cache.pending = Awaits(u) /\ from \in S
  BY <1>3, Zenon DEF CacheOf, S
<1>5. i \in u
  BY <1>1, <1>4, ZenonT(30) DEF Leads, Follows, Awaits
<1> QED
  BY <1>2, <1>4, <1>5, Zenon

LEMMA ScheduleKeeps ==
    ASSUME CacheInv, ReplicaInv, Schedule
    PROVE  ReplicaInv'
<1>1. UNCHANGED <<real, cache, hb, ops, cmds>>
  BY Zenon DEF Schedule
<1>2. PICK from, to, target, i, o :
         /\ from \in Store /\ to \in Store
         /\ i \in getRegion(from, to) /\ target \in {to, Nowhere}
         /\ o \in CreateMovePeerOperator(i, from, target, Alloc(1), 0)
         /\ adder' = [adder EXCEPT !["balancer"] = [at |-> "created", op |-> o]]
  BY Zenon DEF Schedule
<1>3. i \in cache.tree /\ ~HasPeer(i, to)
  BY <1>2, PickedRegion, Zenon
<1>4. Of(i.id) /\ Known(i, real[i.id]) /\ real[i.id].confVer \in Nat
  BY <1>3, Zenon DEF ReplicaInv, CacheKnown, GroupsKept, Kept, Of
<1>5. AddsTo(o, i, target)
  <2>1. PICK id : id = Alloc(1)
    BY Zenon
  <2>2. o \in CreateMovePeerOperator(i, from, target, id, 0)
    BY <1>2, <2>1, Zenon
  <2> QED
    BY <2>2, CreatedAdds, Zenon
<1>6. /\ o.region = i.id
      /\ ~HasPeer(i, target) => Fits(o, real[i.id])
      /\ \E n \in DOMAIN o.steps : o.steps[n].store = target
  BY <1>4, <1>5, AddsToFits
<1>7. Aimed(o) => target = to
  BY <1>2, <1>6, Zenon DEF Aimed
<1>8. Offered(o)
  BY <1>3, <1>4, <1>6, <1>7, ZenonT(30) DEF Offered
<1>9. AddersFit'
  BY <1>1, <1>2, <1>8, CreatedRecord, OneAdderFits, ZenonT(30)
<1> QED
  BY <1>1, <1>9, Untouched, Zenon DEF ReplicaInv

LEMMA AdmitKeeps ==
    ASSUME ReplicaInv, NEW a \in Adder, AdmitOperator(a)
    PROVE  ReplicaInv'
<1>1. UNCHANGED <<real, cache, hb, ops, cmds>> /\ adder[a].at = "created"
  BY Zenon DEF AdmitOperator
<1>2. PICK n : adder' = [adder EXCEPT ![a] = n] /\ (n = Idle \/ n = [adder[a] EXCEPT !.at = "admitted"])
  BY Zenon DEF AdmitOperator
<1>3. adder[a] # Idle
  BY <1>1 DEF Idle
<1>4. adder[a] = [at |-> adder[a].at, op |-> adder[a].op] /\ Offered(adder[a].op)
  BY <1>3, Zenon DEF ReplicaInv, AddersFit
<1>5. n = Idle \/ (n = [at |-> n.at, op |-> n.op] /\ n.op = adder[a].op)
  BY <1>2, <1>4, Zenon
<1>6. n = Idle \/ (n = [at |-> n.at, op |-> n.op] /\ Offered(n.op))
  BY <1>4, <1>5, Zenon
<1>7. AddersFit'
  BY <1>1, <1>2, <1>6, OneAdderFits, ZenonT(30)
<1> QED
  BY <1>1, <1>7, Untouched, Zenon DEF ReplicaInv

\* An operator that is started as long as nothing strays: the Region is the one that it
\* was made from.
LEMMA StartKeeps ==
    ASSUME SizeFacts, CacheInv, ReplicaInv, NEW a \in Adder, StartOperator(a), ~strayed'
    PROVE  ReplicaInv'
<1>1. UNCHANGED <<real, cache, hb>> /\ adder[a].at = "admitted" /\ adder' = [adder EXCEPT ![a] = Idle]
  BY Zenon DEF StartOperator
<1>2. adder[a] # Idle
  BY <1>1 DEF Idle
<1>3. PICK o : o = adder[a].op
  BY Zenon
<1>4. Of(o.region) /\ (Aimed(o) => Fits(o, real[o.region])) /\ real[o.region].confVer \in Nat
  BY <1>2, <1>3, Zenon DEF ReplicaInv, AddersFit, Offered, GroupsKept, Kept, Of
<1>5. /\ \A i \in Get(cache.regions, o.region) : i.confVer = o.confVer
      /\ Aimed(o)
  BY <1>3, Zenon DEF StartOperator, Aimed
<1>6. Fits(o, real[o.region])
  BY <1>4, <1>5, Zenon
<1>7. AddersFit'
  BY <1>1, OneAdderFits, Zenon
<1>8. OpsFit' /\ CommandsRight'
  <2>1. CASE Get(cache.regions, o.region) = {}
    <3>1. ops' = [ops EXCEPT ![o.region] = o] /\ cmds' = cmds
      BY <1>3, <2>1, Zenon DEF StartOperator
    <3> QED
      BY <1>1, <1>4, <1>6, <3>1, OneOpFits, Untouched, ZenonT(30)
  <2>2. CASE Get(cache.regions, o.region) # {}
    <3>1. PICK i \in Get(cache.regions, o.region) :
             /\ ops' = [ops EXCEPT ![o.region] = Check(o, i)]
             /\ IF Finished(Check(o, i)) THEN UNCHANGED cmds
                ELSE SendScheduleCommand(i, Step(Check(o, i)))
      BY <1>3, <2>2, Zenon DEF StartOperator
    <3>2. PICK c : c = Check(o, i)
      BY Zenon
    <3>3. i \in cache.tree /\ i.id = o.region
      <4>1. PICK u : cache = CacheOf(u)
        BY Zenon DEF CacheInv
      <4>2. cache.tree = u /\ cache.regions = u
        BY <4>1, Zenon DEF CacheOf
      <4> QED
        BY <4>2, Zenon DEF Get
    <3>4. Known(i, real[i.id]) /\ Of(i.id) /\ real[i.id].confVer \in Nat /\ Fits(o, real[i.id])
      BY <1>4, <1>6, <3>3, Zenon DEF ReplicaInv, CacheKnown
    <3>5. i.confVer = o.confVer
      BY <1>5, Zenon
    <3>6. i.confVer \in Nat /\ o.confVer <= i.confVer
      <4>1. i.confVer \in Nat
        BY <3>4, Zenon DEF Known
      <4> QED
        BY <3>5, <4>1
    <3>7. Fits(c, real[i.id])
      BY <3>2, <3>4, <3>6, CheckFits, Zenon
    <3>8. OpsFit'
      BY <1>1, <3>1, <3>2, <3>3, <3>4, <3>7, OneOpFits, ZenonT(30)
    <3>9. Shape(o)
      BY <3>4, Zenon DEF Fits
    <3>10. c.confVer = o.confVer
      <4>1. PICK k \in o.cur .. (Len(o.steps) + 1) : c = [o EXCEPT !.cur = k]
        BY <3>2, <3>9, CheckStops, Zenon
      <4> QED
        BY <3>9, <4>1, ShapeAt
    <3>11. CommandsRight'
      <4>1. CASE Finished(c)
        BY <1>1, <3>1, <3>2, <4>1, Untouched, ZenonT(30)
      <4>2. CASE ~Finished(c)
        <5>1. ~IsFinish(Step(c), i)
          BY <3>2, <3>9, <4>2, CheckUnfinished, ZenonT(30)
        <5>2. c.confVer <= i.confVer /\ c.confVer = i.confVer
          BY <3>5, <3>6, <3>10, Zenon
        <5>3. (Step(c).kind = "add" => ~HasPeer(i, Step(c).store))
                 => Right(Command(i, Step(c)), real[i.id])
          BY <3>4, <3>7, <4>2, <5>1, <5>2, SendRight, ZenonT(30)
        <5>4. SendScheduleCommand(i, Step(c))
          BY <3>1, <3>2, <4>2, Zenon
        <5> QED
          BY <1>1, <3>4, <5>3, <5>4, SendOrdered, ZenonT(30)
      <4> QED
        BY <4>1, <4>2, Zenon
    <3> QED
      BY <3>8, <3>11, Zenon
  <2> QED
    BY <2>1, <2>2, Zenon
<1> QED
  BY <1>1, <1>7, <1>8, Untouched, Zenon DEF ReplicaInv

LEMMA RestartKeeps ==
    ASSUME ReplicaInv, Restart
    PROVE  ReplicaInv'
<1>1. /\ real' = real /\ cmds' = cmds
      /\ cache' = NewRegionsInfo
      /\ hb' = [s \in Store |-> Idle]
      /\ ops' = [r \in Region |-> NoOp]
      /\ adder' = [a \in Adder |-> Idle]
  BY Zenon DEF Restart
<1>2. cache'.tree = {}
  BY <1>1, Zenon DEF NewRegionsInfo
<1>3. CacheKnown' /\ StreamsKnown' /\ OpsFit' /\ AddersFit'
  BY <1>1, <1>2, Zenon DEF CacheKnown, StreamsKnown, OpsFit, AddersFit
<1> QED
  BY <1>1, <1>3, Untouched, Zenon DEF ReplicaInv

\* The first Region has as many replicas as it should have, on different stores.
FirstKept ==
    /\ Cardinality(FirstRegion.peers) >= MaxReplicas
    /\ \A p, q \in FirstRegion.peers : p.store = q.store => p = q

LEMMA ReplicaInvInit ==
    ASSUME FirstKept, Init
    PROVE  ReplicaInv
<1>1. /\ real = [r \in Region |-> IF r = FirstRegion.id THEN FirstRegion ELSE NoRegion]
      /\ cache = NewRegionsInfo
      /\ hb = [s \in Store |-> Idle]
      /\ ops = [r \in Region |-> NoOp]
      /\ adder = [a \in Adder |-> Idle]
      /\ cmds = [s \in Store |-> <<>>]
  BY Zenon DEF Init
<1>2. Kept(FirstRegion)
  BY FirstRegionAssumption, Zenon DEF FirstKept, Kept
<1>3. GroupsKept
  BY <1>1, <1>2, Zenon DEF GroupsKept, Exists
<1>4. cache.tree = {}
  BY <1>1, Zenon DEF NewRegionsInfo
<1>5. CacheKnown /\ StreamsKnown /\ OpsFit /\ AddersFit
  BY <1>1, <1>4, Zenon DEF CacheKnown, StreamsKnown, OpsFit, AddersFit
<1>6. Ordered(<<>>)
  <2>1. PICK T : T = {}
    BY Zenon
  <2>2. <<>> \in Seq(T) /\ \A c \in T : Of(c.region) /\ Right(c, real[c.region])
    BY <2>1, EmptyIn, Zenon
  <2> QED
    BY <2>2, Zenon DEF Ordered
<1>7. CommandsRight
  BY <1>1, <1>6, Zenon DEF CommandsRight
<1> QED
  BY <1>3, <1>5, <1>7, Zenon DEF ReplicaInv

LEMMA ReplicaInvStep ==
    ASSUME SizeFacts, CacheInv, ~strayed => ReplicaInv, [Next]_vars, ~strayed'
    PROVE  ReplicaInv'
<1>1. ~strayed
  BY Zenon DEF Next, vars, CheckHeartbeat, PutHeartbeat, DispatchHeartbeat, Deliver, LoseCommand,
         RemoveStore, CheckStores, SendHeartbeat, Patrol, LeaderChange, CatchUp, Split,
         AdmitOperator, StartOperator, Schedule, Restart
<1>2. ReplicaInv
  BY <1>1, Zenon
<1>3. CASE UNCHANGED <<real, cache, hb, ops, adder, cmds>>
  BY <1>2, <1>3, Untouched, Zenon DEF ReplicaInv
<1> QED
  BY <1>2, <1>3, CheckHeartbeatKeeps, PutHeartbeatKeeps, DispatchHeartbeatKeeps, DeliverKeeps,
     LoseKeeps, SendHeartbeatKeeps, PatrolKeeps, LeaderChangeKeeps, CatchUpKeeps, SplitKeeps,
     AdmitKeeps, StartKeeps, ScheduleKeeps, RestartKeeps, Zenon
     DEF Next, vars, RemoveStore, CheckStores

-----------------------------------------------------------------------------
(* The theorem on the replicas, with what FiniteSetTheorems says of sizes. *)

INSTANCE FiniteSetTheorems

\* SizeFacts, from the library of finite sets.
LEMMA SizesHold == SizeFacts
<1>1. /\ Cardinality({}) = 0
      /\ \A A : IsFiniteSet(A) => Cardinality(A) \in Nat
  BY FS_EmptySet, FS_CardinalityType, ZenonT(30)
<1>2. \A e : Cardinality({e}) = 1
  BY FS_Singleton, ZenonT(30)
<1>3. \A A, e : IsFiniteSet(A) /\ e \notin A =>
         IsFiniteSet(A \cup {e}) /\ Cardinality(A \cup {e}) = Cardinality(A) + 1
  BY FS_AddElement, ZenonT(30)
<1>4. \A A, e : IsFiniteSet(A) =>
         IsFiniteSet(A \ {e}) /\ Cardinality(A \ {e}) \in {Cardinality(A) - 1, Cardinality(A)}
  BY FS_RemoveElement, ZenonT(30)
<1>5. ASSUME NEW A, NEW T, NEW f \in [A -> T], IsFiniteSet(A),
             \A a, b \in A : f[a] = f[b] => a = b, \A t \in T : \E a \in A : f[a] = t
      PROVE  IsFiniteSet(T) /\ Cardinality(T) = Cardinality(A)
  <2>1. DOMAIN f = A
    BY Zenon
  <2>2. f \in Bijection(A, T)
    BY <1>5, <2>1, ZenonT(30) DEF Bijection, Injection, Surjection, IsInjective
  <2>3. ExistsBijection(A, T)
    BY <2>2, Zenon DEF ExistsBijection
  <2> QED
    BY <1>5, <2>3, FS_Bijection, ZenonT(30)
<1>6. \A A, T, f : /\ IsFiniteSet(A) /\ f \in [A -> T]
                   /\ \A a, b \in A : f[a] = f[b] => a = b
                   /\ \A t \in T : \E a \in A : f[a] = t
                   => IsFiniteSet(T) /\ Cardinality(T) = Cardinality(A)
  BY <1>5, Zenon
<1> QED
  BY <1>1, <1>2, <1>3, <1>4, <1>6, ZenonT(30) DEF SizeFacts

\* No Region is ever left with fewer replicas than max-replicas, or two of them on one
\* store, unless an operator strays: for any stores, Regions and options, with commands
\* and heartbeats that are late, lost or repeated (Dispatch, AddOperator, CheckRegionEpoch).
THEOREM ReplicasStayKept ==
    ASSUME FirstKept
    PROVE  Spec => []ReplicasKept
<1>1. Init => CacheInv /\ (~strayed => ReplicaInv)
  BY CacheInvInit, ReplicaInvInit, ZenonT(30)
<1>2. CacheInv /\ (~strayed => ReplicaInv) /\ [Next]_vars => CacheInv' /\ (~strayed => ReplicaInv)'
  BY CacheInvStep, ReplicaInvStep, SizesHold, ZenonT(30)
<1>3. (~strayed => ReplicaInv) => ReplicasKept
  BY Zenon DEF ReplicasKept, ReplicaInv, GroupsKept, Kept
<1> QED
  BY <1>1, <1>2, <1>3, PTL DEF Spec
=============================================================================
