------------------------------- MODULE Raft -------------------------------
(***************************************************************************)
(* The replicas of one Region: the Raft state machine of raft/raft.go and  *)
(* raft/log.go, driven through raft/rawnode.go by the store's raft worker, *)
(* with the storage of kv/raftstore/peer_storage.go under it.              *)
(*                                                                         *)
(* raft[i] is the Raft struct of peer i (RaftLog included) and each method *)
(* of the code is an operator from a struct to a struct.  A step of Next   *)
(* is one input (a message, a timeout, a proposal) and the HandleRaftReady *)
(* that follows it: a crash between the two loses the input and nothing    *)
(* else, which is the same as the input never arriving.                    *)
(*                                                                         *)
(* net is a set: a message is delivered at most once, in any order, or     *)
(* never, and a copy of a message that is still in flight is lost.  Fields *)
(* that no handler reads (the term of an append response or of a commit    *)
(* notice) are left out of the messages.                                   *)
(***************************************************************************)
EXTENDS Integers, SequencesExt

CONSTANTS
    Server,             \* peer ids
    None,               \* id 0
    Value,              \* payloads of client commands
    RaftInitLogIndex,   \* 5: the log of a bootstrapped Region starts after it
    RaftInitLogTerm,    \* 5
    Bound               \* budgets: the number of peers at first, and how often each kind
                        \*   of input may happen together

ASSUME RaftAssumption ==
    /\ None \notin Server
    /\ RaftInitLogIndex \in Nat /\ RaftInitLogTerm \in Nat \ {0}

VARIABLES
    raft,       \* peer -> its Raft struct
    disk,       \* peer -> what its PeerStorage has written
    net,        \* the messages in flight
    boot,       \* the peers of the bootstrapped Region (never changes)
    used,       \* kind of input -> how often it happened (for Bound only)
    panicked,   \* peers whose process died of a Go panic
    voted,      \* history: <<term, voter, candidate>> of every vote granted
    leaders,    \* history: <<term, peer>> of every election won
    regressed,  \* history: some peer's Term went down
    lost,       \* history: a restart lost part of a peer's log
    appliedAt   \* history: <<index, entry>> of every entry applied

vars == <<raft, disk, net, boot, used, panicked, voted, leaders, regressed, lost, appliedAt>>

Kinds == {"campaign", "heartbeat", "propose", "conf", "compact", "transfer", "restart"}
NoSnap == [Index |-> 0, Term |-> 0, Nodes |-> {}, ConfVer |-> 0]

max(a, b) == IF a > b THEN a ELSE b
min(a, b) == IF a < b THEN a ELSE b

-----------------------------------------------------------------------------
\* RaftLog

LastIndex(r) == r.lastIdxOfSnapshot + Len(r.entries)

\* RaftLog.Term, for an index that is not beyond the log.
TermAt(r, idx) ==
    IF idx <= r.lastIdxOfSnapshot THEN r.lastTermOfSnapshot
    ELSE r.entries[idx - r.lastIdxOfSnapshot].Term

\* The entries lo..hi of the log, as a sequence.
Slice(r, lo, hi) ==
    SubSeq(r.entries, lo - r.lastIdxOfSnapshot, hi - r.lastIdxOfSnapshot)

unstableEntries(r) == Slice(r, max(r.stabled, r.lastIdxOfSnapshot) + 1, LastIndex(r))

nextEnts(r) == Slice(r, max(r.applied, r.lastIdxOfSnapshot) + 1, r.committed)

Panic(r) == [r EXCEPT !.panic = TRUE]

SendEach(r, ms) == [r EXCEPT !.msgs = @ \cup ms]

Send(r, m) == SendEach(r, {m})

Others(r) == r.peers \ {r.id}

-----------------------------------------------------------------------------
\* Sending entries and snapshots

needSnapshot(r, nextIdx) == nextIdx <= r.lastIdxOfSnapshot

\* PeerStorage.validateSnap: a snapshot older than the truncated log or than the
\* configuration is of no use.
validateSnap(r) ==
    /\ r.snap.Index >= r.lastIdxOfSnapshot
    /\ r.snap.ConfVer >= r.confVer

\* PeerStorage.Snapshot: a snapshot that the region worker has finished is taken
\* and sent; otherwise one is requested, and the caller gives up for now.
sendSnapshot(r, to) ==
    IF r.snapState = "Generated" /\ validateSnap(r)
    THEN LET snap == r.snap
         IN  Send([r EXCEPT !.snapState = "Relax", !.snap = NoSnap,
                            !.Prs[to].Next = snap.Index + 1],
                  [type |-> "Snapshot", from |-> r.id, to |-> to, Term |-> r.Term,
                   Snapshot |-> snap])
    ELSE [r EXCEPT !.snapState = "Generating", !.snap = NoSnap]

\* The append message for a peer: none if its Next is already past the log.
appendMsgs(r, to) ==
    LET nextIdx == r.Prs[to].Next
    IN  IF nextIdx > LastIndex(r) THEN {}
        ELSE {[type |-> "Append", from |-> r.id, to |-> to, Term |-> r.Term,
               LogTerm |-> TermAt(r, nextIdx - 1), Index |-> nextIdx - 1,
               Entries |-> Slice(r, nextIdx, LastIndex(r)), Commit |-> r.committed]}

sendAppend(r, to) ==
    IF needSnapshot(r, r.Prs[to].Next) THEN sendSnapshot(r, to)
    ELSE SendEach(r, appendMsgs(r, to))

broadCastAE(r) ==
    LET behind == {to \in Others(r) : needSnapshot(r, r.Prs[to].Next)}
        a == SendEach(r, UNION {appendMsgs(r, to) : to \in Others(r) \ behind})
    IN  FoldSet(LAMBDA to, acc : sendSnapshot(acc, to), a, behind)

\* Proposing one entry.  A conf change is skipped while another one is pending.
\* A leader that is no longer in Prs dereferences nil.
handleMsgPropose(r, type, data) ==
    LET conf == type = "conf"
        skip == conf /\ r.PendingConfIndex # 0
        ent  == [Term |-> r.Term, Type |-> type, Data |-> data]
        last == LastIndex(r) + 1
        a    == IF skip THEN r
                ELSE [r EXCEPT !.entries = Append(@, ent),
                               !.PendingConfIndex = IF conf THEN last ELSE @]
    IN  IF r.id \notin DOMAIN r.Prs THEN Panic(a)
        ELSE [a EXCEPT !.Prs[r.id] = [Match |-> LastIndex(a), Next |-> LastIndex(a) + 1],
                       !.committed = IF Cardinality(r.peers) = 1 THEN LastIndex(a) ELSE @]

-----------------------------------------------------------------------------
\* Roles

becomeFollower(r, term, lead) ==
    [r EXCEPT !.Term = term, !.Lead = lead, !.State = "Follower", !.Vote = None]

\* Prs and PendingConfIndex are kept as they were.
becomeLeader(r) ==
    broadCastAE(handleMsgPropose(
        [r EXCEPT !.State = "Leader", !.leadTransferee = None, !.Lead = r.id],
        "noop", <<>>))

becomeCandidate(r) ==
    LET c == [r EXCEPT !.Term = @ + 1, !.VoteReceived = 1, !.VoteTotal = 1,
                       !.Vote = r.id, !.State = "Candidate"]
    IN  IF Cardinality(r.peers) = 1 THEN becomeLeader(c) ELSE c

requestVotes(r) ==
    SendEach(r, {[type |-> "RequestVote", from |-> r.id, to |-> p, Term |-> r.Term,
                  LogTerm |-> TermAt(r, LastIndex(r)), Index |-> LastIndex(r)] : p \in Others(r)})

\* MsgHup, an election timeout, and what TimeoutNow and a misdirected transfer
\* come down to.
campaign(r) == requestVotes(becomeCandidate(r))

sendHeartbeats(r) ==
    SendEach(r, {[type |-> "Heartbeat", from |-> r.id, to |-> p, Term |-> r.Term]
                    : p \in Others(r)})

-----------------------------------------------------------------------------
\* Votes

\* A follower votes again for the candidate it has voted for; anybody votes in a
\* term higher than its own.
mayVote(r, m) ==
    \/ r.Term = m.Term /\ r.State = "Follower" /\ r.Vote \in {None, m.from}
    \/ m.Term > r.Term

SameTermWillDo(r, m) ==     \* mutant: the length of the log is not looked at
    m.LogTerm >= TermAt(r, LastIndex(r))

upToDate(r, m) ==
    LET lastTerm == TermAt(r, LastIndex(r))
    IN  m.LogTerm > lastTerm \/ (m.LogTerm = lastTerm /\ m.Index >= LastIndex(r))

handleVoteRequest(r, m) ==
    LET grant == mayVote(r, m) /\ upToDate(r, m)
        f == IF mayVote(r, m) THEN becomeFollower(r, m.Term, None) ELSE r
        v == IF grant THEN [f EXCEPT !.Vote = m.from] ELSE f
    IN  Send(v, [type |-> "RequestVoteResponse", from |-> r.id, to |-> m.from,
                 Term |-> v.Term, Reject |-> ~grant])

\* Votes are counted, not collected: VoteTotal answers, VoteReceived grants.
countVote(r, m) ==
    [r EXCEPT !.VoteTotal = @ + 1, !.VoteReceived = IF m.Reject THEN @ ELSE @ + 1]

handleVoteResponse(r, m) ==
    LET c == countVote(r, m)
    IN  IF m.Term > r.Term THEN becomeFollower(r, m.Term, None)
        ELSE IF m.Term < r.Term THEN r
        ELSE IF ~m.Reject /\ c.VoteReceived > Cardinality(r.peers) \div 2 THEN becomeLeader(c)
        ELSE IF c.VoteTotal = Cardinality(r.peers) THEN becomeFollower(c, r.Term, None)
        ELSE c

-----------------------------------------------------------------------------
\* Replication, follower side

\* The entry before the new ones is in the log (or is the snapshot's last one).
prevMatches(r, m) ==
    LET n == m.Index - r.lastIdxOfSnapshot
    IN  \/ n = 0 /\ m.LogTerm = r.lastTermOfSnapshot
        \/ n \in 1 .. Len(r.entries) /\ r.entries[n].Term = m.LogTerm

\* The hint of a rejection.  The code takes the larger of a logical index (the
\* snapshot's) and a position in the slice, so the conflict term is the
\* snapshot's unless the position is beyond the snapshot's index.
conflict(r, m) ==
    LET snap == r.lastIdxOfSnapshot
        pos  == IF m.Index <= snap THEN -1 ELSE m.Index - snap - 1
        term == IF pos > snap THEN r.entries[pos + 1].Term ELSE r.lastTermOfSnapshot
        same == {n \in 1 .. Len(r.entries) : r.entries[n].Term = term}
    IN  IF m.Index > LastIndex(r) THEN [Index |-> LastIndex(r), ConflictTerm |-> 0]
        ELSE IF r.entries = <<>> THEN [Index |-> 0, ConflictTerm |-> r.lastTermOfSnapshot]
        ELSE [Index |-> IF same = {} THEN 0 ELSE snap + Min(same) - 1, ConflictTerm |-> term]

KeepStabled(r, m, mismatch) == r.stabled    \* mutant: replaced entries count as written

\* Entries that replace others have to be written again.
stabledAfter(r, m, mismatch) ==
    IF mismatch = {} THEN r.stabled ELSE min(r.stabled, m.Index + Min(mismatch) - 1)

KeepOneMore(r, n) == SubSeq(r.entries, 1, min(n + 1, Len(r.entries)))   \* mutant: off by one

\* What an append leaves alone.
kept(r, n) == SubSeq(r.entries, 1, n)

\* The log after an accepted append: the new entries replace everything after
\* m.Index, unless they are a proper prefix of what is already there.
appendNew(r, m) ==
    LET n        == m.Index - r.lastIdxOfSnapshot
        dropped  == SubSeq(r.entries, n + 1, Len(r.entries))
        mismatch == {j \in 1 .. min(Len(dropped), Len(m.Entries)) :
                        dropped[j].Term # m.Entries[j].Term}
        subset   == Len(dropped) > Len(m.Entries) /\ mismatch = {}
    IN  [r EXCEPT !.entries = kept(r, n) \o (IF subset THEN dropped ELSE m.Entries),
                  !.stabled = stabledAfter(r, m, mismatch)]

handleAppendEntries(r, m) ==
    LET f == IF r.State = "Follower" THEN [r EXCEPT !.Term = m.Term, !.Lead = m.from]
             ELSE becomeFollower(r, m.Term, m.from)
        a == appendNew(f, m)
        c == [a EXCEPT !.committed =
                max(@, min(m.Commit, m.Index + Len(m.Entries)))]
        reply(rej, idx, ct) ==
            [type |-> "AppendResponse", from |-> r.id, to |-> m.from,
             Reject |-> rej, Index |-> idx, ConflictTerm |-> ct]
        hint == conflict(f, m)
    IN  IF m.Term < r.Term THEN Send(r, reply(TRUE, 0, 0))
        ELSE IF ~prevMatches(f, m) THEN Send(f, reply(TRUE, hint.Index, hint.ConflictTerm))
        ELSE IF m.Commit > r.committed /\ c.committed > LastIndex(c) THEN Panic(c)
        ELSE Send(c, reply(FALSE, LastIndex(c), 0))


\* An append with CommitUse set: the leader announces a commit index, and the
\* receiver believes it whatever the terms are.
handleCommitUse(r, m) ==
    IF m.Commit > LastIndex(r) THEN Panic(r)
    ELSE [r EXCEPT !.committed = max(@, m.Commit)]

handleHeartbeat(r, m) ==
    LET resp(rej, term, idx) ==
            [type |-> "HeartbeatResponse", from |-> r.id, to |-> m.from,
             Reject |-> rej, Term |-> term, Index |-> idx]
    IN  IF m.Term < r.Term THEN Send(r, resp(TRUE, r.Term, 0))
        ELSE Send(becomeFollower(r, m.Term, m.from), resp(FALSE, 0, LastIndex(r)))

\* A snapshot that reaches past the log replaces it, whatever its term is.
handleSnapshot(r, m) ==
    LET s == m.Snapshot
        f == becomeFollower(
                [r EXCEPT !.lastIdxOfSnapshot = s.Index, !.lastTermOfSnapshot = s.Term,
                          !.committed = s.Index, !.applied = s.Index, !.stabled = s.Index,
                          !.pendingSnapshot = s, !.entries = <<>>, !.peers = s.Nodes,
                          !.Prs = [p \in s.Nodes |-> [Match |-> s.Index, Next |-> s.Index + 1]]
                                    @@ r.Prs],
                m.Term, m.from)
    IN  IF s.Index <= LastIndex(r) THEN r
        ELSE Send(f, [type |-> "AppendResponse", from |-> r.id, to |-> m.from,
                      Reject |-> FALSE, Index |-> s.Index, ConflictTerm |-> 0])

-----------------------------------------------------------------------------
\* Replication, leader side

TimeoutNow(r, to) == [type |-> "TimeoutNow", from |-> r.id, to |-> to]

CommitUse(r, to, idx) ==
    [type |-> "CommitUse", from |-> r.id, to |-> to, Commit |-> idx]

NoNotice(r, m) == {}        \* mutant: a peer that lags behind is not told

\* A peer that acknowledges what is committed already learns that it is.
lateNotice(r, m) == {CommitUse(r, m.from, m.Index)}

AnnounceAll(r, m) == LastIndex(r)   \* mutant: also what the peer may not have

\* The commit index announced to the peers that were counted.
announced(r, m) == m.Index

\* An acknowledgement beyond Match: the leader itself and the sender are counted
\* without a look at the configuration.
acknowledged(r, m) ==
    LET a     == [r EXCEPT !.Prs[m.from] = [Match |-> m.Index, Next |-> m.Index + 1]]
        t     == IF m.from = r.leadTransferee /\ m.Index = LastIndex(r)
                 THEN Send(a, TimeoutNow(r, m.from)) ELSE a
        peers == {p \in r.peers \ {m.from, r.id} : r.Prs[p].Match >= m.Index}
    IN  IF m.Index <= r.committed THEN SendEach(t, lateNotice(r, m))
        ELSE IF m.Index > LastIndex(r) THEN Panic(t)
        ELSE IF TermAt(r, m.Index) < r.Term THEN t
        ELSE IF 2 + Cardinality(peers) > Cardinality(r.peers) \div 2
        THEN SendEach([t EXCEPT !.committed = m.Index],
                      {CommitUse(r, p, announced(r, m)) : p \in peers \cup {m.from}})
        ELSE t

\* Next after a rejection: behind the last entry of the conflict term if the
\* leader has one before its first entry of a higher term, else the hint.
nextAfterConflict(r, m) ==
    LET n     == Len(r.entries)
        above == {j \in 1 .. n : r.entries[j].Term > m.ConflictTerm}
        upto  == IF above = {} THEN n ELSE Min(above)
        same  == {j \in 1 .. upto : r.entries[j].Term = m.ConflictTerm}
    IN  IF m.ConflictTerm = 0 THEN max(m.Index, r.Prs[m.from].Match) + 1
        ELSE IF same = {} THEN m.Index + 1
        ELSE r.lastIdxOfSnapshot + Max(same) + 1

handleMsgAppendResponse(r, m) ==
    IF m.Reject
    THEN sendAppend([r EXCEPT !.Prs[m.from].Next = nextAfterConflict(r, m)], m.from)
    ELSE IF m.Index <= r.Prs[m.from].Match THEN r
    ELSE acknowledged(r, m)

\* The term of a rejection is taken over whether it is higher or not.
handleHeartbeatResponse(r, m) ==
    IF m.Reject THEN becomeFollower(r, m.Term, None)
    ELSE IF m.Index = 0 THEN sendSnapshot(r, m.from)
    ELSE IF m.Index < LastIndex(r) THEN sendAppend(r, m.from)
    ELSE r

-----------------------------------------------------------------------------
\* Leadership transfer

HasCommitted(r, to) == r.Prs[to].Match >= r.committed   \* mutant: the tail may be missing

caughtUp(r, to) == r.Prs[to].Match = LastIndex(r)

\* RawNode.TransferLeader.  A peer that is not the leader but knows one starts an
\* election of its own.
handleLeaderTransfer(r, transferee) ==
    IF r.State # "Leader" THEN IF r.Lead # None THEN campaign(r) ELSE r
    ELSE IF transferee \notin Others(r) \/ transferee = r.leadTransferee THEN r
    ELSE LET t == [r EXCEPT !.leadTransferee = transferee]
         IN  IF caughtUp(r, transferee)
             THEN Send(t, TimeoutNow(r, transferee))
             ELSE sendAppend(t, transferee)

handleMsgTimeOut(r) ==
    IF r.State = "Candidate" \/ r.id \notin r.peers THEN r ELSE campaign(r)

-----------------------------------------------------------------------------
\* Membership

AddIfPending(r, id) ==      \* mutant: only the peer that proposed the change makes it
    IF r.PendingConfIndex = 0 THEN r
    ELSE [r EXCEPT !.PendingConfIndex = 0, !.peers = @ \cup {id},
                   !.Prs = (id :> [Match |-> 0, Next |-> LastIndex(r)]) @@ @]

addNode(r, id) ==
    LET p == [r EXCEPT !.PendingConfIndex = 0]
    IN  IF id \in r.peers THEN p
        ELSE [p EXCEPT !.peers = @ \cup {id},
                       !.Prs = (id :> [Match |-> 0, Next |-> LastIndex(r)]) @@ @]

\* The leader counts again under the smaller configuration.
removeNode(r, id) ==
    LET q   == [r EXCEPT !.peers = @ \ {id}, !.Prs = Restrict(@, DOMAIN @ \ {id})]
        new == {idx \in r.committed + 1 .. LastIndex(r) :
                    /\ TermAt(r, idx) = r.Term
                    /\ Cardinality({p \in q.peers : q.Prs[p].Match >= idx})
                            > Cardinality(q.peers) \div 2}
        c   == IF r.State = "Leader" /\ new # {}
               THEN broadCastAE([q EXCEPT !.committed = Max(new)]) ELSE q
    IN  IF id \notin r.peers THEN r ELSE [c EXCEPT !.PendingConfIndex = 0]

-----------------------------------------------------------------------------
\* The storage of a peer: what SaveReadyState and HandleCommitEnts write.
\*   Term, Vote, Commit, LastIndex   RaftLocalState
\*   ents                            index -> entry, in the raft engine
\*   TruncIdx, TruncTerm, AppliedIndex   RaftApplyState
\*   Peers, ConfVer                  the Region

\* ApplySnapshot: the log goes, up to the last index that the storage knows of
\* (ClearMeta).
ApplySnapshot(d, s, last) ==
    [d EXCEPT !.TruncIdx = s.Index, !.TruncTerm = s.Term, !.AppliedIndex = s.Index,
              !.Peers = s.Nodes, !.ConfVer = s.ConfVer,
              !.ents = Restrict(@, {j \in DOMAIN @ : j > last})]

\* PeerStorage.Append overwrites entry by entry; what was stored behind the new
\* last entry stays there.
AppendEnts(d, r) ==
    IF r.stabled >= LastIndex(r) THEN d
    ELSE [d EXCEPT !.ents = [j \in max(r.stabled, r.lastIdxOfSnapshot) + 1 .. LastIndex(r) |->
                                r.entries[j - r.lastIdxOfSnapshot]] @@ @]


SaveWithoutVote(d, r) ==    \* mutant: Vote is not written with it
    [d EXCEPT !.Term = r.Term, !.Commit = r.committed, !.LastIndex = LastIndex(r)]

\* RaftLocalState, LastIndex included, is written only when the HardState changed.
SaveHardState(d, r) ==
    IF <<d.Term, d.Vote, d.Commit>> = <<r.Term, r.Vote, r.committed>> THEN d
    ELSE [d EXCEPT !.Term = r.Term, !.Vote = r.Vote, !.Commit = r.committed,
                   !.LastIndex = LastIndex(r)]

SaveReadyState(d, r, last) ==
    LET s == IF r.pendingSnapshot = NoSnap THEN d ELSE ApplySnapshot(d, r.pendingSnapshot, last)
    IN  SaveHardState(AppendEnts(s, r), r)

\* One committed entry; a is the peer and its storage.
ApplyCompact(a, idx, term) ==
    IF idx <= a.d.TruncIdx THEN a
    ELSE [a EXCEPT !.d.TruncIdx = idx, !.d.TruncTerm = term,
                   !.d.ents = Restrict(@, {j \in DOMAIN @ : j > idx})]

\* A conf change proposed under another configuration is skipped, and so is the
\* addition of a peer that is there already; the removal of the peer itself
\* destroys it.
ApplyConf(a, op, id, ver) ==
    LET isPeer == id \in a.d.Peers
        bump(q) == [q EXCEPT !.d.ConfVer = @ + 1, !.r.confVer = @ + 1]
    IN  IF ver # a.d.ConfVer \/ (op = "add" /\ isPeer) THEN a
        ELSE IF op = "add"
        THEN bump([a EXCEPT !.d.Peers = @ \cup {id}, !.r = addNode(@, id)])
        ELSE IF isPeer /\ id = a.r.id THEN [a EXCEPT !.r.stopped = TRUE]
        ELSE IF isPeer
        THEN bump([a EXCEPT !.d.Peers = @ \ {id}, !.r = removeNode(@, id)])
        ELSE [a EXCEPT !.r = removeNode(@, id)]

applyEntry(a, e) ==
    IF a.r.stopped THEN a
    ELSE CASE e.Type = "compact" -> ApplyCompact(a, e.Data[1], e.Data[2])
           [] e.Type = "conf"    -> ApplyConf(a, e.Data[1], e.Data[2], e.Data[3])
           [] OTHER              -> a

HandleCommitEnts(a, ents) ==
    LET b == FoldLeft(applyEntry, a, ents)
    IN  IF ents = <<>> THEN a
        ELSE IF b.r.stopped THEN b
        ELSE [b EXCEPT !.d.AppliedIndex = a.r.committed]

OldTerm(r, d) == r.lastTermOfSnapshot   \* mutant: the term of the cut is not updated

cutTerm(r, d) == TermAt(r, d.TruncIdx)

maybeCompact(r, d) ==
    IF r.lastIdxOfSnapshot >= d.TruncIdx THEN r
    ELSE IF d.TruncIdx >= LastIndex(r) THEN Panic(r)
    ELSE [r EXCEPT !.lastTermOfSnapshot = cutTerm(r, d),
                   !.entries = Slice(r, d.TruncIdx + 1, LastIndex(r)),
                   !.lastIdxOfSnapshot = d.TruncIdx]

\* realIdx in hasNextEnts and unstableEntries panics on an index beyond the log.
readyPanics(r) == max(r.stabled, r.committed) > LastIndex(r)

\* RawNode.Ready, SaveReadyState, HandleCommitEnts and RawNode.Advance: the peer
\* and the storage after them.  The messages in r.msgs have been sent.  last is
\* where the log ended when it was last saved (ps.raftState.LastIndex).
HandleRaftReady(r, d, last) ==
    LET taken == [r EXCEPT !.msgs = {}, !.pendingSnapshot = NoSnap,
                           !.confVer = IF r.pendingSnapshot = NoSnap THEN @
                                       ELSE r.pendingSnapshot.ConfVer]
        a == HandleCommitEnts([r |-> taken, d |-> SaveReadyState(d, r, last)], nextEnts(r))
        b == [a.r EXCEPT !.stabled = IF unstableEntries(r) = <<>> THEN @ ELSE LastIndex(r),
                         !.applied = IF nextEnts(r) = <<>> THEN @ ELSE r.committed]
    IN  IF r.panic \/ readyPanics(r) THEN [r |-> Panic(r), d |-> d]
        ELSE [r |-> maybeCompact(b, a.d), d |-> a.d]

\* newRaft and newLog over what NewPeerStorage finds on disk.
newRaft(i, d) ==
    [id |-> i, Term |-> d.Term, Vote |-> d.Vote, VoteTotal |-> 0, VoteReceived |-> 0,
     State |-> "Follower", Lead |-> None, leadTransferee |-> None, PendingConfIndex |-> 0,
     peers |-> d.Peers, confVer |-> d.ConfVer,
     Prs |-> [p \in d.Peers |-> [Match |-> d.TruncIdx, Next |-> d.LastIndex + 1]],
     entries |-> [n \in 1 .. d.LastIndex - d.TruncIdx |-> d.ents[d.TruncIdx + n]],
     committed |-> d.Commit, applied |-> max(d.AppliedIndex, d.TruncIdx),
     stabled |-> d.LastIndex, lastIdxOfSnapshot |-> d.TruncIdx,
     lastTermOfSnapshot |-> d.TruncTerm, pendingSnapshot |-> NoSnap,
     snapState |-> "Relax", snap |-> NoSnap, msgs |-> {},
     stopped |-> FALSE, panic |-> FALSE]

\* What NewPeerStorage and newLog insist on; they panic otherwise.
CanRestart(d) ==
    /\ d.LastIndex >= d.AppliedIndex
    /\ d.TruncIdx + 1 .. d.LastIndex \subseteq DOMAIN d.ents

-----------------------------------------------------------------------------
\* The system

\* A replica of the bootstrapped Region, or an empty one that waits for its first
\* message (InitRaftLocalState and InitApplyState).
initDisk(i) ==
    LET in   == i \in boot
        idx  == IF in THEN RaftInitLogIndex ELSE 0
        term == IF in THEN RaftInitLogTerm ELSE 0
    IN  [Term |-> term, Vote |-> None, Commit |-> idx, LastIndex |-> idx, ents |-> <<>>,
         TruncIdx |-> idx, TruncTerm |-> term, AppliedIndex |-> idx,
         Peers |-> IF in THEN boot ELSE {}, ConfVer |-> IF in THEN 1 ELSE 0]

Init ==
    /\ boot \in {P \in SUBSET Server : \E b \in Bound : Cardinality(P) = b.peers}
    /\ disk = [i \in Server |-> initDisk(i)]
    /\ raft = [i \in Server |-> newRaft(i, disk[i])]
    /\ net = {}
    /\ used = [k \in Kinds |-> 0]
    /\ panicked = {}
    /\ voted = {} /\ leaders = {} /\ regressed = FALSE /\ lost = FALSE /\ appliedAt = {}

Alive(i) == i \notin panicked /\ ~raft[i].stopped

\* maybeCreatePeer: a store creates the replica of a Region it does not have when
\* a vote request or a heartbeat arrives; its term is no longer 0 then.
Created(i) == raft[i].Term > 0

\* One more input of a kind, within one of the budgets.
Count(kind) ==
    /\ used' = [used EXCEPT ![kind] = @ + 1]
    /\ \E b \in Bound : /\ b.peers = Cardinality(boot)
                        /\ \A k \in Kinds : used'[k] <= b[k]

\* The votes that a step of peer i casts: its own as a candidate, and its answers.
VotesCast(i, r) ==
    {<<m.Term, i, m.to>> : m \in {x \in r.msgs :
                                    x.type = "RequestVoteResponse" /\ ~x.Reject}}
    \cup (IF r.State # "Follower" THEN {<<r.Term, i, i>>} ELSE {})

\* The handler has turned raft[i] into r; HandleRaftReady follows.  rest is what
\* remains of the network once the handled message is taken out of it.
Perform(i, after, rest) ==
    \E r \in {after} : \E rd \in {HandleRaftReady(r, disk[i], LastIndex(raft[i]))} :
        LET dead == rd.r.panic IN
        /\ panicked' = IF dead THEN panicked \cup {i} ELSE panicked
        /\ raft' = IF dead THEN raft ELSE [raft EXCEPT ![i] = rd.r]
        /\ disk' = IF dead THEN disk ELSE [disk EXCEPT ![i] = rd.d]
        /\ net' = IF dead THEN rest ELSE rest \cup r.msgs
        /\ voted' = IF dead THEN voted ELSE voted \cup VotesCast(i, r)
        /\ leaders' = IF dead \/ r.State # "Leader" THEN leaders
                      ELSE leaders \cup {<<r.Term, i>>}
        /\ regressed' = (regressed \/ (~dead /\ r.Term < raft[i].Term))
        /\ appliedAt' = IF dead THEN appliedAt
                        ELSE appliedAt \cup
                            {<<r.committed - Len(nextEnts(r)) + n, nextEnts(r)[n]>> :
                                n \in DOMAIN nextEnts(r)}
        /\ UNCHANGED <<boot, lost>>

Input(i, r) == Perform(i, r, net)

\* The election timer of a peer that is not the leader runs out.
Campaign(i) ==
    /\ Alive(i) /\ Created(i) /\ raft[i].State # "Leader"
    /\ Count("campaign")
    /\ Input(i, campaign(raft[i]))

\* The heartbeat timer of a leader runs out.
Heartbeat(i) ==
    /\ Alive(i) /\ raft[i].State = "Leader"
    /\ Count("heartbeat")
    /\ Input(i, sendHeartbeats(raft[i]))

Propose(i, v) ==
    /\ Alive(i) /\ raft[i].State = "Leader"
    /\ Count("propose")
    /\ Input(i, broadCastAE(handleMsgPropose(raft[i], "put", <<v>>)))

\* A ChangePeer command made under the leader's own configuration; the handler
\* drops it while PendingConfIndex is set.
ProposeConfChange(i, op, id) ==
    /\ Alive(i) /\ raft[i].State = "Leader" /\ raft[i].PendingConfIndex = 0
    /\ Count("conf")
    /\ Input(i, broadCastAE(handleMsgPropose(raft[i], "conf", <<op, id, disk[i].ConfVer>>)))

\* onRaftGCLogTick: the leader compacts the log up to the entry before the last
\* applied one.
ProposeCompact(i) ==
    LET idx == disk[i].AppliedIndex - 1
    IN  /\ Alive(i) /\ raft[i].State = "Leader" /\ idx > disk[i].TruncIdx
        /\ Count("compact")
        /\ Input(i, broadCastAE(handleMsgPropose(raft[i], "compact",
                                                 <<idx, TermAt(raft[i], idx)>>)))

TransferLeader(i, transferee) ==
    /\ Alive(i) /\ Created(i)
    /\ Count("transfer")
    /\ Input(i, handleLeaderTransfer(raft[i], transferee))

\* The region worker finishes the snapshot that sendSnapshot asked for.
GenerateSnapshot(i) ==
    LET idx == disk[i].AppliedIndex
    IN  /\ Alive(i) /\ raft[i].snapState = "Generating"
        /\ raft' = [raft EXCEPT ![i].snapState = "Generated",
                                ![i].snap = [Index |-> idx, Term |-> TermAt(raft[i], idx),
                                             Nodes |-> disk[i].Peers, ConfVer |-> disk[i].ConfVer]]
        /\ UNCHANGED <<disk, net, boot, used, panicked, voted, leaders, regressed, lost, appliedAt>>

\* The process dies and starts again from its disk; it dies once more if what it
\* finds there is not what it insists on.
Restart(i) ==
    /\ ~raft[i].stopped
    /\ Count("restart")
    /\ IF CanRestart(disk[i])
       THEN /\ raft' = [raft EXCEPT ![i] = newRaft(i, disk[i])]
            /\ panicked' = panicked \ {i}
            /\ lost' = (lost \/ raft'[i].entries # raft[i].entries)
       ELSE /\ panicked' = panicked \cup {i}
            /\ UNCHANGED <<raft, lost>>
    /\ UNCHANGED <<disk, net, boot, voted, leaders, regressed, appliedAt>>

-----------------------------------------------------------------------------
\* RawNode.Step: one action per message type.  A message that its receiver would
\* ignore in its present role, or from a peer that is not in Prs, stays in net.

Arrived(type) ==
    {m \in net : /\ m.type = type /\ Alive(m.to)
                 /\ Created(m.to) \/ type \in {"RequestVote", "Heartbeat"}}

Response(type, role) ==
    {m \in Arrived(type) : raft[m.to].State = role /\ m.from \in DOMAIN raft[m.to].Prs}

Receive(m, r) == Perform(m.to, r, net \ {m}) /\ UNCHANGED used

ReceiveRequestVote ==
    \E m \in Arrived("RequestVote") : Receive(m, handleVoteRequest(raft[m.to], m))

ReceiveRequestVoteResponse ==
    \E m \in Response("RequestVoteResponse", "Candidate") :
        Receive(m, handleVoteResponse(raft[m.to], m))

ReceiveHeartbeat ==
    \E m \in Arrived("Heartbeat") : Receive(m, handleHeartbeat(raft[m.to], m))

ReceiveHeartbeatResponse ==
    \E m \in Response("HeartbeatResponse", "Leader") :
        Receive(m, handleHeartbeatResponse(raft[m.to], m))

ReceiveAppend ==
    \E m \in Arrived("Append") : Receive(m, handleAppendEntries(raft[m.to], m))

ReceiveCommitUse ==
    \E m \in Arrived("CommitUse") : Receive(m, handleCommitUse(raft[m.to], m))

ReceiveAppendResponse ==
    \E m \in Response("AppendResponse", "Leader") :
        Receive(m, handleMsgAppendResponse(raft[m.to], m))

ReceiveSnapshot ==
    \E m \in Arrived("Snapshot") : Receive(m, handleSnapshot(raft[m.to], m))

ReceiveTimeoutNow ==
    \E m \in Arrived("TimeoutNow") :
        /\ raft[m.to].State # "Leader"
        /\ Receive(m, handleMsgTimeOut(raft[m.to]))

Next ==
    \/ \E i \in Server :
        \/ Campaign(i)
        \/ Heartbeat(i)
        \/ \E v \in Value : Propose(i, v)
        \/ \E op \in {"add", "remove"}, id \in Server : ProposeConfChange(i, op, id)
        \/ ProposeCompact(i)
        \/ \E t \in Server : TransferLeader(i, t)
        \/ GenerateSnapshot(i)
        \/ Restart(i)
    \/ ReceiveRequestVote
    \/ ReceiveRequestVoteResponse
    \/ ReceiveHeartbeat
    \/ ReceiveHeartbeatResponse
    \/ ReceiveAppend
    \/ ReceiveCommitUse
    \/ ReceiveAppendResponse
    \/ ReceiveSnapshot
    \/ ReceiveTimeoutNow

Spec == Init /\ [][Next]_vars

\* The transport delivers what it has accepted, and the raft worker handles it.
FairSpec ==
    /\ Spec
    /\ WF_vars(ReceiveRequestVote) /\ WF_vars(ReceiveRequestVoteResponse)
    /\ WF_vars(ReceiveAppend) /\ WF_vars(ReceiveAppendResponse) /\ WF_vars(ReceiveCommitUse)

-----------------------------------------------------------------------------
Role == {"Follower", "Candidate", "Leader"}

\* The types of the fields, and the order of the indices that log.go:24 draws:
\* "snapshot/first.....applied....committed....stabled.....last".
TypeOK ==
    /\ \A i \in Server : LET r == raft[i] IN
        /\ r.id = i /\ r.State \in Role /\ r.Term \in Nat
        /\ {r.Vote, r.Lead, r.leadTransferee} \subseteq Server \cup {None}
        /\ r.VoteReceived \in 0 .. r.VoteTotal
        /\ r.peers \subseteq Server /\ r.peers \subseteq DOMAIN r.Prs
        /\ \A p \in DOMAIN r.Prs : r.Prs[p].Match \in Nat /\ r.Prs[p].Next \in Nat
        /\ r.lastIdxOfSnapshot <= r.applied /\ r.applied <= r.committed
        /\ r.committed <= r.stabled /\ r.stabled = LastIndex(r)
        /\ r.msgs = {} /\ r.pendingSnapshot = NoSnap /\ ~r.panic
    /\ \A m \in net : m.from \in Server /\ m.to \in Server \ {m.from}

OneLeaderPerTerm == \A e, f \in leaders : e[1] = f[1] => e[2] = f[2]

LedOnce == \A e, f \in leaders : e[2] = f[2] => e[1] = f[1]

VoteOnce == \A v, w \in voted : v[1] = w[1] /\ v[2] = w[2] => v[3] = w[3]

Running == {i \in boot : Alive(i)}

\* If no term ever had two leaders, logs that agree on the term of an index agree
\* on everything up to it: appends that arrive late, twice or after the log has
\* moved on never leave a hole or a foreign entry (handleAppendEntries).
LogMatching ==
    OneLeaderPerTerm => \A i, j \in Running : LET q == raft[i] r == raft[j] IN
        \A idx \in max(q.lastIdxOfSnapshot, r.lastIdxOfSnapshot) + 1
                        .. min(LastIndex(q), LastIndex(r)) :
            TermAt(q, idx) = TermAt(r, idx) =>
                \A k \in max(q.lastIdxOfSnapshot, r.lastIdxOfSnapshot) + 1 .. idx :
                    Slice(q, k, k) = Slice(r, k, k)

\* No vote was given twice, no term went down, no restart lost a log, and nobody led
\* twice: what the replication code needs of the elections and of the storage.  (A
\* peer that leads again still has the Match of its earlier term.)
Orderly == ~regressed /\ ~lost /\ VoteOnce /\ LedOnce

\* HandleCommitEnts never applies two different entries at one index, on any peers.
StateMachineSafety ==
    Orderly => \A a, b \in appliedAt : a[1] = b[1] => a = b

Holds(i, idx, ent) ==
    \/ idx <= disk[i].TruncIdx
    \/ idx \in DOMAIN disk[i].ents /\ disk[i].ents[idx] = ent

\* "committed is the highest log position that is known to be in stable storage on
\* a quorum of nodes" (log.go:34): what a peer takes for committed is written on a
\* majority, and stays there.  The majority is that of the first group, so the
\* property speaks of the behaviours without configuration changes.
CommittedOnQuorum ==
    Orderly /\ used["conf"] = 0 => \A i \in Running : LET r == raft[i] IN
        \A idx \in r.lastIdxOfSnapshot + 1 .. r.committed :
            2 * Cardinality({j \in boot : Holds(j, idx, Slice(r, idx, idx)[1])})
                > Cardinality(boot)

\* The entries a peer works with are the ones it has written: RawNode.Ready hands
\* out everything that an append changed, also when it replaced entries that had
\* been written before (stabled moves back).
DiskHoldsLog ==
    OneLeaderPerTerm => \A i \in Running : LET r == raft[i] IN
        \A idx \in r.lastIdxOfSnapshot + 1 .. LastIndex(r) :
            idx \in DOMAIN disk[i].ents /\ disk[i].ents[idx] = Slice(r, idx, idx)[1]

\* A log is cut off at an entry that was applied, and the term kept for it is the
\* term of that entry, through compaction (maybeCompact), snapshot generation and
\* installation alike: the next append is matched against it.
SnapshotIsApplied ==
    Orderly => \A i \in Running : LET r == raft[i] IN
        r.lastIdxOfSnapshot > RaftInitLogIndex =>
            \E a \in appliedAt : a[1] = r.lastIdxOfSnapshot /\ a[2].Term = r.lastTermOfSnapshot


\* The configuration of the Raft group and the peers of the Region are two copies
\* of one thing, changed by one entry: addNode and removeNode on the one hand, the
\* Region on the other.
PeersMatchRegion ==
    \A i \in Server : Alive(i) =>
        raft[i].peers = disk[i].Peers /\ raft[i].confVer = disk[i].ConfVer

\* A leader asks its transferee to campaign only when the transferee's log is at
\* least as up to date as its own: handleLeaderTransfer and handleMsgAppendResponse
\* compare Match, which must not lie, whoever has become the leader meanwhile.
TransfereeCaughtUp ==
    [][Orderly => \A m \in net' \ net : m.type = "TimeoutNow" =>
            LET to == raft'[m.to]
            IN  upToDate(raft'[m.from],
                         [LogTerm |-> TermAt(to, LastIndex(to)), Index |-> LastIndex(to)])]_vars

\* The "Something wrong" panics and the index panics of realIdx are out of reach.
NoPanic == Orderly => panicked = {}


\* Once there is a leader, everything in its log is committed by every peer in the
\* end, without heartbeats and without retries: a leader tells the commit index to
\* the peers whose acknowledgements it counted, and to the late ones when they
\* answer.
CommitReachesAll ==
    (\E i \in Server : raft[i].State = "Leader") ~>
        (\E i \in Server : /\ raft[i].State = "Leader"
                          /\ \A j \in boot : raft[j].committed = LastIndex(raft[i]))
=============================================================================
