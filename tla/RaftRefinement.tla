--------------------------- MODULE RaftRefinement ---------------------------
(***************************************************************************)
(* Raft implements RaftElection, as long as no membership change is        *)
(* proposed: what is proved about elections there holds of the handlers    *)
(* with their logs, storage and messages.                                  *)
(***************************************************************************)
EXTENDS Raft

Of(type) == {m \in net : m.type = type}

Election == INSTANCE RaftElection WITH
    InitTerm <- RaftInitLogTerm,
    MaxTerm <- RaftInitLogTerm + Max({b.campaign + b.transfer : b \in Bound}),
    Term <- [i \in Server |-> raft[i].Term],
    Vote <- [i \in Server |-> raft[i].Vote],
    State <- [i \in Server |-> raft[i].State],
    VoteTotal <- [i \in Server |-> raft[i].VoteTotal],
    VoteReceived <- [i \in Server |-> raft[i].VoteReceived],
    requests <- {[from |-> m.from, to |-> m.to, Term |-> m.Term] : m \in Of("RequestVote")},
    responses <- {[from |-> m.from, to |-> m.to, Term |-> m.Term, Reject |-> m.Reject] :
                    m \in Of("RequestVoteResponse")},
    rejects <- {<<m.to, m.Term>> : m \in {x \in Of("HeartbeatResponse") : x.Reject}}

\* Every step of the Raft group is a step of an election, or changes nothing that
\* decides one: handleAppendEntries, handleSnapshot, proposals, compaction, the
\* storage and the worker take part in elections only as RaftElection says.
ImplementsElection == Election!Spec
=============================================================================
