------------------------------- MODULE MCRaft -------------------------------
(***************************************************************************)
(* Bounds for model checking the peers of one Region.  Each run lets a few *)
(* inputs of the kinds it is about happen, at any time and on any peer.    *)
(***************************************************************************)
EXTENDS RaftRefinement, TLC

Bounds(n, hup, beat, put, conf, compact, transfer, restart) ==
    [peers |-> n, campaign |-> hup, heartbeat |-> beat, propose |-> put, conf |-> conf,
     compact |-> compact, transfer |-> transfer, restart |-> restart]

Election2 == Bounds(3, 2, 1, 0, 0, 0, 0, 0)
Restart2  == Bounds(3, 2, 0, 1, 0, 0, 0, 1)
Snapshot1 == Bounds(3, 1, 2, 1, 0, 1, 0, 0)
Transfer2 == Bounds(3, 1, 0, 0, 0, 0, 2, 0)
Conflict2 == Bounds(3, 2, 0, 1, 0, 0, 0, 0)
Conf2     == Bounds(2, 1, 2, 0, 2, 0, 0, 0)

BoundFaults == {Election2, Restart2, Snapshot1, Transfer2}
BoundLogs   == {Conflict2, Conf2}
BoundSteady == {Bounds(3, 1, 0, 1, 0, 0, 0, 0)}

\* The messages that their receivers would handle now.  The others wait in net for
\* a role that may never come back.
Pending ==
    {m \in net : CASE m.type = "RequestVoteResponse" -> raft[m.to].State = "Candidate"
                   [] m.type \in {"AppendResponse", "HeartbeatResponse"} ->
                        raft[m.to].State = "Leader"
                   [] OTHER -> TRUE}

\* Messages of campaigns and leaders that have been superseded.
Newest == Max({raft[i].Term : i \in Server})
Current ==
    {m \in Pending : IF "Term" \in DOMAIN m THEN m.Term = Newest ELSE raft[m.from].Term = Newest}

\* State constraints: how many messages may be under way together; any number of
\* those of the superseded terms when at most two are current, and those of two rival
\* campaigns in one term until one of them is won.
Current2 == Cardinality(Current) <= 2
Current3 == Cardinality(Current) <= 3
Rivals == /\ \A k \in Kinds \ {"campaign"} : used[k] = 0
          /\ \A i \in Server : raft[i].State # "Leader"
FewOrRivals == Current2 \/ (Rivals /\ Cardinality(Current) <= 4)
FewOrStale == Current2 \/ (Current3 /\ Cardinality(Pending) <= 4)

Symmetry == Permutations(Server)
=============================================================================
