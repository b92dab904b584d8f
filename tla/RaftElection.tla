---------------------------- MODULE RaftElection ----------------------------
(***************************************************************************)
(* What the handlers of raft/raft.go do to the fields that decide who is   *)
(* the leader: Term, Vote, State, VoteTotal and VoteReceived, in a Region   *)
(* whose membership does not change.                                       *)
(*                                                                         *)
(* The log is abstracted away: whether a candidate's log is up to date is  *)
(* a free choice.  The messages of a leader are abstracted to the fact     *)
(* that it was elected: any peer may receive a heartbeat, an append or a   *)
(* snapshot of any election that was won, at any time and any number of    *)
(* times.  Vote messages are kept one by one, because votes are counted.   *)
(* Raft is shown to implement this module (RaftRefinement).                *)
(***************************************************************************)
EXTENDS Integers, FiniteSets

CONSTANTS
    Server,     \* the peers of the Region
    None,       \* id 0
    InitTerm,   \* the term of a bootstrapped Region
    MaxTerm     \* bound on the terms of campaigns

ASSUME ElectionAssumption ==
    /\ IsFiniteSet(Server)
    /\ None \notin Server
    /\ InitTerm \in Nat /\ MaxTerm \in Nat

VARIABLES
    Term, Vote, State, VoteTotal, VoteReceived,     \* fields of the Raft struct
    requests,   \* RequestVote messages in flight
    responses,  \* RequestVoteResponse messages in flight
    rejects,    \* rejections of heartbeats in flight, as <<to, term>>
    voted,      \* history: <<term, voter, candidate>> of every vote granted
    leaders,    \* history: <<term, peer>> of every election won
    regressed   \* history: some peer's Term went down

fields == <<Term, Vote, State, VoteTotal, VoteReceived>>
vars == <<Term, Vote, State, VoteTotal, VoteReceived, requests, responses,
          rejects, voted, leaders, regressed>>

Terms == Nat
Request == [from : Server, to : Server, Term : Terms]
Response == [from : Server, to : Server, Term : Terms, Reject : BOOLEAN]

Init ==
    /\ Term = [i \in Server |-> InitTerm]
    /\ Vote = [i \in Server |-> None]
    /\ State = [i \in Server |-> "Follower"]
    /\ VoteTotal = [i \in Server |-> 0]
    /\ VoteReceived = [i \in Server |-> 0]
    /\ requests = {} /\ responses = {} /\ rejects = {}
    /\ voted = {} /\ leaders = {} /\ regressed = FALSE

-----------------------------------------------------------------------------
SetTerm(i, t) ==
    /\ Term' = [Term EXCEPT ![i] = t]
    /\ regressed' = (regressed \/ t < Term[i])

\* The vote is forgotten, also when the term stays the same.
becomeFollower(i, t) ==
    /\ SetTerm(i, t)
    /\ Vote' = [Vote EXCEPT ![i] = None]
    /\ State' = [State EXCEPT ![i] = "Follower"]

\* tick, MsgHup, MsgTimeoutNow and a transfer sent to a follower: becomeCandidate
\* and requestVotes.  The only peer of a Region is its leader at once.
Campaign(i) ==
    LET t == Term[i] + 1
        alone == Cardinality(Server) = 1
    IN  /\ State[i] # "Leader" /\ t <= MaxTerm
        /\ SetTerm(i, t)
        /\ Vote' = [Vote EXCEPT ![i] = i]
        /\ VoteTotal' = [VoteTotal EXCEPT ![i] = 1]
        /\ VoteReceived' = [VoteReceived EXCEPT ![i] = 1]
        /\ State' = [State EXCEPT ![i] = IF alone THEN "Leader" ELSE "Candidate"]
        /\ requests' = requests \cup {[from |-> i, to |-> p, Term |-> t] : p \in Server \ {i}}
        /\ voted' = voted \cup {<<t, i, i>>}
        /\ leaders' = IF alone THEN leaders \cup {<<t, i>>} ELSE leaders
        /\ UNCHANGED <<responses, rejects>>

\* A request is delivered once.  (Once a term has regressed there may be a second
\* one that differs only in the log it advertises, which is not modelled.)
TakeRequest(m) == requests' \in {requests \ {m}} \cup (IF regressed THEN {requests} ELSE {})

mayVote(j, m) ==
    \/ Term[j] = m.Term /\ State[j] = "Follower" /\ Vote[j] \in {None, m.from}
    \/ m.Term > Term[j]

\* handleVoteRequest where the candidate may have the vote; whether its log is up
\* to date decides.
GrantVote(m) ==
    LET j == m.to
    IN  /\ mayVote(j, m)
        /\ SetTerm(j, m.Term)
        /\ Vote' = [Vote EXCEPT ![j] = m.from]
        /\ State' = [State EXCEPT ![j] = "Follower"]
        /\ responses' = responses \cup
                {[from |-> j, to |-> m.from, Term |-> m.Term, Reject |-> FALSE]}
        /\ voted' = voted \cup {<<m.Term, j, m.from>>}
        /\ TakeRequest(m)
        /\ UNCHANGED <<VoteTotal, VoteReceived, rejects, leaders>>

DenyStaleLog(m) ==
    LET j == m.to
    IN  /\ mayVote(j, m)
        /\ becomeFollower(j, m.Term)
        /\ responses' = responses \cup
                {[from |-> j, to |-> m.from, Term |-> m.Term, Reject |-> TRUE]}
        /\ TakeRequest(m)
        /\ UNCHANGED <<VoteTotal, VoteReceived, rejects, voted, leaders>>

DenyVote(m) ==
    LET j == m.to
    IN  /\ ~mayVote(j, m)
        /\ responses' = responses \cup
                {[from |-> j, to |-> m.from, Term |-> Term[j], Reject |-> TRUE]}
        /\ TakeRequest(m)
        /\ UNCHANGED <<fields, rejects, voted, leaders, regressed>>

\* handleVoteResponse: a candidate counts the answers of its own term.
isMajority(n) == n > Cardinality(Server) \div 2

CountsStale(i, m) == m.Term <= Term[i]

counts(i, m) == m.Term = Term[i]

CountVote(m) ==
    LET i == m.to
        total == VoteTotal[i] + 1
        got   == IF m.Reject THEN VoteReceived[i] ELSE VoteReceived[i] + 1
        won   == ~m.Reject /\ isMajority(got)
        lost  == ~won /\ total = Cardinality(Server)
    IN  /\ State[i] = "Candidate" /\ counts(i, m)
        /\ VoteTotal' = [VoteTotal EXCEPT ![i] = total]
        /\ VoteReceived' = [VoteReceived EXCEPT ![i] = got]
        /\ State' = [State EXCEPT ![i] = IF won THEN "Leader"
                                         ELSE IF lost THEN "Follower" ELSE "Candidate"]
        /\ Vote' = [Vote EXCEPT ![i] = IF lost THEN None ELSE @]
        /\ leaders' = IF won THEN leaders \cup {<<Term[i], i>>} ELSE leaders
        /\ responses' = responses \ {m}
        /\ UNCHANGED <<Term, requests, rejects, voted, regressed>>

\* An answer of another term: the candidate gives up if it is a higher one.
OtherVoteResponse(m) ==
    LET i == m.to
    IN  /\ State[i] = "Candidate" /\ ~counts(i, m)
        /\ responses' = responses \ {m}
        /\ \/ m.Term > Term[i] /\ becomeFollower(i, m.Term)
           \/ m.Term < Term[i] /\ UNCHANGED <<Term, Vote, State, regressed>>
        /\ UNCHANGED <<VoteTotal, VoteReceived, requests, rejects, voted, leaders>>

\* handleHeartbeat, for the leader l of term t.
Heartbeat(i, t, l) ==
    /\ <<t, l>> \in leaders
    /\ \/ t >= Term[i] /\ becomeFollower(i, t) /\ UNCHANGED rejects
       \/ /\ t < Term[i]
          /\ rejects' = rejects \cup {<<l, Term[i]>>}
          /\ UNCHANGED <<Term, Vote, State, regressed>>
    /\ UNCHANGED <<VoteTotal, VoteReceived, requests, responses, voted, leaders>>

\* handleAppendEntries: a follower moves to the new term with its old vote.
AppendEntries(i, t, l) ==
    /\ <<t, l>> \in leaders
    /\ t >= Term[i]
    /\ \/ State[i] = "Follower" /\ SetTerm(i, t) /\ UNCHANGED <<Vote, State>>
       \/ State[i] # "Follower" /\ becomeFollower(i, t)
    /\ UNCHANGED <<VoteTotal, VoteReceived, requests, responses, rejects, voted, leaders>>

\* handleSnapshot, when the snapshot reaches past the log: its term is taken over
\* whether it is higher or not.
InstallSnapshot(i, t, l) ==
    /\ <<t, l>> \in leaders
    /\ becomeFollower(i, t)
    /\ UNCHANGED <<VoteTotal, VoteReceived, requests, responses, rejects, voted, leaders>>

\* handleHeartbeatResponse of a rejection: so is the term of the rejection.
StepDown(i, t) ==
    /\ State[i] = "Leader" /\ <<i, t>> \in rejects
    /\ becomeFollower(i, t)
    /\ rejects' \in {rejects, rejects \ {<<i, t>>}}     \* others may say the same
    /\ UNCHANGED <<VoteTotal, VoteReceived, requests, responses, voted, leaders>>

RestartKeepingVotes(i) ==
    /\ State' = [State EXCEPT ![i] = "Follower"]
    /\ VoteTotal' = [VoteTotal EXCEPT ![i] = 0]
    /\ UNCHANGED <<Term, Vote, VoteReceived, requests, responses, rejects, voted, leaders,
                   regressed>>

\* newRaft: Term and Vote come back from the HardState on disk.
Restart(i) ==
    /\ State' = [State EXCEPT ![i] = "Follower"]
    /\ VoteTotal' = [VoteTotal EXCEPT ![i] = 0]
    /\ VoteReceived' = [VoteReceived EXCEPT ![i] = 0]
    /\ UNCHANGED <<Term, Vote, requests, responses, rejects, voted, leaders, regressed>>

Next ==
    \/ \E i \in Server : Campaign(i) \/ Restart(i)
    \/ \E m \in requests : GrantVote(m) \/ DenyStaleLog(m) \/ DenyVote(m)
    \/ \E m \in responses : CountVote(m) \/ OtherVoteResponse(m)
    \/ \E i \in Server, e \in leaders :
        \/ Heartbeat(i, e[1], e[2])
        \/ AppendEntries(i, e[1], e[2])
        \/ InstallSnapshot(i, e[1], e[2])
    \/ \E i \in Server, q \in rejects : q[1] = i /\ StepDown(i, q[2])

Spec == Init /\ [][Next]_vars

-----------------------------------------------------------------------------
Role == {"Follower", "Candidate", "Leader"}

\* The types of the fields, messages and histories.
TypeOK ==
    /\ Term \in [Server -> Nat]
    /\ Vote \in [Server -> Server \cup {None}]
    /\ State \in [Server -> Role]
    /\ VoteTotal \in [Server -> Nat]
    /\ VoteReceived \in [Server -> Nat]
    /\ \A i \in Server : VoteReceived[i] <= VoteTotal[i]
    /\ requests \in SUBSET Request
    /\ responses \in SUBSET Response
    /\ rejects \in SUBSET (Server \X Nat)
    /\ voted \in SUBSET (Nat \X Server \X Server)
    /\ leaders \in SUBSET (Nat \X Server)
    /\ regressed \in BOOLEAN

Voters(t, i) == {j \in Server : <<t, j, i>> \in voted}

\* handleVoteResponse counts answers, not peers; still, as long as no peer's term
\* has gone down, every election won was won with the votes of a majority of
\* distinct peers.  (A candidate that campaigns twice in one term may count the
\* same peer twice.)
ElectedByMajority ==
    ~regressed => \A e \in leaders : 2 * Cardinality(Voters(e[1], e[2])) > Cardinality(Server)

\* A peer grants its vote to one candidate in a term.  becomeFollower breaks this
\* whenever it forgets a vote of the current term.
VoteOnce ==
    \A v, w \in voted : v[1] = w[1] /\ v[2] = w[2] => v[3] = w[3]

\* At most one leader is elected in a term, unless a peer has forgotten a vote of
\* its current term or has gone back to an earlier term: nothing else in the
\* handlers (lost or reordered messages, restarts, stale answers, the counters)
\* can elect two.
ElectionSafety ==
    ~regressed /\ VoteOnce =>
        \A e, f \in leaders : e[1] = f[1] => e[2] = f[2]
=============================================================================
