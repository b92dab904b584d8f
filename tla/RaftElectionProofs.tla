------------------------- MODULE RaftElectionProofs -------------------------
(***************************************************************************)
(* Election safety of raft/raft.go for any number of peers, as far as the  *)
(* code goes: two leaders of one term need a forgotten vote or a term that *)
(* went down.                                                              *)
(*                                                                         *)
(* The argument: votes are counted by incrementing VoteReceived, with no   *)
(* record of who voted.  While no term goes down a peer sends the requests *)
(* of a term once, and a request turns into at most one grant, so the      *)
(* count of a candidate is the size of a set of distinct voters (Tally)    *)
(* none of whom has a request or a grant of that campaign in flight.       *)
(***************************************************************************)
EXTENDS RaftElection, FiniteSetTheorems, TLAPS

RequestOf(i, j, t) == [from |-> i, to |-> j, Term |-> t]
GrantOf(i, j, t) == [from |-> j, to |-> i, Term |-> t, Reject |-> FALSE]

\* A request was sent by a campaign its sender has reached, to another peer.
RequestInv ==
    \A m \in requests : m.Term <= Term[m.from] /\ m.from # m.to

\* A grant in flight was recorded, and the request it answers is gone.
GrantInv ==
    \A m \in responses : ~m.Reject =>
        /\ <<m.Term, m.from, m.to>> \in voted
        /\ m.Term <= Term[m.to]
        /\ m.from # m.to
        /\ RequestOf(m.to, m.from, m.Term) \notin requests

\* Q is the set of the peers whose votes candidate i has counted.
Tally(i, Q) ==
    /\ i \in Q
    /\ Cardinality(Q) = VoteReceived[i]
    /\ \A j \in Q : <<Term[i], j, i>> \in voted
    /\ \A j \in Q : RequestOf(i, j, Term[i]) \notin requests
    /\ \A j \in Q : GrantOf(i, j, Term[i]) \notin responses

TallyInv ==
    \A i \in Server : State[i] = "Candidate" => \E Q \in SUBSET Server : Tally(i, Q)

ElectedInv ==
    \A e \in leaders : 2 * Cardinality(Voters(e[1], e[2])) > Cardinality(Server)

Bookkeeping == RequestInv /\ GrantInv /\ TallyInv /\ ElectedInv

IInv ==
    /\ TypeOK
    /\ ~regressed => Bookkeeping

-----------------------------------------------------------------------------
\* The types are preserved by every step.
LEMMA NextTypeOK == TypeOK /\ [Next]_vars => TypeOK'
<1> SUFFICES ASSUME TypeOK, [Next]_vars PROVE TypeOK'
  BY Zenon
<1> USE ElectionAssumption DEF TypeOK, Role, Request, Response, Terms
<1>1. ASSUME NEW i \in Server, Campaign(i) PROVE TypeOK'
  BY <1>1 DEF Campaign, SetTerm
<1>2. ASSUME NEW i \in Server, Restart(i) PROVE TypeOK'
  BY <1>2 DEF Restart
<1>3. ASSUME NEW m \in requests, GrantVote(m) PROVE TypeOK'
  <2>1. requests' \in SUBSET Request
    BY <1>3, Zenon DEF GrantVote, TakeRequest
  <2>2. m.to \in Server /\ m.from \in Server /\ m.Term \in Nat
    BY Zenon
  <2>3. responses' \in SUBSET Response
    <3>1. [from |-> m.to, to |-> m.from, Term |-> m.Term, Reject |-> FALSE] \in Response
      BY <2>2, Zenon
    <3>2. responses' = responses \cup
            {[from |-> m.to, to |-> m.from, Term |-> m.Term, Reject |-> FALSE]}
      BY <1>3, Zenon DEF GrantVote
    <3> QED BY <3>1, <3>2, Zenon
  <2> QED BY <1>3, <2>1, <2>2, <2>3 DEF GrantVote, SetTerm
<1>4. ASSUME NEW m \in requests, DenyStaleLog(m) PROVE TypeOK'
  <2>1. requests' \in SUBSET Request
    BY <1>4, Zenon DEF DenyStaleLog, TakeRequest
  <2>2. m.to \in Server /\ m.from \in Server /\ m.Term \in Nat
    BY Zenon
  <2>3. responses' \in SUBSET Response
    <3>1. [from |-> m.to, to |-> m.from, Term |-> m.Term, Reject |-> TRUE] \in Response
      BY <2>2, Zenon
    <3>2. responses' = responses \cup
            {[from |-> m.to, to |-> m.from, Term |-> m.Term, Reject |-> TRUE]}
      BY <1>4, Zenon DEF DenyStaleLog
    <3> QED BY <3>1, <3>2, Zenon
  <2> QED BY <1>4, <2>1, <2>2, <2>3, Zenon DEF DenyStaleLog, becomeFollower, SetTerm
<1>5. ASSUME NEW m \in requests, DenyVote(m) PROVE TypeOK'
  <2>1. requests' \in SUBSET Request
    BY <1>5, Zenon DEF DenyVote, TakeRequest
  <2>2. m.to \in Server /\ m.from \in Server /\ m.Term \in Nat
    BY Zenon
  <2>3. responses' \in SUBSET Response
    <3>1. [from |-> m.to, to |-> m.from, Term |-> Term[m.to], Reject |-> TRUE] \in Response
      BY <2>2, Zenon
    <3>2. responses' = responses \cup
            {[from |-> m.to, to |-> m.from, Term |-> Term[m.to], Reject |-> TRUE]}
      BY <1>5, Zenon DEF DenyVote
    <3> QED BY <3>1, <3>2, Zenon
  <2> QED BY <1>5, <2>1, <2>2, <2>3, Zenon DEF DenyVote, fields
<1>6. ASSUME NEW m \in responses, CountVote(m) PROVE TypeOK'
  BY <1>6, SMTT(60) DEF CountVote, counts
<1>7. ASSUME NEW m \in responses, OtherVoteResponse(m) PROVE TypeOK'
  BY <1>7 DEF OtherVoteResponse, becomeFollower, SetTerm
<1>8. ASSUME NEW i \in Server, NEW e \in leaders, Heartbeat(i, e[1], e[2]) PROVE TypeOK'
  BY <1>8 DEF Heartbeat, becomeFollower, SetTerm
<1>9. ASSUME NEW i \in Server, NEW e \in leaders, AppendEntries(i, e[1], e[2]) PROVE TypeOK'
  BY <1>9 DEF AppendEntries, becomeFollower, SetTerm
<1>10. ASSUME NEW i \in Server, NEW e \in leaders, InstallSnapshot(i, e[1], e[2])
       PROVE  TypeOK'
  BY <1>10, Zenon DEF InstallSnapshot, becomeFollower, SetTerm
<1>11. ASSUME NEW i \in Server, NEW q \in rejects, StepDown(i, q[2]) PROVE TypeOK'
  BY <1>11, Zenon DEF StepDown, becomeFollower, SetTerm
<1>12. CASE UNCHANGED vars
  BY <1>12, Zenon DEF vars
<1> QED
  BY <1>1, <1>2, <1>3, <1>4, <1>5, <1>6, <1>7, <1>8, <1>9, <1>10, <1>11, <1>12, Zenon DEF Next

-----------------------------------------------------------------------------
\* SetTerm notices a term that goes down.
LEMMA SetTermGrows ==
    ASSUME TypeOK, NEW i \in Server, NEW t \in Nat, SetTerm(i, t), ~regressed'
    PROVE  ~regressed /\ t >= Term[i] /\ \A k \in Server : Term'[k] >= Term[k]
<1>1. ~regressed /\ ~(t < Term[i])
  BY Zenon DEF SetTerm
<1> QED BY <1>1 DEF SetTerm, TypeOK

\* A step that sends no request and grants nothing, in which terms do not go down
\* and the peers that are still candidates count nothing, keeps the bookkeeping.
LEMMA Frame ==
    ASSUME TypeOK, Bookkeeping, TypeOK',
           \A k \in Server : Term'[k] >= Term[k],
           requests' \subseteq requests,
           \A m \in responses' : ~m.Reject => m \in responses,
           voted' = voted, leaders' = leaders,
           \A k \in Server : State'[k] = "Candidate" =>
                /\ State[k] = "Candidate" /\ Term'[k] = Term[k]
                /\ VoteReceived'[k] = VoteReceived[k]
    PROVE  Bookkeeping'
<1>0. RequestInv /\ GrantInv /\ TallyInv /\ ElectedInv
  BY Zenon DEF Bookkeeping
<1>1. RequestInv'
  BY <1>0 DEF RequestInv, TypeOK, Request, Terms
<1>2. GrantInv'
  BY <1>0 DEF GrantInv, TypeOK, Response, Terms
<1>3. TallyInv'
  <2> SUFFICES ASSUME NEW i \in Server, State'[i] = "Candidate"
               PROVE  \E Q \in SUBSET Server : Tally(i, Q)'
    BY Zenon DEF TallyInv
  <2>1. PICK Q \in SUBSET Server : Tally(i, Q)
    BY <1>0, Zenon DEF TallyInv
  <2>2. \A j \in Q : GrantOf(i, j, Term[i]) \notin responses'
    BY <2>1, Zenon DEF Tally, GrantOf
  <2>3. Tally(i, Q)'
    BY <2>1, <2>2, Zenon DEF Tally, RequestOf, GrantOf
  <2> QED BY <2>3, Zenon
<1>4. ElectedInv'
  BY <1>0, Zenon DEF ElectedInv, Voters
<1> QED BY <1>1, <1>2, <1>3, <1>4, Zenon DEF Bookkeeping

\* More votes never take a majority away.
LEMMA VotersGrow ==
    ASSUME ElectedInv, voted \subseteq voted', NEW e \in leaders
    PROVE  2 * Cardinality(Voters(e[1], e[2])') > Cardinality(Server)
<1>1. Voters(e[1], e[2]) \in SUBSET (Voters(e[1], e[2])') /\ Voters(e[1], e[2])' \in SUBSET Server
  BY Zenon DEF Voters
<1>2. IsFiniteSet(Voters(e[1], e[2])')
  BY <1>1, FS_Subset, ElectionAssumption, Zenon
<1>3. Cardinality(Voters(e[1], e[2])) <= Cardinality(Voters(e[1], e[2])')
  BY <1>1, <1>2, FS_Subset, Zenon
<1>4. /\ Cardinality(Voters(e[1], e[2])) \in Nat /\ Cardinality(Voters(e[1], e[2])') \in Nat
      /\ Cardinality(Server) \in Nat
  BY <1>1, <1>2, FS_Subset, FS_CardinalityType, ElectionAssumption, Zenon
<1> QED BY <1>3, <1>4 DEF ElectedInv

\* A campaign starts a term its peer has sent nothing in, so nothing of the new
\* term is in flight and the only voter counted is the candidate.
LEMMA CampaignStep ==
    ASSUME TypeOK, Bookkeeping, TypeOK', NEW i \in Server, Campaign(i), ~regressed'
    PROVE  Bookkeeping'
<1>0. PICK t \in Nat : t = Term[i] + 1
  BY DEF TypeOK
<1>1. /\ requests' = requests \cup {[from |-> i, to |-> p, Term |-> t] : p \in Server \ {i}}
      /\ responses' = responses
      /\ voted' = voted \cup {<<t, i, i>>}
      /\ Term' = [Term EXCEPT ![i] = t]
      /\ VoteReceived' = [VoteReceived EXCEPT ![i] = 1]
      /\ \A k \in Server \ {i} : State'[k] = State[k]
  BY <1>0, SMTT(60) DEF Campaign, SetTerm, TypeOK
<1>2. t > Term[i] /\ Term'[i] = t /\ VoteReceived'[i] = 1
      /\ \A k \in Server \ {i} : Term'[k] = Term[k] /\ VoteReceived'[k] = VoteReceived[k]
  BY <1>0, <1>1, SMTT(60) DEF TypeOK
<1>3. RequestInv'
  <2> SUFFICES ASSUME NEW m \in requests' PROVE m.Term <= Term'[m.from] /\ m.from # m.to
    BY Zenon DEF RequestInv
  <2>1. CASE m \in requests
    BY <1>2, <2>1 DEF Bookkeeping, RequestInv, TypeOK, Request, Terms
  <2>2. CASE m \notin requests
    <3>1. PICK p \in Server \ {i} : m = [from |-> i, to |-> p, Term |-> t]
      BY <1>1, <2>2, Zenon
    <3> QED BY <1>2, <3>1
  <2> QED BY <2>1, <2>2, Zenon
<1>4. GrantInv'
  <2> SUFFICES ASSUME NEW m \in responses, ~m.Reject
               PROVE  /\ <<m.Term, m.from, m.to>> \in voted'
                      /\ m.Term <= Term'[m.to]
                      /\ m.from # m.to
                      /\ RequestOf(m.to, m.from, m.Term) \notin requests'
    BY <1>1, Zenon DEF GrantInv, RequestOf
  <2>1. m.to \in Server /\ m.from \in Server /\ m.Term \in Nat
    BY Zenon DEF TypeOK, Response, Terms
  <2>2. /\ <<m.Term, m.from, m.to>> \in voted
        /\ m.Term <= Term[m.to]
        /\ m.from # m.to
        /\ RequestOf(m.to, m.from, m.Term) \notin requests
    BY Zenon DEF Bookkeeping, GrantInv
  <2>3. m.Term <= Term'[m.to]
    BY <1>2, <2>1, <2>2 DEF TypeOK
  <2>4. m.to = i => m.Term # t
    BY <1>2, <2>1, <2>2 DEF TypeOK
  <2>5. RequestOf(m.to, m.from, m.Term) \notin requests'
    BY <1>1, <2>2, <2>4, Zenon DEF RequestOf
  <2> QED BY <1>1, <2>2, <2>3, <2>5, Zenon
<1>5. TallyInv'
  <2> SUFFICES ASSUME NEW k \in Server, State'[k] = "Candidate"
               PROVE  \E Q \in SUBSET Server : Tally(k, Q)'
    BY Zenon DEF TallyInv
  <2>1. CASE k = i
    <3>1. Cardinality({i}) = 1
      BY FS_Singleton, Zenon
    <3>2. RequestOf(i, i, t) \notin requests'
      BY <1>1, <1>3, Zenon DEF RequestInv, RequestOf
    <3>3. GrantOf(i, i, t) \notin responses
      BY Zenon DEF Bookkeeping, GrantInv, GrantOf
    <3>4. <<Term'[i], i, i>> \in voted'
      BY <1>1, <1>2, SMTT(60)
    <3>5. Cardinality({i}) = VoteReceived'[i]
      BY <1>2, <3>1, Zenon
    <3>6. RequestOf(i, i, Term'[i]) \notin requests'
      BY <1>2, <3>2, Zenon
    <3>7. GrantOf(i, i, Term'[i]) \notin responses'
      BY <1>1, <1>2, <3>3, SMTT(60)
    <3>8. Tally(i, {i})'
      BY <3>4, <3>5, <3>6, <3>7, Zenon DEF Tally, RequestOf, GrantOf
    <3> QED BY <2>1, <3>8, Zenon
  <2>2. CASE k # i
    <3>1. PICK Q \in SUBSET Server : Tally(k, Q)
      BY <1>1, <2>2, Zenon DEF Bookkeeping, TallyInv
    <3>2. \A j \in Q : RequestOf(k, j, Term[k]) \notin requests'
      BY <1>1, <2>2, <3>1, Zenon DEF Tally, RequestOf
    <3>3. Term'[k] = Term[k] /\ VoteReceived'[k] = VoteReceived[k]
      BY <1>2, <2>2, Zenon
    <3>4. \A j \in Q : <<Term'[k], j, k>> \in voted'
      BY <1>1, <3>1, <3>3, SMTT(60) DEF Tally
    <3>5. \A j \in Q : GrantOf(k, j, Term'[k]) \notin responses'
      BY <1>1, <3>1, <3>3, SMTT(60) DEF Tally
    <3>6. Tally(k, Q)'
      BY <3>1, <3>2, <3>3, <3>4, <3>5, Zenon DEF Tally, RequestOf, GrantOf
    <3> QED BY <3>6, Zenon
  <2> QED BY <2>1, <2>2, Zenon
<1>6. ElectedInv'
  <2> SUFFICES ASSUME NEW e \in leaders'
               PROVE  2 * Cardinality(Voters(e[1], e[2])') > Cardinality(Server)
    BY Zenon DEF ElectedInv
  <2>1. CASE e \in leaders
    BY <1>1, <2>1, VotersGrow, Zenon DEF Bookkeeping
  <2>2. CASE e \notin leaders
    <3>1. e = <<t, i>> /\ Cardinality(Server) = 1
      BY <1>0, <2>2, Zenon DEF Campaign
    <3>2. i \in Voters(t, i)' /\ Voters(t, i)' \in SUBSET Server
      BY <1>1, Zenon DEF Voters
    <3>3. IsFiniteSet(Voters(t, i)') /\ Cardinality(Voters(t, i)') \in Nat
      BY <3>2, FS_Subset, FS_CardinalityType, ElectionAssumption, Zenon
    <3>4. Cardinality(Voters(t, i)') # 0
      BY <3>2, <3>3, FS_EmptySet, Zenon
    <3>5. e[1] = t /\ e[2] = i
      BY <3>1, Zenon
    <3>6. Voters(e[1], e[2])' = Voters(t, i)'
      BY <3>5, Zenon DEF Voters
    <3> QED BY <3>1, <3>3, <3>4, <3>6
  <2> QED BY <2>1, <2>2, Zenon
<1> QED BY <1>3, <1>4, <1>5, <1>6, Zenon DEF Bookkeeping

\* A vote uses up the request it answers, so a candidate that has counted the vote
\* of a peer never gets a second one from it.
LEMMA GrantVoteStep ==
    ASSUME TypeOK, ~regressed, Bookkeeping, TypeOK', NEW m \in requests, GrantVote(m),
           ~regressed'
    PROVE  Bookkeeping'
<1>1. PICK i \in Server, j \in Server, t \in Nat : m = RequestOf(i, j, t)
  BY Zenon DEF TypeOK, Request, Terms, RequestOf
<1>2. m.from = i /\ m.to = j /\ m.Term = t /\ i # j /\ t <= Term[i]
  BY <1>1, Zenon DEF RequestOf, Bookkeeping, RequestInv
<1>3. /\ requests' = requests \ {m}
      /\ responses' = responses \cup {GrantOf(i, j, t)}
      /\ voted' = voted \cup {<<t, j, i>>}
      /\ leaders' = leaders /\ VoteReceived' = VoteReceived
      /\ Term' = [Term EXCEPT ![j] = t]
      /\ State' = [State EXCEPT ![j] = "Follower"]
  BY <1>2, Zenon DEF GrantVote, TakeRequest, SetTerm, GrantOf
<1>4. \A k \in Server : Term'[k] >= Term[k]
  BY <1>2, SetTermGrows, Zenon DEF GrantVote
<1>5. RequestInv'
  BY <1>3, <1>4, SMTT(60) DEF Bookkeeping, RequestInv, TypeOK, Request, Terms
<1>6. GrantInv'
  <2> SUFFICES ASSUME NEW r \in responses', ~r.Reject
               PROVE  /\ <<r.Term, r.from, r.to>> \in voted'
                      /\ r.Term <= Term'[r.to]
                      /\ r.from # r.to
                      /\ RequestOf(r.to, r.from, r.Term) \notin requests'
    BY Zenon DEF GrantInv, RequestOf
  <2>1. CASE r \in responses
    <3>1. /\ <<r.Term, r.from, r.to>> \in voted /\ r.Term <= Term[r.to] /\ r.from # r.to
          /\ RequestOf(r.to, r.from, r.Term) \notin requests
      BY <2>1, Zenon DEF Bookkeeping, GrantInv
    <3>2. r.to \in Server /\ r.Term \in Nat
      BY <2>1, Zenon DEF TypeOK, Response, Terms
    <3>3. r.Term <= Term'[r.to]
      BY <1>4, <3>1, <3>2, SMTT(60) DEF TypeOK
    <3> QED BY <1>3, <3>1, <3>3, Zenon
  <2>2. CASE r = GrantOf(i, j, t)
    <3>1. r.Term = t /\ r.from = j /\ r.to = i
      BY <2>2, Zenon DEF GrantOf
    <3>2. t <= Term'[i]
      BY <1>2, <1>4 DEF TypeOK
    <3> QED BY <1>1, <1>2, <1>3, <3>1, <3>2, Zenon
  <2> QED BY <1>3, <2>1, <2>2, Zenon
<1>7. TallyInv'
  <2> SUFFICES ASSUME NEW k \in Server, State'[k] = "Candidate"
               PROVE  \E Q \in SUBSET Server : Tally(k, Q)'
    BY Zenon DEF TallyInv
  <2>1. k # j /\ State[k] = "Candidate" /\ Term'[k] = Term[k]
    BY <1>3, Zenon DEF TypeOK
  <2>2. PICK Q \in SUBSET Server : Tally(k, Q)
    BY <2>1, Zenon DEF Bookkeeping, TallyInv
  <2>3. ASSUME NEW q \in Q PROVE GrantOf(k, q, Term[k]) \notin responses'
    <3>1. GrantOf(k, q, Term[k]) \notin responses /\ RequestOf(k, q, Term[k]) \notin requests
      BY <2>2, Zenon DEF Tally
    <3>2. GrantOf(k, q, Term[k]) = GrantOf(i, j, t) => RequestOf(k, q, Term[k]) = m
      BY <1>1, Zenon DEF GrantOf, RequestOf
    <3> QED BY <1>3, <3>1, <3>2, Zenon
  <2>4. \A q \in Q : RequestOf(k, q, Term[k]) \notin requests'
    BY <1>3, <2>2, Zenon DEF Tally
  <2>5. VoteReceived'[k] = VoteReceived[k]
    BY <1>3, Zenon
  <2>6. \A q \in Q : <<Term'[k], q, k>> \in voted'
    BY <1>3, <2>1, <2>2, SMTT(60) DEF Tally
  <2>7. k \in Q /\ Cardinality(Q) = VoteReceived'[k]
    BY <2>2, <2>5, Zenon DEF Tally
  <2>8. Tally(k, Q)'
    BY <2>1, <2>3, <2>4, <2>6, <2>7, Zenon DEF Tally, RequestOf, GrantOf
  <2> QED BY <2>8, Zenon
<1>8. ElectedInv'
  BY <1>3, VotersGrow, Zenon DEF Bookkeeping, ElectedInv
<1> QED BY <1>5, <1>6, <1>7, <1>8, Zenon DEF Bookkeeping

\* A grant that is counted comes from a peer that was not counted before.
LEMMA CountVoteStep ==
    ASSUME TypeOK, Bookkeeping, TypeOK', NEW m \in responses, CountVote(m)
    PROVE  Bookkeeping'
<1>1. PICK i \in Server, j \in Server, t \in Nat :
        m.to = i /\ m.from = j /\ m.Term = t /\ m.Reject \in BOOLEAN
  BY Zenon DEF TypeOK, Response, Terms
<1>2. /\ State[i] = "Candidate" /\ t = Term[i]
      /\ Term' = Term /\ requests' = requests /\ voted' = voted
      /\ responses' = responses \ {m}
      /\ \A k \in Server \ {i} : State'[k] = State[k] /\ VoteReceived'[k] = VoteReceived[k]
  BY <1>1, ZenonT(30) DEF CountVote, counts, TypeOK
<1>3. PICK Q \in SUBSET Server : Tally(i, Q)
  BY <1>2, Zenon DEF Bookkeeping, TallyInv
<1>4. IsFiniteSet(Q) /\ Cardinality(Q) \in Nat /\ Cardinality(Server) \in Nat
  BY FS_Subset, FS_CardinalityType, ElectionAssumption, Zenon
<1>5. CASE m.Reject
  <2>1. leaders' = leaders /\ VoteReceived'[i] = VoteReceived[i]
    BY <1>1, <1>5, Zenon DEF CountVote, TypeOK
  <2>2. \A k \in Server : State'[k] = "Candidate" => State[k] = "Candidate"
    BY <1>2, Zenon
  <2>3. \A k \in Server : Term'[k] >= Term[k] /\ VoteReceived'[k] = VoteReceived[k]
    BY <1>2, <2>1, SMTT(60) DEF TypeOK
  <2> QED BY <1>2, <2>1, <2>2, <2>3, Frame, Zenon DEF Bookkeeping
<1>6. CASE ~m.Reject
  <2>1. m = GrantOf(i, j, t)
    BY <1>1, <1>6, Zenon DEF TypeOK, Response, GrantOf
  <2>2. /\ <<t, j, i>> \in voted
        /\ RequestOf(i, j, t) \notin requests
    BY <1>1, <1>6, Zenon DEF Bookkeeping, GrantInv
  <2>3. j \notin Q
    BY <1>2, <1>3, <2>1, Zenon DEF Tally
  <2>4. PICK R \in SUBSET Server : R = Q \cup {j}
    BY Zenon
  <2>5. Cardinality(R) = Cardinality(Q) + 1 /\ IsFiniteSet(R)
    BY <1>4, <2>3, <2>4, FS_AddElement, Zenon
  <2>6. VoteReceived'[i] = VoteReceived[i] + 1
    BY <1>1, <1>6, Zenon DEF CountVote, TypeOK
  <2>7. Cardinality(R) = VoteReceived'[i]
    BY <1>3, <2>5, <2>6, Zenon DEF Tally
  <2>8. \A q \in R : <<t, q, i>> \in voted
    BY <1>2, <1>3, <2>2, <2>4, Zenon DEF Tally
  <2>9. \A q \in R : RequestOf(i, q, t) \notin requests'
    BY <1>2, <1>3, <2>2, <2>4, Zenon DEF Tally
  <2>10. \A q \in R : GrantOf(i, q, t) \notin responses'
    BY <1>2, <1>3, <2>1, <2>4, Zenon DEF Tally
  <2>11. Tally(i, R)'
    BY <1>2, <1>3, <2>4, <2>7, <2>8, <2>9, <2>10, Zenon DEF Tally, RequestOf, GrantOf
  <2>12. RequestInv' /\ GrantInv'
    BY <1>2, Zenon DEF Bookkeeping, RequestInv, GrantInv, RequestOf
  <2>13. TallyInv'
    <3> SUFFICES ASSUME NEW k \in Server, k # i, State[k] = "Candidate"
                 PROVE  \E S \in SUBSET Server : Tally(k, S)'
      BY <1>2, <2>11, Zenon DEF TallyInv
    <3>1. PICK S \in SUBSET Server : Tally(k, S)
      BY Zenon DEF Bookkeeping, TallyInv
    <3>2. Tally(k, S)'
      BY <1>2, <3>1, Zenon DEF Tally, RequestOf, GrantOf
    <3> QED BY <3>2, Zenon
  <2>14. ElectedInv'
    <3> SUFFICES ASSUME NEW e \in leaders'
                 PROVE  2 * Cardinality(Voters(e[1], e[2])') > Cardinality(Server)
      BY Zenon DEF ElectedInv
    <3>1. CASE e \in leaders
      BY <1>2, <3>1, VotersGrow, Zenon DEF Bookkeeping
    <3>2. CASE e \notin leaders
      <4>1. e = <<t, i>> /\ isMajority(VoteReceived[i] + 1)
        BY <1>1, <1>2, <1>6, <3>2, Zenon DEF CountVote
      <4>2. 2 * Cardinality(R) > Cardinality(Server)
        BY <1>4, <2>5, <2>6, <2>7, <4>1, SMTT(60) DEF isMajority, TypeOK
      <4>3. R \in SUBSET (Voters(e[1], e[2])') /\ Voters(e[1], e[2])' \in SUBSET Server
        BY <1>2, <2>8, <4>1, Zenon DEF Voters
      <4>4. IsFiniteSet(Voters(e[1], e[2])') /\ Cardinality(Voters(e[1], e[2])') \in Nat
        BY <4>3, FS_Subset, FS_CardinalityType, ElectionAssumption, Zenon
      <4>5. Cardinality(R) <= Cardinality(Voters(e[1], e[2])') /\ Cardinality(R) \in Nat
        BY <2>5, <4>3, <4>4, FS_Subset, FS_CardinalityType, Zenon
      <4> QED BY <1>4, <4>2, <4>4, <4>5
    <3> QED BY <3>1, <3>2, Zenon
  <2> QED BY <2>12, <2>13, <2>14, Zenon DEF Bookkeeping
<1> QED BY <1>5, <1>6, Zenon

\* The steps of an election that is under way or won: each keeps the invariant.
LEMMA NextIInv == IInv /\ [Next]_vars => IInv'
<1> SUFFICES ASSUME IInv, [Next]_vars, TypeOK', ~regressed' PROVE Bookkeeping'
  BY NextTypeOK, Zenon DEF IInv
<1>0. TypeOK /\ (~regressed => Bookkeeping)
  BY Zenon DEF IInv
<1>1. ASSUME NEW i \in Server, Campaign(i) PROVE Bookkeeping'
  <2>1. ~regressed
    BY <1>0, <1>1, Zenon DEF Campaign, SetTerm
  <2> QED BY <1>0, <1>1, <2>1, CampaignStep, Zenon
<1>2. ASSUME NEW i \in Server, Restart(i) PROVE Bookkeeping'
  <2>1. /\ requests' = requests /\ responses' = responses /\ voted' = voted
        /\ leaders' = leaders /\ Term' = Term /\ ~regressed
    BY <1>2, Zenon DEF Restart
  <2>2. \A k \in Server : Term'[k] >= Term[k]
    BY <1>0, <2>1, SMTT(60) DEF TypeOK
  <2>3. \A k \in Server : State'[k] = "Candidate" =>
            k # i /\ State[k] = "Candidate" /\ VoteReceived'[k] = VoteReceived[k]
    BY <1>0, <1>2, Zenon DEF Restart, TypeOK
  <2> QED BY <1>0, <2>1, <2>2, <2>3, Frame, Zenon
<1>3. ASSUME NEW m \in requests, GrantVote(m) PROVE Bookkeeping'
  <2>1. ~regressed
    BY <1>0, <1>3, Zenon DEF GrantVote, SetTerm
  <2> QED BY <1>0, <1>3, <2>1, GrantVoteStep, Zenon
<1>4. ASSUME NEW m \in requests, DenyStaleLog(m) PROVE Bookkeeping'
  <2>1. m.to \in Server /\ m.Term \in Nat
    BY <1>0, Zenon DEF TypeOK, Request, Terms
  <2>2. ~regressed /\ \A k \in Server : Term'[k] >= Term[k]
    BY <1>0, <1>4, <2>1, SetTermGrows, Zenon DEF DenyStaleLog, becomeFollower
  <2>3. voted' = voted /\ leaders' = leaders /\ VoteReceived' = VoteReceived
    BY <1>4, Zenon DEF DenyStaleLog
  <2>5. requests' \subseteq requests
    BY <1>4, <2>2, Zenon DEF DenyStaleLog, TakeRequest
  <2>6. \A r \in responses' : ~r.Reject => r \in responses
    BY <1>4, SMTT(60) DEF DenyStaleLog
  <2>4. \A k \in Server : State'[k] = "Candidate" => State[k] = "Candidate" /\ Term'[k] = Term[k]
    BY <1>0, <1>4, <2>1, Zenon DEF DenyStaleLog, becomeFollower, SetTerm, TypeOK
  <2> QED BY <1>0, <2>2, <2>3, <2>4, <2>5, <2>6, Frame, Zenon
<1>5. ASSUME NEW m \in requests, DenyVote(m) PROVE Bookkeeping'
  <2>1. /\ voted' = voted /\ leaders' = leaders /\ ~regressed
        /\ VoteReceived' = VoteReceived /\ Term' = Term /\ State' = State
    BY <1>5, Zenon DEF DenyVote, fields
  <2>3. requests' \subseteq requests
    BY <1>5, Zenon DEF DenyVote, TakeRequest
  <2>4. \A r \in responses' : ~r.Reject => r \in responses
    BY <1>5, SMTT(60) DEF DenyVote
  <2>2. \A k \in Server : Term'[k] >= Term[k]
    BY <1>0, <2>1, SMTT(60) DEF TypeOK
  <2> QED BY <1>0, <2>1, <2>2, <2>3, <2>4, Frame, Zenon
<1>6. ASSUME NEW m \in responses, CountVote(m) PROVE Bookkeeping'
  BY <1>0, <1>6, CountVoteStep, Zenon DEF CountVote
<1>7. ASSUME NEW m \in responses, OtherVoteResponse(m) PROVE Bookkeeping'
  <2>1. m.to \in Server /\ m.Term \in Nat
    BY <1>0, Zenon DEF TypeOK, Response, Terms
  <2>2. CASE becomeFollower(m.to, m.Term)
    <3>1. ~regressed /\ \A k \in Server : Term'[k] >= Term[k]
      BY <1>0, <2>1, <2>2, SetTermGrows, Zenon DEF becomeFollower
    <3>2. \A k \in Server : State'[k] = "Candidate" => State[k] = "Candidate" /\ Term'[k] = Term[k]
      BY <1>0, <2>1, <2>2, Zenon DEF becomeFollower, SetTerm, TypeOK
    <3> QED BY <1>0, <1>7, <3>1, <3>2, Frame, Zenon DEF OtherVoteResponse
  <2>3. CASE UNCHANGED <<Term, Vote, State, regressed>>
    <3>1. \A k \in Server : Term'[k] >= Term[k]
      BY <1>0, <2>3, SMTT(60) DEF TypeOK
    <3> QED BY <1>0, <1>7, <2>3, <3>1, Frame, Zenon DEF OtherVoteResponse
  <2> QED BY <1>7, <2>2, <2>3, Zenon DEF OtherVoteResponse
<1>8. ASSUME NEW i \in Server, NEW t \in Nat, becomeFollower(i, t),
             requests' = requests, responses' = responses, voted' = voted, leaders' = leaders,
             VoteReceived' = VoteReceived
      PROVE  Bookkeeping'
  <2>1. ~regressed /\ \A k \in Server : Term'[k] >= Term[k]
    BY <1>0, <1>8, SetTermGrows, Zenon DEF becomeFollower
  <2>2. \A k \in Server : State'[k] = "Candidate" => State[k] = "Candidate" /\ Term'[k] = Term[k]
    BY <1>0, <1>8, Zenon DEF becomeFollower, SetTerm, TypeOK
  <2> QED BY <1>0, <1>8, <2>1, <2>2, Frame, Zenon
<1>9. \A e \in leaders : e[1] \in Nat /\ e[2] \in Server
  BY <1>0, Zenon DEF TypeOK
<1>10. ASSUME NEW i \in Server, NEW e \in leaders, Heartbeat(i, e[1], e[2]) PROVE Bookkeeping'
  <2>1. CASE becomeFollower(i, e[1])
    BY <1>0, <1>8, <1>9, <1>10, <2>1, Zenon DEF Heartbeat
  <2>2. CASE UNCHANGED <<Term, Vote, State, regressed>>
    <3>1. \A k \in Server : Term'[k] >= Term[k]
      BY <1>0, <2>2, SMTT(60) DEF TypeOK
    <3> QED BY <1>0, <1>10, <2>2, <3>1, Frame, Zenon DEF Heartbeat
  <2> QED BY <1>10, <2>1, <2>2, Zenon DEF Heartbeat
<1>11. ASSUME NEW i \in Server, NEW e \in leaders, AppendEntries(i, e[1], e[2]) PROVE Bookkeeping'
  <2>1. CASE becomeFollower(i, e[1])
    BY <1>0, <1>8, <1>9, <1>11, <2>1, Zenon DEF AppendEntries
  <2>2. CASE State[i] = "Follower" /\ SetTerm(i, e[1]) /\ State' = State
    <3>1. ~regressed /\ \A k \in Server : Term'[k] >= Term[k]
      BY <1>0, <1>9, <2>2, SetTermGrows, Zenon
    <3>2. \A k \in Server : State'[k] = "Candidate" => State[k] = "Candidate" /\ Term'[k] = Term[k]
      BY <1>0, <2>2, Zenon DEF SetTerm, TypeOK
    <3> QED BY <1>0, <1>11, <3>1, <3>2, Frame, Zenon DEF AppendEntries
  <2> QED BY <1>11, <2>1, <2>2, Zenon DEF AppendEntries
<1>12. ASSUME NEW i \in Server, NEW e \in leaders, InstallSnapshot(i, e[1], e[2])
       PROVE  Bookkeeping'
  BY <1>0, <1>8, <1>9, <1>12, Zenon DEF InstallSnapshot
<1>13. ASSUME NEW i \in Server, NEW q \in rejects, StepDown(i, q[2]) PROVE Bookkeeping'
  <2>1. q[2] \in Nat
    BY <1>0, Zenon DEF TypeOK
  <2> QED BY <1>0, <1>8, <1>13, <2>1, Zenon DEF StepDown
<1>14. CASE UNCHANGED vars
  <2>1. \A k \in Server : Term'[k] >= Term[k]
    BY <1>0, <1>14, SMTT(60) DEF vars, TypeOK
  <2> QED BY <1>0, <1>14, <2>1, Frame, Zenon DEF vars
<1> QED
  BY <1>1, <1>2, <1>3, <1>4, <1>5, <1>6, <1>7, <1>10, <1>11, <1>12, <1>13, <1>14, Zenon DEF Next

\* A bootstrapped Region has sent no message and elected nobody.
LEMMA InitIInv == Init => IInv
<1> SUFFICES ASSUME Init PROVE IInv
  BY Zenon
<1>1. TypeOK
  <2>1. /\ Term \in [Server -> Nat] /\ Vote \in [Server -> Server \cup {None}]
        /\ State \in [Server -> Role]
        /\ VoteTotal \in [Server -> Nat] /\ VoteReceived \in [Server -> Nat]
        /\ \A i \in Server : VoteReceived[i] <= VoteTotal[i]
    BY ElectionAssumption DEF Init, Role
  <2> QED BY <2>1, Zenon DEF Init, TypeOK
<1>2. RequestInv /\ GrantInv /\ TallyInv /\ ElectedInv
  BY Zenon DEF Init, RequestInv, GrantInv, TallyInv, ElectedInv
<1> QED BY <1>1, <1>2, Zenon DEF IInv, Bookkeeping

\* The invariant holds in every state of every run.
THEOREM ElectionInvariant == Spec => []IInv
BY InitIInv, NextIInv, PTL DEF Spec

\* The fields keep their types and VoteReceived never exceeds VoteTotal.
THEOREM ElectionTypeOK == Spec => []TypeOK
<1>1. IInv => TypeOK
  BY Zenon DEF IInv
<1> QED BY <1>1, ElectionInvariant, PTL

\* The counter of handleVoteResponse never counts a peer twice while no term goes
\* down: whoever wins an election has the votes of a majority.
THEOREM ElectionByMajority == Spec => []ElectedByMajority
<1>1. IInv => ElectedByMajority
  BY Zenon DEF IInv, Bookkeeping, ElectedInv, ElectedByMajority
<1> QED BY <1>1, ElectionInvariant, PTL

\* Two majorities of the peers have a peer in common.
LEMMA MajoritiesMeet ==
    ASSUME NEW A \in SUBSET Server, NEW B \in SUBSET Server,
           2 * Cardinality(A) > Cardinality(Server),
           2 * Cardinality(B) > Cardinality(Server)
    PROVE  \E j \in Server : j \in A /\ j \in B
<1>1. IsFiniteSet(Server) /\ IsFiniteSet(A) /\ IsFiniteSet(B)
  BY FS_Subset, ElectionAssumption, Zenon
<1>2. Cardinality(A) \in Nat /\ Cardinality(B) \in Nat /\ Cardinality(Server) \in Nat
  BY <1>1, FS_CardinalityType, Zenon
<1>3. Cardinality(A) + Cardinality(B) > Cardinality(Server)
  BY <1>2
<1>4. A \cap B # {}
  BY <1>1, <1>3, FS_MajoritiesIntersect, Zenon
<1> QED BY <1>4, Zenon

\* Election safety: two peers lead in one term only if a peer has voted twice in a
\* term (becomeFollower has cleared Vote without a new term) or a term went down
\* (handleSnapshot and handleHeartbeatResponse take over a lower one).
THEOREM ElectionSafe == Spec => []ElectionSafety
<1>1. IInv => ElectionSafety
  <2> SUFFICES ASSUME IInv, ~regressed, VoteOnce,
                      NEW e \in leaders, NEW f \in leaders, e[1] = f[1]
               PROVE  e[2] = f[2]
    BY Zenon DEF ElectionSafety
  <2>1. PICK j \in Server : j \in Voters(e[1], e[2]) /\ j \in Voters(f[1], f[2])
    <3>1. /\ 2 * Cardinality(Voters(e[1], e[2])) > Cardinality(Server)
          /\ 2 * Cardinality(Voters(f[1], f[2])) > Cardinality(Server)
      BY Zenon DEF IInv, Bookkeeping, ElectedInv
    <3>2. Voters(e[1], e[2]) \in SUBSET Server /\ Voters(f[1], f[2]) \in SUBSET Server
      BY Zenon DEF Voters
    <3> QED BY <3>1, <3>2, MajoritiesMeet, Zenon
  <2>2. <<e[1], j, e[2]>> \in voted /\ <<e[1], j, f[2]>> \in voted
    BY <2>1, Zenon DEF Voters
  <2> QED BY <2>2, Zenon DEF VoteOnce
<1> QED BY <1>1, ElectionInvariant, PTL
=============================================================================
