---------------------------- MODULE IDAllocator ----------------------------
(***************************************************************************)
(* The allocator of store, region and peer ids, one per server             *)
(* (scheduler/server/id/id.go), around the "alloc_id" and "leader" keys of *)
(* etcd.  Alloc holds the allocator's mutex, but generate talks to etcd    *)
(* twice, and other servers move in between; AllocID has looked at         *)
(* IsLeader before, so that a call may come long after the leadership is   *)
(* lost.  Nothing is assumed of the leader key: it changes at any time.    *)
(***************************************************************************)
EXTENDS LeaderKey, Integers

CONSTANTS
    AllocStep,      \* allocStep
    MaxId           \* bound on the ids reserved

ASSUME IDAssumption == AllocStep \in Nat \ {0} /\ MaxId \in Nat

VARIABLES
    allocId,    \* the alloc_id key, 0 while it is absent
    base, end,  \* the ids base+1 .. end are reserved for the server
    read,       \* the value generate has read, or Unread
    ids,        \* history: the ids returned
    idRepeated  \* history: an id was returned twice

idVars == <<allocId, base, end, read, ids, idRepeated>>
Unread == -1

IDInit ==
    /\ allocId = 0
    /\ base = [s \in Server |-> 0] /\ end = [s \in Server |-> 0]
    /\ read = [s \in Server |-> Unread]
    /\ ids = {} /\ idRepeated = FALSE

Return(id) ==
    /\ ids' = ids \cup {id}
    /\ idRepeated' = (idRepeated \/ id \in ids)

\* Alloc, with ids in reserve.
Alloc(s) ==
    /\ read[s] = Unread /\ base[s] # end[s]
    /\ base' = [base EXCEPT ![s] = @ + 1]
    /\ Return(base[s] + 1)
    /\ UNCHANGED <<allocId, end, read>>

\* Alloc without: generate reads the key ...
GenerateRead(s) ==
    /\ read[s] = Unread /\ base[s] = end[s]
    /\ read' = [read EXCEPT ![s] = allocId]
    /\ UNCHANGED <<allocId, base, end, ids, idRepeated>>

\* ... and writes it back if it still has that value and the server is the leader.
LeaderOnly(s) == leaderCmp(s)                      \* mutant: the value is not compared
GenerateCmp(s) == allocId = read[s] /\ leaderCmp(s)

\* The txn may succeed and report an error: the ids are then lost.
Generate(s) ==
    LET e == read[s] + AllocStep
    IN  /\ read[s] # Unread /\ e <= MaxId
        /\ GenerateCmp(s)
        /\ allocId' = e
        /\ read' = [read EXCEPT ![s] = Unread]
        /\ \/ /\ end' = [end EXCEPT ![s] = e]
              /\ base' = [base EXCEPT ![s] = e - AllocStep + 1]
              /\ Return(e - AllocStep + 1)
           \/ UNCHANGED <<base, end, ids, idRepeated>>

GenerateFails(s) ==
    /\ read[s] # Unread
    /\ read' = [read EXCEPT ![s] = Unread]
    /\ UNCHANGED <<allocId, base, end, ids, idRepeated>>

\* The process is started again with an empty allocator.
ForgetIds(s) ==
    /\ base' = [base EXCEPT ![s] = 0]
    /\ end' = [end EXCEPT ![s] = 0]
    /\ read' = [read EXCEPT ![s] = Unread]
    /\ UNCHANGED <<allocId, ids, idRepeated>>

IDNext ==
    \E s \in Server : Alloc(s) \/ GenerateRead(s) \/ Generate(s) \/ GenerateFails(s)

\* The allocator under a leader key that anything may happen to.
IDSpec ==
    /\ holder \in Server \cup {None} /\ IDInit
    /\ [][\/ IDNext /\ UNCHANGED holder
          \/ \E s \in Server : ForgetIds(s) /\ UNCHANGED holder
          \/ holder' \in Server \cup {None} /\ UNCHANGED idVars]_<<holder, idVars>>

-----------------------------------------------------------------------------
\* "Allocator is the allocator to generate unique ID" (id.go:29): no id is returned
\* twice, by one server or two, whatever happens to the leader key between the read
\* and the txn of generate, and however old the leadership of the caller is.
IdsUnique == ~idRepeated
=============================================================================
