-------------------------------- MODULE TSO --------------------------------
(***************************************************************************)
(* The timestamp oracle of scheduler/server/tso/tso.go, one per server,    *)
(* around the "timestamp" and "leader" keys of etcd.                       *)
(*                                                                         *)
(* The leader loop of a server synchronises, updates and resets the        *)
(* oracle; any number of gRPC handlers read it.  A handler loads a pointer *)
(* to the current atomicObject, adds to the logical part of the object it  *)
(* has loaded, and looks at the lease last; the leader loop may move       *)
(* between any two of these steps.  A transaction that succeeded may still *)
(* report an error.  Clocks are free: time.Now() returns any value.        *)
(*                                                                         *)
(* Leadership is what the oracle needs of it: one server at a time holds   *)
(* the key, and a server with a timestamp and an unexpired lease loses it  *)
(* only after the lease expires.  SchedulerLeader implements this part.    *)
(*                                                                         *)
(* The unit of time is a fraction of a millisecond: Ms units make one.     *)
(***************************************************************************)
EXTENDS LeaderKey, Integers, Sequences

CONSTANTS
    Request,        \* concurrent GetRespTS calls
    Count,          \* the counts they ask for
    Wall,           \* the values time.Now() returns
    Ms,             \* a millisecond; also updateTimestampGuard
    SaveInterval,   \* TsoSaveInterval
    MaxLogical,     \* maxLogical
    MaxObjects,     \* bound on the objects the leader loops create
    MaxEra          \* bound on the elections won

ASSUME TSOAssumption ==
    /\ Ms \in Nat \ {0} /\ SaveInterval \in Nat \ {0}
    /\ MaxLogical \in Nat /\ MaxObjects \in Nat /\ MaxEra \in Nat
    /\ Wall \subseteq Nat /\ Count \subseteq Nat \ {0}

VARIABLES
    saved,      \* the timestamp key of etcd, 0 while it is absent
    valid,      \* servers whose oracle has a lease that is not expired
    objects,    \* every atomicObject allocated, with the server it belongs to
    ts,         \* the oracle's pointer: an index of objects, 0 for ZeroTime
    at,         \* where the leader loop of a server is
    mark,       \* `last' or `next' of the leader loop, by where it is
    lastSaved,  \* lastSavedTime
    era,        \* history: how many elections were won before the server's last
    eras,       \* history: elections won so far
    req,        \* the GetRespTS calls
    given,      \* history: every timestamp returned, as <<milliseconds, logical>>
    repeated    \* history: some timestamp was returned twice

clock == <<saved, objects, ts, at, mark, lastSaved, era, eras>>
tsoVars == <<holder, saved, valid, objects, ts, at, mark, lastSaved, era, eras,
             req, given, repeated>>

Phase == {"follower", "elected", "loaded", "saved", "serving", "window",
          "store", "failed"}
NoTS == 0
IdleReq == [at |-> "idle", srv |-> None, obj |-> 0, era |-> 0, logical |-> 0,
            count |-> 0, floor |-> {}]

TSOInit ==
    /\ holder = None /\ saved = 0 /\ valid = {} /\ objects = <<>>
    /\ ts = [s \in Server |-> NoTS]
    /\ at = [s \in Server |-> "follower"]
    /\ mark = [s \in Server |-> 0]
    /\ lastSaved = [s \in Server |-> 0]
    /\ era = [s \in Server |-> 0] /\ eras = 0
    /\ req = [r \in Request |-> IdleReq]
    /\ given = {} /\ repeated = FALSE

-----------------------------------------------------------------------------
(* Leadership, as the oracle sees it.                                      *)

Win(s) ==
    /\ at[s] = "follower" /\ ts[s] = NoTS /\ eras < MaxEra
    /\ CreateLeaderKey(s)
    /\ at' = [at EXCEPT ![s] = "elected"]
    /\ era' = [era EXCEPT ![s] = eras + 1] /\ eras' = eras + 1
    /\ UNCHANGED <<saved, valid, objects, ts, mark, lastSaved, req, given, repeated>>

Lose ==
    /\ DropLeaderKey
    /\ holder \in valid => ts[holder] = NoTS
    /\ UNCHANGED <<valid, clock, req, given, repeated>>

\* Leases expire, and keep-alives renew the lease of the holder.  While an oracle
\* has no timestamp, what its lease says is free.
Validity ==
    /\ valid' \in SUBSET Server
    /\ \A s \in valid' \ valid : holder = s \/ ts[s] = NoTS
    /\ valid' # valid
    /\ UNCHANGED <<holder, clock, req, given, repeated>>

-----------------------------------------------------------------------------
(* The leader loop.                                                        *)

\* SyncTimestamp reads the time saved by the leaders before.
loadTimestamp(s) ==
    /\ at[s] = "elected"
    /\ at' = [at EXCEPT ![s] = "loaded"]
    /\ mark' = [mark EXCEPT ![s] = saved]
    /\ UNCHANGED <<holder, saved, valid, objects, ts, lastSaved, era, eras, req, given, repeated>>

\* The first physical time of a new leader: its clock, or just above the window of
\* the leaders before when the clock is behind it.
ClockOnly(last, now) == now                                  \* mutant: no comparison
SyncNext(last, now) == IF now - last < Ms THEN last + Ms ELSE now

\* saveTimestamp: the txn succeeds for the server that the leader key names.
UnguardedSave(s, next) == saved' = next + SaveInterval       \* mutant: no leaderCmp
saveTimestamp(s, next) ==
    /\ leaderCmp(s)
    /\ saved' = next + SaveInterval

\* SyncTimestamp's save.  When an error hides a success, lastSavedTime stays as it
\* is, and the server gives up its campaign as it does after a failure.
SyncSave(s, now) ==
    LET next == SyncNext(mark[s], now)
    IN  /\ at[s] = "loaded"
        /\ saveTimestamp(s, next)
        /\ \/ /\ at' = [at EXCEPT ![s] = "saved"]
              /\ mark' = [mark EXCEPT ![s] = next]
              /\ lastSaved' = [lastSaved EXCEPT ![s] = next + SaveInterval]
           \/ at' = [at EXCEPT ![s] = "failed"] /\ UNCHANGED <<mark, lastSaved>>
        /\ UNCHANGED <<holder, valid, objects, ts, era, eras, req, given, repeated>>

\* A new atomicObject becomes the current one.
StorePointer(s, physical) ==
    /\ Len(objects) < MaxObjects
    /\ objects' = Append(objects, [physical |-> physical, logical |-> 0, srv |-> s])
    /\ ts' = [ts EXCEPT ![s] = Len(objects) + 1]
    /\ at' = [at EXCEPT ![s] = "serving"]
    /\ mark' = [mark EXCEPT ![s] = 0]

\* The end of SyncTimestamp: t.lease is the lease of this campaign, which may have
\* expired in the meantime.
SyncStore(s) ==
    /\ at[s] = "saved"
    /\ StorePointer(s, mark[s])
    /\ \/ valid' = valid \ {s}
       \/ holder = s /\ valid' = valid \cup {s}
    /\ UNCHANGED <<holder, saved, lastSaved, era, eras, req, given, repeated>>

\* UpdateTimestamp moves on to the clock, if that is ahead, or by a millisecond when
\* the logical part is half used up.
UpdateNext(s, now, next) ==
    LET prev == objects[ts[s]]
    IN  \/ now - prev.physical > Ms /\ next = now
        \/ now - prev.physical <= Ms /\ prev.logical > MaxLogical \div 2
           /\ next = prev.physical + Ms

NoWindow(s, next) == FALSE                     \* mutant: the window is never extended
WindowUsedUp(s, next) == lastSaved[s] - next <= Ms

\* UpdateTimestamp up to its save.
UpdateBegin(s, now) ==
    /\ at[s] = "serving"
    /\ \E next \in Wall \cup {objects[ts[s]].physical + Ms} :
        /\ UpdateNext(s, now, next)
        /\ mark' = [mark EXCEPT ![s] = next]
        /\ at' = [at EXCEPT ![s] = IF WindowUsedUp(s, next) THEN "window" ELSE "store"]
    /\ UNCHANGED <<holder, saved, valid, objects, ts, lastSaved, era, eras, req, given, repeated>>

UpdateSave(s) ==
    /\ at[s] = "window"
    /\ saveTimestamp(s, mark[s])
    /\ \/ /\ at' = [at EXCEPT ![s] = "store"]
          /\ lastSaved' = [lastSaved EXCEPT ![s] = mark[s] + SaveInterval]
       \/ at' = [at EXCEPT ![s] = "failed"] /\ UNCHANGED lastSaved
    /\ UNCHANGED <<holder, valid, objects, ts, mark, era, eras, req, given, repeated>>

UpdateStore(s) ==
    /\ at[s] = "store"
    /\ StorePointer(s, mark[s])
    /\ UNCHANGED <<holder, saved, valid, lastSaved, era, eras, req, given, repeated>>

\* campaignLeader returns, after an error or when the lease has expired, and
\* ResetTimestamp runs if the oracle was synchronised.
StepDown(s) ==
    /\ at[s] # "follower"
    /\ at' = [at EXCEPT ![s] = "follower"]
    /\ ts' = [ts EXCEPT ![s] = NoTS]
    /\ mark' = [mark EXCEPT ![s] = 0]
    /\ UNCHANGED <<holder, saved, valid, objects, lastSaved, era, eras, req, given, repeated>>

\* The process ends and is started again; its requests end with it, and the leader
\* key stays until its lease expires or the server finds its own key.
Crash(s) ==
    /\ at' = [at EXCEPT ![s] = "follower"]
    /\ ts' = [ts EXCEPT ![s] = NoTS]
    /\ mark' = [mark EXCEPT ![s] = 0]
    /\ lastSaved' = [lastSaved EXCEPT ![s] = 0]
    /\ valid' = valid \ {s}
    /\ req' = [r \in Request |-> IF req[r].srv = s THEN IdleReq ELSE req[r]]
    /\ UNCHANGED <<holder, saved, objects, era, eras, given, repeated>>

-----------------------------------------------------------------------------
(* GetRespTS.                                                              *)

\* The load of an object that is used up, which only leads to another attempt, is
\* left out: it bounds the logical part.
LoadPointer(r, s, count) ==
    /\ req[r].at = "idle" /\ ts[s] # NoTS /\ objects[ts[s]].logical < MaxLogical
    /\ req' = [req EXCEPT ![r] = [at |-> "loaded", srv |-> s, obj |-> ts[s], era |-> era[s],
                                  logical |-> 0, count |-> count, floor |-> given]]
    /\ UNCHANGED <<holder, valid, clock, given, repeated>>

\* AddInt64, on the object that was loaded.  A logical part that is used up makes
\* the loop start again.
AddLogical(r) == objects[req[r].obj].logical + req[r].count

AddInt64(r) ==
    LET logical == AddLogical(r)
    IN  /\ req[r].at = "loaded"
        /\ objects' = [objects EXCEPT ![req[r].obj].logical = logical]
        /\ req' = [req EXCEPT ![r] = IF logical >= MaxLogical THEN IdleReq
                                     ELSE [@ EXCEPT !.at = "added", !.logical = logical]]
        /\ UNCHANGED <<holder, saved, valid, ts, at, mark, lastSaved, era, eras, given, repeated>>

\* The timestamps a response stands for: the caller counts down from logical.
Stamps(r) == {<<objects[req[r].obj].physical \div Ms, req[r].logical - i>> :
                  i \in 0 .. req[r].count - 1}

NoLease(r) == TRUE                                      \* mutant: the lease is ignored
LeaseAlive(r) == req[r].srv \in valid

\* The lease is looked at last: the lease the oracle has now.
Respond(r) ==
    /\ req[r].at = "added" /\ LeaseAlive(r)
    /\ given' = given \cup Stamps(r)
    /\ repeated' = (repeated \/ given \cap Stamps(r) # {})
    /\ req' = [req EXCEPT ![r] = IdleReq]
    /\ UNCHANGED <<holder, valid, clock>>

\* "alloc timestamp failed, lease expired".
RespondError(r) ==
    /\ req[r].at = "added" /\ ~LeaseAlive(r)
    /\ req' = [req EXCEPT ![r] = IdleReq]
    /\ UNCHANGED <<holder, valid, clock, given, repeated>>

-----------------------------------------------------------------------------
TSOStep ==
    \/ Lose
    \/ Validity
    \/ \E s \in Server :
        \/ Win(s) \/ loadTimestamp(s) \/ SyncStore(s)
        \/ UpdateSave(s) \/ UpdateStore(s) \/ StepDown(s)
        \/ \E now \in Wall : SyncSave(s, now) \/ UpdateBegin(s, now)
        \/ \E r \in Request, count \in Count : LoadPointer(r, s, count)
    \/ \E r \in Request : AddInt64(r) \/ Respond(r) \/ RespondError(r)

TSONext == TSOStep \/ \E s \in Server : Crash(s)

TSOSpec == TSOInit /\ [][TSONext]_tsoVars

-----------------------------------------------------------------------------
\* No timestamp is handed out twice, by one server or by two, across elections,
\* crashes, clocks that stand still or go back, and requests that are paused at any
\* point: the windows saved in etcd are disjoint, and so are the additions.
TimestampsUnique == ~repeated

Before(a, b) == a[1] < b[1] \/ (a[1] = b[1] /\ a[2] < b[2])

\* The server has served without a break since the call loaded the pointer.
SameTenure(r) == ts[req[r].srv] # NoTS /\ era[req[r].srv] = req[r].era

\* A call that loads the pointer after another call has returned gets a later
\* timestamp, on whatever server the two ran and however the clocks differ, unless
\* its server has stepped down in between.
TimestampOrder ==
    [][\A r \in Request : Respond(r) /\ SameTenure(r) =>
           \A b \in Stamps(r) : \A a \in req[r].floor : Before(a, b)]_tsoVars

\* "The saved time is monotonically increasing" (tso.go:178), also when it is saved
\* by different servers.
SavedMonotone == [][saved' >= saved]_tsoVars

\* "The physical time is always less than the saved timestamp" (tso.go:179): what is
\* handed out lies inside the window that the next leader will skip.
WindowCovers == \A i \in 1 .. Len(objects) : objects[i].physical < saved
=============================================================================
