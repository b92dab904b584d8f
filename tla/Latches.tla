------------------------------ MODULE Latches ------------------------------
(***************************************************************************)
(* The latch table of kv/transaction/latches/latches.go: a map from keys   *)
(* to Go WaitGroups, guarded by one mutex, with which the transactional    *)
(* commands that write several keys keep out of each other's way.          *)
(*                                                                         *)
(* AcquireLatches and ReleaseLatches run under latchGuard from end to end, *)
(* so each is one step.  WaitForLatches is the loop of acquire attempts    *)
(* and waits around AcquireLatches; between an attempt that fails and the  *)
(* return of wg.Wait() every other thread may move.                        *)
(***************************************************************************)
EXTENDS Naturals, FiniteSets

CONSTANTS
    Thread,     \* goroutines that run commands
    Key,        \* user keys
    Wg,         \* WaitGroup objects of the heap
    NoWg        \* nil, and an absent map entry

ASSUME LatchAssumption == NoWg \notin Wg

VARIABLES
    latchMap,   \* key -> the WaitGroup it is latched with, or NoWg
    pending,    \* the WaitGroups whose counter is 1: Wait() blocks on them
    pc,         \* where each thread is in WaitForLatches and its command
    keys,       \* keysToLatch of each thread
    waitsOn     \* the WaitGroup a thread blocks on in WaitForLatches

vars == <<latchMap, pending, pc, keys, waitsOn>>

Phase == {"idle", "acquire", "wait", "holding"}

\* A WaitGroup nobody has a pointer to is garbage: new() may return its cell.
Referenced == {latchMap[k] : k \in Key} \cup {waitsOn[t] : t \in Thread}
SharedWg == Wg                                  \* mutant: a WaitGroup in use
FreshWg == Wg \ Referenced

\* No key of the command is latched.
SomeFree(ks) == ks # {} => \E k \in ks : latchMap[k] = NoWg  \* mutant: one key
AllFree(ks) == \A k \in ks : latchMap[k] = NoWg

\* What Done() leaves pending: all the keys of a command share one WaitGroup.
NoDone(ks) == pending                           \* mutant: Done() is forgotten
AfterDone(ks) == pending \ {latchMap[k] : k \in ks}

NewLatches ==
    /\ latchMap = [k \in Key |-> NoWg]
    /\ pending = {}

Init ==
    /\ NewLatches
    /\ pc = [t \in Thread |-> "idle"]
    /\ keys = [t \in Thread |-> {}]
    /\ waitsOn = [t \in Thread |-> NoWg]

-----------------------------------------------------------------------------
\* A command that writes the keys ks calls WaitForLatches.
WaitForLatches(t, ks) ==
    /\ pc[t] = "idle"
    /\ pc' = [pc EXCEPT ![t] = "acquire"]
    /\ keys' = [keys EXCEPT ![t] = ks]
    /\ UNCHANGED <<latchMap, pending, waitsOn>>

\* Some key is latched: AcquireLatches returns the WaitGroup of the first one
\* in the caller's order (any latched key, for some order) and changes nothing.
AcquireLatchesBusy(t) ==
    /\ pc[t] = "acquire"
    /\ \E k \in keys[t] :
        /\ latchMap[k] # NoWg
        /\ waitsOn' = [waitsOn EXCEPT ![t] = latchMap[k]]
    /\ pc' = [pc EXCEPT ![t] = "wait"]
    /\ UNCHANGED <<latchMap, pending, keys>>

\* No key is latched: all of them are, at once, with one new WaitGroup.
AcquireLatches(t) ==
    /\ pc[t] = "acquire"
    /\ AllFree(keys[t])
    /\ \E w \in FreshWg :
        /\ latchMap' = [k \in Key |-> IF k \in keys[t] THEN w ELSE latchMap[k]]
        /\ pending' = pending \cup {w}
    /\ pc' = [pc EXCEPT ![t] = "holding"]
    /\ UNCHANGED <<keys, waitsOn>>

\* wg.Wait() returns once the counter is zero, and the loop tries again.
WaitReturns(t) ==
    /\ pc[t] = "wait"
    /\ waitsOn[t] \notin pending
    /\ pc' = [pc EXCEPT ![t] = "acquire"]
    /\ waitsOn' = [waitsOn EXCEPT ![t] = NoWg]
    /\ UNCHANGED <<latchMap, pending, keys>>

\* Done() on the WaitGroup of one key (all of them share it), then every key is
\* deleted from the map.  A command without keys has nothing to release.
ReleaseLatches(t) ==
    /\ pc[t] = "holding"
    /\ pending' = AfterDone(keys[t])
    /\ latchMap' = [k \in Key |-> IF k \in keys[t] THEN NoWg ELSE latchMap[k]]
    /\ pc' = [pc EXCEPT ![t] = "idle"]
    /\ keys' = [keys EXCEPT ![t] = {}]
    /\ UNCHANGED waitsOn

Step(t) ==
    \/ AcquireLatchesBusy(t)
    \/ AcquireLatches(t)
    \/ WaitReturns(t)
    \/ ReleaseLatches(t)

Next ==
    \E t \in Thread :
        \/ \E ks \in SUBSET Key : WaitForLatches(t, ks)
        \/ Step(t)

Spec == Init /\ [][Next]_vars

\* A goroutine that can move does, in the end; commands arrive or do not.
FairSpec == Spec /\ \A t \in Thread : WF_vars(Step(t))

-----------------------------------------------------------------------------
\* The types of the latch table and of the threads' locals.
TypeOK ==
    /\ latchMap \in [Key -> Wg \cup {NoWg}]
    /\ pending \in SUBSET Wg
    /\ pc \in [Thread -> Phase]
    /\ keys \in [Thread -> SUBSET Key]
    /\ waitsOn \in [Thread -> Wg \cup {NoWg}]

\* "Only one thread can hold a latch at a time" (latches.go:15): two threads
\* between WaitForLatches and ReleaseLatches never share a key, whatever they
\* waited on and in whatever order they were woken.
MutualExclusion ==
    \A s, t \in Thread :
        s # t /\ pc[s] = "holding" /\ pc[t] = "holding"
            => keys[s] \cap keys[t] = {}

\* The latches of a command are one WaitGroup, still pending, that latches no key
\* of anybody else: Done() in ReleaseLatches never drives a counter below zero
\* and never wakes the waiters of another command.
OneWaitGroupPerHolder ==
    \A t \in Thread : pc[t] = "holding" =>
        \A k \in keys[t] :
            /\ latchMap[k] \in pending
            /\ {j \in Key : latchMap[j] = latchMap[k]} = keys[t]

\* A thread blocked in wg.Wait() is blocked by a command that still holds its
\* latches and will call Done(): no wake-up is lost between the failed
\* AcquireLatches, which has released latchGuard, and the Wait().
WaiterHasHolder ==
    \A t \in Thread : pc[t] = "wait" /\ waitsOn[t] \in pending =>
        \E s \in Thread : /\ pc[s] = "holding"
                          /\ \E k \in keys[s] : latchMap[k] = waitsOn[t]

\* Every blocked thread is woken and tries again.
WaiterWakes ==
    \A t \in Thread : pc[t] = "wait" ~> pc[t] = "acquire"

\* The latch table never wedges: if some thread wants latches, some thread gets
\* latches in the end (which one is not promised).
SomebodyHolds ==
    (\E t \in Thread : pc[t] \in {"acquire", "wait"})
        ~> (\E t \in Thread : pc[t] = "holding")
=============================================================================
