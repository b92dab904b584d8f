--------------------------- MODULE LatchesProofs ---------------------------
(***************************************************************************)
(* The safety of the latch table for any number of threads, keys and       *)
(* WaitGroups.  The three invariants are inductive together with one more  *)
(* fact, LatchedByHolder: a latched key belongs to a thread that holds it. *)
(***************************************************************************)
EXTENDS Latches, TLAPS

\* The map holds no latch that nobody will release.
LatchedByHolder ==
    \A k \in Key : latchMap[k] # NoWg =>
        \E t \in Thread : pc[t] = "holding" /\ k \in keys[t]

IInv ==
    /\ TypeOK
    /\ MutualExclusion
    /\ OneWaitGroupPerHolder
    /\ LatchedByHolder
    /\ WaiterHasHolder

\* A freshly made latch table satisfies the invariant.
LEMMA InitIInv == Init => IInv
BY LatchAssumption
   DEF Init, NewLatches, IInv, TypeOK, MutualExclusion, OneWaitGroupPerHolder,
       LatchedByHolder, WaiterHasHolder, Phase

\* The keys a thread holds are latched, with a WaitGroup that is pending.
LEMMA HeldIsLatched ==
    ASSUME IInv, NEW t \in Thread, pc[t] = "holding", NEW k \in keys[t]
    PROVE  k \in Key /\ latchMap[k] \in pending /\ latchMap[k] # NoWg
BY LatchAssumption DEF IInv, TypeOK, OneWaitGroupPerHolder

\* Two commands that hold latches hold different WaitGroups.
LEMMA WaitGroupsDiffer ==
    ASSUME IInv, NEW s \in Thread, NEW t \in Thread, s # t,
           pc[s] = "holding", pc[t] = "holding", NEW j \in keys[s], NEW k \in keys[t]
    PROVE  latchMap[j] # latchMap[k]
BY DEF IInv, TypeOK, MutualExclusion, OneWaitGroupPerHolder

\* WaitForLatches only starts a command.
LEMMA WaitForLatchesIInv ==
    ASSUME IInv, NEW t \in Thread, NEW ks \in SUBSET Key, WaitForLatches(t, ks)
    PROVE  IInv'
<1>1. TypeOK'
  BY DEF IInv, TypeOK, WaitForLatches, Phase
<1>2. MutualExclusion' /\ OneWaitGroupPerHolder' /\ LatchedByHolder' /\ WaiterHasHolder'
  BY DEF IInv, TypeOK, WaitForLatches, Phase, MutualExclusion, OneWaitGroupPerHolder,
         LatchedByHolder, WaiterHasHolder
<1> QED BY <1>1, <1>2 DEF IInv

\* A failed attempt leaves the thread waiting on the latch of a holder.
LEMMA AcquireLatchesBusyIInv ==
    ASSUME IInv, NEW t \in Thread, AcquireLatchesBusy(t)
    PROVE  IInv'
<1>1. TypeOK'
  BY DEF IInv, TypeOK, AcquireLatchesBusy, Phase
<1>2. MutualExclusion' /\ OneWaitGroupPerHolder' /\ LatchedByHolder'
  BY DEF IInv, TypeOK, AcquireLatchesBusy, Phase, MutualExclusion, OneWaitGroupPerHolder,
         LatchedByHolder
<1>3. WaiterHasHolder'
  <2> SUFFICES ASSUME NEW u \in Thread, pc'[u] = "wait", waitsOn'[u] \in pending'
               PROVE  \E s \in Thread : /\ pc'[s] = "holding"
                                        /\ \E k \in keys'[s] : latchMap'[k] = waitsOn'[u]
    BY DEF WaiterHasHolder
  <2>1. CASE u = t
    <3>1. PICK k \in keys[t] : latchMap[k] # NoWg /\ waitsOn'[u] = latchMap[k]
      BY <2>1 DEF AcquireLatchesBusy, IInv, TypeOK
    <3>2. PICK s \in Thread : pc[s] = "holding" /\ k \in keys[s]
      BY <3>1 DEF IInv, TypeOK, LatchedByHolder
    <3>3. pc'[s] = "holding"
      BY <3>2 DEF AcquireLatchesBusy, IInv, TypeOK
    <3> QED BY <3>1, <3>2, <3>3 DEF AcquireLatchesBusy
  <2>2. CASE u # t
    BY <2>2 DEF AcquireLatchesBusy, IInv, TypeOK, WaiterHasHolder
  <2> QED BY <2>1, <2>2
<1> QED BY <1>1, <1>2, <1>3 DEF IInv

\* A successful attempt latches free keys with a WaitGroup nobody refers to.
LEMMA AcquireLatchesIInv ==
    ASSUME IInv, NEW t \in Thread, AcquireLatches(t)
    PROVE  IInv'
<1>1. PICK w \in FreshWg :
        /\ latchMap' = [k \in Key |-> IF k \in keys[t] THEN w ELSE latchMap[k]]
        /\ pending' = pending \cup {w}
  BY DEF AcquireLatches
<1>2. w \in Wg /\ w # NoWg /\ (\A k \in Key : latchMap[k] # w)
        /\ (\A u \in Thread : waitsOn[u] # w)
  BY LatchAssumption DEF FreshWg, Referenced
<1>3. pc' = [pc EXCEPT ![t] = "holding"] /\ keys' = keys /\ waitsOn' = waitsOn
      /\ pc[t] = "acquire" /\ (\A k \in keys[t] : k \in Key /\ latchMap[k] = NoWg)
  BY DEF AcquireLatches, AllFree, IInv, TypeOK
<1>4. TypeOK'
  BY <1>1, <1>2, <1>3 DEF IInv, TypeOK, Phase
<1>5. \A s \in Thread : pc'[s] = "holding" /\ s # t => pc[s] = "holding"
  BY <1>3 DEF IInv, TypeOK
<1>6. \A s \in Thread : pc[s] = "holding" =>
            /\ s # t /\ pc'[s] = "holding"
            /\ \A k \in keys[s] : k \notin keys[t] /\ k \in Key /\ latchMap'[k] = latchMap[k]
  BY <1>1, <1>3, HeldIsLatched DEF IInv, TypeOK
<1>7. MutualExclusion'
  BY <1>3, <1>5, <1>6 DEF IInv, MutualExclusion
<1>8. OneWaitGroupPerHolder'
  <2> SUFFICES ASSUME NEW s \in Thread, pc'[s] = "holding", NEW k \in keys'[s]
               PROVE  /\ latchMap'[k] \in pending'
                      /\ {j \in Key : latchMap'[j] = latchMap'[k]} = keys'[s]
    BY DEF OneWaitGroupPerHolder
  <2>1. CASE s = t
    BY <1>1, <1>2, <1>3, <2>1 DEF IInv, TypeOK
  <2>2. CASE s # t
    <3>1. pc[s] = "holding" /\ k \in keys[s] /\ latchMap'[k] = latchMap[k] /\ k \in Key
      BY <1>3, <1>5, <1>6, <2>2
    <3>2. latchMap[k] \in pending /\ latchMap[k] # NoWg
          /\ {j \in Key : latchMap[j] = latchMap[k]} = keys[s]
      BY <3>1, HeldIsLatched DEF IInv, OneWaitGroupPerHolder
    <3>3. \A j \in Key : latchMap'[j] = latchMap[k] <=> latchMap[j] = latchMap[k]
      BY <1>1, <1>2, <1>3, <3>1, <3>2
    <3> QED BY <1>1, <1>3, <3>1, <3>2, <3>3
  <2> QED BY <2>1, <2>2
<1>9. LatchedByHolder'
  BY <1>1, <1>3, <1>6 DEF IInv, TypeOK, LatchedByHolder
<1>10. WaiterHasHolder'
  <2> SUFFICES ASSUME NEW u \in Thread, pc'[u] = "wait", waitsOn'[u] \in pending'
               PROVE  \E s \in Thread : /\ pc'[s] = "holding"
                                        /\ \E k \in keys'[s] : latchMap'[k] = waitsOn'[u]
    BY DEF WaiterHasHolder
  <2>1. pc[u] = "wait" /\ waitsOn[u] \in pending
    BY <1>1, <1>2, <1>3 DEF IInv, TypeOK
  <2>2. PICK s \in Thread : pc[s] = "holding" /\ \E k \in keys[s] : latchMap[k] = waitsOn[u]
    BY <2>1 DEF IInv, WaiterHasHolder
  <2> QED BY <1>3, <1>6, <2>2
<1> QED BY <1>4, <1>7, <1>8, <1>9, <1>10 DEF IInv

\* A woken thread tries again.
LEMMA WaitReturnsIInv ==
    ASSUME IInv, NEW t \in Thread, WaitReturns(t)
    PROVE  IInv'
<1>1. TypeOK'
  BY DEF IInv, TypeOK, WaitReturns, Phase
<1>2. MutualExclusion' /\ OneWaitGroupPerHolder' /\ LatchedByHolder' /\ WaiterHasHolder'
  BY DEF IInv, TypeOK, WaitReturns, Phase, MutualExclusion, OneWaitGroupPerHolder,
         LatchedByHolder, WaiterHasHolder
<1> QED BY <1>1, <1>2 DEF IInv

\* A release gives up the latches of one thread and of no other.
LEMMA ReleaseLatchesIInv ==
    ASSUME IInv, NEW t \in Thread, ReleaseLatches(t)
    PROVE  IInv'
<1>1. /\ pc[t] = "holding"
      /\ pending' = pending \ {latchMap[k] : k \in keys[t]}
      /\ latchMap' = [k \in Key |-> IF k \in keys[t] THEN NoWg ELSE latchMap[k]]
      /\ pc' = [pc EXCEPT ![t] = "idle"]
      /\ keys' = [keys EXCEPT ![t] = {}]
      /\ waitsOn' = waitsOn
  BY DEF ReleaseLatches, AfterDone
<1>2. TypeOK'
  BY <1>1 DEF IInv, TypeOK, Phase
<1>3. \A s \in Thread : s # t => pc'[s] = pc[s] /\ keys'[s] = keys[s]
  BY <1>1 DEF IInv, TypeOK
<1>4. pc'[t] = "idle" /\ keys'[t] = {}
  BY <1>1 DEF IInv, TypeOK
<1>5. \A s \in Thread : s # t /\ pc[s] = "holding" =>
            \A k \in keys[s] : /\ k \in Key /\ k \notin keys[t]
                               /\ latchMap'[k] = latchMap[k]
                               /\ latchMap[k] \in pending'
  <2> TAKE s \in Thread
  <2> HAVE s # t /\ pc[s] = "holding"
  <2> TAKE k \in keys[s]
  <2>1. k \in Key /\ latchMap[k] \in pending
    BY HeldIsLatched
  <2>2. k \notin keys[t]
    BY <1>1 DEF IInv, MutualExclusion
  <2>3. \A j \in keys[t] : latchMap[j] # latchMap[k]
    BY <1>1, WaitGroupsDiffer
  <2> QED BY <1>1, <2>1, <2>2, <2>3
<1>6. MutualExclusion'
  BY <1>3, <1>4 DEF IInv, MutualExclusion
<1>7. OneWaitGroupPerHolder'
  <2> SUFFICES ASSUME NEW s \in Thread, pc'[s] = "holding", NEW k \in keys'[s]
               PROVE  /\ latchMap'[k] \in pending'
                      /\ {j \in Key : latchMap'[j] = latchMap'[k]} = keys'[s]
    BY DEF OneWaitGroupPerHolder
  <2>1. s # t /\ pc[s] = "holding" /\ k \in keys[s] /\ keys'[s] = keys[s]
    BY <1>3, <1>4
  <2>2. {j \in Key : latchMap[j] = latchMap[k]} = keys[s] /\ latchMap[k] # NoWg
    BY <2>1, HeldIsLatched DEF IInv, OneWaitGroupPerHolder
  <2>3. \A j \in Key : latchMap'[j] = latchMap[k] <=> latchMap[j] = latchMap[k]
    BY <1>1, <1>5, <2>1, <2>2
  <2> QED BY <1>5, <2>1, <2>2, <2>3
<1>8. LatchedByHolder'
  BY <1>1, <1>3 DEF IInv, TypeOK, LatchedByHolder
<1>9. WaiterHasHolder'
  <2> SUFFICES ASSUME NEW u \in Thread, pc'[u] = "wait", waitsOn'[u] \in pending'
               PROVE  \E s \in Thread : /\ pc'[s] = "holding"
                                        /\ \E k \in keys'[s] : latchMap'[k] = waitsOn'[u]
    BY DEF WaiterHasHolder
  <2>1. pc[u] = "wait" /\ waitsOn[u] \in pending
    BY <1>1, <1>3, <1>4
  <2>2. PICK s \in Thread : pc[s] = "holding" /\ \E k \in keys[s] : latchMap[k] = waitsOn[u]
    BY <2>1 DEF IInv, WaiterHasHolder
  <2>3. s # t
    BY <1>1, <2>2
  <2> QED BY <1>1, <1>3, <1>5, <2>2, <2>3
<1> QED BY <1>2, <1>6, <1>7, <1>8, <1>9 DEF IInv

\* Every step of the program preserves the invariant.
LEMMA NextIInv == IInv /\ [Next]_vars => IInv'
<1> SUFFICES ASSUME IInv, [Next]_vars PROVE IInv'
  OBVIOUS
<1>1. CASE Next
  BY <1>1, WaitForLatchesIInv, AcquireLatchesBusyIInv, AcquireLatchesIInv, WaitReturnsIInv,
     ReleaseLatchesIInv DEF Next, Step
<1>2. CASE UNCHANGED vars
  BY <1>2 DEF vars, IInv, TypeOK, MutualExclusion, OneWaitGroupPerHolder, LatchedByHolder,
              WaiterHasHolder
<1> QED BY <1>1, <1>2

\* The invariant holds in every state of every run.
THEOREM LatchesInvariant == Spec => []IInv
BY InitIInv, NextIInv, PTL DEF Spec

\* "Only one thread can hold a latch at a time" (latches.go:15), for any number of
\* threads and keys: WaitForLatches lets no two commands with a common key run.
THEOREM LatchesMutualExclusion == Spec => []MutualExclusion
<1>1. IInv => MutualExclusion
  BY DEF IInv
<1> QED BY <1>1, LatchesInvariant, PTL

\* ReleaseLatches calls Done() exactly once on a WaitGroup that is pending and that
\* latches its own keys only, so the counter never goes negative.
THEOREM LatchesOneWaitGroup == Spec => []OneWaitGroupPerHolder
<1>1. IInv => OneWaitGroupPerHolder
  BY DEF IInv
<1> QED BY <1>1, LatchesInvariant, PTL

\* No wake-up is lost: a blocked thread waits for a thread that will release.
THEOREM LatchesNoLostWakeup == Spec => []WaiterHasHolder
<1>1. IInv => WaiterHasHolder
  BY DEF IInv
<1> QED BY <1>1, LatchesInvariant, PTL
=============================================================================
