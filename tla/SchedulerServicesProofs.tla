---------------------- MODULE SchedulerServicesProofs ----------------------
(***************************************************************************)
(* The timestamp oracle gives out no timestamp twice, keeps its promises   *)
(* about the saved time, and gives later callers later timestamps, for any *)
(* number of servers and calls, any clocks and any window.  The id         *)
(* allocator returns no id twice, for any number of servers, any allocStep *)
(* and any behaviour of the leader key.  With both on the same key each    *)
(* behaves as it does alone, so that what is proved of each holds of both. *)
(*                                                                         *)
(* Windows is the heart of the oracle: what a server may still use lies    *)
(* between its current physical time and the end of its own window, and    *)
(* nothing else lies there.  Answers says the same of the logical parts,   *)
(* and Tenure follows a call through the leadership of its server.         *)
(***************************************************************************)
EXTENDS SchedulerServices, TLAPS

-----------------------------------------------------------------------------
(* The windows of the oracle. *)

Phys(i) == objects[i].physical
Bucket(i) == Phys(i) \div Ms

\* The server has a timestamp, or is about to have its first.
Active(s) == at[s] = "saved" \/ ts[s] # NoTS

\* Where the physical times begin that the server may still use.
Lo(s) == IF ts[s] = NoTS THEN mark[s] ELSE Phys(ts[s]) + Ms

Object == [physical : Nat, logical : Nat, srv : Server]

Types ==
    /\ holder \in Server \cup {None} /\ saved \in Nat
    /\ objects \in Seq(Object)
    /\ ts \in [Server -> Nat] /\ at \in [Server -> Phase]
    /\ mark \in [Server -> Nat] /\ lastSaved \in [Server -> Nat]
    /\ era \in [Server -> Nat] /\ eras \in Nat

\* The leader loop of one server: its phase, its pointer and its own window.
Loop(s) ==
    /\ ts[s] \in 0 .. Len(objects)
    /\ at[s] \in {"follower", "elected", "loaded", "saved"} => ts[s] = NoTS
    /\ at[s] \in {"serving", "window", "store"} => ts[s] # NoTS
    /\ lastSaved[s] <= saved
    /\ at[s] = "loaded" /\ holder = s => mark[s] = saved
    /\ at[s] \in {"saved", "serving", "window", "store"} /\ holder = s => lastSaved[s] = saved
    /\ ts[s] # NoTS => Phys(ts[s]) < lastSaved[s]
    /\ at[s] \in {"saved", "store"} => mark[s] < lastSaved[s] /\ lastSaved[s] <= mark[s] + SaveInterval
    /\ at[s] \in {"serving", "window"} => lastSaved[s] <= Phys(ts[s]) + SaveInterval
    /\ at[s] \in {"window", "store"} => Phys(ts[s]) + Ms <= mark[s]

\* An object lies below what the server may use, or above its window.
Outside(s, i) == \/ Phys(i) + Ms <= Lo(s)
                 \/ holder # s /\ lastSaved[s] + Ms <= Phys(i)

\* The windows of two servers are apart, and that of the holder is the last.
Apart(s, t) == \/ holder # s /\ lastSaved[s] + Ms <= Lo(t)
               \/ holder # t /\ lastSaved[t] + Ms <= Lo(s)

Windows ==
    /\ Types
    /\ \A s \in Server : Loop(s)
    /\ \A i \in 1 .. Len(objects) : Phys(i) < saved
    /\ \A i, j \in 1 .. Len(objects) : i # j => Phys(i) + Ms <= Phys(j) \/ Phys(j) + Ms <= Phys(i)
    /\ \A s \in Server, i \in 1 .. Len(objects) : Active(s) => Outside(s, i)
    /\ \A s, t \in Server : s # t /\ Active(s) /\ Active(t) => Apart(s, t)

-----------------------------------------------------------------------------
\* Times a millisecond apart fall into different milliseconds.
LEMMA DivApart ==
    ASSUME NEW m \in Nat, m > 0, NEW a \in Nat, NEW b \in Nat, a + m <= b
    PROVE  a \div m < b \div m
  BY SMTT(60)

LEMMA LeTrans ==
    ASSUME NEW a \in Nat, NEW b \in Nat, NEW c \in Nat, a <= b, b <= c
    PROVE  a <= c
  OBVIOUS

\* A time below the lower end of a window or above its upper end is apart from one inside.
LEMMA ApartInside ==
    ASSUME NEW d \in Nat, NEW p \in Nat, NEW lo \in Nat, NEW m \in Nat, NEW hi \in Nat,
           p + d <= lo \/ hi + d <= p, lo <= m, m < hi
    PROVE  p + d <= m \/ m + d <= p
  OBVIOUS

LEMMA TimeTypes ==
    ASSUME Types
    PROVE  /\ \A i \in 1 .. Len(objects) : Phys(i) \in Nat
           /\ Len(objects) \in Nat
<1>1. objects \in Seq(Object)
  BY Zenon DEF Types
<1>2. Len(objects) \in Nat /\ \A i \in 1 .. Len(objects) : objects[i] \in Object
  BY <1>1
<1> QED
  BY <1>2, Zenon DEF Phys, Object

\* Steps that leave the physical times and the leader loops alone.
LEMMA WindowsFrame ==
    ASSUME Windows, Types', UNCHANGED <<holder, saved, ts, at, mark, lastSaved>>,
           Len(objects') = Len(objects),
           \A i \in 1 .. Len(objects) : objects'[i].physical = objects[i].physical
    PROVE  Windows'
<1>1. \A s \in Server : ts[s] # NoTS => ts[s] \in 1 .. Len(objects)
  BY TimeTypes DEF Windows, Loop, NoTS
<1>2. \A s \in Server : Lo(s)' = Lo(s) /\ Active(s)' = Active(s)
  BY <1>1, Zenon DEF Lo, Active, Phys
<1>3. \A s \in Server : Loop(s)'
  <2> SUFFICES ASSUME NEW s \in Server PROVE Loop(s)'
    BY Zenon
  <2>1. Loop(s) /\ (ts[s] # NoTS => Phys(ts[s])' = Phys(ts[s]))
    BY <1>1, Zenon DEF Windows, Phys
  <2> QED
    BY <2>1, Zenon DEF Loop
<1>4. \A s \in Server, i \in 1 .. Len(objects') : Active(s)' => Outside(s, i)'
  BY <1>2, Zenon DEF Windows, Outside, Phys
<1>5. \A s, t \in Server : s # t /\ Active(s)' /\ Active(t)' => Apart(s, t)'
  BY <1>2, Zenon DEF Windows, Apart
<1> QED
  BY <1>3, <1>4, <1>5, Zenon DEF Windows, Phys

\* Steps of the leader loop of s that create no object: what the others may use, and
\* what lies outside it, stays as it is.
LEMMA LoopMoves ==
    ASSUME Windows, Types', NEW s \in Server, UNCHANGED <<holder, objects>>,
           saved <= saved', saved' # saved => holder = s,
           \A t \in Server \ {s} : /\ ts'[t] = ts[t] /\ at'[t] = at[t]
                                   /\ mark'[t] = mark[t] /\ lastSaved'[t] = lastSaved[t],
           Loop(s)',
           Active(s)' => /\ \A i \in 1 .. Len(objects) : Outside(s, i)'
                         /\ \A t \in Server \ {s} : Active(t) => Apart(s, t)'
    PROVE  Windows'
<1>0. Types /\ saved \in Nat /\ saved' \in Nat
  BY Zenon DEF Windows, Types
<1>1. \A t \in Server \ {s} : /\ (ts[t] # NoTS => Phys(ts[t])' = Phys(ts[t]))
                              /\ Lo(t)' = Lo(t) /\ Active(t)' = Active(t)
  BY Zenon DEF Lo, Active, Phys
<1>2. \A t \in Server : Loop(t)'
  <2> SUFFICES ASSUME NEW t \in Server, t # s PROVE Loop(t)'
    BY Zenon
  <2>1. Loop(t) /\ lastSaved[t] \in Nat
    BY Zenon DEF Windows, Types
  <2> QED
    BY <1>0, <1>1, <2>1 DEF Loop
<1>3. \A t \in Server, i \in 1 .. Len(objects') : Active(t)' => Outside(t, i)'
  <2>1. \A t \in Server \ {s}, i \in 1 .. Len(objects) : Outside(t, i)' <=> Outside(t, i)
    BY <1>1, Zenon DEF Outside, Phys
  <2> QED
    BY <1>1, <2>1, Zenon DEF Windows
<1>4. \A t, u \in Server : t # u /\ Active(t)' /\ Active(u)' => Apart(t, u)'
  <2> SUFFICES ASSUME NEW t \in Server, NEW u \in Server, t # u, Active(t)', Active(u)'
               PROVE  Apart(t, u)'
    BY Zenon
  <2>1. CASE t # s /\ u # s
    BY <1>1, <2>1, Zenon DEF Windows, Apart
  <2>2. CASE t = s
    BY <1>1, <2>2, Zenon
  <2>3. CASE u = s
    <3>1. Apart(s, t)'
      BY <1>1, <2>3, Zenon
    <3> QED
      BY <2>3, <3>1, Zenon DEF Apart
  <2> QED
    BY <2>1, <2>2, <2>3, Zenon
<1>5. \A i \in 1 .. Len(objects') : Phys(i)' < saved'
  <2>1. \A i \in 1 .. Len(objects) : Phys(i)' = Phys(i) /\ Phys(i) \in Nat /\ Phys(i) < saved
    BY <1>0, TimeTypes, Zenon DEF Phys, Windows
  <2> QED
    BY <1>0, <2>1
<1>6. \A i, j \in 1 .. Len(objects') : i # j => Phys(i)' + Ms <= Phys(j)' \/ Phys(j)' + Ms <= Phys(i)'
  BY Zenon DEF Windows, Phys
<1> QED
  BY <1>2, <1>3, <1>4, <1>5, <1>6, Zenon DEF Windows

\* The key is created by a server that has nothing yet, or goes away.
LEMMA HolderMoves ==
    ASSUME Windows, Types', UNCHANGED <<saved, objects, ts, mark, lastSaved>>,
           \A t \in Server : at'[t] = at[t] \/ (at[t] = "follower" /\ at'[t] = "elected"),
           holder' \in Server => at'[holder'] = "elected"
    PROVE  Windows'
<1>1. \A t \in Server : Loop(t) /\ Phys(ts[t])' = Phys(ts[t]) /\ Lo(t)' = Lo(t)
  BY Zenon DEF Windows, Phys, Lo
<1>2. \A t \in Server : Active(t)' => Active(t) /\ holder' # t
  BY <1>1, Zenon DEF Active, Loop
<1>3. \A t \in Server : Loop(t)'
  <2> SUFFICES ASSUME NEW t \in Server PROVE Loop(t)'
    BY Zenon
  <2>1. CASE at'[t] = at[t] /\ holder' # t
    BY <1>1, <2>1, Zenon DEF Loop
  <2>2. CASE at'[t] = "elected"
    BY <1>1, <2>2, Zenon DEF Loop
  <2> QED
    BY <2>1, <2>2, Zenon
<1>4. \A t \in Server, i \in 1 .. Len(objects') : Active(t)' => Outside(t, i)'
  BY <1>1, <1>2, Zenon DEF Windows, Outside, Phys
<1>5. \A t, u \in Server : t # u /\ Active(t)' /\ Active(u)' => Apart(t, u)'
  BY <1>1, <1>2, Zenon DEF Windows, Apart
<1> QED
  BY <1>3, <1>4, <1>5, Zenon DEF Windows, Phys

\* A new object takes the first time that its server may use.
LEMMA StoreWindows ==
    ASSUME Windows, Types', NEW s \in Server, at[s] \in {"saved", "store"},
           StorePointer(s, mark[s]), UNCHANGED <<holder, saved, lastSaved>>
    PROVE  Windows'
<1>a. PICK L \in Nat : L = Len(objects)
  BY TimeTypes, Zenon DEF Windows
<1>b. PICK m \in Nat : m = mark[s]
  BY Zenon DEF Windows, Types
<1>c. Types
  BY Zenon DEF Windows
<1>0. /\ Types /\ L \in Nat /\ \A i \in 1 .. L : Phys(i) \in Nat
      /\ Ms \in Nat /\ Ms > 0 /\ SaveInterval \in Nat /\ SaveInterval > 0
      /\ saved \in Nat /\ m \in Nat /\ \A t \in Server : lastSaved[t] \in Nat
  <2>1. \A i \in 1 .. L : Phys(i) \in Nat
    BY <1>a, <1>c, TimeTypes, Zenon
  <2>2. saved \in Nat /\ \A t \in Server : lastSaved[t] \in Nat
    BY <1>c, Zenon DEF Types
  <2> QED
    BY <1>c, <2>1, <2>2, TSOAssumption
<1>1. /\ Len(objects') = L + 1
      /\ \A i \in 1 .. L : Phys(i)' = Phys(i)
      /\ Phys(L + 1)' = m
  <2>1. PICK o : o = [physical |-> m, logical |-> 0, srv |-> s]
    BY Zenon
  <2>2. objects' = Append(objects, o)
    BY <1>b, <2>1, Zenon DEF StorePointer
  <2>3. objects \in Seq(Object) /\ o \in Object /\ o.physical = m
    BY <1>0, <2>1, Zenon DEF Types, Object
  <2>4. /\ Len(objects') = L + 1 /\ objects'[L + 1] = o
        /\ \A i \in 1 .. L : objects'[i] = objects[i]
    BY <1>a, <2>2, <2>3
  <2> QED
    BY <2>3, <2>4, Zenon DEF Phys
<1>2. /\ ts'[s] = L + 1 /\ at'[s] = "serving" /\ mark'[s] = 0
      /\ \A t \in Server \ {s} : ts'[t] = ts[t] /\ at'[t] = at[t] /\ mark'[t] = mark[t]
  BY <1>a, <1>b, <1>0, Zenon DEF StorePointer, Types
<1>3. /\ Active(s) /\ m < lastSaved[s] /\ lastSaved[s] <= saved
      /\ lastSaved[s] <= m + SaveInterval
      /\ Lo(s) <= m
  BY <1>a, <1>b, <1>0 DEF Windows, Loop, Active, Lo, NoTS
<1>4. Lo(s)' = m + Ms /\ Active(s)'
  BY <1>a, <1>b, <1>0, <1>1, <1>2 DEF Lo, Active, NoTS
<1>5. \A t \in Server \ {s} :
         /\ ts[t] # NoTS => Phys(ts[t])' = Phys(ts[t]) /\ ts[t] \in 1 .. L
         /\ Lo(t)' = Lo(t) /\ Active(t)' = Active(t)
  <2> SUFFICES ASSUME NEW t \in Server \ {s}
               PROVE  /\ ts[t] # NoTS => Phys(ts[t])' = Phys(ts[t]) /\ ts[t] \in 1 .. L
                      /\ Lo(t)' = Lo(t) /\ Active(t)' = Active(t)
    BY Zenon
  <2>1. ts[t] \in 0 .. L
    BY <1>a, Zenon DEF Windows, Loop
  <2>2. ts[t] # NoTS => Phys(ts[t])' = Phys(ts[t]) /\ ts[t] \in 1 .. L
    BY <1>0, <1>1, <1>2, <2>1 DEF NoTS, Phys
  <2> QED
    BY <1>2, <2>2, Zenon DEF Lo, Active, Phys
<1>6. Lo(s) \in Nat /\ \A t \in Server \ {s} : Lo(t) \in Nat
  <2>1. \A t \in Server : ts[t] # NoTS => ts[t] \in 1 .. L
    BY <1>a, <1>b, <1>0 DEF Windows, Loop, NoTS
  <2>2. \A t \in Server : mark[t] \in Nat
    BY <1>a, <1>b, <1>0, Zenon DEF Types
  <2>3. \A t \in Server : ts[t] # NoTS => Phys(ts[t]) + Ms \in Nat
    BY <1>0, <2>1
  <2> QED
    BY <2>2, <2>3, Zenon DEF Lo
<1>7. Loop(s)'
  BY <1>a, <1>b, <1>0, <1>1, <1>2, <1>3 DEF Loop, NoTS, Windows
<1>8. \A t \in Server \ {s} : Loop(t)'
  <2> SUFFICES ASSUME NEW t \in Server \ {s} PROVE Loop(t)'
    BY Zenon
  <2>1. Loop(t)
    BY Zenon DEF Windows
  <2> QED
    BY <1>a, <1>b, <1>0, <1>1, <1>2, <1>5, <2>1 DEF Loop
<1>9. \A i \in 1 .. L + 1 : Phys(i)' < saved'
  BY <1>a, <1>b, <1>0, <1>1, <1>3 DEF Windows
<1>10. \A i \in 1 .. L : Phys(i) + Ms <= m \/ m + Ms <= Phys(i)
  <2> SUFFICES ASSUME NEW i \in 1 .. L PROVE Phys(i) + Ms <= m \/ m + Ms <= Phys(i)
    BY Zenon
  <2>1. Outside(s, i)
    BY <1>a, <1>3, Zenon DEF Windows
  <2> QED
    BY <1>a, <1>b, <1>0, <1>3, <1>6, <2>1, ApartInside, Zenon DEF Outside
<1>11. \A i, j \in 1 .. L + 1 :
          i # j => Phys(i)' + Ms <= Phys(j)' \/ Phys(j)' + Ms <= Phys(i)'
  <2> SUFFICES ASSUME NEW i \in 1 .. L + 1, NEW j \in 1 .. L + 1, i # j
               PROVE  Phys(i)' + Ms <= Phys(j)' \/ Phys(j)' + Ms <= Phys(i)'
    BY Zenon
  <2>1. CASE i \in 1 .. L /\ j \in 1 .. L
    BY <1>a, <1>b, <1>0, <1>1, <2>1, Zenon DEF Windows
  <2>2. CASE i = L + 1 /\ j \in 1 .. L
    BY <1>a, <1>b, <1>0, <1>1, <1>10, <2>2, Zenon
  <2>3. CASE j = L + 1 /\ i \in 1 .. L
    BY <1>a, <1>b, <1>0, <1>1, <1>10, <2>3, Zenon
  <2>4. i \in 1 .. L \/ i = L + 1
    BY <1>0
  <2>5. j \in 1 .. L \/ j = L + 1
    BY <1>0
  <2> QED
    BY <2>1, <2>2, <2>3, <2>4, <2>5, Zenon
<1>12. \A t \in Server, i \in 1 .. L + 1 : Active(t)' => Outside(t, i)'
  <2> SUFFICES ASSUME NEW t \in Server, NEW i \in 1 .. L + 1, Active(t)' PROVE Outside(t, i)'
    BY Zenon
  <2>1. CASE t = s /\ i = L + 1
    BY <1>a, <1>1, <1>4, <1>0, <2>1 DEF Outside
  <2>2. CASE t = s /\ i \in 1 .. L
    <3>1. Outside(s, i)
      BY <1>a, <1>3, <2>2, Zenon DEF Windows
    <3>2. Phys(i) \in Nat /\ Phys(i)' = Phys(i) /\ Lo(s)' = m + Ms
      BY <1>0, <1>1, <1>4, <2>2, Zenon
    <3>3. Phys(i) + Ms <= m + Ms \/ (holder # s /\ lastSaved[s] + Ms <= Phys(i))
      BY <1>0, <1>3, <1>6, <3>1, <3>2 DEF Outside
    <3> QED
      BY <2>2, <3>2, <3>3, Zenon DEF Outside
  <2>3. CASE t # s /\ i = L + 1
    <3>1. Apart(s, t)
      BY <1>a, <1>3, <1>5, <2>3, Zenon DEF Windows
    <3>2. Lo(t) \in Nat /\ Lo(t)' = Lo(t) /\ Phys(i)' = m
      BY <1>1, <1>5, <1>6, <2>3, Zenon
    <3>3. m + Ms <= Lo(t) \/ (holder # t /\ lastSaved[t] + Ms <= m)
      BY <1>0, <1>3, <1>6, <3>1, <3>2 DEF Apart
    <3> QED
      BY <2>3, <3>2, <3>3, Zenon DEF Outside
  <2>4. CASE t # s /\ i \in 1 .. L
    <3>1. Outside(t, i)
      BY <1>a, <1>5, <2>4, Zenon DEF Windows
    <3> QED
      BY <1>a, <1>1, <1>5, <2>4, <3>1, Zenon DEF Outside
  <2> QED
    BY <1>a, <1>b, <1>0, <2>1, <2>2, <2>3, <2>4
<1>13. \A t, u \in Server : t # u /\ Active(t)' /\ Active(u)' => Apart(t, u)'
  <2>1. \A t \in Server \ {s} : Active(t) => Apart(s, t)' /\ Apart(t, s)'
    <3> SUFFICES ASSUME NEW t \in Server \ {s}, Active(t) PROVE Apart(s, t)' /\ Apart(t, s)'
      BY Zenon
    <3>1. Apart(s, t)
      BY <1>a, <1>3, Zenon DEF Windows
    <3>2. \/ holder # s /\ lastSaved[s] + Ms <= Lo(t)
          \/ holder # t /\ lastSaved[t] + Ms <= m + Ms
      BY <1>0, <1>3, <1>6, <3>1 DEF Apart
    <3> QED
      BY <1>4, <1>5, <3>2, Zenon DEF Apart
  <2>2. \A t, u \in Server \ {s} : t # u /\ Active(t) /\ Active(u) => Apart(t, u)'
    BY <1>a, <1>5, Zenon DEF Windows, Apart
  <2> QED
    BY <1>a, <1>5, <2>1, <2>2, Zenon
<1> QED
  BY <1>a, <1>1, <1>7, <1>8, <1>9, <1>11, <1>12, <1>13, Zenon DEF Windows

-----------------------------------------------------------------------------
(* The actions keep the windows apart.                                     *)

LEMMA WinWindows ==
    ASSUME Windows, NEW s \in Server, Win(s)
    PROVE  Windows'
<1>1. Types'
  BY DEF Windows, Types, Win, CreateLeaderKey, Phase
<1>2. at'[s] = "elected" /\ holder' = s /\ \A t \in Server \ {s} : at'[t] = at[t]
  BY Zenon DEF Windows, Types, Win, CreateLeaderKey
<1> QED
  BY <1>1, <1>2, HolderMoves, Zenon DEF Win

LEMMA LoseWindows ==
    ASSUME Windows, Lose
    PROVE  Windows'
<1>1. Types' /\ holder' \notin Server
  BY ServerAssumption, Zenon DEF Windows, Types, Lose, DropLeaderKey, clock
<1> QED
  BY <1>1, HolderMoves, Zenon DEF Lose, clock

LEMMA LoadWindows ==
    ASSUME Windows, NEW s \in Server, loadTimestamp(s)
    PROVE  Windows'
<1>0. Types /\ Loop(s)
  BY Zenon DEF Windows
<1>1. Types'
  BY <1>0, Zenon DEF Types, loadTimestamp, Phase
<1>2. /\ at'[s] = "loaded" /\ mark'[s] = saved
      /\ \A t \in Server \ {s} : at'[t] = at[t] /\ mark'[t] = mark[t]
  BY <1>0, Zenon DEF Types, loadTimestamp
<1>3. Loop(s)' /\ ~Active(s)'
  BY <1>0, <1>2, Zenon DEF Loop, Active, loadTimestamp
<1> QED
  BY <1>0, <1>1, <1>2, <1>3, LoopMoves DEF loadTimestamp, Types

LEMMA StepDownWindows ==
    ASSUME Windows, NEW s \in Server, StepDown(s) \/ Crash(s)
    PROVE  Windows'
<1>0. Types /\ Loop(s)
  BY Zenon DEF Windows
<1>1. Types'
  <2>1. /\ at' = [at EXCEPT ![s] = "follower"] /\ ts' = [ts EXCEPT ![s] = NoTS]
        /\ mark' = [mark EXCEPT ![s] = 0]
        /\ lastSaved' = lastSaved \/ lastSaved' = [lastSaved EXCEPT ![s] = 0]
        /\ UNCHANGED <<holder, saved, objects, era, eras>>
    BY Zenon DEF StepDown, Crash
  <2> QED
    <3>1. at' \in [Server -> Phase] /\ ts' \in [Server -> Nat] /\ mark' \in [Server -> Nat]
      BY <1>0, <2>1, Zenon DEF Types, Phase, NoTS
    <3>2. lastSaved' \in [Server -> Nat]
      BY <1>0, <2>1 DEF Types
    <3> QED
      BY <1>0, <2>1, <3>1, <3>2, Zenon DEF Types
<1>2. /\ at'[s] = "follower" /\ ts'[s] = NoTS /\ lastSaved'[s] \in {0, lastSaved[s]}
      /\ \A t \in Server \ {s} : /\ at'[t] = at[t] /\ ts'[t] = ts[t]
                                 /\ mark'[t] = mark[t] /\ lastSaved'[t] = lastSaved[t]
  BY <1>0, ZenonT(30) DEF Types, StepDown, Crash
<1>3. UNCHANGED <<holder, saved, objects>>
  BY Zenon DEF StepDown, Crash
<1>4. ~Active(s)'
  BY <1>2, Zenon DEF Active
<1>5. Loop(s)'
  <2>1. Len(objects) \in Nat /\ saved \in Nat
    BY <1>0, TimeTypes, Zenon DEF Types
  <2> QED
    BY <1>0, <1>2, <1>3, <2>1 DEF Loop, NoTS
<1> QED
  <2>1. saved <= saved'
    BY <1>0, <1>3 DEF Types
  <2> QED
    BY <1>1, <1>2, <1>3, <1>4, <1>5, <2>1, LoopMoves, Zenon

\* The window of a new leader begins a millisecond after the end of all others.
LEMMA SyncSaveWindows ==
    ASSUME Windows, NEW s \in Server, NEW now \in Wall, SyncSave(s, now)
    PROVE  Windows' /\ saved <= saved'
<1>0. Types /\ Loop(s) /\ at[s] = "loaded" /\ holder = s /\ ts[s] = NoTS /\ mark[s] = saved
  BY Zenon DEF Windows, SyncSave, saveTimestamp, leaderCmp, Loop
<1>a. PICK n : n = SyncNext(mark[s], now)
  BY Zenon
<1>b. Ms \in Nat /\ Ms > 0 /\ SaveInterval \in Nat /\ SaveInterval > 0 /\ now \in Nat
  BY TSOAssumption
<1>c. saved \in Nat /\ n \in Nat /\ saved + Ms <= n
  BY <1>0, <1>a, <1>b DEF Types, SyncNext
<1>1. saved' = n + SaveInterval /\ UNCHANGED <<holder, objects, ts, era, eras>>
  BY <1>a, Zenon DEF SyncSave, saveTimestamp
<1>2. \/ /\ at' = [at EXCEPT ![s] = "saved"] /\ mark' = [mark EXCEPT ![s] = n]
         /\ lastSaved' = [lastSaved EXCEPT ![s] = n + SaveInterval]
      \/ /\ at' = [at EXCEPT ![s] = "failed"] /\ mark' = mark /\ lastSaved' = lastSaved
  BY <1>a, Zenon DEF SyncSave
<1>3. Types'
  <2>1. saved' \in Nat /\ n + SaveInterval \in Nat
    BY <1>b, <1>c, <1>1
  <2>a. at \in [Server -> Phase] /\ mark \in [Server -> Nat] /\ lastSaved \in [Server -> Nat]
    BY <1>0, Zenon DEF Types
  <2>b. "saved" \in Phase /\ "failed" \in Phase
    BY Zenon DEF Phase
  <2>2. /\ at' \in [Server -> Phase] /\ mark' \in [Server -> Nat]
        /\ lastSaved' \in [Server -> Nat]
    BY <1>c, <1>2, <2>a, <2>b, <2>1, ZenonT(30)
  <2> QED
    BY <1>0, <1>1, <2>1, <2>2, Zenon DEF Types
<1>4. \A t \in Server \ {s} : /\ ts'[t] = ts[t] /\ at'[t] = at[t]
                              /\ mark'[t] = mark[t] /\ lastSaved'[t] = lastSaved[t]
  BY <1>0, <1>1, <1>2, Zenon DEF Types
<1>5. saved <= saved' /\ Len(objects) \in Nat /\ lastSaved[s] \in Nat
  BY <1>0, <1>b, <1>c, <1>1, TimeTypes DEF Types
<1>6. CASE at'[s] = "failed" /\ lastSaved'[s] = lastSaved[s]
  <2>1. Loop(s)' /\ ~Active(s)'
    BY <1>0, <1>1, <1>5, <1>6, <1>b, <1>c DEF Loop, Active, NoTS
  <2> QED
    BY <1>0, <1>1, <1>3, <1>4, <1>5, <2>1, LoopMoves, Zenon
<1>7. CASE at'[s] = "saved" /\ mark'[s] = n /\ lastSaved'[s] = n + SaveInterval
  <2>1. Loop(s)'
    BY <1>0, <1>1, <1>5, <1>7, <1>b, <1>c DEF Loop, NoTS
  <2>2. Lo(s)' = n
    BY <1>0, <1>1, <1>7, Zenon DEF Lo
  <2>3. ASSUME NEW i \in 1 .. Len(objects) PROVE Outside(s, i)'
    <3>1. Phys(i) < saved /\ Phys(i) \in Nat /\ Phys(i)' = Phys(i)
      BY <1>0, <1>1, TimeTypes, Zenon DEF Windows, Phys
    <3>2. Phys(i) + Ms <= n
      BY <1>b, <1>c, <3>1
    <3> QED
      BY <2>2, <3>1, <3>2, Zenon DEF Outside
  <2>4. ASSUME NEW t \in Server \ {s} PROVE Apart(s, t)'
    <3>1. lastSaved[t] <= saved /\ lastSaved[t] \in Nat
      BY <1>0, Zenon DEF Windows, Loop, Types
    <3>2. lastSaved[t] + Ms <= n
      BY <1>b, <1>c, <3>1
    <3> QED
      BY <1>0, <1>1, <1>4, <2>2, <3>2, Zenon DEF Apart
  <2> QED
    BY <1>0, <1>1, <1>3, <1>4, <1>5, <2>1, <2>3, <2>4, LoopMoves, Zenon
<1> QED
  <2>1. \/ at'[s] = "failed" /\ lastSaved'[s] = lastSaved[s]
        \/ at'[s] = "saved" /\ mark'[s] = n /\ lastSaved'[s] = n + SaveInterval
    BY <1>0, <1>2, Zenon DEF Types
  <2> QED
    BY <1>5, <1>6, <1>7, <2>1, Zenon

\* The next physical time is at least a millisecond later than the current one.
LEMMA UpdateBeginWindows ==
    ASSUME Windows, NEW s \in Server, NEW now \in Wall, UpdateBegin(s, now)
    PROVE  Windows'
<1>0. Types /\ Loop(s) /\ at[s] = "serving" /\ ts[s] # NoTS /\ Len(objects) \in Nat
  BY TimeTypes, Zenon DEF Windows, UpdateBegin, Loop
<1>a. PICK p : p = Phys(ts[s])
  BY Zenon
<1>b. /\ Ms \in Nat /\ Ms > 0 /\ SaveInterval \in Nat /\ now \in Nat /\ Wall \subseteq Nat
      /\ p \in Nat /\ lastSaved[s] \in Nat
  <2>1. ts[s] \in 1 .. Len(objects)
    BY <1>0 DEF Loop, NoTS
  <2> QED
    BY <1>0, <1>a, <2>1, TimeTypes, TSOAssumption DEF Types
<1>1. PICK n \in Wall \cup {p + Ms} :
         /\ UpdateNext(s, now, n)
         /\ mark' = [mark EXCEPT ![s] = n]
         /\ at' = [at EXCEPT ![s] = IF WindowUsedUp(s, n) THEN "window" ELSE "store"]
  BY <1>a, Zenon DEF UpdateBegin, Phys
<1>2. n \in Nat /\ p + Ms <= n
  BY <1>a, <1>b, <1>1 DEF UpdateNext, Phys
<1>3. UNCHANGED <<holder, saved, objects, ts, lastSaved, era, eras>>
  BY Zenon DEF UpdateBegin
<1>4. Types'
  BY <1>0, <1>1, <1>2, <1>3, Zenon DEF Types, Phase
<1>5. /\ mark'[s] = n
      /\ at'[s] = "window" \/ (at'[s] = "store" /\ ~WindowUsedUp(s, n))
      /\ \A t \in Server \ {s} : mark'[t] = mark[t] /\ at'[t] = at[t]
  BY <1>0, <1>1, Zenon DEF Types
<1>6. Phys(ts[s])' = p
  BY <1>a, <1>3, Zenon DEF Phys
<1>7. Lo(s)' = Lo(s) /\ Active(s)
  BY <1>0, <1>3, Zenon DEF Lo, Active, Phys
<1>8. Loop(s)'
  <2>1. /\ p < lastSaved[s] /\ lastSaved[s] <= p + SaveInterval /\ ts[s] \in 0 .. Len(objects)
        /\ holder = s => lastSaved[s] = saved
        /\ lastSaved[s] <= saved
    BY <1>0, <1>a, Zenon DEF Loop
  <2>2. at'[s] = "store" => n < lastSaved[s] /\ lastSaved[s] <= n + SaveInterval
    BY <1>b, <1>2, <1>5, <2>1 DEF WindowUsedUp
  <2> QED
    BY <1>0, <1>2, <1>3, <1>5, <1>6, <2>1, <2>2, Zenon DEF Loop
<1>9. \A i \in 1 .. Len(objects) : Outside(s, i)'
  <2>1. \A i \in 1 .. Len(objects) : Outside(s, i) /\ Phys(i)' = Phys(i)
    BY <1>3, <1>7, Zenon DEF Windows, Phys
  <2> QED
    BY <1>3, <1>7, <2>1, Zenon DEF Outside
<1>10. \A t \in Server \ {s} : Active(t) => Apart(s, t)'
  <2>1. \A t \in Server \ {s} : Lo(t)' = Lo(t)
    BY <1>3, <1>5, Zenon DEF Lo, Phys
  <2>2. \A t \in Server \ {s} : Active(t) => Apart(s, t)
    BY <1>7, Zenon DEF Windows
  <2> QED
    BY <1>3, <1>7, <2>1, <2>2, Zenon DEF Apart
<1> QED
  <2>1. saved <= saved'
    BY <1>0, <1>3 DEF Types
  <2> QED
    BY <1>3, <1>4, <1>5, <1>8, <1>9, <1>10, <2>1, LoopMoves, Zenon

\* The holder extends its window: the others are below what it may use.
LEMMA UpdateSaveWindows ==
    ASSUME Windows, NEW s \in Server, UpdateSave(s)
    PROVE  Windows' /\ saved <= saved'
<1>0. /\ Types /\ Loop(s) /\ at[s] = "window" /\ ts[s] # NoTS /\ holder = s
      /\ lastSaved[s] = saved /\ Len(objects) \in Nat
  BY TimeTypes, Zenon DEF Windows, UpdateSave, saveTimestamp, leaderCmp, Loop
<1>a. PICK p : p = Phys(ts[s])
  BY Zenon
<1>b. PICK n : n = mark[s]
  BY Zenon
<1>c. /\ Ms \in Nat /\ Ms > 0 /\ SaveInterval \in Nat /\ SaveInterval > 0
      /\ p \in Nat /\ saved \in Nat /\ n \in Nat
  <2>1. ts[s] \in 1 .. Len(objects)
    BY <1>0 DEF Loop, NoTS
  <2> QED
    BY <1>0, <1>a, <1>b, <2>1, TimeTypes, TSOAssumption DEF Types
<1>d. p + Ms <= n /\ saved <= p + SaveInterval /\ p < saved /\ ts[s] \in 0 .. Len(objects)
  BY <1>0, <1>a, <1>b, Zenon DEF Loop
<1>1. saved' = n + SaveInterval /\ UNCHANGED <<holder, objects, ts, mark, era, eras>>
  BY <1>b, Zenon DEF UpdateSave, saveTimestamp
<1>2. \/ /\ at' = [at EXCEPT ![s] = "store"]
         /\ lastSaved' = [lastSaved EXCEPT ![s] = n + SaveInterval]
      \/ at' = [at EXCEPT ![s] = "failed"] /\ lastSaved' = lastSaved
  BY <1>b, Zenon DEF UpdateSave
<1>3. Types'
  <2>1. saved' \in Nat /\ n + SaveInterval \in Nat
    BY <1>c, <1>1
  <2>2. at' \in [Server -> Phase] /\ lastSaved' \in [Server -> Nat]
    BY <1>0, <1>2, <2>1, ZenonT(30) DEF Types, Phase
  <2> QED
    BY <1>0, <1>1, <2>1, <2>2, Zenon DEF Types
<1>4. /\ \/ at'[s] = "store" /\ lastSaved'[s] = n + SaveInterval
         \/ at'[s] = "failed" /\ lastSaved'[s] = saved
      /\ \A t \in Server \ {s} : at'[t] = at[t] /\ lastSaved'[t] = lastSaved[t]
  BY <1>0, <1>2, Zenon DEF Types
<1>5. saved <= saved' /\ Phys(ts[s])' = p
  <2>1. saved <= saved'
    BY <1>c, <1>d, <1>1
  <2> QED
    BY <1>a, <1>1, <2>1, Zenon DEF Phys
<1>6. Loop(s)'
  <2>0. /\ p < n + SaveInterval /\ n < n + SaveInterval /\ saved <= n + SaveInterval
        /\ n + SaveInterval <= n + SaveInterval
    BY <1>c, <1>d
  <2>1. CASE at'[s] = "store" /\ lastSaved'[s] = n + SaveInterval
    BY <1>0, <1>b, <1>d, <1>1, <1>5, <2>0, <2>1, Zenon DEF Loop
  <2>2. CASE at'[s] = "failed" /\ lastSaved'[s] = saved
    BY <1>0, <1>d, <1>1, <1>5, <2>0, <2>2, Zenon DEF Loop
  <2> QED
    BY <1>4, <2>1, <2>2, Zenon
<1>7. Lo(s)' = Lo(s) /\ Active(s)
  BY <1>0, <1>1, Zenon DEF Lo, Active, Phys
<1>8. \A i \in 1 .. Len(objects) : Outside(s, i)'
  <2>1. \A i \in 1 .. Len(objects) : Outside(s, i) /\ Phys(i)' = Phys(i)
    BY <1>1, <1>7, Zenon DEF Windows, Phys
  <2> QED
    BY <1>0, <1>1, <1>7, <2>1, Zenon DEF Outside
<1>9. \A t \in Server \ {s} : Active(t) => Apart(s, t)'
  <2>1. \A t \in Server \ {s} : Active(t) => Apart(s, t)
    BY <1>7, Zenon DEF Windows
  <2> QED
    BY <1>0, <1>1, <1>4, <1>7, <2>1, Zenon DEF Apart
<1> QED
  BY <1>0, <1>1, <1>3, <1>4, <1>5, <1>6, <1>8, <1>9, LoopMoves, Zenon

LEMMA StoreTypes ==
    ASSUME Windows, NEW s \in Server, StorePointer(s, mark[s]),
           UNCHANGED <<holder, saved, lastSaved, era, eras>>
    PROVE  Types'
<1>0. Types /\ mark[s] \in Nat
  BY Zenon DEF Windows, Types
<1>1. [physical |-> mark[s], logical |-> 0, srv |-> s] \in Object
  BY <1>0, Zenon DEF Object
<1>2. objects' \in Seq(Object) /\ Len(objects) + 1 \in Nat
  BY <1>0, <1>1, TimeTypes DEF StorePointer, Types
<1>3. ts' \in [Server -> Nat] /\ at' \in [Server -> Phase] /\ mark' \in [Server -> Nat]
  BY <1>0, <1>2, Zenon DEF StorePointer, Types, Phase
<1> QED
  BY <1>0, <1>2, <1>3, Zenon DEF Types

LEMMA StoresWindows ==
    ASSUME Windows, NEW s \in Server, SyncStore(s) \/ UpdateStore(s)
    PROVE  Windows'
<1>1. /\ at[s] \in {"saved", "store"} /\ StorePointer(s, mark[s])
      /\ UNCHANGED <<holder, saved, lastSaved, era, eras>>
  BY Zenon DEF SyncStore, UpdateStore
<1> QED
  BY <1>1, StoreTypes, StoreWindows, Zenon

-----------------------------------------------------------------------------
(* The calls of the oracle. *)

Stamp == Nat \X Nat

Call == [at : {"idle", "loaded", "added"}, srv : Server \cup {None}, obj : Nat,
         era : Nat, logical : Nat, count : Nat, floor : SUBSET Stamp]

\* A call works on an object that exists, and has what it added.
CallOK(r) ==
    /\ req[r].at # "idle" =>
           req[r].srv \in Server /\ req[r].obj \in 1 .. Len(objects) /\ req[r].count > 0
    /\ req[r].at = "added" =>
           req[r].count <= req[r].logical /\ req[r].logical <= objects[req[r].obj].logical

\* Two calls on one object have added to different ranges.
AddsApart(q, r) ==
    req[q].at = "added" /\ req[r].at = "added" /\ req[q].obj = req[r].obj =>
        \/ req[q].logical + req[r].count <= req[r].logical
        \/ req[r].logical + req[q].count <= req[q].logical

\* A timestamp that was given lies in no range that a call is about to return.
GivenApart(g, r) ==
    req[r].at = "added" /\ g[1] = Bucket(req[r].obj) =>
        g[2] + req[r].count <= req[r].logical \/ req[r].logical < g[2]

GivenFrom(g, i) == g[1] = Bucket(i) /\ g[2] <= objects[i].logical

Answers ==
    /\ given \subseteq Stamp /\ req \in [Request -> Call]
    /\ \A r \in Request : CallOK(r)
    /\ \A q, r \in Request : q # r => AddsApart(q, r)
    /\ \A g \in given : \E i \in 1 .. Len(objects) : GivenFrom(g, i)
    /\ \A g \in given, r \in Request : GivenApart(g, r)
    /\ ~repeated

\* The floor of a call lies below what the call gets, while its tenure lasts.
Above(r) ==
    \A a \in req[r].floor :
        \/ a[1] < Bucket(req[r].obj)
        \/ /\ a[1] = Bucket(req[r].obj)
           /\ req[r].at = "loaded" => a[2] <= objects[req[r].obj].logical
           /\ req[r].at = "added" => a[2] + req[r].count <= req[r].logical

Campaign == {"elected", "loaded", "saved"}

TenureOK(r) ==
    req[r].at # "idle" =>
        /\ req[r].era <= eras
        /\ at[req[r].srv] \in Campaign => req[r].era < era[req[r].srv]
        /\ SameTenure(r) /\ holder = req[r].srv => Above(r)

Tenure ==
    /\ \A s \in Server : s \in valid /\ ts[s] # NoTS => holder = s
    /\ \A s \in Server : era[s] <= eras
    /\ \A r \in Request : TenureOK(r)

-----------------------------------------------------------------------------
(* Every step keeps the windows.                                           *)

\* What AddInt64 leaves of the objects.
LEMMA AddEffect ==
    ASSUME Windows, Answers, NEW r \in Request, AddInt64(r)
    PROVE  /\ Types' /\ Len(objects') = Len(objects)
           /\ \A i \in 1 .. Len(objects) : objects'[i].physical = objects[i].physical
           /\ \A i \in 1 .. Len(objects) : i # req[r].obj => objects'[i].logical = objects[i].logical
           /\ objects'[req[r].obj].logical = objects[req[r].obj].logical + req[r].count
           /\ req[r].obj \in 1 .. Len(objects)
<1>0. Types /\ objects \in Seq(Object) /\ req[r].obj \in 1 .. Len(objects) /\ req[r].count \in Nat
  BY Zenon DEF Windows, Types, Answers, CallOK, Call, AddInt64
<1>1. PICK o \in 1 .. Len(objects) : o = req[r].obj
  BY <1>0, Zenon
<1>2. PICK l : l = objects[o].logical + req[r].count
  BY Zenon
<1>3. objects[o] \in Object /\ l \in Nat
  <2>1. objects[o] \in Object
    BY <1>0
  <2>2. objects[o].logical \in Nat
    BY <2>1, Zenon DEF Object
  <2> QED
    BY <1>0, <1>2, <2>1, <2>2
<1>4. PICK n : n = [objects[o] EXCEPT !.logical = l]
  BY Zenon
<1>5. n \in Object /\ n.logical = l /\ n.physical = objects[o].physical
  BY <1>3, <1>4, Zenon DEF Object
<1>6. objects' = [objects EXCEPT ![o] = n]
  BY <1>1, <1>2, <1>4, Zenon DEF AddInt64, AddLogical
<1>7. objects' \in Seq(Object) /\ Len(objects') = Len(objects)
  BY <1>0, <1>5, <1>6
<1>8. objects'[o] = n /\ \A i \in 1 .. Len(objects) : i # o => objects'[i] = objects[i]
  BY <1>0, <1>6
<1>9. Types'
  BY <1>0, <1>7, Zenon DEF Types, AddInt64
<1> QED
  BY <1>0, <1>1, <1>2, <1>5, <1>7, <1>8, <1>9, Zenon

LEMMA AddWindows ==
    ASSUME Windows, Answers, NEW r \in Request, AddInt64(r)
    PROVE  Windows'
  BY AddEffect, WindowsFrame, Zenon DEF AddInt64

LEMMA QuietWindows ==
    ASSUME Windows, UNCHANGED <<holder, clock>>
    PROVE  Windows'
<1>1. Types'
  BY Zenon DEF Windows, Types, clock
<1> QED
  BY <1>1, WindowsFrame, Zenon DEF clock

LEMMA WindowsInit == TSOInit => Windows
<1> SUFFICES ASSUME TSOInit PROVE Windows
  BY Zenon
<1>1. Types
  BY DEF TSOInit, Types, Phase, NoTS
<1>2. Len(objects) = 0
  BY Zenon DEF TSOInit
<1>3. \A s \in Server : Loop(s) /\ ~Active(s)
  <2> SUFFICES ASSUME NEW s \in Server PROVE Loop(s) /\ ~Active(s)
    BY Zenon
  <2>1. ts[s] = 0 /\ at[s] = "follower" /\ lastSaved[s] = 0 /\ saved = 0
    BY Zenon DEF TSOInit, NoTS
  <2> QED
    BY <1>2, <2>1 DEF Loop, Active, NoTS
<1> QED
  BY <1>1, <1>2, <1>3 DEF Windows

LEMMA WindowsStep ==
    ASSUME Windows, Answers, TSONext
    PROVE  Windows' /\ saved <= saved'
<1>0. saved \in Nat
  BY Zenon DEF Windows, Types
<1>1. CASE Lose \/ Validity
  BY <1>0, <1>1, LoseWindows, QuietWindows DEF Lose, Validity, clock
<1>2. ASSUME NEW s \in Server,
             \/ Win(s) \/ loadTimestamp(s) \/ SyncStore(s)
             \/ UpdateStore(s) \/ StepDown(s) \/ Crash(s)
      PROVE  Windows' /\ saved <= saved'
  <2>1. saved' = saved
    BY <1>2, Zenon DEF Win, loadTimestamp, SyncStore, UpdateStore, StepDown, Crash
  <2> QED
    BY <1>0, <1>2, <2>1, WinWindows, LoadWindows, StoresWindows, StepDownWindows
<1>3. ASSUME NEW s \in Server, NEW now \in Wall, SyncSave(s, now) \/ UpdateBegin(s, now)
      PROVE  Windows' /\ saved <= saved'
  BY <1>0, <1>3, SyncSaveWindows, UpdateBeginWindows DEF UpdateBegin
<1>4. ASSUME NEW s \in Server, UpdateSave(s) PROVE Windows' /\ saved <= saved'
  BY <1>4, UpdateSaveWindows, Zenon
<1>5. ASSUME NEW r \in Request, NEW s, NEW count, LoadPointer(r, s, count)
      PROVE  Windows' /\ saved <= saved'
  BY <1>0, <1>5, QuietWindows DEF LoadPointer, clock
<1>6. ASSUME NEW r \in Request, AddInt64(r) \/ Respond(r) \/ RespondError(r)
      PROVE  Windows' /\ saved <= saved'
  <2>1. CASE AddInt64(r)
    <3>1. saved' = saved
      BY <2>1, Zenon DEF AddInt64
    <3> QED
      BY <1>0, <2>1, <3>1, AddWindows
  <2>2. CASE Respond(r) \/ RespondError(r)
    <3>1. UNCHANGED <<holder, clock>> /\ saved' = saved
      BY <2>2, Zenon DEF Respond, RespondError, clock
    <3> QED
      BY <1>0, <3>1, QuietWindows
  <2> QED
    BY <1>6, <2>1, <2>2, Zenon
<1> QED
  BY <1>1, <1>2, <1>3, <1>4, <1>5, <1>6, Zenon DEF TSONext, TSOStep

-----------------------------------------------------------------------------
(* The calls.                                                              *)

LEMMA BucketsApart ==
    ASSUME Windows
    PROVE  /\ \A i \in 1 .. Len(objects) : Bucket(i) \in Nat /\ objects[i].logical \in Nat
           /\ \A i, j \in 1 .. Len(objects) : Phys(i) + Ms <= Phys(j) => Bucket(i) < Bucket(j)
           /\ \A i, j \in 1 .. Len(objects) : i # j => Bucket(i) # Bucket(j)
<1>1. /\ \A i \in 1 .. Len(objects) : Phys(i) \in Nat
      /\ Ms \in Nat /\ Ms > 0 /\ Len(objects) \in Nat
  BY TimeTypes, TSOAssumption DEF Windows
<1>2. \A i \in 1 .. Len(objects) : Bucket(i) \in Nat
  BY <1>1 DEF Bucket
<1>3. \A i \in 1 .. Len(objects) : objects[i].logical \in Nat
  <2>1. \A i \in 1 .. Len(objects) : objects[i] \in Object
    BY DEF Windows, Types
  <2> QED
    BY <2>1, Zenon DEF Object
<1>4. \A i, j \in 1 .. Len(objects) : Phys(i) + Ms <= Phys(j) => Bucket(i) < Bucket(j)
  BY <1>1, DivApart, Zenon DEF Bucket
<1>5. \A i, j \in 1 .. Len(objects) : i # j => Bucket(i) # Bucket(j)
  BY <1>2, <1>4 DEF Windows
<1> QED
  BY <1>2, <1>3, <1>4, <1>5, Zenon

\* Objects may be added, and calls may end.
LEMMA AnswersFrame ==
    ASSUME Windows, Answers, Len(objects') \in Nat, Len(objects) <= Len(objects'),
           \A i \in 1 .. Len(objects) : /\ objects'[i].physical = objects[i].physical
                                        /\ objects'[i].logical = objects[i].logical,
           req' \in [Request -> Call],
           \A q \in Request : req'[q] = req[q] \/ req'[q].at = "idle",
           UNCHANGED <<given, repeated>>
    PROVE  Answers'
<1>0. Len(objects) \in Nat
  BY TimeTypes, Zenon DEF Windows
<1>1. \A i \in 1 .. Len(objects) : Bucket(i)' = Bucket(i) /\ i \in 1 .. Len(objects')
  BY <1>0 DEF Bucket, Phys
<1>2. \A q \in Request : CallOK(q)'
  <2> SUFFICES ASSUME NEW q \in Request, req'[q] = req[q], req[q].at # "idle" PROVE CallOK(q)'
    BY Zenon DEF CallOK
  <2>1. CallOK(q) /\ req[q].obj \in 1 .. Len(objects)
    BY Zenon DEF Answers, CallOK
  <2> QED
    BY <1>1, <2>1, Zenon DEF CallOK
<1>3. \A q, r \in Request : q # r => AddsApart(q, r)'
  BY DEF Answers, AddsApart
<1>4. \A g \in given : \E i \in 1 .. Len(objects') : GivenFrom(g, i)'
  <2> SUFFICES ASSUME NEW g \in given PROVE \E i \in 1 .. Len(objects') : GivenFrom(g, i)'
    BY Zenon
  <2>1. PICK i \in 1 .. Len(objects) : GivenFrom(g, i)
    BY Zenon DEF Answers
  <2>2. i \in 1 .. Len(objects') /\ GivenFrom(g, i)'
    BY <1>1, <2>1, Zenon DEF GivenFrom
  <2> QED
    BY <2>2, Zenon
<1>5. \A g \in given, q \in Request : GivenApart(g, q)'
  <2> SUFFICES ASSUME NEW g \in given, NEW q \in Request, req'[q] = req[q], req[q].at = "added"
               PROVE  GivenApart(g, q)'
    BY Zenon DEF GivenApart
  <2>1. PICK o \in 1 .. Len(objects) : o = req[q].obj
    BY Zenon DEF Answers, CallOK
  <2>2. GivenApart(g, q) /\ Bucket(o)' = Bucket(o)
    BY <1>1, Zenon DEF Answers
  <2> QED
    BY <2>1, <2>2, Zenon DEF GivenApart, Bucket, Phys
<1>6. ~repeated'
  BY Zenon DEF Answers
<1> QED
  BY <1>2, <1>3, <1>4, <1>5, <1>6, Zenon DEF Answers

LEMMA LoadAnswers ==
    ASSUME Windows, Answers, NEW r \in Request, NEW s \in Server, NEW count \in Count,
           LoadPointer(r, s, count)
    PROVE  Answers'
<1>0. Len(objects) \in Nat /\ ts[s] \in 1 .. Len(objects) /\ era[s] \in Nat /\ ts[s] \in Nat
  BY TimeTypes DEF Windows, Loop, LoadPointer, NoTS, Types
<1>1. PICK n : n = [at |-> "loaded", srv |-> s, obj |-> ts[s], era |-> era[s],
                    logical |-> 0, count |-> count, floor |-> given]
  BY Zenon
<1>2. count \in Nat /\ count > 0
  BY TSOAssumption
<1>3. /\ n \in Call /\ n.at = "loaded" /\ n.srv \in Server
      /\ n.obj \in 1 .. Len(objects) /\ n.count > 0
  BY <1>0, <1>1, <1>2, Zenon DEF Call, Answers
<1>4. /\ req' = [req EXCEPT ![r] = n]
      /\ UNCHANGED <<objects, given>>
  BY <1>1, Zenon DEF LoadPointer, clock
<1>5. /\ req' \in [Request -> Call] /\ req'[r] = n
      /\ \A q \in Request \ {r} : req'[q] = req[q]
  BY <1>3, <1>4, Zenon DEF Answers
<1>6. \A q \in Request : CallOK(q)'
  BY <1>3, <1>4, <1>5, Zenon DEF Answers, CallOK
<1>7. \A q, u \in Request : q # u => AddsApart(q, u)'
  BY <1>3, <1>5, Zenon DEF Answers, AddsApart
<1>8. \A g \in given, q \in Request : GivenApart(g, q)'
  BY <1>3, <1>4, <1>5, Zenon DEF Answers, GivenApart, Bucket, Phys
<1>9. \A g \in given : \E i \in 1 .. Len(objects') : GivenFrom(g, i)'
  BY <1>4, Zenon DEF Answers, GivenFrom, Bucket, Phys
<1>10. ~repeated'
  BY Zenon DEF Answers, LoadPointer
<1> QED
  BY <1>4, <1>5, <1>6, <1>7, <1>8, <1>9, <1>10, ZenonT(30) DEF Answers

\* An addition ends above everything that was added to the object before.
LEMMA AddAnswers ==
    ASSUME Windows, Answers, NEW r \in Request, AddInt64(r)
    PROVE  Answers'
<1>a. PICK o : o = req[r].obj
  BY Zenon
<1>b. PICK l : l = objects[o].logical + req[r].count
  BY Zenon
<1>0. /\ req[r] \in Call /\ req[r].at = "loaded" /\ req[r].srv \in Server
      /\ req[r].count \in Nat /\ req[r].count > 0
  BY Zenon DEF Answers, CallOK, Call, AddInt64
<1>1. /\ Len(objects') = Len(objects) /\ o \in 1 .. Len(objects)
      /\ \A i \in 1 .. Len(objects) : /\ Bucket(i)' = Bucket(i)
                                      /\ i # o => objects'[i].logical = objects[i].logical
      /\ objects'[o].logical = l
  BY <1>a, <1>b, AddEffect, ZenonT(30) DEF Bucket, Phys
<1>2. objects[o].logical \in Nat /\ l \in Nat /\ objects[o].logical <= l /\ req[r].count <= l /\ l <= l
  BY <1>0, <1>b, <1>1, BucketsApart
<1>3. \A i \in 1 .. Len(objects) : objects'[i].logical >= objects[i].logical /\ objects[i].logical \in Nat
  BY <1>1, <1>2, BucketsApart
<1>4. PICK n : n = IF l >= MaxLogical THEN IdleReq
                   ELSE [req[r] EXCEPT !.at = "added", !.logical = l]
  BY Zenon
<1>5. req' = [req EXCEPT ![r] = n] /\ UNCHANGED <<given, repeated>>
  BY <1>a, <1>b, <1>4, Zenon DEF AddInt64, AddLogical
<1>6. /\ n \in Call /\ n.at # "loaded"
      /\ n.at = "added" => n.obj = o /\ n.logical = l /\ n.count = req[r].count /\ n.srv = req[r].srv
  <2>1. CASE l >= MaxLogical
    BY <1>4, <2>1, Zenon DEF IdleReq, Call
  <2>2. CASE ~(l >= MaxLogical)
    BY <1>0, <1>2, <1>4, <1>a, <2>2, Zenon DEF Call
  <2> QED
    BY <2>1, <2>2, Zenon
<1>7. /\ req' \in [Request -> Call] /\ req'[r] = n
      /\ \A q \in Request \ {r} : req'[q] = req[q]
  BY <1>5, <1>6, Zenon DEF Answers
<1>8. ASSUME NEW q \in Request PROVE CallOK(q)'
  <2>1. CASE q = r
    <3>1. n.at \in {"idle", "added"}
      BY <1>6, Zenon DEF Call
    <3> QED
      BY <1>0, <1>1, <1>2, <1>6, <1>7, <2>1, <3>1, Zenon DEF CallOK
  <2>2. CASE q # r /\ req[q].at # "idle"
    <3>1. CallOK(q) /\ req[q].obj \in 1 .. Len(objects) /\ req[q].logical \in Nat
      BY <2>2, Zenon DEF Answers, CallOK, Call
    <3>2. objects'[req[q].obj].logical >= objects[req[q].obj].logical
          /\ objects[req[q].obj].logical \in Nat /\ objects'[req[q].obj].logical \in Nat
      BY <1>1, <1>2, <1>3, <3>1, Zenon
    <3>3. req[q].logical <= objects[req[q].obj].logical => req[q].logical <= objects'[req[q].obj].logical
      BY <3>1, <3>2
    <3> QED
      BY <1>1, <1>7, <2>2, <3>1, <3>3, Zenon DEF CallOK
  <2>3. CASE q # r /\ req[q].at = "idle"
    BY <1>7, <2>3, Zenon DEF CallOK
  <2> QED
    BY <2>1, <2>2, <2>3, Zenon
<1>9. ASSUME NEW q \in Request \ {r} PROVE AddsApart(q, r)' /\ AddsApart(r, q)'
  <2> SUFFICES ASSUME req[q].at = "added", n.at = "added", req[q].obj = o
               PROVE  req[q].logical + req[r].count <= l
    BY <1>6, <1>7, Zenon DEF AddsApart
  <2>1. req[q].logical \in Nat /\ req[q].logical <= objects[o].logical
    BY Zenon DEF Answers, CallOK, Call
  <2> QED
    BY <1>0, <1>2, <1>b, <2>1
<1>10. \A q, u \in Request : q # u => AddsApart(q, u)'
  <2>1. \A q, u \in Request \ {r} : q # u => AddsApart(q, u)'
    BY <1>7, Zenon DEF Answers, AddsApart
  <2> QED
    BY <1>9, <2>1, Zenon
<1>11. ASSUME NEW g \in given PROVE \E i \in 1 .. Len(objects') : GivenFrom(g, i)'
  <2>1. PICK i \in 1 .. Len(objects) : GivenFrom(g, i)
    BY Zenon DEF Answers
  <2>2. g[2] \in Nat
    BY Zenon DEF Answers, Stamp
  <2>3. g[2] <= objects'[i].logical
    BY <1>1, <1>2, <1>3, <2>1, <2>2 DEF GivenFrom
  <2> QED
    BY <1>1, <2>1, <2>3, Zenon DEF GivenFrom
<1>12. ASSUME NEW g \in given, NEW q \in Request PROVE GivenApart(g, q)'
  <2>0. g[2] \in Nat
    BY Zenon DEF Answers, Stamp
  <2>1. CASE q # r /\ req[q].at = "added"
    <3>1. PICK x \in 1 .. Len(objects) : x = req[q].obj
      BY <2>1, Zenon DEF Answers, CallOK
    <3>2. GivenApart(g, q) /\ Bucket(x)' = Bucket(x) /\ req'[q] = req[q]
      BY <1>1, <1>7, <2>1, Zenon DEF Answers
    <3> QED
      BY <3>1, <3>2, Zenon DEF GivenApart, Bucket, Phys
  <2>2. CASE q = r /\ n.at = "added"
    <3> SUFFICES ASSUME g[1] = Bucket(o) PROVE g[2] + req[r].count <= l
      <4>1. Bucket(o)' = Bucket(o) /\ n.obj = o
        BY <1>1, <1>6, <2>2, Zenon
      <4>2. Bucket(req[r].obj)' = Bucket(o)'
        BY <1>7, <4>1, Zenon DEF Bucket, Phys
      <4> QED
        BY <1>6, <1>7, <2>2, <4>1, <4>2, Zenon DEF GivenApart
    <3>1. PICK i \in 1 .. Len(objects) : GivenFrom(g, i)
      BY Zenon DEF Answers
    <3>2. i = o
      BY <1>1, <3>1, BucketsApart, Zenon DEF GivenFrom
    <3> QED
      BY <1>0, <1>2, <1>b, <2>0, <3>1, <3>2 DEF GivenFrom
  <2>3. CASE req'[q].at # "added"
    BY <2>3, Zenon DEF GivenApart
  <2> QED
    BY <1>7, <2>1, <2>2, <2>3, Zenon
<1>13. ~repeated'
  BY <1>5, Zenon DEF Answers
<1> QED
  BY <1>5, <1>7, <1>8, <1>10, <1>11, <1>12, <1>13, Zenon DEF Answers

\* A response returns what its call added, and nobody else has it.
LEMMA RespondAnswers ==
    ASSUME Windows, Answers, NEW r \in Request, Respond(r)
    PROVE  Answers'
<1>a. PICK o \in 1 .. Len(objects) : o = req[r].obj
  BY Zenon DEF Answers, CallOK, Respond
<1>b. PICK l \in Nat : l = req[r].logical
  BY Zenon DEF Answers, Call
<1>c. PICK c \in Nat : c = req[r].count
  BY Zenon DEF Answers, Call
<1>0. /\ req[r].at = "added" /\ c > 0 /\ c <= l /\ l <= objects[o].logical
      /\ objects[o].logical \in Nat /\ Bucket(o) \in Nat
  BY <1>a, <1>b, <1>c, BucketsApart, Zenon DEF Answers, CallOK, Respond
<1>1. ASSUME NEW g \in Stamps(r)
      PROVE  /\ g \in Stamp /\ g[1] = Bucket(o) /\ l < g[2] + c /\ g[2] <= l
             /\ g[2] \in Nat
  <2>1. PICK i \in 0 .. c - 1 : g = <<Bucket(o), l - i>>
    BY <1>a, <1>b, <1>c, Zenon DEF Stamps, Bucket, Phys
  <2>2. l - i \in Nat /\ l < l - i + c /\ l - i <= l
    BY <1>0
  <2> QED
    BY <1>0, <2>1, <2>2, Zenon DEF Stamp
<1>2. /\ given' = given \cup Stamps(r) /\ UNCHANGED objects
      /\ req' = [req EXCEPT ![r] = IdleReq]
  BY Zenon DEF Respond, clock
<1>3. given \cap Stamps(r) = {}
  <2> SUFFICES ASSUME NEW g \in given, g \in Stamps(r) PROVE FALSE
    BY Zenon
  <2>1. GivenApart(g, r)
    BY Zenon DEF Answers
  <2> QED
    BY <1>0, <1>1, <1>a, <1>b, <1>c, <2>1 DEF GivenApart
<1>4. ~repeated'
  BY <1>3, Zenon DEF Respond, Answers
<1>5. IdleReq \in Call /\ IdleReq.at = "idle"
  BY Zenon DEF IdleReq, Call
<1>6. /\ req' \in [Request -> Call] /\ req'[r] = IdleReq
      /\ \A q \in Request \ {r} : req'[q] = req[q]
  BY <1>2, <1>5, Zenon DEF Answers
<1>7. given' \subseteq Stamp
  BY <1>1, <1>2, Zenon DEF Answers
<1>8. \A q \in Request : CallOK(q)'
  BY <1>2, <1>5, <1>6, Zenon DEF Answers, CallOK
<1>9. \A q, u \in Request : q # u => AddsApart(q, u)'
  BY <1>5, <1>6, Zenon DEF Answers, AddsApart
<1>10. ASSUME NEW g \in given' PROVE \E i \in 1 .. Len(objects') : GivenFrom(g, i)'
  <2>1. CASE g \in given
    BY <1>2, <2>1, Zenon DEF Answers, GivenFrom, Bucket, Phys
  <2>2. CASE g \in Stamps(r)
    <3>1. g[1] = Bucket(o) /\ g[2] <= objects[o].logical
      BY <1>0, <1>1, <2>2
    <3> QED
      BY <1>2, <3>1, Zenon DEF GivenFrom, Bucket, Phys
  <2> QED
    BY <1>2, <2>1, <2>2, Zenon
<1>11. ASSUME NEW g \in given', NEW q \in Request PROVE GivenApart(g, q)'
  <2> SUFFICES ASSUME q # r, req[q].at = "added", g[1] = Bucket(req[q].obj)
               PROVE  g[2] + req[q].count <= req[q].logical \/ req[q].logical < g[2]
    BY <1>2, <1>5, <1>6, Zenon DEF GivenApart, Bucket, Phys
  <2>1. CASE g \in given
    BY <2>1, Zenon DEF Answers, GivenApart
  <2>2. CASE g \in Stamps(r)
    <3>1. req[q].obj \in 1 .. Len(objects) /\ req[q].logical \in Nat /\ req[q].count \in Nat
      BY Zenon DEF Answers, CallOK, Call
    <3>2. req[q].obj = o
      BY <1>1, <2>2, <3>1, BucketsApart, Zenon
    <3>3. AddsApart(q, r)
      BY Zenon DEF Answers
    <3>4. req[q].logical + c <= l \/ l + req[q].count <= req[q].logical
      BY <1>0, <1>a, <1>b, <1>c, <3>2, <3>3, Zenon DEF AddsApart
    <3>5. g[2] \in Nat /\ l < g[2] + c /\ g[2] <= l
      BY <1>1, <2>2, Zenon
    <3>6. PICK x \in Nat, y \in Nat, z \in Nat :
             x = req[q].logical /\ y = req[q].count /\ z = g[2]
      BY <3>1, <3>5, Zenon
    <3>7. x + c <= l \/ l + y <= x
      BY <3>4, <3>6, Zenon
    <3>8. l < z + c /\ z <= l
      BY <3>5, <3>6, Zenon
    <3>9. z + y <= x \/ x < z
      BY <3>7, <3>8
    <3> QED
      BY <3>6, <3>9, Zenon
  <2> QED
    BY <1>2, <2>1, <2>2, Zenon
<1> QED
  BY <1>4, <1>6, <1>7, <1>8, <1>9, <1>10, <1>11, Zenon DEF Answers

LEMMA AnswersInit == TSOInit => Answers
<1> SUFFICES ASSUME TSOInit PROVE Answers
  BY Zenon
<1>1. IdleReq \in Call /\ IdleReq.at = "idle"
  BY Zenon DEF IdleReq, Call
<1>2. req \in [Request -> Call] /\ \A r \in Request : req[r].at = "idle"
  BY <1>1, Zenon DEF TSOInit
<1>3. given = {} /\ ~repeated
  BY Zenon DEF TSOInit
<1> QED
  BY <1>2, <1>3, Zenon DEF Answers, CallOK, AddsApart, GivenApart

\* The objects after a step that adds at most one.
LEMMA StoreEffect ==
    ASSUME Windows, NEW s \in Server, StorePointer(s, mark[s])
    PROVE  /\ Len(objects') \in Nat /\ Len(objects) <= Len(objects')
           /\ \A i \in 1 .. Len(objects) : objects'[i] = objects[i]
<1>1. objects \in Seq(Object) /\ mark[s] \in Nat
  BY Zenon DEF Windows, Types
<1>2. [physical |-> mark[s], logical |-> 0, srv |-> s] \in Object
  BY <1>1, Zenon DEF Object
<1> QED
  BY <1>1, <1>2 DEF StorePointer

\* What the leader loops, the leases and the ends of calls do to the objects and calls.
Keeps ==
    /\ Len(objects') \in Nat /\ Len(objects) <= Len(objects')
    /\ \A i \in 1 .. Len(objects) : objects'[i] = objects[i]
    /\ req' \in [Request -> Call]
    /\ \A q \in Request : req'[q] = req[q] \/ req'[q].at = "idle"

LEMMA KeepsCalls ==
    ASSUME Windows, Answers,
           \/ Lose \/ Validity
           \/ \E s \in Server :
                 \/ Win(s) \/ loadTimestamp(s) \/ SyncStore(s)
                 \/ UpdateSave(s) \/ UpdateStore(s) \/ StepDown(s) \/ Crash(s)
                 \/ \E now \in Wall : SyncSave(s, now) \/ UpdateBegin(s, now)
           \/ \E r \in Request : RespondError(r)
    PROVE  Keeps /\ UNCHANGED <<given, repeated>>
<1>0. Len(objects) \in Nat /\ req \in [Request -> Call] /\ IdleReq \in Call /\ IdleReq.at = "idle"
  BY TimeTypes, Zenon DEF Windows, Answers, IdleReq, Call
<1>1. CASE UNCHANGED <<objects, req, given, repeated>>
  BY <1>0, <1>1 DEF Keeps
<1>2. ASSUME NEW s \in Server, SyncStore(s) \/ UpdateStore(s)
      PROVE  Keeps /\ UNCHANGED <<given, repeated>>
  <2>1. StorePointer(s, mark[s]) /\ UNCHANGED <<req, given, repeated>>
    BY <1>2, Zenon DEF SyncStore, UpdateStore
  <2> QED
    BY <1>0, <2>1, StoreEffect, Zenon DEF Keeps
<1>3. ASSUME NEW s \in Server, Crash(s) PROVE Keeps /\ UNCHANGED <<given, repeated>>
  BY <1>0, <1>3 DEF Crash, Keeps
<1>4. ASSUME NEW r \in Request, RespondError(r) PROVE Keeps /\ UNCHANGED <<given, repeated>>
  BY <1>0, <1>4 DEF RespondError, Keeps, clock
<1> QED
  BY <1>1, <1>2, <1>3, <1>4, Zenon
     DEF Lose, Validity, clock, Win, loadTimestamp, UpdateSave, StepDown, SyncSave, UpdateBegin

LEMMA AnswersStep ==
    ASSUME Windows, Answers, TSONext
    PROVE  Answers'
<1>1. CASE Keeps /\ UNCHANGED <<given, repeated>>
  BY <1>1, AnswersFrame, Zenon DEF Keeps
<1> QED
  BY <1>1, KeepsCalls, LoadAnswers, AddAnswers, RespondAnswers, Zenon DEF TSONext, TSOStep

-----------------------------------------------------------------------------
(* The order of the timestamps.                                            *)

LEMMA AboveKept ==
    ASSUME Windows, Answers, Keeps, NEW r \in Request, req[r].at # "idle",
           req'[r] = req[r], Above(r)
    PROVE  Above(r)'
<1>1. PICK o \in 1 .. Len(objects) : o = req[r].obj
  BY Zenon DEF Answers, CallOK
<1>2. objects'[o] = objects[o]
  BY Zenon DEF Keeps
<1> QED
  BY <1>1, <1>2, Zenon DEF Above, Bucket, Phys

\* A server gets a timestamp only in a campaign that began after all its calls.
LEMMA TenureFrame ==
    ASSUME Windows, Answers, Tenure, Types', Keeps, eras <= eras',
           \A s \in Server : s \in valid' /\ ts'[s] # NoTS => holder' = s,
           \A s \in Server : era'[s] = era[s] \/ era'[s] = eras',
           \A s \in Server : at'[s] \in Campaign =>
               (at[s] \in Campaign /\ era'[s] = era[s]) \/ eras < era'[s],
           \A s \in Server : ts'[s] # NoTS /\ holder' = s =>
               era'[s] = era[s] /\ holder = s /\ (ts[s] # NoTS \/ at[s] \in Campaign)
    PROVE  Tenure'
<1>0. /\ eras \in Nat /\ eras' \in Nat /\ \A s \in Server : era[s] \in Nat /\ era'[s] \in Nat
      /\ \A r \in Request : req[r].era \in Nat
  BY ZenonT(30) DEF Windows, Types, Answers, Call
<1>1. \A s \in Server : era'[s] <= eras'
  BY <1>0 DEF Tenure
<1>2. ASSUME NEW r \in Request PROVE TenureOK(r)'
  <2> SUFFICES ASSUME req'[r] = req[r], req[r].at # "idle" PROVE TenureOK(r)'
    BY Zenon DEF Keeps, TenureOK
  <2>1. PICK s \in Server : s = req[r].srv
    BY Zenon DEF Answers, CallOK
  <2>2. TenureOK(r)
    BY Zenon DEF Tenure
  <2>3. req[r].era <= eras'
    BY <1>0, <2>2 DEF TenureOK
  <2>4. at'[s] \in Campaign => req[r].era < era'[s]
    BY <1>0, <2>1, <2>2 DEF TenureOK
  <2>5. ts'[s] # NoTS /\ era'[s] = req[r].era /\ holder' = s => Above(r)'
    <3> SUFFICES ASSUME ts'[s] # NoTS, era'[s] = req[r].era, holder' = s PROVE Above(r)'
      BY Zenon
    <3>1. at[s] \notin Campaign /\ ts[s] # NoTS /\ holder = s /\ era[s] = req[r].era
      BY <1>0, <2>1, <2>2 DEF TenureOK
    <3> QED
      BY <2>1, <2>2, <3>1, AboveKept, Zenon DEF TenureOK, SameTenure
  <2> QED
    BY <2>1, <2>3, <2>4, <2>5, Zenon DEF TenureOK, SameTenure
<1> QED
  BY <1>1, <1>2, Zenon DEF Tenure

LEMMA LoadTenure ==
    ASSUME Windows, Answers, Tenure, NEW r \in Request, NEW s \in Server, NEW count \in Count,
           LoadPointer(r, s, count)
    PROVE  Tenure'
<1>0. /\ Len(objects) \in Nat /\ ts[s] \in 1 .. Len(objects) /\ ts[s] # NoTS
      /\ at[s] \notin Campaign
  <2>1. Types /\ Loop(s)
    BY Zenon DEF Windows
  <2>2. /\ ts[s] \in 0 .. Len(objects) /\ ts[s] # NoTS
        /\ at[s] \in {"follower", "elected", "loaded", "saved"} => ts[s] = NoTS
    BY <2>1, Zenon DEF Loop, LoadPointer
  <2>3. at[s] \notin Campaign
    BY <2>2, Zenon DEF Campaign
  <2>4. Len(objects) \in Nat
    BY <2>1, TimeTypes, Zenon
  <2>5. ts[s] \in 1 .. Len(objects)
    BY <2>2, <2>4 DEF NoTS
  <2> QED
    BY <2>2, <2>3, <2>4, <2>5, Zenon
<1>1. PICK n : n = [at |-> "loaded", srv |-> s, obj |-> ts[s], era |-> era[s],
                    logical |-> 0, count |-> count, floor |-> given]
  BY Zenon
<1>2. /\ req' = [req EXCEPT ![r] = n]
      /\ UNCHANGED <<holder, valid, objects, ts, at, era, eras>>
  BY <1>1, Zenon DEF LoadPointer, clock
<1>3. req'[r] = n /\ \A q \in Request \ {r} : req'[q] = req[q]
  BY <1>2, Zenon DEF Answers
<1>4. ASSUME NEW q \in Request \ {r} PROVE TenureOK(q)'
  <2>1. req'[q] = req[q] /\ TenureOK(q)
    BY <1>3, Zenon DEF Tenure
  <2> QED
    BY <1>2, <2>1, Zenon DEF TenureOK, SameTenure, Above, Bucket, Phys
<1>5. ASSUME holder = s, NEW a \in given
      PROVE  a[1] < Bucket(ts[s]) \/ (a[1] = Bucket(ts[s]) /\ a[2] <= objects[ts[s]].logical)
  <2>1. PICK i \in 1 .. Len(objects) : GivenFrom(a, i)
    BY Zenon DEF Answers
  <2>2. CASE i = ts[s]
    BY <2>1, <2>2, Zenon DEF GivenFrom
  <2>3. CASE i # ts[s]
    <3>1. Outside(s, i)
      BY <1>0, Zenon DEF Windows, Active
    <3>2. Phys(i) + Ms <= Phys(ts[s]) + Ms
      BY <1>0, <1>5, <3>1, Zenon DEF Outside, Lo
    <3>3. Phys(i) + Ms <= Phys(ts[s]) \/ Phys(ts[s]) + Ms <= Phys(i)
      BY <1>0, <2>3, Zenon DEF Windows
    <3>4. Phys(i) \in Nat /\ Phys(ts[s]) \in Nat /\ Ms \in Nat /\ Ms > 0
      <4>1. Types
        BY Zenon DEF Windows
      <4>2. Ms \in Nat /\ Ms > 0
        BY TSOAssumption
      <4> QED
        BY <1>0, <4>1, <4>2, TimeTypes, Zenon
    <3>5. Phys(i) + Ms <= Phys(ts[s])
      BY <3>2, <3>3, <3>4
    <3> QED
      BY <1>0, <2>1, <3>5, BucketsApart, Zenon DEF GivenFrom
  <2> QED
    BY <2>2, <2>3, Zenon
<1>6. TenureOK(r)'
  <2>1. /\ n.at = "loaded" /\ n.srv = s /\ n.obj = ts[s] /\ n.era = era[s] /\ n.floor = given
    BY <1>1, Zenon
  <2>2. era[s] <= eras
    BY Zenon DEF Tenure
  <2>3. holder = s => Above(r)'
    BY <1>2, <1>3, <1>5, <2>1, Zenon DEF Above, Bucket, Phys
  <2> QED
    BY <1>0, <1>2, <1>3, <2>1, <2>2, <2>3, Zenon DEF TenureOK
<1> QED
  BY <1>2, <1>4, <1>6, Zenon DEF Tenure

LEMMA AddTenure ==
    ASSUME Windows, Answers, Tenure, NEW r \in Request, AddInt64(r)
    PROVE  Tenure'
<1>a. PICK o \in 1 .. Len(objects) : o = req[r].obj
  BY Zenon DEF Answers, CallOK, AddInt64
<1>b. PICK l : l = objects[o].logical + req[r].count
  BY Zenon
<1>0. req[r] \in Call /\ req[r].at = "loaded" /\ req[r].count \in Nat /\ objects[o].logical \in Nat
  BY BucketsApart, Zenon DEF Answers, Call, AddInt64
<1>1. /\ \A i \in 1 .. Len(objects) : /\ objects'[i].physical = objects[i].physical
                                      /\ i # o => objects'[i].logical = objects[i].logical
      /\ objects'[o].logical = l
  BY <1>a, <1>b, AddEffect, Zenon
<1>2. UNCHANGED <<holder, valid, ts, at, era, eras>>
  BY Zenon DEF AddInt64
<1>3. PICK n : n = IF l >= MaxLogical THEN IdleReq
                   ELSE [req[r] EXCEPT !.at = "added", !.logical = l]
  BY Zenon
<1>4. req' = [req EXCEPT ![r] = n]
  BY <1>a, <1>b, <1>3, Zenon DEF AddInt64, AddLogical
<1>5. req'[r] = n /\ \A q \in Request \ {r} : req'[q] = req[q]
  BY <1>4, Zenon DEF Answers
<1>6. n.at = "idle" \/ (/\ n.at = "added" /\ n.logical = l /\ n.obj = o /\ n.srv = req[r].srv
                        /\ n.era = req[r].era /\ n.count = req[r].count /\ n.floor = req[r].floor)
  BY <1>0, <1>3, <1>a, Zenon DEF IdleReq, Call
<1>7. ASSUME NEW q \in Request, q # r PROVE TenureOK(q)'
  <2> SUFFICES ASSUME req[q].at # "idle" PROVE TenureOK(q)'
    BY <1>5, <1>7, Zenon DEF TenureOK
  <2>1. PICK x \in 1 .. Len(objects) : x = req[q].obj
    BY Zenon DEF Answers, CallOK
  <2>2. ASSUME Above(q) PROVE Above(q)'
    <3>1. /\ objects'[x].physical = objects[x].physical /\ objects[x].logical \in Nat
          /\ objects[x].logical <= objects'[x].logical /\ objects'[x].logical \in Nat
      <4>1. objects[x].logical \in Nat
        BY BucketsApart, Zenon
      <4>2. l \in Nat /\ objects[o].logical <= l
        BY <1>0, <1>b
      <4> QED
        BY <1>1, <4>1, <4>2, SMTT(30)
    <3>2. \A a \in req[q].floor : a[2] \in Nat
      BY DEF Answers, Call, Stamp
    <3>3. \A a \in req[q].floor : a[2] <= objects[x].logical => a[2] <= objects'[x].logical
      BY <3>1, <3>2
    <3> QED
      BY <1>5, <1>7, <2>1, <2>2, <3>1, <3>3, Zenon DEF Above, Bucket, Phys
  <2> QED
    BY <1>2, <1>5, <1>7, <2>2, Zenon DEF Tenure, TenureOK, SameTenure
<1>8. TenureOK(r)'
  <2> SUFFICES ASSUME n.at = "added" PROVE TenureOK(r)'
    BY <1>5, <1>6, Zenon DEF TenureOK
  <2>1. ASSUME Above(r) PROVE Above(r)'
    <3>1. \A a \in req[r].floor : a[2] \in Nat
      BY DEF Answers, Call, Stamp
    <3>2. \A a \in req[r].floor : a[2] <= objects[o].logical => a[2] + req[r].count <= l
      BY <1>0, <1>b, <3>1
    <3> QED
      BY <1>0, <1>1, <1>5, <1>6, <1>a, <2>1, <3>2, ZenonT(30) DEF Above, Bucket, Phys
  <2> QED
    BY <1>0, <1>2, <1>5, <1>6, <2>1, Zenon DEF Tenure, TenureOK, SameTenure
<1> QED
  BY <1>2, <1>7, <1>8, Zenon DEF Tenure

LEMMA TenureStep ==
    ASSUME Windows, Windows', Answers, Tenure, TSONext
    PROVE  Tenure'
<1>0. /\ Types /\ Types' /\ eras \in Nat /\ eras' \in Nat
      /\ \A s \in Server : era[s] \in Nat /\ era'[s] \in Nat /\ at[s] \in Phase /\ Loop(s)
  BY Zenon DEF Windows, Types
<1>1. ASSUME Keeps, UNCHANGED <<holder, ts, at, era, eras>>,
             \A s \in Server : s \in valid' /\ ts[s] # NoTS => holder = s
      PROVE  Tenure'
  <2>1. eras <= eras'
    BY <1>0, <1>1
  <2> QED
    BY <1>0, <1>1, <2>1, TenureFrame, Zenon
<1>2. CASE Lose
  <2>1. Keeps
    BY <1>2, KeepsCalls, Zenon
  <2>2. /\ holder' = None /\ holder # None /\ holder \in Server
        /\ holder \in valid => ts[holder] = NoTS
        /\ UNCHANGED <<valid, ts, at, era, eras>>
    BY <1>0, <1>2, Zenon DEF Lose, DropLeaderKey, clock, Types
  <2>3. eras <= eras' /\ None \notin Server
    BY <1>0, <2>2, ServerAssumption
  <2>4. \A s \in Server : ~(s \in valid' /\ ts'[s] # NoTS)
    BY <2>2, Zenon DEF Tenure
  <2> QED
    BY <1>0, <2>1, <2>2, <2>3, <2>4, TenureFrame, Zenon
<1>3. CASE Validity
  <2>1. Keeps
    BY <1>3, KeepsCalls, Zenon
  <2>2. \A s \in Server : s \in valid' /\ ts[s] # NoTS => holder = s
    BY <1>3, Zenon DEF Validity, Tenure
  <2> QED
    BY <1>1, <1>3, <2>1, <2>2, Zenon DEF Validity, clock
<1>4. ASSUME NEW s \in Server, Win(s) PROVE Tenure'
  <2>1. Keeps
    BY <1>4, KeepsCalls, Zenon
  <2>2. /\ at[s] = "follower" /\ ts[s] = NoTS /\ holder = None /\ holder' = s
        /\ era'[s] = eras + 1 /\ eras' = eras + 1 /\ UNCHANGED <<valid, ts>>
        /\ \A t \in Server \ {s} : era'[t] = era[t] /\ at'[t] = at[t]
    BY <1>0, <1>4, Zenon DEF Win, CreateLeaderKey, Types
  <2>3. eras <= eras' /\ eras < era'[s]
    BY <1>0, <2>2
  <2>4. \A t \in Server : t \in valid' /\ ts'[t] # NoTS => holder' = t
    BY <2>2, ServerAssumption, Zenon DEF Tenure
  <2>5. \A t \in Server : ~(ts'[t] # NoTS /\ holder' = t)
    BY <2>2, Zenon
  <2> QED
    BY <1>0, <2>1, <2>2, <2>3, <2>4, <2>5, TenureFrame, Zenon
<1>5. ASSUME NEW s \in Server,
             \/ loadTimestamp(s) \/ UpdateSave(s)
             \/ \E now \in Wall : SyncSave(s, now) \/ UpdateBegin(s, now)
      PROVE  Tenure'
  <2>1. Keeps
    BY <1>5, KeepsCalls, Zenon
  <2>2. UNCHANGED <<holder, valid, ts, era, eras>>
    BY <1>5, Zenon DEF loadTimestamp, UpdateSave, SyncSave, UpdateBegin
  <2>3. \A t \in Server : at'[t] \in Campaign => at[t] \in Campaign
    <3>1. \A t \in Server \ {s} : at'[t] = at[t]
      BY <1>0, <1>5, Zenon DEF loadTimestamp, UpdateSave, SyncSave, UpdateBegin, Types
    <3>2. at'[s] \in Campaign => at[s] \in Campaign
      BY <1>0, <1>5, Zenon DEF loadTimestamp, UpdateSave, SyncSave, UpdateBegin, Campaign, Types
    <3> QED
      BY <3>1, <3>2, Zenon
  <2>4. eras <= eras'
    BY <1>0, <2>2
  <2> QED
    BY <1>0, <2>1, <2>2, <2>3, <2>4, TenureFrame, Zenon DEF Tenure
<1>6. ASSUME NEW s \in Server, SyncStore(s) \/ UpdateStore(s) PROVE Tenure'
  <2>1. Keeps
    BY <1>6, KeepsCalls, Zenon
  <2>2. /\ at[s] \in {"saved", "store"} /\ at'[s] = "serving"
        /\ \A t \in Server \ {s} : at'[t] = at[t] /\ ts'[t] = ts[t]
        /\ UNCHANGED <<holder, era, eras>>
    BY <1>0, <1>6, Zenon DEF SyncStore, UpdateStore, StorePointer, Types
  <2>3. at[s] = "saved" => at[s] \in Campaign
    BY Zenon DEF Campaign
  <2>4. at[s] = "store" => ts[s] # NoTS
    BY <1>0, Zenon DEF Loop
  <2>5. \A t \in Server : t \in valid' /\ ts'[t] # NoTS => holder' = t
    <3>1. ASSUME SyncStore(s), s \in valid' PROVE holder = s
      BY <3>1, Zenon DEF SyncStore
    <3>2. ASSUME UpdateStore(s), s \in valid' PROVE holder = s
      BY <2>4, <3>2, Zenon DEF UpdateStore, Tenure
    <3>3. \A t \in Server \ {s} : t \in valid' => t \in valid
      BY <1>6, Zenon DEF SyncStore, UpdateStore
    <3> QED
      BY <1>6, <2>2, <3>1, <3>2, <3>3, Zenon DEF Tenure
  <2>6. eras <= eras' /\ "serving" \notin Campaign
    BY <1>0, <2>2 DEF Campaign
  <2> QED
    BY <1>0, <2>1, <2>2, <2>3, <2>4, <2>5, <2>6, TenureFrame, Zenon
<1>7. ASSUME NEW s \in Server, StepDown(s) \/ Crash(s) PROVE Tenure'
  <2>1. Keeps
    BY <1>7, KeepsCalls, Zenon
  <2>2. /\ at'[s] = "follower" /\ ts'[s] = NoTS
        /\ \A t \in Server \ {s} : at'[t] = at[t] /\ ts'[t] = ts[t]
        /\ UNCHANGED <<holder, era, eras>>
    BY <1>0, <1>7, Zenon DEF StepDown, Crash, Types
  <2>3. \A t \in Server : t \in valid' => t \in valid
    BY <1>7, Zenon DEF StepDown, Crash
  <2>4. eras <= eras' /\ "follower" \notin Campaign
    BY <1>0, <2>2 DEF Campaign
  <2>5. \A t \in Server : t \in valid' /\ ts'[t] # NoTS => holder' = t
    BY <2>2, <2>3, Zenon DEF Tenure
  <2> QED
    BY <1>0, <2>1, <2>2, <2>4, <2>5, TenureFrame, Zenon
<1>8. ASSUME NEW r \in Request, Respond(r) \/ RespondError(r) PROVE Tenure'
  <2>1. /\ req' = [req EXCEPT ![r] = IdleReq] /\ req \in [Request -> Call]
        /\ UNCHANGED <<holder, valid, objects, ts, at, era, eras>>
    BY <1>8, Zenon DEF Respond, RespondError, clock, Answers
  <2>2. IdleReq \in Call /\ IdleReq.at = "idle" /\ Len(objects) \in Nat
    BY TimeTypes, Zenon DEF IdleReq, Call, Windows
  <2>3. Keeps
    BY <2>1, <2>2 DEF Keeps
  <2> QED
    BY <1>1, <2>1, <2>3, Zenon DEF Tenure
<1> QED
  BY <1>2, <1>3, <1>4, <1>5, <1>6, <1>7, <1>8, LoadTenure, AddTenure, Zenon DEF TSONext, TSOStep

LEMMA TenureInit == TSOInit => Tenure
<1> SUFFICES ASSUME TSOInit PROVE Tenure
  BY Zenon
<1>1. valid = {} /\ eras = 0 /\ \A s \in Server : era[s] = 0
  BY Zenon DEF TSOInit
<1>2. \A r \in Request : req[r].at = "idle"
  BY Zenon DEF TSOInit, IdleReq
<1> QED
  BY <1>1, <1>2 DEF Tenure, TenureOK

TSOInv == Windows /\ Answers /\ Tenure

LEMMA TSOInvUnchanged == TSOInv /\ UNCHANGED tsoVars => TSOInv'
<1> SUFFICES ASSUME TSOInv, UNCHANGED tsoVars PROVE TSOInv'
  BY Zenon
<1>1. Windows'
  BY QuietWindows, Zenon DEF TSOInv, tsoVars, clock
<1>2. UNCHANGED <<objects, req, given, repeated>> /\ Len(objects) \in Nat
  BY TimeTypes, Zenon DEF TSOInv, tsoVars, Windows
<1>3. Answers'
  BY <1>2, AnswersFrame, SMTT(30) DEF TSOInv, Answers
<1>4. Tenure'
  BY DEF TSOInv, tsoVars, Tenure, TenureOK, SameTenure, Above, Bucket, Phys
<1> QED
  BY <1>1, <1>3, <1>4, Zenon DEF TSOInv

LEMMA TSOInvStep == TSOInv /\ [TSONext]_tsoVars => TSOInv' /\ saved <= saved'
<1>1. TSOInv /\ TSONext => TSOInv' /\ saved <= saved'
  BY WindowsStep, AnswersStep, TenureStep, Zenon DEF TSOInv
<1>2. TSOInv /\ UNCHANGED tsoVars => saved <= saved'
  BY DEF TSOInv, Windows, Types, tsoVars
<1> QED
  BY <1>1, <1>2, TSOInvUnchanged, Zenon

LEMMA TSOInvAlways == TSOSpec => []TSOInv
  BY WindowsInit, AnswersInit, TenureInit, TSOInvStep, PTL DEF TSOSpec, TSOInv

-----------------------------------------------------------------------------
\* GetRespTS hands out no timestamp twice.
THEOREM TimestampsStayUnique == TSOSpec => []TimestampsUnique
<1>1. TSOInv => TimestampsUnique
  BY Zenon DEF TSOInv, Answers, TimestampsUnique
<1> QED
  BY <1>1, TSOInvAlways, PTL

\* The physical time of every object lies below the time saved in etcd, so that the
\* next leader skips it (UpdateTimestamp, SyncTimestamp).
THEOREM WindowsStayCovered == TSOSpec => []WindowCovers
<1>1. TSOInv => WindowCovers
  BY Zenon DEF TSOInv, Windows, WindowCovers, Phys
<1> QED
  BY <1>1, TSOInvAlways, PTL

\* saveTimestamp never lowers the saved time.
THEOREM SavedTimeGrows == TSOSpec => SavedMonotone
<1>1. TSOInv /\ [TSONext]_tsoVars => [saved' >= saved]_tsoVars
  <2>1. TSOInv /\ [TSONext]_tsoVars => saved' \in Nat /\ saved \in Nat /\ saved <= saved'
    BY TSOInvStep, Zenon DEF TSOInv, Windows, Types
  <2> QED
    BY <2>1, Zenon
<1> QED
  BY <1>1, TSOInvAlways, PTL DEF TSOSpec, SavedMonotone

\* A call of GetRespTS gets a later timestamp than every call that had returned when
\* it began, unless its server stepped down in between.
THEOREM TimestampsInOrder == TSOSpec => TimestampOrder
<1> DEFINE Ordered == \A r \in Request : Respond(r) /\ SameTenure(r) =>
                          \A b \in Stamps(r) : \A a \in req[r].floor : Before(a, b)
<1>1. TSOInv => Ordered
  <2> SUFFICES ASSUME TSOInv, NEW r \in Request, Respond(r), SameTenure(r),
                      NEW b \in Stamps(r), NEW a \in req[r].floor
               PROVE  Before(a, b)
    BY Zenon
  <2>1. PICK o \in 1 .. Len(objects), l \in Nat, c \in Nat :
           o = req[r].obj /\ l = req[r].logical /\ c = req[r].count
    BY Zenon DEF TSOInv, Answers, CallOK, Call, Respond
  <2>2. PICK i \in 0 .. c - 1 : b = <<Bucket(o), l - i>>
    BY <2>1, Zenon DEF Stamps, Bucket, Phys
  <2>3. req[r].at = "added" /\ req[r].srv \in Server /\ req[r].srv \in valid
    BY Zenon DEF TSOInv, Answers, CallOK, Respond, LeaseAlive
  <2>4. Above(r)
    <3>1. holder = req[r].srv
      BY <2>3, Zenon DEF TSOInv, Tenure, SameTenure
    <3> QED
      BY <2>3, <3>1, Zenon DEF TSOInv, Tenure, TenureOK
  <2>5. a[1] < Bucket(o) \/ (a[1] = Bucket(o) /\ a[2] + c <= l)
    BY <2>1, <2>3, <2>4, Zenon DEF Above
  <2>6. a[1] \in Nat /\ a[2] \in Nat
    BY SMTT(30) DEF TSOInv, Answers, Call, Stamp
  <2>7. a[2] + c <= l => a[2] < l - i
    BY <2>6
  <2>8. b[1] = Bucket(o) /\ b[2] = l - i
    BY <2>2, Zenon
  <2> QED
    BY <2>5, <2>7, <2>8, Zenon DEF Before
<1> HIDE DEF Ordered
<1>2. TSOInv => [Ordered]_tsoVars
  BY <1>1, Zenon
<1>3. TSOSpec => [][Ordered]_tsoVars
  BY <1>2, TSOInvAlways, PTL
<1> QED
  BY <1>3, Zenon DEF Ordered, TimestampOrder

-----------------------------------------------------------------------------
(* The ids, and the two services together. *)

IDType ==
    /\ allocId \in Nat
    /\ base \in [Server -> Nat] /\ end \in [Server -> Nat]
    /\ read \in [Server -> Nat \cup {Unread}]
    /\ ids \in SUBSET Nat

\* What a server holds in reserve was written to etcd before, a server that asks for
\* more has nothing left, and the ids returned, the reserve of one server and that of
\* another have nothing in common.
IDInv ==
    /\ IDType
    /\ \A s \in Server : base[s] <= end[s] /\ end[s] <= allocId
    /\ \A s \in Server : read[s] # Unread => base[s] = end[s] /\ read[s] <= allocId
    /\ \A i \in ids : i <= allocId
    /\ \A i \in ids, s \in Server : i <= base[s] \/ end[s] < i
    /\ \A s, t \in Server : s # t => \/ base[s] = end[s] \/ base[t] = end[t]
                                     \/ end[s] <= base[t] \/ end[t] <= base[s]
    /\ ~idRepeated

LEMMA IDInvInit == IDInit => IDInv
<1>1. IDInit => ~idRepeated
  BY ZenonT(30) DEF IDInit
<1> QED
  BY <1>1 DEF IDInit, IDInv, IDType, Unread

\* The next id of a reserve is in no other reserve, and was not returned.
LEMMA AllocInv ==
    ASSUME NEW s \in Server, IDInv, Alloc(s)
    PROVE  IDInv'
<1>1. /\ base \in [Server -> Nat] /\ end \in [Server -> Nat] /\ allocId \in Nat
      /\ base[s] < end[s] /\ end[s] <= allocId
      /\ base[s] + 1 \notin ids
  BY SMTT(30) DEF IDInv, IDType, Alloc
<1>2. /\ base' = [base EXCEPT ![s] = base[s] + 1] /\ end' = end
      /\ allocId' = allocId /\ read' = read /\ read[s] = Unread
      /\ ids' = ids \cup {base[s] + 1} /\ idRepeated' = (idRepeated \/ base[s] + 1 \in ids)
  BY DEF Alloc, Return
<1>3. base'[s] = base[s] + 1 /\ \A t \in Server : t # s => base'[t] = base[t]
  BY <1>1, <1>2
<1>4. ~idRepeated'
  BY <1>1, <1>2, Zenon DEF IDInv
<1>5. IDType'
  <2>1. base' \in [Server -> Nat]
    <3>1. base[s] + 1 \in Nat
      BY <1>1
    <3> QED
      BY <1>1, <1>2, <3>1, Zenon
  <2>2. ids' \in SUBSET Nat
    <3>1. base[s] + 1 \in Nat /\ ids \subseteq Nat
      BY <1>1 DEF IDInv, IDType
    <3> QED
      BY <1>2, <3>1, Zenon
  <2> QED
    BY <1>1, <1>2, <2>1, <2>2 DEF IDInv, IDType
<1>6. \A t \in Server : base'[t] <= end'[t] /\ end'[t] <= allocId'
  BY <1>1, <1>2, <1>3 DEF IDInv
<1>7. \A t \in Server : read'[t] # Unread => base'[t] = end'[t] /\ read'[t] <= allocId'
  BY <1>1, <1>2, <1>3 DEF IDInv
<1>8. \A i \in ids', t \in Server : i <= base'[t] \/ end'[t] < i
  <2> SUFFICES ASSUME NEW i \in ids', NEW t \in Server PROVE i <= base'[t] \/ end'[t] < i
    OBVIOUS
  <2>1. CASE i \in ids
    BY <1>1, <1>2, <1>3, <2>1 DEF IDInv, IDType
  <2>2. CASE i = base[s] + 1 /\ t # s
    BY <1>1, <1>2, <1>3, <2>2, SMTT(30) DEF IDInv
  <2>3. CASE i = base[s] + 1 /\ t = s
    BY <1>1, <1>3, <2>3, SMTT(30)
  <2> QED
    BY <1>2, <2>1, <2>2, <2>3
<1>9. \A t, u \in Server : t # u => \/ base'[t] = end'[t] \/ base'[u] = end'[u]
                                    \/ end'[t] <= base'[u] \/ end'[u] <= base'[t]
  BY <1>1, <1>2, <1>3 DEF IDInv
<1>10. \A i \in ids' : i <= allocId'
  BY <1>1, <1>2 DEF IDInv
<1> QED
  BY <1>4, <1>5, <1>6, <1>7, <1>8, <1>9, <1>10 DEF IDInv

\* The txn of generate raises alloc_id by allocStep: the new reserve lies above
\* everything reserved or returned so far.
LEMMA GenerateInv ==
    ASSUME NEW s \in Server, IDInv, Generate(s)
    PROVE  IDInv'
<1>1. /\ base \in [Server -> Nat] /\ end \in [Server -> Nat] /\ allocId \in Nat
      /\ read \in [Server -> Nat \cup {Unread}] /\ AllocStep \in Nat /\ AllocStep > 0
  BY IDAssumption DEF IDInv, IDType
<1>2. /\ allocId' = allocId + AllocStep
      /\ read' = [read EXCEPT ![s] = Unread]
  BY DEF Generate, GenerateCmp
<1>3. CASE UNCHANGED <<base, end, ids, idRepeated>>
  BY <1>1, <1>2, <1>3 DEF IDInv, IDType, Unread
<1>4. CASE /\ end' = [end EXCEPT ![s] = allocId + AllocStep]
           /\ base' = [base EXCEPT ![s] = allocId + 1]
           /\ ids' = ids \cup {allocId + 1}
           /\ idRepeated' = (idRepeated \/ allocId + 1 \in ids)
  <2>1. /\ base'[s] = allocId + 1 /\ end'[s] = allocId + AllocStep /\ read'[s] = Unread
        /\ \A t \in Server : t # s => /\ base'[t] = base[t] /\ end'[t] = end[t]
                                      /\ read'[t] = read[t]
    BY <1>1, <1>2, <1>4
  <2>2. allocId + 1 \notin ids
    BY <1>1 DEF IDInv
  <2>3. ~idRepeated'
    BY <1>4, <2>2, Zenon DEF IDInv
  <2>4. IDType'
    BY <1>1, <1>2, <1>4, <2>3, SMTT(30) DEF IDInv, IDType
  <2>5. \A t \in Server : base'[t] <= end'[t] /\ end'[t] <= allocId'
    BY <1>1, <1>2, <2>1, SMTT(30) DEF IDInv
  <2>6. \A t \in Server : read'[t] # Unread => base'[t] = end'[t] /\ read'[t] <= allocId'
    BY <1>1, <1>2, <2>1 DEF IDInv, Unread
  <2>7. \A i \in ids', t \in Server : i <= base'[t] \/ end'[t] < i
    BY <1>1, <1>4, <2>1, SMTT(30) DEF IDInv, IDType
  <2>8. \A t, u \in Server : t # u => \/ base'[t] = end'[t] \/ base'[u] = end'[u]
                                      \/ end'[t] <= base'[u] \/ end'[u] <= base'[t]
    BY <1>1, <2>1 DEF IDInv
  <2>9. \A i \in ids' : i <= allocId'
    BY <1>1, <1>2, <1>4 DEF IDInv, IDType
  <2> QED
    BY <2>3, <2>4, <2>5, <2>6, <2>7, <2>8, <2>9 DEF IDInv
<1> QED
  <2>1. (allocId + AllocStep) - AllocStep + 1 = allocId + 1
    BY <1>1
  <2>2. read[s] = allocId
    BY DEF Generate, GenerateCmp
  <2> QED
    BY <1>3, <1>4, <2>1, <2>2, Zenon DEF Generate, Return

LEMMA IDNextInv == IDInv /\ IDNext => IDInv'
<1> SUFFICES ASSUME IDInv, NEW s \in Server,
                    Alloc(s) \/ GenerateRead(s) \/ Generate(s) \/ GenerateFails(s)
             PROVE  IDInv'
  BY DEF IDNext
<1>1. CASE GenerateRead(s)
  BY <1>1 DEF GenerateRead, IDInv, IDType, Unread
<1>2. CASE GenerateFails(s)
  BY <1>2 DEF GenerateFails, IDInv, IDType, Unread
<1> QED
  BY <1>1, <1>2, AllocInv, GenerateInv

LEMMA ForgetInv ==
    ASSUME NEW s \in Server, IDInv, ForgetIds(s)
    PROVE  IDInv'
  BY DEF ForgetIds, IDInv, IDType, Unread

LEMMA IDUnchanged == IDInv /\ UNCHANGED idVars => IDInv'
  BY DEF IDInv, IDType, idVars

\* No id is returned twice by Alloc, whatever happens to the leader key.
THEOREM AllocatorUnique == IDSpec => []IdsUnique
<1>1. IDInv /\ [\/ IDNext /\ UNCHANGED holder
                \/ \E s \in Server : ForgetIds(s) /\ UNCHANGED holder
                \/ holder' \in Server \cup {None} /\ UNCHANGED idVars]_<<holder, idVars>>
      => IDInv'
  BY IDNextInv, ForgetInv, IDUnchanged
<1>2. IDInv => IdsUnique
  BY DEF IDInv, IdsUnique
<1> QED
  BY <1>1, <1>2, IDInvInit, PTL DEF IDSpec

-----------------------------------------------------------------------------
(* Both services of a server. *)

\* Seen from the oracle, the allocator stutters.
THEOREM ServicesImplementTSO == Spec => TSOSpec
<1>1. Init => TSOInit
  BY DEF Init
<1>2. [Next]_vars => [TSONext]_tsoVars
  BY DEF Next, TSONext, CrashBoth, vars, tsoVars
<1> QED
  BY <1>1, <1>2, PTL DEF Spec, TSOSpec

\* Alloc returns no id twice and GetRespTS no timestamp, whatever the two and the
\* elections, crashes and errors do to each other.
THEOREM ServicesUnique == Spec => [](IdsUnique /\ TimestampsUnique)
<1>1. Init => IDInv
  BY IDInvInit DEF Init
<1>2. IDInv /\ [Next]_vars => IDInv'
  BY IDNextInv, ForgetInv, IDUnchanged DEF Next, CrashBoth, vars
<1>3. IDInv => IdsUnique
  BY DEF IDInv, IdsUnique
<1> QED
  BY <1>1, <1>2, <1>3, ServicesImplementTSO, TimestampsStayUnique, PTL DEF Spec

\* What is promised of the saved time and of the order of timestamps also holds with
\* the allocator beside the oracle.
THEOREM ServicesOrdered == Spec => []WindowCovers /\ SavedMonotone /\ TimestampOrder
  BY ServicesImplementTSO, WindowsStayCovered, SavedTimeGrows, TimestampsInOrder
=============================================================================
