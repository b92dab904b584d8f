------------------------- MODULE SchedulerServices -------------------------
(***************************************************************************)
(* The timestamp oracle and the id allocator of the scheduler servers on   *)
(* one leader key: Win and Lose are those of TSO, and a crash empties both. *)
(***************************************************************************)
EXTENDS TSO, IDAllocator

vars == <<tsoVars, idVars>>

Init == TSOInit /\ IDInit

CrashBoth(s) == Crash(s) /\ ForgetIds(s)

Next ==
    \/ TSOStep /\ UNCHANGED idVars
    \/ \E s \in Server : CrashBoth(s)
    \/ IDNext /\ UNCHANGED tsoVars

Spec == Init /\ [][Next]_vars
=============================================================================
