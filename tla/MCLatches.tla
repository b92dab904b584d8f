----------------------------- MODULE MCLatches -----------------------------
(* Three commands over two keys: every two may overlap or not, and a third   *)
(* one may take the keys between a release and the retry of a waiter.  Three *)
(* WaitGroup cells are enough: a thread points to one at a time, as a holder *)
(* or as a waiter.                                                           *)
EXTENDS Latches
=============================================================================
