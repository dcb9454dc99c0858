------------------------------- MODULE MCSession -------------------------------
(***************************************************************************)
(* Instances of Session: two threads, although one suffices as long as     *)
(* NoDetachedWorker holds.                                                 *)
(***************************************************************************)
EXTENDS Session

CONSTANTS w1, w2
===============================================================================
