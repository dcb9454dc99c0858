-------------------------------- MODULE MCLock --------------------------------
(***************************************************************************)
(* Instances of Lock: payloads of one or two chunks, a source that has two *)
(* versions or is missing.                                                 *)
(***************************************************************************)
EXTENDS Lock

CONSTANTS r1, r2, v1, v2, p1, p2

\* The first run has the first path; so has the second.
SharedOutput == [r \in Runs |-> p1]
===============================================================================
