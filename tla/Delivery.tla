------------------------------- MODULE Delivery -------------------------------
(***************************************************************************)
(* What locking and unlocking promise to whoever looks at the output       *)
(* directory: a run is pending until it either publishes one whole payload *)
(* in a single step or ends without having published anything.  How the    *)
(* payload is computed, where it is staged and how often the user is asked *)
(* for a passphrase is invisible here.                                     *)
(***************************************************************************)

CONSTANTS Runs,       \* the lock or unlock runs
          Paths,      \* the output paths
          Payloads,   \* what a run may publish, always as a whole
          NoPayload,  \* stands in for the payload of a path no run has written
          Nobody,     \* "author" of a path at which there is no file
          Other       \* author of a file that no run wrote

VARIABLES store,      \* store[p]: author and payload of the file at path p
          outcome     \* outcome[r]: "pending", "delivered" or "failed"

vars == <<store, outcome>>

Foreign == {[by |-> Nobody, what |-> NoPayload], [by |-> Other, what |-> NoPayload]}

Init == /\ store \in [Paths -> Foreign]
        /\ outcome = [r \in Runs |-> "pending"]

\* A run publishes a whole payload at one path; there is no second step.
Publish(r, p, x) ==
    /\ outcome[r] = "pending"
    /\ outcome' = [outcome EXCEPT ![r] = "delivered"]
    /\ store' = [store EXCEPT ![p] = [by |-> r, what |-> x]]

\* A recovered message is handed to the user and never reaches the store.
Show(r) ==
    /\ outcome[r] = "pending"
    /\ outcome' = [outcome EXCEPT ![r] = "delivered"]
    /\ UNCHANGED store

Fail(r) ==
    /\ outcome[r] = "pending"
    /\ outcome' = [outcome EXCEPT ![r] = "failed"]
    /\ UNCHANGED store

\* Some other program creates a file where there was none.
Interfere(p) ==
    /\ store[p].by = Nobody
    /\ store' = [store EXCEPT ![p] = [by |-> Other, what |-> NoPayload]]
    /\ UNCHANGED outcome

Next == \/ \E r \in Runs : Show(r) \/ Fail(r)
        \/ \E r \in Runs, p \in Paths, x \in Payloads : Publish(r, p, x)
        \/ \E p \in Paths : Interfere(p)

Spec == Init /\ [][Next]_vars
===============================================================================
