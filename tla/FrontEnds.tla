------------------------------- MODULE FrontEnds -------------------------------
(***************************************************************************)
(* Both front ends of the program: main starts with the command line,      *)
(* which without a command opens the terminal session and ends with it.    *)
(***************************************************************************)
EXTENDS Cli, Forms

vars == <<cli, forms>>

Init == FormsInit /\ CliInit

\* The session ends when it is left, or as soon as the terminal fails it.
TuiEnds ==
    /\ stage = "tui"
    /\ \/ screen = "quit" /\ End("ok", 0) /\ UNCHANGED forms
       \/ Quit /\ End("failed", 1)

Next ==
    \/ CliNext /\ UNCHANGED forms
    \/ stage = "tui" /\ FormsNext /\ UNCHANGED cli
    \/ TuiEnds

Spec == Init /\ [][Next]_vars

-------------------------------------------------------------------------------
(* Properties.                                                               *)

\* Both front ends are where they can be.
TypeOK == CliTypeOK /\ FormsTypeOK

\* What the user reads is so: the output path and the estimate on a form are those of
\* the file it names, and a prompt's number of attempts is the number there will be.
ShownIsTrue == OutputFollowsInput /\ EstimateIsOfInput /\ AttemptsLeft

\* Either front end runs a use case on what was chosen or typed there.
RunsWhatWasChosen == FormsRunWhatWasChosen /\ CommandRunsWhatWasTyped
================================================================================
