------------------------------- MODULE MCUnlock -------------------------------
(***************************************************************************)
(* Instances of Unlock: an unprotected file, a protected file, a protected *)
(* message and a message that is not UTF-8, of two chunks each.            *)
(***************************************************************************)
EXTENDS Unlock

CONSTANTS r1, r2, plain, secret, note, blob

Intact(a) == [head |-> a, body |-> a, bad |-> 0, lost |-> FALSE]

\* Everything that can be at the input path: each artifact intact, two damaged
\* in their last chunk, one with the payload of another, one truncated, and
\* one whose superblocks are all unreadable.
AllInputs ==
    {Intact(a) : a \in Artifacts}
    \cup {[Intact(secret) EXCEPT !.bad = 2], [Intact(plain) EXCEPT !.bad = 2],
          [Intact(secret) EXCEPT !.body = plain], [Intact(plain) EXCEPT !.lost = TRUE],
          [Intact(plain) EXCEPT !.head = NoArtifact]}

\* A file, and a protected message.
PairInputs == {Intact(plain), Intact(note)}

\* An undamaged file.
OneInput == {Intact(plain)}
===============================================================================
