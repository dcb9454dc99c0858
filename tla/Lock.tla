--------------------------------- MODULE Lock ---------------------------------
(***************************************************************************)
(* The lock use case, src/usecases/lock/.  Several runs (command line      *)
(* processes, or the worker thread of a terminal session) may be under     *)
(* way at once; they share one source path and the output directory with   *)
(* each other and with other programs, which also edit the source.         *)
(*                                                                         *)
(* A payload is the sequence of its AEAD chunks, each the version of the   *)
(* source it was read from, so that a copy torn by an edit can be told     *)
(* from one that was not.                                                  *)
(***************************************************************************)
EXTENDS Integers, Sequences

CONSTANTS
    Runs,           \* the lock runs
    Stdin,          \* the runs whose input is "-"
    Message,        \* the runs started from the form for typed messages
    OutOption,      \* the runs started with an explicit output path
    Verify,         \* the runs asked to verify what they wrote
    Paths,          \* the output paths
    Output,         \* Output[r]: the output path of a run
    Versions,       \* what the source path may hold
    NoFile,         \* nothing at the source path
    Typed,          \* the bytes given on stdin or as the input argument itself
    Chunks,         \* number of AEAD chunks of a payload
    Nobody, Other   \* "authors" of a missing file and of somebody else's file

Bytes    == Versions \cup {Typed}
Partial  == UNION {[1..n -> Bytes] : n \in 0..Chunks}
Payloads == [1..Chunks -> Bytes]

ASSUME LockAssumption ==
    /\ Stdin \subseteq Runs /\ Message \subseteq Runs
    /\ OutOption \subseteq Runs /\ Verify \subseteq Runs
    /\ Output \in [Runs -> Paths]
    /\ NoFile \notin Versions /\ Typed \notin Versions
    /\ Chunks \in Nat \ {0}
    /\ Nobody \notin Runs /\ Other \notin Runs /\ Nobody # Other

VARIABLES
    source,   \* what is at the source path now: NoFile or a version
    files,    \* files[p]: author and payload of the file at output path p
    pc,       \* pc[r]: where the run is
    token,    \* token[r]: its CancellationToken has been set
    kind,     \* kind[r]: what it takes its input for, once it has decided
    staged,   \* staged[r]: the chunks copied to its staging file so far
    stream,   \* stream[r]: the chunks encrypted so far
    temps,    \* temps[r]: its temporary files, "staging" and "artifact"
    result    \* result[r]: what it returned

vars == <<source, files, pc, token, kind, staged, stream, temps, result>>

Absent  == [by |-> Nobody, what |-> << >>]
Foreign == [by |-> Other, what |-> << >>]

Init ==
    /\ source \in Versions \cup {NoFile}
    /\ files \in [Paths -> {Absent, Foreign}]
    /\ pc = [r \in Runs |-> "start"]
    /\ token = [r \in Runs |-> FALSE]
    /\ kind = [r \in Runs |-> "unknown"]
    /\ staged = [r \in Runs |-> << >>]
    /\ stream = [r \in Runs |-> << >>]
    /\ temps = [r \in Runs |-> {}]
    /\ result = [r \in Runs |-> "none"]

Goto(r, l) == pc' = [pc EXCEPT ![r] = l]

\* Mutant: the staged plaintext outlives the run.
FinishKeepsPlaintext(r, outcome) ==
    /\ Goto(r, "done") /\ result' = [result EXCEPT ![r] = outcome]
    /\ temps' = [temps EXCEPT ![r] = @ \ {"artifact"}]

\* The run returns; dropping its NamedTempFiles deletes the temporary files.
Finish(r, outcome) ==
    /\ Goto(r, "done")
    /\ result' = [result EXCEPT ![r] = outcome]
    /\ temps' = [temps EXCEPT ![r] = {}]

\* ensure_not_cancelled(cancellation)?
UnlessCancelled(r, l) ==
    IF token[r] THEN Finish(r, "cancelled") ELSE Goto(r, l) /\ UNCHANGED <<result, temps>>

-------------------------------------------------------------------------------
(* Resolving and staging the input.                                          *)

Start(r) ==
    /\ pc[r] = "start"
    /\ UnlessCancelled(r, "resolve")
    /\ UNCHANGED <<source, files, token, kind, staged, stream>>

\* "-" is stdin, the name of something that exists is a file, the rest is text;
\* only a file has a default output path.
ResolveSource(r) ==
    /\ pc[r] = "resolve"
    /\ LET k == IF r \in Stdin THEN "stdin" ELSE IF source # NoFile THEN "file" ELSE "text"
       IN  /\ kind' = [kind EXCEPT ![r] = k]
           /\ IF k # "file" /\ r \notin OutOption
                 THEN Finish(r, "error")
                 ELSE Goto(r, "check") /\ UNCHANGED <<result, temps>>
    /\ UNCHANGED <<source, files, token, staged, stream>>

CheckOutput(r) ==
    /\ pc[r] = "check"
    /\ IF files[Output[r]].by # Nobody
          THEN Finish(r, "error")
          ELSE Goto(r, "stage") /\ UNCHANGED <<result, temps>>
    /\ UNCHANGED <<source, files, token, kind, staged, stream>>

\* A staging file beside the output, after the directory is made.
Stage(r) ==
    /\ pc[r] = "stage"
    /\ IF token[r]
          THEN Finish(r, "cancelled")
          ELSE /\ Goto(r, "copy")
               /\ temps' = [temps EXCEPT ![r] = @ \cup {"staging"}]
               /\ UNCHANGED result
    /\ UNCHANGED <<source, files, token, kind, staged, stream>>

\* Mutant: reads once more at the end of the source.
CopyPastTheEnd(r, bytes) ==
    /\ pc[r] = "copy" /\ Len(staged[r]) <= Chunks
    /\ staged' = [staged EXCEPT ![r] = Append(@, bytes)]
    /\ UNCHANGED <<source, files, pc, token, kind, stream, temps, result>>

CopyChunk(r, bytes) ==
    /\ pc[r] = "copy" /\ Len(staged[r]) < Chunks
    /\ staged' = [staged EXCEPT ![r] = Append(@, bytes)]
    /\ UNCHANGED <<source, files, pc, token, kind, stream, temps, result>>

\* The name is needed to open the file; from then on the copy reads what the
\* name holds by then or, where that is another file now, goes on with its own.
CopyFile(r) ==
    /\ kind[r] = "file"
    /\ \/ source # NoFile /\ CopyChunk(r, source)
       \/ staged[r] # << >> /\ CopyChunk(r, staged[r][Len(staged[r])])

SourceIsGone(r) ==
    /\ pc[r] = "copy" /\ kind[r] = "file" /\ staged[r] = << >> /\ source = NoFile
    /\ Finish(r, "error")
    /\ UNCHANGED <<source, files, token, kind, staged, stream>>

CopyText(r) == kind[r] = "text" /\ CopyChunk(r, Typed)

\* Reading stdin blocks until its writer closes it.
CopyStdin(r) == kind[r] = "stdin" /\ CopyChunk(r, Typed)

Staged(r) ==
    /\ pc[r] = "copy" /\ Len(staged[r]) = Chunks
    /\ UnlessCancelled(r, "difficulty")
    /\ UNCHANGED <<source, files, token, kind, staged, stream>>

-------------------------------------------------------------------------------
(* Building the artifact.                                                    *)

\* Calibration and difficulty, then write_payload_artifacts looks at the token.
ResolveDifficulty(r) ==
    /\ pc[r] = "difficulty"
    /\ UnlessCancelled(r, "puzzle")
    /\ UNCHANGED <<source, files, token, kind, staged, stream>>

\* Passphrase, primes and wrapped key; then the second temporary file.
CreatePuzzle(r) ==
    /\ pc[r] = "puzzle"
    /\ Goto(r, "encrypt")
    /\ temps' = [temps EXCEPT ![r] = @ \cup {"artifact"}]
    /\ UNCHANGED <<source, files, token, kind, staged, stream, result>>

\* Mutant: encrypts from the source rather than from the staged copy.
EncryptSource(r) ==
    /\ pc[r] = "encrypt" /\ ~token[r]
    /\ stream' = [stream EXCEPT ![r] =
                    Append(@, IF source = NoFile THEN staged[r][Len(@) + 1] ELSE source)]
    /\ IF Len(stream'[r]) = Chunks THEN Goto(r, "write") ELSE UNCHANGED pc
    /\ UNCHANGED <<source, files, token, kind, staged, temps, result>>

\* Mutant: the encryption loop does not look at the token.
EncryptIgnoresCancel(r) ==
    /\ pc[r] = "encrypt"
    /\ stream' = [stream EXCEPT ![r] = Append(@, staged[r][Len(@) + 1])]
    /\ IF Len(stream'[r]) = Chunks THEN Goto(r, "write") ELSE UNCHANGED pc
    /\ UNCHANGED <<source, files, token, kind, staged, temps, result>>

EncryptChunk(r) ==
    /\ pc[r] = "encrypt" /\ ~token[r]
    /\ stream' = [stream EXCEPT ![r] = Append(@, staged[r][Len(@) + 1])]
    /\ IF Len(stream'[r]) = Chunks THEN Goto(r, "write") ELSE UNCHANGED pc
    /\ UNCHANGED <<source, files, token, kind, staged, temps, result>>

\* Mutant: the encryption loop is left on cancellation without returning.
EncryptStopsOnCancel(r) == FALSE /\ pc[r] = "encrypt" /\ UNCHANGED vars

EncryptSeesCancel(r) ==
    /\ pc[r] = "encrypt" /\ token[r]
    /\ Finish(r, "cancelled")
    /\ UNCHANGED <<source, files, token, kind, staged, stream>>

\* Mutant: the artifact is written at the output path itself.
WriteInPlace(r) ==
    /\ pc[r] = "write"
    /\ Goto(r, "persist")
    /\ files' = [files EXCEPT ![Output[r]] = [by |-> r, what |-> stream[r]]]
    /\ UNCHANGED <<source, token, kind, staged, stream, temps, result>>

\* Shards, notice and superblocks go to the temporary file, whole or not at all.
WriteArtifact(r) ==
    /\ pc[r] = "write"
    /\ Goto(r, "persist")
    /\ UNCHANGED <<source, files, token, kind, staged, stream, temps, result>>

\* Any call before the rename, or the rename itself, may fail: no space, no
\* permission, a bad delay or passphrase, a source that is gone.
Fails(r) ==
    /\ pc[r] \in {"stage", "copy", "difficulty", "puzzle", "encrypt", "write", "persist"}
    /\ Finish(r, "error")
    /\ UNCHANGED <<source, files, token, kind, staged, stream>>

-------------------------------------------------------------------------------
(* Publishing and verifying.                                                 *)

\* NamedTempFile::persist renames over whatever is at the path by now.
Persist(r) ==
    /\ pc[r] = "persist"
    /\ files' = [files EXCEPT ![Output[r]] = [by |-> r, what |-> stream[r]]]
    /\ IF r \in Verify
          THEN /\ Goto(r, "verify")
               /\ temps' = [temps EXCEPT ![r] = @ \ {"artifact"}]
               /\ UNCHANGED result
          ELSE Finish(r, "ok")
    /\ UNCHANGED <<source, token, kind, staged, stream>>

\* Verification reads the path again, and whatever is there now.  Failing or
\* being cancelled here does not take the output back.
VerifyOutput(r) ==
    /\ pc[r] = "verify"
    /\ \/ ~token[r] /\ files[Output[r]].by \in Runs /\ Finish(r, "ok")
       \/ Finish(r, "unverified")
    /\ UNCHANGED <<source, files, token, kind, staged, stream>>

-------------------------------------------------------------------------------
(* What happens around the runs.                                             *)

RequestCancel(r) ==
    /\ pc[r] # "done" /\ ~token[r]
    /\ token' = [token EXCEPT ![r] = TRUE]
    /\ UNCHANGED <<source, files, pc, kind, staged, stream, temps, result>>

\* The process is killed: nothing is dropped, temporary files stay behind.
Crash(r) ==
    /\ pc[r] # "done"
    /\ Goto(r, "done")
    /\ result' = [result EXCEPT ![r] = IF pc[r] = "verify" THEN "killed verifying"
                                       ELSE "crashed"]
    /\ UNCHANGED <<source, files, token, kind, staged, stream, temps>>

EditSource ==
    /\ \E v \in (Versions \cup {NoFile}) \ {source} : source' = v
    /\ UNCHANGED <<files, pc, token, kind, staged, stream, temps, result>>

OtherCreates(p) ==
    /\ files[p].by = Nobody
    /\ files' = [files EXCEPT ![p] = Foreign]
    /\ UNCHANGED <<source, pc, token, kind, staged, stream, temps, result>>

\* Steps the run takes by itself, and steps that need somebody else.
Step(r) == \/ Start(r) \/ ResolveSource(r) \/ CheckOutput(r) \/ Stage(r)
           \/ CopyFile(r) \/ SourceIsGone(r) \/ CopyText(r) \/ Staged(r)
           \/ ResolveDifficulty(r) \/ CreatePuzzle(r)
           \/ EncryptChunk(r) \/ EncryptSeesCancel(r) \/ WriteArtifact(r)
           \/ Persist(r) \/ VerifyOutput(r)

Around(r) == CopyStdin(r) \/ Fails(r) \/ RequestCancel(r) \/ Crash(r)

Next == \/ \E r \in Runs : Step(r) \/ Around(r)
        \/ EditSource
        \/ \E p \in Paths : OtherCreates(p)

Spec == Init /\ [][Next]_vars

\* The operating system keeps scheduling a thread that can take a step.
FairSpec == Spec /\ \A r \in Runs : WF_vars(Step(r))

-------------------------------------------------------------------------------
(* Properties.                                                               *)

PCs     == {"start", "resolve", "check", "stage", "copy", "difficulty", "puzzle",
            "encrypt", "write", "persist", "verify", "done"}
Results == {"none", "ok", "cancelled", "error", "unverified", "killed verifying", "crashed"}

\* Returned, or was killed, after its output had been published.
Succeeded == {"ok", "unverified", "killed verifying"}

\* The type of every variable.
TypeOK ==
    /\ source \in Versions \cup {NoFile}
    /\ files \in [Paths -> [by : Runs \cup {Nobody, Other}, what : Partial]]
    /\ pc \in [Runs -> PCs]
    /\ token \in [Runs -> BOOLEAN]
    /\ kind \in [Runs -> {"unknown", "stdin", "file", "text"}]
    /\ staged \in [Runs -> Partial]
    /\ stream \in [Runs -> Partial]
    /\ temps \in [Runs -> SUBSET {"staging", "artifact"}]
    /\ result \in [Runs -> Results]

\* An output file holds exactly what its run copied to staging, from the first
\* chunk to the last, whatever has become of the source since.
OutputIsTheStagedCopy ==
    \A p \in Paths : files[p].by \in Runs =>
       /\ files[p].what = staged[files[p].by]
       /\ Len(files[p].what) = Chunks

\* A run that fails leaves nothing at any output path, unless what failed is the
\* verification it was asked for, and no plaintext in a temporary file unless
\* it is killed.
NothingLeftBehind ==
    \A r \in Runs :
       /\ result[r] \notin Succeeded /\ pc[r] # "verify" =>
             \A p \in Paths : files[p].by # r
       /\ result[r] \in {"unverified", "killed verifying"} => r \in Verify
       /\ result[r] \in {"ok", "unverified", "cancelled", "error"} => temps[r] = {}

\* Before the last look at the token, which is when the last chunk is encrypted.
Cancellable(r) == pc[r] \notin {"write", "persist", "verify", "done"}

\* A run cancelled before its last chunk is encrypted never has an output file.
CancelIsHonoured ==
    \A r \in Runs :
       [](token[r] /\ Cancellable(r) => [](\A p \in Paths : files[p].by # r))

\* Every run ends, unless its stdin is never closed.
EndsOrWaitsForStdin ==
    \A r \in Runs : <>[](pc[r] = "done" \/ (pc[r] = "copy" /\ kind[r] = "stdin"))

\* Locking publishes a whole artifact in one step or nothing at all; a failing
\* verification comes after that step and does not undo it.
Promise == INSTANCE Delivery WITH
    NoPayload <- << >>,
    store <- files,
    outcome <- [r \in Runs |->
                  IF result[r] \in Succeeded \/ pc[r] = "verify" THEN "delivered"
                  ELSE IF pc[r] = "done" THEN "failed" ELSE "pending"]

ImplementsDelivery == Promise!Spec

\* Main menu, "Lock text": "Create a timelocked file from a message".
\* What is typed into that form is locked as a message.
MessageIsLockedAsText ==
    \A r \in Message : kind[r] \in {"unknown", "text"}
===============================================================================
