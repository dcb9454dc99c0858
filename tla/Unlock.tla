-------------------------------- MODULE Unlock --------------------------------
(***************************************************************************)
(* The unlock use case, src/usecases/unlock.rs, with the recovery pipeline *)
(* it drives.  Several runs (command line processes, or the worker thread  *)
(* of a terminal session) may be under way at once; they share the input   *)
(* file and the output directory with each other and with other programs.  *)
(*                                                                         *)
(* All runs unlock the same input path and all recovered files have the    *)
(* same original name, so that the output paths are the suffix indices     *)
(* 0 (the name itself), 1 (name.1.ext), 2, ...                             *)
(***************************************************************************)
EXTENDS Naturals

CONSTANTS
    Runs,           \* the unlock runs
    Prompting,      \* the runs that have a password provider
    OutOption,      \* the runs started with --out or --out-dir
    Artifacts,      \* the timelocked files that may be at the input path
    Texts,          \* the artifacts whose payload is a message, not a file
    NotUtf8,        \* the texts whose bytes are not UTF-8
    Protected,      \* the artifacts that need a passphrase
    Chunks,         \* number of AEAD chunks of a payload
    MaxSuffix,      \* last suffix index (u64::MAX in the code)
    Inputs,         \* the contents the input path may have, see InputStates
    Nobody, Other,  \* "authors" of a missing file and of somebody else's file
    NoArtifact      \* no artifact

MAX_PASSWORD_ATTEMPTS == 3

(***************************************************************************)
(* The input file, as far as a run can tell inputs apart: the artifact its *)
(* superblock belongs to (NoArtifact: no superblock is usable), the        *)
(* artifact its payload region belongs to, the chunk that is no longer     *)
(* what was encrypted (0: none; damage the Reed-Solomon shards repair does *)
(* not count), and whether the region is missing or beyond repair.         *)
(***************************************************************************)
InputStates == [head : Artifacts \cup {NoArtifact}, body : Artifacts,
                bad : 0..Chunks, lost : BOOLEAN]

ASSUME UnlockAssumption ==
    /\ Prompting \subseteq Runs /\ OutOption \subseteq Runs
    /\ NotUtf8 \subseteq Texts /\ Texts \subseteq Artifacts /\ Protected \subseteq Artifacts
    /\ Chunks \in Nat \ {0} /\ MaxSuffix \in Nat
    /\ Inputs \subseteq InputStates
    /\ Nobody \notin Runs /\ Other \notin Runs /\ Nobody # Other
    /\ NoArtifact \notin Artifacts

Paths == 0..MaxSuffix

VARIABLES
    input,    \* what is at the input path now
    files,    \* files[p]: author, artifact and number of chunks of the file at p
    pc,       \* pc[r]: where the run is
    token,    \* token[r]: its CancellationToken has been set
    head,     \* head[r]: the artifact whose superblock it has parsed
    target,   \* target[r]: the output path it has chosen
    attempt,  \* attempt[r]: its current passphrase attempt
    mask,     \* mask[r]: the time-lock mask is solved (and cached)
    key,      \* key[r]: "none", or the file key it derived: "right" or "wrong"
    stream,   \* stream[r]: the payload region it has read
    written,  \* written[r]: chunks written to the temporary file or the buffer
    temp,     \* temp[r]: its temporary file: "none", "live" or "orphan"
    result    \* result[r]: what it returned

vars == <<input, files, pc, token, head, target, attempt, mask, key, stream,
          written, temp, result>>

Absent  == [by |-> Nobody, of |-> NoArtifact, chunks |-> 0]
Foreign == [by |-> Other, of |-> NoArtifact, chunks |-> 0]

Init ==
    /\ input \in Inputs
    /\ files \in [Paths -> {Absent, Foreign}]
    /\ pc = [r \in Runs |-> "start"]
    /\ token = [r \in Runs |-> FALSE]
    /\ head = [r \in Runs |-> NoArtifact]
    /\ target = [r \in Runs |-> 0]
    /\ attempt = [r \in Runs |-> 1]
    /\ mask = [r \in Runs |-> FALSE]
    /\ key = [r \in Runs |-> "none"]
    /\ stream = [r \in Runs |-> input]
    /\ written = [r \in Runs |-> 0]
    /\ temp = [r \in Runs |-> "none"]
    /\ result = [r \in Runs |-> "none"]

Goto(r, l) == pc' = [pc EXCEPT ![r] = l]

\* Mutant: the temporary file is kept when the run returns.
FinishLeavesTemp(r, outcome) ==
    Goto(r, "done") /\ result' = [result EXCEPT ![r] = outcome] /\ UNCHANGED temp

\* The run returns; dropping its NamedTempFile deletes the temporary file.
Finish(r, outcome) ==
    /\ Goto(r, "done")
    /\ result' = [result EXCEPT ![r] = outcome]
    /\ temp' = [temp EXCEPT ![r] = "none"]

-------------------------------------------------------------------------------
(* Parsing the input and choosing the output path, both once per run.        *)

Start(r) ==
    /\ pc[r] = "start"
    /\ IF token[r] THEN Finish(r, "cancelled")
                   ELSE Goto(r, "parse") /\ UNCHANGED <<temp, result>>
    /\ UNCHANGED <<input, files, token, head, target, attempt, mask, key, stream, written>>

\* A message cannot be unlocked with an output option; it needs no path.
Parse(r) ==
    /\ pc[r] = "parse"
    /\ LET a == input.head IN
       /\ head' = [head EXCEPT ![r] = a]
       /\ IF a = NoArtifact \/ (a \in Texts /\ r \in OutOption)
             THEN Finish(r, "error")
             ELSE /\ Goto(r, IF a \in Texts THEN "key" ELSE "resolve")
                  /\ UNCHANGED <<temp, result>>
    /\ UNCHANGED <<input, files, token, target, attempt, mask, key, stream, written>>

\* resolve_available_output_path: try name, name.1, name.2, ... in turn.
Resolve(r) ==
    /\ pc[r] = "resolve"
    /\ IF files[target[r]].by = Nobody
          THEN Goto(r, "open") /\ UNCHANGED <<target, temp, result>>
          ELSE IF target[r] = MaxSuffix
               THEN Finish(r, "error") /\ UNCHANGED target
               ELSE /\ target' = [target EXCEPT ![r] = @ + 1]
                    /\ UNCHANGED <<pc, temp, result>>
    /\ UNCHANGED <<input, files, token, head, attempt, mask, key, stream, written>>

-------------------------------------------------------------------------------
(* One attempt at recovering the payload (recover_payload_once).             *)

\* A fresh temporary file in the output directory; creating it may fail.
Open(r) ==
    /\ pc[r] = "open"
    /\ \/ Goto(r, "key") /\ temp' = [temp EXCEPT ![r] = "live"] /\ UNCHANGED result
       \/ Finish(r, "error")
    /\ UNCHANGED <<input, files, token, head, target, attempt, mask, key, stream, written>>

\* The puzzle is solved unless an earlier attempt of this run has solved it.
Solve(r) ==
    /\ pc[r] = "key" /\ ~mask[r]
    /\ IF token[r]
          THEN Finish(r, "cancelled") /\ UNCHANGED <<mask, key>>
          ELSE /\ mask' = [mask EXCEPT ![r] = TRUE]
               /\ IF head[r] \in Protected
                     THEN Goto(r, "prompt") /\ UNCHANGED key
                     ELSE Goto(r, "payload") /\ key' = [key EXCEPT ![r] = "right"]
               /\ UNCHANGED <<temp, result>>
    /\ UNCHANGED <<input, files, token, head, target, attempt, stream, written>>

\* Mutant: asks for the passphrase whether or not the puzzle is solved.
AskAtOnce(r) ==
    /\ pc[r] = "key"
    /\ Goto(r, "prompt")
    /\ UNCHANGED <<input, files, token, head, target, attempt, mask, key, stream,
                   written, temp, result>>

UseCachedMask(r) ==
    /\ pc[r] = "key" /\ mask[r]
    /\ Goto(r, "prompt")
    /\ UNCHANGED <<input, files, token, head, target, attempt, mask, key, stream,
                   written, temp, result>>

\* Nobody to ask, or an empty passphrase: no further attempt is made.
NoPassphrase(r) ==
    /\ pc[r] = "prompt"
    /\ Finish(r, "error")
    /\ UNCHANGED <<input, files, token, head, target, attempt, mask, key, stream, written>>

\* The user types a passphrase; any passphrase unwraps to some key.
Answer(r) ==
    /\ pc[r] = "prompt" /\ r \in Prompting
    /\ \E k \in {"right", "wrong"} : key' = [key EXCEPT ![r] = k]
    /\ Goto(r, "payload")
    /\ UNCHANGED <<input, files, token, head, target, attempt, mask, stream, written,
                   temp, result>>

\* The provider gives up: the user dismisses the prompt or it cannot be shown.
Dismiss(r) ==
    /\ pc[r] = "prompt" /\ r \in Prompting
    /\ Finish(r, "cancelled")
    /\ UNCHANGED <<input, files, token, head, target, attempt, mask, key, stream, written>>

\* Mutant: the provider waits for the user alone.
PromptIgnoresCancel(r) == FALSE /\ Dismiss(r)

\* While it waits for the answer the provider looks at the token.
PromptSeesCancel(r) == token[r] /\ Dismiss(r)

\* The payload region is read again from disk, long after the superblock.
ReadPayload(r) ==
    /\ pc[r] = "payload"
    /\ \/ /\ ~input.lost
          /\ stream' = [stream EXCEPT ![r] = input]
          /\ written' = [written EXCEPT ![r] = 0]
          /\ Goto(r, "decrypt") /\ UNCHANGED <<temp, result>>
       \/ /\ input.lost \/ input.body # head[r]
          /\ Finish(r, "error") /\ UNCHANGED <<stream, written>>
    /\ UNCHANGED <<input, files, token, head, target, attempt, mask, key>>

\* Mutant: the tag does not bind the superblock's digest.
AuthenticByKeyAlone(r, n) == key[r] = "right" /\ stream[r].bad # n

\* The chunk's tag verifies: right key, this superblock's digest, intact chunk.
Authentic(r, n) == /\ key[r] = "right"
                   /\ stream[r].body = head[r]
                   /\ stream[r].bad # n

\* Mutant: the plaintext goes straight to the output path.
DecryptInPlace(r) ==
    /\ pc[r] = "decrypt" /\ ~token[r]
    /\ Authentic(r, written[r] + 1)
    /\ written' = [written EXCEPT ![r] = @ + 1]
    /\ files' = [files EXCEPT ![target[r]] =
                    [by |-> r, of |-> head[r], chunks |-> written'[r]]]
    /\ IF written'[r] = Chunks THEN Goto(r, "deliver") ELSE UNCHANGED pc
    /\ UNCHANGED <<input, token, head, target, attempt, mask, key, stream, temp, result>>

DecryptChunk(r) ==
    /\ pc[r] = "decrypt" /\ ~token[r]
    /\ Authentic(r, written[r] + 1)
    /\ written' = [written EXCEPT ![r] = @ + 1]
    /\ IF written'[r] = Chunks THEN Goto(r, "deliver") ELSE UNCHANGED pc
    /\ UNCHANGED <<input, files, token, head, target, attempt, mask, key, stream,
                   temp, result>>

\* Mutants: one attempt too many; one too few.
RetryOnceMore(r) == head[r] \in Protected /\ attempt[r] <= MAX_PASSWORD_ATTEMPTS
RetryOnceLess(r) == head[r] \in Protected /\ attempt[r] < MAX_PASSWORD_ATTEMPTS - 1

MayRetry(r) == head[r] \in Protected /\ attempt[r] < MAX_PASSWORD_ATTEMPTS

\* The tag does not verify: ask again, unless this was the last attempt.
AuthenticationFails(r) ==
    /\ pc[r] = "decrypt" /\ ~token[r]
    /\ ~Authentic(r, written[r] + 1)
    /\ IF MayRetry(r)
          THEN /\ attempt' = [attempt EXCEPT ![r] = @ + 1]
               /\ temp' = [temp EXCEPT ![r] = "none"]
               /\ Goto(r, IF head[r] \in Texts THEN "key" ELSE "open")
               /\ UNCHANGED result
          ELSE Finish(r, "auth") /\ UNCHANGED attempt
    /\ UNCHANGED <<input, files, token, head, target, mask, key, stream, written>>

\* The next frame is not even well formed; no further attempt is made.
FrameIsMalformed(r) ==
    /\ pc[r] = "decrypt" /\ ~token[r]
    /\ stream[r].body # head[r] \/ stream[r].bad = written[r] + 1
    /\ Finish(r, "error")
    /\ UNCHANGED <<input, files, token, head, target, attempt, mask, key, stream, written>>

DecryptSeesCancel(r) ==
    /\ pc[r] = "decrypt" /\ token[r]
    /\ Finish(r, "cancelled")
    /\ UNCHANGED <<input, files, token, head, target, attempt, mask, key, stream, written>>

-------------------------------------------------------------------------------
(* Handing the payload over.                                                 *)

DeliverText(r) ==
    /\ pc[r] = "deliver" /\ head[r] \in Texts
    /\ Finish(r, IF head[r] \in NotUtf8 THEN "error" ELSE "ok")
    /\ UNCHANGED <<input, files, token, head, target, attempt, mask, key, stream, written>>

\* Mutant: the token is not looked at again after decryption.
LastCheckIsBlind(r) ==
    /\ pc[r] = "deliver" /\ head[r] \notin Texts
    /\ Goto(r, "persist")
    /\ UNCHANGED <<input, files, token, head, target, attempt, mask, key, stream,
                   written, temp, result>>

\* Flush, then the last look at the token.
LastCheck(r) ==
    /\ pc[r] = "deliver" /\ head[r] \notin Texts
    /\ \/ Finish(r, IF token[r] THEN "cancelled" ELSE "error")
       \/ ~token[r] /\ Goto(r, "persist") /\ UNCHANGED <<temp, result>>
    /\ UNCHANGED <<input, files, token, head, target, attempt, mask, key, stream, written>>

\* NamedTempFile::persist renames over whatever is at the path by now.
Persist(r) ==
    /\ pc[r] = "persist"
    /\ \/ /\ files' = [files EXCEPT ![target[r]] =
                         [by |-> r, of |-> head[r], chunks |-> written[r]]]
          /\ Finish(r, "ok")
       \/ Finish(r, "error") /\ UNCHANGED files
    /\ UNCHANGED <<input, token, head, target, attempt, mask, key, stream, written>>

-------------------------------------------------------------------------------
(* What happens around the runs.                                             *)

RequestCancel(r) ==
    /\ pc[r] # "done" /\ ~token[r]
    /\ token' = [token EXCEPT ![r] = TRUE]
    /\ UNCHANGED <<input, files, pc, head, target, attempt, mask, key, stream, written,
                   temp, result>>

\* The process is killed: nothing is dropped, a temporary file stays behind.
Crash(r) ==
    /\ pc[r] # "done"
    /\ Goto(r, "done")
    /\ result' = [result EXCEPT ![r] = "crashed"]
    /\ temp' = [temp EXCEPT ![r] = IF @ = "live" THEN "orphan" ELSE @]
    /\ UNCHANGED <<input, files, token, head, target, attempt, mask, key, stream, written>>

ReplaceInput ==
    /\ \E i \in Inputs \ {input} : input' = i
    /\ UNCHANGED <<files, pc, token, head, target, attempt, mask, key, stream, written,
                   temp, result>>

OtherCreates(p) ==
    /\ files[p].by = Nobody
    /\ files' = [files EXCEPT ![p] = Foreign]
    /\ UNCHANGED <<input, pc, token, head, target, attempt, mask, key, stream, written,
                   temp, result>>

\* Steps the run takes by itself, and steps that need somebody else.
Step(r) == \/ Start(r) \/ Parse(r) \/ Resolve(r) \/ Open(r)
           \/ Solve(r) \/ UseCachedMask(r) \/ PromptSeesCancel(r)
           \/ (r \notin Prompting /\ NoPassphrase(r))
           \/ ReadPayload(r) \/ DecryptChunk(r) \/ AuthenticationFails(r)
           \/ FrameIsMalformed(r) \/ DecryptSeesCancel(r)
           \/ DeliverText(r) \/ LastCheck(r) \/ Persist(r)

User(r) == \/ (r \in Prompting /\ NoPassphrase(r)) \/ Answer(r) \/ Dismiss(r)
           \/ RequestCancel(r) \/ Crash(r)

Next == \/ \E r \in Runs : Step(r) \/ User(r)
        \/ ReplaceInput
        \/ \E p \in Paths : OtherCreates(p)

Spec == Init /\ [][Next]_vars

\* The operating system keeps scheduling a thread that can take a step.
FairSpec == Spec /\ \A r \in Runs : WF_vars(Step(r))

-------------------------------------------------------------------------------
(* Properties.                                                               *)

PCs     == {"start", "parse", "resolve", "open", "key", "prompt", "payload",
            "decrypt", "deliver", "persist", "done"}
Results == {"none", "ok", "cancelled", "auth", "error", "crashed"}

\* The type of every variable; in particular there is never a fourth attempt.
TypeOK ==
    /\ input \in Inputs
    /\ files \in [Paths -> [by : Runs \cup {Nobody, Other},
                            of : Artifacts \cup {NoArtifact}, chunks : 0..Chunks]]
    /\ pc \in [Runs -> PCs]
    /\ token \in [Runs -> BOOLEAN]
    /\ head \in [Runs -> Artifacts \cup {NoArtifact}]
    /\ target \in [Runs -> Paths]
    /\ attempt \in [Runs -> 1..MAX_PASSWORD_ATTEMPTS]
    /\ mask \in [Runs -> BOOLEAN]
    /\ key \in [Runs -> {"none", "right", "wrong"}]
    /\ stream \in [Runs -> Inputs]
    /\ written \in [Runs -> 0..Chunks]
    /\ temp \in [Runs -> {"none", "live", "orphan"}]
    /\ result \in [Runs -> Results]

\* Whatever happens to the input file while a run solves and asks, a run that
\* succeeds has decrypted, under the right key, every chunk of an undamaged
\* payload that belongs to the superblock it parsed, and a recovered file holds
\* that payload from the first chunk to the last (README: an unlock "fails
\* explicitly rather than silently producing wrong bytes").
OnlyAuthenticPayloads ==
    /\ \A r \in Runs : result[r] = "ok" =>
          /\ key[r] = "right" /\ written[r] = Chunks
          /\ stream[r].body = head[r] /\ stream[r].bad = 0
    /\ \A p \in Paths : files[p].by \in Runs =>
          /\ files[p].chunks = Chunks
          /\ files[p].of = head[files[p].by]

\* A run that does not succeed, even one that is killed, leaves nothing at any
\* output path, and only a run that is killed leaves its temporary file behind.
NothingLeftBehind ==
    \A r \in Runs :
       /\ result[r] # "ok" => \A p \in Paths : files[p].by # r
       /\ pc[r] = "done" => (temp[r] = "none" \/ (result[r] = "crashed" /\ temp[r] = "orphan"))

\* No passphrase is asked for, and no file key exists, before the time-lock
\* puzzle is solved: a passphrase alone never opens a file early.
PassphraseAfterTimelock ==
    \A r \in Runs : pc[r] = "prompt" \/ key[r] # "none" => mask[r]

\* An authentication error is only returned when a key or the payload really is
\* wrong and, for a protected file, after the third passphrase.
AuthErrorIsJustified ==
    \A r \in Runs : result[r] = "auth" =>
       /\ head[r] \in Protected => attempt[r] = MAX_PASSWORD_ATTEMPTS
       /\ key[r] = "wrong" \/ stream[r].body # head[r] \/ stream[r].bad # 0

\* Until when a cancellation is in time: for a file until the last look at the
\* token before the rename, for a message until its last chunk is decrypted.
Cancellable(r) == \/ pc[r] \notin {"deliver", "persist", "done"}
                  \/ pc[r] = "deliver" /\ head[r] \notin Texts

\* A run cancelled in time never succeeds, whatever it was doing at the time.
CancelIsHonoured ==
    \A r \in Runs : [](token[r] /\ Cancellable(r) => [](result[r] # "ok"))

\* Every run ends, unless it waits for a passphrase that is never typed and
\* nobody cancels it.
EndsOrWaitsForPassphrase ==
    \A r \in Runs : <>[](pc[r] = "done" \/ (pc[r] = "prompt" /\ ~token[r]))

\* Unlocking publishes a whole payload in one step or nothing at all.
Promise == INSTANCE Delivery WITH
    Payloads <- [of : Artifacts, chunks : {Chunks}],
    NoPayload <- [of |-> NoArtifact, chunks |-> 0],
    store <- [p \in Paths |-> [by |-> files[p].by,
                               what |-> [of |-> files[p].of, chunks |-> files[p].chunks]]],
    outcome <- [r \in Runs |-> IF pc[r] # "done" THEN "pending"
                               ELSE IF result[r] = "ok" THEN "delivered" ELSE "failed"]

ImplementsDelivery == Promise!Spec

\* README, Safety: "No silent overwrite: ... `unlock` auto-picks `name.N.ext`".
\* A file that exists at an output path stays what it is.
NoSilentOverwrite ==
    [][\A p \in Paths : files[p].by # Nobody => files'[p] = files[p]]_vars
===============================================================================
