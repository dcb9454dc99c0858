# Timelocked in TLA+

Timelocked (`src/`, Rust) turns a file or a message into a `.timelocked` artifact that can only be
read after a fixed amount of sequential work, optionally with a passphrase on top.  This directory
holds a model of it in TLA+, the TLC configurations that check the model, and TLAPS proofs of what
matters most.  Paths below are relative to the repository; `src/usecases/unlock.rs` and the like
are the Rust sources.

## 1. Inventory

| part | where | state it keeps | operations |
|---|---|---|---|
| unlock | `src/usecases/unlock.rs`, `domains/timelocked_file/recovery.rs`, `output_path.rs` | parsed superblock, chosen output path, attempt, cached time-lock mask, temporary file | parse, choose a path, solve, ask, decrypt, rename |
| lock | `src/usecases/lock/` | staged plaintext, difficulty, file key, temporary artifact | choose the input, stage it, create the puzzle, encrypt, write, rename, verify |
| terminal session | `src/userinterfaces/tui/` | screen, dialog, worker handles, verification status, calibration | poll workers, draw, handle one key |
| worker threads | `tui/worker.rs` | a channel to the session, a `CancellationToken`, a reply channel per prompt | run one use case; the unlock worker asks for passphrases |
| calibration | `tui/app_state/session.rs`, `domains/timelock/calibration_service.rs` | rate, thread handle, started flag | prewarm once, take the result, wait for it, measure |
| forms | `tui/features/`, `tui/state/`, `tui/components/form.rs`, `modal.rs` | texts with a cursor, focus, profile, browser listing, derived output path, estimate | edit, move the focus, browse, pick, hand a request to a use case |
| puzzle | `domains/timelock/puzzle_service.rs` | value, iteration | create with the factors; square; look at the token every 1,024 steps |
| chunk stream | `domains/timelocked_file/protected_stream.rs`, `chunk_frame.rs` | next index, bytes so far, last chunk seen | encrypt, decrypt, scan without the key |
| artifact | `superblock*.rs`, `reader.rs`, `writer.rs`, `payload_region.rs`, `reed_solomon.rs`, `shard_record.rs` | bytes | two superblock copies, shards with parity, repair |
| passphrase | `password_protection.rs` | KDF parameters | wrap and unwrap the file key |
| delays | `delay_estimation.rs`, `lock_difficulty.rs` | none | delay and rate to iterations and back |
| verify, inspect | `src/usecases/verify.rs`, `inspect.rs` | none | structural scan; show the header |
| command line | `src/main.rs`, `src/userinterfaces/cli/` | the attempt a prompt is for | parse arguments, run one use case, prompt for passphrases, exit with a code |

How they interact.  The command line runs one use case on its main thread.  The terminal session
runs an event loop on the main thread and each lock, unlock and verification on a thread of its
own; they share a token (set by the loop, read by the worker), a channel (progress, requests for a
passphrase, the result) and, per prompt, a reply channel.  Runs of several processes share the
file system: input paths, output paths and directories, each with every other program.

What is hard, and therefore what the properties are about:

- an unlock lasts hours: the input may be replaced and the output name taken between the step that
  looked and the step that acts;
- up to three passphrases share one solved puzzle, and a wrong passphrase looks exactly like a
  damaged payload;
- every early return must leave the files of the output directory as they were; a crash may leave a temporary file
  and never half a result;
- the token is set at any moment, the places that look at it are few, and after the rename it is
  too late;
- request, reply, cancellation and result cross each other on the channels between loop and worker;
- a worker may panic; the calibration thread may end at any moment or fail; the loop may block;
- a delay becomes a number of squarings and is shown as a delay again: overflow, rounding, zero, and
  a rate that is missing, each with an error of its own;
- a superblock that was edited or cut must not open early, nor as another artifact;
- what a form shows (the output path, the estimate) is computed when a key arrives or the rate does,
  and used later, after the text, the file on the disk or the dialog over it has changed.

`PROJECT.json` lists each hazard at its line with the properties aimed at it.

## 2. Modules

    Delivery  <== implements ==  Unlock        MCUnlock     UnlockProofs
    Delivery  <== implements ==  Lock          MCLock       LockProofs
                                 Session       MCSession    SessionProofs
                                 ChunkStream   MCChunkStream  ChunkStreamProofs
                                 Artifact      MCArtifact   ArtifactProofs
    Arithmetic                                              ArithmeticProofs
    Arithmetic, Difficulty,
    Superblock              <==  Timelock      MCTimelock   TimelockProofs, with ArithmeticProofs
    Cli, Forms              <==  FrontEnds     MCFrontEnds  FrontEndsProofs

| module | stands for |
|---|---|
| `Delivery` | what a run promises to whoever looks at the output directory: it is pending until it publishes one whole payload in one step, or fails having published nothing |
| `Unlock` | `unlock.rs` with the recovery pipeline; any number of concurrent runs, one input path, other programs |
| `Lock` | `usecases/lock/` with the chunk encryption; any number of concurrent runs, one source path, other programs |
| `Session` | the event loop, screens, dialogs, worker threads and calibration of the terminal interface |
| `ChunkStream` | `protected_stream.rs` and `chunk_frame.rs`: the frames of a payload, written, edited, scanned, decrypted |
| `Artifact` | `writer.rs`, `reader.rs`, `superblock.rs`, `payload_region.rs`: the file around the stream, decaying while it is read |
| `Arithmetic` | the libraries of numbers that the puzzle uses: primes, greatest common divisor, modular power |
| `Difficulty` | `delay_estimation.rs`, `hardware_profile.rs`, `calibration_service.rs`, `lock_difficulty.rs`: arithmetic, as operators |
| `Superblock` | `superblock_body.rs`, `header.rs`: the body's encoding, decoding and validation, as operators |
| `Timelock` | `puzzle_service.rs`, `password_protection.rs` and their callers: one artifact from request to key, with an edit of the stored body in between |
| `Cli` | `cli/`: accepted arguments, requests, prompts, exit code |
| `Forms` | `tui/features/`, `tui/components/`, `tui/state/`: fields, focus, browser, derived values, requests |
| `FrontEnds` | `main.rs`: the command line and the session it opens |
| `UnlockProofs`, `LockProofs`, `SessionProofs`, `ChunkStreamProofs`, `ArtifactProofs`, `TimelockProofs`, `FrontEndsProofs` | theorems about `Unlock`, `Lock`, `Session`, `ChunkStream`, `Artifact`, `Timelock` (with `Difficulty` and `Superblock`) and `FrontEnds` (with `Cli` and `Forms`) for every value of their constants |
| `ArithmeticProofs` | the number theory of the puzzle, and what a function that recurs over numbers or folds over a set of them is |
| `MC*` | instances for TLC: model values, inputs, output paths |

### Unlock

One value of `pc[r]` per stretch of code between two things another party can observe or influence.

| action | code |
|---|---|
| `Start`, `Parse` | `execute_with_cancel_and_password_provider` up to `resolve_recovered_file_path`; the superblock is read here and only here (`head`) |
| `Resolve` | `resolve_available_output_path`: one look at one candidate name per step, since another program may take a name between two looks |
| `Open` | the head of `recover_payload_once`; creating the temporary file may fail |
| `Solve`, `UseCachedMask` | `recover_password_protected_file_key`, and `unwrap_key_with_cancel` for files without a passphrase; the mask is cached across attempts |
| `Answer`, `NoPassphrase`, `Dismiss`, `PromptSeesCancel` | the password provider (`tui/worker.rs` 80-102, and the prompt of the command line) |
| `ReadPayload` | `read_payload_region_bytes` and `reconstruct_payload_region`: the file is read a second time |
| `DecryptChunk`, `AuthenticationFails`, `FrameIsMalformed`, `DecryptSeesCancel` | one turn of the loop in `decrypt_protected_stream_to_writer_with_cancel` and what the retry loop makes of its error |
| `DeliverText`, `LastCheck`, `Persist` | the tail of `recover_payload_once` |
| `RequestCancel`, `Crash`, `ReplaceInput`, `OtherCreates` | the user, the operating system, other programs |

Data is kept to what the code can tell apart.  An input is (artifact whose superblock is usable,
artifact the payload belongs to, chunk that is damaged, payload missing or beyond repair); a key is
right or wrong; a file is (author, artifact, number of chunks).  `Authentic` is the AEAD assumption:
a tag verifies exactly when key, superblock digest and chunk are those it was made with.

### Lock

Same layout.  A payload is the sequence of its chunks, each the version of the source it was
copied from, so that a copy torn by a concurrent edit differs from one that is not.  `temps` are
the two temporary files, plaintext staging and artifact; `Finish` is the end of their scope.
`Persist` comes before `VerifyOutput`, so a run may report failure after its output is published:
`Delivery` counts it as delivered, and `NothingLeftBehind` says exactly when it happens.

### Session

`phase` is the place in `event_loop`: poll the calibration, poll the worker of the screen, draw,
handle one key (or none for 50 ms); "waiting" and "measuring" are the two places where
`ensure_session_calibration` blocks the loop.  Each key that changes the screen, a dialog or a
worker is an action; keys that move the focus or edit a field are `NoKey` here and actions of
`Forms`.  A worker is `job[w]`:
what it does, its token, its attempt, the messages it has sent and not had read, and the answer in
its reply channel.  Progress messages are left out, since the loop only displays them.
`SenderIsAlive` is Rust's rule for a disconnected channel, and `PollLock`, `PollUnlock` and
`PollVerify` differ in what they make of one, as the code does.

### ChunkStream

`FirstRead`, `EncryptChunk` and `CheckLengths` are `encrypt_protected_stream_with_cancel` and the
length checks of its caller; a read may return less than was asked for.  `ScanFrame` and
`DecryptFrame` are one turn of the two loops that read a stream, with the checks that follow the
terminal chunk; `ScanFrame` also makes the comparison with the superblock that every caller makes.
Between writing and reading, `Tamper` removes, repeats, exchanges, relabels or damages frames, or
leaves bytes that are no whole frame (`tail`).  A seal opens for the header it was made with and no
other (`Opens`, the AEAD assumption); the payload is the bytes 1, 2, 3, ..., so that a byte in the
wrong place is seen.

### Artifact

A file is a sequence of cells, two per part (notice, start copy, each shard record, end copy), so
that a part can be cut in half and offsets can be wrong.  `Starts`, `Ends`, `Chosen`, `RegionAt`
and `StartFits` are the steps of `read_timelocked_artifact_bytes` in `Parse`; `ReadRegion` reads
the file again at the offset found; `Repair` is `reconstruct_payload_region`.  A record with a
right checksum is taken for a shard whoever wrote it, and a missing shard is computed from the
first `Data` present ones, rightly only when they belong together (`Origins`, `Computed`).  `Decay` is what
happens to a file until the reader has its result: damage, an edited notice, a lost head or tail, appended bytes, an interrupted
copy of another artifact.  What `Repair` returns is the stream that `ChunkStream` reads; `Unlock`
knows of both only what a run can tell apart (`InputStates`).

### Timelock, Arithmetic, Difficulty, Superblock

`Resolve` is the calibration a lock makes if it must and `resolve_lock_difficulty`; `RefusePuzzle`
and `CreatePuzzle` are the checks and the rest of the lock up to the stored superblock: two primes
far enough apart, a base, the short exponent that the factors allow (`Exponent`), the wrapped key.
`Change`, `Cut` and `Extend` edit the stored body.  `StartSolve`, `Square` and `Recover` are
`solve_puzzle_mask_with_cancel` and the unwrapping of the key by `unlock.rs`, one squaring per step,
with all places that look at the token (`LooksAtToken`).  `Difficulty` keeps the error of each
operation (`Ok`, `Err`, `Panic`) and ends u64 at `MaxU64`.  `Superblock` encodes to cells, one per
fixed field, length, digit or byte, so that a length can be wrong and a field be cut;
`decode_superblock_body` is the parser with its validation.
`Arithmetic` defines primes, divisors, lengths in bits and powers as mathematics does, for numbers of
any size; TLC runs with a modulus of ten bits, so primes of five.  A mask stands for its hash, and adding one modulo `KeySpace` for the exclusive
or.

### Forms, Cli, FrontEnds

A text is a sequence of characters in which `.timelocked` and the dot of a hidden name count as one.
A path on the disk may also have cells that are no character (`NotText`: bytes that are no UTF-8).  The
browser lists and opens such paths as they are; `Pick` puts their text into the field, in which those
bytes are replaced (`to_string_lossy`, `modal.rs:169`), and it is this text that a use case gets.
`EditField` is every key that reaches a text field (`apply_key`), with what the screen derives from
the new text (`Derive`); `MoveFocus` arms a field, so that the first character typed replaces its
text.  `OpenBrowser`, `MoveInBrowser` and `Pick` are the file browser over `disk`, which another
program may change between two keys (`DiskChanges`); `Reload` is the listing with its selection.
`StartLock`, `StartUnlock`, `StartInspect`, `StartVerify`, `FollowUp` and `UnlockInspected` hand a
request to a use case; `WorkerEnds`, `WorkerFails` and `RateArrives` are what the event loop brings,
of which `Session` has the detail.  Paths are compared and taken apart as `std::path` does it: what
stands behind the last separator, `Parent` of a bare name, a trailing separator.

`Cli` starts from every command line over the arguments that are not only about what is printed
(`CommandLines`: inputs, outputs, difficulty, profile, creator's name and message, passphrase, `--verify`);
`Parse` is what clap accepts, `RunCommand` the handlers with the request each makes of them, `Prompt` the passphrase prompt
with the number of attempts it announces, computed beside the use case's own count.  `FrontEnds` runs
the session from the command line and ends the process with it.

## 3. Runs

| run | instance | shows |
|---|---|---|
| `unlock` | 1 run, 4 artifacts (plain file, protected file, protected message, message that is not UTF-8), 9 inputs, 2 chunks, 2 output names | the seven properties of a single run, with liveness |
| `unlock_pair` | 2 runs, one with an output option, one with nobody to ask; a file and a protected message; 2 output names | `ImplementsDelivery`, while the runs race for a name |
| `lock` | 2 runs on one output path: a verified file or text, and stdin; 2 versions of the source, 2 chunks | the six properties of `Lock`, with liveness |
| `session` | 2 worker slots, a verification worker that may panic | the eight properties of `Session`, with liveness |
| `chunks` | payloads of 0, 3, 4 and 5 bytes, chunks of 2, every pattern of short reads, up to 3 edits, right and wrong key | the four properties of `ChunkStream` |
| `artifact` | 2 data and 1 parity shard, an artifact of two stripes (the last padded) and a shorter one, up to 3 edits until the reader is done | the four properties of `Artifact` |
| `timelock` | profiles of 5, 8 and 10 squarings a second, u64 up to 63, primes of 5 bits, every request at an edge of delay, unit, profile, rate, passphrase or size, 1 edit | the six properties of `Timelock` |
| `frontends` | one letter and the blank, 2 edits per form, five paths of which one is hidden with a name that is no text and one comes and goes; every command line | the four properties of `FrontEnds` |
| `artifact_head` | as `artifact`, 1 edit | **violated**: `ValidCopySuffices` |
| `unlock_overwrite` | smallest instance | **violated**: `NoSilentOverwrite` |
| `lock_message` | smallest instance | **violated**: `MessageIsLockedAsText` |
| `session_panic` | as `session`, the lock worker may panic | **violated**: `CancelLeavesProgress` |

Bounds.  Two chunks distinguish first, last and partial.  Two output names distinguish "free",
"taken, next one free" and "none left" (`MaxSuffix` stands for `u64::MAX`).  Three attempts is the
code's own constant.  Two runs suffice for a race, since runs touch each other only through the
directory and the input; the theorems cover any number.  The instance with one run has the inputs, the
one with two the race, an early return for an output option given with a message (`OutOption`) and a
prompt that nobody answers.  Two worker slots suffice to have a second worker beside a forgotten first
one, which `NoDetachedWorker` then excludes.  Three edits of a stream reach every pair of kinds, and a third (drop one
frame, relabel the next, cut the rest, say), and `Exchange` is one edit so that a reordering with matching headers
is among them.
Three edits of a file reach both stripes, one stripe beyond its budget, and a superblock copy together
with the region; the other copy is then needed.  `ScanWindow` is larger than the notice by one edit
and smaller than by two, so that the scan succeeds and fails.  In `timelock` products of delay and
rate fall on both sides of `MaxU64`, and one delay makes the parser panic; the solver looks at the token every 4 squarings and when it
reports progress every 6 (the code's 1,024 and 10,000, of which neither divides the other), and runs
of 1 to 30 squarings end before, between and after these places.  Only unedited
artifacts are cancelled.  One edit is the bound, since two make numbers that are too long for TLC.
In `frontends` two edits and a picked path reach a replaced text, a moved cursor, a blank at an end,
a path of two names and one that is not a text; a browser is opened only while an edit is left,
which bounds how often a path is picked before the form is left.  No run uses a state
constraint or symmetry; the models are finite as they stand.

Fairness.  `Unlock` and `Lock` assume weak fairness of each run's own steps: a thread that can run
is scheduled, and each step computes something finite.  Nothing is assumed of the user, stdin,
other programs or failing calls.  `Session` assumes it of the loop (it waits at most 50 ms for a
key), of the calibration thread and of each worker that is not waiting for an answer; that such a
worker ends is what the liveness properties of `Unlock` and `Lock` say.

Deadlock.  The runs of `Unlock` and `Lock` have no deadlock, since the input or the source may
always change; the overwrite and message runs, whose environment stops, and `Session`, whose
process ends with its loop, are run with `CHECK_DEADLOCK FALSE`; so are `ChunkStream` and
`Artifact`, whose reader stops with its result and whose edits are bounded.  So are `Timelock`, which ends with its result, and
`FrontEnds`, which ends with the process.  These four have no liveness property and assume no
fairness: the loops of the first three run over a known number of steps, and forms wait for keys.

### What the violated runs show

- `NoSilentOverwrite` (README, Safety: "No silent overwrite: `lock` fails if output exists; `unlock`
  auto-picks `name.N.ext`").  The path is checked at the start and renamed over at the end
  (`unlock.rs:243`); a file created in between is replaced.  `lock` has the same gap
  (`lock/persistence.rs:11`) and no run of its own for it.
- `MessageIsLockedAsText` (main menu, "Lock text": "Create a timelocked file from a message").  The
  form passes the text as the input argument, and `resolve_input_source` takes a message that is
  the name of an existing file, or "-", for that file or stdin.
- `CancelLeavesProgress` (help of the lock screen: "Cancelling may take a moment between chunk
  boundaries.").  `poll_lock_worker` and `poll_unlock_worker` ignore a disconnected channel, which
  is all that a worker that panics leaves behind, so the progress screen stays until Ctrl-C.
  `poll_verify_worker` handles the same case.  A delay that ends in a character of several bytes
  makes the lock worker panic (`delay_estimation.rs:17`).
- `ValidCopySuffices` (`docs/binary-file-format.md:93`: "if only one copy is valid, use it").  With
  the start copy gone, `reader.rs:46-60` still computes where it would have been and refuses the
  file when that is before its first byte, although only the payload region, which is all there,
  and the end copy are needed.

What the passing runs of `Artifact` do not say: `BudgetSuffices` speaks of files in which no valid
superblock copy of another artifact stands where one is looked for (`CopiesAgree`); copies that
contradict each other are refused on purpose (`superblock.rs:116`).  A file can come to that by three
edits, a torn copy of another artifact after an edit of the notice among them.  And a file that moves by exactly one shard record
between its two reads, or one put together from records of two artifacts under a valid superblock,
is recovered into a wrong stream without an error; it is the AEAD of `ChunkStream`
(`NeverWrongBytes`) that refuses it.

Every property of a passing run comes with a mutant of a mapped definition that violates it
(`PROJECT.json`, "mutants"); the mutants stand beside the definitions they change.

## 4. Proofs

`UnlockProofs` proves, from `UnlockAssumption` alone, for any number of runs, artifacts, chunks,
inputs and output names:

| theorem | property |
|---|---|
| `TypeCorrect` | `TypeOK`; no fourth attempt |
| `OnlyAuthentic` | `OnlyAuthenticPayloads` |
| `LeavesNothingBehind` | `NothingLeftBehind` |
| `TimelockFirst` | `PassphraseAfterTimelock` |
| `AuthErrorsJustified` | `AuthErrorIsJustified` |
| `CancelHonoured` | `CancelIsHonoured` |
| `UnlockDelivers` | `ImplementsDelivery` |

The argument.  None of the properties is inductive: that a file at an output path is whole follows
from what its run had written when it renamed, which follows from how it got there.  `IInv` adds,
for each place in the code, what a run knows there: from the parse on it holds a superblock
(`HeadOK`); it has a key only after the puzzle, and a right one while it decrypts past the first
chunk (`KeyOK`); the chunks it has written are authentic chunks of the payload it read (`WrittenOK`);
where its temporary file is alive (`TempOK`); what its result says about it (`ResultOK`); and that
a file it has authored is the one it returned (`FilesOK`).  A run's step changes that run's
variables only (`Locality`), so the invariant is proved run by run: `OwnStep` for its own steps,
`FilesStep` for the shared directory, and the steps of others leave it alone.  `DoomedStep` is a
second inductive fact, from the moment a cancellation is in time, for the nested box of
`CancelIsHonoured`.  `IInv` was checked with TLC before it was proved.

`LockProofs` proves, from `LockAssumption` alone, for any number of runs, chunks, edits of the source
and output names:

| theorem | property |
|---|---|
| `TypeCorrect` | `TypeOK`; no copy, staged or encrypted, is longer than the source |
| `PublishesTheStagedCopy` | `OutputIsTheStagedCopy` |
| `LeavesNothingBehind` | `NothingLeftBehind` |
| `CancelHonoured` | `CancelIsHonoured` |
| `LockDelivers` | `ImplementsDelivery` |

Staging is over once the difficulty is resolved (`StagedOK`), so the copy no longer changes, whatever
happens to the source; what has been encrypted is its beginning, chunk by chunk, and all of it once
the artifact is written (`StreamOK`); a file a run has authored holds that copy, and its run is past
the rename and stays past it (`FilesOK`, `Published`).  `DoomedStep` again is the second inductive fact
for the nested box of `CancelIsHonoured`.

`SessionProofs` proves, from `SessionAssumption` alone, for any number of worker threads, panicking or
not:

| theorem | property |
|---|---|
| `TypeCorrect` | `TypeOK`; no channel holds more than two messages |
| `PromptsAreLive` | `PromptIsLive` |
| `NobodyDetached` | `NoDetachedWorker` |
| `StatusTrue` | `StatusIsTrue` |
| `MeasuredAlone` | `MeasuresAlone` |
| `PollsKeepModal` | `PollKeepsModal` |

The heart of it is `ChannelOK`: while an unlock worker waits, its request is in the channel, on the
screen, or answered, exactly one of them; a request that a cancellation has overtaken can only stand
before a result.  `OwnerOK` says that a thread nobody owns is not there, `ScreenOK` whose channel each
screen owns and which dialog may be over it, and `CalibrationOK` that the session holds the handle of
the calibration thread for as long as it runs.

`ChunkStreamProofs` proves, from `ChunkStreamAssumption` alone, for payloads and chunks of any length
and any number of edits of the stored stream:

| theorem | property |
|---|---|
| `TypeCorrect` | `TypeOK`; the reader stays within the stream and within a chunk per frame |
| `OnlyRightBytes` | `NeverWrongBytes` |
| `VerificationAcceptsWhatUnlocks` | `ScanAcceptsWhatDecrypts` |
| `StoredIsReadBack` | `RoundTrip` |

The writer's reads may be short, so where it cuts the payload is not known; `CutsOK` says that there
are cuts such that every seal of ours in the stream, wherever an edit has taken it, holds the bytes
between the two that its number names, and that the reader has written the payload up to the cut it
has come to.  An edit makes no new seal, which is all that has to be shown of it (`EditFrame`); a
frame that opens at place n names n, so it goes on where the last one ended (`Opened`).  For the third
theorem `ScannedOK` remembers the frames that the scan has walked over and what stopped it; the
decryption, with the same checks, walks over the same ones.  The fourth is about the stream that nobody
edited (`PristineOK`): its frames are as they were written, only the last one marked (`FramesWritten`),
their lengths add up to what the writer, and then each reader, has passed (`Summed`, `Progress`), and
unless a read came back short all but the last are full (`Full`), so that there are as many as the
superblock announces (`FullIsPredicted`).  The stream's length is a fold over its frames; `StreamLenIs`
unfolds it.

`ArtifactProofs` proves, from `ArtifactAssumption` alone, for any number of artifacts, shards, stripes
and edits, and any size of the scan window:

| theorem | property |
|---|---|
| `TypeCorrect` | `TypeOK`; no region is looked for outside the file |
| `NeverLies` | `DecayNeverLies` |
| `BudgetIsEnough` | `BudgetSuffices` |
| `TornApart` | `TornNeverMixes` |

Edits move the artifact about, insert into it and overwrite it, but whatever is left of it behind its
first cell keeps its distances (`Aligned`, the inductive part).  So any copy of its superblock that is
found, at either end, fixes where its records are (`Placed`, `Usable`), and the offset that
`read_timelocked_artifact_bytes` computes is theirs.  The other part, `ReaderOK`, says that the result
follows from the two files the reader has seen.  The rest is about these two files, without time:
records that are shards are the right ones (`RegionRight`); a region of right records gives the right
stream, whichever are missing, since the stripe they belong to is the only one they can be from
(`ComputedIsRight`, `RepairIsRight`); a stripe that has lost at most its parity has enough of them
(`BudgetRepairs`); and in a torn file the copies of two artifacts contradict each other, or the copy
that is left is that of the artifact that all records begin in (`TornRecords`).  That the parity
computes a missing shard from `Data` others is the Reed-Solomon assumption in `Computed`.

`ArithmeticProofs` proves, with no assumption:

| theorem | says |
|---|---|
| `Fermat` | for a prime p and a number a it does not divide, p divides a^(p-1) - 1 |
| `ShortWay` | for two primes and a base prime to their product, the power with the exponent reduced modulo lcm(p-1, q-1) is the power itself |

The multiples of a by 1, ..., p-1 leave the same remainders in another order (`MultiplesPermute`), and a
product does not depend on the order (`Permuted`); both factors of the modulus then give the second
theorem (`ReducedExponent`, `SameForBoth`).  `Power` is square-and-multiply and is shown to be what
multiplying one by one gives (`PowerIs`).  Here are also the inductions of this project.  The provers
cannot instantiate an induction theorem with an operator, so it is stated for sets: a set that holds zero
and, with each number, the next holds all of them (`SetInduction`, `StrongInduction`), which follows from
there being a least number outside.  That a function defined by recursion exists and is what its
definition says is proved the same way (`Recursion`), for folds too (`FoldExists`).

`TimelockProofs` proves, from `DifficultyAssumption` and `TimelockAssumption` alone, for integers of any
width, any table of profiles and any measurement, all primes and bases, any number of squarings, any
distance between two looks at the token, any edit of the stored superblock, and names and salts of any
length:

| theorem | property |
|---|---|
| `DelayIsExact` | a delay that is accepted becomes exactly delay times rate squarings, at least one and within the width, and is shown again as the same delay |
| `FasterIsSooner` | on a faster machine the estimate is no longer |
| `MeasurementIsClose` | a rate is what was counted over what has passed, rounded to the nearest, and positive |
| `EncodeDecode` | every valid superblock body is read back as it was written |
| `WayIsKept` | the inductive invariant `Way` |
| `TypesAreKept` | `TypeOK`; no lock resolves to zero squarings |
| `AlwaysReopens` | `Reopens` |
| `NeverOpensSooner` | `OpensOnlyAfterTheDelay` |
| `CutIsRefused` | `SelfDelimiting` |
| `InspectionIsExact` | `ShowsTheTarget` |
| `CancelledInTime` | `CancelIsPrompt` |

Multiplication is checked before it is used, so that no product wraps (`Multiplied`); everything else
about delays is division with remainder.  With `MeasurementIsClose`, a machine that stays as fast as it
was measured takes at least the delay, less half a squaring per second.

A body's cells are laid out one field after the other, and `Holds` says which field is where.
`EncodedHolds` shows that the encoder lays them out, `HoldsDecodes` that the decoder finds them;
`Digits` and `Number`, which write and read the large numbers, are inverse (`NumberOfDigits`).  That a
cut body is refused is independent of the encoder: the decoder walks to one end only, whatever stands
there (`EndsOnce`), and a beginning gives the same walk as far as it goes (`FieldSame`, `CutStarts`).

`Way` has three parts.  `Locking`: what a request has resolved to answers it, as `DelayIsExact` says.
`Storing`: the body that was locked keeps, for some primes, the key under the mask that the squarings
lead to (`Kept`, `Mask`), and what is stored is its encoding unless it was edited.  `Solving`: the value
is the base squared as often as was counted (`Solves`), so that at the end it is the mask, by `ShortWay`
the one the key was wrapped with; a key that opens is the file key, and the digest it opens under makes
the body the one that was locked, so that edits of its squarings or its delay open nothing.  That a
passphrase other than the locked one does not open is `OtherPassphrase`.

For `CancelledInTime`, while the loop runs, the squarings since the token was set are among those since
the last multiple of `CheckEvery` (`Pending`), because a look at a multiple at which the token is set
ends the loop; and the count has not reached the end, so that a turn of the loop, with the look before
the result, is still to come.

`FrontEndsProofs` proves, from `FormsAssumption` alone (what is typed and the default delay are
texts; names on the disk need not be), for any disk and changes of it, any names and characters and any
number of keys:

| theorem | property |
|---|---|
| `FrontEndTypes` | `TypeOK`; cursors, focus and selection are in their texts, screens and listings |
| `WhatIsShownIsTrue` | `ShownIsTrue` |
| `ChosenIsRun` | `RunsWhatWasChosen`; of a picked path, when a field can hold it (`IsPlain`) |
| `TextStays` | `TextIsKept` |
| `KeysEditOneCharacter` | a key leaves the cursor in the text and changes one character at most, unless the text was to be replaced |

`ProgramInv` is inductive.  `FormsInv` adds to `ShownIsTrue` what lets a picked path be derived from like
a typed one: a browser is only ever over a form at rest with a button for it, and picks for a field of
that form (`BrowserOK`).  `ChoiceInv` says that the fields hold texts and the browser lists paths
(`ListOK`, by what `Trim` makes of a text, `Parent` and `Join` of a path and `Listing` of a directory); that
the text of a picked path is still what the field holds, which is the path itself when it is a text without
blanks at its ends (`PickedOK`, `LossyIs`), that the screen after a use case is about the file of its
request (`ResultOK`), and that a field that has had a key since it got the focus is not about to be
replaced (`KeptOK`), which is what `TextStays` needs.  `CliInv` relates what the use case counts,
attempts, to what the user does, answers; `CliChoice` adds that a handler runs only on arguments that
clap has accepted.

Model-checked only: the liveness properties `EndsOrWaitsForPassphrase`, `EndsOrWaitsForStdin`,
`CancelLeavesProgress` and `StaysResponsive` (fairness arguments and `ENABLED` are out of TLAPS's reach here), and the violated runs.
Every other property of a passing run is a theorem.

## 5. What is not modelled

- Cryptography: the AEAD is "a tag verifies exactly what it was made for", hashes and the key
  derivation are one-to-one, exclusive or is addition modulo `KeySpace`.  Number theory is carried out
  and proved, for numbers that are primes; that the generator returns one, and that squaring cannot be
  done faster without the factors, is assumed.
- Rendering and output formats, and the flags that only choose them (`--json`, `--quiet`, `--verbose`,
  `--no-color`, `--help`, `--version`): no state that a property could be about.  A standard output
  that cannot be written to.
- `chunk_crypto.rs`, `payload_recovery.rs`, `container.rs`, `prefix.rs`, `timelock_material.rs`,
  `header_factory.rs`: not part of the build.
- The conversion `modulus_bits as u16`, the environment variable that sets the size of the modulus, the
  cap on the size of a superblock, the width of its length fields, and output suffixes beyond `MaxSuffix`.
- The directories that an unlock or a lock creates for its output (`create_dir_all`, `unlock.rs:224`,
  `input_staging.rs:102`) and leaves behind when it fails: `files` and `temp` (`temps`) are the files in
  these directories, and `NothingLeftBehind` is about them.
- How a lock ends after a short read in the middle of its input: it may fail, and `RoundTrip` is about what
  is stored when it does not, so it rules out a silently wrong length and not the failure.
- The cancellation of a solve of an edited artifact: `CancelIsPrompt` is checked and proved for unedited ones.
- `Artifact` takes a superblock copy with a right checksum for the body that was written; what other
  bodies do is in `Timelock`.

Seen while modelling, stated by no run:

- `resolve_browse_start_dir` takes the parent of a bare relative name, the empty path, for a directory
  to start in; the browser shows an error and can only be left (`StartDir`).
- Forms trim their texts and `Pick` makes a text of a path, so a picked file whose path begins or ends with
  a blank, or is not UTF-8, is not the one that is run; `FormsRunWhatWasChosen` excepts them (`IsPlain`).
  In "Lock a file" the path that takes its place does not exist as a rule, and its text is then locked
  as a message.
- In "Lock text" the message is trimmed too, and "-" reads the standard input; in "Lock a file" a
  mistyped path is locked as a message (`input_staging.rs:65-76`).

## 6. Plan

In order of importance; the first eight are done, the last is left.

1. `Delivery`, `Unlock`, `UnlockProofs`.
2. `Lock`.
3. `Session`.
4. `ChunkStream`.
5. `Artifact`.
6. `Difficulty`, `Superblock`, `Timelock`.
7. `Cli`, `Forms`, `FrontEnds`.
8. `LockProofs`, `SessionProofs`, `ChunkStreamProofs`, `ArtifactProofs`, `ArithmeticProofs`,
   `TimelockProofs`, `FrontEndsProofs`.
9. `Job`: the protocol between a worker and its session, implemented by `Unlock` and used by
   `Session`.
