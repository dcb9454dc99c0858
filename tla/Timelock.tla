-------------------------------- MODULE Timelock --------------------------------
(***************************************************************************)
(* One artifact from the request to lock it to the attempt to open it: the *)
(* difficulty (Difficulty), the puzzle of puzzle_service.rs with small     *)
(* numbers, the wrapped file key, the superblock that stores them          *)
(* (Superblock), and the squaring loop that takes the stored puzzle, which *)
(* may have been edited, back to a key.                                    *)
(*                                                                         *)
(* BLAKE3 is taken to be injective and is left out: a mask is the number   *)
(* it hashes, a digest the cells it hashes.  XOR with a mask is addition   *)
(* modulo KeySpace, its own kind of inverse.                               *)
(***************************************************************************)
EXTENDS Arithmetic, Difficulty, SequencesExt

CONSTANTS
    Radix, NotUtf8, NoBody,      \* see Superblock
    Requests,                    \* what may be asked of a lock
    Readings,                    \* <<squarings, ticks>> a measurement may see
    Primes,                      \* what the prime generator may return
    Bases,                       \* the random numbers a base is taken from
    MINIMUM_MODULUS_BITS,
    FileKey, KeySpace,           \* the file key, and how many keys there are
    SALT,                        \* the random salt of a passphrase
    Edited,                      \* the values an edit may put into a cell
    MaxEdits,                    \* edits of a stored superblock
    CheckEvery, EmitEvery        \* squarings between two looks at the token (1_024, 10_000)

INSTANCE Superblock

\* What a lock can be asked for.  A passphrase is None (none was given), 0 (the
\* empty one), 1 or 2; a name is not empty, and it is a text.
IsRequest(r) ==
    /\ r.iterations \in 0..MaxU64 \cup {None} /\ r.rate \in 0..MaxU64 \cup {None}
    /\ r.target \in Specs \cup {None}
    /\ r.pass \in {None, 0, 1, 2} /\ r.bits \in Nat
    /\ r.name = None \/ (r.name \in Seq(Nat) \ {<<>>} /\ IsUtf8(r.name))

\* The names of profiles are texts; the keys that are derived from one mask and
\* two passphrases are two keys.
ASSUME TimelockAssumption ==
    /\ Radix \in Nat \ {0, 1} /\ MaxEdits \in Nat
    /\ CheckEvery \in Nat \ {0} /\ EmitEvery \in Nat \ {0}
    /\ NoBody \notin Bodies /\ None \notin Passwords
    /\ \A r \in Requests : IsRequest(r)
    /\ NotUtf8 \notin 1..CurrentMachine
    /\ SALT \in Seq(Nat) \ {<<>>}
    /\ KeySpace \in Nat /\ KeySpace > 1024 /\ FileKey \in 0..(KeySpace - 1)
    /\ \A r \in Readings : Reading(r[1], r[2])
    /\ \A p \in Primes : p \in Nat /\ IsPrime(p)
    /\ Bases \subseteq Nat /\ Edited \subseteq Nat

VARIABLES
    pc,        \* "request", "puzzle", "stored", "solve", "done"
    request,   \* the lock request
    goal,      \* the difficulty it resolved to
    locked,    \* the body that was written
    stored,    \* the cells in the file
    edits,     \* how often they were edited
    token,     \* the CancellationToken of the solver
    late,      \* squarings since it was set
    value,     \* the number being squared
    squared,   \* how often
    used,      \* the passphrase entered (None: none was asked for)
    result     \* how it ended

vars == <<pc, request, goal, locked, stored, edits, token, late, value, squared, used, result>>

Init ==
    /\ pc = "request"
    /\ request \in Requests
    /\ goal = None /\ locked = NoBody /\ stored = <<>> /\ edits = 0
    /\ token = FALSE /\ late = 0 /\ value = 0 /\ squared = 0
    /\ used = None /\ result = "none"

Finish(outcome) == pc' = "done" /\ result' = outcome

-------------------------------------------------------------------------------
(* Creating a puzzle.                                                        *)

\* What gen_blum_prime returns, among the primes.
IsBlum(p, bits) == Bits(p) = bits /\ p % 4 = 3

\* Mutant: two equal primes are not refused.
AnyDistance(p, q, bits) == TRUE

\* p = q and too_close: the generator is asked for another q.
FarEnough(p, q, bits) ==
    p # q /\ Bits(IF p > q THEN p - q ELSE q - p) >= bits \div 2

IsBase(a, n) == a % n >= 2 /\ GCD(a % n, n) = 1

\* With the factors known, 2^iterations is reduced before the exponentiation.
Exponent(iterations, p, q) == Power(2, iterations, LCM(p - 1, q - 1))

-------------------------------------------------------------------------------
(* The file key.                                                             *)

\* derive_password_wrap_key: depends on the mask, the passphrase, salt and costs.
derive_password_wrap_key(mask, pass, pw) ==
    (mask + 1024 * pass + 4096 * (pw.memory + pw.passes + pw.lanes + Len(pw.salt) + pw.salt[1]))
        % KeySpace

WrapKey(mask, pass, pw) ==
    IF pw = None THEN mask ELSE derive_password_wrap_key(mask, pass, pw)

key_protection_material(pass) ==
    IF pass = None THEN None ELSE [memory |-> 3, passes |-> 3, lanes |-> 1, salt |-> SALT]

Wrap(key, wrapKey)       == (key + wrapKey) % KeySpace
Unwrap(wrapped, wrapKey) == (wrapped - wrapKey) % KeySpace

-------------------------------------------------------------------------------
(* Locking.                                                                  *)

\* Calibration, when the request needs it, and resolve_lock_difficulty.
ResolveAt(rate) ==
    LET d == resolve_lock_difficulty(request.iterations, request.target, request.profile, rate)
    IN  IF d.status = "ok" THEN goal' = d.value /\ pc' = "puzzle" /\ UNCHANGED result
                           ELSE Finish(d.status) /\ UNCHANGED goal

Resolve ==
    /\ pc = "request"
    /\ IF NeedsCalibration(request)
       THEN \E r \in Readings :
               LET c == calibrate_current_machine(r[1], r[2])
               IN  IF c.status = "ok" THEN ResolveAt(c.value) ELSE Finish("error") /\ UNCHANGED goal
       ELSE ResolveAt(RateOfRequest(request))
    /\ UNCHANGED <<request, locked, stored, edits, token, late, value, squared, used>>

\* validate_lock_passphrase refuses the empty passphrase, 0 here.
PassphraseIsEmpty == request.pass = 0

ModulusIsUnsuitable == request.bits < MINIMUM_MODULUS_BITS \/ request.bits % 2 = 1

RefusePuzzle ==
    /\ pc = "puzzle"
    /\ PassphraseIsEmpty \/ ModulusIsUnsuitable
    /\ Finish("error")
    /\ UNCHANGED <<request, goal, locked, stored, edits, token, late, value, squared, used>>

BodyFor(n, a, mask) ==
    LET pw == key_protection_material(request.pass)
    IN  [version |-> IF pw = None THEN BODY_VERSION_V1 ELSE BODY_VERSION_V2, flags |-> 0,
         plaintext |-> 1, stream |-> 1, region |-> 1, chunk |-> 1, aead |-> 1, rs |-> 1,
         data |-> 2, parity |-> 1, shard |-> 1, algorithm |-> 1,
         iterations |-> goal.iterations, bits |-> request.bits,
         target |-> goal.target, created |-> 1,
         name |-> request.name, profile |-> <<goal.profile>>,
         modulus |-> n, base |-> a,
         wrapped |-> Wrap(FileKey, WrapKey(mask, request.pass, pw)), password |-> pw]

\* The puzzle, the wrapped key and the superblock that carries them.
CreatePuzzle ==
    /\ pc = "puzzle"
    /\ ~PassphraseIsEmpty /\ ~ModulusIsUnsuitable
    /\ \E p, q \in Primes, r \in Bases :
          /\ IsBlum(p, request.bits \div 2) /\ IsBlum(q, request.bits \div 2)
          /\ FarEnough(p, q, request.bits \div 2)
          /\ IsBase(r, p * q)
          /\ LET n == p * q
                 a == r % n
             IN  locked' = BodyFor(n, a, Power(a, Exponent(goal.iterations, p, q), n))
    /\ stored' = encode_superblock_body(locked')
    /\ pc' = "stored"
    /\ UNCHANGED <<request, goal, edits, token, late, value, squared, used, result>>

-------------------------------------------------------------------------------
(* What else may happen to the superblock, its checksum included.            *)

Edit(cells) ==
    /\ pc = "stored" /\ edits < MaxEdits
    /\ stored' = cells /\ stored' # stored
    /\ edits' = edits + 1
    /\ UNCHANGED <<pc, request, goal, locked, token, late, value, squared, used, result>>

Change == \E i \in 1..Len(stored), c \in Edited : Edit([stored EXCEPT ![i] = c])
Cut    == \E k \in 0..Len(stored) : Edit(SubSeq(stored, 1, k))
Extend == \E c \in Edited : Edit(Append(stored, c))

-------------------------------------------------------------------------------
(* Opening: parse, solve, unwrap, decrypt.                                   *)

Decoded == decode_superblock_body(stored)

\* decode_superblock_body, and the first look at the token.
StartSolve ==
    /\ pc = "stored"
    /\ IF Decoded = NoBody THEN Finish("refused") /\ UNCHANGED value
       ELSE IF token THEN Finish("cancelled") /\ UNCHANGED value
       ELSE /\ value' = Decoded.base
            /\ pc' = "solve" /\ UNCHANGED result
    /\ UNCHANGED <<request, goal, locked, stored, edits, token, late, squared, used>>

\* Mutant: the token is not looked at when progress is shown.
LooksEveryOnly(k) == k % CheckEvery = 0

LooksAtToken(k) == k % CheckEvery = 0 \/ k = Decoded.iterations \/ k % EmitEvery = 0

\* inspect.rs: the header, and the delay on the artifact's profile and on this
\* machine, of which `rate` is known.
Inspect(rate) ==
    [header |-> Header(Decoded),
     onProfile |-> IF Len(Decoded.profile) = 1
                   THEN OnProfile(Decoded.iterations, Decoded.profile[1]) ELSE None,
     onCurrentMachine |-> OnCurrentMachine(Decoded.iterations, rate)]

\* One turn of the loop.
Square ==
    /\ pc = "solve" /\ squared < Decoded.iterations
    /\ value' = (value * value) % Decoded.modulus
    /\ squared' = squared + 1
    /\ late' = IF token THEN late + 1 ELSE 0
    /\ IF token /\ LooksAtToken(squared') THEN Finish("cancelled") ELSE UNCHANGED <<pc, result>>
    /\ UNCHANGED <<request, goal, locked, stored, edits, token, used>>

\* The AEAD: the payload opens under its key and the digest it was sealed with.
Opens(key) == key = FileKey /\ superblock_digest(Decoded) = superblock_digest(locked)

Open(pass) ==
    /\ used' = pass
    /\ Finish(IF Opens(Unwrap(Decoded.wrapped, WrapKey(value, pass, Decoded.password)))
              THEN "opened" ELSE "refused")

\* The loop ends; the key is unwrapped, with the passphrase the user enters.
Recover ==
    /\ pc = "solve" /\ squared = Decoded.iterations
    /\ IF Decoded.password = None THEN Open(None)
       ELSE \E pass \in {1, 2} : Open(pass)
    /\ UNCHANGED <<request, goal, locked, stored, edits, token, late, value, squared>>

RequestCancel ==
    /\ pc \in {"stored", "solve"} /\ ~token /\ edits = 0     \* bound: only of unedited files
    /\ token' = TRUE
    /\ UNCHANGED <<pc, request, goal, locked, stored, edits, late, value, squared, used, result>>

Next == \/ Resolve \/ RefusePuzzle \/ CreatePuzzle
        \/ Change \/ Cut \/ Extend
        \/ StartSolve \/ Square \/ Recover \/ RequestCancel

Spec == Init /\ [][Next]_vars

-------------------------------------------------------------------------------
\* The types of the variables; a lock never resolves to zero squarings.
TypeOK ==
    /\ pc \in {"request", "puzzle", "stored", "solve", "done"}
    /\ request \in Requests
    /\ locked \in Bodies \cup {NoBody}
    /\ goal # None => /\ goal.iterations \in 1..MaxU64
                      /\ goal.profile \in Profiles \cup {CurrentMachine}
    /\ stored \in Seq(Nat) /\ edits \in 0..MaxEdits
    /\ token \in BOOLEAN /\ late \in Nat /\ value \in Nat /\ squared \in Nat
    /\ result \in {"none", "error", "panic", "cancelled", "refused", "opened"}

\* An artifact that nobody edited opens for its passphrase: the short way that
\* the factors allow and the long way of the solver lead to the same number,
\* and what is written can be read.
Reopens == result = "refused" => edits > 0 \/ used # request.pass

\* What opens is the artifact that was locked, with its passphrase, after as
\* many squarings as the delay that was asked for stands for: no edit and no
\* overflow makes it fewer.
OpensOnlyAfterTheDelay ==
    result = "opened" =>
        /\ Decoded = locked /\ used = request.pass
        /\ IF request.iterations # None THEN squared = request.iterations
           ELSE LET delay == request.target.amount * SecondsPerUnit(request.target.unit)
                IN  /\ delay > 0 /\ squared >= delay /\ squared % delay = 0
                    /\ goal.profile \in Profiles => squared = delay * Rate[goal.profile]

\* Of all the beginnings of a superblock body, edited or not, at most the whole
\* of it can be read: a body that was cut short is never taken for another.
SelfDelimiting ==
    pc = "stored" /\ Decoded # NoBody =>
        \A k \in 0..(Len(stored) - 1) : decode_superblock_body(SubSeq(stored, 1, k)) = NoBody

\* The solver stops within CheckEvery squarings of the cancellation, and a
\* cancellation during the squarings is never missed, however few there are.
CancelIsPrompt ==
    /\ late <= CheckEvery
    /\ pc = "solve" /\ late > 0 => squared # Decoded.iterations
    /\ result = "opened" => late = 0

\* Inspection of what was locked shows what was asked for: the delay, exactly,
\* also when it is computed back from the squarings; that a passphrase is
\* needed; and no estimate on a profile that only exists on the locking machine.
ShowsTheTarget ==
    pc = "stored" /\ edits = 0 =>
        LET shown == Inspect(request.rate)
        IN  /\ shown.header.target = goal.target
            /\ shown.header.protected <=> request.pass # None
            /\ shown.header.name = request.name
            /\ shown.onProfile = None <=> goal.profile = CurrentMachine
            /\ goal.target # None /\ goal.profile \in Profiles => shown.onProfile = goal.target
            /\ goal.target # None /\ RateOfRequest(request) # None =>
                  shown.onCurrentMachine = goal.target

================================================================================
