------------------------------- MODULE Difficulty -------------------------------
(***************************************************************************)
(* From a delay to a number of squarings and back: delay_estimation.rs,    *)
(* hardware_profile.rs, calibration_service.rs, lock_difficulty.rs and the *)
(* calibration of the lock use case, as operators.  u64 arithmetic ends at *)
(* MaxU64.                                                                 *)
(*                                                                         *)
(* A delay is a text such as "3d".  What parse_duration_spec tells apart   *)
(* of it: how many characters it has (short: fewer than two bytes), how    *)
(* wide the last one is, the number before it (amount, None: no u64) and   *)
(* the unit ("other": none of the five).                                   *)
(***************************************************************************)
EXTENDS Integers, Sequences

CONSTANTS
    Rate,          \* Rate[p]: squarings per second of the known profile p
    MaxU64,        \* u64::MAX
    NanosPerSec,   \* ticks of the clock in a second (1_000_000_000)
    Window,        \* ticks a measurement lasts at least (CALIBRATION_WINDOW)
    None           \* an Option that is None

Profiles == DOMAIN Rate
CurrentMachine == Len(Rate) + 1                 \* "current-machine"
DEFAULT_HARDWARE_PROFILE_ID == Len(Rate)        \* "high-end-2026", the last of the table

ASSUME DifficultyAssumption ==
    /\ Rate \in Seq(Nat \ {0}) /\ Rate # <<>>
    /\ MaxU64 \in Nat \ {0} /\ NanosPerSec \in Nat \ {0} /\ Window \in Nat
    /\ None \notin Nat

\* What a text can be.
Units == {"s", "m", "h", "d", "w", "other"}
Specs == [short : BOOLEAN, wide : BOOLEAN, amount : Nat \cup {None}, unit : Units]

Ok(v) == [status |-> "ok", value |-> v]
Err   == [status |-> "error", value |-> None]
Panic == [status |-> "panic", value |-> None]

SecondsPerUnit(unit) == CASE unit = "s" -> 1
                          [] unit = "m" -> 60
                          [] unit = "h" -> 3600
                          [] unit = "d" -> 86400
                          [] unit = "w" -> 604800

\* split_at(len - 1) panics inside a character of several bytes.
parse_duration_spec(spec) ==
    CASE spec.short                                   -> Err
      [] spec.wide /\ ~spec.short                     -> Panic
      [] OTHER ->
         IF \/ spec.amount = None
            \/ spec.unit = "other"
            \/ spec.amount * SecondsPerUnit(spec.unit) > MaxU64
         THEN Err
         ELSE Ok(spec.amount * SecondsPerUnit(spec.unit))

get_profile(p) == IF p \in Profiles THEN Ok(Rate[p]) ELSE Err

ensure_current_machine_rate(rate) == IF rate \in {None, 0} THEN Err ELSE Ok(rate)

resolve_iterations_per_second(p, rate) ==
    IF p = CurrentMachine THEN ensure_current_machine_rate(rate) ELSE get_profile(p)

\* Mutant: wraps around where the code refuses.
WrapIterations(secs, rate) == Ok((secs * rate) % (MaxU64 + 1))

estimate_iterations_for_rate(secs, rate) ==
    IF secs * rate = 0 \/ secs * rate > MaxU64 THEN Err ELSE Ok(secs * rate)

(***************************************************************************)
(* What a request asks for: iterations, or else a target delay; a profile  *)
(* (None: the default).  Iterations win over a target.                     *)
(***************************************************************************)
Resolved(iterations, profile, target) ==
    [iterations |-> iterations, profile |-> profile, target |-> target]

\* Mutant: zero iterations are accepted.
ByAnyIterations(n, p) ==
    IF p # CurrentMachine /\ p \notin Profiles THEN Err ELSE Ok(Resolved(n, p, None))

ByIterations(n, p) ==
    IF n = 0 \/ (p # CurrentMachine /\ p \notin Profiles) THEN Err ELSE Ok(Resolved(n, p, None))

ByTarget(spec, p, rate) ==
    LET secs == parse_duration_spec(spec)
        perSecond == resolve_iterations_per_second(p, rate)
        total == estimate_iterations_for_rate(secs.value, perSecond.value)
    IN  CASE secs.status # "ok"      -> [secs EXCEPT !.value = None]
          [] secs.status = "ok" /\ perSecond.status # "ok" -> Err
          [] OTHER -> IF total.status = "ok" THEN Ok(Resolved(total.value, p, secs.value))
                                             ELSE Err

resolve_lock_difficulty(iterations, target, profile, rate) ==
    LET p == IF profile = None THEN DEFAULT_HARDWARE_PROFILE_ID ELSE profile
    IN  IF iterations # None THEN ByIterations(iterations, p)
        ELSE IF target = None THEN Err
        ELSE ByTarget(target, p, rate)

-------------------------------------------------------------------------------
(* Measuring this machine.                                                   *)

\* benchmark_repeated_squaring_iterations_per_second: squarings are counted until
\* a look at the clock finds the window over, at once if the machine was busy.
Reading(n, elapsed) == n \in 0..MaxU64 /\ elapsed \in Nat /\ elapsed >= Window

\* calculate_iterations_per_second: n squarings in `elapsed` ticks, rounded.
Measured(n, elapsed) ==
    IF n = 0 \/ elapsed = 0 THEN n
    ELSE LET r == (n * NanosPerSec + elapsed \div 2) \div elapsed
         IN  IF r > MaxU64 THEN MaxU64 ELSE r

calibrate_current_machine(n, elapsed) ==
    IF Measured(n, elapsed) = 0 THEN Err ELSE Ok(Measured(n, elapsed))

\* A lock measures only when the request needs a rate and brings none.
NeedsCalibration(request) ==
    request.iterations = None /\ request.profile = CurrentMachine /\ request.rate = None

\* The rate the request contributes when no measurement is made.
RateOfRequest(request) ==
    IF request.iterations = None /\ request.profile = CurrentMachine THEN request.rate ELSE None

-------------------------------------------------------------------------------
(* From squarings to an estimated delay.                                     *)

estimate_duration_seconds_for_rate(iterations, rate) ==
    IF rate = 0 THEN None ELSE iterations \div rate

OnCurrentMachine(iterations, rate) ==
    IF rate = None THEN None ELSE estimate_duration_seconds_for_rate(iterations, rate)

OnProfile(iterations, p) ==
    IF p \in Profiles THEN iterations \div Rate[p] ELSE None

================================================================================
