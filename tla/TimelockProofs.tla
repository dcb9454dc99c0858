----------------------------- MODULE TimelockProofs -----------------------------
(***************************************************************************)
(* Theorems about delays, about the superblock body and about the way of   *)
(* one artifact from the request to the attempt to open it, for every      *)
(* width of the integers, every table of profiles, all primes and any      *)
(* number of squarings.  TLC checks the same properties on MCTimelock.     *)
(***************************************************************************)
EXTENDS Timelock, ArithmeticProofs

-------------------------------------------------------------------------------
(* From a delay to squarings and back.                                       *)

\* The delay a text stands for, in seconds.
Seconds(spec) == spec.amount * SecondsPerUnit(spec.unit)

\* A text that is accepted stands for a number of seconds of the width there is.
LEMMA SpecIsRead ==
    ASSUME NEW spec \in Specs, parse_duration_spec(spec).status = "ok"
    PROVE  /\ Seconds(spec) \in 0..MaxU64
           /\ parse_duration_spec(spec) = Ok(Seconds(spec))
<1>1. ~spec.short /\ ~spec.wide
  BY DEF parse_duration_spec, Err, Panic, Specs
<1>2. /\ spec.amount # None /\ spec.unit # "other" /\ ~(Seconds(spec) > MaxU64)
      /\ parse_duration_spec(spec) = Ok(Seconds(spec))
  BY <1>1 DEF parse_duration_spec, Err, Seconds
<1>3. SecondsPerUnit(spec.unit) \in Nat /\ spec.amount \in Nat
  BY <1>2 DEF Specs, Units, SecondsPerUnit
<1>4. Seconds(spec) \in Nat
  BY <1>3, Product DEF Seconds
<1> QED
  BY <1>2, <1>4, DifficultyAssumption

\* A rate that is accepted is positive.
LEMMA RateIsPositive ==
    ASSUME NEW p, NEW rate \in Nat \cup {None},
           resolve_iterations_per_second(p, rate).status = "ok"
    PROVE  \E perSecond \in Nat \ {0} : resolve_iterations_per_second(p, rate) = Ok(perSecond)
<1>1. CASE p = CurrentMachine
  BY <1>1 DEF resolve_iterations_per_second, ensure_current_machine_rate, Err
<1>2. CASE p # CurrentMachine
  <2>1. p \in Profiles /\ resolve_iterations_per_second(p, rate) = Ok(Rate[p])
    BY <1>2 DEF resolve_iterations_per_second, get_profile, Err
  <2>2. Rate[p] \in Nat \ {0}
    BY <2>1, DifficultyAssumption DEF Profiles
  <2> QED
    BY <2>1, <2>2
<1> QED
  BY <1>1, <1>2

\* The target that a request resolves to has been multiplied by the rate.
LEMMA Multiplied ==
    ASSUME NEW target \in Specs, NEW p, NEW rate \in Nat \cup {None},
           ByTarget(target, p, rate).status = "ok"
    PROVE  \E perSecond \in Nat \ {0} :
              /\ resolve_iterations_per_second(p, rate) = Ok(perSecond)
              /\ Seconds(target) \in Nat
              /\ Seconds(target) * perSecond # 0 /\ ~(Seconds(target) * perSecond > MaxU64)
              /\ ByTarget(target, p, rate)
                    = Ok(Resolved(Seconds(target) * perSecond, p, Seconds(target)))
<1> DEFINE secs == parse_duration_spec(target)
           per  == resolve_iterations_per_second(p, rate)
<1>1. secs.status = "ok"
  <2>1. secs.status # "ok" => ByTarget(target, p, rate) = [secs EXCEPT !.value = None]
    BY DEF ByTarget
  <2>2. secs.status # "ok" => secs = Err \/ secs = Panic
    BY DEF parse_duration_spec, Ok
  <2> QED
    BY <2>1, <2>2 DEF Err, Panic
<1>2. secs = Ok(Seconds(target)) /\ Seconds(target) \in Nat
  BY <1>1, SpecIsRead, DifficultyAssumption
<1>3. per.status = "ok"
  <2>1. per.status # "ok" => ByTarget(target, p, rate) = Err
    BY <1>1 DEF ByTarget
  <2> QED
    BY <2>1 DEF Err
<1>4. PICK perSecond \in Nat \ {0} : per = Ok(perSecond)
  BY <1>3, RateIsPositive
<1> DEFINE total == estimate_iterations_for_rate(Seconds(target), perSecond)
<1>5. ByTarget(target, p, rate) =
         IF total.status = "ok" THEN Ok(Resolved(total.value, p, Seconds(target))) ELSE Err
  <2> HIDE DEF secs, per
  <2>1. secs.value = Seconds(target) /\ per.value = perSecond
    BY <1>2, <1>4 DEF Ok
  <2> QED
    BY <1>1, <1>3, <2>1 DEF ByTarget, secs, per
<1>6. total.status = "ok"
  <2> HIDE DEF total
  <2> QED
    BY <1>5 DEF Err
<1>7. /\ Seconds(target) * perSecond # 0 /\ ~(Seconds(target) * perSecond > MaxU64)
      /\ total.value = Seconds(target) * perSecond
  BY <1>6 DEF estimate_iterations_for_rate, Ok, Err
<1> QED
  BY <1>2, <1>4, <1>5, <1>6, <1>7

\* A lock that is asked for a delay takes exactly as many squarings as the delay
\* lasts at the rate it goes by, neither none nor wrapped around, and what is
\* shown of it at that rate is the delay again (lock_difficulty.rs:47-59,
\* delay_estimation.rs:44-73).
THEOREM DelayIsExact ==
    ASSUME NEW target \in Specs, NEW profile, NEW rate \in Nat \cup {None}, NEW d,
           d = resolve_lock_difficulty(None, target, profile, rate), d.status = "ok"
    PROVE  \E perSecond \in Nat \ {0} :
              /\ resolve_iterations_per_second(d.value.profile, rate) = Ok(perSecond)
              /\ d.value.target = Seconds(target)
              /\ d.value.target \in 1..MaxU64 /\ d.value.iterations \in 1..MaxU64
              /\ d.value.iterations = d.value.target * perSecond
              /\ estimate_duration_seconds_for_rate(d.value.iterations, perSecond)
                    = d.value.target
<1> DEFINE p == IF profile = None THEN DEFAULT_HARDWARE_PROFILE_ID ELSE profile
<1>1. d = ByTarget(target, p, rate)
  BY DEF resolve_lock_difficulty, Err
<1> HIDE DEF p
<1>2. PICK perSecond \in Nat \ {0} :
         /\ resolve_iterations_per_second(p, rate) = Ok(perSecond)
         /\ Seconds(target) \in Nat
         /\ Seconds(target) * perSecond # 0 /\ ~(Seconds(target) * perSecond > MaxU64)
         /\ d = Ok(Resolved(Seconds(target) * perSecond, p, Seconds(target)))
  BY <1>1, Multiplied
<1>3. PICK secs \in Nat : secs = Seconds(target)
  BY <1>2
<1>4. PICK n \in Nat : n = secs * perSecond
  BY <1>3, Product
<1>5. secs # 0 /\ secs <= n /\ n # 0
  BY <1>2, <1>3, <1>4, Product
<1>6. n \in 1..MaxU64 /\ secs \in 1..MaxU64
  BY <1>2, <1>3, <1>4, <1>5, DifficultyAssumption
<1>7. n \div perSecond = secs
  <2>1. perSecond * secs = n /\ n < perSecond * secs + perSecond
    BY <1>4
  <2> QED
    BY <2>1, Quotient
<1>8. d.value = [iterations |-> n, profile |-> p, target |-> secs]
  BY <1>2, <1>3, <1>4 DEF Ok, Resolved
<1>9. estimate_duration_seconds_for_rate(n, perSecond) = secs
  BY <1>7 DEF estimate_duration_seconds_for_rate
<1> QED
  BY <1>2, <1>3, <1>4, <1>6, <1>8, <1>9

\* What inspection shows of it elsewhere: no longer on a faster machine, no
\* shorter on a slower one (delay_estimation.rs:64-73).
THEOREM FasterIsSooner ==
    ASSUME NEW iterations \in Nat, NEW slow \in Nat \ {0}, NEW fast \in Nat, slow <= fast
    PROVE  estimate_duration_seconds_for_rate(iterations, fast)
              <= estimate_duration_seconds_for_rate(iterations, slow)
<1>1. fast \in Nat \ {0} /\ fast # 0 /\ slow # 0 /\ iterations <= iterations
  OBVIOUS
<1>2. iterations \div fast <= iterations \div slow
  BY <1>1, Monotone
<1> QED
  BY <1>1, <1>2 DEF estimate_duration_seconds_for_rate

-------------------------------------------------------------------------------
(* Measuring.                                                                *)

\* A rate that was measured is positive and, unless it is cut off at the width of
\* the integers, what has been counted divided by what has passed, rounded to the
\* nearest; it is never too high by more (puzzle_service.rs:246-262).
THEOREM MeasurementIsClose ==
    ASSUME NEW n \in 0..MaxU64, NEW elapsed \in Nat, NEW r,
           calibrate_current_machine(n, elapsed) = Ok(r)
    PROVE  /\ r \in 1..MaxU64
           /\ elapsed # 0 =>
                 /\ 2 * (r * elapsed) <= 2 * (n * NanosPerSec) + elapsed
                 /\ r # MaxU64 => 2 * (n * NanosPerSec) <= 2 * (r * elapsed) + elapsed
<1>1. r = Measured(n, elapsed) /\ r # 0
  BY DEF calibrate_current_machine, Ok, Err
<1>2. CASE n = 0 \/ elapsed = 0
  <2>1. r = n /\ elapsed = 0
    BY <1>1, <1>2 DEF Measured
  <2> QED
    BY <1>1, <2>1
<1>3. CASE n # 0 /\ elapsed # 0
  <2>1. PICK m \in Nat : m = n * NanosPerSec
    BY DifficultyAssumption, Product
  <2>2. PICK h \in Nat : h = elapsed \div 2 /\ 2 * h <= elapsed /\ elapsed <= 2 * h + 1
    OBVIOUS
  <2>3. PICK q \in Nat : /\ q = (m + h) \div elapsed
                         /\ elapsed * q <= m + h /\ m + h < elapsed * q + elapsed
    <3>1. m + h \in Nat /\ elapsed \in Nat \ {0}
      BY <1>3
    <3>2. PICK q \in Nat, x \in 0..(elapsed - 1) :
             q = (m + h) \div elapsed /\ m + h = elapsed * q + x
      BY <3>1, Division
    <3>3. elapsed * q \in Nat
      BY Product
    <3> QED
      BY <3>2, <3>3
  <2>4. r = IF q > MaxU64 THEN MaxU64 ELSE q
    BY <1>1, <1>3, <2>1, <2>2, <2>3 DEF Measured
  <2>5. r \in 1..MaxU64 /\ r <= q
    BY <1>1, <2>4, DifficultyAssumption
  <2>6. PICK e \in Nat : e = elapsed * q
    BY Product
  <2>7. r * elapsed \in Nat /\ r * elapsed <= e /\ (r # MaxU64 => r * elapsed = e)
    <3>1. r \in Nat /\ r <= q /\ (r # MaxU64 => r = q)
      BY <2>4, <2>5
    <3> QED
      BY <2>6, <3>1
  <2> QED
    BY <2>1, <2>2, <2>3, <2>5, <2>6, <2>7
<1> QED
  BY <1>2, <1>3

-------------------------------------------------------------------------------
(* Big numbers in the superblock.                                            *)

\* What the fold in Number is defined by.
NumberFold(s, it) ==
    it = [T \in SUBSET (DOMAIN s) |->
             IF T = {} THEN 0 ELSE it[T \ {Max(T)}] * Radix + s[Max(T)]]

LEMMA NumberFoldExists ==
    ASSUME NEW s \in Seq(Nat)
    PROVE  \E it : NumberFold(s, it)
<1>1. PICK r \in Nat : r = Radix
  BY TimelockAssumption
<1>2. PICK m \in Nat : m = Len(s) /\ DOMAIN s = 1..m
  OBVIOUS
<1>3. \A i \in 1..m : s[i] \in Nat
  BY <1>2
<1>4. PICK h : h = [i \in Nat |-> [v \in Nat |-> IF i \in 1..m THEN v * r + s[i] ELSE v]]
  OBVIOUS
<1>5. h \in [Nat -> [Nat -> Nat]]
  <2>1. \A v \in Nat : v * r \in Nat
    BY Product
  <2>2. \A i, v \in Nat : (IF i \in 1..m THEN v * r + s[i] ELSE v) \in Nat
    BY <1>3, <2>1
  <2> QED
    BY <1>4, <2>2
<1>6. \A i \in 1..m, v \in Nat : h[i][v] = v * r + s[i]
  BY <1>4
<1>7. PICK it : FoldsUp(Nat, 0, h, m, it)
  BY <1>5, FoldExists
<1>8. ASSUME NEW T \in SUBSET (1..m)
      PROVE  it[T] = IF T = {} THEN 0 ELSE it[T \ {Max(T)}] * r + s[Max(T)]
  <2>1. it[T] = IF T = {} THEN 0 ELSE h[Max(T)][it[T \ {Max(T)}]]
    BY <1>7 DEF FoldsUp
  <2>2. CASE T # {}
    <3>1. Max(T) \in 1..m
      BY <2>2, MaxIs
    <3>2. it[T \ {Max(T)}] \in Nat
      BY <1>7 DEF FoldsUp
    <3> QED
      BY <1>6, <2>1, <2>2, <3>1, <3>2
  <2> QED
    BY <2>1, <2>2
<1>9. it = [T \in SUBSET (1..m) |-> it[T]]
  BY <1>7 DEF FoldsUp
<1> QED
  BY <1>1, <1>2, <1>8, <1>9, ZenonT(30) DEF NumberFold

\* The fold over the first k digits is that over the first k - 1 of them, once
\* more multiplied, and the next digit.
LEMMA NumberFoldStep ==
    ASSUME NEW s \in Seq(Nat), NEW it, NumberFold(s, it)
    PROVE  /\ it[1..0] = 0
           /\ \A k \in Nat : k < Len(s) => it[1..(k + 1)] = it[1..k] * Radix + s[k + 1]
<1>1. \A T \in SUBSET (DOMAIN s) :
         it[T] = IF T = {} THEN 0 ELSE it[T \ {Max(T)}] * Radix + s[Max(T)]
  BY DEF NumberFold
<1>2. DOMAIN s = 1..Len(s) /\ Len(s) \in Nat
  OBVIOUS
<1>3. it[1..0] = 0
  <2>1. 1..0 = {}
    OBVIOUS
  <2> QED
    BY <1>1, <2>1
<1>4. ASSUME NEW k \in Nat, k < Len(s) PROVE it[1..(k + 1)] = it[1..k] * Radix + s[k + 1]
  <2>1. 1..(k + 1) \in SUBSET (DOMAIN s) /\ 1..(k + 1) # {}
    <3>1. \A i \in 1..(k + 1) : i \in 1..Len(s)
      BY <1>2, <1>4
    <3>2. 1 \in 1..(k + 1)
      OBVIOUS
    <3> QED
      BY <1>2, <3>1, <3>2
  <2>2. Max(1..(k + 1)) = k + 1 /\ (1..(k + 1)) \ {k + 1} = 1..k
    BY MaxOfInterval
  <2> QED
    BY <1>1, <2>1, <2>2
<1> QED
  BY <1>3, <1>4

LEMMA NumberIsFold ==
    ASSUME NEW s \in Seq(Nat)
    PROVE  \E it : NumberFold(s, it) /\ Number(s) = it[1..Len(s)]
<1>1. Number(s) = (CHOOSE it : NumberFold(s, it))[DOMAIN s]
  BY Zenon DEF Number, FoldLeft, MapThenFoldSet, NumberFold
<1>2. NumberFold(s, CHOOSE it : NumberFold(s, it))
  BY NumberFoldExists, Zenon
<1>3. DOMAIN s = 1..Len(s)
  OBVIOUS
<1> QED
  BY <1>1, <1>2, <1>3

\* Two folds over the same digits agree.
LEMMA NumberFoldsAgree ==
    ASSUME NEW s \in Seq(Nat), NEW t \in Seq(Nat), NEW f, NumberFold(s, f),
           NEW g, NumberFold(t, g), NEW n \in Nat, n <= Len(s), n <= Len(t),
           \A i \in 1..n : s[i] = t[i]
    PROVE  f[1..n] = g[1..n] /\ f[1..n] \in Nat
<1> DEFINE D == {k \in Nat : k <= n => f[1..k] = g[1..k] /\ f[1..k] \in Nat}
<1>1. 0 \in D
  BY NumberFoldStep
<1>2. ASSUME NEW k \in Nat, k \in D PROVE k + 1 \in D
  <2> SUFFICES ASSUME k + 1 <= n PROVE f[1..(k + 1)] = g[1..(k + 1)] /\ f[1..(k + 1)] \in Nat
    OBVIOUS
  <2>1. k < Len(s) /\ k < Len(t) /\ k <= n
    OBVIOUS
  <2>2. f[1..(k + 1)] = f[1..k] * Radix + s[k + 1] /\ g[1..(k + 1)] = g[1..k] * Radix + t[k + 1]
    BY <2>1, NumberFoldStep
  <2>3. s[k + 1] = t[k + 1] /\ s[k + 1] \in Nat
    BY <2>1
  <2>4. PICK x \in Nat, r \in Nat : x = f[1..k] /\ x = g[1..k] /\ r = Radix
    BY <1>2, <2>1, TimelockAssumption
  <2>5. PICK y \in Nat : y = x * r
    BY Product
  <2>6. f[1..(k + 1)] = y + s[k + 1]
    BY <2>2, <2>4, <2>5
  <2>7. g[1..(k + 1)] = y + s[k + 1]
    BY <2>2, <2>3, <2>4, <2>5
  <2> HIDE DEF D
  <2>8. y + s[k + 1] \in Nat
    BY <2>3
  <2> QED
    BY <2>6, <2>7, <2>8, Zenon
<1> HIDE DEF D
<1>3. Nat \subseteq D
  BY <1>1, <1>2, SetInduction
<1> QED
  BY <1>3 DEF D

LEMMA NumberIsNat ==
    ASSUME NEW s \in Seq(Nat)
    PROVE  Number(s) \in Nat
<1>1. PICK it : NumberFold(s, it) /\ Number(s) = it[1..Len(s)]
  BY NumberIsFold
<1>2. it[1..Len(s)] \in Nat
  BY <1>1, NumberFoldsAgree
<1> QED
  BY <1>1, <1>2

LEMMA NumberAppend ==
    ASSUME NEW s \in Seq(Nat), NEW d \in Nat
    PROVE  Number(Append(s, d)) = Number(s) * Radix + d
<1>1. PICK t \in Seq(Nat) : /\ t = Append(s, d) /\ Len(t) = Len(s) + 1
                            /\ t[Len(s) + 1] = d /\ \A i \in 1..Len(s) : t[i] = s[i]
  <2>1. Append(s, d) \in Seq(Nat) /\ Len(Append(s, d)) = Len(s) + 1
    OBVIOUS
  <2>2. Append(s, d)[Len(s) + 1] = d /\ \A i \in 1..Len(s) : Append(s, d)[i] = s[i]
    OBVIOUS
  <2> QED
    BY <2>1, <2>2
<1>2. PICK f : NumberFold(s, f) /\ Number(s) = f[1..Len(s)]
  BY NumberIsFold
<1>3. PICK g : NumberFold(t, g) /\ Number(t) = g[1..Len(t)]
  BY NumberIsFold
<1>4. f[1..Len(s)] = g[1..Len(s)]
  <2>1. Len(s) \in Nat /\ Len(s) <= Len(s) /\ Len(s) <= Len(t)
    BY <1>1
  <2>2. \A i \in 1..Len(s) : s[i] = t[i]
    BY <1>1
  <2> QED
    BY <1>2, <1>3, <2>1, <2>2, NumberFoldsAgree
<1>5. g[1..(Len(s) + 1)] = g[1..Len(s)] * Radix + t[Len(s) + 1]
  <2>1. Len(s) \in Nat /\ Len(s) < Len(t)
    BY <1>1
  <2> QED
    BY <1>3, <2>1, NumberFoldStep
<1> QED
  BY <1>1, <1>2, <1>3, <1>4, <1>5

LEMMA NumberOne ==
    ASSUME NEW d \in Nat
    PROVE  Number(<<d>>) = d
<1>1. PICK t \in Seq(Nat) : t = <<d>> /\ Len(t) = 1 /\ t[1] = d
  <2>1. <<d>> \in Seq(Nat)
    OBVIOUS
  <2>2. Len(<<d>>) = 1 /\ <<d>>[1] = d
    OBVIOUS
  <2> QED
    BY <2>1, <2>2
<1>2. PICK g : NumberFold(t, g) /\ Number(t) = g[1..Len(t)]
  BY NumberIsFold
<1>3. g[1..0] = 0 /\ g[1..(0 + 1)] = g[1..0] * Radix + t[0 + 1]
  <2>1. 0 \in Nat /\ 0 < Len(t)
    BY <1>1
  <2> QED
    BY <1>2, <2>1, NumberFoldStep
<1>4. 0 * Radix = 0 /\ 0 + 1 = 1
  BY TimelockAssumption
<1> QED
  BY <1>1, <1>2, <1>3, <1>4

\* The digits of n, when those of the smaller numbers are given.
DigitsFrom(d, n) == IF n < Radix THEN <<n>> ELSE Append(d[n \div Radix], n % Radix)

\* d has the digits of the numbers up to n.
DigitsUpTo(n, d) ==
    d \in [0..n -> Seq(Nat)] /\ \A i \in 0..n : d[i] = DigitsFrom(d, i)

LEMMA QuotientIsSmaller ==
    ASSUME NEW n \in Nat, ~(n < Radix)
    PROVE  /\ n \div Radix \in Nat /\ n \div Radix < n /\ n % Radix \in Nat
           /\ n = (n \div Radix) * Radix + (n % Radix)
<1>1. PICK r \in Nat \ {0, 1} : r = Radix
  BY TimelockAssumption
<1>2. PICK q \in Nat, x \in 0..(r - 1) : q = n \div r /\ x = n % r /\ n = r * q + x
  BY Division
<1>3. r * q = q * r /\ q * r \in Nat
  BY Product
<1>4. q < n
  <2>1. CASE q = 0
    BY <1>1, <1>2, <2>1
  <2>2. CASE q # 0
    <3>1. r * q >= q + q
      BY <2>2
    <3> QED
      BY <1>2, <1>3, <2>2, <3>1
  <2> QED
    BY <2>1, <2>2
<1> QED
  BY <1>1, <1>2, <1>3, <1>4

LEMMA OneDigit ==
    ASSUME NEW n \in Nat
    PROVE  <<n>> \in Seq(Nat)
OBVIOUS

LEMMA DigitsExist ==
    ASSUME NEW n \in Nat
    PROVE  \E d : DigitsUpTo(n, d)
<1> DEFINE T == {k \in Nat : \E d : DigitsUpTo(k, d)}
<1>1. 0 \in T
  <2>1. PICK d : d = [i \in 0..0 |-> <<0>>]
    OBVIOUS
  <2>2. <<0>> \in Seq(Nat)
    BY OneDigit
  <2>3. d \in [0..0 -> Seq(Nat)] /\ d[0] = <<0>>
    BY <2>1, <2>2
  <2>4. DigitsFrom(d, 0) = <<0>>
    BY TimelockAssumption DEF DigitsFrom
  <2>5. DigitsUpTo(0, d)
    BY <2>3, <2>4 DEF DigitsUpTo
  <2> QED
    BY <2>5
<1>2. ASSUME NEW k \in Nat, k \in T PROVE k + 1 \in T
  <2>1. PICK d : DigitsUpTo(k, d)
    BY <1>2
  <2>2. d \in [0..k -> Seq(Nat)] /\ \A i \in 0..k : d[i] = DigitsFrom(d, i)
    BY <2>1 DEF DigitsUpTo
  <2>3. PICK e : e = [i \in 0..(k + 1) |-> IF i = k + 1 THEN DigitsFrom(d, k + 1) ELSE d[i]]
    OBVIOUS
  <2>4. /\ e[k + 1] = DigitsFrom(d, k + 1)
        /\ \A i \in 0..k : e[i] = d[i]
    BY <2>3
  <2>5. ASSUME NEW i \in 0..(k + 1) PROVE DigitsFrom(e, i) = DigitsFrom(d, i)
    <3>1. CASE i < Radix
      BY <3>1 DEF DigitsFrom
    <3>2. CASE ~(i < Radix)
      <4>1. i \div Radix \in 0..k
        <5>1. i \in Nat
          OBVIOUS
        <5>2. i \div Radix \in Nat /\ i \div Radix < i
          BY <3>2, <5>1, QuotientIsSmaller
        <5> QED
          BY <5>2
      <4>2. e[i \div Radix] = d[i \div Radix]
        BY <2>4, <4>1
      <4> QED
        BY <3>2, <4>2 DEF DigitsFrom
    <3> QED
      BY <3>1, <3>2
  <2>6. DigitsFrom(d, k + 1) \in Seq(Nat)
    <3>1. CASE k + 1 < Radix
      <4>1. <<k + 1>> \in Seq(Nat)
        BY OneDigit
      <4> QED
        BY <3>1, <4>1 DEF DigitsFrom
    <3>2. CASE ~(k + 1 < Radix)
      <4>1. /\ (k + 1) \div Radix \in Nat /\ (k + 1) \div Radix < k + 1
            /\ (k + 1) % Radix \in Nat
        BY <3>2, QuotientIsSmaller
      <4>2. (k + 1) \div Radix \in 0..k
        BY <4>1
      <4>3. d[(k + 1) \div Radix] \in Seq(Nat)
        BY <2>2, <4>2
      <4>4. Append(d[(k + 1) \div Radix], (k + 1) % Radix) \in Seq(Nat)
        BY <4>1, <4>3
      <4> QED
        BY <3>2, <4>4 DEF DigitsFrom
    <3> QED
      BY <3>1, <3>2
  <2>7. e \in [0..(k + 1) -> Seq(Nat)]
    <3>1. \A i \in 0..(k + 1) :
             (IF i = k + 1 THEN DigitsFrom(d, k + 1) ELSE d[i]) \in Seq(Nat)
      BY <2>2, <2>6
    <3> QED
      BY <2>3, <3>1
  <2>8. ASSUME NEW i \in 0..(k + 1) PROVE e[i] = DigitsFrom(e, i)
    <3>1. CASE i = k + 1
      BY <2>4, <2>5, <3>1
    <3>2. CASE i # k + 1
      <4>1. i \in 0..k
        BY <3>2
      <4> QED
        BY <2>2, <2>4, <2>5, <4>1
    <3> QED
      BY <3>1, <3>2
  <2>9. DigitsUpTo(k + 1, e)
    BY <2>7, <2>8 DEF DigitsUpTo
  <2> QED
    BY <2>9
<1> HIDE DEF T
<1>3. Nat \subseteq T
  BY <1>1, <1>2, SetInduction
<1> QED
  BY <1>3 DEF T

LEMMA DigitsAgree ==
    ASSUME NEW m \in Nat, NEW n \in Nat, NEW f, DigitsUpTo(m, f), NEW g, DigitsUpTo(n, g),
           NEW k \in Nat, k <= m, k <= n
    PROVE  f[k] = g[k]
<1> DEFINE T == {l \in Nat : l <= m /\ l <= n => f[l] = g[l]}
<1>1. ASSUME NEW l \in Nat, \A j \in Nat : j < l => j \in T PROVE l \in T
  <2> SUFFICES ASSUME l <= m, l <= n PROVE f[l] = g[l]
    OBVIOUS
  <2>1. l \in 0..m /\ l \in 0..n
    OBVIOUS
  <2>2. f[l] = DigitsFrom(f, l) /\ g[l] = DigitsFrom(g, l)
    BY <2>1 DEF DigitsUpTo
  <2>3. CASE l < Radix
    BY <2>2, <2>3 DEF DigitsFrom
  <2>4. CASE ~(l < Radix)
    <3>1. l \div Radix \in Nat /\ l \div Radix < l
      BY <2>4, QuotientIsSmaller
    <3>2. l \div Radix \in T /\ l \div Radix <= m /\ l \div Radix <= n
      BY <1>1, <3>1
    <3>3. f[l \div Radix] = g[l \div Radix]
      BY <3>2
    <3> QED
      BY <2>2, <2>4, <3>3 DEF DigitsFrom
  <2> QED
    BY <2>3, <2>4
<1> HIDE DEF T
<1>2. Nat \subseteq T
  BY <1>1, StrongInduction
<1> QED
  BY <1>2 DEF T

\* What the recursive definition of Digits says.
LEMMA DigitsDef ==
    \A n \in Nat : Digits[n] = DigitsFrom(Digits, n)
<1> DEFINE Equation(d) == d = [n \in Nat |->
                                  IF n < Radix THEN <<n>> ELSE Append(d[n \div Radix], n % Radix)]
           part(n) == CHOOSE d : DigitsUpTo(n, d)
<1>1. ASSUME NEW n \in Nat PROVE DigitsUpTo(n, part(n))
  BY DigitsExist, Zenon
<1> HIDE DEF part
<1>2. PICK d : d = [n \in Nat |-> part(n)[n]]
  OBVIOUS
<1>3. ASSUME NEW n \in Nat PROVE d[n] = DigitsFrom(d, n)
  <2>1. part(n)[n] = DigitsFrom(part(n), n)
    BY <1>1 DEF DigitsUpTo
  <2>2. CASE n < Radix
    BY <1>2, <2>1, <2>2 DEF DigitsFrom
  <2>3. CASE ~(n < Radix)
    <3>1. n \div Radix \in Nat /\ n \div Radix < n
      BY <2>3, QuotientIsSmaller
    <3>2. d[n \div Radix] = part(n \div Radix)[n \div Radix]
      BY <1>2, <3>1
    <3>3. DigitsUpTo(n, part(n)) /\ DigitsUpTo(n \div Radix, part(n \div Radix))
      BY <1>1, <3>1
    <3>4. part(n \div Radix)[n \div Radix] = part(n)[n \div Radix]
      <4>1. n \div Radix <= n /\ n \div Radix <= n \div Radix
        BY <3>1
      <4> QED
        BY <3>1, <3>3, <4>1, DigitsAgree
    <3> QED
      BY <1>2, <2>1, <2>3, <3>2, <3>4 DEF DigitsFrom
  <2> QED
    BY <2>2, <2>3
<1>4. Equation(d)
  BY <1>2, <1>3 DEF DigitsFrom
<1>5. Equation(CHOOSE e : Equation(e))
  BY <1>4, Zenon
<1>6. Digits = CHOOSE e : Equation(e)
  BY ZenonT(30) DEF Digits
<1>7. Equation(Digits)
  BY <1>5, <1>6
<1> QED
  BY <1>7 DEF DigitsFrom

\* A number that is written in digits is read back (to_bytes_be, from_bytes_be).
LEMMA NumberOfDigits ==
    ASSUME NEW n \in Nat
    PROVE  Digits[n] \in Seq(Nat) /\ Digits[n] # <<>> /\ Number(Digits[n]) = n
<1> DEFINE T == {k \in Nat : Digits[k] \in Seq(Nat) /\ Digits[k] # <<>> /\ Number(Digits[k]) = k}
<1>1. ASSUME NEW k \in Nat, \A m \in Nat : m < k => m \in T PROVE k \in T
  <2>1. CASE k < Radix
    <3>1. Digits[k] = <<k>>
      BY <2>1, DigitsDef DEF DigitsFrom
    <3>2. <<k>> \in Seq(Nat) /\ <<k>> # <<>>
      BY OneDigit
    <3> QED
      BY <3>1, <3>2, NumberOne
  <2>2. CASE ~(k < Radix)
    <3>1. PICK q \in Nat, x \in Nat : /\ q = k \div Radix /\ x = k % Radix
                                      /\ q < k /\ k = q * Radix + x
      BY <2>2, QuotientIsSmaller
    <3>2. Digits[k] = Append(Digits[q], x)
      BY <2>2, <3>1, DigitsDef DEF DigitsFrom
    <3>3. Digits[q] \in Seq(Nat) /\ Number(Digits[q]) = q
      BY <1>1, <3>1
    <3>4. Number(Append(Digits[q], x)) = q * Radix + x
      BY <3>3, NumberAppend
    <3>5. Append(Digits[q], x) \in Seq(Nat) /\ Append(Digits[q], x) # <<>>
      <4>1. PICK t \in Seq(Nat) : t = Digits[q]
        BY <3>3
      <4>2. Append(t, x) \in Seq(Nat)
        OBVIOUS
      <4>3. Len(Append(t, x)) = Len(t) + 1 /\ Len(t) \in Nat
        OBVIOUS
      <4>4. Append(t, x) # <<>>
        BY <4>3
      <4> QED
        BY <4>1, <4>2, <4>4
    <3> QED
      BY <3>1, <3>2, <3>4, <3>5
  <2> QED
    BY <2>1, <2>2
<1> HIDE DEF T
<1>2. Nat \subseteq T
  BY <1>1, StrongInduction
<1> QED
  BY <1>2 DEF T

-------------------------------------------------------------------------------
(* Fields of variable length: at `at` of the cells b, after its length, s.   *)

Holds(b, at, s) ==
    /\ at \in 1..Len(b) /\ at + Len(s) <= Len(b)
    /\ b[at] = Len(s)
    /\ \A i \in 1..Len(s) : b[at + i] = s[i]

LEMMA Joined ==
    ASSUME NEW u \in Seq(Nat), NEW v \in Seq(Nat)
    PROVE  /\ u \o v \in Seq(Nat) /\ Len(u \o v) = Len(u) + Len(v)
           /\ \A i \in 1..Len(u) : (u \o v)[i] = u[i]
           /\ \A i \in 1..Len(v) : (u \o v)[Len(u) + i] = v[i]
OBVIOUS

LEMMA JoinedThree ==
    ASSUME NEW u \in Seq(Nat), NEW v \in Seq(Nat), NEW w \in Seq(Nat)
    PROVE  (u \o v) \o w = u \o (v \o w)
OBVIOUS

LEMMA SameSequence ==
    ASSUME NEW s \in Seq(Nat), NEW t \in Seq(Nat), Len(s) = Len(t),
           \A i \in 1..Len(s) : s[i] = t[i]
    PROVE  s = t
OBVIOUS

LEMMA Part ==
    ASSUME NEW s \in Seq(Nat), NEW m \in Nat, NEW l \in Nat, m + l <= Len(s)
    PROVE  /\ SubSeq(s, m + 1, m + l) \in Seq(Nat) /\ Len(SubSeq(s, m + 1, m + l)) = l
           /\ \A i \in 1..l : SubSeq(s, m + 1, m + l)[i] = s[m + i]
<1>1. PICK h \in Nat : h = m + l
  OBVIOUS
<1>2. h <= Len(s) /\ m + 1 \in Nat \ {0} /\ h - (m + 1) + 1 = l
  BY <1>1
<1>3. SubSeq(s, m + 1, h) = [i \in 1..l |-> s[m + i]]
  BY <1>1, <1>2
<1>4. \A i \in 1..l : s[m + i] \in Nat
  BY <1>1, <1>2
<1>5. [i \in 1..l |-> s[m + i]] \in Seq(Nat) /\ Len([i \in 1..l |-> s[m + i]]) = l
  BY <1>4
<1> QED
  BY <1>1, <1>3, <1>5

LEMMA PrefixedIs ==
    ASSUME NEW s \in Seq(Nat)
    PROVE  /\ Prefixed(s) \in Seq(Nat) /\ Len(Prefixed(s)) = Len(s) + 1
           /\ Prefixed(s)[1] = Len(s) /\ \A i \in 1..Len(s) : Prefixed(s)[i + 1] = s[i]
<1>1. PICK h \in Seq(Nat) : h = <<Len(s)>> /\ Len(h) = 1 /\ h[1] = Len(s)
  <2>1. Len(s) \in Nat
    OBVIOUS
  <2>2. <<Len(s)>> \in Seq(Nat)
    BY <2>1, OneDigit
  <2>3. Len(<<Len(s)>>) = 1 /\ <<Len(s)>>[1] = Len(s)
    OBVIOUS
  <2> QED
    BY <2>2, <2>3
<1>2. /\ h \o s \in Seq(Nat) /\ Len(h \o s) = 1 + Len(s) /\ (h \o s)[1] = h[1]
      /\ \A i \in 1..Len(s) : (h \o s)[1 + i] = s[i]
  <2>1. 1 \in 1..Len(h)
    BY <1>1
  <2>2. /\ h \o s \in Seq(Nat) /\ Len(h \o s) = Len(h) + Len(s)
        /\ \A i \in 1..Len(h) : (h \o s)[i] = h[i]
        /\ \A i \in 1..Len(s) : (h \o s)[Len(h) + i] = s[i]
    BY Joined
  <2> QED
    BY <1>1, <2>1, <2>2
<1>3. Prefixed(s) = h \o s
  BY <1>1 DEF Prefixed
<1>4. \A i \in 1..Len(s) : 1 + i = i + 1
  OBVIOUS
<1> QED
  BY <1>1, <1>2, <1>3, <1>4

LEMMA HoldsAtEnd ==
    ASSUME NEW u \in Seq(Nat), NEW s \in Seq(Nat)
    PROVE  /\ u \o Prefixed(s) \in Seq(Nat) /\ Len(u \o Prefixed(s)) = Len(u) + Len(s) + 1
           /\ Holds(u \o Prefixed(s), Len(u) + 1, s)
<1>1. PICK v \in Seq(Nat) : /\ v = Prefixed(s) /\ Len(v) = Len(s) + 1
                            /\ v[1] = Len(s) /\ \A i \in 1..Len(s) : v[i + 1] = s[i]
  BY PrefixedIs
<1>2. PICK b \in Seq(Nat) : /\ b = u \o v /\ Len(b) = Len(u) + Len(v)
                            /\ \A i \in 1..Len(v) : b[Len(u) + i] = v[i]
  <2>1. /\ u \o v \in Seq(Nat) /\ Len(u \o v) = Len(u) + Len(v)
        /\ \A i \in 1..Len(v) : (u \o v)[Len(u) + i] = v[i]
    BY Joined
  <2> QED
    BY <2>1, Zenon
<1>3. Len(u) \in Nat /\ Len(s) \in Nat
  OBVIOUS
<1>4. b[Len(u) + 1] = Len(s)
  <2>1. 1 \in 1..Len(v)
    BY <1>1, <1>3
  <2> QED
    BY <1>1, <1>2, <2>1
<1>5. ASSUME NEW i \in 1..Len(s) PROVE b[Len(u) + 1 + i] = s[i]
  <2>1. i + 1 \in 1..Len(v)
    BY <1>1, <1>3
  <2>2. b[Len(u) + (i + 1)] = v[i + 1]
    BY <1>2, <2>1
  <2>3. Len(u) + (i + 1) = Len(u) + 1 + i
    BY <1>3
  <2> QED
    BY <1>1, <2>2, <2>3
<1>6. Len(u) + 1 \in 1..Len(b) /\ Len(u) + 1 + Len(s) = Len(b)
  BY <1>1, <1>2, <1>3
<1>7. Holds(b, Len(u) + 1, s)
  BY <1>4, <1>5, <1>6 DEF Holds
<1> QED
  BY <1>1, <1>2, <1>6, <1>7

\* The cells u are the first of the cells b.
Starts(u, b) ==
    /\ u \in Seq(Nat) /\ b \in Seq(Nat) /\ Len(u) <= Len(b)
    /\ \A i \in 1..Len(u) : b[i] = u[i]

LEMMA StartsJoined ==
    ASSUME NEW u \in Seq(Nat), NEW v \in Seq(Nat)
    PROVE  Starts(u, u \o v)
<1>1. /\ u \o v \in Seq(Nat) /\ Len(u \o v) = Len(u) + Len(v)
      /\ \A i \in 1..Len(u) : (u \o v)[i] = u[i]
  BY Joined
<1>2. Len(u) \in Nat /\ Len(v) \in Nat
  OBVIOUS
<1> QED
  BY <1>1, <1>2 DEF Starts

LEMMA StartsTransitive ==
    ASSUME NEW u, NEW v, NEW w, Starts(u, v), Starts(v, w)
    PROVE  Starts(u, w)
<1>1. u \in Seq(Nat) /\ v \in Seq(Nat) /\ w \in Seq(Nat)
  BY DEF Starts
<1>2. \A i \in 1..Len(u) : i \in 1..Len(v)
  BY <1>1 DEF Starts
<1> QED
  BY <1>1, <1>2 DEF Starts

LEMMA HoldsBefore ==
    ASSUME NEW u, NEW b, Starts(u, b), NEW s \in Seq(Nat), NEW at \in Nat, Holds(u, at, s)
    PROVE  Holds(b, at, s)
<1>1. /\ u \in Seq(Nat) /\ b \in Seq(Nat) /\ Len(u) <= Len(b)
      /\ \A i \in 1..Len(u) : b[i] = u[i]
  BY DEF Starts
<1>2. Len(u) \in Nat /\ Len(s) \in Nat /\ Len(b) \in Nat
  BY <1>1
<1>3. /\ at \in 1..Len(u) /\ at + Len(s) <= Len(u) /\ u[at] = Len(s)
      /\ \A i \in 1..Len(s) : u[at + i] = s[i]
  BY DEF Holds
<1>4. \A i \in 1..Len(s) : at + i \in 1..Len(u)
  BY <1>2, <1>3
<1>5. \A i \in 1..Len(s) : b[at + i] = s[i]
  BY <1>1, <1>3, <1>4
<1>6. at \in 1..Len(b) /\ at + Len(s) <= Len(b) /\ b[at] = Len(s)
  <2>1. b[at] = Len(s)
    BY <1>1, <1>3
  <2> QED
    BY <1>1, <1>2, <1>3, <2>1
<1> QED
  BY <1>5, <1>6 DEF Holds

\* What Field reads of cells: a field that is held, and nothing else.
LEMMA FieldRead ==
    ASSUME NEW b \in Seq(Nat), NEW s \in Seq(Nat), NEW at \in Nat, Holds(b, at, s)
    PROVE  /\ Field(b, at).ok /\ Field(b, at).data = s
           /\ Field(b, at).next = at + Len(s) + 1
<1>1. /\ at \in 1..Len(b) /\ at + Len(s) <= Len(b) /\ b[at] = Len(s)
      /\ \A i \in 1..Len(s) : b[at + i] = s[i]
  BY DEF Holds
<1>2. PICK t \in Seq(Nat) : /\ t = SubSeq(b, at + 1, at + Len(s)) /\ Len(t) = Len(s)
                            /\ \A i \in 1..Len(s) : t[i] = b[at + i]
  <2>1. Len(s) \in Nat
    OBVIOUS
  <2> QED
    BY <1>1, <2>1, Part
<1>3. Len(t) = Len(s) /\ \A i \in 1..Len(s) : t[i] = b[at + i]
  BY <1>2
<1>4. t = s
  BY <1>1, <1>3, SameSequence
<1> QED
  BY <1>1, <1>2, <1>4 DEF Field

LEMMA FieldHeld ==
    ASSUME NEW b \in Seq(Nat), NEW at \in Nat \ {0}
    PROVE  /\ Field(b, at).ok \in BOOLEAN
           /\ Field(b, at).data \in Seq(Nat) /\ Field(b, at).next \in Nat \ {0}
           /\ Field(b, at).ok => /\ Holds(b, at, Field(b, at).data)
                                 /\ Field(b, at).next = at + Len(Field(b, at).data) + 1
                                 /\ Field(b, at).next <= Len(b) + 1
<1>1. CASE ~(at <= Len(b) /\ at + b[at] <= Len(b))
  <2>1. Field(b, at) = [ok |-> FALSE, data |-> <<>>, next |-> Len(b) + 1]
    BY <1>1 DEF Field, Missing
  <2> QED
    BY <2>1
<1>2. CASE at <= Len(b) /\ at + b[at] <= Len(b)
  <2>1. b[at] \in Nat /\ at \in 1..Len(b)
    BY <1>2
  <2>2. PICK t \in Seq(Nat) : /\ t = SubSeq(b, at + 1, at + b[at]) /\ Len(t) = b[at]
                              /\ \A i \in 1..b[at] : t[i] = b[at + i]
    BY <1>2, <2>1, Part
  <2>3. Len(t) = b[at] /\ \A i \in 1..Len(t) : t[i] = b[at + i]
    BY <2>2
  <2>4. Field(b, at) = [ok |-> TRUE, data |-> t, next |-> at + b[at] + 1]
    BY <1>2, <2>2 DEF Field
  <2>5. Holds(b, at, t)
    BY <1>2, <2>1, <2>3 DEF Holds
  <2>6. at + b[at] + 1 \in Nat \ {0} /\ at + b[at] + 1 <= Len(b) + 1
    BY <1>2, <2>1
  <2>7. /\ Field(b, at).ok = TRUE /\ Field(b, at).data = t
        /\ Field(b, at).next = at + b[at] + 1
    BY <2>4
  <2> QED
    BY <2>3, <2>5, <2>6, <2>7
<1> QED
  BY <1>1, <1>2

-------------------------------------------------------------------------------
(* The body of a superblock, encoded.                                        *)

\* The texts in it are texts, and the original file's name is not empty.
Proper(body) ==
    /\ body.name = None \/ (body.name # <<>> /\ IsUtf8(body.name))
    /\ IsUtf8(body.profile)

\* The cells before the name.
Beginning(body) ==
    <<body.version, body.flags, body.plaintext, body.stream, body.region, body.chunk,
      body.aead, body.rs, body.data, body.parity, body.shard, body.algorithm,
      body.iterations, body.bits>>
      \o TargetCells(body.target) \o <<body.created>>

\* b[1] to b[17] are the fixed fields of the body.
HoldsBeginning(b, body) ==
    /\ Len(b) >= 17
    /\ b[1] = body.version /\ b[2] = body.flags /\ b[3] = body.plaintext /\ b[4] = body.stream
    /\ b[5] = body.region /\ b[6] = body.chunk /\ b[7] = body.aead /\ b[8] = body.rs
    /\ b[9] = body.data /\ b[10] = body.parity /\ b[11] = body.shard /\ b[12] = body.algorithm
    /\ b[13] = body.iterations /\ b[14] = body.bits
    /\ b[15] = (IF body.target = None THEN 0 ELSE 1)
    /\ b[16] = (IF body.target = None THEN 0 ELSE body.target)
    /\ b[17] = body.created

LEMMA BeginningIs ==
    ASSUME NEW body \in Bodies
    PROVE  /\ Beginning(body) \in Seq(Nat) /\ Len(Beginning(body)) = 17
           /\ HoldsBeginning(Beginning(body), body)
<1>1. PICK u \in Seq(Nat) :
         /\ Len(u) = 14
         /\ u = <<body.version, body.flags, body.plaintext, body.stream, body.region, body.chunk,
                  body.aead, body.rs, body.data, body.parity, body.shard, body.algorithm,
                  body.iterations, body.bits>>
         /\ u[1] = body.version /\ u[2] = body.flags /\ u[3] = body.plaintext
         /\ u[4] = body.stream /\ u[5] = body.region /\ u[6] = body.chunk
         /\ u[7] = body.aead /\ u[8] = body.rs /\ u[9] = body.data
         /\ u[10] = body.parity /\ u[11] = body.shard /\ u[12] = body.algorithm
         /\ u[13] = body.iterations /\ u[14] = body.bits
  <2>1. /\ body.version \in Nat /\ body.flags \in Nat /\ body.plaintext \in Nat
        /\ body.stream \in Nat /\ body.region \in Nat /\ body.chunk \in Nat
        /\ body.aead \in Nat /\ body.rs \in Nat /\ body.data \in Nat
        /\ body.parity \in Nat /\ body.shard \in Nat /\ body.algorithm \in Nat
        /\ body.iterations \in Nat /\ body.bits \in Nat
    BY DEF Bodies
  <2>2. <<body.version, body.flags, body.plaintext, body.stream, body.region, body.chunk,
          body.aead, body.rs, body.data, body.parity, body.shard, body.algorithm,
          body.iterations, body.bits>> \in Seq(Nat)
    BY <2>1
  <2> QED
    BY <2>2
<1>2. PICK t \in Seq(Nat) : /\ t = TargetCells(body.target) /\ Len(t) = 2
                            /\ t[1] = (IF body.target = None THEN 0 ELSE 1)
                            /\ t[2] = (IF body.target = None THEN 0 ELSE body.target)
  <2>1. body.target \in Nat \cup {None}
    BY DEF Bodies
  <2>2. <<0, 0>> \in Seq(Nat) /\ (body.target # None => <<1, body.target>> \in Seq(Nat))
    BY <2>1
  <2>3. TargetCells(body.target) \in Seq(Nat)
    BY <2>2 DEF TargetCells
  <2>4. /\ Len(TargetCells(body.target)) = 2
        /\ TargetCells(body.target)[1] = (IF body.target = None THEN 0 ELSE 1)
        /\ TargetCells(body.target)[2] = (IF body.target = None THEN 0 ELSE body.target)
    BY DEF TargetCells
  <2> QED
    BY <2>3, <2>4
<1>3. PICK c \in Seq(Nat) : c = <<body.created>> /\ Len(c) = 1 /\ c[1] = body.created
  <2>1. body.created \in Nat
    BY DEF Bodies
  <2>2. <<body.created>> \in Seq(Nat)
    BY <2>1, OneDigit
  <2>3. Len(<<body.created>>) = 1 /\ <<body.created>>[1] = body.created
    OBVIOUS
  <2> QED
    BY <2>2, <2>3
<1>4. PICK v \in Seq(Nat) : /\ v = u \o t /\ Len(v) = Len(u) + Len(t)
                            /\ \A i \in 1..Len(u) : v[i] = u[i]
                            /\ \A i \in 1..Len(t) : v[Len(u) + i] = t[i]
  <2>1. /\ u \o t \in Seq(Nat) /\ Len(u \o t) = Len(u) + Len(t)
        /\ \A i \in 1..Len(u) : (u \o t)[i] = u[i]
        /\ \A i \in 1..Len(t) : (u \o t)[Len(u) + i] = t[i]
    BY Joined
  <2> QED
    BY <2>1, Zenon
<1>5. PICK w \in Seq(Nat) : /\ w = v \o c /\ Len(w) = Len(v) + Len(c)
                            /\ \A i \in 1..Len(v) : w[i] = v[i]
                            /\ \A i \in 1..Len(c) : w[Len(v) + i] = c[i]
  <2>1. /\ v \o c \in Seq(Nat) /\ Len(v \o c) = Len(v) + Len(c)
        /\ \A i \in 1..Len(v) : (v \o c)[i] = v[i]
        /\ \A i \in 1..Len(c) : (v \o c)[Len(v) + i] = c[i]
    BY Joined
  <2> QED
    BY <2>1, Zenon
<1>6. Len(u) = 14 /\ Len(t) = 2 /\ Len(c) = 1 /\ Len(v) = 16 /\ Len(w) = 17
  BY <1>1, <1>2, <1>3, <1>4, <1>5
<1>7. Beginning(body) = w
  BY <1>1, <1>2, <1>3, <1>4, <1>5 DEF Beginning
<1>8. \A i \in 1..14 : w[i] = u[i]
  <2>1. \A i \in 1..14 : i \in 1..16
    OBVIOUS
  <2> QED
    BY <1>4, <1>5, <1>6, <2>1
<1>9. /\ w[1] = u[1] /\ w[2] = u[2] /\ w[3] = u[3] /\ w[4] = u[4] /\ w[5] = u[5]
      /\ w[6] = u[6] /\ w[7] = u[7] /\ w[8] = u[8] /\ w[9] = u[9] /\ w[10] = u[10]
      /\ w[11] = u[11] /\ w[12] = u[12] /\ w[13] = u[13] /\ w[14] = u[14]
  BY <1>8
<1>10. w[15] = t[1] /\ w[16] = t[2] /\ w[17] = c[1]
  <2>1. /\ 1 \in 1..2 /\ 2 \in 1..2 /\ 1 \in 1..1 /\ 15 \in 1..16 /\ 16 \in 1..16
        /\ 14 + 1 = 15 /\ 14 + 2 = 16 /\ 16 + 1 = 17
    OBVIOUS
  <2>2. v[14 + 1] = t[1] /\ v[14 + 2] = t[2]
    BY <1>4, <1>6, <2>1
  <2>3. w[15] = v[15] /\ w[16] = v[16] /\ w[16 + 1] = c[1]
    BY <1>5, <1>6, <2>1
  <2> QED
    BY <2>1, <2>2, <2>3
<1>11. HoldsBeginning(w, body)
  BY <1>1, <1>2, <1>3, <1>6, <1>9, <1>10 DEF HoldsBeginning
<1> QED
  BY <1>5, <1>7, <1>6, <1>11

LEMMA BeginningBefore ==
    ASSUME NEW u, NEW b, Starts(u, b), NEW body, HoldsBeginning(u, body)
    PROVE  HoldsBeginning(b, body)
<1>1. /\ u \in Seq(Nat) /\ b \in Seq(Nat) /\ Len(u) <= Len(b) /\ Len(u) >= 17
      /\ \A i \in 1..Len(u) : b[i] = u[i]
  BY DEF Starts, HoldsBeginning
<1>2. \A i \in 1..17 : b[i] = u[i]
  <2>1. \A i \in 1..17 : i \in 1..Len(u)
    BY <1>1
  <2> QED
    BY <1>1, <2>1
<1>3. /\ b[1] = u[1] /\ b[2] = u[2] /\ b[3] = u[3] /\ b[4] = u[4] /\ b[5] = u[5]
      /\ b[6] = u[6] /\ b[7] = u[7] /\ b[8] = u[8] /\ b[9] = u[9] /\ b[10] = u[10]
      /\ b[11] = u[11] /\ b[12] = u[12] /\ b[13] = u[13] /\ b[14] = u[14]
      /\ b[15] = u[15] /\ b[16] = u[16] /\ b[17] = u[17]
  BY <1>2
<1>4. Len(b) >= 17
  BY <1>1
<1> QED
  BY <1>3, <1>4 DEF HoldsBeginning

NameOf(body)    == IF body.name = None THEN <<>> ELSE body.name
ProfileAt(body) == NameAt + Len(NameOf(body)) + 1
ModulusAt(body) == ProfileAt(body) + Len(body.profile) + 1
BaseAt(body)    == ModulusAt(body) + Len(Digits[body.modulus]) + 1
WrappedAt(body) == BaseAt(body) + Len(Digits[body.base]) + 1

\* The cells of a passphrase, from `at` to the end.
HoldsPassword(b, at, pw) ==
    /\ at + 5 <= Len(b)
    /\ b[at] = KEY_PROTECTION_ALGORITHM_ID_TIMELOCK_PLUS_ARGON2ID_V1
    /\ b[at + 1] = PASSWORD_KDF_ALGORITHM_ID_ARGON2ID
    /\ b[at + 2] = pw.memory /\ b[at + 3] = pw.passes /\ b[at + 4] = pw.lanes
    /\ Holds(b, at + 5, pw.salt)
    /\ Len(b) = at + 5 + Len(pw.salt)

\* The cells are those of the body, and no more.
HoldsBody(b, body) ==
    /\ HoldsBeginning(b, body)
    /\ Holds(b, NameAt, NameOf(body)) /\ Holds(b, ProfileAt(body), body.profile)
    /\ Holds(b, ModulusAt(body), Digits[body.modulus])
    /\ Holds(b, BaseAt(body), Digits[body.base])
    /\ WrappedAt(body) <= Len(b) /\ b[WrappedAt(body)] = body.wrapped
    /\ IF body.password = None THEN Len(b) = WrappedAt(body)
       ELSE HoldsPassword(b, WrappedAt(body) + 1, body.password)

\* The types of the fields that are sequences, and of the places they are at.
LEMMA BodyTypes ==
    ASSUME NEW body \in Bodies
    PROVE  /\ NameOf(body) \in Seq(Nat) /\ body.profile \in Seq(Nat)
           /\ Digits[body.modulus] \in Seq(Nat) /\ Digits[body.base] \in Seq(Nat)
           /\ body.wrapped \in Nat /\ body.password \in Passwords \cup {None}
           /\ ProfileAt(body) \in Nat \ {0} /\ ModulusAt(body) \in Nat \ {0}
           /\ BaseAt(body) \in Nat \ {0} /\ WrappedAt(body) \in Nat \ {0}
<1>1. /\ body.name \in Seq(Nat) \cup {None} /\ body.profile \in Seq(Nat)
      /\ body.modulus \in Nat /\ body.base \in Nat
      /\ body.wrapped \in Nat /\ body.password \in Passwords \cup {None}
  BY DEF Bodies
<1>2. NameOf(body) \in Seq(Nat)
  BY <1>1 DEF NameOf
<1>3. Digits[body.modulus] \in Seq(Nat) /\ Digits[body.base] \in Seq(Nat)
  BY <1>1, NumberOfDigits
<1>4. /\ Len(NameOf(body)) \in Nat /\ Len(body.profile) \in Nat
      /\ Len(Digits[body.modulus]) \in Nat /\ Len(Digits[body.base]) \in Nat
  BY <1>1, <1>2, <1>3
<1>5. ProfileAt(body) \in Nat \ {0}
  BY <1>4 DEF ProfileAt, NameAt
<1>6. ModulusAt(body) \in Nat \ {0}
  BY <1>4, <1>5 DEF ModulusAt
<1>7. BaseAt(body) \in Nat \ {0}
  BY <1>4, <1>6 DEF BaseAt
<1>8. WrappedAt(body) \in Nat \ {0}
  BY <1>4, <1>7 DEF WrappedAt
<1> QED
  BY <1>1, <1>2, <1>3, <1>5, <1>6, <1>7, <1>8

LEMMA PasswordCellsAre ==
    ASSUME NEW u \in Seq(Nat), NEW pw \in Passwords
    PROVE  /\ PasswordCells(pw) \in Seq(Nat)
           /\ pw # None => HoldsPassword(u \o PasswordCells(pw), Len(u) + 1, pw)
<1>1. /\ pw.memory \in Nat /\ pw.passes \in Nat /\ pw.lanes \in Nat /\ pw.salt \in Seq(Nat)
  BY DEF Passwords
<1>2. CASE pw = None
  <2>1. PasswordCells(pw) = <<>>
    BY <1>2 DEF PasswordCells
  <2> QED
    BY <1>2, <2>1
<1>3. CASE pw # None
  <2>1. PICK c \in Seq(Nat) :
           /\ c = <<KEY_PROTECTION_ALGORITHM_ID_TIMELOCK_PLUS_ARGON2ID_V1,
                    PASSWORD_KDF_ALGORITHM_ID_ARGON2ID, pw.memory, pw.passes, pw.lanes>>
           /\ Len(c) = 5
           /\ c[1] = KEY_PROTECTION_ALGORITHM_ID_TIMELOCK_PLUS_ARGON2ID_V1
           /\ c[2] = PASSWORD_KDF_ALGORITHM_ID_ARGON2ID
           /\ c[3] = pw.memory /\ c[4] = pw.passes /\ c[5] = pw.lanes
    <3>1. <<2, 1, pw.memory, pw.passes, pw.lanes>> \in Seq(Nat)
      BY <1>1
    <3> QED
      BY <3>1 DEF KEY_PROTECTION_ALGORITHM_ID_TIMELOCK_PLUS_ARGON2ID_V1,
                  PASSWORD_KDF_ALGORITHM_ID_ARGON2ID
  <2>2. PICK p \in Seq(Nat) : p = Prefixed(pw.salt)
    BY <1>1, PrefixedIs
  <2>3. PasswordCells(pw) = c \o p
    BY <1>3, <2>1, <2>2 DEF PasswordCells
  <2>4. PICK v \in Seq(Nat) : /\ v = u \o c /\ Len(v) = Len(u) + Len(c)
                              /\ \A i \in 1..Len(c) : v[Len(u) + i] = c[i]
    <3>1. /\ u \o c \in Seq(Nat) /\ Len(u \o c) = Len(u) + Len(c)
          /\ \A i \in 1..Len(c) : (u \o c)[Len(u) + i] = c[i]
      BY Joined
    <3> QED
      BY <3>1, Zenon
  <2>5. PICK w \in Seq(Nat) : /\ w = v \o p
                              /\ Len(w) = Len(v) + Len(pw.salt) + 1
                              /\ Holds(w, Len(v) + 1, pw.salt)
    <3>1. /\ v \o Prefixed(pw.salt) \in Seq(Nat)
          /\ Len(v \o Prefixed(pw.salt)) = Len(v) + Len(pw.salt) + 1
          /\ Holds(v \o Prefixed(pw.salt), Len(v) + 1, pw.salt)
      BY <1>1, HoldsAtEnd, ZenonT(60)
    <3> QED
      BY <2>2, <3>1, Zenon
  <2>6. u \o (c \o p) = w
    <3>1. (u \o c) \o p = u \o (c \o p)
      BY JoinedThree
    <3> QED
      BY <2>4, <2>5, <3>1
  <2>7. Starts(v, w)
    BY <2>5, StartsJoined
  <2>8. Len(u) \in Nat /\ Len(v) = Len(u) + 5 /\ Len(pw.salt) \in Nat
    <3>1. \A s \in Seq(Nat) : Len(s) \in Nat
      OBVIOUS
    <3> QED
      BY <1>1, <2>1, <2>4, <3>1, Zenon
  <2>9. /\ w[Len(u) + 1] = c[1] /\ w[Len(u) + 2] = c[2] /\ w[Len(u) + 3] = c[3]
        /\ w[Len(u) + 4] = c[4] /\ w[Len(u) + 5] = c[5]
    <3>1. \A i \in 1..5 : Len(u) + i \in 1..Len(v)
      BY <2>8
    <3>2. \A i \in 1..5 : w[Len(u) + i] = v[Len(u) + i]
      BY <2>7, <3>1 DEF Starts
    <3>3. \A i \in 1..5 : v[Len(u) + i] = c[i]
      BY <2>1, <2>4
    <3> QED
      BY <3>2, <3>3
  <2>10. HoldsPassword(w, Len(u) + 1, pw)
    <3>1. /\ Len(u) + 1 + 1 = Len(u) + 2 /\ Len(u) + 1 + 2 = Len(u) + 3
          /\ Len(u) + 1 + 3 = Len(u) + 4 /\ Len(u) + 1 + 4 = Len(u) + 5
          /\ Len(u) + 1 + 5 = Len(v) + 1
      BY <2>8
    <3>2. Len(w) = Len(u) + 1 + 5 + Len(pw.salt)
      <4>1. Len(w) = Len(u) + 5 + Len(pw.salt) + 1
        BY <2>5, <2>8, Zenon
      <4>2. \A m, n \in Nat : m + 5 + n + 1 = m + 1 + 5 + n
        OBVIOUS
      <4> QED
        BY <2>8, <4>1, <4>2, Zenon
    <3>3. Len(u) + 1 + 5 <= Len(w)
      <4>1. \A m, n \in Nat : m + 1 + 5 <= m + 1 + 5 + n
        OBVIOUS
      <4> QED
        BY <2>8, <3>2, <4>1, Zenon
    <3> QED
      BY <2>1, <2>5, <2>9, <3>1, <3>2, <3>3 DEF HoldsPassword
  <2>11. c \o p \in Seq(Nat)
    OBVIOUS
  <2> QED
    BY <2>3, <2>6, <2>10, <2>11
<1> QED
  BY <1>2, <1>3

LEMMA EncodedHolds ==
    ASSUME NEW body \in Bodies
    PROVE  /\ encode_superblock_body(body) \in Seq(Nat)
           /\ HoldsBody(encode_superblock_body(body), body)
<1>1. /\ NameOf(body) \in Seq(Nat) /\ body.profile \in Seq(Nat)
      /\ Digits[body.modulus] \in Seq(Nat) /\ Digits[body.base] \in Seq(Nat)
      /\ body.wrapped \in Nat /\ body.password \in Passwords \cup {None}
      /\ ProfileAt(body) \in Nat \ {0} /\ ModulusAt(body) \in Nat \ {0}
      /\ BaseAt(body) \in Nat \ {0} /\ WrappedAt(body) \in Nat \ {0}
  BY BodyTypes
<1>2. PICK u \in Seq(Nat) : u = Beginning(body) /\ Len(u) = 17 /\ HoldsBeginning(u, body)
  BY BeginningIs
<1>3. PICK v \in Seq(Nat) : /\ v = u \o Prefixed(NameOf(body))
                            /\ Len(v) = Len(u) + Len(NameOf(body)) + 1
                            /\ Holds(v, Len(u) + 1, NameOf(body))
  BY <1>1, HoldsAtEnd
<1>4. PICK w \in Seq(Nat) : /\ w = v \o Prefixed(body.profile)
                            /\ Len(w) = Len(v) + Len(body.profile) + 1
                            /\ Holds(w, Len(v) + 1, body.profile)
  BY <1>1, HoldsAtEnd
<1>5. PICK x \in Seq(Nat) : /\ x = w \o Prefixed(Digits[body.modulus])
                            /\ Len(x) = Len(w) + Len(Digits[body.modulus]) + 1
                            /\ Holds(x, Len(w) + 1, Digits[body.modulus])
  BY <1>1, HoldsAtEnd
<1>6. PICK y \in Seq(Nat) : /\ y = x \o Prefixed(Digits[body.base])
                            /\ Len(y) = Len(x) + Len(Digits[body.base]) + 1
                            /\ Holds(y, Len(x) + 1, Digits[body.base])
  BY <1>1, HoldsAtEnd
<1>7. PICK c \in Seq(Nat) : c = <<body.wrapped>> /\ Len(c) = 1 /\ c[1] = body.wrapped
  <2>1. <<body.wrapped>> \in Seq(Nat)
    BY <1>1, OneDigit
  <2>2. Len(<<body.wrapped>>) = 1 /\ <<body.wrapped>>[1] = body.wrapped
    OBVIOUS
  <2> QED
    BY <2>1, <2>2
<1>8. PICK z \in Seq(Nat) : /\ z = y \o c /\ Len(z) = Len(y) + Len(c)
                            /\ \A i \in 1..Len(c) : z[Len(y) + i] = c[i]
  <2>1. /\ y \o c \in Seq(Nat) /\ Len(y \o c) = Len(y) + Len(c)
        /\ \A i \in 1..Len(c) : (y \o c)[Len(y) + i] = c[i]
    BY Joined
  <2> QED
    BY <2>1
<1>9. PICK b \in Seq(Nat) : /\ b = z \o PasswordCells(body.password)
                            /\ Starts(z, b)
                            /\ IF body.password = None THEN b = z
                               ELSE HoldsPassword(b, Len(z) + 1, body.password)
  <2>1. CASE body.password = None
    <3>1. PasswordCells(body.password) = <<>> /\ <<>> \in Seq(Nat)
      BY <2>1 DEF PasswordCells
    <3>2. z \o <<>> = z
      OBVIOUS
    <3>3. Starts(z, z \o <<>>)
      BY <3>1, StartsJoined
    <3> QED
      BY <2>1, <3>1, <3>2, <3>3
  <2>2. CASE body.password # None
    <3>1. body.password \in Passwords
      BY <1>1, <2>2
    <3>2. /\ PasswordCells(body.password) \in Seq(Nat)
          /\ HoldsPassword(z \o PasswordCells(body.password), Len(z) + 1, body.password)
      BY <2>2, <3>1, PasswordCellsAre
    <3>3. Starts(z, z \o PasswordCells(body.password))
      BY <3>2, StartsJoined
    <3>4. z \o PasswordCells(body.password) \in Seq(Nat)
      BY <3>2
    <3> QED
      BY <2>2, <3>2, <3>3, <3>4
  <2> QED
    BY <2>1, <2>2
<1>10. encode_superblock_body(body) = b
  BY <1>2, <1>3, <1>4, <1>5, <1>6, <1>7, <1>8, <1>9, ZenonT(60)
     DEF encode_superblock_body, Beginning, NameOf
<1>11. Starts(u, v) /\ Starts(v, w) /\ Starts(w, x) /\ Starts(x, y) /\ Starts(y, z)
  <2>1. /\ Prefixed(NameOf(body)) \in Seq(Nat) /\ Prefixed(body.profile) \in Seq(Nat)
        /\ Prefixed(Digits[body.modulus]) \in Seq(Nat)
        /\ Prefixed(Digits[body.base]) \in Seq(Nat)
    BY <1>1, PrefixedIs
  <2> QED
    BY <1>3, <1>4, <1>5, <1>6, <1>8, <2>1, StartsJoined
<1>12. Starts(y, b) /\ Starts(x, b) /\ Starts(w, b) /\ Starts(v, b) /\ Starts(u, b)
  BY <1>9, <1>11, StartsTransitive
<1>13. /\ Len(u) + 1 = NameAt /\ Len(v) + 1 = ProfileAt(body) /\ Len(w) + 1 = ModulusAt(body)
       /\ Len(x) + 1 = BaseAt(body) /\ Len(z) = WrappedAt(body) /\ Len(y) + 1 = Len(z)
  <2>1. PICK n \in Nat, p \in Nat, m \in Nat, a \in Nat :
           /\ n = Len(NameOf(body)) /\ p = Len(body.profile)
           /\ m = Len(Digits[body.modulus]) /\ a = Len(Digits[body.base])
    <3>1. \A s \in Seq(Nat) : Len(s) \in Nat
      OBVIOUS
    <3> QED
      BY <1>1, <3>1, Zenon
  <2>2. Len(u) + 1 = NameAt /\ NameAt = 18
    BY <1>2 DEF NameAt
  <2>3. Len(v) = 18 + n /\ ProfileAt(body) = 18 + n + 1
    BY <1>2, <1>3, <2>1 DEF ProfileAt, NameAt
  <2>4. Len(w) = 18 + n + p + 1 /\ ModulusAt(body) = 18 + n + 1 + p + 1
    BY <1>4, <2>1, <2>3 DEF ModulusAt
  <2>5. Len(x) = 18 + n + p + m + 2 /\ BaseAt(body) = 18 + n + p + m + 3
    <3>1. Len(x) = 18 + n + p + 1 + m + 1 /\ BaseAt(body) = 18 + n + 1 + p + 1 + m + 1
      BY <1>5, <2>1, <2>4, Zenon DEF BaseAt
    <3> QED
      BY <3>1
  <2>6. Len(y) = 18 + n + p + m + a + 3 /\ WrappedAt(body) = 18 + n + p + m + a + 4
    <3>1. /\ Len(y) = 18 + n + p + m + 2 + a + 1
          /\ WrappedAt(body) = 18 + n + p + m + 3 + a + 1
      BY <1>6, <2>1, <2>5, Zenon DEF WrappedAt
    <3> QED
      BY <3>1
  <2>7. Len(z) = Len(y) + 1
    BY <1>7, <1>8
  <2> QED
    BY <2>2, <2>3, <2>4, <2>5, <2>6, <2>7
<1>14. HoldsBeginning(b, body)
  BY <1>2, <1>12, BeginningBefore
<1>15. /\ Holds(b, NameAt, NameOf(body)) /\ Holds(b, ProfileAt(body), body.profile)
       /\ Holds(b, ModulusAt(body), Digits[body.modulus])
       /\ Holds(b, BaseAt(body), Digits[body.base])
  <2>1. NameAt \in Nat
    BY DEF NameAt
  <2>2. Holds(b, NameAt, NameOf(body))
    BY <1>1, <1>3, <1>12, <1>13, <2>1, HoldsBefore
  <2>3. Holds(b, ProfileAt(body), body.profile)
    <3>1. Holds(w, ProfileAt(body), body.profile)
      BY <1>4, <1>13
    <3> QED
      BY <1>1, <1>12, <3>1, HoldsBefore
  <2>4. Holds(b, ModulusAt(body), Digits[body.modulus])
    <3>1. Holds(x, ModulusAt(body), Digits[body.modulus])
      BY <1>5, <1>13
    <3> QED
      BY <1>1, <1>12, <3>1, HoldsBefore
  <2>5. Holds(b, BaseAt(body), Digits[body.base])
    <3>1. Holds(y, BaseAt(body), Digits[body.base])
      BY <1>6, <1>13
    <3> QED
      BY <1>1, <1>12, <3>1, HoldsBefore
  <2> QED
    BY <2>2, <2>3, <2>4, <2>5
<1>16. WrappedAt(body) <= Len(b) /\ b[WrappedAt(body)] = body.wrapped
  <2>1. 1 \in 1..Len(c) /\ z[Len(y) + 1] = c[1]
    BY <1>7, <1>8
  <2>2. Len(z) \in 1..Len(z) /\ Len(z) <= Len(b) /\ b[Len(z)] = z[Len(z)]
    <3>1. Len(z) \in 1..Len(z)
      <4>1. Len(z) \in Nat \ {0}
        BY <1>1, <1>13, Zenon
      <4> QED
        BY <4>1
    <3>2. Len(z) <= Len(b) /\ \A i \in 1..Len(z) : b[i] = z[i]
      BY <1>9 DEF Starts
    <3> QED
      BY <3>1, <3>2
  <2> QED
    BY <1>7, <1>13, <2>1, <2>2
<1>17. IF body.password = None THEN Len(b) = WrappedAt(body)
       ELSE HoldsPassword(b, WrappedAt(body) + 1, body.password)
  BY <1>9, <1>13
<1> QED
  BY <1>10, <1>14, <1>15, <1>16, <1>17 DEF HoldsBody

-------------------------------------------------------------------------------
(* The body of a superblock, decoded: the names the definition gives.        *)

NameIn(b)    == Field(b, NameAt)
ProfileIn(b) == Field(b, NameIn(b).next)
ModulusIn(b) == Field(b, ProfileIn(b).next)
BaseIn(b)    == Field(b, ModulusIn(b).next)
AfterKey(b)  == BaseIn(b).next + 1
Protected(b) == b[1] = BODY_VERSION_V2

BodyIn(b) ==
    [version |-> b[1], flags |-> b[2], plaintext |-> b[3], stream |-> b[4],
     region |-> b[5], chunk |-> b[6], aead |-> b[7], rs |-> b[8], data |-> b[9],
     parity |-> b[10], shard |-> b[11], algorithm |-> b[12],
     iterations |-> b[13], bits |-> b[14],
     target |-> IF b[PresentAt] = 1 THEN b[TargetAt] ELSE None,
     created |-> b[CreatedAt],
     name |-> IF NameIn(b).data = <<>> THEN None ELSE NameIn(b).data,
     profile |-> ProfileIn(b).data,
     modulus |-> Number(ModulusIn(b).data), base |-> Number(BaseIn(b).data),
     wrapped |-> b[BaseIn(b).next],
     password |-> IF Protected(b) THEN PasswordAt(b, AfterKey(b)) ELSE None]

EndOf(b) == IF Protected(b) THEN Field(b, AfterKey(b) + 5).next ELSE AfterKey(b)

Readable(b) ==
    /\ NameIn(b).ok /\ ProfileIn(b).ok /\ ModulusIn(b).ok /\ BaseIn(b).ok
    /\ BaseIn(b).next <= Len(b)
    /\ b[PresentAt] \in {0, 1}
    /\ IsUtf8(NameIn(b).data) /\ IsUtf8(ProfileIn(b).data)
    /\ ModulusIn(b).data # <<>> /\ BaseIn(b).data # <<>>
    /\ Protected(b) => HasPassword(b, AfterKey(b))
    /\ EndsAt(b, EndOf(b))
    /\ Validates(BodyIn(b))

LEMMA DecodeIs ==
    ASSUME NEW b
    PROVE  decode_superblock_body(b) = IF Readable(b) THEN BodyIn(b) ELSE NoBody
BY Zenon DEF decode_superblock_body, Readable, BodyIn, EndOf, Protected, AfterKey, BaseIn,
             ModulusIn, ProfileIn, NameIn

LEMMA BodyRecord ==
    ASSUME NEW body \in Bodies
    PROVE  body =
        [version |-> body.version, flags |-> body.flags, plaintext |-> body.plaintext,
         stream |-> body.stream, region |-> body.region, chunk |-> body.chunk,
         aead |-> body.aead, rs |-> body.rs, data |-> body.data, parity |-> body.parity,
         shard |-> body.shard, algorithm |-> body.algorithm, iterations |-> body.iterations,
         bits |-> body.bits, target |-> body.target, created |-> body.created,
         name |-> body.name, profile |-> body.profile, modulus |-> body.modulus,
         base |-> body.base, wrapped |-> body.wrapped, password |-> body.password]
BY DEF Bodies

LEMMA NothingIsUtf8 ==
    IsUtf8(<<>>)
BY DEF IsUtf8, ToSet

\* A passphrase's cells are read back.
LEMMA PasswordRead ==
    ASSUME NEW b \in Seq(Nat), NEW at \in Nat \ {0}, NEW pw \in Passwords,
           HoldsPassword(b, at, pw), ParamsAreValid(pw)
    PROVE  /\ HasPassword(b, at) /\ PasswordAt(b, at) = pw
           /\ EndsAt(b, Field(b, at + 5).next)
<1>1. /\ pw.memory \in Nat /\ pw.passes \in Nat /\ pw.lanes \in Nat /\ pw.salt \in Seq(Nat)
      /\ pw = [memory |-> pw.memory, passes |-> pw.passes, lanes |-> pw.lanes,
               salt |-> pw.salt]
  BY DEF Passwords
<1>2. /\ at + 5 <= Len(b)
      /\ b[at] = KEY_PROTECTION_ALGORITHM_ID_TIMELOCK_PLUS_ARGON2ID_V1
      /\ b[at + 1] = PASSWORD_KDF_ALGORITHM_ID_ARGON2ID
      /\ b[at + 2] = pw.memory /\ b[at + 3] = pw.passes /\ b[at + 4] = pw.lanes
      /\ Holds(b, at + 5, pw.salt) /\ Len(b) = at + 5 + Len(pw.salt)
  BY DEF HoldsPassword
<1>3. at + 5 \in Nat
  OBVIOUS
<1>4. /\ Field(b, at + 5).ok /\ Field(b, at + 5).data = pw.salt
      /\ Field(b, at + 5).next = at + 5 + Len(pw.salt) + 1
  BY <1>1, <1>2, <1>3, FieldRead
<1>5. b[at + 5] = Len(pw.salt) /\ pw.salt # <<>>
  BY <1>2 DEF Holds, ParamsAreValid
<1>6. Len(pw.salt) > 0
  BY <1>1, <1>5
<1>7. HasPassword(b, at)
  BY <1>2, <1>4, <1>5, <1>6 DEF HasPassword, ParamsAreValid
<1>8. PasswordAt(b, at) = pw
  BY <1>1, <1>2, <1>4, Zenon DEF PasswordAt
<1>9. EndsAt(b, Field(b, at + 5).next)
  BY <1>2, <1>4 DEF EndsAt
<1> QED
  BY <1>7, <1>8, <1>9

LEMMA HoldsDecodes ==
    ASSUME NEW b \in Seq(Nat), NEW body \in Bodies,
           HoldsBody(b, body), Validates(body), Proper(body)
    PROVE  decode_superblock_body(b) = body
<1>1. /\ NameOf(body) \in Seq(Nat) /\ body.profile \in Seq(Nat)
      /\ Digits[body.modulus] \in Seq(Nat) /\ Digits[body.base] \in Seq(Nat)
      /\ body.wrapped \in Nat /\ body.password \in Passwords \cup {None}
      /\ ProfileAt(body) \in Nat /\ ModulusAt(body) \in Nat
      /\ BaseAt(body) \in Nat /\ WrappedAt(body) \in Nat \ {0}
  BY BodyTypes
<1>2. /\ body.modulus \in Nat /\ body.base \in Nat
      /\ body.target \in Nat \cup {None}
  BY DEF Bodies
<1>3. /\ Len(b) >= 17
      /\ b[1] = body.version /\ b[2] = body.flags /\ b[3] = body.plaintext
      /\ b[4] = body.stream /\ b[5] = body.region /\ b[6] = body.chunk /\ b[7] = body.aead
      /\ b[8] = body.rs /\ b[9] = body.data /\ b[10] = body.parity /\ b[11] = body.shard
      /\ b[12] = body.algorithm /\ b[13] = body.iterations /\ b[14] = body.bits
      /\ b[15] = (IF body.target = None THEN 0 ELSE 1)
      /\ b[16] = (IF body.target = None THEN 0 ELSE body.target)
      /\ b[17] = body.created
  BY DEF HoldsBody, HoldsBeginning
<1>4. /\ NameIn(b).ok /\ NameIn(b).data = NameOf(body) /\ NameIn(b).next = ProfileAt(body)
  <2>1. NameAt \in Nat /\ Holds(b, NameAt, NameOf(body))
    BY DEF HoldsBody, NameAt
  <2> QED
    BY <1>1, <2>1, FieldRead DEF NameIn, ProfileAt
<1>5. /\ ProfileIn(b).ok /\ ProfileIn(b).data = body.profile
      /\ ProfileIn(b).next = ModulusAt(body)
  <2>1. PICK at \in Nat, w \in Seq(Nat) : at = ProfileAt(body) /\ w = body.profile
    BY <1>1, Zenon
  <2>2. Holds(b, at, w)
    BY <2>1 DEF HoldsBody
  <2>3. Field(b, at).ok /\ Field(b, at).data = w /\ Field(b, at).next = at + Len(w) + 1
    BY <2>2, FieldRead
  <2> QED
    BY <1>4, <2>1, <2>3, ZenonT(30) DEF ProfileIn, ModulusAt
<1>6. /\ ModulusIn(b).ok /\ ModulusIn(b).data = Digits[body.modulus]
      /\ ModulusIn(b).next = BaseAt(body)
  <2>1. PICK at \in Nat, w \in Seq(Nat) : at = ModulusAt(body) /\ w = Digits[body.modulus]
    BY <1>1, Zenon
  <2>2. Holds(b, at, w)
    BY <2>1 DEF HoldsBody
  <2>3. Field(b, at).ok /\ Field(b, at).data = w /\ Field(b, at).next = at + Len(w) + 1
    BY <2>2, FieldRead
  <2> QED
    BY <1>5, <2>1, <2>3, ZenonT(30) DEF ModulusIn, BaseAt
<1>7. /\ BaseIn(b).ok /\ BaseIn(b).data = Digits[body.base]
      /\ BaseIn(b).next = WrappedAt(body)
  <2>1. PICK at \in Nat, w \in Seq(Nat) : at = BaseAt(body) /\ w = Digits[body.base]
    BY <1>1, Zenon
  <2>2. Holds(b, at, w)
    BY <2>1 DEF HoldsBody
  <2>3. Field(b, at).ok /\ Field(b, at).data = w /\ Field(b, at).next = at + Len(w) + 1
    BY <2>2, FieldRead
  <2> QED
    BY <1>6, <2>1, <2>3, ZenonT(30) DEF BaseIn, WrappedAt
<1>8. /\ WrappedAt(body) <= Len(b) /\ b[WrappedAt(body)] = body.wrapped
      /\ IF body.password = None THEN Len(b) = WrappedAt(body)
         ELSE HoldsPassword(b, WrappedAt(body) + 1, body.password)
  BY DEF HoldsBody
<1>9. Protected(b) <=> body.password # None
  <2>1. body.version \in {1, 2} /\ (body.version = 1 <=> body.password = None)
    BY DEF Validates, BODY_VERSION_V1, BODY_VERSION_V2
  <2>2. Protected(b) <=> body.version = 2
    BY <1>3 DEF Protected, BODY_VERSION_V2
  <2> QED
    BY <2>1, <2>2
<1>10. AfterKey(b) = WrappedAt(body) + 1
  BY <1>7 DEF AfterKey
<1>11. /\ Protected(b) => HasPassword(b, AfterKey(b))
       /\ EndsAt(b, EndOf(b))
       /\ (IF Protected(b) THEN PasswordAt(b, AfterKey(b)) ELSE None) = body.password
  <2>1. CASE body.password = None
    <3>1. EndOf(b) = Len(b) + 1
      BY <1>8, <1>9, <1>10, <2>1 DEF EndOf
    <3> QED
      BY <1>9, <2>1, <3>1 DEF EndsAt
  <2>2. CASE body.password # None
    <3>1. body.password \in Passwords /\ ParamsAreValid(body.password)
      BY <1>1, <2>2, Zenon DEF Validates
    <3>2. AfterKey(b) \in Nat \ {0} /\ HoldsPassword(b, AfterKey(b), body.password)
      <4>1. WrappedAt(body) + 1 \in Nat \ {0}
        BY <1>1
      <4> QED
        BY <1>8, <1>10, <2>2, <4>1, Zenon
    <3>3. /\ HasPassword(b, AfterKey(b)) /\ PasswordAt(b, AfterKey(b)) = body.password
          /\ EndsAt(b, Field(b, AfterKey(b) + 5).next)
      BY <3>1, <3>2, PasswordRead
    <3> QED
      BY <1>9, <2>2, <3>3 DEF EndOf
  <2> QED
    BY <2>1, <2>2
<1>12. /\ (IF b[PresentAt] = 1 THEN b[TargetAt] ELSE None) = body.target
       /\ b[PresentAt] \in {0, 1} /\ b[CreatedAt] = body.created
  <2>1. PresentAt = 15 /\ TargetAt = 16 /\ CreatedAt = 17
    BY DEF PresentAt, TargetAt, CreatedAt
  <2>2. /\ b[PresentAt] = (IF body.target = None THEN 0 ELSE 1)
        /\ b[TargetAt] = (IF body.target = None THEN 0 ELSE body.target)
        /\ b[CreatedAt] = body.created
    BY <1>3, <2>1, Zenon
  <2>3. CASE body.target = None
    <3>1. b[PresentAt] = 0
      BY <2>2, <2>3
    <3> QED
      BY <2>2, <2>3, <3>1
  <2>4. CASE body.target # None
    <3>1. b[PresentAt] = 1 /\ b[TargetAt] = body.target
      BY <2>2, <2>4
    <3> QED
      BY <2>2, <3>1
  <2> QED
    BY <2>3, <2>4
<1>13. (IF NameIn(b).data = <<>> THEN None ELSE NameIn(b).data) = body.name
  BY <1>4 DEF NameOf, Proper
<1>14. /\ Number(ModulusIn(b).data) = body.modulus /\ Number(BaseIn(b).data) = body.base
       /\ ModulusIn(b).data # <<>> /\ BaseIn(b).data # <<>>
  BY <1>2, <1>6, <1>7, NumberOfDigits
<1>15. BodyIn(b) = body
  <2>1. b[BaseIn(b).next] = body.wrapped
    BY <1>7, <1>8
  <2> QED
    <3>1. BodyIn(b) =
            [version |-> body.version, flags |-> body.flags, plaintext |-> body.plaintext,
             stream |-> body.stream, region |-> body.region, chunk |-> body.chunk,
             aead |-> body.aead, rs |-> body.rs, data |-> body.data, parity |-> body.parity,
             shard |-> body.shard, algorithm |-> body.algorithm, iterations |-> body.iterations,
             bits |-> body.bits, target |-> body.target, created |-> body.created,
             name |-> body.name, profile |-> body.profile, modulus |-> body.modulus,
             base |-> body.base, wrapped |-> body.wrapped, password |-> body.password]
      BY <1>3, <1>5, <1>11, <1>12, <1>13, <1>14, <2>1 DEF BodyIn
    <3> QED
      BY <3>1, BodyRecord, Zenon
<1>16. IsUtf8(NameIn(b).data) /\ IsUtf8(ProfileIn(b).data)
  BY <1>4, <1>5, NothingIsUtf8 DEF NameOf, Proper
<1>17. BaseIn(b).next <= Len(b)
  BY <1>7, <1>8
<1>18. Readable(b)
  BY <1>4, <1>5, <1>6, <1>7, <1>11, <1>12, <1>14, <1>15, <1>16, <1>17 DEF Readable
<1> QED
  BY <1>15, <1>18, DecodeIs

\* What is written is read back: every valid body, with or without a target, a
\* name and a passphrase (superblock_body.rs:71 and 97).
THEOREM EncodeDecode ==
    ASSUME NEW body \in Bodies, Validates(body), Proper(body)
    PROVE  /\ encode_superblock_body(body) \in Seq(Nat)
           /\ decode_superblock_body(encode_superblock_body(body)) = body
BY EncodedHolds, HoldsDecodes

\* What is read is a valid body, so that no two of them are written alike.
LEMMA DecodedIsProper ==
    ASSUME NEW b \in Seq(Nat), decode_superblock_body(b) # NoBody
    PROVE  /\ decode_superblock_body(b) \in Bodies
           /\ Validates(decode_superblock_body(b)) /\ Proper(decode_superblock_body(b))
<1>1. Readable(b) /\ decode_superblock_body(b) = BodyIn(b)
  BY DecodeIs
<1>2. NameAt \in Nat \ {0}
  BY DEF NameAt
<1>3. /\ NameIn(b).data \in Seq(Nat) /\ NameIn(b).next \in Nat \ {0}
      /\ NameIn(b).next = NameAt + Len(NameIn(b).data) + 1 /\ NameIn(b).next <= Len(b) + 1
  BY <1>1, <1>2, FieldHeld DEF NameIn, Readable
<1>4. ProfileIn(b).data \in Seq(Nat) /\ ProfileIn(b).next \in Nat \ {0}
  BY <1>3, FieldHeld DEF ProfileIn
<1>5. ModulusIn(b).data \in Seq(Nat) /\ ModulusIn(b).next \in Nat \ {0}
  BY <1>4, FieldHeld DEF ModulusIn
<1>6. BaseIn(b).data \in Seq(Nat) /\ BaseIn(b).next \in Nat \ {0}
  BY <1>5, FieldHeld DEF BaseIn
<1>7. Number(ModulusIn(b).data) \in Nat /\ Number(BaseIn(b).data) \in Nat
  BY <1>5, <1>6, NumberIsNat
<1>8. /\ b[1] \in Nat /\ b[2] \in Nat /\ b[3] \in Nat /\ b[4] \in Nat /\ b[5] \in Nat
      /\ b[6] \in Nat /\ b[7] \in Nat /\ b[8] \in Nat /\ b[9] \in Nat /\ b[10] \in Nat
      /\ b[11] \in Nat /\ b[12] \in Nat /\ b[13] \in Nat /\ b[14] \in Nat
      /\ b[TargetAt] \in Nat /\ b[CreatedAt] \in Nat
  <2>1. Len(b) \in Nat /\ Len(b) >= 17
    <3>1. Len(b) \in Nat /\ Len(NameIn(b).data) \in Nat
      BY <1>3
    <3> QED
      BY <1>3, <3>1 DEF NameAt
  <2>2. \A i \in 1..17 : i \in 1..Len(b)
    BY <2>1
  <2>3. \A i \in 1..17 : b[i] \in Nat
    <3>1. \A i \in 1..Len(b) : b[i] \in Nat
      OBVIOUS
    <3> QED
      BY <2>2, <3>1
  <2> QED
    BY <2>3 DEF TargetAt, CreatedAt
<1>9. b[BaseIn(b).next] \in Nat
  <2>1. BaseIn(b).next \in 1..Len(b)
    BY <1>1, <1>6 DEF Readable
  <2> QED
    BY <2>1
<1>10. (IF Protected(b) THEN PasswordAt(b, AfterKey(b)) ELSE None) \in Passwords \cup {None}
  <2> SUFFICES ASSUME Protected(b) PROVE PasswordAt(b, AfterKey(b)) \in Passwords
    OBVIOUS
  <2>1. PICK a \in Nat \ {0} : a = AfterKey(b)
    BY <1>6 DEF AfterKey
  <2>2. a + 5 <= Len(b)
    BY <1>1, <2>1 DEF Readable, HasPassword
  <2>3. a + 2 \in 1..Len(b) /\ a + 3 \in 1..Len(b) /\ a + 4 \in 1..Len(b) /\ a + 5 \in Nat \ {0}
    BY <2>2
  <2>4. b[a + 2] \in Nat /\ b[a + 3] \in Nat /\ b[a + 4] \in Nat
    BY <2>3
  <2>5. Field(b, a + 5).data \in Seq(Nat)
    BY <2>3, FieldHeld
  <2>6. PasswordAt(b, a) \in Passwords
    BY <2>4, <2>5 DEF PasswordAt, Passwords
  <2> QED
    BY <2>1, <2>6
<1>11. /\ (IF b[PresentAt] = 1 THEN b[TargetAt] ELSE None) \in Nat \cup {None}
       /\ (IF NameIn(b).data = <<>> THEN None ELSE NameIn(b).data) \in Seq(Nat) \cup {None}
  BY <1>3, <1>8
<1>12. BodyIn(b) \in Bodies
  BY <1>4, <1>7, <1>8, <1>9, <1>10, <1>11 DEF BodyIn, Bodies
<1>13. Proper(BodyIn(b))
  <2>1. /\ BodyIn(b).name = (IF NameIn(b).data = <<>> THEN None ELSE NameIn(b).data)
        /\ BodyIn(b).profile = ProfileIn(b).data
    BY DEF BodyIn
  <2> QED
    BY <1>1, <2>1 DEF Proper, Readable
<1> QED
  BY <1>1, <1>12, <1>13 DEF Readable

-------------------------------------------------------------------------------
(* A body that was cut short.                                                *)

\* A field that can be read of the first cells is the same in all of them.
LEMMA FieldSame ==
    ASSUME NEW a, NEW b, Starts(a, b), NEW at \in Nat \ {0}, Field(a, at).ok
    PROVE  /\ Field(b, at).ok /\ Field(b, at).data = Field(a, at).data
           /\ Field(b, at).next = Field(a, at).next
           /\ Field(a, at).next \in Nat \ {0} /\ Field(a, at).next <= Len(a) + 1
           /\ at <= Len(a)
<1>1. a \in Seq(Nat) /\ b \in Seq(Nat)
  BY DEF Starts
<1>2. PICK s \in Seq(Nat) : s = Field(a, at).data
  BY <1>1, FieldHeld
<1>3. /\ Holds(a, at, s) /\ Field(a, at).next = at + Len(s) + 1
      /\ Field(a, at).next \in Nat \ {0} /\ Field(a, at).next <= Len(a) + 1
  BY <1>1, <1>2, FieldHeld
<1>4. Holds(b, at, s)
  BY <1>2, <1>3, HoldsBefore
<1>5. Field(b, at).ok /\ Field(b, at).data = s /\ Field(b, at).next = at + Len(s) + 1
  BY <1>1, <1>4, FieldRead
<1>6. at <= Len(a)
  BY <1>3 DEF Holds
<1> QED
  BY <1>2, <1>3, <1>5, <1>6

\* Where a body ends is said by its own cells.
LEMMA EndsOnce ==
    ASSUME NEW a, NEW b, Starts(a, b), Readable(a), Readable(b)
    PROVE  Len(a) = Len(b)
<1>1. /\ a \in Seq(Nat) /\ b \in Seq(Nat) /\ Len(a) \in Nat /\ Len(b) \in Nat
      /\ \A i \in 1..Len(a) : b[i] = a[i]
  BY DEF Starts
<1>2. NameAt \in Nat \ {0} /\ 1 <= NameAt
  BY DEF NameAt
<1>3. /\ NameIn(b).next = NameIn(a).next /\ NameIn(a).next \in Nat \ {0}
      /\ NameAt <= Len(a)
  BY <1>2, FieldSame DEF NameIn, Readable
<1>4. ProfileIn(b).next = ProfileIn(a).next /\ ProfileIn(a).next \in Nat \ {0}
  BY <1>3, FieldSame DEF ProfileIn, Readable
<1>5. ModulusIn(b).next = ModulusIn(a).next /\ ModulusIn(a).next \in Nat \ {0}
  BY <1>4, FieldSame DEF ModulusIn, Readable
<1>6. BaseIn(b).next = BaseIn(a).next /\ BaseIn(a).next \in Nat \ {0}
  BY <1>5, FieldSame DEF BaseIn, Readable
<1>7. AfterKey(b) = AfterKey(a) /\ AfterKey(a) \in Nat \ {0}
  BY <1>6 DEF AfterKey
<1>8. Protected(b) <=> Protected(a)
  <2>1. 1 \in 1..Len(a)
    BY <1>1, <1>2, <1>3
  <2>2. b[1] = a[1]
    BY <1>1, <2>1
  <2> QED
    BY <2>2 DEF Protected
<1>9. EndOf(b) = EndOf(a)
  <2>1. CASE ~Protected(a)
    BY <1>7, <1>8, <2>1 DEF EndOf
  <2>2. CASE Protected(a)
    <3>1. Field(a, AfterKey(a) + 5).ok /\ AfterKey(a) + 5 \in Nat \ {0}
      <4>1. HasPassword(a, AfterKey(a))
        BY <2>2 DEF Readable
      <4>2. Field(a, AfterKey(a) + 5).ok
        BY <4>1 DEF HasPassword
      <4> QED
        BY <1>7, <4>2
    <3>2. Field(b, AfterKey(a) + 5).next = Field(a, AfterKey(a) + 5).next
      BY <3>1, FieldSame
    <3> QED
      BY <1>7, <1>8, <2>2, <3>2 DEF EndOf
  <2> QED
    BY <2>1, <2>2
<1>10. EndOf(a) = Len(a) + 1 /\ EndOf(b) = Len(b) + 1
  BY DEF Readable, EndsAt
<1> QED
  BY <1>1, <1>9, <1>10

LEMMA CutStarts ==
    ASSUME NEW b \in Seq(Nat), NEW k \in Nat, k <= Len(b)
    PROVE  Starts(SubSeq(b, 1, k), b) /\ Len(SubSeq(b, 1, k)) = k
<1>1. /\ SubSeq(b, 0 + 1, 0 + k) \in Seq(Nat) /\ Len(SubSeq(b, 0 + 1, 0 + k)) = k
      /\ \A i \in 1..k : SubSeq(b, 0 + 1, 0 + k)[i] = b[0 + i]
  <2>1. 0 \in Nat /\ 0 + k <= Len(b)
    OBVIOUS
  <2> QED
    BY <2>1, Part
<1>2. 0 + 1 = 1 /\ 0 + k = k /\ \A i \in 1..k : 0 + i = i
  OBVIOUS
<1>3. /\ SubSeq(b, 1, k) \in Seq(Nat) /\ Len(SubSeq(b, 1, k)) = k
      /\ \A i \in 1..k : SubSeq(b, 1, k)[i] = b[i]
  BY <1>1, <1>2
<1> QED
  BY <1>3 DEF Starts

\* No beginning of a body is a body but the whole of it.
LEMMA NoBeginning ==
    ASSUME NEW b \in Seq(Nat), decode_superblock_body(b) # NoBody,
           NEW k \in Nat, k < Len(b)
    PROVE  decode_superblock_body(SubSeq(b, 1, k)) = NoBody
<1>1. Readable(b)
  BY DecodeIs
<1>2. PICK a : a = SubSeq(b, 1, k) /\ Starts(a, b) /\ Len(a) = k
  <2>1. k <= Len(b)
    OBVIOUS
  <2> QED
    BY <2>1, CutStarts
<1>3. ~Readable(a)
  <2>1. Len(a) # Len(b)
    BY <1>2
  <2> QED
    BY <1>1, <1>2, <2>1, EndsOnce
<1> QED
  BY <1>2, <1>3, DecodeIs

-------------------------------------------------------------------------------
(* The wrapped key.                                                          *)

LEMMA IntegerRemainder ==
    ASSUME NEW a \in Int, NEW n \in Nat \ {0}
    PROVE  a % n \in 0..(n - 1) /\ Same(a % n, a, n)
<1>1. a \div n \in Int /\ a % n \in 0..(n - 1) /\ a = n * (a \div n) + (a % n)
  OBVIOUS
<1>2. PICK q \in Int, r \in 0..(n - 1) : q = a \div n /\ r = a % n /\ a = n * q + r
  BY <1>1
<1>3. r = a + n * (-q) /\ -q \in Int
  BY <1>2
<1> QED
  BY <1>2, <1>3 DEF Same

\* Two numbers below n that are the same are equal.
LEMMA SameSmall ==
    ASSUME NEW n \in Nat \ {0}, NEW a \in 0..(n - 1), NEW b \in 0..(n - 1), Same(a, b, n)
    PROVE  a = b
<1>1. a \in Nat /\ b \in Nat /\ a < n /\ b < n
  OBVIOUS
<1>2. a % n = a /\ b % n = b
  BY <1>1, SmallRemainder
<1> QED
  BY <1>1, <1>2, SameRemainder

\* A key comes back out of its wrapping for the same mask, and for no other.
LEMMA UnwrapWrap ==
    ASSUME NEW key \in 0..(KeySpace - 1), NEW v \in Nat, NEW w \in Nat
    PROVE  /\ Wrap(key, v) \in Nat
           /\ Unwrap(Wrap(key, v), w) = key <=> Same(v, w, KeySpace)
<1>1. PICK n \in Nat \ {0} : n = KeySpace
  BY TimelockAssumption
<1>2. key \in Int /\ key \in 0..(n - 1)
  BY <1>1
<1>3. PICK x \in 0..(n - 1) : x = Wrap(key, v) /\ Same(x, key + v, n)
  <2>1. key + v \in Int
    BY <1>2
  <2> QED
    BY <1>1, <2>1, IntegerRemainder DEF Wrap
<1>4. PICK k \in Int : x = key + v + n * k
  BY <1>3 DEF Same
<1>5. PICK y \in 0..(n - 1) : y = Unwrap(x, w) /\ Same(y, x - w, n)
  <2>1. x - w \in Int
    OBVIOUS
  <2> QED
    BY <1>1, <2>1, IntegerRemainder DEF Unwrap
<1>6. PICK l \in Int : y = x - w + n * l
  BY <1>5 DEF Same
<1>7. PICK m \in Int : m = k + l /\ n * m = n * k + n * l
  BY Distribute
<1>8. y = key + (v - w) + n * m
  <2>1. PICK nk \in Int, nl \in Int : nk = n * k /\ nl = n * l
    OBVIOUS
  <2> QED
    BY <1>2, <1>4, <1>6, <1>7, <2>1
<1>9. ASSUME y = key PROVE Same(v, w, n)
  <2>1. PICK nm \in Int : nm = n * m
    OBVIOUS
  <2>2. n * (-m) = -nm /\ -m \in Int
    BY <2>1, Distribute
  <2>3. v = w + n * (-m)
    BY <1>2, <1>8, <1>9, <2>1, <2>2
  <2> QED
    BY <2>2, <2>3 DEF Same
<1>10. ASSUME Same(v, w, n) PROVE y = key
  <2>1. PICK i \in Int : v = w + n * i
    BY <1>10 DEF Same
  <2>2. PICK j \in Int : j = i + m /\ n * j = n * i + n * m
    BY Distribute
  <2>3. y = key + n * j
    <3>1. PICK ni \in Int, nm \in Int : ni = n * i /\ nm = n * m
      OBVIOUS
    <3> QED
      BY <1>2, <1>8, <2>1, <2>2, <3>1
  <2>4. Same(y, key, n)
    BY <2>3 DEF Same
  <2> QED
    BY <1>2, <2>4, SameSmall
<1> QED
  BY <1>1, <1>3, <1>5, <1>9, <1>10

\* What the costs and the salt make of a passphrase is another number for each.
Derives(mask, pw, c) ==
    \A pass \in Nat :
        derive_password_wrap_key(mask, pass, pw) = (c + 1024 * pass) % KeySpace

LEMMA DerivedKey ==
    ASSUME NEW mask \in Nat, NEW pw \in Passwords, ParamsAreValid(pw)
    PROVE  \E c \in Nat : Derives(mask, pw, c)
<1>1. /\ pw.memory \in Nat /\ pw.passes \in Nat /\ pw.lanes \in Nat /\ pw.salt \in Seq(Nat)
      /\ pw.salt # <<>>
  BY DEF Passwords, ParamsAreValid
<1>2. Len(pw.salt) \in Nat /\ pw.salt[1] \in Nat
  <2>1. Len(pw.salt) \in Nat \ {0}
    BY <1>1
  <2>2. 1 \in 1..Len(pw.salt)
    BY <2>1
  <2> QED
    BY <1>1, <2>1, <2>2
<1>3. PICK s \in Nat : s = pw.memory + pw.passes + pw.lanes + Len(pw.salt) + pw.salt[1]
  BY <1>1, <1>2
<1>4. PICK c \in Nat : c = mask + 4096 * s
  OBVIOUS
<1>5. ASSUME NEW pass \in Nat
      PROVE  derive_password_wrap_key(mask, pass, pw) = (c + 1024 * pass) % KeySpace
  <2>1. mask + 1024 * pass + 4096 * s = c + 1024 * pass
    BY <1>4
  <2> QED
    BY <1>3, <2>1 DEF derive_password_wrap_key
<1> QED
  BY <1>5 DEF Derives

LEMMA WrapKeyIsNat ==
    ASSUME NEW mask \in Nat, NEW pass \in Nat \cup {None}, NEW pw \in Passwords \cup {None},
           pw # None => pass \in Nat /\ ParamsAreValid(pw)
    PROVE  WrapKey(mask, pass, pw) \in Nat
<1>1. CASE pw = None
  BY <1>1 DEF WrapKey
<1>2. CASE pw # None
  <2>1. PICK c \in Nat : Derives(mask, pw, c)
    BY <1>2, DerivedKey
  <2>2. c + 1024 * pass \in Nat /\ KeySpace \in Nat \ {0}
    BY <1>2, TimelockAssumption
  <2>3. (c + 1024 * pass) % KeySpace \in Nat
    BY <2>2, SameAsRemainder
  <2> QED
    BY <1>2, <2>1, <2>3 DEF WrapKey, Derives
<1> QED
  BY <1>1, <1>2

\* Two passphrases derive two keys from one mask.
LEMMA OtherPassphrase ==
    ASSUME NEW mask \in Nat, NEW pw \in Passwords, ParamsAreValid(pw),
           NEW p \in {1, 2}, NEW q \in {1, 2},
           Same(derive_password_wrap_key(mask, p, pw), derive_password_wrap_key(mask, q, pw),
                KeySpace)
    PROVE  p = q
<1>1. PICK n \in Nat \ {0} : n = KeySpace /\ n > 1024
  BY TimelockAssumption
<1>2. PICK c \in Nat : Derives(mask, pw, c)
  BY DerivedKey
<1>3. PICK u \in Nat, v \in Nat : u = c + 1024 * p /\ v = c + 1024 * q
  OBVIOUS
<1>4. Same(u % n, v % n, n)
  <2>1. p \in Nat /\ q \in Nat
    OBVIOUS
  <2> QED
    BY <1>1, <1>2, <1>3, <2>1 DEF Derives
<1>5. Same(u, v, n)
  <2>1. u % n \in Nat /\ v % n \in Nat /\ Same(u, u % n, n) /\ Same(v % n, v, n)
    BY SameAsRemainder
  <2>2. u \in Int /\ v \in Int /\ u % n \in Int /\ v % n \in Int /\ n \in Nat
    BY <2>1
  <2>3. Same(u, v % n, n)
    BY <1>4, <2>1, <2>2, SameTransitive
  <2> QED
    BY <2>1, <2>2, <2>3, SameTransitive
<1>6. PICK k \in Int : u = v + n * k
  BY <1>5 DEF Same
<1>7. k = 0
  <2>1. n * k \in {0, 1024, -1024}
    BY <1>3, <1>6
  <2>2. CASE k >= 1
    <3>1. n * k >= n
      BY <2>2
    <3> QED
      BY <1>1, <2>1, <3>1
  <2>3. CASE k <= -1
    <3>1. n * k <= -n
      BY <2>3
    <3> QED
      BY <1>1, <2>1, <3>1
  <2> QED
    BY <2>2, <2>3
<1>8. u = v
  BY <1>6, <1>7
<1> QED
  BY <1>3, <1>8

-------------------------------------------------------------------------------
(* What a request resolves to, and the body that is written for it.          *)

\* The difficulty g is the one that was asked for.
Answers(g, r) ==
    /\ g.iterations \in 1..MaxU64 /\ g.profile \in Profiles \cup {CurrentMachine}
    /\ IF r.iterations # None THEN g.target = None /\ g.iterations = r.iterations
       ELSE /\ g.target = Seconds(r.target) /\ g.target \in 1..MaxU64
            /\ \E perSecond \in Nat \ {0} :
                  /\ g.iterations = g.target * perSecond
                  /\ g.profile \in Profiles => perSecond = Rate[g.profile]
                  /\ RateOfRequest(r) # None => perSecond = RateOfRequest(r)

LEMMA NoRateOfItsOwn ==
    CurrentMachine \in Nat /\ CurrentMachine \notin Profiles /\ Profiles \subseteq Nat
    /\ DEFAULT_HARDWARE_PROFILE_ID \in Profiles
<1>1. PICK m \in Nat \ {0} : m = Len(Rate)
  BY DifficultyAssumption
<1>2. DOMAIN Rate = 1..m
  BY <1>1, DifficultyAssumption
<1> QED
  BY <1>1, <1>2 DEF CurrentMachine, Profiles, DEFAULT_HARDWARE_PROFILE_ID

LEMMA ResolveAnswers ==
    ASSUME NEW r, IsRequest(r), NEW rate \in Nat \cup {None},
           RateOfRequest(r) # None => rate = RateOfRequest(r), NEW d,
           d = resolve_lock_difficulty(r.iterations, r.target, r.profile, rate),
           d.status = "ok"
    PROVE  Answers(d.value, r)
<1>1. /\ r.iterations \in 0..MaxU64 \cup {None} /\ r.target \in Specs \cup {None}
  BY DEF IsRequest
<1>2. CASE r.iterations # None
  <2>1. RateOfRequest(r) = None
    BY <1>2 DEF RateOfRequest
  <2>2. PICK p : /\ p = (IF r.profile = None THEN DEFAULT_HARDWARE_PROFILE_ID ELSE r.profile)
                 /\ d = ByIterations(r.iterations, p)
    BY <1>2 DEF resolve_lock_difficulty
  <2>3. ~(r.iterations = 0 \/ (p # CurrentMachine /\ p \notin Profiles))
    BY <2>2 DEF ByIterations, Err
  <2>4. d = Ok(Resolved(r.iterations, p, None))
    BY <2>2, <2>3 DEF ByIterations
  <2>5. d.value.iterations = r.iterations /\ d.value.profile = p /\ d.value.target = None
    BY <2>4 DEF Ok, Resolved
  <2>6. r.iterations \in 1..MaxU64
    BY <1>1, <1>2, <2>3, DifficultyAssumption
  <2> QED
    BY <1>2, <2>3, <2>5, <2>6 DEF Answers
<1>3. CASE r.iterations = None
  <2>1. r.target # None
    BY <1>3 DEF resolve_lock_difficulty, Err
  <2>2. r.target \in Specs
    BY <1>1, <2>1
  <2>3. d = resolve_lock_difficulty(None, r.target, r.profile, rate)
    BY <1>3
  <2>4. PICK perSecond \in Nat \ {0} :
           /\ resolve_iterations_per_second(d.value.profile, rate) = Ok(perSecond)
           /\ d.value.target = Seconds(r.target)
           /\ d.value.target \in 1..MaxU64 /\ d.value.iterations \in 1..MaxU64
           /\ d.value.iterations = d.value.target * perSecond
    BY <2>2, <2>3, DelayIsExact
  <2>5. CASE d.value.profile = CurrentMachine
    <3>1. perSecond = rate
      BY <2>4, <2>5 DEF resolve_iterations_per_second, ensure_current_machine_rate, Ok, Err
    <3>2. d.value.profile \notin Profiles
      BY <2>5, NoRateOfItsOwn
    <3> QED
      BY <1>3, <2>4, <2>5, <3>1, <3>2 DEF Answers
  <2>6. CASE d.value.profile # CurrentMachine
    <3>1. d.value.profile \in Profiles /\ perSecond = Rate[d.value.profile]
      BY <2>4, <2>6 DEF resolve_iterations_per_second, get_profile, Ok, Err
    <3>2. RateOfRequest(r) = None
      <4>1. PICK p : p = (IF r.profile = None THEN DEFAULT_HARDWARE_PROFILE_ID ELSE r.profile)
                     /\ d = ByTarget(r.target, p, rate)
        BY <2>1, <2>3 DEF resolve_lock_difficulty
      <4>2. PICK i, t : d = Ok(Resolved(i, p, t))
        <5>1. ByTarget(r.target, p, rate).status = "ok"
          BY <4>1
        <5> QED
          BY <2>2, <4>1, <5>1, Multiplied
      <4>3. d.value.profile = p
        BY <4>2 DEF Ok, Resolved
      <4>4. r.profile # CurrentMachine
        BY <2>6, <4>1, <4>3, NoRateOfItsOwn, DifficultyAssumption
      <4> QED
        BY <4>4 DEF RateOfRequest
    <3> QED
      BY <1>3, <2>4, <3>1, <3>2 DEF Answers
  <2> QED
    BY <2>5, <2>6
<1> QED
  BY <1>2, <1>3

\* The passphrase of the request, as the body knows of it.
LEMMA Protection ==
    ASSUME NEW pass \in {None, 0, 1, 2}
    PROVE  /\ key_protection_material(pass) \in Passwords \cup {None}
           /\ key_protection_material(pass) = None <=> pass = None
           /\ pass # None => ParamsAreValid(key_protection_material(pass))
<1>1. SALT \in Seq(Nat) /\ SALT # <<>> /\ None \notin Passwords
  BY TimelockAssumption
<1>2. CASE pass = None
  BY <1>2 DEF key_protection_material
<1>3. CASE pass # None
  <2>1. PICK pw \in Passwords : /\ pw = key_protection_material(pass)
                                /\ pw.memory = 3 /\ pw.passes = 3 /\ pw.lanes = 1
                                /\ pw.salt = SALT
    <3>1. [memory |-> 3, passes |-> 3, lanes |-> 1, salt |-> SALT] \in Passwords
      BY <1>1 DEF Passwords
    <3>2. key_protection_material(pass) = [memory |-> 3, passes |-> 3, lanes |-> 1, salt |-> SALT]
      BY <1>3 DEF key_protection_material
    <3> QED
      BY <3>1, <3>2
  <2>2. ParamsAreValid(pw)
    BY <1>1, <2>1 DEF ParamsAreValid
  <2> QED
    BY <1>1, <1>3, <2>1, <2>2
<1> QED
  BY <1>2, <1>3

\* The number that squaring leads to.
Mask(body) == Exp(body.base)[Exp(2)[body.iterations]] % body.modulus

\* The body is the one that the request r, resolved to g, asks for, and the key
\* is wrapped with what its puzzle leads to.
Kept(body, g, r) ==
    /\ body \in Bodies /\ Validates(body) /\ Proper(body)
    /\ r.pass \in {None, 1, 2}
    /\ body.iterations = g.iterations /\ body.target = g.target
    /\ body.profile = <<g.profile>> /\ body.name = r.name
    /\ body.password = key_protection_material(r.pass)
    /\ body.wrapped = Wrap(FileKey, WrapKey(Mask(body), r.pass, body.password))

LEMMA MaskIsNat ==
    ASSUME NEW body \in Bodies, Validates(body)
    PROVE  Mask(body) \in Nat /\ Mask(body) < body.modulus
<1>1. body.base \in Nat /\ body.iterations \in Nat /\ body.modulus \in Nat \ {0}
  BY DEF Bodies, Validates
<1>2. Exp(2)[body.iterations] \in Nat
  BY <1>1, ExpDef
<1>3. Exp(body.base)[Exp(2)[body.iterations]] \in Nat
  BY <1>1, <1>2, ExpDef
<1> QED
  BY <1>1, <1>3, SameAsRemainder DEF Mask

\* What is stored of a request that resolves.
LEMMA BodyKept ==
    ASSUME request \in Requests, Answers(goal, request), ~PassphraseIsEmpty,
           NEW p \in Primes, NEW q \in Primes, NEW r \in Bases,
           FarEnough(p, q, request.bits \div 2), IsBase(r, p * q), NEW n, n = p * q,
           NEW a, a = r % n,
           NEW body, body = BodyFor(n, a, Power(a, Exponent(goal.iterations, p, q), n))
    PROVE  Kept(body, goal, request)
<1>1. /\ p \in Nat /\ IsPrime(p) /\ q \in Nat /\ IsPrime(q) /\ p # q /\ r \in Nat
  BY TimelockAssumption DEF FarEnough
<1>2. n \in Nat \ {0} /\ p - 1 \in Nat \ {0} /\ q - 1 \in Nat \ {0}
  BY <1>1, Product DEF IsPrime
<1>3. a \in Nat \ {0} /\ GCD(a, n) = 1
  <2>1. r % n \in Nat
    BY <1>1, <1>2, SameAsRemainder
  <2> QED
    BY <2>1 DEF IsBase
<1>4. IsRequest(request)
  BY TimelockAssumption
<1>5. /\ request.pass \in {None, 1, 2} /\ request.bits \in Nat
      /\ request.name = None \/ (request.name \in Seq(Nat) \ {<<>>} /\ IsUtf8(request.name))
  BY <1>4 DEF IsRequest, PassphraseIsEmpty
<1>6. /\ goal.iterations \in Nat /\ goal.profile \in 1..CurrentMachine
      /\ goal.target \in Nat \cup {None}
  <2>1. goal.iterations \in Nat /\ goal.target \in Nat \cup {None}
    BY DifficultyAssumption DEF Answers
  <2>2. PICK m \in Nat \ {0} : m = Len(Rate) /\ DOMAIN Rate = 1..m
    BY DifficultyAssumption
  <2>3. goal.profile \in (1..m) \cup {m + 1}
    BY <2>2 DEF Answers, Profiles, CurrentMachine
  <2> QED
    BY <2>1, <2>2, <2>3 DEF CurrentMachine
<1>7. PICK pw \in Passwords \cup {None} :
         /\ pw = key_protection_material(request.pass)
         /\ pw = None <=> request.pass = None
         /\ pw # None => ParamsAreValid(pw)
  BY <1>5, Protection
<1>8. PICK e \in Nat : e = Exp(2)[goal.iterations]
  BY <1>6, ExpDef
<1>9. PICK mask \in Nat : /\ mask = Power(a, Exponent(goal.iterations, p, q), n)
                          /\ mask = Exp(a)[e] % n
  <2>1. LCM(p - 1, q - 1) \in Nat \ {0}
    BY <1>2, LCMIs
  <2>2. Exponent(goal.iterations, p, q) = e % LCM(p - 1, q - 1)
    BY <1>6, <1>8, <2>1, PowerIs DEF Exponent
  <2>3. Power(a, e % LCM(p - 1, q - 1), n) = Exp(a)[e] % n
    BY <1>1, <1>3, ShortWay
  <2>4. Exp(a)[e] \in Nat
    BY <1>3, ExpDef
  <2>5. Exp(a)[e] % n \in Nat
    BY <1>2, <2>4, SameAsRemainder
  <2> QED
    BY <2>2, <2>3, <2>5
<1>10. PICK w \in Nat : w = Wrap(FileKey, WrapKey(mask, request.pass, pw))
  <2>1. WrapKey(mask, request.pass, pw) \in Nat
    BY <1>5, <1>7, WrapKeyIsNat
  <2> QED
    <3>1. FileKey \in 0..(KeySpace - 1)
      BY TimelockAssumption
    <3>2. Wrap(FileKey, WrapKey(mask, request.pass, pw)) \in Nat
      BY <2>1, <3>1, UnwrapWrap
    <3> QED
      BY <3>2, Zenon
<1>11. <<goal.profile>> \in Seq(Nat) /\ IsUtf8(<<goal.profile>>)
  <2>1. goal.profile \in Nat
    BY <1>6
  <2>2. <<goal.profile>> \in Seq(Nat)
    BY <2>1, OneDigit
  <2>3. ToSet(<<goal.profile>>) = {goal.profile}
    BY DEF ToSet
  <2>4. IsUtf8(<<goal.profile>>)
    <3>1. NotUtf8 # goal.profile
      BY <1>6, TimelockAssumption
    <3> QED
      BY <2>3, <3>1 DEF IsUtf8
  <2> QED
    BY <2>2, <2>4
<1>12. PICK v \in Nat, i \in Nat, bits \in Nat, t \in Nat \cup {None},
            name \in Seq(Nat) \cup {None}, profile \in Seq(Nat), m \in Nat :
          /\ v = IF pw = None THEN 1 ELSE 2
          /\ i = goal.iterations /\ bits = request.bits /\ t = goal.target
          /\ name = request.name /\ profile = <<goal.profile>> /\ m = n
  <2>1. request.name \in Seq(Nat) \cup {None} /\ request.bits \in Nat
    BY <1>5
  <2>2. (IF pw = None THEN 1 ELSE 2) \in Nat /\ n \in Nat
    BY <1>2
  <2>3. <<goal.profile>> \in Seq(Nat)
    BY <1>11
  <2>4. goal.iterations \in Nat /\ goal.target \in Nat \cup {None}
    BY <1>6
  <2> QED
    BY <2>1, <2>2, <2>3, <2>4, Zenon
<1>13. PICK b \in Nat : b = a
  BY <1>3
<1>14. body = [version |-> v, flags |-> 0,
               plaintext |-> 1, stream |-> 1, region |-> 1, chunk |-> 1, aead |-> 1, rs |-> 1,
               data |-> 2, parity |-> 1, shard |-> 1, algorithm |-> 1,
               iterations |-> i, bits |-> bits, target |-> t, created |-> 1,
               name |-> name, profile |-> profile,
               modulus |-> m, base |-> b, wrapped |-> w, password |-> pw]
  BY <1>7, <1>9, <1>10, <1>12, <1>13, Zenon DEF BodyFor, BODY_VERSION_V1, BODY_VERSION_V2
<1>15. body \in Bodies
  BY <1>14 DEF Bodies
<1>16. /\ body.version = v /\ body.flags = 0
       /\ body.chunk = 1 /\ body.data = 2 /\ body.parity = 1 /\ body.shard = 1
       /\ body.aead = 1 /\ body.rs = 1 /\ body.algorithm = 1
       /\ body.modulus = n /\ body.base = a /\ body.password = pw
       /\ body.iterations = goal.iterations /\ body.target = goal.target
       /\ body.name = request.name /\ body.profile = <<goal.profile>> /\ body.wrapped = w
  BY <1>12, <1>13, <1>14, SMTT(30)
<1>17. Validates(body)
  BY <1>2, <1>3, <1>7, <1>12, <1>16, SMTT(30) DEF Validates, BODY_VERSION_V1, BODY_VERSION_V2
<1>18. Proper(body)
  BY <1>5, <1>11, <1>16 DEF Proper
<1>19. body.wrapped = Wrap(FileKey, WrapKey(Mask(body), request.pass, body.password))
  BY <1>8, <1>9, <1>10, <1>16 DEF Mask
<1> QED
  BY <1>5, <1>7, <1>15, <1>16, <1>17, <1>18, <1>19 DEF Kept

-------------------------------------------------------------------------------
(* The way of one artifact: the inductive invariant.                         *)

\* What is locked answers the request.
Locking ==
    /\ pc \in {"request", "puzzle", "stored", "solve", "done"}
    /\ request \in Requests
    /\ goal = None \/ Answers(goal, request)
    /\ pc = "puzzle" => Answers(goal, request)
    /\ pc \in {"request", "puzzle"} => locked = NoBody
    /\ pc \in {"stored", "solve"} => locked # NoBody
    /\ locked # NoBody => Answers(goal, request) /\ Kept(locked, goal, request)

\* What nobody edited is what was locked.
Storing ==
    /\ stored \in Seq(Nat) /\ edits \in 0..MaxEdits /\ token \in BOOLEAN
    /\ edits = 0 /\ locked # NoBody => stored = encode_superblock_body(locked)

\* After s squarings of the base of the body, the number is v: the remainder of
\* the base to the power of 2^s.
Solves(body, s, v) ==
    /\ body \in Bodies /\ Validates(body)
    /\ s \in 0..body.iterations /\ v \in Nat
    /\ v % body.modulus = Exp(body.base)[Exp(2)[s]] % body.modulus
    /\ s > 0 => v < body.modulus

Solving ==
    /\ value \in Nat /\ squared \in Nat
    /\ pc \in {"request", "puzzle", "stored"} => squared = 0
    /\ pc = "solve" => Decoded # NoBody /\ Solves(Decoded, squared, value)
    /\ result \in {"none", "error", "panic", "cancelled", "refused", "opened"}
    /\ pc # "done" => result = "none"
    /\ result = "refused" => edits > 0 \/ used # request.pass
    /\ result = "opened" => /\ locked # NoBody /\ Decoded = locked
                            /\ used = request.pass /\ squared = locked.iterations

Way == Locking /\ Storing /\ Solving

\* What was written for a request can be read.
LEMMA KeptIsRead ==
    ASSUME NEW body, NEW g, NEW r, Kept(body, g, r)
    PROVE  /\ encode_superblock_body(body) \in Seq(Nat)
           /\ decode_superblock_body(encode_superblock_body(body)) = body
           /\ body # NoBody
BY EncodeDecode, TimelockAssumption DEF Kept

LEMMA Unedited ==
    ASSUME Locking, Storing, edits = 0, locked # NoBody
    PROVE  Decoded = locked
BY KeptIsRead DEF Locking, Storing, Decoded

LEMMA WayAtFirst ==
    ASSUME Init
    PROVE  Way
<1>1. Locking
  BY DEF Init, Locking
<1>2. Storing
  <2>1. <<>> \in Seq(Nat) /\ 0 \in 0..MaxEdits
    BY TimelockAssumption
  <2> QED
    BY <2>1 DEF Init, Storing
<1>3. Solving
  BY DEF Init, Solving
<1> QED
  BY <1>1, <1>2, <1>3 DEF Way

LEMMA ResolveEnds ==
    ASSUME NEW r, IsRequest(r), NEW rate \in Nat \cup {None}
    PROVE  resolve_lock_difficulty(r.iterations, r.target, r.profile, rate).status
              \in {"ok", "error", "panic"}
<1>1. PICK p : p = (IF r.profile = None THEN DEFAULT_HARDWARE_PROFILE_ID ELSE r.profile)
  OBVIOUS
<1>2. CASE r.iterations # None
  BY <1>1, <1>2 DEF resolve_lock_difficulty, ByIterations, Ok, Err
<1>3. CASE r.iterations = None /\ r.target = None
  BY <1>3 DEF resolve_lock_difficulty, Err
<1>4. CASE r.iterations = None /\ r.target # None
  <2>1. resolve_lock_difficulty(r.iterations, r.target, r.profile, rate)
           = ByTarget(r.target, p, rate)
    BY <1>1, <1>4 DEF resolve_lock_difficulty
  <2>2. r.target \in Specs
    BY <1>4 DEF IsRequest
  <2>3. CASE parse_duration_spec(r.target).status # "ok"
    <3>1. parse_duration_spec(r.target) = Err \/ parse_duration_spec(r.target) = Panic
      BY <2>3 DEF parse_duration_spec, Ok
    <3>2. ByTarget(r.target, p, rate) = [parse_duration_spec(r.target) EXCEPT !.value = None]
      BY <2>3 DEF ByTarget
    <3> QED
      BY <2>1, <3>1, <3>2 DEF Err, Panic
  <2>4. CASE parse_duration_spec(r.target).status = "ok"
    <3>1. CASE resolve_iterations_per_second(p, rate).status # "ok"
      <4>1. ByTarget(r.target, p, rate) = Err
        BY <2>4, <3>1 DEF ByTarget
      <4> QED
        BY <2>1, <4>1 DEF Err
    <3>2. CASE resolve_iterations_per_second(p, rate).status = "ok"
      <4>1. \/ ByTarget(r.target, p, rate) = Err
            \/ \E x : ByTarget(r.target, p, rate) = Ok(x)
        BY <2>4, <3>2 DEF ByTarget
      <4>2. CASE ByTarget(r.target, p, rate) = Err
        BY <2>1, <4>2 DEF Err
      <4>3. ASSUME NEW x, ByTarget(r.target, p, rate) = Ok(x)
            PROVE  ByTarget(r.target, p, rate).status = "ok"
        BY <4>3 DEF Ok
      <4> QED
        BY <2>1, <4>1, <4>2, <4>3
    <3> QED
      BY <3>1, <3>2
  <2> QED
    BY <2>3, <2>4
<1> QED
  BY <1>2, <1>3, <1>4

\* Before there is a body, a step that writes none.
LEMMA NothingYet ==
    ASSUME Storing, Solving, pc \in {"request", "puzzle"}, locked' = NoBody,
           UNCHANGED <<request, stored, edits, token, value, squared, used>>,
           \/ pc' = "puzzle" /\ result' = result
           \/ pc' = "done" /\ result' \in {"error", "panic"}
    PROVE  Storing' /\ Solving'
<1>1. Storing'
  BY DEF Storing
<1>2. Solving'
  BY DEF Solving
<1> QED
  BY <1>1, <1>2

LEMMA ResolveAtStep ==
    ASSUME Way, pc = "request", NEW rate \in Nat \cup {None}, ResolveAt(rate),
           RateOfRequest(request) # None => rate = RateOfRequest(request),
           UNCHANGED <<request, locked, stored, edits, token, late, value, squared, used>>
    PROVE  Way'
<1>1. request \in Requests /\ locked = NoBody /\ (goal = None \/ Answers(goal, request))
  BY DEF Way, Locking
<1>2. PICK d : d = resolve_lock_difficulty(request.iterations, request.target,
                                           request.profile, rate)
  OBVIOUS
<1>3. IsRequest(request)
  BY <1>1, TimelockAssumption
<1>4. CASE d.status = "ok"
  <2>1. goal' = d.value /\ pc' = "puzzle" /\ result' = result
    BY <1>2, <1>4 DEF ResolveAt
  <2>2. Answers(d.value, request)
    BY <1>2, <1>3, <1>4, ResolveAnswers
  <2>3. Locking'
    BY <1>1, <2>1, <2>2 DEF Locking
  <2>4. Storing' /\ Solving'
    BY <1>1, <2>1, NothingYet DEF Way
  <2> QED
    BY <2>3, <2>4 DEF Way
<1>5. CASE d.status # "ok"
  <2>1. goal' = goal /\ pc' = "done" /\ result' = d.status
    BY <1>2, <1>5 DEF ResolveAt, Finish
  <2>2. d.status \in {"error", "panic"}
    BY <1>2, <1>3, <1>5, ResolveEnds
  <2>3. Locking'
    BY <1>1, <2>1 DEF Locking
  <2>4. Storing' /\ Solving'
    BY <1>1, <2>1, <2>2, NothingYet DEF Way
  <2> QED
    BY <2>3, <2>4 DEF Way
<1> QED
  BY <1>4, <1>5

\* The rate is a number that was measured, or what the request brings along.
LEMMA ResolveStep ==
    ASSUME Way, Resolve
    PROVE  Way'
<1>1. /\ pc = "request" /\ request \in Requests /\ locked = NoBody
      /\ (goal = None \/ Answers(goal, request))
      /\ UNCHANGED <<request, locked, stored, edits, token, late, value, squared, used>>
  BY DEF Resolve, Way, Locking
<1>2. CASE NeedsCalibration(request)
  <2>1. PICK r \in Readings :
           IF calibrate_current_machine(r[1], r[2]).status = "ok"
           THEN ResolveAt(calibrate_current_machine(r[1], r[2]).value)
           ELSE Finish("error") /\ UNCHANGED goal
    BY <1>2 DEF Resolve
  <2>2. RateOfRequest(request) = None
    BY <1>2 DEF NeedsCalibration, RateOfRequest
  <2>3. CASE calibrate_current_machine(r[1], r[2]).status = "ok"
    <3>1. PICK rate : calibrate_current_machine(r[1], r[2]) = Ok(rate)
      BY <2>3 DEF calibrate_current_machine, Err
    <3>2. rate \in Nat
      <4>1. r[1] \in 0..MaxU64 /\ r[2] \in Nat
        BY TimelockAssumption DEF Reading
      <4>2. rate \in 1..MaxU64
        BY <3>1, <4>1, MeasurementIsClose
      <4> QED
        BY <4>2, DifficultyAssumption
    <3>3. ResolveAt(rate)
      <4>1. calibrate_current_machine(r[1], r[2]).value = rate
        BY <3>1 DEF Ok
      <4> QED
        BY <2>1, <2>3, <4>1
    <3> QED
      BY <1>1, <2>2, <3>2, <3>3, ResolveAtStep
  <2>4. CASE calibrate_current_machine(r[1], r[2]).status # "ok"
    <3>1. pc' = "done" /\ result' = "error" /\ goal' = goal
      BY <2>1, <2>4 DEF Finish
    <3>2. Locking'
      BY <1>1, <3>1 DEF Locking
    <3>3. Storing' /\ Solving'
      BY <1>1, <3>1, NothingYet DEF Way
    <3> QED
      BY <3>2, <3>3 DEF Way
  <2> QED
    BY <2>3, <2>4
<1>3. CASE ~NeedsCalibration(request)
  <2>1. ResolveAt(RateOfRequest(request))
    BY <1>3 DEF Resolve
  <2>2. RateOfRequest(request) \in Nat \cup {None}
    <3>1. request.rate \in Nat \cup {None}
      <4>1. IsRequest(request)
        BY <1>1, TimelockAssumption
      <4> QED
        BY <4>1, DifficultyAssumption DEF IsRequest
    <3> QED
      BY <3>1 DEF RateOfRequest
  <2> QED
    BY <1>1, <2>1, <2>2, ResolveAtStep
<1> QED
  BY <1>2, <1>3

LEMMA RefuseStep ==
    ASSUME Way, RefusePuzzle
    PROVE  Way'
<1>1. /\ pc = "puzzle" /\ locked = NoBody /\ pc' = "done" /\ result' = "error"
      /\ UNCHANGED <<request, goal, locked, stored, edits, token, late, value, squared, used>>
  BY DEF RefusePuzzle, Finish, Way, Locking
<1>2. Locking'
  BY <1>1 DEF Way, Locking
<1>3. Storing' /\ Solving'
  BY <1>1, NothingYet DEF Way
<1> QED
  BY <1>2, <1>3 DEF Way

LEMMA CreateStep ==
    ASSUME Way, CreatePuzzle
    PROVE  Way'
<1>1. /\ pc = "puzzle" /\ request \in Requests /\ Answers(goal, request)
      /\ ~PassphraseIsEmpty /\ pc' = "stored" /\ stored' = encode_superblock_body(locked')
      /\ UNCHANGED <<request, goal, edits, token, late, value, squared, used, result>>
  BY DEF CreatePuzzle, Way, Locking
<1>2. Kept(locked', goal, request)
  <2>1. PICK p \in Primes, q \in Primes, r \in Bases :
           /\ FarEnough(p, q, request.bits \div 2) /\ IsBase(r, p * q)
           /\ locked' = BodyFor(p * q, r % (p * q),
                                Power(r % (p * q), Exponent(goal.iterations, p, q), p * q))
    BY DEF CreatePuzzle
  <2>2. PICK n, a : n = p * q /\ a = r % n
    OBVIOUS
  <2>3. locked' = BodyFor(n, a, Power(a, Exponent(goal.iterations, p, q), n))
    BY <2>1, <2>2
  <2> QED
    BY <1>1, <2>1, <2>2, <2>3, BodyKept
<1>3. locked' # NoBody /\ stored' \in Seq(Nat)
  BY <1>1, <1>2, KeptIsRead
<1>4. Locking'
  BY <1>1, <1>2, <1>3 DEF Locking
<1>5. Storing'
  BY <1>1, <1>3 DEF Way, Storing
<1>6. Solving'
  BY <1>1 DEF Way, Solving
<1> QED
  BY <1>4, <1>5, <1>6 DEF Way

LEMMA EditStep ==
    ASSUME Way, Change \/ Cut \/ Extend
    PROVE  Way'
<1>1. stored \in Seq(Nat) /\ edits \in Nat /\ edits <= MaxEdits /\ MaxEdits \in Nat
  BY TimelockAssumption DEF Way, Storing
<1>2. PICK cells \in Seq(Nat) : Edit(cells)
  <2>1. CASE Change
    <3>1. PICK i \in 1..Len(stored), c \in Edited : Edit([stored EXCEPT ![i] = c])
      BY <2>1 DEF Change
    <3>2. c \in Nat
      BY TimelockAssumption
    <3>3. [stored EXCEPT ![i] = c] \in Seq(Nat)
      BY <1>1, <3>2
    <3> QED
      BY <3>1, <3>3
  <2>2. CASE Cut
    <3>1. PICK k \in 0..Len(stored) : Edit(SubSeq(stored, 1, k))
      BY <2>2 DEF Cut
    <3>2. k \in Nat /\ k <= Len(stored)
      BY <1>1
    <3>3. SubSeq(stored, 1, k) \in Seq(Nat)
      BY <1>1, <3>2, CutStarts DEF Starts
    <3> QED
      BY <3>1, <3>3
  <2>3. CASE Extend
    <3>1. PICK c \in Edited : Edit(Append(stored, c))
      BY <2>3 DEF Extend
    <3>2. c \in Nat
      BY TimelockAssumption
    <3>3. Append(stored, c) \in Seq(Nat)
      BY <1>1, <3>2
    <3> QED
      BY <3>1, <3>3
  <2> QED
    BY <2>1, <2>2, <2>3
<1>3. /\ pc = "stored" /\ edits < MaxEdits /\ stored' = cells /\ edits' = edits + 1
      /\ UNCHANGED <<pc, request, goal, locked, token, late, value, squared, used, result>>
  BY <1>2 DEF Edit
<1>4. Locking'
  BY <1>3 DEF Way, Locking
<1>5. Storing'
  <2>1. edits' \in 0..MaxEdits /\ edits' # 0
    BY <1>1, <1>3
  <2> QED
    BY <1>2, <1>3, <2>1 DEF Way, Storing
<1>6. Solving'
  BY <1>3 DEF Way, Solving
<1> QED
  BY <1>4, <1>5, <1>6 DEF Way

\* The body that is decoded is that of the cells, so it changes with them alone.
LEMMA SameDecoded ==
    ASSUME stored' = stored
    PROVE  Decoded' = Decoded
BY DEF Decoded

LEMMA StartSolveStep ==
    ASSUME Way, StartSolve
    PROVE  Way'
<1>1. /\ pc = "stored" /\ locked # NoBody /\ squared = 0 /\ stored \in Seq(Nat)
      /\ result = "none" /\ value \in Nat
      /\ UNCHANGED <<request, goal, locked, stored, edits, token, late, squared, used>>
  BY DEF StartSolve, Way, Locking, Storing, Solving
<1>2. Decoded' = Decoded
  BY <1>1, SameDecoded
<1>3. Storing'
  BY <1>1 DEF Way, Storing
<1>4. CASE Decoded = NoBody
  <2>1. pc' = "done" /\ result' = "refused" /\ value' = value
    BY <1>4 DEF StartSolve, Finish
  <2>2. edits > 0
    <3>1. edits # 0
      BY <1>1, <1>4, Unedited DEF Way
    <3> QED
      BY <3>1, TimelockAssumption DEF Way, Storing
  <2>3. Locking'
    BY <1>1, <2>1 DEF Way, Locking
  <2>4. Solving'
    BY <1>1, <2>1, <2>2 DEF Solving
  <2> QED
    BY <1>3, <2>3, <2>4 DEF Way
<1>5. CASE Decoded # NoBody /\ token
  <2>1. pc' = "done" /\ result' = "cancelled" /\ value' = value
    BY <1>5 DEF StartSolve, Finish
  <2>2. Locking'
    BY <1>1, <2>1 DEF Way, Locking
  <2>3. Solving'
    BY <1>1, <2>1 DEF Solving
  <2> QED
    BY <1>3, <2>2, <2>3 DEF Way
<1>6. CASE Decoded # NoBody /\ ~token
  <2>1. pc' = "solve" /\ result' = "none" /\ value' = Decoded.base
    BY <1>1, <1>6 DEF StartSolve
  <2>2. Decoded \in Bodies /\ Validates(Decoded)
    BY <1>1, <1>6, DecodedIsProper DEF Decoded
  <2>3. PICK n \in Nat \ {0}, a \in Nat, i \in Nat :
           n = Decoded.modulus /\ a = Decoded.base /\ i = Decoded.iterations
    BY <2>2 DEF Bodies, Validates
  <2>4. Exp(a)[Exp(2)[0]] = a
    <3>1. Exp(2)[0] = 1
      BY ExpDef
    <3>2. Exp(a)[0] = 1 /\ Exp(a)[0 + 1] = a * Exp(a)[0]
      BY ExpDef
    <3> QED
      BY <3>1, <3>2
  <2>5. Solves(Decoded, 0, a)
    BY <2>2, <2>3, <2>4 DEF Solves
  <2>6. Solving'
    BY <1>1, <1>2, <1>6, <2>1, <2>3, <2>5 DEF Solving
  <2>7. Locking'
    BY <1>1, <2>1 DEF Way, Locking
  <2> QED
    BY <1>3, <2>6, <2>7 DEF Way
<1> QED
  BY <1>4, <1>5, <1>6

\* One more squaring.
LEMMA SolvesOnce ==
    ASSUME NEW body, NEW s \in Nat, NEW v, Solves(body, s, v), s < body.iterations
    PROVE  Solves(body, s + 1, (v * v) % body.modulus)
<1>1. /\ body \in Bodies /\ Validates(body) /\ v \in Nat /\ s \in Nat
      /\ v % body.modulus = Exp(body.base)[Exp(2)[s]] % body.modulus
  BY DEF Solves
<1>2. PICK n \in Nat \ {0}, a \in Nat, i \in Nat :
         n = body.modulus /\ a = body.base /\ i = body.iterations
  BY <1>1 DEF Bodies, Validates
<1>3. PICK x \in Nat : x = v * v
  BY <1>1, Product
<1>4. PICK y \in Nat : y = x % n /\ y < n /\ y % n = y
  <2>1. x % n \in Nat /\ x % n < n
    BY SameAsRemainder
  <2>2. (x % n) % n = x % n
    BY <2>1, SmallRemainder
  <2> QED
    BY <2>1, <2>2
<1>5. x % n = Exp(a)[Exp(2)[s + 1]] % n
  <2>1. v \in Nat /\ v % n = Exp(a)[Exp(2)[s]] % n
    BY <1>1, <1>2
  <2>2. (v * v) % n = Exp(a)[Exp(2)[s + 1]] % n
    BY <2>1, SquareOnce
  <2> QED
    BY <1>3, <2>2, Zenon
<1>6. y % n = Exp(a)[Exp(2)[s + 1]] % n
  BY <1>4, <1>5
<1>7. s + 1 \in 0..i
  BY <1>1, <1>2
<1> QED
  BY <1>1, <1>2, <1>3, <1>4, <1>6, <1>7 DEF Solves

LEMMA SquareWay ==
    ASSUME Way, Square
    PROVE  Way'
<1>1. /\ pc = "solve" /\ squared < Decoded.iterations /\ result = "none"
      /\ squared \in Nat /\ value \in Nat /\ Decoded # NoBody
      /\ Solves(Decoded, squared, value)
      /\ value' = (value * value) % Decoded.modulus /\ squared' = squared + 1
      /\ UNCHANGED <<request, goal, locked, stored, edits, token, used>>
  BY DEF Square, Way, Solving
<1>2. Decoded' = Decoded
  BY <1>1, SameDecoded
<1>3. Solves(Decoded, squared', value')
  BY <1>1, SolvesOnce
<1>4. value' \in Nat /\ squared' \in Nat
  BY <1>1, <1>3 DEF Solves
<1>5. \/ pc' = "solve" /\ result' = "none"
      \/ pc' = "done" /\ result' = "cancelled"
  BY <1>1 DEF Square, Finish
<1>6. Locking'
  BY <1>1, <1>5 DEF Way, Locking
<1>7. Storing'
  BY <1>1 DEF Way, Storing
<1>8. Solving'
  BY <1>1, <1>2, <1>3, <1>4, <1>5 DEF Solving
<1> QED
  BY <1>6, <1>7, <1>8 DEF Way

\* All the squarings of a body lead to its mask.
LEMMA SolvesAll ==
    ASSUME NEW body, NEW v, NEW g, NEW r, Kept(body, g, r), Answers(g, r),
           Solves(body, body.iterations, v)
    PROVE  v = Mask(body)
<1>1. body \in Bodies /\ Validates(body) /\ body.iterations > 0
  BY DifficultyAssumption DEF Kept, Answers
<1>2. v \in Nat /\ v < body.modulus /\ v % body.modulus = Mask(body)
  BY <1>1 DEF Solves, Mask
<1>3. body.modulus \in Nat \ {0}
  BY <1>1 DEF Bodies, Validates
<1> QED
  BY <1>2, <1>3, SmallRemainder

\* The wrapped key opens with the passphrase it was wrapped with, and no other.
LEMMA KeyOpens ==
    ASSUME NEW body, NEW g, NEW r, Kept(body, g, r), NEW pass,
           IF body.password = None THEN pass = None ELSE pass \in {1, 2}
    PROVE  Unwrap(body.wrapped, WrapKey(Mask(body), pass, body.password)) = FileKey
              <=> pass = r.pass
<1>1. /\ body \in Bodies /\ Validates(body) /\ r.pass \in {None, 1, 2}
      /\ body.password = key_protection_material(r.pass)
      /\ body.wrapped = Wrap(FileKey, WrapKey(Mask(body), r.pass, body.password))
  BY DEF Kept
<1>2. PICK mask \in Nat : mask = Mask(body)
  BY <1>1, MaskIsNat
<1>3. PICK pw \in Passwords \cup {None} :
         /\ pw = body.password /\ (pw = None <=> r.pass = None)
         /\ pw # None => ParamsAreValid(pw)
  BY <1>1, Protection
<1>4. /\ pass \in Nat \cup {None} /\ (pw # None => pass \in {1, 2})
      /\ r.pass \in Nat \cup {None} /\ (pw # None => r.pass \in {1, 2})
      /\ pw = None => pass = None /\ r.pass = None
  BY <1>1, <1>3
<1>5. PICK v \in Nat, w \in Nat : v = WrapKey(mask, r.pass, pw) /\ w = WrapKey(mask, pass, pw)
  <2>1. WrapKey(mask, r.pass, pw) \in Nat
    BY <1>3, <1>4, WrapKeyIsNat
  <2>2. WrapKey(mask, pass, pw) \in Nat
    BY <1>3, <1>4, WrapKeyIsNat
  <2> QED
    BY <2>1, <2>2
<1>6. Unwrap(Wrap(FileKey, v), w) = FileKey <=> Same(v, w, KeySpace)
  BY TimelockAssumption, UnwrapWrap
<1>7. pass = r.pass => Same(v, w, KeySpace)
  <2>1. v = v + KeySpace * 0 /\ 0 \in Int
    BY TimelockAssumption
  <2>2. Same(v, v, KeySpace)
    BY <2>1 DEF Same
  <2> QED
    BY <1>5, <2>2
<1>8. ASSUME Same(v, w, KeySpace) PROVE pass = r.pass
  <2>1. CASE pw = None
    BY <1>4, <2>1
  <2>2. CASE pw # None
    <3>1. /\ v = derive_password_wrap_key(mask, r.pass, pw)
          /\ w = derive_password_wrap_key(mask, pass, pw)
      BY <1>5, <2>2 DEF WrapKey
    <3>2. pw \in Passwords /\ ParamsAreValid(pw) /\ pass \in {1, 2} /\ r.pass \in {1, 2}
      BY <1>3, <1>4, <2>2
    <3> QED
      BY <1>8, <3>1, <3>2, OtherPassphrase
  <2> QED
    BY <2>1, <2>2
<1> QED
  BY <1>1, <1>2, <1>3, <1>5, <1>6, <1>7, <1>8

\* The digest tells bodies apart: no two are written alike.
LEMMA SameDigest ==
    ASSUME NEW b \in Seq(Nat), decode_superblock_body(b) # NoBody,
           NEW body, NEW g, NEW r, Kept(body, g, r),
           superblock_digest(decode_superblock_body(b)) = superblock_digest(body)
    PROVE  decode_superblock_body(b) = body
<1>1. PICK d : d = decode_superblock_body(b) /\ d \in Bodies /\ Validates(d) /\ Proper(d)
  BY DecodedIsProper
<1>2. decode_superblock_body(encode_superblock_body(d)) = d
  BY <1>1, EncodeDecode
<1>3. decode_superblock_body(encode_superblock_body(body)) = body
  BY KeptIsRead
<1> QED
  BY <1>1, <1>2, <1>3 DEF superblock_digest

LEMMA RecoverWay ==
    ASSUME Way, Recover
    PROVE  Way'
<1>1. /\ pc = "solve" /\ squared = Decoded.iterations /\ Decoded # NoBody /\ locked # NoBody
      /\ Solves(Decoded, squared, value) /\ value \in Nat /\ squared \in Nat
      /\ stored \in Seq(Nat) /\ edits \in Nat
      /\ Answers(goal, request) /\ Kept(locked, goal, request)
      /\ UNCHANGED <<request, goal, locked, stored, edits, token, late, value, squared>>
  BY TimelockAssumption DEF Recover, Way, Locking, Storing, Solving
<1>2. Decoded' = Decoded
  BY <1>1, SameDecoded
<1>3. PICK pass : /\ Open(pass)
                  /\ IF Decoded.password = None THEN pass = None ELSE pass \in {1, 2}
  BY DEF Recover
<1>4. PICK key : key = Unwrap(Decoded.wrapped, WrapKey(value, pass, Decoded.password))
  OBVIOUS
<1>5. /\ pc' = "done" /\ used' = pass
      /\ result' = IF Opens(key) THEN "opened" ELSE "refused"
  BY <1>3, <1>4 DEF Open, Finish
<1>6. Decoded = locked => (Opens(key) <=> pass = request.pass)
  <2> SUFFICES ASSUME Decoded = locked PROVE Opens(key) <=> pass = request.pass
    OBVIOUS
  <2>1. value = Mask(locked)
    BY <1>1, SolvesAll
  <2>2. key = FileKey <=> pass = request.pass
    BY <1>1, <1>3, <1>4, <2>1, KeyOpens
  <2> QED
    BY <2>2 DEF Opens
<1>7. Opens(key) => Decoded = locked
  BY <1>1, SameDigest DEF Opens, Decoded
<1>8. edits = 0 => Decoded = locked
  BY <1>1, Unedited DEF Way
<1>9. Locking'
  BY <1>1, <1>5 DEF Way, Locking
<1>10. Storing'
  BY <1>1 DEF Way, Storing
<1>11. CASE Opens(key)
  <2>1. result' = "opened" /\ Decoded = locked /\ pass = request.pass
    BY <1>5, <1>6, <1>7, <1>11
  <2>2. Solving'
    BY <1>1, <1>2, <1>5, <2>1 DEF Solving
  <2> QED
    BY <1>9, <1>10, <2>2 DEF Way
<1>12. CASE ~Opens(key)
  <2>1. result' = "refused"
    BY <1>5, <1>12
  <2>2. edits > 0 \/ pass # request.pass
    <3>1. edits = 0 => pass # request.pass
      BY <1>6, <1>8, <1>12
    <3> QED
      BY <1>1, <3>1
  <2>3. Solving'
    BY <1>1, <1>2, <1>5, <2>1, <2>2 DEF Solving
  <2> QED
    BY <1>9, <1>10, <2>3 DEF Way
<1> QED
  BY <1>11, <1>12

\* The way of one artifact is as the invariant says, for all primes, all bases
\* and any number of squarings.
THEOREM WayIsKept ==
    Spec => []Way
<1>1. Init => Way
  BY WayAtFirst
<1>2. Way /\ [Next]_vars => Way'
  <2> SUFFICES ASSUME Way, [Next]_vars PROVE Way'
    OBVIOUS
  <2>1. CASE Resolve
    BY <2>1, ResolveStep
  <2>2. CASE RefusePuzzle
    BY <2>2, RefuseStep
  <2>3. CASE CreatePuzzle
    BY <2>3, CreateStep
  <2>4. CASE Change \/ Cut \/ Extend
    BY <2>4, EditStep
  <2>5. CASE StartSolve
    BY <2>5, StartSolveStep
  <2>6. CASE Square
    BY <2>6, SquareWay
  <2>7. CASE Recover
    BY <2>7, RecoverWay
  <2>8. CASE RequestCancel
    <3>1. /\ token' = TRUE
          /\ UNCHANGED <<pc, request, goal, locked, stored, edits, late, value, squared, used,
                         result>>
      BY <2>8 DEF RequestCancel
    <3>2. Decoded' = Decoded
      BY <3>1, SameDecoded
    <3>3. Locking' /\ Storing'
      BY <3>1 DEF Way, Locking, Storing
    <3>4. Solving'
      BY <3>1, <3>2 DEF Way, Solving
    <3> QED
      BY <3>3, <3>4 DEF Way
  <2>9. CASE UNCHANGED vars
    <3>1. UNCHANGED <<pc, request, goal, locked, stored, edits, token, value, squared, used,
                      result>>
      BY <2>9 DEF vars
    <3>2. Decoded' = Decoded
      BY <3>1, SameDecoded
    <3>3. Locking' /\ Storing'
      BY <3>1 DEF Way, Locking, Storing
    <3>4. Solving'
      BY <3>1, <3>2 DEF Way, Solving
    <3> QED
      BY <3>3, <3>4 DEF Way
  <2> QED
    BY <2>1, <2>2, <2>3, <2>4, <2>5, <2>6, <2>7, <2>8, <2>9 DEF Next
<1> QED
  BY <1>1, <1>2, PTL DEF Spec

-------------------------------------------------------------------------------
(* Cancellation of the squaring loop.                                        *)

\* The inductive invariant.  While the loop runs, the squarings since the token
\* was set are among those since the last multiple of CheckEvery, and a turn of
\* the loop, which will look at it, is still to come.
Pending ==
    /\ late \in Nat /\ squared \in Nat /\ late <= CheckEvery
    /\ pc \notin {"solve", "done"} => late = 0 /\ squared = 0
    /\ pc = "solve" =>
          /\ late <= squared % CheckEvery
          /\ late > 0 => token /\ squared # Decoded.iterations
    /\ pc # "done" => result # "opened"
    /\ result = "opened" => late = 0

\* From one multiple to the next the remainder counts.
LEMMA Rest ==
    ASSUME NEW n \in Nat, NEW c \in Nat \ {0}
    PROVE  /\ n % c \in 0..(c - 1) /\ (n + 1) % c \in 0..(c - 1)
           /\ (n + 1) % c = 0 \/ (n + 1) % c = (n % c) + 1
<1>1. PICK q \in Nat, r \in 0..(c - 1) : n = c * q + r /\ r = n % c
  <2>1. n \div c \in Nat
    OBVIOUS
  <2>2. n % c \in 0..(c - 1)
    OBVIOUS
  <2>3. n = c * (n \div c) + (n % c)
    OBVIOUS
  <2> QED
    BY <2>1, <2>2, <2>3
<1>2. PICK s \in Nat, t \in 0..(c - 1) : n + 1 = c * s + t /\ t = (n + 1) % c
  <2>0. PICK m \in Nat : m = n + 1
    OBVIOUS
  <2>1. m \div c \in Nat
    OBVIOUS
  <2>2. m % c \in 0..(c - 1)
    OBVIOUS
  <2>3. m = c * (m \div c) + (m % c)
    OBVIOUS
  <2> QED
    BY <2>0, <2>1, <2>2, <2>3
<1>3. c * q + r + 1 = c * s + t
  BY <1>1, <1>2
<1>4. CASE q < s
  <2>1. c * (q + 1) = c * q + c /\ c * (q + 1) <= c * s
    BY <1>4
  <2>2. t = 0
    BY <1>3, <2>1
  <2> QED
    BY <1>1, <1>2, <2>2
<1>5. CASE s < q
  <2>1. c * (s + 1) = c * s + c /\ c * (s + 1) <= c * q
    BY <1>5
  <2>2. FALSE
    BY <1>3, <2>1
  <2> QED
    BY <2>2
<1>6. CASE s = q
  <2>1. t = r + 1
    BY <1>3, <1>6
  <2> QED
    BY <1>1, <1>2, <2>1
<1> QED
  BY <1>4, <1>5, <1>6

LEMMA SquareStep ==
    ASSUME Pending, Square
    PROVE  Pending'
<1>1. PICK c \in Nat \ {0} : c = CheckEvery
  BY TimelockAssumption
<1>2. /\ late \in Nat /\ squared \in Nat /\ pc = "solve" /\ result # "opened"
      /\ late <= squared % c
  BY <1>1 DEF Pending, Square
<1>3. squared' = squared + 1 /\ stored' = stored /\ token' = token
  BY DEF Square
<1>4. Decoded' = Decoded
  BY <1>3 DEF Decoded
<1>5. PICK r \in 0..(c - 1), t \in 0..(c - 1) :
         r = squared % c /\ t = squared' % c /\ (t = 0 \/ t = r + 1)
  <2>1. /\ squared % c \in 0..(c - 1) /\ (squared + 1) % c \in 0..(c - 1)
        /\ (squared + 1) % c = 0 \/ (squared + 1) % c = (squared % c) + 1
    BY <1>2, Rest
  <2> QED
    BY <1>3, <2>1
<1>6. late + 1 \in Nat /\ late + 1 <= c /\ squared' \in Nat
  BY <1>2, <1>3, <1>5
<1>7. CASE ~token
  <2>1. late' = 0 /\ pc' = "solve" /\ result' = result
    BY <1>2, <1>7 DEF Square
  <2>2. late' <= squared' % CheckEvery
    BY <1>1, <1>5, <2>1
  <2> QED
    BY <1>1, <1>2, <1>3, <1>4, <1>6, <2>1, <2>2 DEF Pending
<1>8. CASE token /\ LooksAtToken(squared')
  <2>1. late' = late + 1 /\ pc' = "done" /\ result' = "cancelled"
    BY <1>8 DEF Square, Finish
  <2> QED
    BY <1>1, <1>6, <2>1 DEF Pending
<1>9. CASE token /\ ~LooksAtToken(squared')
  <2>1. late' = late + 1 /\ pc' = "solve" /\ result' = result
    BY <1>2, <1>9 DEF Square
  <2>2. t # 0 /\ squared' # Decoded.iterations
    BY <1>1, <1>5, <1>9 DEF LooksAtToken
  <2>3. late' <= t
    BY <1>2, <1>5, <2>1, <2>2
  <2> QED
    BY <1>1, <1>2, <1>3, <1>4, <1>5, <1>6, <1>9, <2>1, <2>2, <2>3 DEF Pending
<1> QED
  BY <1>7, <1>8, <1>9

\* What opens has been squared through, so that nothing is pending.
LEMMA RecoverStep ==
    ASSUME Pending, Recover
    PROVE  Pending'
<1>1. late = 0 /\ late' = late /\ squared' = squared /\ squared \in Nat
  BY DEF Pending, Recover
<1>2. pc' = "done"
  BY DEF Recover, Open, Finish
<1> QED
  BY <1>1, <1>2, TimelockAssumption DEF Pending

LEMMA StartStep ==
    ASSUME Pending, StartSolve
    PROVE  Pending'
<1>1. late = 0 /\ squared = 0 /\ late' = 0 /\ squared' = 0 /\ result # "opened"
  BY DEF Pending, StartSolve
<1>2. (pc' = "done" /\ result' \in {"refused", "cancelled"}) \/ (pc' = "solve" /\ result' = result)
  BY DEF StartSolve, Finish
<1>3. PICK c \in Nat \ {0} : c = CheckEvery
  BY TimelockAssumption
<1>4. 0 % c >= 0
  BY <1>3, Rest
<1> QED
  BY <1>1, <1>2, <1>3, <1>4 DEF Pending

\* Locking and edits come before the loop, and leave its variables alone.
LEMMA BeforeStep ==
    ASSUME Pending, Resolve \/ RefusePuzzle \/ CreatePuzzle \/ Change \/ Cut \/ Extend
    PROVE  Pending'
<1>1. late = 0 /\ squared = 0 /\ result # "opened"
  BY DEF Pending, Resolve, RefusePuzzle, CreatePuzzle, Change, Cut, Extend, Edit
<1>2. late' = late /\ squared' = squared
  BY DEF Resolve, RefusePuzzle, CreatePuzzle, Change, Cut, Extend, Edit
<1>3. pc' # "solve" /\ (pc' = "done" \/ result' = result)
  <2>1. CASE Resolve
    <3>1. ASSUME NEW rate, ResolveAt(rate) PROVE pc' # "solve" /\ (pc' = "done" \/ result' = result)
      BY <3>1 DEF ResolveAt, Finish
    <3> QED
      BY <2>1, <3>1 DEF Resolve, Finish
  <2>2. CASE RefusePuzzle
    BY <2>2 DEF RefusePuzzle, Finish
  <2>3. CASE CreatePuzzle
    BY <2>3 DEF CreatePuzzle
  <2>4. CASE Change \/ Cut \/ Extend
    BY <2>4 DEF Change, Cut, Extend, Edit
  <2> QED
    BY <2>1, <2>2, <2>3, <2>4
<1> QED
  BY <1>1, <1>2, <1>3, TimelockAssumption DEF Pending

THEOREM Inductive ==
    Spec => []Pending
<1>1. Init => Pending
  BY TimelockAssumption DEF Init, Pending
<1>2. Pending /\ [Next]_vars => Pending'
  <2> SUFFICES ASSUME Pending, [Next]_vars PROVE Pending'
    OBVIOUS
  <2>1. CASE Resolve \/ RefusePuzzle \/ CreatePuzzle \/ Change \/ Cut \/ Extend
    BY <2>1, BeforeStep
  <2>2. CASE StartSolve
    BY <2>2, StartStep
  <2>3. CASE Square
    BY <2>3, SquareStep
  <2>4. CASE Recover
    BY <2>4, RecoverStep
  <2>5. CASE RequestCancel
    <3>1. token' = TRUE /\ UNCHANGED <<pc, stored, late, squared, result>>
      BY <2>5 DEF RequestCancel
    <3>2. Decoded' = Decoded
      BY <3>1 DEF Decoded
    <3> QED
      BY <3>1, <3>2 DEF Pending
  <2>6. CASE UNCHANGED vars
    <3>1. UNCHANGED <<pc, stored, token, late, squared, result>>
      BY <2>6 DEF vars
    <3>2. Decoded' = Decoded
      BY <3>1 DEF Decoded
    <3> QED
      BY <3>1, <3>2 DEF Pending
  <2> QED
    BY <2>1, <2>2, <2>3, <2>4, <2>5, <2>6 DEF Next
<1> QED
  BY <1>1, <1>2, PTL DEF Spec

\* A cancellation is answered within CheckEvery squarings, and never missed, for
\* any number of squarings and any two distances between looks at the token
\* (puzzle_service.rs:160).
THEOREM CancelledInTime ==
    Spec => []CancelIsPrompt
<1>1. Pending => CancelIsPrompt
  BY DEF Pending, CancelIsPrompt
<1> QED
  BY <1>1, Inductive, PTL

-------------------------------------------------------------------------------
(* What every run of the artifact's way shows.                                *)

\* The variables keep their types, and a lock never resolves to zero squarings,
\* whatever is asked for and however the superblock is edited.
THEOREM TypesAreKept ==
    Spec => []TypeOK
<1>1. Way /\ Pending => TypeOK
  <2> SUFFICES ASSUME Way, Pending PROVE TypeOK
    OBVIOUS
  <2>1. locked \in Bodies \cup {NoBody}
    BY DEF Way, Locking, Kept
  <2>2. \/ goal = None
        \/ goal.iterations \in 1..MaxU64 /\ goal.profile \in Profiles \cup {CurrentMachine}
    BY DEF Way, Locking, Answers
  <2>3. /\ pc \in {"request", "puzzle", "stored", "solve", "done"} /\ request \in Requests
        /\ stored \in Seq(Nat) /\ edits \in 0..MaxEdits /\ token \in BOOLEAN
        /\ value \in Nat /\ squared \in Nat
        /\ result \in {"none", "error", "panic", "cancelled", "refused", "opened"}
    BY DEF Way, Locking, Storing, Solving
  <2>4. late \in Nat
    BY DEF Pending
  <2> QED
    BY <2>1, <2>2, <2>3, <2>4 DEF TypeOK
<1> QED
  BY <1>1, WayIsKept, Inductive, PTL

\* An artifact that nobody edited opens for its passphrase, whatever primes and
\* base its puzzle was made of: the short way by the factors and the long way of
\* the solver end at one number, and what is written is read back
\* (puzzle_service.rs:25 and 136, superblock_body.rs:71 and 97).
THEOREM AlwaysReopens ==
    Spec => []Reopens
<1>1. Way => Reopens
  BY DEF Way, Solving, Reopens
<1> QED
  BY <1>1, WayIsKept, PTL

\* What opens is what was locked, with its passphrase and after the squarings
\* that its delay stands for: no edit of the superblock gets around them
\* (unlock.rs, superblock_body.rs:97, lock_difficulty.rs:47).
THEOREM NeverOpensSooner ==
    Spec => []OpensOnlyAfterTheDelay
<1>1. Way => OpensOnlyAfterTheDelay
  <2> SUFFICES ASSUME Way, result = "opened"
               PROVE  /\ Decoded = locked /\ used = request.pass
                      /\ IF request.iterations # None THEN squared = request.iterations
                         ELSE LET delay == request.target.amount
                                              * SecondsPerUnit(request.target.unit)
                              IN  /\ delay > 0 /\ squared >= delay /\ squared % delay = 0
                                  /\ goal.profile \in Profiles =>
                                        squared = delay * Rate[goal.profile]
    BY DEF OpensOnlyAfterTheDelay
  <2>1. /\ Decoded = locked /\ used = request.pass /\ squared = locked.iterations
        /\ Answers(goal, request) /\ Kept(locked, goal, request)
    BY DEF Way, Locking, Solving
  <2>2. squared = goal.iterations
    BY <2>1 DEF Kept
  <2>3. CASE request.iterations # None
    BY <2>1, <2>2, <2>3 DEF Answers
  <2>4. CASE request.iterations = None
    <3>1. PICK delay \in Nat \ {0}, perSecond \in Nat \ {0} :
             /\ delay = Seconds(request.target)
             /\ goal.iterations = delay * perSecond
             /\ goal.profile \in Profiles => perSecond = Rate[goal.profile]
      <4>1. goal.target = Seconds(request.target) /\ goal.target \in Nat \ {0}
        BY <2>1, <2>4, DifficultyAssumption DEF Answers
      <4>2. PICK perSecond \in Nat \ {0} :
               /\ goal.iterations = goal.target * perSecond
               /\ goal.profile \in Profiles => perSecond = Rate[goal.profile]
        BY <2>1, <2>4 DEF Answers
      <4> QED
        BY <4>1, <4>2
    <3>2. PICK n \in Nat : n = delay * perSecond /\ n >= delay
      BY Product
    <3>3. n % delay = 0
      <4>1. n = delay * perSecond + 0 /\ 0 \in 0..(delay - 1)
        BY <3>2
      <4> QED
        BY <4>1, Remainder
    <3> QED
      BY <2>1, <2>2, <2>4, <3>1, <3>2, <3>3 DEF Seconds
  <2> QED
    BY <2>3, <2>4
<1> QED
  BY <1>1, WayIsKept, PTL

\* No beginning of a superblock body, edited or not, is a body but the whole of
\* it (superblock_body.rs:97).
THEOREM CutIsRefused ==
    Spec => []SelfDelimiting
<1>1. Way => SelfDelimiting
  <2> SUFFICES ASSUME Way, Decoded # NoBody, NEW k \in 0..(Len(stored) - 1)
               PROVE  decode_superblock_body(SubSeq(stored, 1, k)) = NoBody
    BY DEF SelfDelimiting
  <2>1. stored \in Seq(Nat)
    BY DEF Way, Storing
  <2>2. k \in Nat /\ k < Len(stored)
    BY <2>1
  <2> QED
    BY <2>1, <2>2, NoBeginning DEF Decoded
<1> QED
  BY <1>1, WayIsKept, PTL

\* Inspection shows what was asked for, the delay exactly (inspect.rs,
\* header.rs, delay_estimation.rs:44-73).
THEOREM InspectionIsExact ==
    Spec => []ShowsTheTarget
<1>1. Way => ShowsTheTarget
  <2> SUFFICES ASSUME Way, pc = "stored", edits = 0
               PROVE  LET shown == Inspect(request.rate)
                      IN  /\ shown.header.target = goal.target
                          /\ shown.header.protected <=> request.pass # None
                          /\ shown.header.name = request.name
                          /\ shown.onProfile = None <=> goal.profile = CurrentMachine
                          /\ goal.target # None /\ goal.profile \in Profiles =>
                                shown.onProfile = goal.target
                          /\ goal.target # None /\ RateOfRequest(request) # None =>
                                shown.onCurrentMachine = goal.target
    BY DEF ShowsTheTarget
  <2>1. /\ locked # NoBody /\ Answers(goal, request) /\ Kept(locked, goal, request)
        /\ request \in Requests
    BY DEF Way, Locking
  <2>2. Decoded = locked
    BY <2>1, Unedited DEF Way
  <2>3. /\ locked.iterations = goal.iterations /\ locked.target = goal.target
        /\ locked.profile = <<goal.profile>> /\ locked.name = request.name
        /\ locked.password = None <=> request.pass = None
    <3>1. request.pass \in {None, 0, 1, 2}
      BY <2>1 DEF Kept
    <3> QED
      BY <2>1, <3>1, Protection DEF Kept
  <2>4. PICK shown : shown = Inspect(request.rate)
    OBVIOUS
  <2>5. /\ shown.header.target = goal.target /\ shown.header.name = request.name
        /\ shown.header.protected <=> request.pass # None
    BY <2>2, <2>3, <2>4 DEF Inspect, Header
  <2>6. shown.onProfile = OnProfile(goal.iterations, goal.profile)
    <3>1. Len(locked.profile) = 1 /\ locked.profile[1] = goal.profile
      BY <2>3
    <3> QED
      BY <2>2, <2>3, <2>4, <3>1 DEF Inspect
  <2>7. shown.onCurrentMachine = OnCurrentMachine(goal.iterations, request.rate)
    BY <2>2, <2>3, <2>4 DEF Inspect
  <2>8. /\ goal.iterations \in Nat /\ goal.profile \in Profiles \cup {CurrentMachine}
        /\ \A p \in Profiles : Rate[p] \in Nat \ {0}
    BY <2>1, DifficultyAssumption DEF Answers, Profiles
  <2>9. shown.onProfile = None <=> goal.profile = CurrentMachine
    <3>1. CASE goal.profile \in Profiles
      <4>1. goal.iterations \div Rate[goal.profile] \in Nat
        BY <2>8, <3>1, Division
      <4> QED
        BY <2>6, <3>1, <4>1, NoRateOfItsOwn, DifficultyAssumption DEF OnProfile
    <3>2. CASE goal.profile = CurrentMachine
      BY <2>6, <3>2, NoRateOfItsOwn DEF OnProfile
    <3> QED
      BY <2>8, <3>1, <3>2
  <2>10. ASSUME goal.target # None
         PROVE  \E perSecond \in Nat \ {0} :
                   /\ goal.iterations \div perSecond = goal.target
                   /\ goal.profile \in Profiles => perSecond = Rate[goal.profile]
                   /\ RateOfRequest(request) # None => perSecond = RateOfRequest(request)
    <3>1. request.iterations = None
      BY <2>1, <2>10 DEF Answers
    <3>2. goal.target \in Nat
      BY <2>1, <3>1, DifficultyAssumption DEF Answers
    <3>3. PICK perSecond \in Nat \ {0} :
             /\ goal.iterations = goal.target * perSecond
             /\ goal.profile \in Profiles => perSecond = Rate[goal.profile]
             /\ RateOfRequest(request) # None => perSecond = RateOfRequest(request)
      BY <2>1, <3>1 DEF Answers
    <3>4. PICK t \in Nat, n \in Nat : t = goal.target /\ n = perSecond * t /\ n = goal.iterations
      <4>1. PICK t \in Nat : t = goal.target
        BY <3>2
      <4>2. perSecond * t = t * perSecond /\ perSecond * t \in Nat
        BY Product
      <4> QED
        BY <3>3, <4>1, <4>2
    <3>5. n \div perSecond = t
      <4>1. perSecond * t <= n /\ n < perSecond * t + perSecond
        BY <3>4
      <4> QED
        BY <4>1, Quotient
    <3> QED
      BY <3>3, <3>4, <3>5
  <2>11. goal.target # None /\ goal.profile \in Profiles => shown.onProfile = goal.target
    BY <2>6, <2>10 DEF OnProfile
  <2>12. goal.target # None /\ RateOfRequest(request) # None =>
            shown.onCurrentMachine = goal.target
    <3> SUFFICES ASSUME goal.target # None, RateOfRequest(request) # None
                 PROVE  shown.onCurrentMachine = goal.target
      OBVIOUS
    <3>1. PICK perSecond \in Nat \ {0} :
             goal.iterations \div perSecond = goal.target /\ perSecond = RateOfRequest(request)
      BY <2>10
    <3>2. RateOfRequest(request) = request.rate
      BY DEF RateOfRequest
    <3> QED
      BY <2>7, <3>1, <3>2 DEF OnCurrentMachine, estimate_duration_seconds_for_rate
  <2> QED
    BY <2>4, <2>5, <2>9, <2>11, <2>12
<1> QED
  BY <1>1, WayIsKept, PTL

================================================================================
