--------------------------- MODULE ArithmeticProofs ---------------------------
(***************************************************************************)
(* What the proofs of the other modules need of the natural numbers, and   *)
(* what those of the puzzle need of prime numbers.  Induction is over sets *)
(* of numbers: a set that has 0 and the successor of each of its elements  *)
(* has every natural number.                                               *)
(***************************************************************************)
EXTENDS Arithmetic, Sequences, SequencesExt, WellFoundedInduction, FiniteSetTheorems, TLAPS

-------------------------------------------------------------------------------
(* Induction and recursion.                                                  *)

LEMMA Order ==
    \E R : IsWellFoundedOn(R, Nat) /\ \A x, y \in Nat : x < y => <<x, y>> \in R
<1>1. \A x, y \in Nat : x < y => <<x, y>> \in OpToRel(<, Nat)
  BY DEF OpToRel
<1> QED
  BY <1>1, NatLessThanWellFounded

\* A set of natural numbers has a least element.
LEMMA Least ==
    ASSUME NEW T, T \subseteq Nat, T # {}
    PROVE  \E x \in T : \A y \in T : x <= y
<1>1. PICK R : IsWellFoundedOn(R, Nat) /\ \A x, y \in Nat : x < y => <<x, y>> \in R
  BY Order
<1>2. PICK x \in T : \A y \in T : ~(<<y, x>> \in R)
  BY <1>1, WFMin, ZenonT(120)
<1>3. \A y \in T : ~(y < x)
  BY <1>1, <1>2
<1>4. \A y \in T : x <= y
  BY <1>3
<1> QED
  BY <1>4

LEMMA SetInduction ==
    ASSUME NEW T, 0 \in T, \A n \in Nat : n \in T => n + 1 \in T
    PROVE  Nat \subseteq T
<1> SUFFICES ASSUME Nat \ T # {} PROVE FALSE
  OBVIOUS
<1>1. PICK x \in Nat \ T : \A y \in Nat \ T : x <= y
  BY Least
<1>2. x - 1 \in Nat /\ x - 1 \in T
  BY <1>1
<1> QED
  BY <1>1, <1>2

\* The same, from all smaller numbers.
LEMMA StrongInduction ==
    ASSUME NEW T, \A n \in Nat : (\A m \in Nat : m < n => m \in T) => n \in T
    PROVE  Nat \subseteq T
<1> SUFFICES ASSUME Nat \ T # {} PROVE FALSE
  OBVIOUS
<1>1. PICK x \in Nat \ T : \A y \in Nat \ T : x <= y
  BY Least
<1>2. \A m \in Nat : m < x => m \in T
  BY <1>1
<1> QED
  BY <1>1, <1>2

\* A set of natural numbers with a bound has a greatest element.
LEMMA Greatest ==
    ASSUME NEW b \in Nat, NEW T, T \subseteq 0..b, T # {}
    PROVE  \E x \in T : \A y \in T : y <= x
<1> DEFINE D == {y \in Nat : \E x \in T : y = b - x}
<1>1. D \subseteq Nat /\ D # {}
  <2>1. PICK x \in T : x \in 0..b
    OBVIOUS
  <2>2. b - x \in Nat
    BY <2>1
  <2>3. b - x \in D
    BY <2>1, <2>2
  <2> QED
    BY <2>3
<1> HIDE DEF D
<1>2. PICK d \in D : \A y \in D : d <= y
  BY <1>1, Least
<1>3. PICK x \in T : d = b - x
  BY DEF D
<1>4. \A y \in T : y <= x
  <2> TAKE y \in T
  <2>1. b - y \in D /\ y \in 0..b
    BY DEF D
  <2>2. b - x <= b - y
    BY <1>2, <1>3, <2>1
  <2> QED
    BY <2>2
<1> QED
  BY <1>4

\* g begins with v0 and follows the steps h up to n.
Begins(V, v0, h, n, g) ==
    /\ g \in [0..n -> V] /\ g[0] = v0
    /\ \A i \in 0..(n - 1) : g[i + 1] = h[i][g[i]]

LEMMA BeginningExists ==
    ASSUME NEW V, NEW v0 \in V, NEW h \in [Nat -> [V -> V]], NEW n \in Nat
    PROVE  \E g : Begins(V, v0, h, n, g)
<1> DEFINE T == {m \in Nat : \E g : Begins(V, v0, h, m, g)}
<1>1. 0 \in T
  <2>1. Begins(V, v0, h, 0, [i \in 0..0 |-> v0])
    BY DEF Begins
  <2> QED
    BY <2>1
<1>2. ASSUME NEW m \in Nat, m \in T PROVE m + 1 \in T
  <2>1. PICK g : Begins(V, v0, h, m, g)
    BY <1>2
  <2> DEFINE e == [i \in 0..(m + 1) |-> IF i = m + 1 THEN h[m][g[m]] ELSE g[i]]
  <2>2. g[m] \in V /\ h[m] \in [V -> V]
    BY <2>1 DEF Begins
  <2>3. e \in [0..(m + 1) -> V] /\ e[0] = v0
    BY <2>1, <2>2 DEF Begins
  <2>4. ASSUME NEW i \in 0..m PROVE e[i + 1] = h[i][e[i]]
    <3>1. CASE i = m
      BY <3>1, <2>1
    <3>2. CASE i # m
      <4>1. i \in 0..(m - 1) /\ i + 1 \in 0..m
        BY <3>2
      <4> QED
        BY <4>1, <2>1 DEF Begins
    <3> QED
      BY <3>1, <3>2
  <2>5. Begins(V, v0, h, m + 1, e)
    <3> HIDE DEF e
    <3>1. m + 1 - 1 = m
      OBVIOUS
    <3> QED
      BY <2>3, <2>4, <3>1 DEF Begins
  <2> QED
    BY <2>5
<1> HIDE DEF T
<1>3. Nat \subseteq T
  BY <1>1, <1>2, SetInduction
<1> QED
  BY <1>3 DEF T

LEMMA BeginningsAgree ==
    ASSUME NEW V, NEW v0, NEW h, NEW m \in Nat, NEW n \in Nat, m <= n,
           NEW f, Begins(V, v0, h, m, f), NEW g, Begins(V, v0, h, n, g)
    PROVE  f[m] = g[m]
<1> DEFINE U == {i \in Nat : i <= m => f[i] = g[i]}
<1>1. 0 \in U
  BY DEF Begins
<1>2. ASSUME NEW i \in Nat, i \in U PROVE i + 1 \in U
  <2>1. CASE i + 1 <= m
    <3>1. i \in 0..(m - 1) /\ i \in 0..(n - 1)
      BY <2>1
    <3>2. f[i] = g[i]
      BY <1>2, <2>1
    <3> QED
      BY <3>1, <3>2 DEF Begins
  <2> QED
    BY <2>1
<1> HIDE DEF U
<1>3. Nat \subseteq U
  BY <1>1, <1>2, SetInduction
<1> QED
  BY <1>3 DEF U

Follows(V, v0, h, g) ==
    /\ g \in [Nat -> V] /\ g[0] = v0
    /\ \A n \in Nat : g[n + 1] = h[n][g[n]]

\* A function that is given its first value, and each further one from the last.
LEMMA Recursion ==
    ASSUME NEW V, NEW v0 \in V, NEW h \in [Nat -> [V -> V]]
    PROVE  \E g : Follows(V, v0, h, g)
<1> DEFINE part(n) == CHOOSE g : Begins(V, v0, h, n, g)
           whole == [n \in Nat |-> part(n)[n]]
<1>1. ASSUME NEW n \in Nat PROVE Begins(V, v0, h, n, part(n))
  <2>1. \E g : Begins(V, v0, h, n, g)
    BY BeginningExists
  <2> QED
    BY <2>1, Zenon
<1> HIDE DEF part
<1>2. ASSUME NEW n \in Nat PROVE part(n)[n] \in V
  BY <1>1 DEF Begins
<1>3. whole \in [Nat -> V]
  BY <1>2
<1>4. whole[0] = v0
  BY <1>1 DEF Begins
<1>5. ASSUME NEW n \in Nat PROVE whole[n + 1] = h[n][whole[n]]
  <2>1. Begins(V, v0, h, n, part(n)) /\ Begins(V, v0, h, n + 1, part(n + 1))
    BY <1>1
  <2>2. part(n)[n] = part(n + 1)[n]
    BY <2>1, BeginningsAgree
  <2>3. part(n + 1)[n + 1] = h[n][part(n + 1)[n]]
    <3>1. n \in 0..(n + 1 - 1)
      OBVIOUS
    <3> QED
      BY <2>1, <3>1 DEF Begins
  <2> QED
    BY <2>2, <2>3
<1> QED
  BY <1>3, <1>4, <1>5 DEF Follows

-------------------------------------------------------------------------------
(* Folds.  FoldLeft takes the largest index off a set of indices, again and   *)
(* again; the step for index i is h[i].                                      *)

LEMMA MaxIs ==
    ASSUME NEW m \in Nat, NEW T, T \subseteq 1..m, T # {}
    PROVE  Max(T) \in T /\ \A x \in T : x <= Max(T)
<1>1. T \subseteq 0..m
  OBVIOUS
<1>2. PICK x \in T : \A y \in T : y <= x
  BY <1>1, Greatest
<1>3. \E z \in T : \A y \in T : z >= y
  BY <1>2
<1>4. Max(T) \in T /\ \A y \in T : Max(T) >= y
  BY <1>3 DEF Max
<1> QED
  BY <1>4

LEMMA MaxOfInterval ==
    ASSUME NEW m \in Nat
    PROVE  Max(1..(m + 1)) = m + 1 /\ (1..(m + 1)) \ {m + 1} = 1..m
<1>1. m + 1 \in 1..(m + 1) /\ m + 1 \in Nat
  OBVIOUS
<1>2. Max(1..(m + 1)) \in 1..(m + 1) /\ m + 1 <= Max(1..(m + 1))
  BY <1>1, MaxIs
<1>3. Max(1..(m + 1)) = m + 1
  BY <1>2
<1>4. (1..(m + 1)) \ {m + 1} = 1..m
  OBVIOUS
<1> QED
  BY <1>3, <1>4

FoldsUp(V, v0, h, m, it) ==
    /\ it \in [SUBSET (1..m) -> V]
    /\ \A T \in SUBSET (1..m) :
          it[T] = IF T = {} THEN v0 ELSE h[Max(T)][it[T \ {Max(T)}]]

\* There is a function that a fold may follow.
LEMMA FoldExists ==
    ASSUME NEW V, NEW v0 \in V, NEW h \in [Nat -> [V -> V]], NEW m \in Nat
    PROVE  \E it : FoldsUp(V, v0, h, m, it)
<1> DEFINE D == {k \in Nat : \E it : FoldsUp(V, v0, h, k, it)}
<1>1. 0 \in D
  <2>1. PICK it : it = [T \in SUBSET (1..0) |-> v0]
    OBVIOUS
  <2>2. \A T \in SUBSET (1..0) : T = {}
    OBVIOUS
  <2>3. FoldsUp(V, v0, h, 0, it)
    BY <2>1, <2>2 DEF FoldsUp
  <2> QED
    BY <2>3
<1>2. ASSUME NEW k \in Nat, k \in D PROVE k + 1 \in D
  <2>1. PICK it : FoldsUp(V, v0, h, k, it)
    BY <1>2
  <2>2. it \in [SUBSET (1..k) -> V]
    BY <2>1 DEF FoldsUp
  <2>3. \A T \in SUBSET (1..(k + 1)) : T \ {k + 1} \in SUBSET (1..k)
    OBVIOUS
  <2>4. PICK up : up = [T \in SUBSET (1..(k + 1)) |->
                          IF k + 1 \in T THEN h[k + 1][it[T \ {k + 1}]] ELSE it[T]]
    OBVIOUS
  <2>5. \A T \in SUBSET (1..(k + 1)) : k + 1 \notin T => T \in SUBSET (1..k) /\ up[T] = it[T]
    BY <2>4
  <2>6. up \in [SUBSET (1..(k + 1)) -> V]
    <3>1. ASSUME NEW T \in SUBSET (1..(k + 1)) PROVE up[T] \in V
      <4>1. CASE k + 1 \in T
        <5>1. it[T \ {k + 1}] \in V /\ h[k + 1] \in [V -> V]
          BY <2>2, <2>3
        <5> QED
          BY <2>4, <4>1, <5>1
      <4>2. CASE k + 1 \notin T
        BY <2>2, <2>5, <4>2
      <4> QED
        BY <4>1, <4>2
    <3> QED
      BY <2>4, <3>1
  <2>7. ASSUME NEW T \in SUBSET (1..(k + 1))
        PROVE  up[T] = IF T = {} THEN v0 ELSE h[Max(T)][up[T \ {Max(T)}]]
    <3>1. CASE k + 1 \in T
      <4>1. Max(T) = k + 1
        <5>1. k + 1 \in Nat /\ T \subseteq 1..(k + 1) /\ T # {}
          BY <3>1
        <5>2. Max(T) \in 1..(k + 1) /\ k + 1 <= Max(T)
          BY <3>1, <5>1, MaxIs
        <5> QED
          BY <5>2
      <4>2. T \ {k + 1} \in SUBSET (1..(k + 1)) /\ k + 1 \notin T \ {k + 1}
        OBVIOUS
      <4>3. up[T \ {k + 1}] = it[T \ {k + 1}]
        BY <2>5, <4>2
      <4>4. up[T] = h[k + 1][it[T \ {k + 1}]]
        BY <2>4, <3>1
      <4> QED
        BY <3>1, <4>1, <4>3, <4>4
    <3>2. CASE k + 1 \notin T
      <4>1. T \in SUBSET (1..k) /\ up[T] = it[T]
        BY <2>5, <3>2
      <4>2. it[T] = IF T = {} THEN v0 ELSE h[Max(T)][it[T \ {Max(T)}]]
        BY <2>1, <4>1 DEF FoldsUp
      <4>3. up[T \ {Max(T)}] = it[T \ {Max(T)}]
        BY <2>5, <3>2
      <4> QED
        BY <4>1, <4>2, <4>3
    <3> QED
      BY <3>1, <3>2
  <2>8. FoldsUp(V, v0, h, k + 1, up)
    BY <2>6, <2>7 DEF FoldsUp
  <2> QED
    BY <2>8
<1> HIDE DEF D
<1>3. Nat \subseteq D
  BY <1>1, <1>2, SetInduction
<1> QED
  BY <1>3 DEF D

-------------------------------------------------------------------------------
(* Division.                                                                 *)

\* Division with remainder.
LEMMA Division ==
    ASSUME NEW a \in Nat, NEW b \in Nat \ {0}
    PROVE  /\ a \div b \in Nat /\ a % b \in 0..(b - 1)
           /\ a = b * (a \div b) + (a % b)
<1>1. a \div b \in Nat
  OBVIOUS
<1>2. a % b \in 0..(b - 1)
  OBVIOUS
<1>3. a = b * (a \div b) + (a % b)
  OBVIOUS
<1> QED
  BY <1>1, <1>2, <1>3

\* Of two factors, neither of them zero, none is larger than the product.
LEMMA Product ==
    ASSUME NEW a \in Nat, NEW b \in Nat
    PROVE  /\ a * b \in Nat
           /\ a # 0 /\ b # 0 => a * b # 0 /\ a <= a * b /\ b <= a * b
OBVIOUS

\* The quotient is the number of times that b fits.
LEMMA Quotient ==
    ASSUME NEW a \in Nat, NEW b \in Nat \ {0}, NEW q \in Nat, b * q <= a, a < b * q + b
    PROVE  a \div b = q
<1>1. PICK d \in Nat : d = a \div b /\ b * d <= a /\ a < b * d + b
  BY Division
<1>2. CASE d > q
  <2>1. b * (q + 1) = b * q + b /\ b * (q + 1) <= b * d
    BY <1>2
  <2> QED
    BY <1>1, <2>1
<1>3. CASE d < q
  <2>1. b * (d + 1) = b * d + b /\ b * (d + 1) <= b * q
    BY <1>3
  <2> QED
    BY <1>1, <2>1
<1> QED
  BY <1>1, <1>2, <1>3

\* More divided by the same, or the same divided by less, is no less.
LEMMA Monotone ==
    ASSUME NEW a \in Nat, NEW b \in Nat \ {0}, NEW c \in Nat, NEW d \in Nat \ {0},
           a <= c, d <= b
    PROVE  a \div b <= c \div d
<1>1. PICK q \in Nat : q = a \div b /\ b * q <= a
  BY Division
<1>2. PICK p \in Nat : p = c \div d /\ c < d * p + d
  BY Division
<1>3. CASE q > p
  <2>1. d * (p + 1) = d * p + d /\ d * (p + 1) <= d * q /\ d * q <= b * q
    BY <1>3
  <2> QED
    BY <1>1, <1>2, <2>1
<1> QED
  BY <1>1, <1>2, <1>3

\* Quotient and remainder are determined.
LEMMA Remainder ==
    ASSUME NEW a \in Nat, NEW n \in Nat \ {0}, NEW q \in Nat, NEW r \in 0..(n - 1), a = n * q + r
    PROVE  a \div n = q /\ a % n = r
<1>1. n * q \in Nat
  BY Product
<1>2. a \div n = q
  BY <1>1, Quotient
<1>3. a = n * (a \div n) + (a % n) /\ a % n \in 0..(n - 1)
  BY Division
<1> QED
  BY <1>2, <1>3

LEMMA SmallRemainder ==
    ASSUME NEW n \in Nat \ {0}, NEW r \in Nat, r < n
    PROVE  r % n = r
<1>1. r = n * 0 + r /\ r \in 0..(n - 1) /\ 0 \in Nat
  OBVIOUS
<1> QED
  BY <1>1, Remainder

LEMMA DividesDef ==
    ASSUME NEW d \in Nat \ {0}, NEW n \in Nat
    PROVE  Divides(d, n) <=> \E k \in Nat : n = d * k
<1>1. Divides(d, n) => \E k \in Nat : n = d * k
  <2>1. n \div d \in Nat /\ n = d * (n \div d) + (n % d)
    BY Division
  <2>2. ASSUME n % d = 0 PROVE n = d * (n \div d)
    BY <2>1, <2>2, Product
  <2> QED
    BY <2>1, <2>2 DEF Divides
<1>2. ASSUME NEW k \in Nat, n = d * k PROVE Divides(d, n)
  <2>1. n = d * k + 0 /\ 0 \in 0..(d - 1)
    BY <1>2, Product
  <2> QED
    BY <2>1, Remainder DEF Divides
<1> QED
  BY <1>1, <1>2

\* a and b leave the same remainder when they are divided by n.
Same(a, b, n) == \E k \in Int : a = b + n * k

LEMMA Distribute ==
    ASSUME NEW n \in Int, NEW a \in Int, NEW b \in Int
    PROVE  n * (a + b) = n * a + n * b /\ n * (a - b) = n * a - n * b /\ n * (-a) = -(n * a)
OBVIOUS

LEMMA SameSymmetric ==
    ASSUME NEW n \in Nat, NEW a \in Int, NEW b \in Int, Same(a, b, n)
    PROVE  Same(b, a, n)
<1>1. PICK k \in Int : a = b + n * k
  BY DEF Same
<1>2. b = a + n * (-k)
  BY <1>1
<1> QED
  BY <1>2 DEF Same

LEMMA SameTransitive ==
    ASSUME NEW n \in Nat, NEW a \in Int, NEW b \in Int, NEW c \in Int,
           Same(a, b, n), Same(b, c, n)
    PROVE  Same(a, c, n)
<1>1. PICK k \in Int : a = b + n * k
  BY DEF Same
<1>2. PICK l \in Int : b = c + n * l
  BY DEF Same
<1>3. a = c + n * (k + l)
  BY <1>1, <1>2
<1>4. k + l \in Int
  OBVIOUS
<1> QED
  BY <1>3, <1>4 DEF Same

LEMMA SameTimes ==
    ASSUME NEW n \in Nat, NEW a \in Int, NEW b \in Int, NEW c \in Int, NEW d \in Int,
           Same(a, b, n), Same(c, d, n)
    PROVE  Same(a * c, b * d, n)
<1>1. PICK k \in Int : a = b + n * k
  BY DEF Same
<1>2. PICK l \in Int : c = d + n * l
  BY DEF Same
<1>3. a * c = b * d + n * (b * l + k * d + n * (k * l))
  BY <1>1, <1>2
<1>4. b * l + k * d + n * (k * l) \in Int
  OBVIOUS
<1> QED
  BY <1>3, <1>4 DEF Same

\* A multiple of n that is smaller than n is zero.
LEMMA SmallMultiple ==
    ASSUME NEW n \in Nat \ {0}, NEW k \in Int, n * k < n, -n < n * k
    PROVE  k = 0
<1>1. CASE k >= 1
  <2>1. n * k >= n
    BY <1>1
  <2> QED
    BY <2>1
<1>2. CASE k <= -1
  <2>1. n * (-k) >= n /\ n * (-k) = -(n * k)
    BY <1>2
  <2> QED
    BY <2>1
<1> QED
  BY <1>1, <1>2

LEMMA SameRemainder ==
    ASSUME NEW n \in Nat \ {0}, NEW a \in Nat, NEW b \in Nat
    PROVE  Same(a, b, n) <=> a % n = b % n
<1>1. PICK q \in Nat, r \in 0..(n - 1) : a = n * q + r /\ r = a % n
  BY Division
<1>2. PICK s \in Nat, t \in 0..(n - 1) : b = n * s + t /\ t = b % n
  BY Division
<1>3. ASSUME r = t PROVE Same(a, b, n)
  <2>1. PICK x \in Int, y \in Int : x = n * q /\ y = n * s /\ a = x + r /\ b = y + t
    BY <1>1, <1>2
  <2>2. n * (q - s) = x - y /\ q - s \in Int
    BY <2>1, Distribute
  <2>3. a = b + n * (q - s)
    <3> HIDE <1>1, <1>2
    <3> QED
      BY <1>3, <2>1, <2>2
  <2> QED
    BY <2>2, <2>3 DEF Same
<1>4. ASSUME NEW k \in Int, a = b + n * k PROVE r = t
  <2>1. n * (s + k - q) = r - t /\ s + k - q \in Int
    <3>1. PICK x \in Int, y \in Int, z \in Int : /\ x = n * q /\ y = n * s /\ z = n * k
                                               /\ a = x + r /\ b = y + t /\ a = b + z
      BY <1>1, <1>2, <1>4
    <3>2. n * (s + k - q) = n * (s + k) - x /\ n * (s + k) = y + z
      BY <3>1, Distribute
    <3> QED
      BY <3>1, <3>2
  <2>2. r - t < n /\ -n < r - t
    OBVIOUS
  <2>3. s + k - q = 0
    BY <2>1, <2>2, SmallMultiple
  <2> QED
    BY <2>1, <2>3
<1> QED
  BY <1>1, <1>2, <1>3, <1>4 DEF Same

LEMMA SameAsRemainder ==
    ASSUME NEW n \in Nat \ {0}, NEW a \in Nat
    PROVE  a % n \in Nat /\ a % n < n /\ Same(a, a % n, n) /\ Same(a % n, a, n)
<1>1. PICK q \in Nat, r \in 0..(n - 1) : a = n * q + r /\ r = a % n
  BY Division
<1>2. a = r + n * q
  BY <1>1
<1>3. Same(a, r, n)
  BY <1>2 DEF Same
<1> QED
  BY <1>1, <1>3, SameSymmetric
-------------------------------------------------------------------------------
(* Prime numbers.                                                            *)

\* Euclid's lemma, from the least x whose product with a is a multiple of p: it
\* divides every other one, p and b among them.
LEMMA Euclid ==
    ASSUME NEW p \in Nat, IsPrime(p), NEW a \in Nat, NEW b \in Nat, Divides(p, a * b)
    PROVE  Divides(p, a) \/ Divides(p, b)
<1> SUFFICES ASSUME ~Divides(p, a), ~Divides(p, b) PROVE FALSE
  OBVIOUS
<1>1. p \in Nat \ {0}
  BY DEF IsPrime
<1> DEFINE T == {x \in Nat \ {0} : \E k \in Nat : a * x = p * k}
<1>2. p \in T /\ b \in T
  <2>1. a * p = p * a
    OBVIOUS
  <2>2. b # 0
    BY <1>1, DividesDef
  <2>3. a * b \in Nat
    BY Product
  <2>4. \E k \in Nat : a * b = p * k
    BY <1>1, <2>3, DividesDef
  <2> QED
    BY <1>1, <2>1, <2>2, <2>4
<1>3. T \subseteq Nat \ {0}
  OBVIOUS
<1>4. ASSUME NEW x \in T, NEW y \in T, \A z \in T : x <= z PROVE Divides(x, y)
  <2>1. PICK q \in Nat, r \in 0..(x - 1) : y = x * q + r /\ r = y % x
    BY Division
  <2>2. PICK k \in Nat : a * x = p * k
    OBVIOUS
  <2>3. PICK l \in Nat : a * y = p * l
    OBVIOUS
  <2>4. a * r = p * (l - k * q)
    <3>1. a * y = (a * x) * q + a * r
      BY <2>1
    <3>2. (a * x) * q = p * (k * q)
      BY <2>2
    <3>3. p * (l - k * q) = p * l - p * (k * q)
      BY Distribute
    <3>4. PICK u \in Int, v \in Int : u = a * y /\ v = (a * x) * q
      OBVIOUS
    <3> QED
      BY <2>3, <3>1, <3>2, <3>3, <3>4
  <2>5. ASSUME r # 0 PROVE FALSE
    <3>1. PICK m \in Int : m = l - k * q
      OBVIOUS
    <3>2. a * r \in Nat
      BY Product
    <3>3. m \in Nat
      <4>1. CASE m < 0
        <5>1. p * (-m) # 0 /\ p * (-m) \in Nat
          BY <1>1, <4>1, Product
        <5>2. p * (-m) = -(p * m)
          BY Distribute
        <5> QED
          BY <2>4, <3>1, <3>2, <5>1, <5>2
      <4> QED
        BY <4>1
    <3>4. r \in T
      BY <2>4, <2>5, <3>1, <3>3
    <3>5. x <= r
      <4> HIDE DEF T
      <4> QED
        BY <1>4, <3>4
    <3> QED
      BY <3>5
  <2> QED
    BY <2>1, <2>5 DEF Divides
<1> HIDE DEF T
<1>5. PICK x \in T : \A y \in T : x <= y
  <2>1. T \subseteq Nat /\ T # {}
    BY <1>2, <1>3
  <2> QED
    BY <2>1, Least
<1>6. Divides(x, p) /\ Divides(x, b) /\ x \in Nat \ {0}
  BY <1>2, <1>3, <1>4, <1>5
<1>7. CASE x = 1
  <2>1. \E k \in Nat : a * 1 = p * k
    BY <1>7 DEF T
  <2>2. a * 1 = a
    OBVIOUS
  <2>3. Divides(p, a)
    BY <1>1, <2>1, <2>2, DividesDef
  <2> QED
    BY <2>3
<1>8. CASE x = p
  BY <1>6, <1>8
<1>9. CASE x # 1 /\ x # p
  <2>1. x <= p
    BY <1>2, <1>5
  <2>2. x \in 2..(p - 1)
    BY <1>6, <1>9, <2>1
  <2> QED
    BY <1>6, <2>2 DEF IsPrime
<1> QED
  BY <1>7, <1>8, <1>9

\* Two primes that are not the same and divide a number: their product does.
LEMMA BothDivide ==
    ASSUME NEW p \in Nat, IsPrime(p), NEW q \in Nat, IsPrime(q), p # q,
           NEW n \in Nat, Divides(p, n), Divides(q, n)
    PROVE  Divides(p * q, n)
<1>1. p \in Nat \ {0, 1} /\ q \in Nat \ {0, 1}
  BY DEF IsPrime
<1>2. PICK k \in Nat : n = p * k
  BY <1>1, DividesDef
<1>3. Divides(q, p) \/ Divides(q, k)
  BY <1>2, Euclid
<1>4. CASE Divides(q, p)
  <2>1. PICK l \in Nat : p = q * l
    BY <1>1, <1>4, DividesDef
  <2>2. l # 0 /\ q <= q * l
    BY <1>1, <2>1, Product
  <2>3. q \in 2..(p - 1)
    BY <1>1, <2>1, <2>2
  <2> QED
    BY <1>4, <2>3 DEF IsPrime
<1>5. CASE Divides(q, k)
  <2>1. PICK l \in Nat : k = q * l
    BY <1>1, <1>5, DividesDef
  <2>2. n = (p * q) * l
    BY <1>2, <2>1
  <2>3. p * q \in Nat \ {0}
    BY <1>1, Product
  <2> QED
    BY <2>2, <2>3, DividesDef
<1> QED
  BY <1>3, <1>4, <1>5
-------------------------------------------------------------------------------
(* Powers and products.                                                      *)

\* Exp(a)[n] is a to the power n.
Exp(a) == CHOOSE g \in [Nat -> Nat] : g[0] = 1 /\ \A n \in Nat : g[n + 1] = a * g[n]

\* Prod(f)[n] is f[1] * ... * f[n].
Prod(f) == CHOOSE g \in [Nat -> Nat] : g[0] = 1 /\ \A n \in Nat : g[n + 1] = f[n + 1] * g[n]

LEMMA ExpDef ==
    ASSUME NEW a \in Nat
    PROVE  /\ Exp(a) \in [Nat -> Nat] /\ Exp(a)[0] = 1
           /\ \A n \in Nat : Exp(a)[n] \in Nat /\ Exp(a)[n + 1] = a * Exp(a)[n]
<1>1. PICK h : h = [n \in Nat |-> [v \in Nat |-> a * v]]
  OBVIOUS
<1>2. h \in [Nat -> [Nat -> Nat]] /\ \A n, v \in Nat : h[n][v] = a * v
  BY <1>1, Product
<1>3. PICK g \in [Nat -> Nat] : g[0] = 1 /\ \A n \in Nat : g[n + 1] = h[n][g[n]]
  <2>1. \E g : Follows(Nat, 1, h, g)
    BY <1>2, Recursion
  <2> QED
    BY <2>1 DEF Follows
<1>4. \A n \in Nat : g[n + 1] = a * g[n]
  BY <1>2, <1>3
<1>5. \E e \in [Nat -> Nat] : e[0] = 1 /\ \A n \in Nat : e[n + 1] = a * e[n]
  BY <1>3, <1>4
<1>6. Exp(a) \in [Nat -> Nat] /\ Exp(a)[0] = 1 /\ \A n \in Nat : Exp(a)[n + 1] = a * Exp(a)[n]
  BY <1>5 DEF Exp
<1> QED
  BY <1>6

LEMMA ProdDef ==
    ASSUME NEW f \in [Nat -> Nat]
    PROVE  /\ Prod(f) \in [Nat -> Nat] /\ Prod(f)[0] = 1
           /\ \A n \in Nat : Prod(f)[n] \in Nat /\ Prod(f)[n + 1] = f[n + 1] * Prod(f)[n]
<1>1. PICK h : h = [n \in Nat |-> [v \in Nat |-> f[n + 1] * v]]
  OBVIOUS
<1>2. h \in [Nat -> [Nat -> Nat]] /\ \A n, v \in Nat : h[n][v] = f[n + 1] * v
  BY <1>1, Product
<1>3. PICK g \in [Nat -> Nat] : g[0] = 1 /\ \A n \in Nat : g[n + 1] = h[n][g[n]]
  <2>1. \E g : Follows(Nat, 1, h, g)
    BY <1>2, Recursion
  <2> QED
    BY <2>1 DEF Follows
<1>4. \A n \in Nat : g[n + 1] = f[n + 1] * g[n]
  BY <1>2, <1>3
<1>5. \E e \in [Nat -> Nat] : e[0] = 1 /\ \A n \in Nat : e[n + 1] = f[n + 1] * e[n]
  BY <1>3, <1>4
<1>6. /\ Prod(f) \in [Nat -> Nat] /\ Prod(f)[0] = 1
      /\ \A n \in Nat : Prod(f)[n + 1] = f[n + 1] * Prod(f)[n]
  BY <1>5 DEF Prod
<1> QED
  BY <1>6

LEMMA ExpSum ==
    ASSUME NEW a \in Nat, NEW m \in Nat, NEW n \in Nat
    PROVE  Exp(a)[m + n] = Exp(a)[m] * Exp(a)[n]
<1> DEFINE T == {k \in Nat : Exp(a)[m + k] = Exp(a)[m] * Exp(a)[k]}
<1>1. 0 \in T
  <2>1. Exp(a)[0] = 1 /\ Exp(a)[m] \in Nat /\ m + 0 = m
    BY ExpDef
  <2> QED
    BY <2>1
<1>2. ASSUME NEW k \in Nat, k \in T PROVE k + 1 \in T
  <2>1. Exp(a)[m + k + 1] = a * Exp(a)[m + k] /\ Exp(a)[k + 1] = a * Exp(a)[k]
    BY ExpDef
  <2>2. PICK x \in Nat, y \in Nat : x = Exp(a)[m] /\ y = Exp(a)[k]
    BY ExpDef
  <2>3. Exp(a)[m + k] = x * y
    BY <1>2, <2>2
  <2>4. a * (x * y) = x * (a * y)
    OBVIOUS
  <2> QED
    BY <2>1, <2>2, <2>3, <2>4
<1> HIDE DEF T
<1>3. Nat \subseteq T
  BY <1>1, <1>2, SetInduction
<1> QED
  BY <1>3 DEF T

\* One factor is replaced by another.
LEMMA ProdReplace ==
    ASSUME NEW f \in [Nat -> Nat], NEW g \in [Nat -> Nat], NEW j \in Nat \ {0}, NEW m \in Nat,
           \A i \in 1..m : i # j => g[i] = f[i]
    PROVE  /\ m < j => Prod(g)[m] = Prod(f)[m]
           /\ j <= m => Prod(g)[m] * f[j] = Prod(f)[m] * g[j]
<1> DEFINE T == {k \in Nat : k <= m => /\ k < j => Prod(g)[k] = Prod(f)[k]
                                       /\ j <= k => Prod(g)[k] * f[j] = Prod(f)[k] * g[j]}
<1>1. 0 \in T
  <2>1. Prod(f)[0] = 1 /\ Prod(g)[0] = 1 /\ ~(j <= 0)
    BY ProdDef
  <2> QED
    BY <2>1
<1>2. ASSUME NEW k \in Nat, k \in T, k + 1 <= m PROVE k + 1 \in T
  <2>1. Prod(f)[k + 1] = f[k + 1] * Prod(f)[k] /\ Prod(g)[k + 1] = g[k + 1] * Prod(g)[k]
    BY ProdDef
  <2>2. PICK x \in Nat, y \in Nat : x = Prod(f)[k] /\ y = Prod(g)[k]
    BY ProdDef
  <2>3. PICK u \in Nat, v \in Nat : u = f[k + 1] /\ v = g[k + 1]
    OBVIOUS
  <2>4. CASE k + 1 < j
    <3>1. x = y /\ u = v
      BY <1>2, <2>2, <2>3, <2>4
    <3> QED
      BY <2>1, <2>2, <2>3, <2>4, <3>1
  <2>5. CASE k + 1 = j
    <3>1. x = y
      BY <1>2, <2>2, <2>5
    <3>2. (v * x) * u = (u * x) * v
      OBVIOUS
    <3> QED
      BY <2>1, <2>2, <2>3, <2>5, <3>1, <3>2
  <2>6. CASE k + 1 > j
    <3>1. PICK w \in Nat, z \in Nat : w = f[j] /\ z = g[j]
      OBVIOUS
    <3>2. u = v /\ y * w = x * z
      BY <1>2, <2>2, <2>3, <2>6, <3>1
    <3>3. (u * y) * w = u * (y * w) /\ (u * x) * z = u * (x * z)
      OBVIOUS
    <3>4. (u * y) * w = (u * x) * z
      BY <3>2, <3>3
    <3> QED
      BY <2>1, <2>2, <2>3, <2>6, <3>1, <3>2, <3>4
  <2> QED
    BY <2>4, <2>5, <2>6
<1>3. ASSUME NEW k \in Nat, k \in T PROVE k + 1 \in T
  BY <1>2, <1>3
<1> HIDE DEF T
<1>4. Nat \subseteq T
  BY <1>1, <1>3, SetInduction
<1> QED
  BY <1>4 DEF T

\* f maps 1..m into itself, no two numbers to the same one.
Permutes(f, m) ==
    /\ \A i \in 1..m : f[i] \in 1..m
    /\ \A i, j \in 1..m : f[i] = f[j] => i = j

LEMMA Onto ==
    ASSUME NEW m \in Nat, NEW f \in [Nat -> Nat], Permutes(f, m + 1)
    PROVE  \E j \in 1..(m + 1) : f[j] = m + 1
<1> SUFFICES ASSUME \A j \in 1..(m + 1) : f[j] # m + 1 PROVE FALSE
  OBVIOUS
<1> DEFINE g == [i \in 1..(m + 1) |-> f[i]]
<1>1. g \in [1..(m + 1) -> 1..m]
  BY DEF Permutes
<1>2. /\ IsFiniteSet(1..m) /\ IsFiniteSet(1..(m + 1))
      /\ Cardinality(1..m) = m /\ Cardinality(1..(m + 1)) = m + 1
  <2>1. ASSUME NEW n \in Nat PROVE IsFiniteSet(1..n) /\ Cardinality(1..n) = n
    <3>1. 1 \in Int /\ n \in Int
      OBVIOUS
    <3>2. /\ IsFiniteSet(1..n)
          /\ Cardinality(1..n) = IF 1 > n THEN 0 ELSE n - 1 + 1
      BY <3>1, FS_Interval
    <3> QED
      BY <3>2
  <2>2. m + 1 \in Nat
    OBVIOUS
  <2> QED
    BY <2>1, <2>2
<1>3. m < m + 1
  OBVIOUS
<1> HIDE DEF g
<1>4. PICK x, y \in 1..(m + 1) : x # y /\ g[x] = g[y]
  BY <1>1, <1>2, <1>3, FS_PigeonHole, ZenonT(60)
<1> QED
  BY <1>4 DEF g, Permutes

Identity == [n \in Nat |-> n]

\* The order of the factors does not matter.
LEMMA Permuted ==
    ASSUME NEW m \in Nat, NEW f \in [Nat -> Nat], Permutes(f, m)
    PROVE  Prod(f)[m] = Prod(Identity)[m]
<1>0. Identity \in [Nat -> Nat]
  BY DEF Identity
<1> DEFINE T == {k \in Nat : \A h \in [Nat -> Nat] :
                              Permutes(h, k) => Prod(h)[k] = Prod(Identity)[k]}
<1>1. 0 \in T
  BY <1>0, ProdDef
<1>2. ASSUME NEW k \in Nat, k \in T, NEW h \in [Nat -> Nat], Permutes(h, k + 1)
      PROVE  Prod(h)[k + 1] = Prod(Identity)[k + 1]
  <2>1. PICK j \in 1..(k + 1) : h[j] = k + 1
    BY <1>2, Onto
  <2> DEFINE g == [i \in Nat |-> IF i = j THEN h[k + 1] ELSE h[i]]
  <2>2. g \in [Nat -> Nat] /\ g[j] = h[k + 1]
    OBVIOUS
  <2>3. \A i \in Nat : i # j => g[i] = h[i]
    OBVIOUS
  <2> HIDE DEF g
  <2>4. Permutes(g, k)
    <3>1. ASSUME NEW i \in 1..k PROVE g[i] \in 1..k
      <4>1. h[i] \in 1..(k + 1) /\ h[k + 1] \in 1..(k + 1)
        BY <1>2 DEF Permutes
      <4>2. CASE i = j
        <5>1. h[k + 1] # k + 1
          BY <1>2, <2>1, <4>2 DEF Permutes
        <5> QED
          BY <2>2, <4>1, <4>2, <5>1
      <4>3. CASE i # j
        <5>1. h[i] # k + 1
          BY <1>2, <2>1, <4>3 DEF Permutes
        <5> QED
          BY <2>3, <4>1, <4>3, <5>1
      <4> QED
        BY <4>2, <4>3
    <3>2. ASSUME NEW i \in 1..k, NEW l \in 1..k, g[i] = g[l] PROVE i = l
      <4>1. \A x, y \in 1..(k + 1) : h[x] = h[y] => x = y
        BY <1>2 DEF Permutes
      <4> QED
        BY <2>2, <2>3, <3>2, <4>1
    <3> QED
      BY <3>1, <3>2 DEF Permutes
  <2>5. Prod(g)[k] = Prod(Identity)[k]
    BY <1>2, <2>2, <2>4
  <2>6. Prod(h)[k + 1] = h[k + 1] * Prod(h)[k] /\ Prod(h)[k] \in Nat
    BY ProdDef
  <2>7. Prod(Identity)[k + 1] = (k + 1) * Prod(Identity)[k] /\ Prod(Identity)[k] \in Nat
    BY <1>0, ProdDef DEF Identity
  <2>8. CASE j = k + 1
    <3>1. Prod(g)[k] = Prod(h)[k]
      BY <2>2, <2>3, <2>8, ProdReplace
    <3> QED
      BY <2>1, <2>5, <2>6, <2>7, <2>8, <3>1
  <2>9. CASE j # k + 1
    <3>1. Prod(g)[k] * h[j] = Prod(h)[k] * g[j]
      <4>1. j <= k /\ j \in Nat \ {0}
        BY <2>9
      <4>2. \A i \in 1..k : i # j => g[i] = h[i]
        BY <2>3
      <4> QED
        BY <2>2, <4>1, <4>2, ProdReplace, ZenonT(60)
    <3>2. PICK x \in Nat, y \in Nat, u \in Nat :
             x = Prod(Identity)[k] /\ y = Prod(h)[k] /\ u = h[k + 1]
      <4>1. h[k + 1] \in Nat
        OBVIOUS
      <4> QED
        BY <2>6, <2>7, <4>1
    <3>3. x * (k + 1) = y * u
      BY <2>1, <2>2, <2>5, <3>1, <3>2
    <3>4. u * y = y * u /\ (k + 1) * x = x * (k + 1)
      OBVIOUS
    <3> QED
      BY <2>6, <2>7, <3>2, <3>3, <3>4
  <2> QED
    BY <2>8, <2>9
<1>3. ASSUME NEW k \in Nat, k \in T PROVE k + 1 \in T
  <2>1. \A h \in [Nat -> Nat] :
           Permutes(h, k + 1) => Prod(h)[k + 1] = Prod(Identity)[k + 1]
    BY <1>2, <1>3
  <2> QED
    BY <2>1
<1> HIDE DEF T
<1>4. Nat \subseteq T
  BY <1>1, <1>3, SetInduction
<1> QED
  BY <1>4 DEF T
-------------------------------------------------------------------------------
(* Fermat's little theorem.                                                  *)

\* No product of numbers below a prime is a multiple of it.
LEMMA NoFactor ==
    ASSUME NEW p \in Nat, IsPrime(p), NEW m \in Nat, m < p
    PROVE  ~Divides(p, Prod(Identity)[m])
<1>0. p \in Nat \ {0, 1} /\ Identity \in [Nat -> Nat]
  BY DEF IsPrime, Identity
<1> DEFINE T == {k \in Nat : k < p => ~Divides(p, Prod(Identity)[k])}
<1>1. 0 \in T
  <2>1. 1 \in Nat /\ 1 < p
    BY <1>0
  <2>2. 1 % p = 1
    BY <1>0, <2>1, SmallRemainder
  <2>3. Prod(Identity)[0] = 1
    BY <1>0, ProdDef
  <2> QED
    BY <2>2, <2>3 DEF Divides
<1>2. ASSUME NEW k \in Nat, k \in T, k + 1 < p PROVE ~Divides(p, Prod(Identity)[k + 1])
  <2>1. PICK x \in Nat : x = Prod(Identity)[k] /\ Prod(Identity)[k + 1] = (k + 1) * x
    <3>1. Prod(Identity)[k + 1] = Identity[k + 1] * Prod(Identity)[k]
      BY <1>0, ProdDef
    <3>2. Prod(Identity)[k] \in Nat /\ Identity[k + 1] = k + 1
      BY <1>0, ProdDef DEF Identity
    <3> QED
      BY <3>1, <3>2
  <2>2. ~Divides(p, x)
    BY <1>2, <2>1
  <2>3. ~Divides(p, k + 1)
    <3>1. (k + 1) % p = k + 1
      BY <1>0, <1>2, SmallRemainder
    <3> QED
      BY <3>1 DEF Divides
  <2> QED
    BY <2>1, <2>2, <2>3, Euclid
<1>3. ASSUME NEW k \in Nat, k \in T PROVE k + 1 \in T
  BY <1>2, <1>3
<1> HIDE DEF T
<1>4. Nat \subseteq T
  BY <1>1, <1>3, SetInduction
<1> QED
  BY <1>4 DEF T

\* The multiples of a up to p - 1 times leave each remainder but zero once.
LEMMA MultiplesPermute ==
    ASSUME NEW p \in Nat, IsPrime(p), NEW a \in Nat, ~Divides(p, a), NEW f \in [Nat -> Nat],
           \A i \in Nat : f[i] = (a * i) % p
    PROVE  Permutes(f, p - 1)
<1>0. p \in Nat \ {0, 1}
  BY DEF IsPrime
<1>1. \A i \in 1..(p - 1) : ~Divides(p, i)
  <2> TAKE i \in 1..(p - 1)
  <2>1. i \in Nat /\ i < p /\ i # 0
    BY <1>0
  <2>2. i % p = i
    BY <1>0, <2>1, SmallRemainder
  <2> QED
    BY <2>1, <2>2 DEF Divides
<1>2. ASSUME NEW i \in 1..(p - 1) PROVE f[i] \in 1..(p - 1)
  <2>1. i \in Nat /\ ~Divides(p, i)
    BY <1>1
  <2>2. a * i \in Nat /\ ~Divides(p, a * i)
    BY <2>1, Product, Euclid
  <2>3. (a * i) % p \in 0..(p - 1) /\ (a * i) % p # 0
    BY <1>0, <2>2, Division DEF Divides
  <2> QED
    BY <2>1, <2>3
<1>3. ASSUME NEW i \in 1..(p - 1), NEW j \in 1..(p - 1), i < j, f[i] = f[j] PROVE FALSE
  <2>1. i \in Nat /\ j \in Nat /\ a * i \in Nat /\ a * j \in Nat
    BY Product
  <2>2. Same(a * j, a * i, p)
    BY <1>0, <1>3, <2>1, SameRemainder
  <2>3. PICK k \in Int : a * j = a * i + p * k
    BY <2>2 DEF Same
  <2>4. PICK d \in 1..(p - 1) : d = j - i
    BY <1>3
  <2>5. a * d = a * j - a * i
    BY <2>1, <2>4, Distribute
  <2>6. a * d = p * k /\ a * d \in Nat
    BY <2>1, <2>3, <2>5, Product
  <2>7. k \in Nat
    <3>1. CASE k < 0
      <4>1. p * (-k) \in Nat \ {0} /\ p * (-k) = -(p * k)
        BY <1>0, <3>1, Product, Distribute
      <4> QED
        BY <2>6, <4>1
    <3> QED
      BY <3>1
  <2>8. Divides(p, a * d)
    BY <1>0, <2>6, <2>7, DividesDef
  <2>9. d \in Nat /\ ~Divides(p, d)
    BY <1>1, <2>4
  <2> QED
    BY <2>8, <2>9, Euclid
<1>4. ASSUME NEW i \in 1..(p - 1), NEW j \in 1..(p - 1), f[i] = f[j] PROVE i = j
  <2>1. i < j \/ j < i \/ i = j
    OBVIOUS
  <2> QED
    BY <1>3, <1>4, <2>1
<1> QED
  BY <1>2, <1>4 DEF Permutes

THEOREM Fermat ==
    ASSUME NEW p \in Nat, IsPrime(p), NEW a \in Nat, ~Divides(p, a)
    PROVE  Same(Exp(a)[p - 1], 1, p)
<1>0. p \in Nat \ {0, 1} /\ p - 1 \in Nat /\ Identity \in [Nat -> Nat]
  BY DEF IsPrime, Identity
<1>1. PICK f : f = [i \in Nat |-> (a * i) % p]
  OBVIOUS
<1>2. f \in [Nat -> Nat] /\ \A i \in Nat : f[i] = (a * i) % p
  <2>1. \A i \in Nat : (a * i) % p \in Nat
    BY <1>0, Product, SameAsRemainder
  <2> QED
    BY <1>1, <2>1
<1>3. Prod(f)[p - 1] = Prod(Identity)[p - 1]
  BY <1>0, <1>2, MultiplesPermute, Permuted
<1> DEFINE T == {k \in Nat : Same(Prod(f)[k], Exp(a)[k] * Prod(Identity)[k], p)}
<1>4. 0 \in T
  <2>1. Prod(f)[0] = 1 /\ Prod(Identity)[0] = 1 /\ Exp(a)[0] = 1
    BY <1>0, <1>2, ProdDef, ExpDef
  <2>2. 1 = 1 + p * 0 /\ 1 * 1 = 1
    OBVIOUS
  <2>3. Same(1, 1, p)
    BY <2>2 DEF Same
  <2> QED
    BY <2>1, <2>2, <2>3
<1>5. ASSUME NEW k \in Nat, k \in T PROVE k + 1 \in T
  <2>1. PICK x \in Nat, y \in Nat, e \in Nat :
           x = Prod(f)[k] /\ y = Prod(Identity)[k] /\ e = Exp(a)[k]
    <3>1. Prod(f)[k] \in Nat /\ Prod(Identity)[k] \in Nat /\ Exp(a)[k] \in Nat
      BY <1>0, <1>2, ProdDef, ExpDef
    <3> QED
      BY <3>1
  <2>2. /\ Prod(f)[k + 1] = ((a * (k + 1)) % p) * x
        /\ Prod(Identity)[k + 1] = (k + 1) * y
        /\ Exp(a)[k + 1] = a * e
    <3>1. Prod(f)[k + 1] = f[k + 1] * x
      BY <1>2, <2>1, ProdDef
    <3>2. Prod(Identity)[k + 1] = Identity[k + 1] * y
      BY <1>0, <2>1, ProdDef
    <3>3. Exp(a)[k + 1] = a * e
      BY <2>1, ExpDef
    <3> QED
      BY <1>2, <3>1, <3>2, <3>3 DEF Identity
  <2>3. PICK m \in Nat, r \in Nat : m = a * (k + 1) /\ r = m % p /\ Same(r, m, p)
    <3>1. a * (k + 1) \in Nat
      BY Product
    <3> QED
      BY <1>0, <3>1, SameAsRemainder
  <2>4. Same(x, e * y, p)
    BY <1>5, <2>1
  <2>5. e * y \in Int /\ r \in Int /\ m \in Int /\ x \in Int
    OBVIOUS
  <2>6. Same(r * x, m * (e * y), p)
    <3>1. Same(r, m, p)
      BY <2>3
    <3> QED
      BY <2>4, <2>5, <3>1, SameTimes
  <2>7. m * (e * y) = (a * e) * ((k + 1) * y)
    BY <2>3
  <2> QED
    BY <2>1, <2>2, <2>3, <2>6, <2>7
<1> HIDE DEF T
<1>6. Nat \subseteq T
  BY <1>4, <1>5, SetInduction
<1>7. PICK x \in Nat, e \in Nat : x = Prod(Identity)[p - 1] /\ e = Exp(a)[p - 1]
  <2>1. Prod(Identity)[p - 1] \in Nat /\ Exp(a)[p - 1] \in Nat
    BY <1>0, ProdDef, ExpDef
  <2> QED
    BY <2>1
<1>8. Same(x, e * x, p)
  BY <1>0, <1>3, <1>6, <1>7 DEF T
<1>9. ~Divides(p, x)
  <2>1. p - 1 < p
    OBVIOUS
  <2> QED
    BY <1>0, <1>7, <2>1, NoFactor
<1>10. e # 0
  <2> SUFFICES ASSUME e = 0 PROVE FALSE
    OBVIOUS
  <2>1. e * x = 0
    OBVIOUS
  <2>2. x % p = 0 % p /\ 0 = p * 0 + 0
    BY <1>0, <1>8, <2>1, SameRemainder
  <2>3. 0 % p = 0
    BY <1>0, <2>2, Remainder
  <2> QED
    BY <1>9, <2>2, <2>3 DEF Divides
<1>11. PICK d \in Nat : e = d + 1
  <2>1. e - 1 \in Nat /\ e = (e - 1) + 1
    BY <1>10
  <2> QED
    BY <2>1
<1>12. PICK k \in Int : e * x = x + p * k
  <2>1. x \in Int /\ e * x \in Int
    OBVIOUS
  <2>2. Same(e * x, x, p)
    BY <1>8, <2>1, SameSymmetric
  <2> QED
    BY <2>2 DEF Same
<1>13. d * x = p * k /\ d * x \in Nat
  <2>1. e * x = d * x + x
    BY <1>11
  <2>2. d * x \in Nat
    BY Product
  <2> QED
    BY <1>12, <2>1, <2>2
<1>14. k \in Nat
  <2>1. CASE k < 0
    <3>1. p * (-k) \in Nat \ {0} /\ p * (-k) = -(p * k)
      BY <1>0, <2>1, Product, Distribute
    <3> QED
      BY <1>13, <3>1
  <2> QED
    BY <2>1
<1>15. Divides(p, d)
  <2>1. Divides(p, d * x)
    BY <1>0, <1>13, <1>14, DividesDef
  <2> QED
    BY <1>9, <2>1, Euclid
<1>16. PICK l \in Nat : d = p * l
  BY <1>0, <1>15, DividesDef
<1>17. e = 1 + p * l
  BY <1>11, <1>16
<1> QED
  BY <1>7, <1>17 DEF Same
-------------------------------------------------------------------------------
(* The short way and the long way.                                           *)

\* What leaves the remainder 1 does so however often it is multiplied.
LEMMA SameOne ==
    ASSUME NEW n \in Nat, NEW a \in Nat, NEW m \in Nat, Same(Exp(a)[m], 1, n), NEW k \in Nat
    PROVE  Same(Exp(a)[m * k], 1, n)
<1> DEFINE T == {l \in Nat : Same(Exp(a)[m * l], 1, n)}
<1>1. 0 \in T
  <2>1. m * 0 = 0 /\ Exp(a)[0] = 1 /\ 1 = 1 + n * 0
    BY ExpDef
  <2>2. Same(1, 1, n)
    BY <2>1 DEF Same
  <2> QED
    BY <2>1, <2>2
<1>2. ASSUME NEW l \in Nat, l \in T PROVE l + 1 \in T
  <2>1. m * (l + 1) = m * l + m /\ m * l \in Nat
    BY Product
  <2>2. PICK x \in Nat, y \in Nat : x = Exp(a)[m * l] /\ y = Exp(a)[m]
    <3>1. Exp(a)[m * l] \in Nat /\ Exp(a)[m] \in Nat
      BY <2>1, ExpDef
    <3> QED
      BY <3>1
  <2>3. Exp(a)[m * (l + 1)] = x * y
    BY <2>1, <2>2, ExpSum
  <2>4. Same(x, 1, n) /\ Same(y, 1, n)
    BY <1>2, <2>2
  <2>5. x \in Int /\ y \in Int /\ 1 \in Int /\ 1 * 1 = 1
    OBVIOUS
  <2>6. Same(x * y, 1 * 1, n)
    BY <2>4, <2>5, SameTimes
  <2> QED
    BY <2>3, <2>5, <2>6
<1> HIDE DEF T
<1>3. Nat \subseteq T
  BY <1>1, <1>2, SetInduction
<1> QED
  BY <1>3 DEF T

\* Modulo a prime, an exponent is reduced by a multiple of the prime less one.
LEMMA ReducedExponent ==
    ASSUME NEW p \in Nat, IsPrime(p), NEW a \in Nat, ~Divides(p, a),
           NEW L \in Nat \ {0}, Divides(p - 1, L), NEW e \in Nat
    PROVE  Same(Exp(a)[e], Exp(a)[e % L], p)
<1>1. p - 1 \in Nat \ {0}
  BY DEF IsPrime
<1>2. PICK t \in Nat : L = (p - 1) * t
  BY <1>1, DividesDef
<1>3. Same(Exp(a)[L], 1, p)
  BY <1>1, <1>2, Fermat, SameOne
<1>4. PICK q \in Nat, r \in Nat : e = L * q + r /\ r = e % L
  <2>1. e \div L \in Nat /\ e = L * (e \div L) + (e % L)
    BY Division
  <2>2. e % L \in Nat
    BY SameAsRemainder
  <2> QED
    BY <2>1, <2>2
<1>5. Same(Exp(a)[L * q], 1, p)
  BY <1>3, SameOne
<1>6. L * q \in Nat
  BY Product
<1>7. PICK x \in Nat, y \in Nat : x = Exp(a)[L * q] /\ y = Exp(a)[r]
  BY <1>6, ExpDef
<1>8. Exp(a)[e] = x * y
  <2>1. PICK m \in Nat : m = L * q
    BY <1>6
  <2>2. Exp(a)[m + r] = Exp(a)[m] * Exp(a)[r]
    BY ExpSum
  <2> QED
    BY <1>4, <1>7, <2>1, <2>2
<1>9. Same(y, y, p)
  <2>1. y = y + p * 0
    OBVIOUS
  <2> QED
    BY <2>1 DEF Same
<1>10. x \in Int /\ y \in Int /\ 1 \in Int /\ 1 * y = y
  OBVIOUS
<1>11. Same(x * y, 1 * y, p)
  BY <1>5, <1>7, <1>9, <1>10, SameTimes
<1> QED
  BY <1>4, <1>7, <1>8, <1>10, <1>11

\* What is the same modulo two primes is the same modulo their product.
LEMMA SameForBoth ==
    ASSUME NEW p \in Nat, IsPrime(p), NEW q \in Nat, IsPrime(q), p # q,
           NEW x \in Nat, NEW y \in Nat, Same(x, y, p), Same(x, y, q)
    PROVE  x % (p * q) = y % (p * q)
<1>1. p \in Nat \ {0} /\ q \in Nat \ {0} /\ p * q \in Nat \ {0}
  BY Product DEF IsPrime
<1>2. ASSUME NEW u \in Nat, NEW v \in Nat, Same(u, v, p), Same(u, v, q), u >= v
      PROVE  u % (p * q) = v % (p * q)
  <2>1. PICK d \in Nat : d = u - v
    BY <1>2
  <2>2. ASSUME NEW m \in Nat \ {0}, Same(u, v, m) PROVE Divides(m, d)
    <3>1. PICK k \in Int : u = v + m * k
      BY <2>2 DEF Same
    <3>2. d = m * k
      BY <2>1, <3>1
    <3>3. CASE k < 0
      <4>1. m * (-k) \in Nat \ {0} /\ m * (-k) = -(m * k)
        BY <3>3, Product, Distribute
      <4> QED
        BY <3>2, <4>1
    <3>4. CASE k >= 0
      BY <3>2, <3>4, DividesDef
    <3> QED
      BY <3>3, <3>4
  <2>3. Divides(p, d) /\ Divides(q, d)
    BY <1>1, <1>2, <2>2
  <2>4. Divides(p * q, d)
    BY <2>3, BothDivide
  <2>5. PICK k \in Nat : d = (p * q) * k
    BY <1>1, <2>4, DividesDef
  <2>6. u = v + (p * q) * k /\ k \in Int
    BY <2>1, <2>5
  <2>7. Same(u, v, p * q)
    <3>1. PICK m : m = p * q
      OBVIOUS
    <3>2. u = v + m * k
      BY <2>6, <3>1
    <3>3. Same(u, v, m)
      BY <2>6, <3>2 DEF Same
    <3> QED
      BY <3>1, <3>3
  <2> QED
    BY <1>1, <2>7, SameRemainder
<1>3. Same(y, x, p) /\ Same(y, x, q)
  BY SameSymmetric
<1> QED
  BY <1>2, <1>3

LEMMA GCDIs ==
    ASSUME NEW a \in Nat \ {0}, NEW b \in Nat
    PROVE  /\ GCD(a, b) \in 1..a /\ Divides(GCD(a, b), a) /\ Divides(GCD(a, b), b)
           /\ \A e \in 1..a : Divides(e, a) /\ Divides(e, b) => e <= GCD(a, b)
<1> DEFINE T == {d \in 1..a : Divides(d, a) /\ Divides(d, b)}
<1>1. 1 \in T
  <2>1. a = 1 * a /\ b = 1 * b /\ 1 \in Nat \ {0}
    OBVIOUS
  <2>2. Divides(1, a) /\ Divides(1, b)
    BY <2>1, DividesDef
  <2> QED
    BY <2>2
<1>2. T \subseteq 0..a
  OBVIOUS
<1>3. \A d \in 1..a : d \in T <=> Divides(d, a) /\ Divides(d, b)
  OBVIOUS
<1>4. T \subseteq 1..a
  OBVIOUS
<1> HIDE DEF T
<1>5. PICK d \in T : \A e \in T : e <= d
  BY <1>1, <1>2, Greatest
<1>6. \E g \in 1..a : /\ Divides(g, a) /\ Divides(g, b)
                      /\ \A e \in (g + 1)..a : ~(Divides(e, a) /\ Divides(e, b))
  <2>1. d \in 1..a /\ Divides(d, a) /\ Divides(d, b)
    BY <1>3, <1>4, <1>5
  <2>2. \A e \in (d + 1)..a : e \in 1..a /\ ~(e <= d)
    BY <2>1
  <2> QED
    BY <1>3, <1>5, <2>1, <2>2
<1>7. /\ GCD(a, b) \in 1..a /\ Divides(GCD(a, b), a) /\ Divides(GCD(a, b), b)
      /\ \A e \in (GCD(a, b) + 1)..a : ~(Divides(e, a) /\ Divides(e, b))
  BY <1>6 DEF GCD
<1>8. ASSUME NEW e \in 1..a, Divides(e, a), Divides(e, b) PROVE e <= GCD(a, b)
  <2>1. e \notin (GCD(a, b) + 1)..a
    BY <1>7, <1>8
  <2> QED
    BY <1>7, <2>1
<1> QED
  BY <1>7, <1>8

\* No prime factor of n divides what has no divisor in common with n.
LEMMA CoprimeBase ==
    ASSUME NEW p \in Nat, IsPrime(p), NEW n \in Nat, Divides(p, n),
           NEW a \in Nat \ {0}, GCD(a, n) = 1
    PROVE  ~Divides(p, a)
<1> SUFFICES ASSUME Divides(p, a) PROVE FALSE
  OBVIOUS
<1>1. p \in Nat \ {0, 1}
  BY DEF IsPrime
<1>2. PICK k \in Nat : a = p * k
  BY <1>1, DividesDef
<1>3. k # 0 /\ p <= p * k
  BY <1>1, <1>2, Product
<1>4. p \in 1..a
  BY <1>1, <1>2, <1>3
<1>5. p <= 1
  BY <1>4, GCDIs
<1> QED
  BY <1>1, <1>5

LEMMA LCMIs ==
    ASSUME NEW a \in Nat \ {0}, NEW b \in Nat \ {0}
    PROVE  LCM(a, b) \in Nat \ {0} /\ Divides(a, LCM(a, b)) /\ Divides(b, LCM(a, b))
<1>1. PICK g \in Nat \ {0} : g = GCD(a, b) /\ Divides(g, a) /\ Divides(g, b)
  <2>1. GCD(a, b) \in 1..a /\ Divides(GCD(a, b), a) /\ Divides(GCD(a, b), b)
    BY GCDIs
  <2> QED
    BY <2>1
<1>2. PICK k \in Nat : a = g * k
  BY <1>1, DividesDef
<1>3. PICK l \in Nat : b = g * l
  BY <1>1, DividesDef
<1>4. PICK m \in Nat : m = a * l
  BY Product
<1>5. a * b = g * m
  <2>1. a * b = a * (g * l) /\ a * (g * l) = g * (a * l)
    BY <1>3
  <2> QED
    BY <1>4, <2>1
<1>6. LCM(a, b) = m
  <2>1. a * b \in Nat /\ g * m \in Nat /\ g * m < g * m + g
    BY Product
  <2>2. (a * b) \div g = m
    BY <1>5, <2>1, Quotient
  <2> QED
    BY <1>1, <2>2 DEF LCM
<1>7. m = b * k
  <2>1. b * k = (g * l) * k /\ (g * l) * k = (g * k) * l
    BY <1>3
  <2> QED
    BY <1>2, <1>4, <2>1
<1>8. m # 0
  <2>1. l # 0
    BY <1>3
  <2> QED
    BY <1>4, <2>1, Product
<1> QED
  BY <1>4, <1>6, <1>7, <1>8, DividesDef
\* What the recursive definition in Power says.
Halves(a, n, pow) ==
    pow = [k \in Nat |->
              IF k = 0 THEN 1 % n
              ELSE IF k % 2 = 1 THEN (a * pow[k - 1]) % n
              ELSE LET h == pow[k \div 2] IN (h * h) % n]

\* The power, reduced at every step or at the end.
LEMMA HalvesExp ==
    ASSUME NEW a \in Nat, NEW n \in Nat \ {0}
    PROVE  Halves(a, n, [k \in Nat |-> Exp(a)[k] % n])
<1>1. PICK pow : pow = [k \in Nat |-> Exp(a)[k] % n]
  OBVIOUS
<1>2. \A k \in Nat : pow[k] = Exp(a)[k] % n
  BY <1>1
<1>3. pow[0] = 1 % n
  BY <1>2, ExpDef
<1>4. ASSUME NEW k \in Nat \ {0} PROVE pow[k] = (a * pow[k - 1]) % n
  <2>1. PICK x \in Nat : x = Exp(a)[k - 1] /\ k - 1 \in Nat
    <3>1. k - 1 \in Nat
      OBVIOUS
    <3> QED
      BY <3>1, ExpDef
  <2>2. Exp(a)[k] = a * x
    <3>1. Exp(a)[(k - 1) + 1] = a * Exp(a)[k - 1] /\ (k - 1) + 1 = k
      BY <2>1, ExpDef
    <3> QED
      BY <2>1, <3>1
  <2>3. PICK r \in Nat : r = x % n /\ Same(x, r, n)
    BY SameAsRemainder
  <2>4. Same(a, a, n)
    <3>1. a = a + n * 0
      OBVIOUS
    <3> QED
      BY <3>1 DEF Same
  <2>5. a \in Int /\ x \in Int /\ r \in Int /\ a * x \in Nat /\ a * r \in Nat
    BY Product
  <2>6. Same(a * x, a * r, n)
    BY <2>3, <2>4, <2>5, SameTimes
  <2>7. (a * x) % n = (a * r) % n
    BY <2>5, <2>6, SameRemainder
  <2> QED
    BY <1>2, <2>1, <2>2, <2>3, <2>7
<1>5. ASSUME NEW k \in Nat \ {0}, k % 2 # 1
      PROVE  pow[k] = (pow[k \div 2] * pow[k \div 2]) % n
  <2>1. PICK h \in Nat : h = k \div 2 /\ k = h + h
    <3>1. k \div 2 \in Nat /\ k = (k \div 2) + (k \div 2)
      BY <1>5
    <3> QED
      BY <3>1
  <2>2. PICK x \in Nat : x = Exp(a)[h]
    BY ExpDef
  <2>3. Exp(a)[k] = x * x
    <3>1. Exp(a)[h + h] = Exp(a)[h] * Exp(a)[h]
      BY ExpSum
    <3> QED
      BY <2>1, <2>2, <3>1
  <2>4. PICK r \in Nat : r = x % n /\ Same(x, r, n)
    BY SameAsRemainder
  <2>5. x \in Int /\ r \in Int /\ x * x \in Nat /\ r * r \in Nat
    BY Product
  <2>6. Same(x * x, r * r, n)
    BY <2>4, <2>5, SameTimes
  <2>7. (x * x) % n = (r * r) % n
    BY <2>5, <2>6, SameRemainder
  <2> QED
    BY <1>2, <2>1, <2>2, <2>3, <2>4, <2>7
<1>6. pow = [k \in Nat |-> pow[k]]
  BY <1>1
<1>7. \A k \in Nat : pow[k] = IF k = 0 THEN 1 % n
                              ELSE IF k % 2 = 1 THEN (a * pow[k - 1]) % n
                              ELSE LET h == pow[k \div 2] IN (h * h) % n
  BY <1>3, <1>4, <1>5
<1>8. Halves(a, n, pow)
  BY <1>6, <1>7 DEF Halves
<1> QED
  BY <1>1, <1>8

LEMMA HalvesOnce ==
    ASSUME NEW a, NEW n, NEW f, Halves(a, n, f), NEW g, Halves(a, n, g), NEW k \in Nat
    PROVE  f[k] = g[k]
<1> DEFINE T == {l \in Nat : f[l] = g[l]}
<1>1. ASSUME NEW l \in Nat, \A m \in Nat : m < l => m \in T PROVE l \in T
  <2>1. CASE l = 0
    BY <2>1 DEF Halves
  <2>2. CASE l # 0 /\ l % 2 = 1
    <3>1. f[l - 1] = g[l - 1]
      BY <1>1, <2>2
    <3> QED
      BY <2>2, <3>1 DEF Halves
  <2>3. CASE l # 0 /\ l % 2 # 1
    <3>1. l \div 2 \in Nat /\ l \div 2 < l
      BY <2>3
    <3>2. f[l \div 2] = g[l \div 2]
      BY <1>1, <3>1
    <3> QED
      BY <2>3, <3>2 DEF Halves
  <2> QED
    BY <2>1, <2>2, <2>3
<1> HIDE DEF T
<1>2. Nat \subseteq T
  BY <1>1, StrongInduction
<1> QED
  BY <1>2 DEF T

\* Power is the power, modulo n (BigUint::modpow).
LEMMA PowerIs ==
    ASSUME NEW a \in Nat, NEW n \in Nat \ {0}, NEW e \in Nat
    PROVE  Power(a, e, n) = Exp(a)[e] % n
<1>1. PICK g : g = [k \in Nat |-> Exp(a)[k] % n] /\ Halves(a, n, g)
  BY HalvesExp
<1>2. Power(a, e, n) = (CHOOSE pow : Halves(a, n, pow))[e]
  BY Zenon DEF Power, Halves
<1>3. Halves(a, n, CHOOSE pow : Halves(a, n, pow))
  BY <1>1, Zenon
<1>4. (CHOOSE pow : Halves(a, n, pow))[e] = g[e]
  BY <1>1, <1>3, HalvesOnce
<1> QED
  BY <1>1, <1>2, <1>4

\* With the factors, the exponent may be reduced before the power is taken: the
\* short way leads where the long way leads.
THEOREM ShortWay ==
    ASSUME NEW p \in Nat, IsPrime(p), NEW q \in Nat, IsPrime(q), p # q,
           NEW a \in Nat \ {0}, GCD(a, p * q) = 1, NEW e \in Nat
    PROVE  Power(a, e % LCM(p - 1, q - 1), p * q) = Exp(a)[e] % (p * q)
<1>1. /\ p \in Nat \ {0} /\ q \in Nat \ {0} /\ p * q \in Nat \ {0}
      /\ p - 1 \in Nat \ {0} /\ q - 1 \in Nat \ {0}
  BY Product DEF IsPrime
<1>2. p * q = q * p
  OBVIOUS
<1>3. Divides(p, p * q) /\ Divides(q, p * q)
  BY <1>1, <1>2, DividesDef
<1>4. ~Divides(p, a) /\ ~Divides(q, a)
  BY <1>1, <1>3, CoprimeBase
<1>5. PICK L \in Nat \ {0} : L = LCM(p - 1, q - 1) /\ Divides(p - 1, L) /\ Divides(q - 1, L)
  BY <1>1, LCMIs
<1>6. e % L \in Nat
  BY SameAsRemainder
<1>7. PICK x \in Nat, y \in Nat : x = Exp(a)[e] /\ y = Exp(a)[e % L]
  BY <1>6, ExpDef
<1>8. Same(x, y, p) /\ Same(x, y, q)
  BY <1>4, <1>5, <1>7, ReducedExponent
<1>9. x % (p * q) = y % (p * q)
  BY <1>8, SameForBoth
<1>10. Power(a, e % L, p * q) = y % (p * q)
  BY <1>1, <1>6, <1>7, PowerIs
<1> QED
  BY <1>5, <1>7, <1>9, <1>10

\* One more squaring of a^(2^s).
LEMMA SquareOnce ==
    ASSUME NEW a \in Nat, NEW n \in Nat \ {0}, NEW s \in Nat, NEW v \in Nat,
           v % n = Exp(a)[Exp(2)[s]] % n
    PROVE  (v * v) % n = Exp(a)[Exp(2)[s + 1]] % n
<1>1. PICK t \in Nat : t = Exp(2)[s] /\ Exp(2)[s + 1] = t + t
  <2>1. Exp(2)[s] \in Nat /\ Exp(2)[s + 1] = 2 * Exp(2)[s]
    BY ExpDef
  <2> QED
    BY <2>1
<1>2. PICK x \in Nat : x = Exp(a)[t]
  BY ExpDef
<1>3. Exp(a)[t + t] = x * x
  BY <1>2, ExpSum, ZenonT(60)
<1>4. v \in Int /\ x \in Int /\ v * v \in Nat /\ x * x \in Nat
  BY Product
<1>5. Same(v, x, n)
  BY <1>1, <1>2, SameRemainder
<1>6. Same(v * v, x * x, n)
  BY <1>4, <1>5, SameTimes
<1>7. (v * v) % n = (x * x) % n
  BY <1>4, <1>6, SameRemainder
<1> QED
  BY <1>1, <1>3, <1>7

===============================================================================
