------------------------------ MODULE Arithmetic ------------------------------
(***************************************************************************)
(* What the puzzle takes from num_bigint, num_integer and num_prime.       *)
(***************************************************************************)
EXTENDS Integers

Divides(d, n) == n % d = 0

\* What a prime generator returns.
IsPrime(p) == p > 1 /\ \A d \in 2..(p - 1) : ~Divides(d, p)

GCD(a, b) == CHOOSE d \in 1..a : /\ Divides(d, a) /\ Divides(d, b)
                                 /\ \A e \in (d + 1)..a : ~(Divides(e, a) /\ Divides(e, b))
LCM(a, b) == (a * b) \div GCD(a, b)

Bits(n) == IF n = 0 THEN 0 ELSE CHOOSE k \in 1..n : 2^(k - 1) <= n /\ n < 2^k

\* a^e mod n, by halving the exponent.
Power(a, e, n) ==
    LET pow[k \in Nat] ==
            IF k = 0 THEN 1 % n
            ELSE IF k % 2 = 1 THEN (a * pow[k - 1]) % n
            ELSE LET h == pow[k \div 2] IN (h * h) % n
    IN  pow[e]

===============================================================================
