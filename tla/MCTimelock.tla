------------------------------- MODULE MCTimelock -------------------------------
(* Instances of Timelock for TLC: three profiles, five-bit primes.           *)
EXTENDS Timelock

\* Squarings per second of the three profiles, the code's divided by 50,000.
MCRate == <<5, 8, 10>>

MCSalt == <<2>>

Ask(iterations, target, profile, rate) ==
    [iterations |-> iterations, target |-> target, profile |-> profile, rate |-> rate,
     pass |-> None, name |-> None, bits |-> 10]

Delay(amount, unit) == [short |-> FALSE, wide |-> FALSE, amount |-> amount, unit |-> unit]

\* Requests that lock something: by iterations, by a target on a profile, on this
\* machine measured before or now, with a passphrase, with a file name.
Good == {Ask(7, None, 2, None), Ask(1, Delay(1, "s"), None, None),
         [Ask(None, Delay(1, "s"), None, None) EXCEPT !.pass = 1],
         [Ask(None, Delay(2, "s"), 1, None) EXCEPT !.name = <<3>>],
         Ask(None, Delay(1, "s"), CurrentMachine, 9),
         Ask(None, Delay(3, "s"), CurrentMachine, None)}

\* Requests at the edges of delays, iterations, rates and sizes.
Edges == { Ask(None, Delay(a, u), p, r) :
              a \in {0, 1, 6, None}, u \in {"s", "m", "w", "other"},
              p \in {None, 1, CurrentMachine, CurrentMachine + 1}, r \in {None, 0, 1} }
         \cup {Ask(None, [Delay(1, "s") EXCEPT !.short = TRUE], 1, None), Ask(None, None, 1, None),
               Ask(None, [Delay(1, "s") EXCEPT !.wide = TRUE], 1, None),
               Ask(0, None, 1, None), Ask(1, None, CurrentMachine, None), Ask(1, None, 9, None),
               [Ask(1, None, 1, None) EXCEPT !.pass = 0], [Ask(1, None, 1, None) EXCEPT !.bits = 8],
               [Ask(1, None, 1, None) EXCEPT !.bits = 11]}

MCRequests == Good \cup Edges

\* Nothing measured, a rate that rounds down, one that rounds up, one that rounds
\* to nothing.
MCReadings == {<<0, 6>>, <<7, 6>>, <<2, 10>>, <<1, 30>>}
================================================================================
