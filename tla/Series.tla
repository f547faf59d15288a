------------------------------- MODULE Series -------------------------------
(***************************************************************************)
(* What a sequence adds up to, from its first element on: texts joined,    *)
(* numbers added, a factor multiplied.  Written as functions of the number *)
(* of elements taken, so that proofs can follow a loop.                    *)
(***************************************************************************)
EXTENDS Naturals, Sequences

\* Joins(parts)[n] is the first n parts, one behind the other.
Joins(parts) ==
    LET upTo[n \in 0 .. Len(parts)] == IF n = 0 THEN <<>> ELSE upTo[n - 1] \o parts[n]
    IN  upTo

Concat(parts) == Joins(parts)[Len(parts)]

\* Sums(numbers)[n] is the sum of the first n numbers.
Sums(numbers) ==
    LET upTo[n \in 0 .. Len(numbers)] == IF n = 0 THEN 0 ELSE upTo[n - 1] + numbers[n]
    IN  upTo

SumOf(numbers) == Sums(numbers)[Len(numbers)]

\* Power(b, n) is b to the n.
Powers(b) ==
    LET upTo[n \in Nat] == IF n = 0 THEN 1 ELSE b * upTo[n - 1]
    IN  upTo

Power(b, n) == Powers(b)[n]

\* The number that digits to a base spell, the least significant first.
Weighted(base, digits) == [k \in 1 .. Len(digits) |-> digits[k] * Power(base, k - 1)]

Worth(base, digits) == SumOf(Weighted(base, digits))
=============================================================================
