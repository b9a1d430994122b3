----------------------------- MODULE FixedPoint -----------------------------
(***************************************************************************)
(* The parts of the library spl-math (Cargo.lock: 0.1.0) that               *)
(* curve/constant_product.rs calls.  A PreciseNumber is an integer count of *)
(* 1/ONE; in the library ONE is 10^12 and the count is 256 bits wide, so no *)
(* operation on u128 inputs the program reaches overflows and only a zero   *)
(* divisor or a negative difference gives None.                             *)
(***************************************************************************)
EXTENDS Numeric

CONSTANT ONE

ASSUME OneAssumption == ONE \in Nat \ {0, 1}

Precise(n) == n * ONE

\* division and multiplication add half a unit of ONE before they truncate
PreciseDiv(x, y) == IF y = 0 THEN None ELSE Some((x * ONE + ONE \div 2) \div y)
PreciseMul(x, y) == (x * y + ONE \div 2) \div ONE
PreciseSub(x, y) == IF y <= x THEN Some(x - y) ELSE None

\* Newton's iteration x' = (x + a/x) / 2 in the same rounded arithmetic.  The
\* library stops after 100 rounds or when two guesses are within 100/ONE, where
\* with its ONE the next one is the limit; here the limit itself is awaited.
\* An element of the domain is <<a, guess, rounds left>>.
MAX_APPROXIMATION_ITERATIONS == 100

Average(x, y) == ((x + y) * ONE + ONE \div 2) \div Precise(2)

NewtonRoot[q \in Nat \X (Nat \ {0}) \X Nat] ==
    LET a == q[1]  guess == q[2]  rounds == q[3]
        next == Average(guess, (a * ONE + ONE \div 2) \div guess)
    IN  IF rounds = 0 \/ next = guess THEN guess
        ELSE NewtonRoot[<<a, next, rounds - 1>>]

PreciseSqrt(x) ==
    IF x = 0 THEN 0
    ELSE NewtonRoot[<<x, Average(x, ONE), MAX_APPROXIMATION_ITERATIONS>>]

\* floor().to_imprecise() and ceiling().to_imprecise(), whose result is a u128
ToInteger(x, round) ==
    Checked(IF round = "Ceiling" THEN (x + ONE - 1) \div ONE ELSE x \div ONE)

CeilDiv(n, d) == IF n % d = 0 THEN n \div d ELSE n \div d + 1

\* checked_ceil_div: the quotient rounded up, with the least divisor that
\* still gives it; None when the quotient is below one.
CheckedCeilDiv(n, d) ==
    IF d = 0 \/ n < d THEN None
    ELSE IF n % d = 0
    THEN Some([quotient |-> n \div d, divisor |-> d])
    ELSE LET q == n \div d + 1
         IN  Some([quotient |-> q, divisor |-> CeilDiv(n, q)])
=============================================================================
