-------------------------- MODULE MachineIntegers --------------------------
(***************************************************************************)
(* Two's complement integers of IntBits bits, 32 in the code, and the      *)
(* literals that denote them.                                              *)
(***************************************************************************)
EXTENDS Integers

CONSTANTS
  IntBits, \* the width of an int
  Digits   \* the decimal digits of every literal that occurs

\* Facts of arithmetic for any width of at least one bit.
ASSUME IntBitsAssumption ==
  /\ IntBits \in Nat \ {0} /\ 2^(IntBits - 1) \in Nat \ {0} /\ 2^IntBits = 2 * 2^(IntBits - 1)

MaxInt == 2^(IntBits - 1) - 1
MinInt == -(2^(IntBits - 1))

\* The lower bits of a wide result.
wrap(n) == LET m == n % 2^IntBits IN IF m > MaxInt THEN m - 2^IntBits ELSE m

\* Division towards zero, in Java, in C++ and on the machine.
Magnitude(n) == IF n < 0 THEN -n ELSE n
Truncated(a, b) ==
  LET q == Magnitude(a) \div Magnitude(b) IN IF (a < 0) = (b < 0) THEN q ELSE -q
=============================================================================
